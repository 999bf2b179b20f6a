-------------------------------- MODULE CronJob --------------------------------
(***************************************************************************)
(* sysutils_cron_job: a file in /etc/cron.d that holds one job.  A line is *)
(* [is, name, value]; a job's value is its schedule and its command with   *)
(* the user, an environment setting's is a sequence of characters, and a   *)
(* comment's is its text.  A schedule is its first field; a comment in the *)
(* configuration is the sequence of its lines, and <<"">> the empty one.   *)
(***************************************************************************)
EXTENDS Kinds

Line(is, name, value) == [is |-> is, name |-> name, value |-> value]
Header == Line("comment", "header", "")
CommentLine(text) == Line("comment", "text", text)
NoJob == <<>>

\* The minute, [star, lo, hi, step]: "*", a value or a range, each with an
\* optional step (0: none).
ValidField(i) ==
    /\ i.step \in 0 .. 59
    /\ i.step # 0 => i.star \/ i.lo # i.hi
    /\ i.star \/ (i.lo \in 0 .. 59 /\ i.hi \in 0 .. 59 /\ i.lo <= i.hi)

Quotes == {"'", "\""}
NeedsQuotes(v) == v = <<>> \/ " " \in ToSet(v) \/ v[1] \in Quotes
Valid(c) ==
    /\ ValidField(c.schedule)
    /\ c.env # Null => \A k \in DOMAIN c.env :
           ~(NeedsQuotes(c.env[k][2]) /\ Quotes \subseteq ToSet(c.env[k][2]))

Quoted(v) ==
    IF ~NeedsQuotes(v) THEN v
    ELSE LET q == IF "\"" \in ToSet(v) THEN "'" ELSE "\"" IN <<q>> \o v \o <<q>>
\* cron strips a pair of quotes.
Unquoted(raw) ==
    IF Len(raw) >= 2 /\ raw[1] \in Quotes /\ raw[Len(raw)] = raw[1]
    THEN SubSeq(raw, 2, Len(raw) - 1) ELSE raw

Settings(env) == IF env = Null THEN <<>> ELSE env
Commented(comment) == comment \notin {Null, <<"">>}
Render(c) ==
    <<Header>>
    \o (IF Commented(c.comment) THEN [k \in DOMAIN c.comment |-> CommentLine(c.comment[k])] ELSE <<>>)
    \o [k \in DOMAIN Settings(c.env) |-> Line("env", c.env[k][1], Quoted(c.env[k][2]))]
    \o <<Line("job", "job", <<c.schedule, c.command>>)>>

\* The comment is what starts the file after the header, the environment
\* what precedes the first job; a line that is no job is counted as one.
Parse(lines) ==
    LET body == IF lines # <<>> /\ lines[1] = Header THEN Tail(lines) ELSE lines
        end == First({i \in 1 .. Len(body) + 1 : i > Len(body) \/ body[i].is # "comment"})
        jobs == {i \in DOMAIN body : body[i].is = "job"}
        before == {i \in DOMAIN body : body[i].is = "env" /\ \A j \in jobs : i < j}
        env == InOrder(body, before)
    IN  [comment |-> IF end = 1 THEN Null ELSE [k \in 1 .. end - 1 |-> body[k].value],
         env |-> [k \in DOMAIN env |-> <<body[env[k]].name, Unquoted(body[env[k]].value)>>],
         job |-> IF jobs = {} THEN NoJob ELSE body[First(jobs)].value,
         jobs |-> Len(SelectSeq(body, LAMBDA l : l.is \in {"job", "unparsable"}))]

StateOf(schedule, command, env, comment, f) ==
    [schedule |-> schedule, command |-> command, env |-> env, comment |-> comment, file |-> f]
Recorded(f, c) == StateOf(c.schedule, c.command, c.env, c.comment, WithLines(Render(c), "ours"))
Differs(c, s) == s # Recorded(Null, c)
Replaces(c, s) == FALSE

\* The file is the job's own; its mode and owner become what cron requires.
\* A bug: a create takes over the file that is there.
ApplyOver(f, c, prior) == IF f = Refused THEN Error(f) ELSE Done(WithLines(Render(c), "ours"))
Apply(f, c, prior) ==
    IF f = Refused \/ (prior = Null /\ Readable(f)) THEN Error(f)
    ELSE Done(WithLines(Render(c), "ours"))

ReadEnv(p, s) == IF p.env = <<>> /\ s.env = Null THEN Null ELSE p.env
ReadComment(p, s) ==
    IF p.comment # Null /\ (p.comment # <<"">> \/ s.comment # Null) THEN p.comment
    ELSE IF p.comment = Null /\ Commented(s.comment) THEN Null
    ELSE s.comment
Field(job, k) == IF job = NoJob THEN Null ELSE job[k]
Found(f, s) ==
    IF Absent(f) THEN Null
    ELSE LET p == Parse(f.lines)
         IN  StateOf(Field(p.job, 1), Field(p.job, 2), ReadEnv(p, s), ReadComment(p, s), f)

\* An import names the file, which must hold a job.
Imports == {"name"}
Imported(f, name) ==
    IF Absent(f) \/ Parse(f.lines).job = NoJob THEN Null
    ELSE Found(f, [env |-> Null, comment |-> Null])

Removal(f, s) == IF f = Refused THEN Error(f) ELSE IF Absent(f) THEN Done(f) ELSE Done(Null)
-------------------------------------------------------------------------------
Rest(f, m) == <<>>

\* cron runs one job, at least once an hour, with the environment.
Minutes(i) ==
    {m \in 0 .. 59 : /\ i.star \/ m \in i.lo .. i.hi
                     /\ i.step # 0 => (m - (IF i.star THEN 0 ELSE i.lo)) % i.step = 0}
InEffect(f, c) ==
    /\ f.mode = "ours" /\ Minutes(c.schedule) # {}
    /\ SelectSeq(f.lines, LAMBDA l : l.is \notin {"comment", "env"})
       = <<Line("job", "job", <<c.schedule, c.command>>)>>
    /\ Parse(f.lines).env = Settings(c.env)
==============================================================================
