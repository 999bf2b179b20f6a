------------------------------ MODULE FileLine ------------------------------
(***************************************************************************)
(* sysutils_file_line (file_line_resource.go): resources that each keep    *)
(* one line or one block in a file they share, from plan to plan, while    *)
(* the configuration and the file change under them.                       *)
(*                                                                         *)
(* file is Missing, Refused (anything but a regular file) or a text.       *)
(* config[r] is what the configuration asks of resource r and state[r]     *)
(* what Terraform's state says of it; Null is nothing.  Every edit is one  *)
(* step: the lock makes it one for the other resources (SharedFile), and   *)
(* programs that take no lock are the subject of ManagedFile.  The state   *)
(* is saved in a step of its own, after the file was read back, and the    *)
(* lock is held until then.                                                *)
(***************************************************************************)
EXTENDS Integers, FiniteSets, SequencesExt

CONSTANTS
    Blank,          \* the empty line
    Resources,      \* the resources on the file
    Configs,        \* Configs[r]: the fragments r may be configured to be
    InitialTexts,   \* texts of the file at the beginning
    Strays,         \* lines that other programs add
    BodyStrays,     \* lines that other programs put in a block
    Missing, Refused, Null,
    MaxForeign,     \* bound on changes by other programs
    MaxConfigs,     \* bound on changes of the configuration
    MaxKills        \* bound on applies cut short

-------------------------------------------------------------------------------
(***************************************************************************)
(* The editing rules of sysutils_file_line (file_line_edit.go): how a      *)
(* line, or a block of lines between two markers, is found in a text,      *)
(* inserted, replaced and removed.                                         *)
(*                                                                         *)
(* A text is [lines, term]: the lines without their terminators, and       *)
(* whether the last one was terminated.  A regular expression is the set   *)
(* of lines it matches; {} is the absent one.  Indices count from 1, and 0 *)
(* stands for the code's -1.  A fragment is a record                       *)
(*   block  a block, or a single line                                      *)
(*   line   the line                re    the expression that selects one  *)
(*   body   the block's lines       mark  its markers [begin, end]         *)
(*   where  the position at which it is inserted [kind, re]                *)
(*   create whether a missing file is created                              *)
(***************************************************************************)

EmptyText == [lines |-> <<>>, term |-> FALSE]

\* What newFragmentSpec accepts: a block does not contain its own markers.
ValidFragment(f) ==
    f.block => f.mark.begin # f.mark.end /\ {f.mark.begin, f.mark.end} \cap ToSet(f.body) = {}

\* What is read back after t was written: an empty last line without a
\* terminator is no line in the file.
Stored(t) ==
    IF t.term \/ t.lines = <<>> \/ Last(t.lines) # Blank
    THEN [t EXCEPT !.term = t.term /\ t.lines # <<>>]
    ELSE [lines |-> Front(t.lines), term |-> Len(t.lines) > 1]

\* A bug: the line after the replaced range goes too.
SpliceOffByOne(lines, from, to, repl) ==
    SubSeq(lines, 1, from - 1) \o repl \o SubSeq(lines, to + 2, Len(lines))

\* lines with lines[from .. to] replaced by repl; to = from - 1 inserts.
Splice(lines, from, to, repl) ==
    SubSeq(lines, 1, from - 1) \o repl \o SubSeq(lines, to + 1, Len(lines))

Insert(t, at, repl) ==
    IF at > Len(t.lines)
    THEN [lines |-> t.lines \o repl, term |-> TRUE]
    ELSE [t EXCEPT !.lines = Splice(@, at, at - 1, repl)]

Render(f) == IF f.block THEN <<f.mark.begin>> \o f.body \o <<f.mark.end>>
                        ELSE <<f.line>>

SameIdentity(f, g) ==
    /\ f.block = g.block
    /\ IF f.block THEN f.mark = g.mark ELSE f.line = g.line

LastMatch(lines, re) == SelectLastInSeq(lines, LAMBDA l : l \in re)

Found(status, from, to) == [status |-> status, from |-> from, to |-> to]

\* From the first BEGIN marker to the first END marker after it.
LocateBlock(f, lines) ==
    LET i == SelectInSeq(lines, LAMBDA l : l = f.mark.begin)
        j == SelectInSubSeq(lines, i + 1, Len(lines), LAMBDA l : l = f.mark.end)
    IN  IF i = 0 THEN Found("absent", 0, 0)
        ELSE IF j = 0 THEN Found("unterminated", 0, 0)
        ELSE Found("present", i, j)

\* The content of the fragment at loc: the line, or what is between the markers.
Actual(f, lines, loc) ==
    IF f.block THEN SubSeq(lines, loc.from + 1, loc.to - 1)
               ELSE SubSeq(lines, loc.from, loc.to)

\* The last line that matches the expression decides; only if none does, a
\* copy of the line anywhere counts.
LocateLine(f, lines) ==
    LET m == LastMatch(lines, f.re)
        i == SelectInSeq(lines, LAMBDA l : l = f.line)
    IN  IF m # 0 THEN Found("present", m, m)
        ELSE IF i # 0 THEN Found("present", i, i)
        ELSE Found("absent", 0, 0)

Inspect(f, lines) ==
    LET loc == IF f.block THEN LocateBlock(f, lines) ELSE LocateLine(f, lines)
        want == IF f.block THEN f.body ELSE <<f.line>>
    IN  IF loc.status = "present" /\ Actual(f, lines, loc) # want
        THEN [loc EXCEPT !.status = "differs"]
        ELSE loc

InsertionIndex(f, lines) ==
    LET m == LastMatch(lines, f.where.re)
    IN  CASE f.where.kind = "start"             -> 1
          [] f.where.kind = "before" /\ m # 0   -> m
          [] f.where.kind = "after" /\ m # 0    -> m + 1
          [] OTHER                              -> Len(lines) + 1

Edited(t, at, err) == [text |-> t, at |-> at, err |-> err]

\* A bug: content that differs is taken for what was asked.
EnsureIfAbsent(f, t, hint) ==
    LET loc == Inspect(f, t.lines)
        at == IF hint # 0 THEN hint ELSE InsertionIndex(f, t.lines)
    IN  IF loc.status = "absent" THEN Edited(Insert(t, at, Render(f)), at, FALSE)
        ELSE Edited(t, 0, loc.status = "unterminated")

\* Makes f present; an absent fragment goes to hint, if there is one.
Ensure(f, t, hint) ==
    LET loc == Inspect(f, t.lines)
    IN  CASE loc.status = "unterminated" -> Edited(t, 0, TRUE)
          [] loc.status = "present"      -> Edited(t, loc.from, FALSE)
          [] loc.status = "differs"      ->
                Edited([t EXCEPT !.lines = Splice(@, loc.from, loc.to, Render(f))],
                       loc.from, FALSE)
          [] loc.status = "absent"       ->
                LET at == IF hint # 0 THEN hint ELSE InsertionIndex(f, t.lines)
                IN  Edited(Insert(t, at, Render(f)), at, FALSE)

\* A bug: a line is removed by its regexp.
RemoveMatching(f, t) ==
    IF f.block THEN Edited(t, 0, TRUE)
    ELSE Edited([t EXCEPT !.lines = SelectSeq(@, LAMBDA l : l # f.line /\ l \notin f.re)], 0, FALSE)

\* Removes every line equal to f's, or the first block between its markers.
RemoveFragment(f, t) ==
    LET loc == LocateBlock(f, t.lines)
        first == SelectInSeq(t.lines, LAMBDA l : l = f.line)
    IN  CASE f.block /\ loc.status = "unterminated" -> Edited(t, 0, TRUE)
          [] f.block /\ loc.status = "absent"       -> Edited(t, 0, FALSE)
          [] f.block /\ loc.status = "present"      ->
                Edited([t EXCEPT !.lines = Splice(@, loc.from, loc.to, <<>>)],
                       loc.from, FALSE)
          [] ~f.block ->
                Edited([t EXCEPT !.lines = SelectSeq(@, LAMBDA l : l # f.line)],
                       first, FALSE)

-------------------------------------------------------------------------------
\* The resources.

ASSUME ConfigsValid == \A r \in Resources : \A f \in Configs[r] : ValidFragment(f)

VARIABLES file, config, state,
    pc,        \* "written": r has edited the file and not yet saved its state
    quiet,     \* since r's last write no other program touched the file, r was
               \* not configured anew and its apply was not cut short
    foreign, configs, kills

vars == <<file, config, state, pc, quiet, foreign, configs, kills>>

Lines(f) == IF f \in {Missing, Refused} THEN <<>> ELSE f.lines

\* The state after a refresh of m: what the file says of the fragment.
Refreshed(m) ==
    LET lines == Lines(file)
        loc == Inspect(m, lines)
        actual == Actual(m, lines, loc)
    IN  CASE loc.status = "absent"  -> Null
          [] loc.status = "present" -> m
          [] loc.status = "differs" -> IF m.block THEN [m EXCEPT !.body = actual]
                                                  ELSE [m EXCEPT !.line = actual[1]]

Readable(m) ==
    file # Refused /\ Inspect(m, Lines(file)).status # "unterminated"

\* apply's edit of the text: what the previous fragment leaves, and the new one.
Applied(old, new, t) ==
    LET moved == old # Null /\ ~SameIdentity(old, new)
        gone == IF moved THEN RemoveFragment(old, t) ELSE Edited(t, 0, FALSE)
    IN  IF gone.err THEN gone ELSE Ensure(new, gone.text, gone.at)

LockFree == \A q \in Resources : pc[q] = "idle"

Init ==
    /\ file \in InitialTexts \cup {Missing}
    /\ config = [r \in Resources |-> Null]
    /\ state = [r \in Resources |-> Null]
    /\ pc = [r \in Resources |-> "idle"]
    /\ quiet = [r \in Resources |-> FALSE]
    /\ foreign = 0 /\ configs = 0 /\ kills = 0

\* The user changes what r is to be, or takes it out of the configuration.
Configure(r) ==
    /\ configs < MaxConfigs
    /\ pc[r] = "idle"
    /\ \E c \in Configs[r] \cup {Null} : c # config[r] /\ config' = [config EXCEPT ![r] = c]
    /\ configs' = configs + 1
    /\ quiet' = [quiet EXCEPT ![r] = FALSE]
    /\ UNCHANGED <<file, state, pc, foreign, kills>>

\* Read: the state follows the file; a fragment that is gone leaves it.
Refresh(r) ==
    /\ pc[r] = "idle" /\ state[r] # Null /\ Readable(state[r])
    /\ state' = [state EXCEPT ![r] = Refreshed(@)]
    /\ UNCHANGED <<file, config, pc, quiet, foreign, configs, kills>>

\* ImportState and the refresh that follows it: only what identifies the
\* fragment is known, the other attributes are the defaults.
Import(r) ==
    /\ pc[r] = "idle" /\ state[r] = Null /\ config[r] # Null
    /\ LET m == [config[r] EXCEPT !.re = {}, !.body = <<>>, !.create = FALSE,
                                  !.where = [kind |-> "end", re |-> {}]]
       IN  /\ Readable(m) /\ Refreshed(m) # Null
           /\ state' = [state EXCEPT ![r] = Refreshed(m)]
    /\ UNCHANGED <<file, config, pc, quiet, foreign, configs, kills>>

\* Create and Update: apply, up to the write.  The plan has something to do.
Apply(r) ==
    /\ LockFree /\ config[r] # Null /\ state[r] # config[r]
    /\ file # Refused /\ (file = Missing => config[r].create)
    /\ LET t == IF file = Missing THEN EmptyText ELSE file
           e == Applied(state[r], config[r], t)
       IN  /\ ~e.err
           /\ file' = IF e.text # t \/ file = Missing THEN Stored(e.text) ELSE file
    /\ pc' = [pc EXCEPT ![r] = "written"]
    /\ quiet' = [quiet EXCEPT ![r] = TRUE]
    /\ UNCHANGED <<config, state, foreign, configs, kills>>

\* apply, from the refresh on: the state is saved if the fragment is there,
\* and stays as it was on an error.
Save(r) ==
    /\ pc[r] = "written"
    /\ pc' = [pc EXCEPT ![r] = "idle"]
    /\ LET ok == Readable(config[r]) /\ file # Missing /\ Refreshed(config[r]) # Null
       IN  state' = IF ok THEN [state EXCEPT ![r] = Refreshed(config[r])] ELSE state
    /\ UNCHANGED <<file, config, quiet, foreign, configs, kills>>

\* The flush after the rename fails, or the provider is killed: the file is
\* edited and the state is not saved.
Interrupt(r) ==
    /\ pc[r] = "written" /\ kills < MaxKills
    /\ pc' = [pc EXCEPT ![r] = "idle"]
    /\ kills' = kills + 1
    /\ quiet' = [quiet EXCEPT ![r] = FALSE]
    /\ UNCHANGED <<file, config, state, foreign, configs>>

\* Delete: only the fragment is removed; what is no regular file is left alone.
Delete(r) ==
    /\ LockFree /\ config[r] = Null /\ state[r] # Null
    /\ IF file \in {Missing, Refused} THEN UNCHANGED file
       ELSE LET e == RemoveFragment(state[r], file)
            IN  ~e.err /\ file' = IF e.text # file THEN Stored(e.text) ELSE file
    /\ \/ state' = [state EXCEPT ![r] = Null] /\ UNCHANGED kills
       \/ UNCHANGED state /\ kills < MaxKills /\ kills' = kills + 1
    /\ UNCHANGED <<config, pc, quiet, foreign, configs>>

\* Another program replaces the file: by one with a line dropped or added, a
\* line changed, an unterminated last line; by a symlink; or by nothing.
ForeignTexts(t) ==
    LET n == Len(t.lines)
        inBlock(i) == \E r \in Resources : \E f \in Configs[r] :
            LET loc == LocateBlock(f, t.lines)
            IN  f.block /\ loc.status = "present" /\ i \in loc.from .. loc.to
    IN  { Stored([t EXCEPT !.lines = RemoveAt(@, i)]) : i \in 1 .. n }
          \cup { Stored([t EXCEPT !.lines = <<l>> \o @]) : l \in Strays }
          \cup { [lines |-> Append(t.lines, l), term |-> TRUE] : l \in Strays }
          \cup { Stored([t EXCEPT !.lines[i] = l]) : i \in {j \in 1 .. n : ~inBlock(j)}, l \in Strays }
          \cup { [t EXCEPT !.lines = InsertAt(@, i, l)] :
                   i \in {j \in 2 .. n : inBlock(j) /\ inBlock(j - 1)}, l \in BodyStrays }
          \cup { Stored([t EXCEPT !.term = FALSE]) }

Foreign ==
    /\ foreign < MaxForeign
    /\ foreign' = foreign + 1
    /\ file' \in (IF file \in {Missing, Refused} THEN InitialTexts ELSE ForeignTexts(file))
                   \cup {Missing, Refused}
    /\ quiet' = [r \in Resources |-> FALSE]
    /\ UNCHANGED <<config, state, pc, configs, kills>>

Step(r) ==
    Configure(r) \/ Refresh(r) \/ Import(r) \/ Apply(r) \/ Save(r) \/ Interrupt(r) \/ Delete(r)

Next == Foreign \/ \E r \in Resources : Step(r)

Spec == Init /\ [][Next]_vars

\* Terraform is run again and again, and every resource gets its turn.
Fairness ==
    \A r \in Resources :
        WF_vars(Refresh(r)) /\ SF_vars(Apply(r)) /\ WF_vars(Save(r)) /\ SF_vars(Delete(r))

FairSpec == Spec /\ Fairness
-----------------------------------------------------------------------------
\* Types; the file is always what a text reads back as, and the state knows
\* every attribute, imported or not.
TypeOK ==
    /\ file \in {Missing, Refused} \/ file = Stored(file)
    /\ \A r \in Resources :
         /\ config[r] \in Configs[r] \cup {Null}
         /\ state[r] # Null => DOMAIN state[r] = {"block", "line", "re", "body", "mark", "where", "create"}
                            /\ {state[r].block, state[r].create} \subseteq BOOLEAN
         /\ pc[r] \in {"idle", "written"} /\ quiet[r] \in BOOLEAN
    /\ foreign \in 0 .. MaxForeign /\ configs \in 0 .. MaxConfigs /\ kills \in 0 .. MaxKills

Holds(r) == file \notin {Missing, Refused} /\ Inspect(config[r], file.lines).status = "present"

\* After an apply that ended well the fragment is in the file and the state
\* says what the configuration says, whatever the other resources on the
\* file do then: a plan without changes of file or configuration is empty.
Settled ==
    \A r \in Resources : quiet[r] /\ pc[r] = "idle" /\ config[r] # Null =>
        state[r] = config[r] /\ Holds(r)

\* What is left of lines without f's fragment.
Rest(f, lines) ==
    IF f = Null THEN lines
    ELSE IF f.block
    THEN LET loc == LocateBlock(f, lines)
         IN  IF loc.status = "present" THEN Splice(lines, loc.from, loc.to, <<>>) ELSE lines
    ELSE SelectSeq(lines, LAMBDA l : l # f.line /\ l \notin f.re)

Wrote(r) == pc[r] = "idle" /\ pc'[r] = "written"
Removed(r) == config[r] = Null /\ state[r] # Null /\ state'[r] = Null /\ file' # file
NoRegexp(f) == IF f = Null THEN f ELSE [f EXCEPT !.re = {}]

\* An edit keeps every other line, and their order: all but copies of the
\* old line, the old and the new block, and lines the regexp matches.  The
\* exception is an empty line at the end of the file.
OthersKept ==
    [][ \A r \in Resources :
          LET old == NoRegexp(state[r])
              before == IF Wrote(r) THEN Rest(config[r], Rest(old, Lines(file)))
                                    ELSE Rest(old, Lines(file))
              after == IF Wrote(r) THEN Rest(config[r], Lines(file')) ELSE Lines(file')
          IN  Wrote(r) \/ Removed(r) => before \in {after, Append(after, Blank)} ]_vars

\* A resource stands where applies keep failing until someone acts: no
\* regular file, none to create, or a block without its END marker.
Stuck(r) ==
    \/ file = Refused
    \/ config[r] # Null /\ file = Missing /\ ~config[r].create
    \/ \E m \in {config[r], state[r]} \ {Null} : ~Readable(m)

\* Repeated applies converge: once the file and the configuration stop
\* changing, every fragment is in the file, or gone with its resource.
Converges ==
    <>[](\A r \in Resources :
            \/ Stuck(r)
            \/ config[r] = Null /\ state[r] = Null
            \/ config[r] # Null /\ state[r] = config[r] /\ Holds(r))

=============================================================================
