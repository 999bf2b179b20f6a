------------------------------ MODULE FileContent ------------------------------
(***************************************************************************)
(* sysutils_file and sysutils_template_file: one file with its content,    *)
(* its mode and its owner, written through a descriptor.  host is          *)
(* [file, parent, source, open, read]: Null or [is, content, mode, owner], *)
(* whether the directory is there, what the source file has, whether the   *)
(* descriptor is that of the file that is there, and what an operation has *)
(* read of the source, or Null.  A configuration is                        *)
(* [from, value, version, mode, owner], where from names the attribute     *)
(* the content comes from; a mode, an owner and a content is               *)
(* <<value, spelling>>.  A plan and a state have the checksum, sum, too.   *)
(* applied is what was written from content_wo, [content, drift], or Null. *)
(***************************************************************************)
EXTENDS Kinds

CONSTANTS Unknown        \* a checksum that is not known at plan time

IsText(content) == content # "binary"
Encoded(from) == from = "base64"
Rendered(from) == from \in {"template", "secret template"}

Content(c) == c.value[1]
\* A source that is not there yet may be created before the apply.
Desired(h, c) ==
    CASE c.from = "source" -> IF h.source = Null THEN Unknown ELSE h.source
      [] OTHER -> Content(c)

\* What the state has of the content: neither a source nor a secret that is
\* only written is stored, and content that is no text is left to the checksum.
Refreshed(m, content) ==
    CASE m.from = "none" ->
            [from |-> IF IsText(content) THEN "content" ELSE "base64", value |-> <<content, content>>]
      [] Encoded(m.from) -> [from |-> m.from, value |-> Reconciled(m.value, content)]
      [] m.from \in {"content", "sensitive"} /\ IsText(content) ->
            [from |-> m.from, value |-> <<content, content>>]
      [] OTHER -> [from |-> m.from, value |-> IF m.from \in {"source", "wo"} THEN Null ELSE m.value]
\* Of an imported template it is not known which attribute may have the text.
RefreshedTemplate(m, content) ==
    [from |-> m.from, value |-> IF Rendered(m.from) /\ IsText(content) THEN <<content, content>> ELSE m.value]

Regular(h) == h.file # Null /\ h.file.is = "file"
IsTemplate(m) == Rendered(m.from) \/ m.from = "no template"
Read(h, m) ==
    LET r == IF IsTemplate(m) THEN RefreshedTemplate(m, h.file.content) ELSE Refreshed(m, h.file.content)
    IN  [from |-> r.from, value |-> r.value, version |-> m.version,
         sum |-> IF m.from = "wo" THEN Null ELSE h.file.content,
         mode |-> Reconciled(m.mode, h.file.mode), owner |-> Reconciled(m.owner, h.file.owner)]
\* A refresh that finds something else than a file fails.
Found(h, s, applied) == IF h.file = Null THEN Null ELSE IF Regular(h) THEN Read(h, s) ELSE s
Recorded(h, c) == IF Regular(h) THEN Read(h, c) ELSE c

\* Only a new version shows that content_wo is another; and a file that no
\* longer has what was written is written again.
\* A bug: whatever the file has.
NeedsWriteOnce(s, version, rec) == version # s.version \/ rec = Null
NeedsWrite(s, version, rec) == version # s.version \/ (rec # Null => rec.drift)
Seen(h, rec) == IF rec = Null \/ ~Regular(h) THEN rec ELSE [rec EXCEPT !.drift = h.file.content # rec.content]
Note(h, x) ==
    IF x.plan.from # "wo" THEN Null
    ELSE Seen(h, [content |-> IF x.state = Null \/ NeedsWrite(x.state, x.plan.version, x.applied)
                              THEN Content(x.plan) ELSE x.applied.content, drift |-> FALSE])

Valid(h, c) == TRUE
Planned(h, c, s) ==
    [from |-> c.from, value |-> c.value, version |-> c.version, mode |-> c.mode,
     owner |-> IF c.owner = Null /\ s # Null THEN s.owner ELSE c.owner, sum |-> Desired(h, c)]
Differs(h, c, s, rec) ==
    \/ c.from # s.from \/ c.version # s.version \/ c.mode # s.mode
    \/ c.owner # Null /\ c.owner # s.owner
    \/ c.from \notin {"source", "wo"} /\ c.value # s.value
    \/ IF c.from = "wo" THEN NeedsWrite(s, c.version, rec) ELSE Desired(h, c) # s.sum
Replaces(c, s) == FALSE

\* The mode and the owner are set before anything is written.
\* A bug: after.
WriteFirst == <<"open", "truncate", "write", "owner", "mode">>
Write == <<"open", "owner", "mode", "truncate", "write">>
Metadata == <<"open existing", "owner", "mode">>
Steps(h, x) ==
    If(x.state = Null, "parent")
    \o (IF Rendered(x.plan.from) THEN <<"compare">>
        ELSE IF x.plan.from = "wo" /\ x.state # Null /\ ~NeedsWrite(x.state, x.plan.version, x.applied)
        THEN Metadata
        ELSE If(x.plan.from = "source", "source") \o Write)
    \o <<"read back">>
Undoing(h, x) == <<"unlink">>

\* What is done to the descriptor is lost once the file was replaced.
Through(h, new) == IF h.open THEN [h EXCEPT !.file = new] ELSE h
Open(h, next) ==
    IF ~h.parent \/ (h.file # Null /\ ~Regular(h)) THEN Stop(h)
    ELSE Go([h EXCEPT !.open = TRUE,
                      !.file = IF @ = Null THEN [is |-> "file", content |-> "", mode |-> "0600", owner |-> "us"] ELSE @],
            next)

\* An update leaves the owner that the state has.
SetsOwner(x) == x.plan.owner # Null /\ (x.state # Null => x.plan.owner # x.state.owner)
New(h, c) == IF c.from = "source" THEN h.source ELSE Content(c)

Closed(h) == [h EXCEPT !.open = FALSE, !.read = Null]
\* What was written from a source is compared with the plan, once there is a
\* state that has it.
Checked(h, x) ==
    IF ~Regular(h) THEN Stop(h)
    ELSE IF x.plan.from = "source" /\ x.plan.sum \notin {Unknown, h.read} THEN Undo(Closed(h), <<>>)
    ELSE Go(Closed(h), <<>>)
\* A rendered file that has the content already is not written.
Compared(h, x, next) ==
    IF h.file # Null /\ ~Regular(h) THEN Stop(h)
    ELSE Go(h, (IF Regular(h) /\ h.file.content = Content(x.plan) THEN Metadata ELSE Write) \o next)
Outcomes(step, h, x, r) ==
    CASE step = "parent" -> {Go([h EXCEPT !.parent = TRUE], r)}
      [] step = "compare" -> {Compared(h, x, r)}
      [] step = "source" -> {IF h.source = Null THEN Stop(h) ELSE Go(h, r)}
      [] step = "open" -> {Open(h, r)}
      [] step = "open existing" -> {IF Regular(h) THEN Go([h EXCEPT !.open = TRUE], r) ELSE Stop(h)}
      [] step = "owner" ->
            {IF SetsOwner(x) /\ x.plan.owner[1] = "missing" THEN Stop(h)
             ELSE Go(IF SetsOwner(x) THEN Through(h, [h.file EXCEPT !.owner = x.plan.owner[1]]) ELSE h, r)}
      [] step = "mode" -> {Go(Through(h, [h.file EXCEPT !.mode = x.plan.mode[1]]), r)}
      [] step = "truncate" -> {Go(Through(h, [h.file EXCEPT !.content = ""]), r)}
      [] step = "write" ->
            {Go([Through(h, [h.file EXCEPT !.content = New(h, x.plan)]) EXCEPT
                   !.read = IF x.plan.from = "source" THEN h.source ELSE Null], r)}
      [] step = "read back" -> {Checked(h, x)}
      [] step = "unlink" ->
            {IF h.file # Null /\ h.file.is = "directory" THEN Stop(h) ELSE Go([h EXCEPT !.file = Null], r)}
OnFault(step, h, x, r) == Stop(h)

\* After an import it is not known where the content comes from.
Imported(h, kind) ==
    IF ~Regular(h) THEN Null
    ELSE Read(h, [from |-> IF kind = "template" THEN "no template" ELSE "none", value |-> Null, version |-> Null, mode |-> Null, owner |-> Null])
-------------------------------------------------------------------------------
InEffect(h, c, rec) ==
    /\ Regular(h) /\ h.file.mode = c.mode[1]
    /\ c.owner # Null => h.file.owner = c.owner[1]
    /\ h.file.content = IF c.from = "wo" THEN rec.content ELSE Desired(h, c)

\* What is written is never in a file with another mode or owner.
Covered(h, new, x) ==
    (Regular(new) /\ new.file.content # "" /\ (Regular(h) => h.file.content # new.file.content)) =>
        /\ new.file.mode = x.plan.mode[1]
        /\ SetsOwner(x) => new.file.owner = x.plan.owner[1]

\* The source and what is no file; a destroy removes a symbolic link.
Rest(h, op) ==
    <<h.source, IF h.file # Null /\ h.file.is \in {"directory"} \cup (IF op = "delete" THEN {} ELSE {"symlink"})
                THEN h.file ELSE Null>>
Undone(h) == h.file = Null
\* The content that a failure is to leave.
Boot(h) == IF Regular(h) THEN h.file.content ELSE ""
==============================================================================
