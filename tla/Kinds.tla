--------------------------------- MODULE Kinds ---------------------------------
(***************************************************************************)
(* What the kinds of resources on a host have in common.  Each kind is a   *)
(* module of operators, without variables of its own, that Entries or      *)
(* Settings gives a life.                                                  *)
(*                                                                         *)
(* HostsEntry, CronJob, AuthorizedKey, IniValue and LimitsEntry keep one   *)
(* entry in a text file f that others edit too, and define for Entries     *)
(*   Valid(c)               the configuration is accepted at plan time     *)
(*   Differs(c, s)          a plan for c is not empty in state s           *)
(*   Replaces(c, s)         and it replaces the resource                   *)
(*   Apply(f, c, s)         Create (s = Null) or Update, on file f         *)
(*   Recorded(f, c)         the state that it stores                       *)
(*   Found(f, s)            Read: the state refreshed from f, or Null      *)
(*   Imports                what an import ID can say                      *)
(*   Imported(f, i)         the state after an import and its refresh      *)
(*   Removal(f, s)          Delete                                         *)
(* and, for the properties only,                                           *)
(*   Rest(f, m)             the lines that are not of the entries in m     *)
(*   InEffect(f, c)         what the program that reads f makes of it      *)
(*                                                                         *)
(* The other kinds change a host h, in several steps, and define for       *)
(* Settings                                                                *)
(*   Valid(h, c), Differs(h, c, s), Replaces(c, s), Imports and            *)
(*   Imported(h, i)         as above                                       *)
(*   Recorded(h, c)         the state that Create and Update store         *)
(*   Found(h, s, applied)   Read: the refreshed state, or Null             *)
(*   Steps(h, x)            the steps of Create (x.state = Null) or Update *)
(*   Undoing(h, x)          the steps of Delete                            *)
(*   Outcomes(s, h, x, r)   what step s can do, with the steps r to follow *)
(*   OnFault(s, h, x, r)    and what follows when its call fails           *)
(* where x has the plan, the prior state, the values of the private state  *)
(* (previous, applied) and the host as the operation read it (old); and,   *)
(* for the properties only,                                                *)
(*   InEffect(h, c)         the host is as c asks, now and after a boot    *)
(*   Rest(h, ...)           what is not the resource's                     *)
(*   Undone(h, ...)         a destroy has left what it should              *)
(* Some define more: Planned(h, c, s), what the plan makes of c; Snapshot, *)
(* what a Create remembers of the host; Boot(h), what the next boot makes  *)
(* of it.  A kind that keeps two resources has its definitions twice, each *)
(* with the name of the resource in front.                                 *)
(***************************************************************************)
EXTENDS Integers, Sequences, SequencesExt

CONSTANT Null            \* no file, no state, no value

\* The indices of the lines that T holds for; those in S, in order; and the
\* lines without S.
Where(lines, T(_)) == {i \in DOMAIN lines : T(lines[i])}
InOrder(lines, S) == SelectSeq([i \in DOMAIN lines |-> i], LAMBDA i : i \in S)
Without(lines, S) ==
    LET keep == InOrder(lines, DOMAIN lines \ S)
    IN  [k \in DOMAIN keep |-> lines[keep[k]]]
First(S) == CHOOSE i \in S : \A j \in S : i <= j
Latest(S) == CHOOSE i \in S : \A j \in S : i >= j

\* The lines of a file that is there or not.
Text(f) == IF f = Null THEN <<>> ELSE f
-------------------------------------------------------------------------------
\* A file with an entry, where it matters what it is instead.
NoDir == [missing |-> "directory"]
NoUser == [missing |-> "user"]                 \* whose home it is in
Refused == [refused |-> "no regular file"]     \* a symlink, for example

WithLines(lines, mode) == [lines |-> lines, mode |-> mode]
Absent(f) == f \in {Null, NoDir, NoUser}
Readable(f) == ~Absent(f) /\ f # Refused
LinesOf(f) == IF Readable(f) THEN f.lines ELSE <<>>

\* The result of an operation: whether it succeeds, and the file.
Done(f) == [ok |-> TRUE, file |-> f]
Error(f) == [ok |-> FALSE, file |-> f]

\* The lines S become a single one, at the place of the first.
Collapse(lines, S, line) == Without([lines EXCEPT ![First(S)] = line], S \ {First(S)})

\* The mode of a file is kept, and that of a new file is the resource's.
Rewritten(f, lines) == WithLines(lines, IF Readable(f) THEN f.mode ELSE "ours")
-------------------------------------------------------------------------------
\* A step that goes on, one that has changed the host, and one that ends the
\* operation with an error, without and with a change before it.  An outcome
\* may have a note, too: what the operation remembers until its end.
Go(h, next) == [host |-> h, next |-> next, failed |-> FALSE, changed |-> FALSE]
Changed(h, next) == [host |-> h, next |-> next, failed |-> FALSE, changed |-> TRUE]
Stop(h) == [host |-> h, next |-> <<>>, failed |-> TRUE, changed |-> FALSE]
Undo(h, next) == [host |-> h, next |-> next, failed |-> TRUE, changed |-> TRUE]

\* A mode, an owner or a content is <<value, spelling>>; one that says the
\* same stays as it is spelled.
Reconciled(configured, actual) ==
    IF configured # Null /\ configured[1] = actual THEN configured ELSE <<actual, actual>>

If(condition, step) == IF condition THEN <<step>> ELSE <<>>
==============================================================================
