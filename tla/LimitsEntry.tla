------------------------------ MODULE LimitsEntry ------------------------------
(***************************************************************************)
(* sysutils_limits: one entry of a file in /etc/security/limits.d.  The    *)
(* domain, the type and the item are one key, which others may have        *)
(* written in upper case; a value is <<number, spelling>>, and a line is   *)
(* [key, value], with key = "comment", "header" or "blank" if it is none.  *)
(***************************************************************************)
EXTENDS Kinds

Entry(key, value) == [key |-> key, value |-> value]
Header == Entry("header", Null)
Blank == Entry("blank", Null)

Lower(key) == IF key = "SOFT NOFILE" THEN "soft nofile" ELSE key
Normalized(value) == value[1]

\* "%" has only limits of logins, and a nice value no unlimited.
ValidKey(key) == key \in {"soft nofile", "soft nice", "% maxlogins"}
ValidValue(key, value) == key = "soft nice" => Normalized(value) # "unlimited"
Valid(c) == ValidKey(c.key) /\ ValidValue(c.key, c.value)

\* Values are compared as pam_limits reads them.
Differs(c, s) == c # s
Replaces(c, s) == c.key # s.key
Recorded(f, c) == c

Entries(lines, key) == Where(lines, LAMBDA l : Lower(l.key) = key)
\* pam_limits takes the last one.
Lookup(lines, key) == lines[Latest(Entries(lines, key))].value

Set(lines, c) ==
    LET S == Entries(lines, c.key)
    IN  IF S = {} THEN Append(lines, Entry(c.key, c.value))
        ELSE IF Normalized(lines[First(S)].value) = Normalized(c.value)
             THEN Without(lines, S \ {First(S)})
             ELSE Collapse(lines, S, Entry(c.key, c.value))

\* A file that the provider created is deleted with its last entry.
OnlyHeader(lines) == lines # <<>> /\ lines[1] = Header /\ \A i \in 2 .. Len(lines) : lines[i] = Blank
Edited(f, lines) ==
    IF lines = LinesOf(f) THEN f
    ELSE IF Absent(f) THEN Rewritten(f, <<Header>> \o lines)
    ELSE IF OnlyHeader(lines) THEN Null
    ELSE Rewritten(f, lines)

\* An entry that is there when the resource is created is refused, because
\* destroying the resource would remove it.
Apply(f, c, prior) ==
    IF f = Refused \/ (prior = Null /\ Entries(LinesOf(f), c.key) # {}) THEN Error(f)
    ELSE Done(Edited(f, Set(LinesOf(f), c)))

Found(f, s) ==
    IF Entries(LinesOf(f), s.key) = {} THEN Null
    ELSE LET v == Lookup(f.lines, s.key)
         IN  [s EXCEPT !.value = IF Normalized(v) = Normalized(s.value) THEN s.value ELSE v]

Imports == {"soft nofile", "soft nice", "% maxlogins"}
Imported(f, key) ==
    IF Entries(LinesOf(f), key) = {} THEN Null ELSE Entry(key, Lookup(f.lines, key))

\* What is no regular file is left alone, with a warning.
Removal(f, s) ==
    IF f = Refused THEN Done(f)
    ELSE Done(Edited(f, Without(LinesOf(f), Entries(LinesOf(f), s.key))))
-------------------------------------------------------------------------------
Rest(f, m) ==
    SelectSeq(LinesOf(f), LAMBDA l :
        l \notin {Header, Blank} /\ ~\E c \in m : Lower(l.key) = c.key)

\* pam_limits applies the entries in order.
InEffect(f, c) ==
    LET S == {i \in DOMAIN LinesOf(f) : Lower(f.lines[i].key) = c.key}
    IN  S # {} /\ f.lines[Latest(S)].value[1] = c.value[1]
==============================================================================
