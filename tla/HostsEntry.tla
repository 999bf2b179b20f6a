------------------------------ MODULE HostsEntry ------------------------------
(***************************************************************************)
(* sysutils_hosts_entry: the line of a hosts file that maps an address to  *)
(* names.  An address is <<family, number>>, a name <<name, spelling>>,    *)
(* and a line [addr, names, comment], with addr = Null if it is none.      *)
(* White space and the spelling of addresses are left out.                 *)
(***************************************************************************)
EXTENDS Kinds

Fold(name) == name[1]
Names(l) == {Fold(l.names[k]) : k \in DOMAIN l.names}
LineOf(c) == [addr |-> c.addr, names |-> c.names, comment |-> c.comment]

ValidName(name) == Fold(name) # "invalid"
Distinct(names) == \A j, k \in DOMAIN names : Fold(names[j]) = Fold(names[k]) => j = k
Valid(c) ==
    /\ c.names # <<>> /\ \A k \in DOMAIN c.names : ValidName(c.names[k])
    /\ Distinct(c.names) /\ c.comment # ""

Differs(c, s) == c # s
Replaces(c, s) == FALSE
Recorded(f, c) == c

\* The address and the first name identify the managed line.
Identity(c) == [addr |-> c.addr, canonical |-> Fold(c.names[1])]
Matches(l, id) == l.addr = id.addr /\ Fold(l.names[1]) = id.canonical
\* A bug: the address alone.
MatchesAddress(lines, ids) == Where(lines, LAMBDA l : \E id \in ids : l.addr = id.addr)
Entries(lines, ids) == Where(lines, LAMBDA l : l.addr # Null /\ \E id \in ids : Matches(l, id))

\* A bug: only the first name is looked at.
ConflictsFirst(lines, c, skip) ==
    {i \in DOMAIN lines \ skip :
        /\ lines[i].addr # Null /\ lines[i].addr # c.addr
        /\ lines[i].addr[1] = c.addr[1] /\ Fold(c.names[1]) \in Names(lines[i])}
\* Other lines of the same family that map one of the names elsewhere.
Conflicts(lines, c, skip) ==
    {i \in DOMAIN lines \ skip :
        /\ lines[i].addr # Null /\ lines[i].addr # c.addr
        /\ lines[i].addr[1] = c.addr[1] /\ Names(lines[i]) \cap Names(c) # {}}

Ensure(lines, S, c) ==
    IF S = {} THEN Append(lines, LineOf(c)) ELSE Collapse(lines, S, LineOf(c))

\* The line of the prior state is rewritten in place; one that is already
\* there is taken over.
Apply(f, c, prior) ==
    LET ids == {Identity(c)} \cup (IF prior = Null THEN {} ELSE {Identity(prior)})
        S == Entries(LinesOf(f), ids)
        lines == Ensure(LinesOf(f), S, c)
    IN  IF f \in {Refused, NoDir} \/ (~c.duplicate /\ Conflicts(LinesOf(f), c, S) # {})
        THEN Error(f)
        ELSE Done(Rewritten(f, lines))

StateOf(l, duplicate) ==
    [addr |-> l.addr, names |-> l.names, comment |-> l.comment, duplicate |-> duplicate]
Found(f, s) ==
    LET S == Entries(LinesOf(f), {Identity(s)})
    IN  IF S = {} THEN Null
        ELSE StateOf([f.lines[First(S)] EXCEPT !.addr = s.addr], s.duplicate)

\* An import names the address, and may name the first host name.
Imports == [addr : {<<4, 1>>, <<4, 2>>, <<6, 1>>}, canonical : {"a", "b", Null}]
Imported(f, i) ==
    LET S == Where(LinesOf(f), LAMBDA l :
                 l.addr = i.addr /\ (i.canonical # Null => Fold(l.names[1]) = i.canonical))
    IN  IF S = {} THEN Null ELSE StateOf(f.lines[First(S)], FALSE)

Removal(f, s) ==
    LET S == Entries(LinesOf(f), {Identity(s)})
    IN  IF S = {} THEN Done(f) ELSE Done(Rewritten(f, Without(f.lines, S)))
-------------------------------------------------------------------------------
Rest(f, m) ==
    SelectSeq(LinesOf(f), LAMBDA l :
        ~\E c \in m : l.addr = c.addr /\ l.names[1][1] = c.names[1][1])

\* The resolver returns the first line of the family that maps a name.
Resolve(lines, family, name) ==
    LET S == Where(lines, LAMBDA l : l.addr # Null /\ l.addr[1] = family /\ name \in Names(l))
    IN  IF S = {} THEN Null ELSE lines[First(S)].addr
InEffect(f, c) ==
    /\ Len(SelectSeq(LinesOf(f), LAMBDA l : l = LineOf(c))) = 1
    /\ ~c.duplicate => \A n \in Names(c) : Resolve(LinesOf(f), c.addr[1], n) = c.addr
==============================================================================
