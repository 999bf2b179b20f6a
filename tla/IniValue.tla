------------------------------- MODULE IniValue -------------------------------
(***************************************************************************)
(* sysutils_ini_value: one key in one section of an INI file.  A line is   *)
(* [is, name, value, sep]: a section's header, a key with its value as     *)
(* written with a separator, a comment (name is the key that it comments   *)
(* out, or "text"), or a blank.  A value is a sequence: a line "k = v"     *)
(* that is split at white space has the value <<"=", "v">>.  A state's     *)
(* value is the sequence of all the key's values.                          *)
(***************************************************************************)
EXTENDS Kinds

Line(is, name, value, sep) == [is |-> is, name |-> name, value |-> value, sep |-> sep]
Blank == Line("blank", "", <<>>, "")
HeaderLine(section) == Line("section", section, <<>>, "")
KeyLine(value, sep) == Line("key", "key", value, sep)

\* A key line as it reads when lines are split at sep.
Read(l, sep) ==
    IF l.sep = sep THEN [name |-> l.name, value |-> l.value]
    ELSE IF sep = " " THEN [name |-> l.name, value |-> <<l.sep>> \o l.value]
    ELSE [name |-> "none", value |-> <<>>]

\* A bug: keys are looked for in the whole file.
UnderNone(lines, i) == ""
\* The section that line i is in; headers of one name make one section.
Under(lines, i) ==
    LET H == {j \in 1 .. i - 1 : lines[j].is = "section"}
    IN  IF H = {} THEN "" ELSE lines[Latest(H)].name

Occurrences(lines, c, is) ==
    {i \in DOMAIN lines :
        lines[i].is = is /\ Under(lines, i) = c.section /\ Read(lines[i], c.separator).name = "key"}
Active(lines, c) == Occurrences(lines, c, "key")
CommentedOut(lines, c) == Occurrences(lines, c, "comment")
Values(lines, c) ==
    LET S == InOrder(lines, Active(lines, c))
    IN  [k \in DOMAIN S |-> Read(lines[S[k]], c.separator).value]

ValidValue(v) == \A k \in DOMAIN v : v[k] \notin {" padded", "two\nlines"}
Valid(c) == (c.state = "present" <=> c.value # Null) /\ (c.value # Null => ValidValue(c.value[1]))

Differs(c, s) == c # s
Replaces(c, s) == c.section # s.section
Recorded(f, c) == c

\* A global key without a neighbour goes above the first header and the
\* comments that describe that section.
InsertGlobal(lines, line) ==
    LET H == {i \in DOMAIN lines : lines[i].is = "section"}
        at == First({a \in 1 .. First(H) : \A i \in a .. First(H) - 1 : lines[i].is = "comment"})
    IN  IF H = {} THEN Append(lines, line)
        ELSE InsertAt(InsertAt(lines, at, Blank), at, line)

Inserted(lines, c, line) ==
    LET H == {i \in DOMAIN lines : lines[i].is = "section" /\ lines[i].name = c.section}
        K == {i \in DOMAIN lines : /\ lines[i].is = "key" /\ Under(lines, i) = c.section
                                   /\ H # {} => i > Latest(H)}
        gap == IF lines = <<>> \/ Last(lines).is = "blank" THEN <<>> ELSE <<Blank>>
    IN  CASE CommentedOut(lines, c) # {} -> InsertAt(lines, Latest(CommentedOut(lines, c)) + 1, line)
          [] OTHER ->
             IF c.section # "" /\ H = {} THEN lines \o gap \o <<HeaderLine(c.section), line>>
             ELSE IF K # {} THEN InsertAt(lines, Latest(K) + 1, line)
             ELSE IF H # {} THEN InsertAt(lines, Latest(H) + 1, line)
             ELSE InsertGlobal(lines, line)

\* A line that has the value already keeps its separator.
Ensure(lines, c) ==
    LET S == Active(lines, c)
        line == KeyLine(c.value[1], c.separator)
    IN  IF S = {} THEN Inserted(lines, c, line)
        ELSE IF Values(lines, c)[1] = c.value[1] THEN Without(lines, S \ {First(S)})
        ELSE Collapse(lines, S, line)

Apply(f, c, prior) ==
    IF f = Refused THEN Error(f)
    ELSE IF Absent(f) /\ c.state = "absent" THEN Done(f)
    ELSE IF Absent(f) /\ ~c.create THEN Error(f)
    ELSE Done(Rewritten(f, IF c.state = "present" THEN Ensure(LinesOf(f), c)
                           ELSE Without(LinesOf(f), Active(LinesOf(f), c))))

\* Several values never equal a configured one.
Found(f, s) ==
    LET v == Values(LinesOf(f), s)
    IN  IF v = <<>> THEN [s EXCEPT !.state = "absent"]
        ELSE [s EXCEPT !.state = "present", !.value = v]
\* What an apply reads back before it lets go of the lock.
Verified(f, c) ==
    f # Refused /\ Found(f, c).state = c.state /\ (c.state = "present" => Found(f, c).value = c.value)

\* An import names the section; the separators are tried one by one.
Imports == {"", "s"}
Imported(f, section) ==
    LET m(sep) == [section |-> section, value |-> Null, state |-> "absent",
                   separator |-> sep, create |-> FALSE]
    IN  IF Values(LinesOf(f), m("=")) = <<>> /\ Values(LinesOf(f), m(" ")) # <<>>
        THEN Found(f, m(" ")) ELSE Found(f, m("="))

Removal(f, s) ==
    IF s.state = "absent" \/ Active(LinesOf(f), s) = {} THEN Done(f)
    ELSE Done(Rewritten(f, Without(f.lines, Active(f.lines, s))))
-------------------------------------------------------------------------------
\* The lines with the sections they are in, but for blank lines, the key's
\* own, and headers.
Rest(f, m) ==
    LET lines == LinesOf(f)
        In(i) == LET H == {j \in 1 .. i : lines[j].is = "section"}
                 IN  IF H = {} THEN "" ELSE lines[Latest(H)].name
        own == {i \in DOMAIN lines :
                   \/ lines[i].is \in {"blank", "section"}
                   \/ /\ lines[i].is = "key" /\ lines[i].name = "key"
                      /\ \E c \in m : In(i) = c.section}
        keep == InOrder(lines, DOMAIN lines \ own)
    IN  [k \in DOMAIN keep |-> <<In(keep[k]), lines[keep[k]]>>]

\* Whichever of several occurrences a program takes, it finds the value.
InEffect(f, c) ==
    LET lines == LinesOf(f)
        S == {i \in DOMAIN lines : /\ lines[i].is = "key" /\ Under(lines, i) = c.section
                                   /\ Read(lines[i], c.separator).name = "key"}
    IN  IF c.state = "absent" THEN S = {}
        ELSE S # {} /\ {Read(lines[i], c.separator).value : i \in S} = {c.value[1]}
==============================================================================
