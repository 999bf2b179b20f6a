----------------------------- MODULE MCFileLine -----------------------------
\* Two resources on one file: r1 a line "port ..." that a regexp selects, or
\* a block; r2 a block whose body changes, or a line without a regexp.
EXTENDS FileLine, TLC

CONSTANTS r1, r2

Marks(n) == [begin |-> "begin" \o n, end |-> "end" \o n]
Where(kind, re) == [kind |-> kind, re |-> re]
Ports == {"port0", "port1", "port2"}
Line(l, re, where) == [block |-> FALSE, line |-> l, re |-> re, body |-> <<>>,
                       mark |-> Marks("0"), where |-> where, create |-> FALSE]
Block(n, body, where) == [block |-> TRUE, line |-> "", re |-> {}, body |-> body,
                          mark |-> Marks(n), where |-> where, create |-> TRUE]

MCConfigs ==
    (r1 :> {Line("port1", Ports, Where("before", {"x"})), Line("port2", Ports, Where("end", {})),
            Block("1", <<"a">>, Where("start", {}))})
    @@ (r2 :> {Block("2", <<"b">>, Where("after", {"x"})), Block("2", <<"c", "b">>, Where("end", {})),
               Line("d", {}, Where("after", {"x"}))})

MCInitialTexts ==
    { Stored([lines |-> l, term |-> t]) :
        l \in {<<>>, <<"x">>, <<"port0", "x">>, <<"x", Blank, "port0">>, <<"port0", "port1">>}, t \in BOOLEAN }

FewConfigs == [r \in Resources |->
    IF r = r1 THEN {Line("port1", Ports, Where("before", {"x"})), Line("port2", Ports, Where("end", {}))}
              ELSE {Block("2", <<"b">>, Where("after", {"x"}))}]
=============================================================================
