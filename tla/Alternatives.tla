----------------------------- MODULE Alternatives -----------------------------
(***************************************************************************)
(* sysutils_alternatives: the alternative that a link group points to.     *)
(* host is [group, untrusted]: Null or [link, mode, value, alternatives],  *)
(* where alternatives maps the registered paths to their priorities; and   *)
(* the paths that somebody but root could change.  A configuration is      *)
(* [path, link, priority, remove]; the state has the mode as well.         *)
(* applied is the path that the resource selected last.                    *)
(***************************************************************************)
EXTENDS Kinds

Registered(h) == IF h.group = Null THEN {} ELSE DOMAIN h.group.alternatives
\* An alternative that was unregistered is not selected.
Selected(h) == IF h.group.value \in Registered(h) THEN h.group.value ELSE Null

Valid(h, c) == c.link # c.path
Manual(c) ==
    [path |-> c.path, link |-> c.link, priority |-> c.priority, remove |-> c.remove, mode |-> "manual"]
Differs(h, c, s) == Manual(c) # s
Replaces(c, s) == FALSE
Recorded(h, c) == Manual(c)

\* In automatic mode the alternative of the highest priority is selected.
Best(alternatives) ==
    CHOOSE p \in DOMAIN alternatives : \A q \in DOMAIN alternatives : alternatives[q] <= alternatives[p]
Auto(group) == [group EXCEPT !.mode = "auto", !.value = Best(group.alternatives)]
Install(h, c) ==
    LET with(alternatives) == (c.path :> c.priority) @@ alternatives
        old == h.group
    IN  IF old = Null
        THEN [link |-> c.link, mode |-> "auto", value |-> c.path, alternatives |-> with(<<>>)]
        ELSE LET new == [old EXCEPT !.link = c.link, !.alternatives = with(@)]
             IN  IF old.mode = "auto" THEN Auto(new) ELSE new
Select(h, p) == [h.group EXCEPT !.mode = "manual", !.value = p]
Unregister(h, p) ==
    LET left == [q \in Registered(h) \ {p} |-> h.group.alternatives[q]]
        new == [h.group EXCEPT !.alternatives = left]
    IN  IF left = <<>> THEN Null
        ELSE IF h.group.mode = "auto" \/ h.group.value = p THEN Auto(new) ELSE new

Steps(h, x) == <<IF x.plan.link = Null THEN "registered?" ELSE "register", "select">>
Undoing(h, x) == <<"return">>

Current(h, c) ==
    /\ c.path \in Registered(h)
    /\ h.group.link = c.link /\ h.group.alternatives[c.path] = c.priority
\* Nothing that somebody but root could change is registered or selected.
Register(h, c, next) ==
    IF Current(h, c) THEN Go(h, next)
    ELSE IF c.path \in h.untrusted THEN Stop(h)
    ELSE IF c.path = "missing" THEN Undo(h, <<>>)
    ELSE Changed([h EXCEPT !.group = Install(h, c)], <<"registered?">> \o next)
\* A bug: the mode is not looked at.
IsSelectedInAnyMode(h, p) == h.group.value = p
IsSelected(h, p) == h.group.mode = "manual" /\ h.group.value = p
Selecting(h, p, next) ==
    IF h.group # Null /\ IsSelected(h, p) THEN Go(h, next)
    ELSE IF p \in h.untrusted THEN Stop(h)
    ELSE IF p \notin Registered(h) THEN Undo(h, <<>>)
    ELSE Changed([h EXCEPT !.group = Select(h, p)], <<"selected?">> \o next)

\* The path of the state may be one that others selected since.
\* A bug: it is what a destroy unregisters.
OursInState(x) == x.state.path
Ours(x) == IF x.applied # Null THEN x.applied ELSE x.state.path
Return(h, x) ==
    IF h.group = Null THEN h
    ELSE IF ~x.state.remove THEN [h EXCEPT !.group = IF @.mode = "auto" THEN @ ELSE Auto(@)]
    ELSE IF Ours(x) \in Registered(h) THEN [h EXCEPT !.group = Unregister(h, Ours(x))] ELSE h

Outcomes(step, h, x, r) ==
    CASE step = "register" -> {Register(h, x.plan, r)}
      [] step = "registered?" -> {IF x.plan.path \in Registered(h) THEN Go(h, r) ELSE Stop(h)}
      [] step = "select" -> {Selecting(h, x.plan.path, r)}
      [] step = "selected?" ->
            {IF x.plan.path \in Registered(h) /\ IsSelected(h, x.plan.path) THEN Go(h, r) ELSE Stop(h)}
      [] step = "return" -> {Go(Return(h, x), r)}
\* A command that fails may have changed the group.
OnFault(step, h, x, r) == IF step \in {"register", "select"} THEN Undo(h, <<>>) ELSE Stop(h)

\* The priority is looked up under the path of the state, before that becomes
\* the one that is selected.
Found(h, s, applied) ==
    IF h.group = Null THEN Null
    ELSE [s EXCEPT !.priority =
                      IF @ # Null /\ s.path \in Registered(h) THEN h.group.alternatives[s.path] ELSE @,
                   !.link = IF @ # Null THEN h.group.link ELSE @,
                   !.path = Selected(h), !.mode = h.group.mode]

Imports == {"name"}
Imported(h, name) ==
    IF h.group = Null THEN Null
    ELSE [path |-> Selected(h), link |-> Null, priority |-> Null, remove |-> FALSE, mode |-> h.group.mode]
-------------------------------------------------------------------------------
\* The link stays on the path whatever is registered later.
InEffect(h, c) ==
    /\ h.group # Null /\ h.group.mode = "manual" /\ Selected(h) = c.path
    /\ c.link # Null => Current(h, c)

Rest(h) == IF h.group = Null THEN {} ELSE {p \in Registered(h) : p = "theirs"}
Undone(h, x) ==
    IF x.state.remove THEN x.applied \notin Registered(h) ELSE h.group # Null => h.group.mode = "auto"
==============================================================================
