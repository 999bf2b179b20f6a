--------------------------------- MODULE Locale ---------------------------------
(***************************************************************************)
(* sysutils_locale: LANG and the LC_* variables in a locale file, and the  *)
(* compiled locales.  A locale is <<name, spelling>>, an assignment a pair *)
(* <<variable, locale>>, and host is                                       *)
(*   files      "debian" and "conf": Null or lines [name, value], where a  *)
(*              name that is not a variable of ours is "other" or "text"   *)
(*   marker     the distribution is based on Debian                        *)
(*   running    it is the running host, and not a tree below root_dir      *)
(*   tools      "locale-gen", "localedef", "no compiler" or "none" (musl)  *)
(*   listed     the locales in /etc/locale.gen that are not commented out  *)
(*   installed  the names of the compiled locales                          *)
(***************************************************************************)
EXTENDS Kinds

Variables == <<"LANG", "LC_TIME", "LC_PAPER">>
Managed(l) == l.name \in ToSet(Variables)
Normal(locale) == locale[1]
Assignment(name, value) == [name |-> name, value |-> value]

\* The last assignment of a variable wins.
Own(lines, name) == Where(lines, LAMBDA l : l.name = name)
VarsOf(lines) ==
    {<<lines[i].name, lines[i].value>> :
        i \in {Latest(Own(lines, n)) : n \in {m \in ToSet(Variables) : Own(lines, m) # {}}}}
Lang(vars) == IF \E v \in vars : v[1] = "LANG" THEN (CHOOSE v \in vars : v[1] = "LANG")[2] ELSE Null
Categories(vars) == {v \in vars : v[1] # "LANG"}

\* The first assignment of each variable is changed in place, the others are
\* removed, and missing ones are appended, LANG first.
\* A bug: later assignments stay.
SetFirst(lines, vars) ==
    LET Value(n) == (CHOOSE v \in vars : v[1] = n)[2]
        keep == {i \in DOMAIN lines : ~Managed(lines[i]) \/ \E v \in vars : v[1] = lines[i].name}
        changed == [i \in DOMAIN lines |->
            IF i \in keep /\ Managed(lines[i]) /\ i = First(Own(lines, lines[i].name))
            THEN Assignment(lines[i].name, Value(lines[i].name)) ELSE lines[i]]
        missing == SelectSeq(Variables, LAMBDA n : Own(lines, n) = {} /\ \E v \in vars : v[1] = n)
    IN  Without(changed, DOMAIN lines \ keep)
        \o [k \in DOMAIN missing |-> Assignment(missing[k], Value(missing[k]))]
Set(lines, vars) ==
    LET Value(n) == (CHOOSE v \in vars : v[1] = n)[2]
        keep == {i \in DOMAIN lines : ~Managed(lines[i])
                    \/ (i = First(Own(lines, lines[i].name)) /\ \E v \in vars : v[1] = lines[i].name)}
        changed == [i \in DOMAIN lines |->
            IF i \in keep /\ Managed(lines[i]) THEN Assignment(lines[i].name, Value(lines[i].name))
            ELSE lines[i]]
        missing == SelectSeq(Variables, LAMBDA n : Own(lines, n) = {} /\ \E v \in vars : v[1] = n)
    IN  Without(changed, DOMAIN lines \ keep)
        \o [k \in DOMAIN missing |-> Assignment(missing[k], Value(missing[k]))]
Empty(lines) == \A i \in DOMAIN lines : lines[i].name = "text"
Written(f, vars, removeEmpty) ==
    LET lines == Set(Text(f), vars) IN IF removeEmpty /\ Empty(lines) THEN Null ELSE lines

Valid(h, c) ==
    /\ c.lang[1] # "not a locale" /\ (c.lc # Null => \A v \in c.lc : v[1] # "LC_ALL")
    /\ c.generate => h.running
Vars(c) == {<<"LANG", c.lang>>} \cup (IF c.lc = Null THEN {} ELSE c.lc)
Needed(c) == {Normal(v[2]) : v \in Vars(c)}

\* /etc/default/locale can be a link to /etc/locale.conf; that is left out.
Detected(h) ==
    IF h.files["debian"] # Null THEN "debian" ELSE IF h.files["conf"] # Null THEN "conf"
    ELSE IF h.marker THEN "debian" ELSE "conf"
Planned(c, s) == IF c.path = Null /\ s # Null THEN s.path ELSE c.path
StateOf(c, p) ==
    [lang |-> c.lang, lc |-> c.lc, path |-> p, generate |-> c.generate, restore |-> c.restore]
Resolved(h, c, s) ==
    [c EXCEPT !.path = IF Planned(c, s) = Null THEN Detected(h) ELSE Planned(c, s)]
Recorded(h, c) == StateOf(c, c.path)
Replaces(c, s) == c.path # Null /\ c.path # s.path
Differs(h, c, s) == s # StateOf(c, Planned(c, s))

Snapshot(h, c) ==
    LET f == h.files[c.path] IN [vars |-> VarsOf(Text(f)), exists |-> f # Null]

\* Where locales cannot be listed, the check is only made to generate them.
Steps(h, x) ==
    LET missing == Needed(x.plan) \ h.installed
        compile == CASE h.tools = "locale-gen" -> <<"locale.gen", "locale-gen", "listed">>
                     [] h.tools = "localedef" -> <<"localedef", "listed">>
                     [] OTHER -> <<"refuse">>
    IN  (IF h.running /\ x.plan.generate /\ (missing # {} \/ h.tools = "none") THEN compile ELSE <<>>)
        \o <<"write">>
\* A recorded value that is no locale is never written.
Undoing(h, x) ==
    IF ~x.state.restore \/ x.previous = Null THEN <<>>
    ELSE IF \E v \in x.previous.vars : v[2][1] = "not a locale" THEN <<"refuse">> ELSE <<"vars back">>

Outcomes(step, h, x, r) ==
    LET missing == Needed(x.plan) \ h.installed
    IN  CASE step = "refuse" -> {Stop(h)}
          [] step = "locale.gen" ->
                {IF "unsupported" \in missing THEN Stop(h) ELSE Go([h EXCEPT !.listed = @ \cup missing], r)}
          [] step = "locale-gen" -> {Go([h EXCEPT !.installed = h.listed \cup {"C"}], r)}
          [] step = "localedef" ->
                {IF "unsupported" \in missing THEN Stop([h EXCEPT !.installed = @ \cup (missing \ {"unsupported"})])
                 ELSE Go([h EXCEPT !.installed = @ \cup missing], r)}
          [] step = "listed" -> {IF missing # {} THEN Stop(h) ELSE Go(h, r)}
          [] step = "write" -> {Go([h EXCEPT !.files[x.plan.path] = Written(@, Vars(x.plan), FALSE)], r)}
          [] step = "vars back" ->
                {Go([h EXCEPT !.files[x.state.path] = Written(@, x.previous.vars, ~x.previous.exists)], r)}
OnFault(step, h, x, r) == Stop(h)

Found(h, s, applied) ==
    LET vars == VarsOf(Text(h.files[s.path]))
    IN  [s EXCEPT !.lang = Lang(vars),
                  !.lc = IF Categories(vars) # {} \/ @ # Null THEN Categories(vars) ELSE Null]

Imports == {"system"}
Imported(h, id) ==
    LET s == Found(h, [lang |-> Null, lc |-> Null, path |-> Detected(h), generate |-> FALSE, restore |-> FALSE], Null)
    IN  IF s.lang = Null THEN Null ELSE s
-------------------------------------------------------------------------------
\* A program that reads the file, by whichever assignment, finds the locales,
\* and generated ones are there.
InEffect(h, c) ==
    /\ \E f \in DOMAIN h.files : h.files[f] # Null /\ (c.path # Null => f = c.path)
         /\ {<<l.name, l.value>> : l \in {m \in ToSet(h.files[f]) : m.name \in {"LANG", "LC_TIME", "LC_PAPER"}}}
            = {<<"LANG", c.lang>>} \cup (IF c.lc = Null THEN {} ELSE c.lc)
    /\ c.generate => Needed(c) \subseteq h.installed

Rest(h) ==
    [f \in DOMAIN h.files |->
        SelectSeq(Text(h.files[f]), LAMBDA l : l.name \notin {"LANG", "LC_TIME", "LC_PAPER"})]
Undone(h, s, before) ==
    /\ VarsOf(Text(h.files[s.path])) = VarsOf(Text(before.files[s.path]))
    /\ (h.files[s.path] = Null) = (before.files[s.path] = Null)
==============================================================================
