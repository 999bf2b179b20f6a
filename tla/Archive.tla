-------------------------------- MODULE Archive --------------------------------
(***************************************************************************)
(* sysutils_archive_extract: what an archive may contain, and its          *)
(* extraction into a directory that may hold other files.  A path is the   *)
(* sequence of its components.  An archive is the sequence of its entries, *)
(* [name, is, to]: to is the content of a file, the target of a symlink or *)
(* the name a hard link is to.  It is its own checksum.                    *)
(*                                                                         *)
(* host is [source, dest, tree]: the archive or Null at each source,       *)
(* whether the destination is there, and what it holds by path, [is, to,   *)
(* mode, by].  The temporary directory, which only the provider can enter, *)
(* is left out.  A configuration is [source, strip, limit, overwrite,      *)
(* mode]; a plan and a state add [sha, files, created, drifted].  applied  *)
(* are the directories that were there before (privateExistingDirs).  An   *)
(* operation notes what it is to store when it returns.                    *)
(***************************************************************************)
EXTENDS Kinds, SequencesExt, FiniteSets, TLC

CONSTANTS Unknown

maxSymlinkHops == 40
Parents(name) == {SubSeq(name, 1, i) : i \in 1 .. Len(name) - 1}
Absolute(path) == path = <<>> \/ path[1] = "/"

\* normalizeArchiveName; <<>> is what strip_components leaves nothing of.
Escapes(name) == Absolute(name) \/ ".." \in ToSet(name)
Stripped(name, strip) ==
    LET parts == SelectSeq(name, LAMBDA c : c # ".")
    IN  IF Len(parts) <= strip THEN <<>> ELSE SubSeq(parts, strip + 1, Len(parts))

Implicit == [is |-> "dir", to |-> Null, implicit |-> TRUE]
\* One more entry for the manifest m, [tree, count], or Null.
Added(m, e, c) ==
    LET name == Stripped(e.name, c.strip)
        target == Stripped(e.to, c.strip)
        tree == m.tree
        new == Parents(name) \ DOMAIN tree
        entry == IF e.is = "hardlink" THEN tree[target] ELSE [is |-> e.is, to |-> e.to, implicit |-> FALSE]
    IN  CASE m = Null -> Null
          [] m # Null /\ m.count >= c.limit -> Null
          [] Escapes(e.name) -> Null
          [] ~Escapes(e.name) /\ name = <<>> -> [m EXCEPT !.count = @ + 1]
          [] e.is = "symlink" /\ Absolute(e.to) -> Null
          [] e.is = "hardlink" /\ (Escapes(e.to) \/ target \notin {n \in DOMAIN tree : tree[n].is = "file"}) -> Null
          [] \E p \in Parents(name) \cap DOMAIN tree : tree[p].is # "dir" -> Null
          [] m.count + 1 + Cardinality(new) > c.limit -> Null
          [] name \in DOMAIN tree /\ ~(tree[name].is = "dir" /\ e.is = "dir") -> Null
          [] OTHER -> [tree |-> (name :> entry) @@ tree @@ [p \in new |-> Implicit], count |-> m.count + 1 + Cardinality(new)]

\* resolveSymlink: the target stays in the tree if what the archive does not
\* contain is a directory.
\* A bug: only the text of the target is looked at.
RECURSIVE Stays(_, _, _, _)
StaysByName(tree, at, todo, hops) ==
    \A i \in DOMAIN todo :
        Cardinality({j \in 1 .. i : todo[j] = ".."}) <= Len(at) + Cardinality({j \in 1 .. i : todo[j] # ".."})
Stays(tree, at, todo, hops) ==
    IF todo = <<>> THEN TRUE
    ELSE LET next == Append(at, todo[1])
             rest == Tail(todo)
         IN  CASE todo[1] = "." -> Stays(tree, at, rest, hops)
               [] todo[1] = ".." -> at # <<>> /\ Stays(tree, SubSeq(at, 1, Len(at) - 1), rest, hops)
               [] OTHER ->
                    IF next \in DOMAIN tree /\ tree[next].is = "symlink"
                    THEN hops < maxSymlinkHops /\ Stays(tree, at, tree[next].to \o rest, hops + 1)
                    ELSE Stays(tree, next, rest, hops)
Dir(name) == SubSeq(name, 1, Len(name) - 1)

\* What the archive puts below the destination, or Null if it is refused.
Manifest(archive, c) ==
    LET m == FoldLeft(LAMBDA acc, e : Added(acc, e, c), [tree |-> <<>>, count |-> 0], archive)
    IN  IF m = Null THEN Null
        ELSE IF \A n \in DOMAIN m.tree : m.tree[n].is = "symlink" => Stays(m.tree, Dir(n), m.tree[n].to, 0)
        THEN m.tree ELSE Null

Files(m) == {<<n, m[n].is = "dir">> : n \in DOMAIN m}
Names(files) == {f[1] : f \in files}
\* Directories come before what is in them.
Ordered(names) ==
    FoldLeft(LAMBDA acc, k : acc \o SetToSeq({n \in names : Len(n) = k}), <<>>, [k \in 1 .. 3 |-> k])

\* What an entry looks like once it is extracted.
Extracted(e, c) ==
    [is |-> e.is, to |-> e.to, by |-> "us",
     mode |-> IF e.is = "file" /\ c.mode # Null THEN c.mode ELSE "recorded"]
Is(h, n, is) == n \in DOMAIN h.tree /\ h.tree[n].is = is
Below(n) == IF Len(n) = 1 THEN {} ELSE {Dir(n)}
Reachable(h, n) == h.dest /\ \A d \in Below(n) : Is(h, d, "dir")

Settings == {"source", "strip", "limit", "overwrite", "mode"}
SameSettings(c, s) == \A f \in Settings : c[f] = s[f]
\* ModifyPlan; files is Null if the plan fails.
Planned(h, c, s) ==
    LET archive == h.source[c.source]
        m == Manifest(archive, c)
        kept == s # Null /\ s.source = c.source /\ s.strip = c.strip
        computed == CASE archive # Null -> <<archive, IF m = Null THEN Null ELSE Files(m)>>
                      [] archive = Null /\ kept /\ SameSettings(c, s) -> <<s.sha, s.files>>
                      [] OTHER -> <<Unknown, Unknown>>
    IN  c @@ [sha |-> computed[1], files |-> computed[2], drifted |-> FALSE,
              created |-> IF s = Null THEN Unknown ELSE s.created]
Valid(h, c) == TRUE
Differs(h, c, s) == Planned(h, c, s) # s

\* An operation that does not extract has nothing to note.
Recorded(c, s, note, failed) ==
    CASE note = Null -> c
      [] note # Null /\ failed -> [c EXCEPT !.sha = note.sha, !.files = note.files, !.created = note.created]
      [] OTHER -> [c EXCEPT !.sha = note.sha, !.files = Files(Manifest(note.sha, c)), !.created = note.created]

Conforms(h, n, e, s) ==
    /\ Is(h, n, e.is)
    /\ ~e.implicit => h.tree[n].to = e.to /\ h.tree[n].mode = Extracted(e, s).mode
\* The contents are compared if the archive is still at hand.
Drifted(h, s) ==
    LET at == h.source[s.source] = s.sha
        m == IF at THEN Manifest(s.sha, s) ELSE <<>>
    IN  \/ \E n \in DOMAIN m : ~Conforms(h, n, m[n], s)
        \/ \E f \in s.files : f[1] \notin DOMAIN m /\ ~(f[1] \in DOMAIN h.tree /\ f[2] = (h.tree[f[1]].is = "dir"))
Found(h, s, applied) == IF h.dest THEN [s EXCEPT !.drifted = Drifted(h, s)] ELSE Null

Existing(x) == IF x.applied = Null THEN {} ELSE x.applied
Owned(x) == IF x.state = Null THEN {} ELSE Names(x.state.files)
Do(what, of) == [do |-> what, of |-> of]
\* Update extracts again if the result can be another one.
Steps(h, x) ==
    CASE x.plan.files = Null -> <<Do("refuse", Null)>>
      [] x.plan.files # Null /\ x.state # Null /\ ~x.state.drifted
           /\ \A f \in {"sha", "files", "strip", "mode"} : x.plan[f] = x.state[f] -> <<>>
      [] OTHER -> <<Do("open", Null)>>
\* removeExtracted, children first.
Removal(files) ==
    LET order == Ordered(Names(files))
    IN  [i \in DOMAIN order |-> Do("remove", CHOOSE f \in files : f[1] = order[Len(order) + 1 - i])]
Unless(existing, files) == {f \in files : f[1] \notin existing}
Undoing(h, x) ==
    Removal(Unless(Existing(x), x.state.files)) \o If(x.state.created, Do("rmdir", Null))

\* Directories of the manifest m that the archive is merged into, and what
\* is moved: a directory that is new is moved with all that is in it.
Met(h, m) == {n \in DOMAIN m : m[n].is = "dir" /\ Is(h, n, "dir")}
Moved(h, m) == {n \in DOMAIN m \ Met(h, m) : Below(n) \subseteq Met(h, m)}
Conflict(h, x, m) ==
    \E n \in Moved(h, m) \cap DOMAIN h.tree :
        h.tree[n].is = "dir" \/ (n \notin Owned(x) /\ ~x.plan.overwrite)
Subtree(m, n, c) ==
    LET inside == {k \in DOMAIN m : k = n \/ n \in Parents(k)} IN [k \in inside |-> Extracted(m[k], c)]
Move(h, m, x) ==
    [i \in 1 .. Cardinality(DOMAIN m) |->
        LET n == Ordered(DOMAIN m)[i]
        IN  CASE n \in Met(h, m) -> Do(IF m[n].implicit THEN "pass" ELSE "attributes", n)
              [] n \in Moved(h, m) ->
                   Do(CASE n \notin DOMAIN h.tree -> "place" [] n \in DOMAIN h.tree /\ m[n].is = "dir" -> "make room"
                        [] OTHER -> "replace", [name |-> n, tree |-> Subtree(m, n, x.plan)])
              [] OTHER -> Do("pass", n)]
Stored(archive, x, m, existing, created) ==
    [sha |-> archive, files |-> Files(m) \cup (IF x.state = Null THEN {} ELSE x.state.files),
     existing |-> existing, created |-> IF x.state = Null THEN created ELSE x.state.created]
\* A step that changed what is to be stored.
Noted(h, next, note) == [host |-> h, next |-> next, failed |-> FALSE, changed |-> TRUE, note |-> note]
\* After the extraction: the directories that no archive needs are forgotten,
\* and what only the previous one had is removed.
After(archive, x, m, existing, created) ==
    <<Do("installed", Stored(archive, x, m, existing, created))>>
      \o (IF x.state = Null THEN <<>>
          ELSE Removal({f \in Unless(Existing(x), x.state.files) : f[1] \notin DOMAIN m}))

\* A bug: conflicts are found as the entries are moved.
MergeAsMoved(h, x, archive, r) ==
    LET m == Manifest(archive, x.plan)
        existing == Met(h, m) \ Owned(x)
        conflicts == {n \in Moved(h, m) \cap DOMAIN h.tree :
                        h.tree[n].is = "dir" \/ (n \notin Owned(x) /\ ~x.plan.overwrite)}
    IN  Noted(h, SelectSeq(Move(h, m, x), LAMBDA s : s.do \notin {"place", "replace"} \/ s.of.name \notin conflicts)
                   \o If(conflicts # {}, Do("refuse", Null)) \o After(archive, x, m, (Existing(x) \cap DOMAIN m) \cup existing, FALSE),
              Stored(archive, x, m, Existing(x) \cup existing, FALSE))
Merge(h, x, archive, r) ==
    LET m == Manifest(archive, x.plan)
        existing == Met(h, m) \ Owned(x)
    IN  IF Conflict(h, x, m) THEN Stop(h)
        ELSE Noted(h, Move(h, m, x) \o After(archive, x, m, (Existing(x) \cap DOMAIN m) \cup existing, FALSE),
                   Stored(archive, x, m, Existing(x) \cup existing, FALSE))
Install(h, x, archive) ==
    LET m == Manifest(archive, x.plan)
    IN  IF h.dest THEN Stop(h)
        ELSE Noted([h EXCEPT !.dest = TRUE, !.tree = [n \in DOMAIN m |-> Extracted(m[n], x.plan)]],
                   After(archive, x, m, Existing(x) \cap DOMAIN m, TRUE),
                   Stored(archive, x, m, Existing(x), TRUE))
Open(h, x) ==
    LET archive == h.source[x.plan.source]
    IN  CASE archive = Null \/ x.plan.sha \notin {Unknown, archive} -> Stop(h)
          [] archive # Null /\ Manifest(archive, x.plan) = Null -> Stop(h)
          [] OTHER -> Go(h, <<Do(IF h.dest THEN "read" ELSE "install", archive)>>)

Dropped(h, n) == [h EXCEPT !.tree = [k \in DOMAIN @ \ {n} |-> @[k]]]
With(h, tree) == [h EXCEPT !.tree = tree @@ @]
Holds(h, n) == \E k \in DOMAIN h.tree : n \in Parents(k)
Removed(h, f) ==
    IF Reachable(h, f[1]) /\ f[1] \in DOMAIN h.tree /\ f[2] = Is(h, f[1], "dir") /\ ~Holds(h, f[1])
    THEN Dropped(h, f[1]) ELSE h

Outcomes(step, h, x, r) ==
    LET of == step.of
        fails == Undo(h, <<>>)
    IN  CASE step.do = "refuse" -> {Stop(h)}
          [] step.do = "open" -> {Open(h, x)}
          [] step.do = "install" -> {Install(h, x, of)}
          [] step.do = "read" -> {IF h.dest THEN Merge(h, x, of, r) ELSE Stop(h)}
          [] step.do = "pass" -> {Go(h, r)}
          [] step.do = "attributes" ->
                {IF Reachable(h, of) /\ Is(h, of, "dir") THEN Go([h EXCEPT !.tree[of].mode = "recorded"], r) ELSE fails}
          [] step.do = "place" ->
                {IF Reachable(h, of.name) /\ of.name \notin DOMAIN h.tree THEN Go(With(h, of.tree), r) ELSE fails}
          [] step.do \in {"replace", "make room"} ->
                {IF Reachable(h, of.name) /\ ~Is(h, of.name, "dir") THEN Go(With(h, of.tree), r) ELSE fails}
          [] step.do = "installed" -> {Noted(h, r, of)}
          [] step.do = "remove" -> {Go(Removed(h, of), r)}
          [] step.do = "rmdir" -> {Go(IF h.tree = <<>> THEN [h EXCEPT !.dest = FALSE] ELSE h, r)}
\* What is in the way of a directory may be gone already.
OnFault(step, h, x, r) ==
    CASE step.do \in {"refuse", "open", "install", "read"} -> Stop(h)
      [] step.do \in {"pass", "installed"} -> CHOOSE o \in Outcomes(step, h, x, r) : TRUE
      [] step.do = "make room" -> Undo(Dropped(h, step.of.name), <<>>)
      [] OTHER -> Undo(h, <<>>)

Imports == {}
Replaces(c, s) == FALSE
-------------------------------------------------------------------------------
\* What the kernel finds where a link leads: TRUE if it is in the tree.
RECURSIVE Inside(_, _, _, _)
Inside(tree, at, todo, hops) ==
    CASE todo = <<>> \/ hops > maxSymlinkHops -> TRUE
      [] todo # <<>> /\ todo[1] = ".." -> at # <<>> /\ Inside(tree, Dir(at), Tail(todo), hops)
      [] OTHER ->
           LET next == IF todo[1] = "." THEN at ELSE Append(at, todo[1])
           IN  CASE next = <<>> -> Inside(tree, next, Tail(todo), hops)
                 [] next # <<>> /\ next \notin DOMAIN tree -> TRUE
                 [] next \in DOMAIN tree /\ tree[next].is = "symlink" -> Inside(tree, at, tree[next].to \o Tail(todo), hops + 1)
                 [] OTHER -> Inside(tree, next, Tail(todo), hops)

\* The destination holds what the archive has, nothing of a previous one
\* unless in a directory of others' files, and no link that leads out of it.
InEffect(h, s, killed) ==
    LET m == Manifest(s.sha, s)
        ours == {n \in DOMAIN h.tree : h.tree[n].by = "us"}
    IN  /\ h.dest /\ \A n \in DOMAIN m : Conforms(h, n, m[n], s)
        /\ killed \/ \A n \in ours \ DOMAIN m : Is(h, n, "dir") /\ Holds(h, n)
        /\ \A n \in ours : Is(h, n, "symlink") => Inside(h.tree, Dir(n), h.tree[n].to, 0)

\* Others' files, unless they are where an entry is to be or was, and others'
\* directories.
Rest(h, op, x, calm) ==
    LET theirs == {n \in DOMAIN h.tree : h.tree[n].by = "others"}
        kept == {n \in theirs \ Owned(x) : h.tree[n].is # "dir" /\ (op = "delete" \/ ~x.plan.overwrite)}
    IN  {<<n, h.tree[n]>> : n \in kept}
          \cup {<<n, "dir">> : n \in {k \in theirs : calm /\ h.tree[k].is = "dir"}}
Undone(h, s, killed) ==
    killed \/ (/\ \A n \in DOMAIN h.tree : h.tree[n].by = "us" => Is(h, n, "dir") /\ Holds(h, n)
               /\ s.created /\ h.tree = <<>> => ~h.dest)
Boot(h) == <<h.dest, h.tree>>
==============================================================================
