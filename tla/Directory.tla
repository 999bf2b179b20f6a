------------------------------- MODULE Directory ------------------------------
(***************************************************************************)
(* sysutils_directory: a directory, and the owner and the modes of what is *)
(* in it.  host is [dir, parent, tree]: Null or [is, mode, owner], whether *)
(* the parent directory is there, and for each name in the tree Null or    *)
(* [is, mode, owner, mounted].  "d/f" is in "d", which may be the mount    *)
(* point of another file system.  A configuration is [mode, owner,         *)
(* parents, force, owners, modes, files]; the state has the number of      *)
(* entries that differ, too.                                               *)
(*                                                                         *)
(* sysutils_symlink: a symbolic link, replaced by a new one that is made   *)
(* beside it.  host is [link, parent, litter]: Null or [is, target, owner],*)
(* whether the directory is there, and how many temporary links there are. *)
(* A configuration is [target, owner], where an owner is                   *)
(* <<value, spelling>>.                                                    *)
(***************************************************************************)
EXTENDS Kinds

Names == {"f", "d", "d/f"}
IsDirectory(e) == e # Null /\ e.is = "directory"
\* Nothing below a mount point is looked at.
Below(h, n) == n = "d/f" => IsDirectory(h.tree["d"]) /\ ~h.tree["d"].mounted
Contents(h) == {n \in Names : h.tree[n] # Null}

\* What an entry is to be; a symbolic link has no mode.
FileMode(c) == IF c.files = Null THEN c.mode[1] ELSE c.files[1]
ModeOf(c, e) == CASE e.is = "directory" -> c.mode[1] [] e.is = "file" -> FileMode(c) [] OTHER -> e.mode
WrongOwner(c, e, owner) == c.owners /\ e.owner # owner
WrongMode(c, e) == c.modes /\ e.mode # ModeOf(c, e)
Differing(h, c) ==
    {n \in Contents(h) : /\ Below(h, n)
                         /\ ~h.tree[n].mounted
                         /\ WrongOwner(c, h.tree[n], h.dir.owner) \/ WrongMode(c, h.tree[n])}

\* A change of the owner takes the setuid bit of a file away, so the mode is
\* set after it, even if it was right before.
Chown(e, owner) == [e EXCEPT !.owner = owner, !.mode = IF @ = "4755" /\ e.is = "file" THEN "0755" ELSE @]
\* A bug: it is set first.
ConformedFirst(c, e, owner) ==
    LET new == IF c.modes THEN [e EXCEPT !.mode = ModeOf(c, e)] ELSE e
    IN  IF WrongOwner(c, e, owner) THEN Chown(new, owner) ELSE new
Conformed(c, e, owner) ==
    LET new == IF WrongOwner(c, e, owner) THEN Chown(e, owner) ELSE e
    IN  IF c.modes THEN [new EXCEPT !.mode = ModeOf(c, e)] ELSE new

DirValid(h, c) == TRUE
DirPlanned(h, c, s) == [c EXCEPT !.owner = IF @ = Null /\ s # Null THEN s.config.owner ELSE @]
\* After an apply everything conforms, so what does not makes a difference.
DirDiffers(h, c, s) == DirPlanned(h, c, s) # s.config \/ s.differing # 0
DirReplaces(c, s) == FALSE
Read(h, c) == [c EXCEPT !.mode = Reconciled(@, h.dir.mode), !.owner = Reconciled(@, h.dir.owner)]
DirRecorded(h, c) == [config |-> IF IsDirectory(h.dir) THEN Read(h, c) ELSE c, differing |-> 0]
\* The tree is compared with the modes that were applied.
DirFound(h, s, applied) ==
    IF h.dir = Null THEN Null
    ELSE IF ~IsDirectory(h.dir) THEN s
    ELSE [config |-> Read(h, s.config), differing |-> Cardinality(Differing(h, s.config))]

DirSteps(h, x) ==
    If(x.state = Null, "mkdir") \o <<"owner", "mode">>
    \o (IF x.plan.owners \/ x.plan.modes THEN <<"read", "f", "d", "d/f">> ELSE <<>>) \o <<"read back">>
DirUndoing(h, x) == <<"remove">>

Made == [is |-> "directory", mode |-> "0755", owner |-> "us"]
Mkdir(h, c, next) ==
    IF IsDirectory(h.dir) THEN Go(h, next)
    ELSE IF h.dir # Null \/ (~h.parent /\ ~c.parents) THEN Stop(h)
    ELSE Go([h EXCEPT !.dir = Made, !.parent = TRUE], next)
SetsOwner(x) == x.plan.owner # Null /\ (x.state # Null => x.plan.owner # x.state.config.owner)
\* The entries get the owner that the directory has when it is opened.
Visited(h, x, n) ==
    IF h.tree[n] = Null \/ ~Below(h, n) \/ h.tree[n].mounted THEN h
    ELSE [h EXCEPT !.tree[n] = Conformed(x.plan, @, x.old.dir.owner)]

\* Without force_destroy only an empty directory goes; a directory on another
\* file system is not entered, but what was removed before it is gone.
RemoveAll(h, next) ==
    IF IsDirectory(h.tree["d"]) /\ h.tree["d"].mounted THEN {Stop(h), Stop([h EXCEPT !.tree["f"] = Null])}
    ELSE {Go([h EXCEPT !.dir = Null, !.tree = [n \in Names |-> Null]], next)}
Removed(h, s, next) ==
    CASE ~IsDirectory(h.dir) -> {Go(h, next)}
      [] s.force -> RemoveAll(h, next)
      [] OTHER -> {IF Contents(h) # {} THEN Stop(h) ELSE Go([h EXCEPT !.dir = Null], next)}

DirOutcomes(step, h, x, r) ==
    CASE step = "mkdir" -> {Mkdir(h, x.plan, r)}
      [] step = "remove" -> Removed(h, x.state.config, r)
      [] step # "mkdir" /\ ~IsDirectory(h.dir) -> {Stop(h)}
      [] step = "owner" ->
            {IF SetsOwner(x) /\ x.plan.owner[1] = "missing" THEN Stop(h)
             ELSE Go(IF SetsOwner(x) THEN [h EXCEPT !.dir.owner = x.plan.owner[1]] ELSE h, r)}
      [] step = "mode" -> {Go([h EXCEPT !.dir.mode = x.plan.mode[1]], r)}
      [] step \in Names -> {Go(Visited(h, x, step), r)}
      [] step \in {"read", "read back"} -> {Go(h, r)}
\* A removal that fails may have got anywhere.
DirOnFault(step, h, x, r) ==
    IF step = "remove" /\ x.state.config.force /\ IsDirectory(h.dir)
    THEN Stop([h EXCEPT !.tree["f"] = Null]) ELSE Stop(h)

DirImports == {"path"}
DirImported(h, id) ==
    IF ~IsDirectory(h.dir) THEN Null
    ELSE DirFound(h, [differing |-> 0,
                   config |-> [mode |-> Null, owner |-> Null, parents |-> TRUE, force |-> FALSE,
                               owners |-> FALSE, modes |-> FALSE, files |-> Null]], Null)
-------------------------------------------------------------------------------
IsLink(h) == h.link # Null /\ h.link.is = "symlink"

\* A target is not empty, and with a root_dir it stays in the tree.
LinkValid(h, c) == c.target # "outside"
LinkPlanned(h, c, s) == [c EXCEPT !.owner = IF @ = Null /\ s # Null THEN s.owner ELSE @]
LinkDiffers(h, c, s) == LinkPlanned(h, c, s) # s
LinkReplaces(c, s) == FALSE
\* Something else in the place of the link is found to be no link.
LinkFound(h, s, applied) ==
    IF IsLink(h) THEN [target |-> h.link.target, owner |-> Reconciled(s.owner, h.link.owner)] ELSE Null
LinkRecorded(h, c) == IF IsLink(h) THEN LinkFound(h, c, Null) ELSE c

\* The new link has its owner before it gets its name.
\* A bug: the old one goes first.
LinkStepsRemoveFirst(h, x) ==
    IF x.state = Null THEN <<"parent", "look", "remove", "temporary", "rename", "read back">>
    ELSE <<"compare", "read back">>
LinkSteps(h, x) ==
    IF x.state = Null THEN <<"parent", "look", "temporary", "rename", "read back">>
    ELSE <<"compare", "read back">>
LinkUndoing(h, x) == <<"unlink">>

Known(x) == x.plan.owner = Null \/ x.plan.owner[1] # "missing"
New(c) == [is |-> "symlink", target |-> c.target, owner |-> IF c.owner = Null THEN "us" ELSE c.owner[1]]
Owned(h, x) == IF x.plan.owner = Null THEN h.link ELSE [h.link EXCEPT !.owner = x.plan.owner[1]]

LinkOutcomes(step, h, x, r) ==
    CASE step = "parent" -> {Go([h EXCEPT !.parent = TRUE], r)}
      [] step = "look" -> {IF h.link = Null \/ IsLink(h) THEN Go(h, r) ELSE Stop(h)}
      [] step = "remove" -> {Go([h EXCEPT !.link = Null], r)}
      [] step = "temporary" -> {IF h.parent /\ Known(x) THEN Go([h EXCEPT !.litter = @ + 1], r) ELSE Stop(h)}
      [] step = "rename" ->
            {IF h.link # Null /\ h.link.is = "directory" THEN Stop([h EXCEPT !.litter = @ - 1])
             ELSE Go([h EXCEPT !.link = New(x.plan), !.litter = @ - 1], r)}
      [] step = "compare" ->
            {CASE h.link = Null -> Go(h, <<"look", "temporary", "rename">> \o r)
               [] h.link # Null /\ ~IsLink(h) -> Stop(h)
               [] IsLink(h) /\ h.link.target # x.plan.target -> Go(h, <<"look", "temporary", "rename">> \o r)
               [] OTHER -> IF Known(x) THEN Go([h EXCEPT !.link = Owned(h, x)], r) ELSE Stop(h)}
      [] step = "read back" -> {IF IsLink(h) THEN Go(h, r) ELSE Stop(h)}
      [] step = "unlink" -> {Go(IF IsLink(h) THEN [h EXCEPT !.link = Null] ELSE h, r)}
\* The temporary link is removed again.
LinkOnFault(step, h, x, r) == Stop(IF step = "rename" THEN [h EXCEPT !.litter = @ - 1] ELSE h)

LinkImports == {"path"}
LinkImported(h, id) == LinkFound(h, [target |-> Null, owner |-> Null], Null)
-------------------------------------------------------------------------------
DirInEffect(h, c) ==
    /\ IsDirectory(h.dir) /\ h.dir.mode = c.mode[1]
    /\ c.owner # Null => h.dir.owner = c.owner[1]
    /\ \A n \in Contents(h) : (n = "d/f" => ~h.tree["d"].mounted) /\ ~h.tree[n].mounted =>
         /\ c.owners => h.tree[n].owner = h.dir.owner
         /\ c.modes /\ h.tree[n].is # "symlink" => h.tree[n].mode = ModeOf(c, h.tree[n])

\* What is no directory, what another file system has, and, unless a destroy
\* may remove them, the entries and what they are.
DirRest(h, op, s) ==
    << IF h.dir # Null /\ ~IsDirectory(h.dir) THEN h.dir ELSE Null,
       IF h.tree["d"] # Null /\ h.tree["d"].mounted THEN <<h.tree["d"], h.tree["d/f"]>> ELSE Null,
       IF op = "delete" /\ s.config.force THEN Null
       ELSE [n \in Contents(h) |-> h.tree[n].is] >>
DirUndone(h) == ~IsDirectory(h.dir)

\* Only a provider that was killed leaves a temporary link.
LinkInEffect(h, c, killed) ==
    /\ IsLink(h) /\ h.link.target = c.target
    /\ c.owner # Null => h.link.owner = c.owner[1]
    /\ killed \/ h.litter = 0

\* What is no link stays, and a link that is there is never missing.
LinkRest(h, op, old) ==
    CASE op = "delete" -> IF IsLink(h) THEN Null ELSE h.link
      [] op # "delete" /\ (old.link = Null \/ h.link = Null) -> Null
      [] OTHER -> h.link.is
LinkUndone(h) == ~IsLink(h)
===============================================================================
