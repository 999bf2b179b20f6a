--------------------------- MODULE SharedFileProofs ---------------------------
(***************************************************************************)
(* Proofs about ManagedFile and SharedFile, for any number of editors,     *)
(* inodes, changes and faults.  First the system calls: readers find a     *)
(* complete file and a failed cycle leaves no trace; for one editor at a   *)
(* time, which is what the lock is for, what is replaced is what was read, *)
(* with its attributes, and what was reported survives.  Then the lock: it *)
(* serialises the edits of a file, and what the resources do under it      *)
(* amounts to edits that happen at once (AtomicEdits).                     *)
(***************************************************************************)
EXTENDS SharedFile, FiniteSetTheorems, TLAPS

Sizes == {0} \cup {Cardinality(L) : L \in SUBSET Marks}
AnInode == [lines : SUBSET Marks, whole : BOOLEAN, mode : Modes \cup {Private},
            acl : Acls, stamp : Nat, synced : BOOLEAN]
ASnapshot == [ino : Inodes \cup {None}, stamp : Nat, mode : Modes \cup {Private}, size : Sizes]
AText == [lines : SUBSET Marks, acl : Acls]

Types ==
  /\ site \in [dropIn : BOOLEAN, mounted : BOOLEAN, removeEmpty : BOOLEAN]
  /\ entry \in Inodes \cup {None} /\ diskEntry \in Inodes \cup {None}
  /\ inode \in [Inodes -> AnInode] /\ clock \in Nat
  /\ tmp \in [Editors -> Inodes \cup {None}] /\ litter \in Nat
  /\ pc \in [Editors -> PCs] /\ op \in [Editors -> {"add", "remove", "create"}]
  /\ snap \in [Editors -> ASnapshot] /\ text \in [Editors -> AText]
  /\ unseen \in [Editors -> BOOLEAN] /\ effect \in [Editors -> {"none", "made", "flushed"}]
  /\ result \in [Editors -> {"add", "remove", "create", "error", None}]
  /\ changes \in Nat /\ faults \in Nat /\ outages \in Nat

\* Where an editor has a temporary file.
Holding == {"attrs", "write", "sync", "tool", "check", "rename", "inplace", "chattr",
            "truncate", "rewrite", "fsync", "tidy", "cleanup"}

(* The path never refers to a temporary file, and no two editors have the  *)
(* same one.  A mount point stays where it is.                             *)
Apart ==
  /\ \A e \in Editors : tmp[e] # None => tmp[e] \notin {entry, diskEntry}
  /\ \A e, f \in Editors : tmp[e] # None /\ tmp[e] = tmp[f] => e = f
  /\ Mounted => entry # None /\ diskEntry = entry

(* What the path refers to, before and after a loss of power, is complete  *)
(* and flushed.                                                            *)
Durable ==
  ~Mounted => \A i \in {entry, diskEntry} \ {None} : inode[i].whole /\ inode[i].synced

(* An editor's temporary file is complete, and has what the steps so far   *)
(* gave it.  Only a mount point is rewritten.                              *)
Prepared(e) ==
  /\ pc[e] \in Holding <=> tmp[e] # None
  /\ tmp[e] # None => inode[tmp[e]].whole
  /\ pc[e] \in {"write", "sync", "tool", "check", "rename"} =>
       /\ inode[tmp[e]].mode = WantMode(e)
       /\ DropIn => inode[tmp[e]].acl = NoAcl
       /\ ~DropIn /\ snap[e].ino # None => inode[tmp[e]].acl = text[e].acl
  /\ pc[e] \in {"sync", "tool", "check", "rename"} => inode[tmp[e]].lines = Edited(e)
  /\ pc[e] \in {"tool", "check", "rename"} => inode[tmp[e]].synced
  /\ Reading(e) => snap[e].ino # None
  /\ pc[e] = "inplace" => Mounted
  /\ InPlace(e) => Mounted /\ snap[e].ino = entry

(* The path changes with the last steps of a cycle, which do not fail.     *)
Unanswered(e) ==
  /\ pc[e] # "idle" => result[e] = None
  /\ ~Mounted /\ (pc[e] \notin {"idle", "syncdir"} \/ result[e] = "error") => effect[e] = "none"

Own(e) == Prepared(e) /\ Unanswered(e)

Littered == litter <= faults + outages * Cardinality(Editors)

FileInv == Types /\ Apart /\ Durable /\ (\A e \in Editors : Own(e)) /\ Littered

-----------------------------------------------------------------------------
(* One editor at a time, as the lock has it (SharedFile).                   *)

Alone == \A e, f \in Editors : e = f

\* The path refers to what was read, as far as the snapshot tells.
Looks(e) == snap[e].ino # None /\ entry = snap[e].ino /\ SnapshotOf(entry) = snap[e]

\* What has been read: a drop-in that is removed is not.
HasData(e) ==
  \/ pc[e] \in {"xattrs", "mkdir", "create", "attrs", "write", "sync", "tool", "check",
                "rename", "inplace", "chattr"}
  \/ pc[e] \in {"rmcheck", "unlink"} /\ ~DropIn
HasAll(e) == HasData(e) /\ pc[e] # "xattrs"
Checked(e) == (pc[e] \in {"rename", "unlink"} /\ ~Mounted) \/ pc[e] = "chattr"

(* As long as no change went unnoticed, a file that looks as it did when   *)
(* it was read is what was read, and from the last check on it does.       *)
Aware(e) ==
  /\ pc[e] \in {"idle", "open", "mkdir"} => snap[e].ino = None
  /\ pc[e] \in {"rmcheck", "unlink"} => snap[e].ino # None /\ op[e] = "remove"
  /\ pc[e] = "syncdir" => ~Mounted
  /\ ~unseen[e] =>
       /\ Looks(e) /\ HasData(e) => inode[entry].lines = text[e].lines
       /\ Looks(e) /\ HasAll(e) => inode[entry].acl = text[e].acl
       /\ Checked(e) => Unchanged(e)
       /\ pc[e] = "truncate" =>
            /\ inode[entry].lines = text[e].lines
            /\ DropIn => inode[entry].mode = NewMode /\ inode[entry].acl = NoAcl

(* What was done is in the file, and once it is flushed it is on the disk. *)
Done(e) ==
  /\ op[e] \in {"add", "create"} => e \in Content
  /\ op[e] = "remove" => e \notin Content
Flushed == diskEntry = entry /\ (entry # None => inode[entry].synced)
Surviving(e) ==
  changes = 0 =>
    /\ effect[e] = "flushed" /\ pc[e] = "idle" => Reported(e) /\ Flushed
    /\ effect[e] = "flushed" => pc[e] \in {"idle", "tidy"}
    /\ pc[e] \in {"syncdir", "fsync"} => Done(e)
    /\ pc[e] = "tidy" => Done(e) /\ Flushed

AloneInv == FileInv /\ \A e \in Editors : Aware(e) /\ Surviving(e)

-----------------------------------------------------------------------------
(* What a step changes of an inode r: q is what it becomes.                *)
WithAttrs(q, r, m, a) ==
  /\ q \in AnInode /\ q.mode = m /\ q.acl = a
  /\ q.lines = r.lines /\ q.whole = r.whole /\ q.synced = r.synced
WithLines(q, r, L) ==
  /\ q \in AnInode /\ q.lines = L
  /\ q.mode = r.mode /\ q.acl = r.acl /\ q.whole = r.whole /\ q.synced = r.synced

LEMMA Attributes ==
  ASSUME NEW r \in AnInode, NEW m \in Modes \cup {Private}, NEW a \in Acls
  PROVE  WithAttrs([r EXCEPT !.mode = m, !.acl = a], r, m, a)
  BY DEF WithAttrs, AnInode

LEMMA Lines ==
  ASSUME NEW r \in AnInode, NEW L \in SUBSET Marks, NEW t \in Nat
  PROVE  WithLines([r EXCEPT !.lines = L, !.stamp = t], r, L)
  BY DEF WithLines, AnInode

LEMMA Stamped ==
  ASSUME NEW r \in AnInode, NEW t \in Nat
  PROVE  WithLines([r EXCEPT !.stamp = t], r, r.lines)
  BY DEF WithLines, AnInode

LEMMA Synced ==
  ASSUME NEW r \in AnInode, NEW q, q = [r EXCEPT !.synced = TRUE]
  PROVE  /\ q \in AnInode /\ q.lines = r.lines /\ q.stamp = r.stamp
         /\ q.mode = r.mode /\ q.acl = r.acl /\ q.whole = r.whole /\ q.synced
  BY DEF AnInode

-----------------------------------------------------------------------------
(* A step of an editor.                                                    *)

\* What the others have is as it was.
Spared(f) ==
  /\ pc'[f] = pc[f] /\ tmp'[f] = tmp[f] /\ op'[f] = op[f]
  /\ snap'[f] = snap[f] /\ text'[f] = text[f]
  /\ result'[f] = result[f] /\ effect'[f] = effect[f]
  /\ tmp[f] # None => inode'[tmp[f]] = inode[tmp[f]]

LEMMA SparedOwn ==
  ASSUME Types, NEW f \in Editors, Own(f), Spared(f), UNCHANGED site, Mounted => entry' = entry
  PROVE  Own(f)'
<1>1. Prepared(f)'
  BY DEF Own, Prepared, Spared, WantMode, Edited, DropIn, Mounted, Reading, InPlace, Holding
<1>2. Unanswered(f)'
  BY DEF Own, Unanswered, Spared, Mounted
<1> QED
  BY <1>1, <1>2 DEF Own

\* A step that neither touches a file nor takes or gives up a temporary one.
Quiet(e) ==
  /\ UNCHANGED <<entry, diskEntry, inode, tmp, site>>
  /\ \A f \in Editors \ {e} : Spared(f)

LEMMA QuietStep ==
  ASSUME Types, Apart, Durable, \A f \in Editors : Own(f), NEW e \in Editors, Quiet(e), Own(e)'
  PROVE  Apart' /\ Durable' /\ \A f \in Editors : Own(f)'
<1>1. Apart' /\ Durable'
  BY DEF Quiet, Apart, Durable, Mounted
<1>2. \A f \in Editors : Own(f)'
  BY SparedOwn DEF Quiet
<1> QED
  BY <1>1, <1>2

\* The part of Types about the cycles, and that only e's is another one.
Cycles ==
  /\ pc \in [Editors -> PCs] /\ op \in [Editors -> {"add", "remove", "create"}]
  /\ snap \in [Editors -> ASnapshot] /\ text \in [Editors -> AText]
  /\ unseen \in [Editors -> BOOLEAN]
  /\ result \in [Editors -> {"add", "remove", "create", "error", None}]
Others(e) ==
  \A f \in Editors \ {e} :
    /\ pc'[f] = pc[f] /\ op'[f] = op[f] /\ snap'[f] = snap[f] /\ text'[f] = text[f]
    /\ unseen'[f] = unseen[f] /\ result'[f] = result[f]

LEMMA Returned ==
  ASSUME Types, NEW e \in Editors, NEW r \in {"add", "remove", "create", "error"}, Return(e, r)
  PROVE  Cycles' /\ Others(e) /\ pc'[e] = "idle" /\ result'[e] = r
<1> USE FileAssumption DEF FileAssumption
<1>1. NoSnap \in ASnapshot /\ NoText \in AText /\ "idle" \in PCs
  BY DEF NoSnap, NoText, ASnapshot, AText, Sizes, PCs
<1> QED
  BY <1>1 DEF Return, Goto, Types, Cycles, Others

LEMMA Stayed ==
  ASSUME Types, NEW e \in Editors, NEW l \in PCs, Goto(e, l), UNCHANGED <<plan, unseen, result>>
  PROVE  Cycles' /\ Others(e) /\ pc'[e] = l
  BY DEF Goto, plan, Types, Cycles, Others

LEMMA QuietTypes ==
  ASSUME Types, Cycles', UNCHANGED <<site, entry, diskEntry, inode, clock, tmp, litter, effect>>,
         UNCHANGED bounds \/ Fault
  PROVE  Types'
<1>1. changes' \in Nat /\ faults' \in Nat /\ outages' \in Nat
  BY DEF Types, Fault, bounds
<1> QED
  BY <1>1 DEF Types, Cycles

LEMMA Quietly ==
  ASSUME Types, NEW e \in Editors, Others(e),
         UNCHANGED <<site, entry, diskEntry, inode, clock, tmp, litter, effect>>
  PROVE  Quiet(e)
  BY DEF Quiet, Others, Spared

LEMMA SnapshotTyped ==
  ASSUME Types, NEW i \in Inodes
  PROVE  SnapshotOf(i) \in ASnapshot /\ SnapshotOf(i).ino = i
<1>1. inode[i] \in AnInode
  BY DEF Types
<1> QED
  BY <1>1 DEF SnapshotOf, ASnapshot, AnInode, Sizes

LEMMA TextTyped ==
  ASSUME Types, NEW e \in Editors, NEW i \in Inodes
  PROVE  /\ [text[e] EXCEPT !.lines = inode[i].lines] \in AText
         /\ [text[e] EXCEPT !.acl = inode[i].acl] \in AText
<1>1. text[e] \in AText /\ inode[i] \in AnInode
  BY DEF Types
<1>2. inode[i].lines \in SUBSET Marks /\ inode[i].acl \in Acls
  BY <1>1 DEF AnInode
<1>3. ASSUME NEW x \in AText, NEW L \in SUBSET Marks, NEW a \in Acls
      PROVE  [x EXCEPT !.lines = L] \in AText /\ [x EXCEPT !.acl = a] \in AText
  BY DEF AText
<1> QED
  BY <1>1, <1>2, <1>3

LEMMA ReturnedOwn ==
  ASSUME Types, NEW e \in Editors, NEW r \in {"add", "remove", "create", "error"}, Return(e, r),
         tmp'[e] = None, UNCHANGED site, ~Mounted /\ r = "error" => effect'[e] = "none"
  PROVE  Own(e)'
<1>1. pc'[e] = "idle" /\ result'[e] = r
  BY Returned
<1> QED
  BY <1>1 DEF Own, Prepared, Unanswered, Mounted, Reading, InPlace, Holding

(* Steps that leave the disk alone.                                        *)
LEMMA QuietSteps ==
  ASSUME FileInv, NEW e \in Editors, UNCHANGED site,
         \/ OpenAndStat(e) \/ OpenMissing(e) \/ ReadData(e) \/ ReadXattrs(e) \/ MkdirAll(e)
         \/ CheckTool(e) \/ CheckUnchanged(e) \/ RenameRefused(e)
         \/ OpenInPlace(e) \/ CheckRemove(e) \/ CallFails(e)
  PROVE  Types' /\ Quiet(e) /\ Own(e)'
<1> USE FileAssumption DEF FileAssumption
<1> DEFINE Still == /\ UNCHANGED <<site, entry, diskEntry, inode, clock, tmp, litter, effect>>
                    /\ UNCHANGED bounds \/ Fault
<1>q. ASSUME Still, Cycles', Others(e) PROVE Types' /\ Quiet(e)
  BY <1>q, QuietTypes, Quietly DEF FileInv
<1>l. {"idle", "open", "data", "xattrs", "mkdir", "create", "attrs", "write",
       "sync", "tool", "check", "rename", "inplace", "chattr", "truncate",
       "rewrite", "fsync", "tidy", "cleanup", "rmcheck", "unlink", "syncdir"} \subseteq PCs
  BY DEF PCs
<1>o. Own(e)
  BY DEF FileInv
<1>r. ASSUME NEW r \in {"add", "remove", "create", "error"}, Return(e, r), Still, pc[e] \notin Holding,
             r = "error" => pc[e] \notin {"idle", "syncdir"}
      PROVE  Types' /\ Quiet(e) /\ Own(e)'
  <2>1. Types' /\ Quiet(e)
    BY <1>q, <1>r, Returned DEF FileInv
  <2>2. tmp'[e] = None /\ (~Mounted /\ r = "error" => effect'[e] = "none")
    BY <1>r, <1>o DEF Own, Prepared, Unanswered
  <2> QED
    BY <2>1, <2>2, <1>r, ReturnedOwn DEF FileInv
<1>g. ASSUME NEW l \in PCs, Goto(e, l), Still, UNCHANGED <<plan, unseen, result>>,
             l \notin {"idle", "syncdir"}, pc[e] \notin {"idle", "syncdir"},
             \/ {l, pc[e]} \cap Holding = {}
             \/ l = "cleanup" /\ pc[e] \in Holding
             \/ l = "check" /\ pc[e] = "tool"
             \/ l = "rename" /\ pc[e] = "check"
             \/ l = "inplace" /\ pc[e] = "rename" /\ Mounted
             \/ l = "chattr" /\ pc[e] = "inplace" /\ snap[e].ino = entry,
             l \notin {"data", "xattrs"}
      PROVE  Types' /\ Quiet(e) /\ Own(e)'
  <2>1. Types' /\ Quiet(e) /\ pc'[e] = l
    BY <1>q, <1>g, Stayed DEF FileInv
  <2>2. /\ snap'[e] = snap[e] /\ text'[e] = text[e] /\ op'[e] = op[e] /\ result'[e] = result[e]
        /\ effect'[e] = effect[e] /\ tmp'[e] = tmp[e] /\ inode' = inode /\ entry' = entry /\ site' = site
    BY <1>g DEF plan
  <2>3. Unanswered(e)'
    BY <2>1, <2>2, <1>g, <1>o DEF Own, Unanswered, Mounted
  <2>4. Prepared(e)'
    BY <2>1, <2>2, <1>g, <1>o DEF Own, Prepared, Mounted, Reading, InPlace, Holding, WantMode, Edited, DropIn
  <2> QED
    BY <2>1, <2>3, <2>4 DEF Own
<1> HIDE DEF Still
<1>1. CASE OpenAndStat(e)
  <2>1. SnapshotOf(entry) \in ASnapshot /\ SnapshotOf(entry).ino = entry
    BY <1>1, SnapshotTyped DEF OpenAndStat, FileInv, Types
  <2>2. Still
    BY <1>1 DEF OpenAndStat, fileVars, ghosts, Still
  <2>3. Cycles' /\ Others(e) /\ pc'[e] \in {"rmcheck", "data"} /\ snap'[e] = SnapshotOf(entry)
    BY <1>1, <1>l, <2>1 DEF OpenAndStat, Goto, FileInv, Types, Cycles, Others, ghosts
  <2>4. result'[e] = None /\ entry # None /\ effect'[e] = effect[e] /\ tmp'[e] = tmp[e] /\ pc[e] = "open"
    BY <1>1 DEF OpenAndStat, ghosts, FileInv, Own, Unanswered
  <2>5. Own(e)'
    BY <2>1, <2>2, <2>3, <2>4 DEF Own, Prepared, Unanswered, FileInv, Reading, InPlace, Holding, Mounted
  <2> QED
    BY <1>q, <2>2, <2>3, <2>5
<1>2. CASE OpenMissing(e)
  <2>1. Still /\ pc[e] = "open"
    BY <1>2 DEF OpenMissing, fileVars, Still
  <2>2. CASE Return(e, "remove")
    BY <2>1, <2>2, <1>r DEF Holding
  <2>3. CASE Stay(e, "mkdir")
    BY <2>1, <2>3, <1>g, <1>l DEF Holding, Stay
  <2> QED
    BY <1>2, <2>2, <2>3 DEF OpenMissing
<1>3. CASE ReadData(e)
  <2> DEFINE x == [text[e] EXCEPT !.lines = inode[snap[e].ino].lines]
  <2>1. snap[e].ino \in Inodes /\ snap[e].ino # None
    BY <1>3, <1>o DEF ReadData, Own, Prepared, Reading, FileInv, Types, ASnapshot
  <2>2. x \in AText
    BY <2>1, TextTyped DEF FileInv
  <2>3. /\ text' = [text EXCEPT ![e] = x]
        /\ Still /\ pc[e] = "data" /\ Goto(e, "xattrs") /\ UNCHANGED <<op, snap, unseen, result>>
    BY <1>3 DEF ReadData, fileVars, ghosts, Still
  <2> HIDE DEF x
  <2>4. Cycles' /\ Others(e) /\ pc'[e] = "xattrs"
    BY <2>2, <2>3, <1>l DEF Goto, FileInv, Types, Cycles, Others
  <2>5. tmp'[e] = tmp[e] /\ tmp[e] = None /\ effect'[e] = effect[e]
    BY <2>3, <1>o DEF Still, Own, Prepared, Holding
  <2>6. Own(e)'
    BY <2>1, <2>3, <2>4, <2>5, <1>o DEF Own, Prepared, Unanswered, Mounted, Still, Reading, InPlace, Holding
  <2> QED
    BY <1>q, <2>3, <2>4, <2>6 DEF Still
<1>4. CASE ReadXattrs(e)
  <2>1. pc[e] = "xattrs" /\ Still
    BY <1>4 DEF ReadXattrs, fileVars, Still
  <2>2. CASE Return(e, "error") \/ Return(e, op[e])
    BY <2>1, <2>2, <1>r DEF Holding, FileInv, Types
  <2>3. CASE /\ text' = [text EXCEPT ![e].acl = inode[snap[e].ino].acl]
             /\ Goto(e, IF Edited(e) = {} /\ RemoveEmpty THEN "rmcheck" ELSE "create")
             /\ UNCHANGED <<op, snap, unseen, result>>
    <3> DEFINE x == [text[e] EXCEPT !.acl = inode[snap[e].ino].acl]
    <3>1. snap[e].ino \in Inodes /\ snap[e].ino # None
      BY <2>1, <1>o DEF Own, Prepared, Reading, FileInv, Types, ASnapshot
    <3>2. x \in AText
      BY <3>1, TextTyped DEF FileInv
    <3>3. text' = [text EXCEPT ![e] = x] /\ UNCHANGED <<op, snap, unseen, result>>
      BY <2>3
    <3>4. PICK l \in {"rmcheck", "create"} : Goto(e, l)
      BY <2>3
    <3> HIDE DEF x
    <3>5. Cycles' /\ Others(e) /\ pc'[e] = l
      BY <3>2, <3>3, <3>4, <1>l DEF Goto, FileInv, Types, Cycles, Others
    <3>6. tmp'[e] = tmp[e] /\ tmp[e] = None /\ effect'[e] = effect[e]
      BY <2>1, <1>o DEF Still, Own, Prepared, Holding
    <3>7. Own(e)'
      BY <3>1, <3>3, <3>4, <3>5, <3>6, <2>1, <1>o
      DEF Own, Prepared, Unanswered, Mounted, Still, Reading, InPlace, Holding
    <3> QED
      BY <1>q, <2>1, <3>5, <3>7 DEF Still
  <2> QED
    BY <1>4, <2>2, <2>3 DEF ReadXattrs
<1>5. CASE MkdirAll(e)
  <2>1. Still /\ pc[e] = "mkdir" /\ Goto(e, "create") /\ UNCHANGED <<plan, unseen, result>>
    BY <1>5 DEF MkdirAll, ghosts, Still
  <2> QED
    BY <2>1, <1>g, <1>l DEF Holding
<1>6. CASE CheckTool(e)
  <2>1. Still /\ pc[e] = "tool" /\ Goto(e, "check") /\ UNCHANGED <<plan, unseen, result>>
    BY <1>6 DEF CheckTool, ghosts, fileVars, Still
  <2> QED
    BY <2>1, <1>g, <1>l
<1>7. CASE CheckUnchanged(e)
  <2>1. Still /\ pc[e] = "check" /\ UNCHANGED <<plan, unseen, result>>
    BY <1>7 DEF CheckUnchanged, ghosts, fileVars, Still
  <2>2. Goto(e, "rename") \/ Goto(e, "cleanup")
    BY <1>7 DEF CheckUnchanged
  <2> QED
    BY <2>1, <2>2, <1>g, <1>l DEF Holding
<1>8. CASE RenameRefused(e)
  <2>1. Still /\ pc[e] = "rename" /\ UNCHANGED <<plan, unseen, result>>
    BY <1>8 DEF RenameRefused, ghosts, fileVars, Still
  <2>2. (Mounted /\ Goto(e, "inplace")) \/ Goto(e, "cleanup")
    BY <1>8 DEF RenameRefused
  <2> QED
    BY <2>1, <2>2, <1>g, <1>l DEF Holding
<1>9. CASE OpenInPlace(e)
  <2>1. Still /\ pc[e] = "inplace" /\ UNCHANGED <<plan, unseen, result>>
    BY <1>9 DEF OpenInPlace, ghosts, fileVars, Still
  <2>2. CASE Unchanged(e)
    <3>1. snap[e].ino = entry
      BY <2>2, SnapshotTyped DEF Unchanged, FileInv, Types
    <3> QED
      BY <1>9, <2>1, <2>2, <3>1, <1>g, <1>l DEF OpenInPlace
  <2>3. CASE ~Unchanged(e)
    BY <1>9, <2>1, <2>3, <1>g, <1>l DEF OpenInPlace, Holding
  <2> QED
    BY <2>2, <2>3
<1>10. CASE CheckRemove(e)
  <2>1. Still /\ pc[e] = "rmcheck"
    BY <1>10 DEF CheckRemove, fileVars, Still
  <2>2. CASE Return(e, "error")
    BY <2>1, <2>2, <1>r DEF Holding
  <2>3. CASE Stay(e, "unlink")
    BY <2>1, <2>3, <1>g, <1>l DEF Holding, Stay
  <2> QED
    BY <1>10, <2>2, <2>3 DEF CheckRemove
<1>11. CASE CallFails(e)
  <2>1. Still
    BY <1>11 DEF CallFails, fileVars, Still
  <2>2. CASE pc[e] \in {"open", "data", "xattrs", "mkdir", "create", "rmcheck", "unlink"} /\ Return(e, "error")
    BY <2>1, <2>2, <1>r DEF Holding
  <2>3. CASE pc[e] \in Holding /\ Stay(e, "cleanup")
    BY <2>1, <2>3, <1>g, <1>l DEF Holding, Stay
  <2> QED
    BY <1>11, <2>2, <2>3 DEF CallFails, Holding
<1> QED
  BY <1>1, <1>2, <1>3, <1>4, <1>5, <1>6, <1>7, <1>8, <1>9, <1>10, <1>11

Kept == Types' /\ Apart' /\ Durable' /\ \A f \in Editors : Own(f)'

\* What holds of the inode q of a temporary file before step l.
ReadyFor(e, l, q) ==
  /\ q.whole
  /\ l # "attrs" =>
       /\ q.mode = WantMode(e)
       /\ DropIn => q.acl = NoAcl
       /\ ~DropIn /\ snap[e].ino # None => q.acl = text[e].acl
  /\ l \in {"sync", "tool"} => q.lines = Edited(e)
  /\ l = "tool" => q.synced

LEMMA TmpStep ==
  ASSUME FileInv, NEW e \in Editors, NEW i \in Inodes, NEW q \in AnInode,
         NEW l \in {"attrs", "write", "sync", "tool"}, Goto(e, l), pc[e] \notin {"idle", "syncdir"},
         inode' = [inode EXCEPT ![i] = q], tmp' = [tmp EXCEPT ![e] = i],
         tmp[e] = i \/ Fresh(i), ReadyFor(e, l, q),
         UNCHANGED <<site, entry, diskEntry, clock, litter, plan, ghosts, result, bounds>>
  PROVE  Kept
<1> USE FileAssumption DEF FileAssumption
<1>a. /\ i \notin {entry, diskEntry} /\ i # None
      /\ \A f \in Editors \ {e} : tmp[f] # i
  BY DEF FileInv, Apart, Fresh, InUse
<1>b. Cycles' /\ Others(e) /\ pc'[e] = l
  BY Stayed DEF FileInv, ghosts, PCs
<1>c. /\ snap' = snap /\ text' = text /\ op' = op /\ result' = result /\ effect' = effect
      /\ inode'[i] = q /\ \A j \in Inodes \ {i} : inode'[j] = inode[j]
      /\ tmp'[e] = i /\ \A f \in Editors \ {e} : tmp'[f] = tmp[f]
  BY DEF plan, ghosts, FileInv, Types
<1>1. Types'
  BY <1>b DEF FileInv, Types, Cycles, ghosts, bounds
<1>2. Apart' /\ Durable'
  BY <1>a, <1>c DEF FileInv, Types, Apart, Durable, Mounted
<1>3. ASSUME NEW f \in Editors \ {e} PROVE Own(f)'
  <2>1. Spared(f)
    BY <1>a, <1>b, <1>c DEF Spared, Others, FileInv, Types
  <2> QED
    BY <2>1, SparedOwn DEF FileInv
<1>4. Unanswered(e)'
  BY <1>b, <1>c DEF FileInv, Own, Unanswered, Mounted
<1>5. Prepared(e)'
  BY <1>a, <1>b, <1>c DEF ReadyFor, Prepared, Holding, Reading, InPlace, WantMode, Edited, DropIn
<1> QED
  BY <1>1, <1>2, <1>3, <1>4, <1>5 DEF Kept, Own

LEMMA EditedTyped == ASSUME NEW e \in Editors, Types PROVE Edited(e) \in SUBSET Marks
<1>1. text[e].lines \in SUBSET Marks
  BY DEF Types, AText
<1> QED
  BY <1>1 DEF Edited, Marks

(* Steps that prepare the temporary file.                                  *)
LEMMA TmpSteps ==
  ASSUME FileInv, NEW e \in Editors, UNCHANGED site,
         CreateTmp(e) \/ ApplyAttrs(e) \/ WriteTmp(e) \/ SyncTmp(e)
  PROVE  Kept
<1>o. Own(e)
  BY DEF FileInv
<1>t. ASSUME pc[e] \in Holding
      PROVE  tmp[e] \in Inodes /\ inode[tmp[e]] \in AnInode
  BY <1>t, <1>o DEF Own, Prepared, FileInv, Types
<1>1. CASE CreateTmp(e)
  <2>1. PICK i \in Inodes, a \in Acls :
          /\ Fresh(i) /\ tmp' = [tmp EXCEPT ![e] = i]
          /\ inode' = [inode EXCEPT ![i] = [lines |-> {}, whole |-> TRUE, mode |-> Private, acl |-> a,
                                            stamp |-> clock, synced |-> FALSE]]
    BY <1>1 DEF CreateTmp
  <2> DEFINE q == [lines |-> {}, whole |-> TRUE, mode |-> Private, acl |-> a,
                   stamp |-> clock, synced |-> FALSE]
  <2>2. q \in AnInode /\ ReadyFor(e, "attrs", q)
    BY FileAssumption DEF FileAssumption, AnInode, ReadyFor, FileInv, Types
  <2>3. Goto(e, "attrs") /\ pc[e] = "create" /\ inode' = [inode EXCEPT ![i] = q]
    BY <1>1, <2>1 DEF CreateTmp
  <2>4. UNCHANGED <<site, entry, diskEntry, clock, litter, plan, ghosts, result, bounds>>
    BY <1>1 DEF CreateTmp
  <2> HIDE DEF q
  <2> QED
    BY <2>1, <2>2, <2>3, <2>4, TmpStep
<1>2. CASE ApplyAttrs(e)
  <2> DEFINE q == [inode[tmp[e]] EXCEPT !.mode = WantMode(e), !.acl = WantAcl(e, inode[tmp[e]].acl)]
  <2>d. inode' = [inode EXCEPT ![tmp[e]] = q] /\ tmp' = tmp
    BY <1>2 DEF ApplyAttrs, Set
  <2>1. pc[e] = "attrs" /\ Goto(e, "write") /\ tmp[e] \in Inodes /\ inode[tmp[e]] \in AnInode
    BY <1>2, <1>t DEF ApplyAttrs, Holding
  <2>2. WantMode(e) \in Modes \cup {Private} /\ WantAcl(e, inode[tmp[e]].acl) \in Acls
    BY <2>1, FileAssumption DEF FileAssumption, WantMode, WantAcl, FileInv, Types, ASnapshot, AText, AnInode
  <2>3. WithAttrs(q, inode[tmp[e]], WantMode(e), WantAcl(e, inode[tmp[e]].acl))
    BY <2>1, <2>2, Attributes
  <2> HIDE DEF q
  <2>5. UNCHANGED <<site, entry, diskEntry, clock, litter, plan, ghosts, result, bounds>>
    BY <1>2 DEF ApplyAttrs
  <2>6. ReadyFor(e, "write", q) /\ q \in AnInode
    BY <2>1, <2>3, <1>o DEF WithAttrs, ReadyFor, WantAcl, Own, Prepared, Holding
  <2>7. tmp' = [tmp EXCEPT ![e] = tmp[e]]
    BY <2>d DEF FileInv, Types
  <2> QED
    BY <2>1, <2>3, <2>d, <2>5, <2>6, <2>7, TmpStep
<1>3. CASE WriteTmp(e)
  <2> DEFINE q == [inode[tmp[e]] EXCEPT !.lines = Edited(e), !.stamp = clock]
  <2>d. inode' = [inode EXCEPT ![tmp[e]] = q] /\ tmp' = tmp
    BY <1>3 DEF WriteTmp, Set
  <2>1. pc[e] = "write" /\ Goto(e, "sync") /\ tmp[e] \in Inodes /\ inode[tmp[e]] \in AnInode
    BY <1>3, <1>t DEF WriteTmp, Holding
  <2>2. Edited(e) \in SUBSET Marks /\ clock \in Nat
    BY EditedTyped DEF FileInv, Types
  <2>3. WithLines(q, inode[tmp[e]], Edited(e))
    BY <2>1, <2>2, Lines
  <2> HIDE DEF q
  <2>5. UNCHANGED <<site, entry, diskEntry, clock, litter, plan, ghosts, result, bounds>>
    BY <1>3 DEF WriteTmp
  <2>6. ReadyFor(e, "sync", q) /\ q \in AnInode
    BY <2>1, <2>3, <1>o DEF WithLines, ReadyFor, Own, Prepared, Holding
  <2>7. tmp' = [tmp EXCEPT ![e] = tmp[e]]
    BY <2>d DEF FileInv, Types
  <2> QED
    BY <2>1, <2>3, <2>d, <2>5, <2>6, <2>7, TmpStep
<1>4. CASE SyncTmp(e)
  <2> DEFINE q == [inode[tmp[e]] EXCEPT !.synced = TRUE]
  <2>q. q = [inode[tmp[e]] EXCEPT !.synced = TRUE]
    OBVIOUS
  <2>d. inode' = [inode EXCEPT ![tmp[e]] = q] /\ tmp' = tmp
    BY <1>4 DEF SyncTmp, Set
  <2> HIDE DEF q
  <2>1. pc[e] = "sync" /\ Goto(e, "tool") /\ tmp[e] \in Inodes /\ inode[tmp[e]] \in AnInode
    BY <1>4, <1>t DEF SyncTmp, Holding
  <2>3. /\ q \in AnInode /\ q.lines = inode[tmp[e]].lines /\ q.mode = inode[tmp[e]].mode
        /\ q.acl = inode[tmp[e]].acl /\ q.whole = inode[tmp[e]].whole /\ q.synced
    BY <2>1, <2>q, Synced
  <2>5. UNCHANGED <<site, entry, diskEntry, clock, litter, plan, ghosts, result, bounds>>
    BY <1>4 DEF SyncTmp
  <2>6. ReadyFor(e, "tool", q)
    BY <2>1, <2>3, <1>o DEF ReadyFor, Own, Prepared, Holding
  <2>7. tmp' = [tmp EXCEPT ![e] = tmp[e]]
    BY <2>d DEF FileInv, Types
  <2> QED
    BY <2>1, <2>3, <2>d, <2>5, <2>6, <2>7, TmpStep
<1> QED
  BY <1>1, <1>2, <1>3, <1>4

(* What a step of e has to show for the invariant to be kept.              *)
LEMMA StepKept ==
  ASSUME FileInv, NEW e \in Editors, UNCHANGED site, Types', Own(e)', Durable',
         \A f \in Editors \ {e} : Spared(f),
         Mounted => UNCHANGED <<entry, diskEntry>>,
         tmp'[e] \in {None, tmp[e]},
         \/ UNCHANGED entry \/ entry' = None \/ (entry' = tmp[e] /\ tmp'[e] = None),
         diskEntry' \in {entry, diskEntry}
  PROVE  Kept
<1>1. \A f \in Editors : Own(f)'
  BY SparedOwn DEF FileInv
<1>2. Apart'
  BY DEF FileInv, Types, Apart, Spared, Mounted
<1> QED
  BY <1>1, <1>2 DEF Kept

LEMMA RenameStep ==
  ASSUME FileInv, NEW e \in Editors, UNCHANGED site, Rename(e)
  PROVE  Kept
<1> DEFINE q == [inode[tmp[e]] EXCEPT !.stamp = clock]
<1>o. Own(e)
  BY DEF FileInv
<1>1. /\ pc[e] = "rename" /\ ~Mounted /\ Goto(e, "syncdir") /\ entry' = tmp[e]
      /\ tmp' = [tmp EXCEPT ![e] = None] /\ effect' = [effect EXCEPT ![e] = "made"]
      /\ inode' = [inode EXCEPT ![tmp[e]] = q]
      /\ UNCHANGED <<diskEntry, clock, litter, plan, unseen, result, bounds>>
  BY DEF Rename, MoveTmp, Set
<1>2. tmp[e] \in Inodes /\ tmp[e] # None /\ inode[tmp[e]] \in AnInode /\ clock \in Nat
  BY <1>1, <1>o DEF Own, Prepared, Holding, FileInv, Types
<1>3. WithLines(q, inode[tmp[e]], inode[tmp[e]].lines)
  BY <1>2, Stamped
<1> HIDE DEF q
<1>4. Cycles' /\ Others(e) /\ pc'[e] = "syncdir"
  BY <1>1, Stayed DEF FileInv, PCs
<1>5. Types'
  BY <1>1, <1>2, <1>3, <1>4 DEF FileInv, Types, Cycles, WithLines, bounds
<1>6. Durable'
  BY <1>1, <1>2, <1>3, <1>o DEF FileInv, Types, Durable, Apart, WithLines, Own, Prepared
<1>7. ASSUME NEW f \in Editors \ {e} PROVE Spared(f)
  BY <1>1, <1>2, <1>4 DEF FileInv, Types, Apart, Spared, Others
<1>8. tmp'[e] = None /\ result'[e] = None
  BY <1>1, <1>o DEF FileInv, Types, Own, Unanswered
<1>9. Own(e)'
  BY <1>4, <1>8, FileAssumption DEF FileAssumption, Own, Prepared, Unanswered, Holding, Reading, InPlace
<1> QED
  BY <1>1, <1>5, <1>6, <1>7, <1>8, <1>9, StepKept

LEMMA BlankTyped == Blank \in AnInode /\ Blank.whole /\ Blank.synced
  BY FileAssumption DEF FileAssumption, Blank, AnInode

LEMMA Swept ==
  ASSUME Types, Sweep
  PROVE  /\ inode' \in [Inodes -> AnInode]
         /\ \A i \in Inodes :
              i \in {entry', diskEntry'} \/ (\E f \in Editors : tmp'[f] = i) => inode'[i] = inode[i]
  BY BlankTyped DEF Types, Sweep, Fresh, InUse

LEMMA SweepSteps ==
  ASSUME FileInv, NEW e \in Editors, UNCHANGED site, SyncDir(e) \/ Cleanup(e)
  PROVE  Kept
<1> USE FileAssumption DEF FileAssumption
<1>o. Own(e)
  BY DEF FileInv
<1>1. PICK r \in {"add", "remove", "create", "error"} :
        Return(e, r) /\ (r = "error" => pc[e] \in {"cleanup", "tidy"})
  BY DEF SyncDir, Cleanup, FileInv, Types
<1>2. /\ UNCHANGED <<entry, clock, litter>> /\ Sweep
      /\ tmp' \in {tmp, [tmp EXCEPT ![e] = None]}
      /\ diskEntry' \in {entry, diskEntry}
      /\ effect' \in {effect, [effect EXCEPT ![e] = "flushed"]}
      /\ pc[e] \in {"cleanup", "tidy"} => effect' = effect /\ tmp' = [tmp EXCEPT ![e] = None]
      /\ pc[e] \in {"syncdir", "cleanup", "tidy"}
  BY DEF SyncDir, Cleanup
<1>3. Cycles' /\ Others(e)
  BY <1>1, Returned DEF FileInv
<1>4. changes' \in Nat /\ faults' \in Nat /\ outages' \in Nat
  BY DEF SyncDir, Cleanup, Fault, bounds, FileInv, Types
<1>5. tmp'[e] = None
  BY <1>2, <1>o DEF Own, Prepared, Holding, FileInv, Types
<1>6. Types'
  BY <1>2, <1>3, <1>4, Swept DEF FileInv, Types, Cycles
<1>7. Durable'
  BY <1>2, Swept DEF FileInv, Types, Durable, Mounted
<1>8. ASSUME NEW f \in Editors \ {e} PROVE Spared(f)
  BY <1>2, <1>3, Swept DEF FileInv, Types, Spared, Others
<1>9. ~Mounted /\ r = "error" => effect'[e] = "none"
  BY <1>1, <1>2, <1>o DEF Own, Unanswered
<1>10. Own(e)'
  BY <1>1, <1>5, <1>9, ReturnedOwn DEF FileInv
<1>11. Mounted => diskEntry' = diskEntry
  BY <1>2 DEF FileInv, Apart
<1> QED
  BY <1>2, <1>5, <1>6, <1>7, <1>8, <1>10, <1>11, StepKept

LEMMA UnlinkStep ==
  ASSUME FileInv, NEW e \in Editors, UNCHANGED site, Unlink(e)
  PROVE  Kept
<1> USE FileAssumption DEF FileAssumption
<1>o. Own(e)
  BY DEF FileInv
<1>1. UNCHANGED <<inode, diskEntry, clock, tmp, litter, bounds>> /\ pc[e] = "unlink" /\ tmp[e] = None
  BY <1>o DEF Unlink, Own, Prepared, Holding
<1>2. CASE ~Mounted /\ entry' = None /\ effect' = [effect EXCEPT ![e] = "made"] /\ Stay(e, "syncdir")
  <2>1. Cycles' /\ Others(e) /\ pc'[e] = "syncdir" /\ result' = result
    BY <1>2, Stayed DEF FileInv, PCs, Stay
  <2>2. Types'
    BY <1>1, <1>2, <2>1 DEF FileInv, Types, Cycles, bounds
  <2>3. Durable' /\ \A f \in Editors \ {e} : Spared(f)
    BY <1>1, <1>2, <2>1 DEF FileInv, Types, Durable, Spared, Others, Mounted
  <2>4. Own(e)'
    BY <1>1, <2>1, <1>o DEF Own, Prepared, Unanswered, Holding, Reading, InPlace
  <2> QED
    BY <1>1, <1>2, <2>2, <2>3, <2>4, StepKept
<1>3. CASE Mounted /\ Return(e, "error") /\ UNCHANGED <<entry, effect>>
  <2>1. Cycles' /\ Others(e)
    BY <1>3, Returned DEF FileInv
  <2>2. Types'
    BY <1>1, <1>3, <2>1 DEF FileInv, Types, Cycles, bounds
  <2>3. Durable' /\ \A f \in Editors \ {e} : Spared(f)
    BY <1>1, <1>3, <2>1 DEF FileInv, Types, Durable, Spared, Others, Mounted
  <2>4. Own(e)'
    BY <1>1, <1>3, ReturnedOwn DEF FileInv
  <2> QED
    BY <1>1, <1>3, <2>2, <2>3, <2>4, StepKept
<1> QED
  BY <1>2, <1>3 DEF Unlink

LEMMA InPlaceStep ==
  ASSUME FileInv, NEW e \in Editors, InPlace(e),
         NEW q \in AnInode, inode' = [inode EXCEPT ![snap[e].ino] = q],
         NEW l \in {"truncate", "rewrite", "fsync", "tidy"}, Goto(e, l),
         NEW x \in {"none", "made", "flushed"}, effect' = [effect EXCEPT ![e] = x],
         UNCHANGED <<site, entry, diskEntry, clock, tmp, litter, plan, unseen, result, bounds>>
  PROVE  Kept
<1> USE FileAssumption DEF FileAssumption
<1>o. Own(e)
  BY DEF FileInv
<1>1. Mounted /\ snap[e].ino = entry /\ entry \in Inodes /\ pc[e] \in Holding
  BY <1>o DEF Own, Prepared, FileInv, Apart, Types, InPlace, Holding
<1>2. Cycles' /\ Others(e) /\ pc'[e] = l
  BY Stayed DEF FileInv, PCs
<1>3. Types'
  BY <1>1, <1>2 DEF FileInv, Types, Cycles, bounds
<1>4. Durable' /\ \A f \in Editors \ {e} : Spared(f)
  BY <1>1, <1>2 DEF FileInv, Types, Apart, Durable, Mounted, Spared, Others
<1>5. tmp'[e] # None /\ inode'[tmp'[e]] = inode[tmp[e]]
  BY <1>1, <1>o DEF FileInv, Types, Apart, Own, Prepared
<1>6. Prepared(e)'
  BY <1>1, <1>2, <1>5, <1>o DEF Own, Prepared, Holding, Reading, InPlace, Mounted, plan
<1>7. Unanswered(e)'
  BY <1>1, <1>2, <1>o DEF Own, Unanswered, Holding, Mounted
<1> QED
  BY <1>1, <1>3, <1>4, <1>6, <1>7, StepKept DEF Own

(* Steps that rewrite a mount point.                                       *)
LEMMA InPlaceSteps ==
  ASSUME FileInv, NEW e \in Editors, UNCHANGED site,
         ChangeAttrs(e) \/ Truncate(e) \/ Rewrite(e) \/ SyncInPlace(e)
  PROVE  Kept
<1> DEFINE i == snap[e].ino
<1>o. Own(e)
  BY DEF FileInv
<1>1. InPlace(e)
  BY DEF ChangeAttrs, Truncate, Rewrite, SyncInPlace, InPlace
<1>2. i \in Inodes /\ inode[i] \in AnInode /\ clock \in Nat /\ effect[e] \in {"none", "made", "flushed"}
  BY <1>1, <1>o DEF Own, Prepared, FileInv, Apart, Types
<1>e. effect' = effect => effect' = [effect EXCEPT ![e] = effect[e]]
  BY DEF FileInv, Types
<1>3. CASE ChangeAttrs(e)
  <2> DEFINE chmod == WantMode(e) # snap[e].mode
             dropAcl == DropIn /\ text[e].acl # NoAcl
             m == IF chmod THEN WantMode(e) ELSE inode[i].mode
             a == IF dropAcl THEN NoAcl ELSE inode[i].acl
             t == IF chmod \/ dropAcl THEN clock ELSE inode[i].stamp
             q == [inode[i] EXCEPT !.mode = m, !.acl = a, !.stamp = t]
  <2>1. m \in Modes \cup {Private} /\ a \in Acls /\ t \in Nat
    BY <1>2, FileAssumption DEF FileAssumption, WantMode, FileInv, Types, ASnapshot, AnInode
  <2>2. inode' = [inode EXCEPT ![i] = q]
    BY <1>3 DEF ChangeAttrs, Set
  <2> HIDE DEF m, a, t
  <2>3. q \in AnInode
    BY <1>2, <2>1 DEF AnInode
  <2> HIDE DEF q
  <2>4. /\ Goto(e, "truncate") /\ effect' = effect
        /\ UNCHANGED <<site, entry, diskEntry, clock, tmp, litter, plan, unseen, result, bounds>>
    BY <1>3 DEF ChangeAttrs, ghosts
  <2> QED
    BY <1>1, <1>2, <1>e, <2>2, <2>3, <2>4, InPlaceStep
<1>4. CASE Truncate(e)
  <2> DEFINE q == [inode[i] EXCEPT !.lines = {}, !.whole = FALSE, !.synced = FALSE, !.stamp = clock]
  <2>1. inode' = [inode EXCEPT ![i] = q]
    BY <1>4 DEF Truncate, Set
  <2>2. q \in AnInode
    BY <1>2 DEF AnInode
  <2> HIDE DEF q
  <2>3. /\ Goto(e, "rewrite") /\ effect' = [effect EXCEPT ![e] = "made"]
        /\ UNCHANGED <<site, entry, diskEntry, clock, tmp, litter, plan, unseen, result, bounds>>
    BY <1>4 DEF Truncate
  <2> QED
    BY <1>1, <2>1, <2>2, <2>3, InPlaceStep
<1>5. CASE Rewrite(e)
  <2> DEFINE L == Edited(e)
             q == [inode[i] EXCEPT !.lines = L, !.whole = TRUE, !.stamp = clock]
  <2>1. inode' = [inode EXCEPT ![i] = q]
    BY <1>5 DEF Rewrite, Set
  <2>2. L \in SUBSET Marks
    BY EditedTyped DEF FileInv
  <2> HIDE DEF L
  <2>3. q \in AnInode
    BY <1>2, <2>2 DEF AnInode
  <2> HIDE DEF q
  <2>4. /\ Goto(e, "fsync") /\ effect' = effect
        /\ UNCHANGED <<site, entry, diskEntry, clock, tmp, litter, plan, unseen, result, bounds>>
    BY <1>5 DEF Rewrite, ghosts
  <2> QED
    BY <1>1, <1>2, <1>e, <2>1, <2>3, <2>4, InPlaceStep
<1>6. CASE SyncInPlace(e)
  <2> DEFINE q == [inode[i] EXCEPT !.synced = TRUE]
  <2>1. inode' = [inode EXCEPT ![i] = q]
    BY <1>6 DEF SyncInPlace, Set
  <2>2. q \in AnInode
    BY <1>2 DEF AnInode
  <2> HIDE DEF q
  <2>3. /\ Goto(e, "tidy") /\ effect' = [effect EXCEPT ![e] = "flushed"]
        /\ UNCHANGED <<site, entry, diskEntry, clock, tmp, litter, plan, unseen, result, bounds>>
    BY <1>6 DEF SyncInPlace
  <2> QED
    BY <1>1, <2>1, <2>2, <2>3, InPlaceStep
<1> QED
  BY <1>3, <1>4, <1>5, <1>6

LEMMA BeginStep ==
  ASSUME FileInv, NEW e \in Editors, NEW o \in Ops, UNCHANGED site, Begin(e, o)
  PROVE  Kept
<1> USE FileAssumption DEF FileAssumption
<1>o. Own(e)
  BY DEF FileInv
<1>1. /\ pc[e] = "idle" /\ UNCHANGED <<entry, inode, diskEntry, clock, tmp, litter, snap, text, unseen, bounds>>
      /\ op' = [op EXCEPT ![e] = o] /\ effect' = [effect EXCEPT ![e] = "none"]
      /\ result' = [result EXCEPT ![e] = None] /\ pc' = [pc EXCEPT ![e] = "open"]
  BY DEF Begin, Goto, fileVars
<1>2. Types'
  BY <1>1 DEF FileInv, Types, Ops, PCs, bounds
<1>3. Durable' /\ \A f \in Editors \ {e} : Spared(f)
  BY <1>1 DEF FileInv, Types, Durable, Mounted, Spared
<1>4. pc'[e] = "open" /\ result'[e] = None /\ effect'[e] = "none" /\ tmp'[e] = None
  BY <1>1, <1>o DEF FileInv, Types, Own, Prepared, Holding
<1>5. Own(e)'
  BY <1>4 DEF Own, Prepared, Unanswered, Holding, Reading, InPlace
<1> QED
  BY <1>1, <1>2, <1>3, <1>4, <1>5, StepKept

(* Every step of an editor.                                                *)
LEMMA EditKept ==
  ASSUME FileInv, NEW e \in Editors, UNCHANGED site, Edit(e)
  PROVE  Kept
<1>1. ASSUME Types', Quiet(e), Own(e)' PROVE Kept
  BY <1>1, QuietStep DEF FileInv, Kept
<1> QED
  BY <1>1, QuietSteps, TmpSteps, RenameStep, SweepSteps, UnlinkStep, InPlaceSteps DEF Edit

(* The number of temporary files that are left.                            *)
LEMMA EditLitter ==
  ASSUME FileInv, NEW e \in Editors, Edit(e)
  PROVE  Littered'
<1>1. litter' = litter
  BY DEF Edit, OpenAndStat, OpenMissing, ReadData, ReadXattrs, MkdirAll, CreateTmp, ApplyAttrs,
         WriteTmp, SyncTmp, CheckTool, CheckUnchanged, Rename, MoveTmp, RenameRefused, SyncDir,
         Cleanup, OpenInPlace, ChangeAttrs, Truncate, Rewrite, SyncInPlace, CheckRemove, Unlink,
         CallFails
<1>2. UNCHANGED bounds \/ Fault
  BY DEF Edit, OpenAndStat, OpenMissing, ReadData, ReadXattrs, MkdirAll, CreateTmp, ApplyAttrs,
         WriteTmp, SyncTmp, CheckTool, CheckUnchanged, Rename, MoveTmp, RenameRefused, SyncDir,
         Cleanup, OpenInPlace, ChangeAttrs, Truncate, Rewrite, SyncInPlace, CheckRemove, Unlink,
         CallFails
<1>3. faults' \in {faults, faults + 1} /\ outages' = outages
  BY <1>2 DEF Fault, bounds
<1>4. Cardinality(Editors) \in Nat
  BY FileAssumption, FS_CardinalityType DEF FileAssumption
<1> QED
  BY <1>1, <1>3, <1>4 DEF FileInv, Types, Littered

LEMMA DeadFiles ==
  ASSUME FileInv, NEW D \in SUBSET Editors, Dead(D)
  PROVE  /\ Cycles' /\ effect' = effect /\ result' = result
         /\ tmp' \in [Editors -> Inodes \cup {None}]
         /\ litter' \in Nat /\ litter' <= litter + Cardinality(D)
         /\ Cardinality(D) \in Nat /\ Cardinality(D) <= Cardinality(Editors)
         /\ \A f \in D : pc'[f] = "idle" /\ tmp'[f] = None
         /\ \A f \in Editors \ D :
              /\ pc'[f] = pc[f] /\ op'[f] = op[f] /\ snap'[f] = snap[f]
              /\ text'[f] = text[f] /\ tmp'[f] = tmp[f]
<1>1. NoSnap \in ASnapshot /\ NoText \in AText /\ "idle" \in PCs
  BY FileAssumption DEF FileAssumption, NoSnap, NoText, ASnapshot, AText, Sizes, PCs
<1>2. Cycles' /\ effect' = effect /\ result' = result /\ tmp' \in [Editors -> Inodes \cup {None}]
  BY <1>1 DEF Dead, FileInv, Types, Cycles
<1>3. /\ \A f \in D : pc'[f] = "idle" /\ tmp'[f] = None
      /\ \A f \in Editors \ D :
           /\ pc'[f] = pc[f] /\ op'[f] = op[f] /\ snap'[f] = snap[f]
           /\ text'[f] = text[f] /\ tmp'[f] = tmp[f]
  BY DEF Dead, FileInv, Types
<1> DEFINE Left == {e \in D : tmp[e] # None}
<1>4. IsFiniteSet(Editors) /\ IsFiniteSet(D) /\ IsFiniteSet(Left)
  BY FileAssumption, FS_Subset DEF FileAssumption
<1>5. /\ Cardinality(D) \in Nat /\ Cardinality(D) <= Cardinality(Editors)
      /\ Cardinality(Left) \in Nat /\ Cardinality(Left) <= Cardinality(D)
  <2>1. Left \subseteq D /\ D \subseteq Editors
    OBVIOUS
  <2> QED
    BY <1>4, <2>1, FS_Subset, FS_CardinalityType
<1>6. litter' = litter + Cardinality(Left) /\ litter \in Nat
  BY DEF Dead, FileInv, Types
<1>7. litter' \in Nat /\ litter' <= litter + Cardinality(D)
  BY <1>5, <1>6
<1> QED
  BY <1>2, <1>3, <1>5, <1>7

LEMMA DeadOwn ==
  ASSUME FileInv, NEW f \in Editors, pc'[f] = "idle", tmp'[f] = None,
         UNCHANGED <<site, result, effect>>
  PROVE  Own(f)'
<1>1. Own(f)
  BY DEF FileInv
<1> QED
  BY <1>1, FileAssumption
  DEF FileAssumption, Own, Prepared, Unanswered, Mounted, Holding, Reading, InPlace

LEMMA CrashStep ==
  ASSUME FileInv, NEW e \in Editors, UNCHANGED site, Crash(e)
  PROVE  Kept /\ Littered'
<1>1. /\ Fault /\ Dead({e}) /\ Sweep /\ UNCHANGED <<entry, diskEntry, clock>>
  BY DEF Crash
<1>2. /\ Cycles' /\ effect' = effect /\ result' = result
      /\ tmp' \in [Editors -> Inodes \cup {None}]
      /\ litter' \in Nat /\ litter' <= litter + Cardinality({e})
      /\ pc'[e] = "idle" /\ tmp'[e] = None
      /\ \A f \in Editors \ {e} :
              /\ pc'[f] = pc[f] /\ op'[f] = op[f] /\ snap'[f] = snap[f]
              /\ text'[f] = text[f] /\ tmp'[f] = tmp[f]
  BY <1>1, DeadFiles
<1>3. faults' = faults + 1 /\ outages' = outages /\ changes' = changes
  BY <1>1 DEF Fault
<1>4. Types'
  BY <1>1, <1>2, <1>3, Swept DEF FileInv, Types, Cycles
<1>5. Durable'
  BY <1>1, Swept DEF FileInv, Types, Durable, Mounted
<1>6. ASSUME NEW f \in Editors \ {e} PROVE Spared(f)
  BY <1>1, <1>2, Swept DEF FileInv, Types, Spared
<1>7. Own(e)'
  BY <1>2, DeadOwn
<1>8. Kept
  BY <1>1, <1>2, <1>4, <1>5, <1>6, <1>7, StepKept
<1>9. Cardinality(Editors) \in Nat /\ Cardinality({e}) = 1
  BY FileAssumption, FS_CardinalityType, FS_Singleton DEF FileAssumption
<1>10. Littered'
  BY <1>2, <1>3, <1>9 DEF FileInv, Types, Littered
<1> QED
  BY <1>8, <1>10

LEMMA PowerLossStep ==
  ASSUME FileInv, UNCHANGED site, PowerLoss
  PROVE  Kept /\ Littered'
<1>1. PICK torn \in SUBSET {i \in Inodes : ~inode[i].synced} :
        inode' = [i \in Inodes |->
                   IF Fresh(i)' THEN Blank
                   ELSE [inode[i] EXCEPT !.synced = TRUE,
                                         !.whole = @ /\ i \notin torn,
                                         !.lines = IF i \in torn THEN {} ELSE @]]
  BY DEF PowerLoss
<1>2. /\ Dead(Editors) /\ outages' = outages + 1
      /\ entry' \in {entry, diskEntry} /\ diskEntry' = entry'
      /\ UNCHANGED <<clock, changes, faults>>
  BY DEF PowerLoss
<1>3. /\ Cycles' /\ effect' = effect /\ result' = result
      /\ tmp' \in [Editors -> Inodes \cup {None}]
      /\ litter' \in Nat /\ litter' <= litter + Cardinality(Editors) /\ Cardinality(Editors) \in Nat
      /\ \A f \in Editors : pc'[f] = "idle" /\ tmp'[f] = None
  BY <1>2, DeadFiles
<1> DEFINE q(i) == [inode[i] EXCEPT !.synced = TRUE, !.whole = inode[i].whole /\ i \notin torn,
                                   !.lines = IF i \in torn THEN {} ELSE inode[i].lines]
<1>4. ASSUME NEW i \in Inodes
      PROVE  /\ q(i) \in AnInode /\ q(i).synced
             /\ inode[i].whole /\ inode[i].synced => q(i).whole
  <2>1. inode[i] \in AnInode /\ (inode[i].synced => i \notin torn)
    BY DEF FileInv, Types
  <2> DEFINE P(x, w) == x \in AnInode /\ x.synced /\ (w => x.whole)
  <2>2. ASSUME NEW r \in AnInode, NEW w \in BOOLEAN, NEW L \in SUBSET Marks
        PROVE  P([r EXCEPT !.synced = TRUE, !.whole = w, !.lines = L], w)
    BY DEF AnInode
  <2> DEFINE w == inode[i].whole /\ i \notin torn
             L == IF i \in torn THEN {} ELSE inode[i].lines
  <2>3. w \in BOOLEAN /\ L \in SUBSET Marks
    BY <2>1 DEF AnInode
  <2>4. inode[i].whole /\ inode[i].synced => w
    BY <2>1
  <2>5. q(i) = [inode[i] EXCEPT !.synced = TRUE, !.whole = w, !.lines = L]
    OBVIOUS
  <2> HIDE DEF w, L, q, P
  <2>6. P(q(i), w)
    BY <2>1, <2>2, <2>3, <2>5
  <2> QED
    BY <2>4, <2>6 DEF P
<1>5. ASSUME NEW i \in Inodes
      PROVE  inode'[i] \in AnInode /\ (i = entry' => inode'[i] = q(i))
  BY <1>1, <1>4, BlankTyped DEF Fresh
<1>d. inode' \in [Inodes -> AnInode]
  BY <1>1, <1>5
<1> HIDE DEF q
<1>6. Types'
  BY <1>2, <1>3, <1>d DEF FileInv, Types, Cycles
<1>7. Durable'
  BY <1>2, <1>4, <1>5 DEF FileInv, Types, Durable, Mounted
<1>8. Apart'
  BY <1>2, <1>3 DEF FileInv, Apart, Mounted
<1>9. \A f \in Editors : Own(f)'
  BY <1>3, DeadOwn
<1>10. Littered'
  <2>1. ASSUME NEW o \in Nat, NEW c \in Nat PROVE (o + 1) * c = o * c + c
    BY <2>1
  <2>2. outages' * Cardinality(Editors) = outages * Cardinality(Editors) + Cardinality(Editors)
    BY <1>2, <1>3, <2>1 DEF FileInv, Types
  <2>3. outages * Cardinality(Editors) \in Nat
    BY <1>3 DEF FileInv, Types
  <2> QED
    BY <1>2, <1>3, <2>2, <2>3 DEF FileInv, Types, Littered
<1> QED
  BY <1>6, <1>7, <1>8, <1>9, <1>10 DEF Kept

(* Other programs change the file, and nothing else.                       *)
Foreigners == ForeignWrite \/ ForeignChmod \/ ForeignReplace \/ ForeignRemove

LEMMA ForeignKept ==
  ASSUME FileInv, UNCHANGED site, ForeignChange,
         entry' \in Inodes \cup {None}, diskEntry' \in Inodes \cup {None},
         inode' \in [Inodes -> AnInode], clock' \in Nat, Durable',
         \A f \in Editors : tmp[f] # None =>
           tmp[f] \notin {entry', diskEntry'} /\ inode'[tmp[f]] = inode[tmp[f]],
         Mounted => UNCHANGED <<entry, diskEntry>>
  PROVE  Kept /\ Littered'
<1>1. /\ UNCHANGED <<dir, tmp, litter, pc, op, snap, text, effect, result, faults, outages>>
      /\ changes' = changes + 1 /\ unseen' \in [Editors -> BOOLEAN]
  BY DEF ForeignChange, plan
<1>2. Types'
  BY <1>1 DEF FileInv, Types
<1>3. \A f \in Editors : Spared(f)
  BY <1>1 DEF Spared
<1>4. \A f \in Editors : Own(f)'
  BY <1>3, SparedOwn DEF FileInv
<1>5. Apart' /\ Littered'
  BY <1>1 DEF FileInv, Apart, Littered, Mounted
<1> QED
  BY <1>2, <1>4, <1>5 DEF Kept

LEMMA ForeignSteps ==
  ASSUME FileInv, UNCHANGED site, Foreigners
  PROVE  Kept /\ Littered'
<1> USE FileAssumption DEF FileAssumption
<1>n. ASSUME NEW t \in Now PROVE t \in Nat
  BY <1>n DEF Now, FileInv, Types
<1>f. ASSUME NEW L \in SUBSET Marks, NEW K \in ForeignLines(L) PROVE K \in SUBSET Marks
  BY <1>f DEF ForeignLines, Marks
<1>a. \A f \in Editors : tmp[f] # None => tmp[f] \notin {entry, diskEntry} /\ InUse(tmp[f])
  BY DEF FileInv, Apart, InUse
<1>1. CASE ForeignWrite
  <2>1. PICK L \in ForeignLines(inode[entry].lines) :
          inode' = [inode EXCEPT ![entry] = [inode[entry] EXCEPT !.lines = L, !.stamp = clock']]
    BY <1>1 DEF ForeignWrite, Set
  <2>2. /\ entry \in Inodes /\ clock' \in Nat /\ UNCHANGED <<entry, diskEntry>> /\ ForeignChange
        /\ inode[entry] \in AnInode
    BY <1>1, <1>n DEF ForeignWrite, FileInv, Types
  <2>3. L \in SUBSET Marks
    BY <2>1, <2>2, <1>f DEF AnInode
  <2> DEFINE q == [inode[entry] EXCEPT !.lines = L, !.stamp = clock']
  <2>4. WithLines(q, inode[entry], L)
    BY <2>2, <2>3, Lines
  <2> HIDE DEF q
  <2>5. inode' = [inode EXCEPT ![entry] = q]
    BY <2>1 DEF q
  <2>6. Durable' /\ inode' \in [Inodes -> AnInode]
    BY <2>2, <2>4, <2>5 DEF FileInv, Types, Durable, Mounted, WithLines
  <2> QED
    BY <1>a, <2>2, <2>5, <2>6, ForeignKept DEF FileInv, Types
<1>2. CASE ForeignChmod
  <2>1. PICK m \in Modes, a \in Acls :
          inode' = [inode EXCEPT ![entry] = [inode[entry] EXCEPT !.mode = m, !.acl = a, !.stamp = clock']]
    BY <1>2 DEF ForeignChmod, Set
  <2>2. /\ entry \in Inodes /\ clock' \in Nat /\ UNCHANGED <<entry, diskEntry>> /\ ForeignChange
        /\ inode[entry] \in AnInode
    BY <1>2, <1>n DEF ForeignChmod, FileInv, Types
  <2> DEFINE q == [inode[entry] EXCEPT !.mode = m, !.acl = a, !.stamp = clock']
             P(x, r) == x \in AnInode /\ x.whole = r.whole /\ x.synced = r.synced
  <2>3. ASSUME NEW r \in AnInode, NEW t \in Nat
        PROVE  P([r EXCEPT !.mode = m, !.acl = a, !.stamp = t], r)
    BY DEF AnInode
  <2>4. P(q, inode[entry])
    BY <2>2, <2>3
  <2> HIDE DEF q
  <2>5. inode' = [inode EXCEPT ![entry] = q]
    BY <2>1 DEF q
  <2>6. Durable' /\ inode' \in [Inodes -> AnInode]
    BY <2>2, <2>4, <2>5 DEF FileInv, Types, Durable, Mounted
  <2> QED
    BY <1>a, <2>2, <2>5, <2>6, ForeignKept DEF FileInv, Types
<1>3. CASE ForeignReplace
  <2>1. PICK i \in Inodes, L \in ForeignLines(Content), m \in Modes :
       /\ Fresh(i)
       /\ entry' = i /\ diskEntry' = i
       /\ inode' = [j \in Inodes |->
                     CASE j = i -> [Blank EXCEPT !.lines = L, !.mode = m, !.stamp = clock']
                       [] j = entry /\ ~InUse(j) -> Blank
                       [] OTHER -> inode[j]]
    BY <1>3 DEF ForeignReplace
  <2>2. ~Mounted /\ clock' \in Nat /\ ForeignChange
    BY <1>3, <1>n DEF ForeignReplace
  <2>3. L \in SUBSET Marks
    BY <1>f DEF Content, FileInv, Types, AnInode
  <2> DEFINE q == [Blank EXCEPT !.lines = L, !.mode = m, !.stamp = clock']
  <2>4. q \in AnInode /\ q.whole /\ q.synced
    BY <2>2, <2>3 DEF Blank, AnInode
  <2>c. inode' = [j \in Inodes |-> CASE j = i -> q
                                     [] j = entry /\ ~InUse(j) -> Blank
                                     [] OTHER -> inode[j]]
    BY <2>1
  <2> HIDE DEF q
  <2>5. /\ inode'[i] = q
        /\ \A j \in Inodes \ {i} : inode'[j] = IF j = entry /\ ~InUse(j) THEN Blank ELSE inode[j]
    BY <2>1, <2>c DEF Fresh
  <2>d. \A j \in Inodes : inode'[j] \in AnInode
    BY <2>4, <2>5, BlankTyped DEF FileInv, Types
  <2>e. inode' \in [Inodes -> AnInode]
    BY <2>1, <2>d
  <2>6. Durable' /\ inode' \in [Inodes -> AnInode]
    BY <2>1, <2>4, <2>5, <2>e DEF FileInv, Types, Durable
  <2>7. \A f \in Editors : tmp[f] # None =>
           tmp[f] \notin {entry', diskEntry'} /\ inode'[tmp[f]] = inode[tmp[f]]
    BY <1>a, <2>1, <2>5 DEF Fresh, FileInv, Types
  <2> QED
    BY <2>1, <2>2, <2>6, <2>7, ForeignKept
<1>4. CASE ForeignRemove
  <2>1. /\ entry' = None /\ diskEntry' = None /\ ~Mounted /\ clock' \in Nat /\ ForeignChange
        /\ inode' = [j \in Inodes |-> IF j = entry /\ ~InUse(j) THEN Blank ELSE inode[j]]
    BY <1>4, <1>n DEF ForeignRemove
  <2>2. Durable' /\ inode' \in [Inodes -> AnInode]
    BY <2>1, BlankTyped DEF FileInv, Types, Durable
  <2>3. \A f \in Editors : tmp[f] # None =>
           tmp[f] \notin {entry', diskEntry'} /\ inode'[tmp[f]] = inode[tmp[f]]
    BY <1>a, <2>1 DEF FileInv, Types
  <2> QED
    BY <2>1, <2>2, <2>3, ForeignKept
<1> QED
  BY <1>1, <1>2, <1>3, <1>4 DEF Foreigners

-----------------------------------------------------------------------------
LEMMA FileInit == Init => FileInv
<1> SUFFICES ASSUME Init PROVE FileInv
  OBVIOUS
<1> USE FileAssumption DEF FileAssumption
<1>1. Blank \in AnInode /\ NoSnap \in ASnapshot /\ NoText \in AText /\ "idle" \in PCs
  BY BlankTyped DEF NoSnap, NoText, ASnapshot, AText, Sizes, PCs
<1>2. Types
  BY <1>1 DEF Init, Types
<1>3. Apart
  BY DEF Init, Apart
<1>4. Durable
  BY BlankTyped DEF Init, Durable
<1>5. \A e \in Editors : Own(e)
  BY DEF Init, Own, Prepared, Unanswered, Holding, Reading, InPlace
<1>6. Littered
  BY FS_CardinalityType DEF Init, Littered
<1> QED
  BY <1>2, <1>3, <1>4, <1>5, <1>6 DEF FileInv

LEMMA FileStutters == ASSUME FileInv, UNCHANGED vars PROVE FileInv'
  BY DEF vars, fileVars, editVars, plan, ghosts, bounds, FileInv, Types, Apart, Durable, Own,
         Prepared, Unanswered, Littered, Mounted, DropIn, WantMode, Edited, Reading, InPlace

(* The invariant of the file, for any editors and other programs.          *)
THEOREM FileInvariant == Spec => []FileInv
<1>1. FileInv /\ [Next]_vars => FileInv'
  <2> SUFFICES ASSUME FileInv, [Next]_vars PROVE FileInv'
    OBVIOUS
  <2>1. ASSUME NEW e \in Editors, NEW o \in Ops, Begin(e, o), UNCHANGED site PROVE FileInv'
    <3>1. Kept /\ UNCHANGED <<litter, bounds>>
      BY <2>1, BeginStep DEF Begin
    <3> QED
      BY <3>1 DEF FileInv, Kept, Littered, bounds
  <2>2. ASSUME NEW e \in Editors, Edit(e), UNCHANGED site PROVE FileInv'
    BY <2>2, EditKept, EditLitter DEF FileInv, Kept
  <2>3. ASSUME NEW e \in Editors, Crash(e), UNCHANGED site PROVE FileInv'
    BY <2>3, CrashStep DEF FileInv, Kept
  <2>4. ASSUME Environment, UNCHANGED site PROVE FileInv'
    BY <2>4, PowerLossStep, ForeignSteps DEF FileInv, Kept, Environment, Foreigners
  <2>5. CASE UNCHANGED vars
    BY <2>5, FileStutters
  <2> QED
    BY <2>1, <2>2, <2>3, <2>4, <2>5 DEF Next
<1> QED
  BY <1>1, FileInit, PTL DEF Spec

(* Readers never find a partial file.                                      *)
THEOREM ReadersSeeWhole == Spec => []NeverPartial
<1>1. FileInv => NeverPartial
  BY DEF FileInv, Durable, NeverPartial
<1> QED
  BY <1>1, FileInvariant, PTL

(* A cycle that failed left nothing behind.                                *)
THEOREM FailuresLeaveNoTrace == Spec => []NoTrace
<1>1. ASSUME FileInv PROVE ErrorLeavesFile
  BY <1>1 DEF FileInv, Own, Unanswered, ErrorLeavesFile
<1>2. ASSUME FileInv PROVE NoLitter
  BY <1>2 DEF FileInv, Own, Prepared, Holding, Littered, NoLitter
<1> QED
  BY <1>1, <1>2, FileInvariant, PTL DEF NoTrace

-----------------------------------------------------------------------------
(* One editor at a time: what it does to what it relies on.                *)

Untouched == UNCHANGED entry /\ (entry # None => inode'[entry] = inode[entry])

\* e goes on, with what it read and what it was told.
Goes(e, l) ==
  /\ UNCHANGED <<site, changes>> /\ pc'[e] = l /\ op'[e] = op[e] /\ snap'[e] = snap[e]
  /\ text'[e] = text[e] /\ unseen'[e] = unseen[e] /\ result'[e] = result[e]

LEMMA LooksKept ==
  ASSUME Types, NEW e \in Editors, Untouched, snap'[e] = snap[e]
  PROVE  Looks(e)' = Looks(e) /\ Unchanged(e)' = Unchanged(e) /\ Content' = Content
<1>1. entry # None => SnapshotOf(entry)' = SnapshotOf(entry)
  BY DEF Untouched, SnapshotOf
<1> QED
  BY <1>1 DEF Untouched, Looks, Unchanged, Content

(* Steps between two steps of a cycle that leave the file alone.           *)
LEMMA GoesOn ==
  ASSUME Types, NEW e \in Editors, Aware(e), Surviving(e), Untouched, effect'[e] = effect[e],
         NEW l, Goes(e, l),
         \/ l = "cleanup"
         \/ pc[e] = "open" /\ l = "mkdir"
         \/ pc[e] \in {"mkdir", "create", "attrs", "write", "sync", "tool"}
              /\ l \in {"create", "attrs", "write", "sync", "tool", "check"}
         \/ pc[e] = "check" /\ l = "rename" /\ Unchanged(e)
         \/ pc[e] = "rename" /\ l = "inplace"
         \/ pc[e] = "inplace" /\ l = "chattr" /\ Unchanged(e)
         \/ pc[e] = "rmcheck" /\ l = "unlink" /\ Unchanged(e),
         pc[e] \notin {"idle", "tidy"}
  PROVE  Aware(e)' /\ Surviving(e)'
<1>1. Looks(e)' = Looks(e) /\ Unchanged(e)' = Unchanged(e)
  BY LooksKept DEF Goes
<1>2. /\ (HasData(e)' => HasData(e) \/ ~Looks(e)) /\ (HasAll(e)' => HasAll(e) \/ ~Looks(e))
      /\ (Checked(e)' => Unchanged(e))
  BY DEF Aware, Goes, HasData, HasAll, Checked, Looks, Mounted, DropIn
<1>3. Looks(e) => entry # None
  BY DEF Looks
<1>4. Aware(e)'
  BY <1>1, <1>2, <1>3 DEF Aware, Goes, Untouched, Mounted
<1>5. Surviving(e)'
  BY DEF Surviving, Goes
<1> QED
  BY <1>4, <1>5

(* A cycle that returns before it changed the file, or after it.           *)
LEMMA Returns ==
  ASSUME Types, NEW e \in Editors, Surviving(e), NEW r \in {"add", "remove", "create", "error"},
         Return(e, r), UNCHANGED changes,
         effect'[e] = "flushed" /\ changes = 0 => Reported(e)' /\ Flushed'
  PROVE  Aware(e)' /\ Surviving(e)'
<1>1. pc'[e] = "idle" /\ snap'[e] = NoSnap
  BY DEF Return, Goto, Types
<1>2. Aware(e)'
  BY <1>1 DEF Aware, HasData, HasAll, Checked, Looks, NoSnap
<1>3. Surviving(e)'
  BY <1>1 DEF Surviving
<1> QED
  BY <1>2, <1>3

LEMMA GoesFrom ==
  ASSUME Types, NEW e \in Editors, NEW l, Goto(e, l), UNCHANGED <<site, changes, plan, unseen, result>>
  PROVE  Goes(e, l)
  BY DEF Goes, Goto, plan, Types

LEMMA BeforeTheChange ==
  ASSUME FileInv, NEW e \in Editors, Aware(e), Surviving(e), UNCHANGED site,
         \/ OpenMissing(e) \/ MkdirAll(e) \/ CreateTmp(e) \/ ApplyAttrs(e) \/ WriteTmp(e) \/ SyncTmp(e)
         \/ CheckTool(e) \/ CheckUnchanged(e) \/ RenameRefused(e) \/ OpenInPlace(e)
         \/ CheckRemove(e) \/ CallFails(e)
  PROVE  Aware(e)' /\ Surviving(e)'
<1> USE DEF FileInv, bounds, ghosts
<1>o. Own(e)
  OBVIOUS
<1>t. pc[e] \in Holding => tmp[e] \in Inodes /\ tmp[e] # entry
  BY <1>o DEF Own, Prepared, Types, Apart
<1>f. UNCHANGED fileVars => Untouched
  BY DEF fileVars, Untouched
<1>r. ASSUME NEW r \in {"add", "remove", "create", "error"}, Return(e, r), UNCHANGED <<changes, effect>>,
             pc[e] \notin {"idle", "tidy"}
      PROVE  Aware(e)' /\ Surviving(e)'
  BY <1>r, Returns DEF Surviving
<1>1. CASE OpenMissing(e)
  <2>1. pc[e] = "open" /\ UNCHANGED <<changes, effect>> /\ Untouched
    BY <1>1, <1>f DEF OpenMissing
  <2>2. CASE Return(e, "remove")
    BY <2>1, <2>2, <1>r
  <2>3. CASE Stay(e, "mkdir")
    BY <2>1, <2>3, GoesOn, GoesFrom DEF Stay
  <2> QED
    BY <1>1, <2>2, <2>3 DEF OpenMissing
<1>2. CASE MkdirAll(e) \/ CheckTool(e)
  <2>1. Untouched
    BY <1>2, <1>f DEF MkdirAll, CheckTool, Untouched
  <2>2. PICK l \in {"create", "check"} :
          /\ Goto(e, l) /\ pc[e] \in {"mkdir", "tool"}
          /\ UNCHANGED <<site, changes, plan, unseen, result, effect>>
    BY <1>2 DEF MkdirAll, CheckTool
  <2> QED
    BY <2>1, <2>2, GoesOn, GoesFrom
<1>3. CASE CreateTmp(e)
  <2>1. Untouched
    BY <1>3 DEF CreateTmp, Untouched, Fresh, Types
  <2>2. Goto(e, "attrs") /\ pc[e] = "create" /\ UNCHANGED <<site, changes, plan, unseen, result, effect>>
    BY <1>3 DEF CreateTmp
  <2> QED
    BY <2>1, <2>2, GoesOn, GoesFrom
<1>4. CASE ApplyAttrs(e) \/ WriteTmp(e) \/ SyncTmp(e)
  <2>1. pc[e] \in {"attrs", "write", "sync"} /\ entry' = entry
    BY <1>4 DEF ApplyAttrs, WriteTmp, SyncTmp
  <2>2. PICK q : inode' = [inode EXCEPT ![tmp[e]] = q]
    BY <1>4 DEF ApplyAttrs, WriteTmp, SyncTmp, Set
  <2>3. Untouched
    BY <2>1, <2>2, <1>t DEF Untouched, Holding, Types
  <2>4. PICK l \in {"write", "sync", "tool"} :
          Goto(e, l) /\ UNCHANGED <<site, changes, plan, unseen, result, effect>>
    BY <1>4 DEF ApplyAttrs, WriteTmp, SyncTmp
  <2> QED
    BY <2>1, <2>3, <2>4, GoesOn, GoesFrom
<1>5. CASE CheckUnchanged(e)
  <2>1. Untouched /\ pc[e] = "check" /\ UNCHANGED <<site, changes, plan, unseen, result, effect>>
    BY <1>5, <1>f DEF CheckUnchanged
  <2>2. (Unchanged(e) /\ Goto(e, "rename")) \/ Goto(e, "cleanup")
    BY <1>5 DEF CheckUnchanged
  <2> QED
    BY <2>1, <2>2, GoesOn, GoesFrom
<1>6. CASE RenameRefused(e)
  <2>1. Untouched /\ pc[e] = "rename" /\ UNCHANGED <<site, changes, plan, unseen, result, effect>>
    BY <1>6, <1>f DEF RenameRefused
  <2>2. Goto(e, "inplace") \/ Goto(e, "cleanup")
    BY <1>6 DEF RenameRefused
  <2> QED
    BY <2>1, <2>2, GoesOn, GoesFrom
<1>7. CASE OpenInPlace(e)
  <2>1. Untouched /\ pc[e] = "inplace" /\ UNCHANGED <<site, changes, plan, unseen, result, effect>>
    BY <1>7, <1>f DEF OpenInPlace
  <2>2. (Unchanged(e) /\ Goto(e, "chattr")) \/ Goto(e, "cleanup")
    BY <1>7 DEF OpenInPlace
  <2> QED
    BY <2>1, <2>2, GoesOn, GoesFrom
<1>8. CASE CheckRemove(e)
  <2>1. Untouched /\ pc[e] = "rmcheck" /\ UNCHANGED <<site, changes, effect>>
    BY <1>8, <1>f DEF CheckRemove
  <2>2. CASE Return(e, "error")
    BY <2>1, <2>2, <1>r
  <2>3. CASE Unchanged(e) /\ Stay(e, "unlink")
    BY <2>1, <2>3, GoesOn, GoesFrom DEF Stay
  <2> QED
    BY <1>8, <2>2, <2>3 DEF CheckRemove
<1>9. CASE CallFails(e)
  <2>1. Untouched /\ UNCHANGED <<site, changes, effect>> /\ pc[e] \notin {"idle", "tidy"}
    BY <1>9, <1>f DEF CallFails, Fault
  <2>2. CASE Return(e, "error")
    BY <2>1, <2>2, <1>r
  <2>3. CASE Stay(e, "cleanup")
    BY <2>1, <2>3, GoesOn, GoesFrom DEF Stay
  <2> QED
    BY <1>9, <2>2, <2>3 DEF CallFails
<1> QED
  BY <1>1, <1>2, <1>3, <1>4, <1>5, <1>6, <1>7, <1>8, <1>9

(* Reading the file.                                                       *)
LEMMA ReadingIt ==
  ASSUME FileInv, NEW e \in Editors, Aware(e), Surviving(e), UNCHANGED site,
         OpenAndStat(e) \/ ReadData(e) \/ ReadXattrs(e)
  PROVE  Aware(e)' /\ Surviving(e)'
<1> USE DEF FileInv, bounds, ghosts
<1>o. Own(e)
  OBVIOUS
<1>f. Untouched /\ UNCHANGED <<changes, effect, diskEntry>>
  BY DEF OpenAndStat, ReadData, ReadXattrs, Untouched, fileVars
<1>s. ASSUME pc'[e] \notin {"idle", "syncdir", "fsync", "tidy"}, pc[e] \notin {"idle", "tidy"}
      PROVE  Surviving(e)'
  BY <1>f, <1>s DEF Surviving
<1>1. CASE OpenAndStat(e)
  <2>1. SnapshotOf(entry).ino = entry /\ entry # None
    BY <1>1, SnapshotTyped DEF OpenAndStat, Types
  <2>2. /\ snap'[e] = SnapshotOf(entry) /\ pc[e] = "open" /\ op'[e] = op[e]
        /\ pc'[e] = "data" \/ (pc'[e] = "rmcheck" /\ DropIn /\ op[e] = "remove")
    BY <1>1 DEF OpenAndStat, Goto, Types
  <2>3. Aware(e)'
    BY <2>1, <2>2 DEF Aware, HasData, HasAll, Checked, DropIn
  <2> QED
    BY <2>2, <2>3, <1>s
<1>2. CASE ReadData(e)
  <2> DEFINE L == inode[snap[e].ino].lines
  <2>1. text' = [text EXCEPT ![e].lines = L] /\ pc[e] = "data" /\ UNCHANGED <<op, snap, unseen>>
    BY <1>2 DEF ReadData
  <2>2. [text[e] EXCEPT !.lines = L].lines = L
    <3>1. text[e] \in AText
      BY DEF Types
    <3>2. ASSUME NEW x \in AText, NEW K PROVE [x EXCEPT !.lines = K].lines = K
      BY DEF AText
    <3> QED
      BY <3>1, <3>2
  <2>3. text'[e].lines = L
    <3>1. text'[e] = [text[e] EXCEPT !.lines = L]
      BY <2>1 DEF Types
    <3> QED
      BY <3>1, <2>2
  <2>4. pc'[e] = "xattrs"
    BY <1>2 DEF ReadData, Goto, Types
  <2>5. Looks(e)' = Looks(e)
    BY <1>f, <2>1, LooksKept
  <2>6. Looks(e) => inode'[entry'].lines = text'[e].lines
    BY <1>f, <2>3 DEF Looks, Untouched
  <2>7. Aware(e)'
    BY <2>4, <2>5, <2>6 DEF Aware, HasData, HasAll, Checked
  <2> QED
    BY <2>1, <2>4, <2>7, <1>s
<1>3. CASE ReadXattrs(e)
  <2>1. pc[e] = "xattrs"
    BY <1>3 DEF ReadXattrs
  <2>2. CASE Return(e, "error") \/ Return(e, op[e])
    BY <2>1, <2>2, <1>f, Returns DEF Surviving, Types
  <2>3. CASE /\ op[e] # "create" /\ (DropIn \/ Edited(e) # text[e].lines)
             /\ text' = [text EXCEPT ![e].acl = inode[snap[e].ino].acl]
             /\ Goto(e, IF Edited(e) = {} /\ RemoveEmpty THEN "rmcheck" ELSE "create")
             /\ UNCHANGED <<op, snap, unseen, result>>
    <3> DEFINE a == inode[snap[e].ino].acl
    <3>1. text'[e].lines = text[e].lines /\ text'[e].acl = a
      <4>1. text'[e] = [text[e] EXCEPT !.acl = a]
        BY <2>3 DEF Types
      <4>2. ASSUME NEW x \in AText, NEW b
            PROVE  [x EXCEPT !.acl = b].acl = b /\ [x EXCEPT !.acl = b].lines = x.lines
        BY DEF AText
      <4>3. text[e] \in AText
        BY DEF Types
      <4> HIDE DEF a
      <4> QED
        BY <4>1, <4>2, <4>3
    <3>2. pc'[e] = "create" \/ (pc'[e] = "rmcheck" /\ Edited(e) = {})
      BY <2>3 DEF Goto, Types
    <3>3. Edited(e) = {} => op[e] = "remove"
      BY DEF Edited
    <3>4. op'[e] = op[e] /\ snap'[e] = snap[e] /\ snap[e].ino # None /\ unseen'[e] = unseen[e]
      BY <2>1, <2>3, <1>o DEF Own, Prepared, Reading
    <3>5. Looks(e)' = Looks(e)
      BY <1>f, <3>4, LooksKept
    <3>6. /\ Looks(e) => inode'[entry'].acl = text'[e].acl
          /\ Looks(e) /\ ~unseen[e] => inode'[entry'].lines = text'[e].lines
      BY <1>f, <2>1, <3>1 DEF Looks, Untouched, Aware, HasData
    <3>7. Aware(e)'
      BY <3>2, <3>3, <3>4, <3>5, <3>6 DEF Aware, HasData, HasAll, Checked
    <3> QED
      BY <2>1, <3>2, <3>7, <1>s
  <2> QED
    BY <1>3, <2>2, <2>3 DEF ReadXattrs
<1> QED
  BY <1>1, <1>2, <1>3

(* The change, off mount points.                                           *)
LEMMA TheChange ==
  ASSUME FileInv, NEW e \in Editors, Aware(e), Surviving(e), UNCHANGED site,
         Rename(e) \/ Unlink(e)
  PROVE  Aware(e)' /\ Surviving(e)'
<1> USE DEF FileInv
<1>o. Own(e)
  OBVIOUS
<1>a. ASSUME pc'[e] = "syncdir", ~Mounted PROVE Aware(e)'
  BY <1>a DEF Aware, HasData, HasAll, Checked, Mounted
<1>1. CASE Rename(e)
  <2> DEFINE q == [inode[tmp[e]] EXCEPT !.stamp = clock]
  <2>1. /\ pc[e] = "rename" /\ ~Mounted /\ entry' = tmp[e] /\ Goto(e, "syncdir")
        /\ effect' = [effect EXCEPT ![e] = "made"] /\ UNCHANGED <<changes, op>>
        /\ inode' = [inode EXCEPT ![tmp[e]] = q]
    BY <1>1 DEF Rename, MoveTmp, Set, plan, bounds
  <2>2. tmp[e] \in Inodes /\ tmp[e] # None /\ inode[tmp[e]] \in AnInode /\ clock \in Nat
        /\ inode[tmp[e]].lines = Edited(e)
    BY <2>1, <1>o DEF Own, Prepared, Holding, Types
  <2>3. WithLines(q, inode[tmp[e]], inode[tmp[e]].lines)
    BY <2>2, Stamped
  <2> HIDE DEF q
  <2>4. pc'[e] = "syncdir" /\ effect'[e] = "made" /\ Content' = Edited(e)
    BY <2>1, <2>2, <2>3 DEF Goto, Types, Content, WithLines
  <2>5. Done(e)'
    BY <2>1, <2>4 DEF Done, Edited
  <2>6. Surviving(e)'
    BY <2>4, <2>5 DEF Surviving
  <2> QED
    BY <2>1, <2>4, <2>6, <1>a
<1>2. CASE Unlink(e)
  <2>1. pc[e] = "unlink" /\ UNCHANGED changes
    BY <1>2 DEF Unlink, bounds
  <2>2. CASE ~Mounted /\ entry' = None /\ effect' = [effect EXCEPT ![e] = "made"] /\ Stay(e, "syncdir")
    <3>1. pc'[e] = "syncdir" /\ effect'[e] = "made" /\ op'[e] = "remove" /\ Content' = {}
      BY <2>1, <2>2 DEF Stay, Goto, Types, plan, Content, Aware
    <3>2. Surviving(e)'
      BY <3>1 DEF Surviving, Done
    <3> QED
      BY <2>2, <3>1, <3>2, <1>a
  <2>3. CASE Mounted /\ Return(e, "error") /\ UNCHANGED <<entry, effect>>
    BY <2>1, <2>3, Returns DEF Surviving
  <2> QED
    BY <1>2, <2>2, <2>3 DEF Unlink
<1> QED
  BY <1>1, <1>2

(* The end of a cycle.                                                     *)
LEMMA TheEnd ==
  ASSUME FileInv, NEW e \in Editors, Aware(e), Surviving(e), UNCHANGED site,
         SyncDir(e) \/ Cleanup(e)
  PROVE  Aware(e)' /\ Surviving(e)'
<1> USE DEF FileInv
<1>1. entry' = entry /\ Sweep /\ UNCHANGED changes
  BY DEF SyncDir, Cleanup, bounds, Fault
<1>2. Untouched
  BY <1>1, Swept DEF Types, Untouched
<1>3. Content' = Content
  BY <1>2 DEF Untouched, Content
<1>4. CASE SyncDir(e)
  <2>1. pc[e] = "syncdir" /\ Return(e, op[e]) /\ result'[e] = op[e]
    BY <1>4 DEF SyncDir, Return, Types
  <2>2. ~Mounted
    BY <2>1 DEF Aware
  <2>3. \/ diskEntry' = entry /\ effect' = [effect EXCEPT ![e] = "flushed"]
        \/ effect' = effect
    BY <1>4 DEF SyncDir
  <2>4. CASE diskEntry' = entry /\ effect' = [effect EXCEPT ![e] = "flushed"]
    <3>1. Flushed'
      BY <1>1, <1>2, <2>2, <2>4 DEF Flushed, Durable, Untouched, Types
    <3>2. changes = 0 => Reported(e)'
      BY <1>3, <2>1 DEF Surviving, Done, Reported
    <3> QED
      BY <1>1, <2>1, <3>1, <3>2, Returns DEF Types
  <2>5. CASE effect' = effect
    BY <1>1, <2>1, <2>5, Returns DEF Surviving, Types
  <2> QED
    BY <2>3, <2>4, <2>5
<1>5. CASE Cleanup(e)
  <2>1. pc[e] \in {"cleanup", "tidy"} /\ effect' = effect /\ diskEntry' = diskEntry
    BY <1>5 DEF Cleanup
  <2>2. CASE pc[e] = "tidy"
    <3>1. Return(e, op[e]) /\ result'[e] = op[e]
      BY <1>5, <2>2 DEF Cleanup, Return, Types
    <3>2. changes = 0 => Reported(e)' /\ Flushed'
      BY <1>1, <1>2, <1>3, <2>1, <2>2, <3>1 DEF Surviving, Done, Reported, Flushed, Untouched
    <3> QED
      BY <1>1, <3>1, <3>2, Returns DEF Types
  <2>3. CASE pc[e] = "cleanup"
    <3>1. Return(e, "error")
      BY <1>5, <2>3 DEF Cleanup
    <3> QED
      BY <1>1, <2>1, <2>3, <3>1, Returns DEF Surviving
  <2> QED
    BY <2>1, <2>2, <2>3
<1> QED
  BY <1>4, <1>5

(* The change of a mount point.                                            *)
LEMMA TheRewrite ==
  ASSUME FileInv, NEW e \in Editors, Aware(e), Surviving(e), UNCHANGED site,
         ChangeAttrs(e) \/ Truncate(e) \/ Rewrite(e) \/ SyncInPlace(e)
  PROVE  Aware(e)' /\ Surviving(e)'
<1> USE DEF FileInv
<1> DEFINE i == snap[e].ino
<1>o. Own(e)
  OBVIOUS
<1>1. InPlace(e)
  BY DEF ChangeAttrs, Truncate, Rewrite, SyncInPlace, InPlace
<1>2. /\ Mounted /\ i = entry /\ i \in Inodes /\ i # None /\ inode[i] \in AnInode
      /\ clock \in Nat /\ diskEntry = entry
  BY <1>1, <1>o DEF Own, Prepared, Apart, Types
<1>3. UNCHANGED <<site, entry, diskEntry, changes, op, snap, text, unseen>>
  BY DEF ChangeAttrs, Truncate, Rewrite, SyncInPlace, plan, ghosts, bounds
<1>n. Edited(e) \in SUBSET Marks
  BY EditedTyped
<1>d. ASSUME Content' = Edited(e) PROVE Done(e)'
  BY <1>3, <1>d DEF Done, Edited
<1>4. CASE ChangeAttrs(e)
  <2> DEFINE chmod == WantMode(e) # snap[e].mode
             dropAcl == DropIn /\ text[e].acl # NoAcl
             m == IF chmod THEN WantMode(e) ELSE inode[i].mode
             a == IF dropAcl THEN NoAcl ELSE inode[i].acl
             t == IF chmod \/ dropAcl THEN clock ELSE inode[i].stamp
             q == [inode[i] EXCEPT !.mode = m, !.acl = a, !.stamp = t]
             P(x, r) == x.lines = r.lines /\ x.mode = m /\ x.acl = a
  <2>1. inode' = [inode EXCEPT ![i] = q]
    BY <1>4 DEF ChangeAttrs, Set
  <2>2. ASSUME NEW r \in AnInode, NEW t0 PROVE P([r EXCEPT !.mode = m, !.acl = a, !.stamp = t0], r)
    <3> HIDE DEF m, a
    <3> QED
      BY DEF AnInode
  <2>3. P(q, inode[i])
    <3> HIDE DEF m, a, t, P
    <3> QED
      BY <1>2, <2>2
  <2> HIDE DEF q
  <2>4. inode'[entry'] = q
    BY <1>2, <1>3, <2>1 DEF Types
  <2>5. pc[e] = "chattr" /\ pc'[e] = "truncate" /\ effect'[e] = effect[e]
    BY <1>4 DEF ChangeAttrs, Goto, Types, ghosts
  <2>6. ~unseen[e] => /\ inode[i].lines = text[e].lines /\ inode[i].acl = text[e].acl
                      /\ inode[i].mode = snap[e].mode
    <3> SUFFICES ASSUME ~unseen[e]
                 PROVE  /\ inode[i].lines = text[e].lines /\ inode[i].acl = text[e].acl
                        /\ inode[i].mode = snap[e].mode
      OBVIOUS
    <3>1. SnapshotOf(entry) = snap[e]
      BY <1>2, <2>5 DEF Aware, Checked, Unchanged
    <3>2. Looks(e) /\ HasAll(e) /\ HasData(e)
      BY <1>2, <2>5, <3>1 DEF Looks, HasAll, HasData
    <3>3. snap[e].mode = inode[entry].mode
      BY <1>2, <3>1 DEF SnapshotOf
    <3> QED
      BY <1>2, <3>2, <3>3 DEF Aware
  <2>7. ~unseen[e] /\ DropIn => m = NewMode /\ a = NoAcl
    BY <2>6 DEF WantMode
  <2>8. Aware(e)'
    BY <1>3, <2>3, <2>4, <2>5, <2>6, <2>7 DEF Aware, HasData, HasAll, Checked, DropIn
  <2>9. Surviving(e)'
    BY <1>3, <2>5 DEF Surviving
  <2> QED
    BY <2>8, <2>9
<1>5. CASE Truncate(e)
  <2>1. pc'[e] = "rewrite" /\ effect'[e] = "made"
    BY <1>5 DEF Truncate, Goto, Types
  <2> QED
    BY <2>1 DEF Aware, Surviving, HasData, HasAll, Checked
<1>6. CASE Rewrite(e)
  <2> DEFINE L == Edited(e)
             q == [inode[i] EXCEPT !.lines = L, !.whole = TRUE, !.stamp = clock]
  <2>1. inode' = [inode EXCEPT ![i] = q]
    BY <1>6 DEF Rewrite, Set
  <2>2. q.lines = L
    <3> HIDE DEF L
    <3> QED
      BY <1>2 DEF AnInode
  <2> HIDE DEF q
  <2>3. Content' = Edited(e)
    BY <1>2, <1>3, <2>1, <2>2 DEF Content, Types
  <2>4. pc[e] = "rewrite" /\ pc'[e] = "fsync" /\ effect'[e] = effect[e]
    BY <1>6 DEF Rewrite, Goto, Types, ghosts
  <2> QED
    BY <1>3, <1>d, <2>3, <2>4 DEF Aware, Surviving, HasData, HasAll, Checked
<1>7. CASE SyncInPlace(e)
  <2> DEFINE q == [inode[i] EXCEPT !.synced = TRUE]
  <2>1. inode' = [inode EXCEPT ![i] = q]
    BY <1>7 DEF SyncInPlace, Set
  <2>2. q.lines = inode[i].lines /\ q.synced
    BY <1>2 DEF AnInode
  <2> HIDE DEF q
  <2>3. Content' = Content /\ Flushed'
    BY <1>2, <1>3, <2>1, <2>2 DEF Content, Flushed, Types
  <2>4. pc[e] = "fsync" /\ pc'[e] = "tidy" /\ effect'[e] = "flushed"
    BY <1>7 DEF SyncInPlace, Goto, Types
  <2> QED
    BY <1>3, <2>3, <2>4 DEF Aware, Surviving, Done, HasData, HasAll, Checked
<1> QED
  BY <1>4, <1>5, <1>6, <1>7

(* The process of the editor ends, with what it had flushed on the disk.   *)
LEMMA Ends ==
  ASSUME FileInv, NEW e \in Editors, Surviving(e), pc'[e] = "idle", snap'[e] = NoSnap,
         UNCHANGED <<site, effect, result, changes>>,
         Flushed => Flushed' /\ Content' = Content
  PROVE  Aware(e)' /\ Surviving(e)'
<1>1. Aware(e)'
  BY DEF Aware, HasData, HasAll, Checked, Looks, NoSnap
<1>2. pc[e] = "tidy" => result[e] = None
  BY DEF FileInv, Own, Unanswered
<1>3. Surviving(e)'
  BY <1>2, FileAssumption DEF FileAssumption, Surviving, Reported
<1> QED
  BY <1>1, <1>3

LEMMA Interrupted ==
  ASSUME FileInv, NEW e \in Editors, Surviving(e), UNCHANGED site, Crash(e) \/ PowerLoss
  PROVE  Aware(e)' /\ Surviving(e)'
<1> USE DEF FileInv
<1>1. CASE Crash(e)
  <2>1. Dead({e}) /\ Sweep /\ UNCHANGED <<entry, diskEntry, changes>>
    BY <1>1 DEF Crash, Fault
  <2>2. pc'[e] = "idle" /\ snap'[e] = NoSnap /\ UNCHANGED <<effect, result>>
    BY <2>1 DEF Dead
  <2>3. Flushed => Flushed' /\ Content' = Content
    BY <2>1, Swept DEF Flushed, Content, Types
  <2> QED
    BY <2>1, <2>2, <2>3, Ends
<1>2. CASE PowerLoss
  <2>1. PICK torn \in SUBSET {i \in Inodes : ~inode[i].synced} :
        inode' = [i \in Inodes |->
                   IF Fresh(i)' THEN Blank
                   ELSE [inode[i] EXCEPT !.synced = TRUE,
                                         !.whole = @ /\ i \notin torn,
                                         !.lines = IF i \in torn THEN {} ELSE @]]
    BY <1>2 DEF PowerLoss
  <2>2. Dead(Editors) /\ entry' \in {entry, diskEntry} /\ diskEntry' = entry' /\ UNCHANGED changes
    BY <1>2 DEF PowerLoss
  <2>3. pc'[e] = "idle" /\ snap'[e] = NoSnap /\ UNCHANGED <<effect, result>>
    BY <2>2 DEF Dead
  <2>4. ASSUME Flushed PROVE Flushed' /\ Content' = Content
    <3>1. entry' = entry /\ diskEntry' = entry
      BY <2>2, <2>4 DEF Flushed
    <3>2. CASE entry = None
      BY <3>1, <3>2 DEF Flushed, Content
    <3>3. CASE entry # None
      <4> DEFINE q(i) == [inode[i] EXCEPT !.synced = TRUE,
                                          !.whole = inode[i].whole /\ i \notin torn,
                                          !.lines = IF i \in torn THEN {} ELSE inode[i].lines]
      <4>1. entry \in Inodes /\ inode[entry] \in AnInode /\ ~Fresh(entry)' /\ entry \notin torn
        BY <3>1, <3>3, <2>4 DEF Types, Fresh, Flushed
      <4>2. ASSUME NEW i \in Inodes, ~Fresh(i)' PROVE inode'[i] = q(i)
        BY <2>1, <4>2
      <4>3. ASSUME NEW i \in Inodes, inode[i] \in AnInode, i \notin torn
            PROVE  q(i).synced /\ q(i).lines = inode[i].lines
        BY <4>3 DEF AnInode
      <4> HIDE DEF q
      <4> QED
        BY <3>1, <3>3, <4>1, <4>2, <4>3 DEF Flushed, Content
    <3> QED
      BY <3>2, <3>3
  <2> QED
    BY <2>2, <2>3, <2>4, Ends
<1> QED
  BY <1>1, <1>2

(* A change of another program is noticed, or known to be unseen.          *)
LEMMA Elsewhere ==
  ASSUME FileInv, NEW e \in Editors, Aware(e), UNCHANGED site, ForeignChange
  PROVE  Aware(e)' /\ Surviving(e)'
<1>1. /\ UNCHANGED <<pc, op, snap, text>> /\ changes' = changes + 1
      /\ unseen'[e] = (unseen[e] \/ (pc[e] # "idle" /\ Blind(e)))
  BY DEF ForeignChange, plan
<1>2. ~unseen'[e] /\ pc[e] # "idle" => ~unseen[e] /\ ~Checked(e) /\ pc[e] # "truncate" /\ ~Looks(e)'
  BY <1>1 DEF Blind, InPlace, Checked, Looks
<1>3. Aware(e)'
  BY <1>1, <1>2 DEF Aware, HasData, HasAll, Checked, Mounted, DropIn
<1>4. Surviving(e)'
  BY <1>1 DEF Surviving, FileInv, Types
<1> QED
  BY <1>3, <1>4

LEMMA Starts ==
  ASSUME FileInv, NEW e \in Editors, Aware(e), NEW o, Begin(e, o), UNCHANGED site
  PROVE  Aware(e)' /\ Surviving(e)'
<1>1. /\ pc[e] = "idle" /\ pc'[e] = "open" /\ snap' = snap /\ effect'[e] = "none"
  BY DEF Begin, Goto, FileInv, Types
<1> QED
  BY <1>1 DEF Aware, Surviving, HasData, HasAll, Checked

(* The invariant of one editor at a time.                                  *)
THEOREM AloneInvariant == ASSUME Alone PROVE Spec => []AloneInv
<1>1. Init => AloneInv
  <2> SUFFICES ASSUME Init PROVE AloneInv
    OBVIOUS
  <2>1. ASSUME NEW e \in Editors PROVE Aware(e) /\ Surviving(e)
    BY DEF Init, Aware, Surviving, HasData, HasAll, Checked, NoSnap
  <2> QED
    BY <2>1, FileInit DEF AloneInv
<1>2. AloneInv /\ FileInv' /\ [Next]_vars => AloneInv'
  <2> SUFFICES ASSUME AloneInv, [Next]_vars, NEW e \in Editors
               PROVE  Aware(e)' /\ Surviving(e)'
    BY DEF AloneInv
  <2> USE DEF AloneInv
  <2>1. ASSUME NEW f \in Editors, NEW o \in Ops, Begin(f, o), UNCHANGED site
        PROVE  Aware(e)' /\ Surviving(e)'
    BY <2>1, Starts, Alone DEF Alone
  <2>2. ASSUME NEW f \in Editors, Edit(f), UNCHANGED site
        PROVE  Aware(e)' /\ Surviving(e)'
    <3>1. Edit(e)
      BY <2>2, Alone DEF Alone
    <3> QED
      BY <2>2, <3>1, BeforeTheChange, ReadingIt, TheChange, TheEnd, TheRewrite DEF Edit
  <2>3. ASSUME NEW f \in Editors, Crash(f), UNCHANGED site
        PROVE  Aware(e)' /\ Surviving(e)'
    BY <2>3, Interrupted, Alone DEF Alone
  <2>4. ASSUME Environment, UNCHANGED site
        PROVE  Aware(e)' /\ Surviving(e)'
    <3>1. PowerLoss \/ ForeignChange
      BY <2>4 DEF Environment, ForeignWrite, ForeignChmod, ForeignReplace, ForeignRemove
    <3> QED
      BY <2>4, <3>1, Interrupted, Elsewhere
  <2>5. CASE UNCHANGED vars
    BY <2>5 DEF vars, fileVars, editVars, plan, ghosts, bounds, Aware, Surviving, HasData, HasAll,
                Checked, Looks, Unchanged, SnapshotOf, Done, Reported, Flushed, Content, Mounted, DropIn
  <2> QED
    BY <2>1, <2>2, <2>3, <2>4, <2>5 DEF Next
<1> QED
  BY <1>1, <1>2, FileInvariant, PTL DEF Spec

LEMMA Commits ==
  ASSUME Alone, FileInv, [Next]_vars, NEW e \in Editors, Commit(e)
  PROVE  /\ UNCHANGED site
         /\ Rename(e) \/ Truncate(e) \/ (Unlink(e) /\ entry' = None)
<1> USE DEF Commit
<1>1. effect' # effect
  OBVIOUS
<1>2. ASSUME NEW f \in Editors, NEW o \in Ops, Begin(f, o) PROVE FALSE
  BY <1>2 DEF Begin, FileInv, Types
<1>3. ~Environment
  BY <1>1 DEF Environment, PowerLoss, Dead, ForeignWrite, ForeignChmod, ForeignReplace, ForeignRemove,
              ForeignChange
<1>4. ASSUME NEW f \in Editors, Crash(f) PROVE FALSE
  BY <1>1, <1>4 DEF Crash, Dead
<1>5. ~ UNCHANGED vars
  BY <1>1 DEF vars, editVars, ghosts
<1>6. UNCHANGED site /\ \E f \in Editors : Edit(f)
  BY <1>2, <1>3, <1>4, <1>5 DEF Next
<1>7. Edit(e)
  BY <1>6, Alone DEF Alone
<1>8. ~ SyncDir(e) /\ ~ SyncInPlace(e)
  BY DEF SyncDir, SyncInPlace, FileInv, Types
<1>9. Rename(e) \/ Truncate(e) \/ Unlink(e)
  BY <1>1, <1>7, <1>8 DEF Edit, OpenAndStat, OpenMissing, ReadData, ReadXattrs, MkdirAll, CreateTmp,
         ApplyAttrs, WriteTmp, SyncTmp, CheckTool, CheckUnchanged, RenameRefused, Cleanup, OpenInPlace,
         ChangeAttrs, Rewrite, CheckRemove, CallFails, ghosts
<1>10. Unlink(e) => entry' = None
  BY <1>1 DEF Unlink
<1> QED
  BY <1>6, <1>9, <1>10

(* What a cycle replaces or removes is what it read.                       *)
THEOREM WhatIsReplacedWasRead == ASSUME Alone PROVE Spec => OnlyReadIsReplaced
<1>1. ASSUME AloneInv, [Next]_vars
      PROVE  \A e \in Editors : Commit(e) =>
               IF snap[e].ino = None THEN entry = None \/ (unseen[e] /\ ~NoReplace)
               ELSE \/ unseen[e]
                    \/ /\ entry = snap[e].ino
                       /\ inode[entry].lines = text[e].lines \/ (DropIn /\ op[e] = "remove")
  <2> SUFFICES ASSUME NEW e \in Editors, Commit(e)
               PROVE  IF snap[e].ino = None THEN entry = None \/ (unseen[e] /\ ~NoReplace)
                      ELSE \/ unseen[e]
                           \/ /\ entry = snap[e].ino
                              /\ inode[entry].lines = text[e].lines \/ (DropIn /\ op[e] = "remove")
    OBVIOUS
  <2> USE <1>1 DEF AloneInv
  <2>o. Own(e) /\ Aware(e)
    BY DEF FileInv
  <2>u. Unchanged(e) => \/ snap[e].ino = None /\ entry = None
                        \/ Looks(e)
    BY SnapshotTyped DEF Unchanged, Looks, FileInv, Types
  <2>1. CASE Rename(e)
    <3>1. /\ pc[e] = "rename" /\ ~Mounted
          /\ snap[e].ino # None \/ entry = None \/ ~NoReplace
      BY <2>1 DEF Rename
    <3>2. ~unseen[e] => Unchanged(e)
      BY <3>1, <2>o DEF Aware, Checked
    <3>3. ~unseen[e] /\ Looks(e) => inode[entry].lines = text[e].lines
      BY <3>1, <2>o DEF Aware, HasData
    <3> QED
      BY <3>1, <3>2, <3>3, <2>u DEF Looks
  <2>2. CASE Truncate(e)
    <3>1. pc[e] = "truncate"
      BY <2>2 DEF Truncate
    <3> QED
      BY <3>1, <2>o DEF Own, Prepared, InPlace, Aware, FileInv, Apart
  <2>3. CASE Unlink(e) /\ entry' = None
    <3>1. pc[e] = "unlink" /\ snap[e].ino # None /\ op[e] = "remove"
      BY <2>3, <2>o DEF Unlink, Aware
    <3>2. ~Mounted
      BY <2>3 DEF Unlink, FileInv, Apart
    <3>3. ~unseen[e] => Looks(e)
      BY <3>1, <3>2, <2>o, <2>u DEF Aware, Checked
    <3>4. ~unseen[e] /\ ~DropIn => inode[entry].lines = text[e].lines
      BY <3>1, <3>3, <2>o DEF Aware, HasData
    <3> QED
      BY <3>1, <3>3, <3>4 DEF Looks
  <2> QED
    BY <2>1, <2>2, <2>3, Commits
<1> QED
  BY <1>1, AloneInvariant, PTL DEF Spec, OnlyReadIsReplaced

(* The replacement has the attributes the file had.                        *)
THEOREM AttributesAreKept == ASSUME Alone PROVE Spec => AttrsKept
<1>1. ASSUME AloneInv, [Next]_vars
      PROVE  \A e \in Editors : Commit(e) /\ entry # None /\ entry' # None /\ ~unseen[e] =>
               LET new == inode'[entry'] IN
               IF DropIn THEN new.mode = NewMode /\ new.acl = NoAcl
               ELSE new.mode = inode[entry].mode /\ new.acl = inode[entry].acl
  <2> SUFFICES ASSUME NEW e \in Editors, Commit(e), entry # None, entry' # None, ~unseen[e]
               PROVE  IF DropIn THEN inode'[entry'].mode = NewMode /\ inode'[entry'].acl = NoAcl
                      ELSE inode'[entry'].mode = inode[entry].mode /\ inode'[entry'].acl = inode[entry].acl
    OBVIOUS
  <2> USE <1>1 DEF AloneInv
  <2>o. Own(e) /\ Aware(e)
    BY DEF FileInv
  <2>1. CASE Rename(e)
    <3> DEFINE q == [inode[tmp[e]] EXCEPT !.stamp = clock]
    <3>1. /\ pc[e] = "rename" /\ ~Mounted /\ entry' = tmp[e]
          /\ inode' = [inode EXCEPT ![tmp[e]] = q]
      BY <2>1 DEF Rename, MoveTmp, Set
    <3>2. tmp[e] \in Inodes /\ inode[tmp[e]] \in AnInode /\ clock \in Nat
      BY <3>1, <2>o DEF Own, Prepared, Holding, FileInv, Types
    <3>3. WithLines(q, inode[tmp[e]], inode[tmp[e]].lines)
      BY <3>2, Stamped
    <3> HIDE DEF q
    <3>4. inode'[entry'].mode = inode[tmp[e]].mode /\ inode'[entry'].acl = inode[tmp[e]].acl
      BY <3>1, <3>2, <3>3 DEF WithLines, FileInv, Types
    <3>5. Looks(e)
      BY <3>1, <2>o DEF Aware, Checked, Unchanged, Looks, SnapshotOf
    <3>6. snap[e].mode = inode[entry].mode
      BY <3>5 DEF Looks, SnapshotOf
    <3>7. text[e].acl = inode[entry].acl
      BY <3>1, <3>5, <2>o DEF Aware, HasAll, HasData
    <3> QED
      BY <3>1, <3>4, <3>5, <3>6, <3>7, <2>o DEF Own, Prepared, WantMode, Looks
  <2>2. CASE Truncate(e)
    <3> DEFINE q == [inode[entry] EXCEPT !.lines = {}, !.whole = FALSE, !.synced = FALSE, !.stamp = clock]
    <3>1. pc[e] = "truncate" /\ snap[e].ino = entry /\ entry \in Inodes /\ inode[entry] \in AnInode
      BY <2>2, <2>o DEF Truncate, Own, Prepared, InPlace, FileInv, Types
    <3>2. inode' = [inode EXCEPT ![entry] = q] /\ entry' = entry
      BY <2>2, <3>1 DEF Truncate, Set
    <3>3. q.mode = inode[entry].mode /\ q.acl = inode[entry].acl
      BY <3>1 DEF AnInode
    <3> HIDE DEF q
    <3>4. inode'[entry'] = q
      BY <3>1, <3>2 DEF FileInv, Types
    <3> QED
      BY <3>1, <3>3, <3>4, <2>o DEF Aware
  <2> QED
    BY <2>1, <2>2, Commits
<1> QED
  BY <1>1, AloneInvariant, PTL DEF Spec, AttrsKept

(* What a cycle reported is so, and stays so if power is lost.             *)
THEOREM ReportedChangesSurvive == ASSUME Alone PROVE Spec => []ChangesSurvive
<1>1. AloneInv => ChangesSurvive
  <2> SUFFICES ASSUME AloneInv, changes = 0, NEW e \in Editors, effect[e] = "flushed"
               PROVE  Reported(e)
    BY DEF ChangesSurvive
  <2>1. Own(e) /\ Surviving(e)
    BY DEF AloneInv, FileInv
  <2>2. pc[e] # "idle" => result[e] = None
    BY <2>1 DEF Own, Unanswered
  <2> QED
    BY <2>1, <2>2, FileAssumption DEF FileAssumption, Surviving, Reported
<1> QED
  BY <1>1, AloneInvariant, PTL

-----------------------------------------------------------------------------
(* Proofs about SharedFile.                                                *)

(* All resources compute the same key: the directory exists before any of  *)
(* them, or each was given the path without symlinks.                      *)
OneKey == DirExists \/ \A e \in Editors : Spelling[e] = Canon

\* What the proof needs to know of the types.
LockTypes ==
  /\ pc \in [Editors -> PCs]
  /\ holder \in [Keys -> Editors \cup {None}]
  /\ key \in [Editors -> Keys]
  /\ stage \in [Editors -> {"idle", "waiting", "locked"}]

(* A resource that is in its cycle has the lock of its key, and all that   *)
(* wait or have the lock use the one key.                                  *)
LockInv ==
  /\ LockTypes
  /\ dir \in BOOLEAN /\ (DirExists => dir)
  /\ \A e \in Editors : stage[e] # "idle" => key[e] = Canon
  /\ \A e \in Editors : stage[e] = "locked" => holder[key[e]] = e
  /\ \A e \in Editors : pc[e] # "idle" => stage[e] = "locked"

-----------------------------------------------------------------------------
(* A step of an editor moves only that editor, and only ever makes the     *)
(* directory.                                                              *)
LEMMA EditFrame ==
  ASSUME pc \in [Editors -> PCs], NEW e \in Editors, Edit(e)
  PROVE  /\ \E l \in PCs : pc' = [pc EXCEPT ![e] = l]
         /\ dir' = dir \/ dir' = TRUE
<1> DEFINE Moves == \E l \in PCs : pc' = [pc EXCEPT ![e] = l]
           Dir == dir' = dir \/ dir' = TRUE
<1>0. ASSUME NEW l \in PCs, Goto(e, l) PROVE Moves
  BY <1>0 DEF Goto
<1>r. ASSUME NEW r, Return(e, r) PROVE Moves
  BY <1>r, <1>0 DEF Return, PCs
<1>s. ASSUME NEW l \in PCs, Stay(e, l) PROVE Moves
  BY <1>s, <1>0 DEF Stay
<1>p. {"idle", "open", "data", "xattrs", "mkdir", "create", "attrs", "write",
       "sync", "tool", "check", "rename", "inplace", "chattr", "truncate",
       "rewrite", "fsync", "tidy", "cleanup", "rmcheck", "unlink", "syncdir"} \subseteq PCs
  BY DEF PCs
<1> HIDE DEF Moves
<1>1. ASSUME OpenAndStat(e) PROVE Moves /\ Dir
  BY <1>1, <1>0, <1>p DEF OpenAndStat, fileVars
<1>2. ASSUME OpenMissing(e) PROVE Moves /\ Dir
  BY <1>2, <1>r, <1>s, <1>p DEF OpenMissing, fileVars
<1>3. ASSUME ReadData(e) \/ CheckTool(e) \/ CheckUnchanged(e) \/ OpenInPlace(e) PROVE Moves /\ Dir
  BY <1>3, <1>0, <1>p DEF ReadData, CheckTool, CheckUnchanged, OpenInPlace, fileVars
<1>4. ASSUME ReadXattrs(e) PROVE Moves /\ Dir
  BY <1>4, <1>0, <1>r, <1>p DEF ReadXattrs, fileVars
<1>5. ASSUME MkdirAll(e) \/ CreateTmp(e) \/ ApplyAttrs(e) \/ WriteTmp(e) \/ SyncTmp(e)
      PROVE Moves /\ Dir
  BY <1>5, <1>0, <1>p DEF MkdirAll, CreateTmp, ApplyAttrs, WriteTmp, SyncTmp
<1>6. ASSUME Rename(e) \/ RenameRefused(e) PROVE Moves /\ Dir
  BY <1>6, <1>0, <1>p DEF Rename, RenameRefused, MoveTmp, fileVars
<1>7. ASSUME SyncDir(e) \/ Cleanup(e) PROVE Moves /\ Dir
  BY <1>7, <1>r DEF SyncDir, Cleanup
<1>8. ASSUME ChangeAttrs(e) \/ Truncate(e) \/ Rewrite(e) \/ SyncInPlace(e) PROVE Moves /\ Dir
  BY <1>8, <1>0, <1>p DEF ChangeAttrs, Truncate, Rewrite, SyncInPlace
<1>9. ASSUME CheckRemove(e) \/ Unlink(e) PROVE Moves /\ Dir
  BY <1>9, <1>r, <1>s, <1>p DEF CheckRemove, Unlink, fileVars
<1>10. ASSUME CallFails(e) PROVE Moves /\ Dir
  BY <1>10, <1>r, <1>s, <1>p DEF CallFails, fileVars
<1> QED
  BY <1>1, <1>2, <1>3, <1>4, <1>5, <1>6, <1>7, <1>8, <1>9, <1>10 DEF Edit, Moves

(* The invariant of the lock.                                              *)
THEOREM LockInvariant == ASSUME OneKey PROVE SharedSpec => []LockInv
<1> USE FileAssumption, SharedAssumption
<1>1. SharedInit => LockInv
  BY OneKey DEF SharedInit, Init, LockInv, LockTypes, PCs, FileAssumption, SharedAssumption, OneKey
<1>2. LockInv /\ [SharedNext]_sharedVars => LockInv'
  <2> SUFFICES ASSUME LockInv, [SharedNext]_sharedVars PROVE LockInv'
    OBVIOUS
  <2> USE DEF LockInv, LockTypes
  <2>1. ASSUME NEW e \in Editors, AskLock(e) PROVE LockInv'
    <3>1. FileLockKey(e) = Canon
      BY OneKey DEF FileLockKey, OneKey
    <3> QED
      BY <2>1, <3>1 DEF AskLock, vars, fileVars, editVars, SharedAssumption
  <2>2. ASSUME NEW e \in Editors, NEW o, Lock(e, o) PROVE LockInv'
    BY <2>2 DEF Lock, Begin, Goto, fileVars, PCs, FileAssumption, SharedAssumption
  <2>3. ASSUME NEW e \in Editors, LockTimesOut(e) PROVE LockInv'
    BY <2>3 DEF LockTimesOut, fileVars
  <2>4. ASSUME NEW e \in Editors, EditLocked(e) PROVE LockInv'
    BY <2>4, EditFrame DEF EditLocked
  <2>5. ASSUME NEW e \in Editors, Unlock(e) PROVE LockInv'
    BY <2>5 DEF Unlock, vars, fileVars, editVars
  <2>6. ASSUME NEW e \in Editors, CrashLocked(e) PROVE LockInv'
    BY <2>6 DEF CrashLocked, Crash, Dead, PCs
  <2>7. CASE UNCHANGED sharedVars
    BY <2>7 DEF sharedVars, vars, fileVars, editVars
  <2> QED
    BY <2>1, <2>2, <2>3, <2>4, <2>5, <2>6, <2>7 DEF SharedNext
<1> QED
  BY <1>1, <1>2, PTL DEF SharedSpec

(* Edits of one file are serialised when all compute the same key.         *)
THEOREM EditsAreSerialised == ASSUME OneKey PROVE SharedSpec => []EditsSerialised
<1>1. LockInv => EditsSerialised
  BY FileAssumption DEF LockInv, LockTypes, EditsSerialised
<1> QED
  BY <1>1, OneKey, LockInvariant, PTL

-----------------------------------------------------------------------------
(* The refinement: a file that several resources share, which is neither a *)
(* drop-in of one of them nor a mount point.                               *)
SharedSites == \A s \in Sites : ~s.dropIn /\ ~s.mounted

\* From the read to the change, the file is what was read, and a file that is
\* removed has nothing of the others in it.
Agreed(e) ==
  /\ pc[e] \in {"idle", "open"} => text[e].lines = {}
  /\ pc[e] = "data" => entry # None /\ snap[e].ino = entry
  /\ pc[e] \in {"xattrs", "mkdir", "create", "attrs", "write", "sync", "tool", "check",
                "rename", "rmcheck", "unlink"} => Content = text[e].lines
  /\ pc[e] \in {"rmcheck", "unlink"} => Edited(e) = {}

AgreedInv == FileInv /\ site \in Sites /\ \A e \in Editors : Agreed(e)

\* What an edit does to the content.
Edits(e) == Content' \in {Content, Content \cup {e}, Content \ {e}}

\* The step of an editor, as far as the refinement is concerned.
Atomically(e) ==
  /\ Agreed(e)' /\ Edits(e)
  /\ \A f \in Editors \ {e} : pc'[f] = pc[f] /\ text'[f] = text[f]

LEMMA ReturnAgrees ==
  ASSUME Types, NEW e \in Editors, NEW r \in {"add", "remove", "create", "error"}, Return(e, r),
         Content' = Content
  PROVE  Atomically(e)
<1>1. Cycles' /\ Others(e) /\ pc'[e] = "idle"
  BY Returned
<1>2. text'[e] = NoText
  BY DEF Return, Types
<1>3. NoText.lines = {}
  BY DEF NoText
<1> QED
  BY <1>1, <1>2, <1>3 DEF Atomically, Agreed, Edits, Others

\* A step on which neither what was read nor the file changes.
LEMMA GotoAgrees ==
  ASSUME Types, NEW e \in Editors, NEW l \in PCs, Goto(e, l), UNCHANGED <<site, op, text>>,
         Content' = Content, Agreed(e),
         \/ l \in {"cleanup", "syncdir", "inplace"}
         \/ /\ pc[e] \in {"mkdir", "create", "attrs", "write", "sync", "tool", "check"}
            /\ l \in {"create", "attrs", "write", "sync", "tool", "check", "rename"}
         \/ pc[e] = "rmcheck" /\ l = "unlink"
  PROVE  Atomically(e)
<1>1. pc'[e] = l /\ text'[e] = text[e] /\ Edited(e)' = Edited(e)
  BY DEF Goto, Types, Edited, DropIn
<1>2. \A f \in Editors \ {e} : pc'[f] = pc[f] /\ text'[f] = text[f]
  BY DEF Goto, Types
<1> QED
  BY <1>1, <1>2 DEF Atomically, Agreed, Edits

\* What is done to other inodes does not show.
LEMMA ElsewhereContent ==
  ASSUME FileInv, entry' = entry, NEW i \in Inodes, i # entry, NEW q,
         inode' = [inode EXCEPT ![i] = q]
  PROVE  Content' = Content
  BY DEF FileInv, Types, Content

(* A cycle that has the file to itself edits it at once.                    *)
LEMMA EditAgrees ==
  ASSUME FileInv, NEW e \in Editors, UNCHANGED site, Edit(e), Agreed(e), ~DropIn, ~Mounted
  PROVE  Atomically(e)
<1> USE FileAssumption DEF FileAssumption
<1>o. Own(e) /\ Types
  BY DEF FileInv
<1>l. {"idle", "open", "data", "xattrs", "mkdir", "create", "attrs", "write",
       "sync", "tool", "check", "rename", "inplace", "chattr", "truncate",
       "rewrite", "fsync", "tidy", "cleanup", "rmcheck", "unlink", "syncdir"} \subseteq PCs
  BY DEF PCs
<1>s. UNCHANGED <<entry, inode>> => Content' = Content
  BY DEF Content
<1>t. ASSUME pc[e] \in Holding PROVE tmp[e] \in Inodes /\ tmp[e] # entry
  BY <1>t, <1>o DEF Own, Prepared, FileInv, Types, Apart
<1>1. CASE OpenAndStat(e)
  <2>1. pc' = [pc EXCEPT ![e] = "data"] /\ text' = text /\ entry # None /\ UNCHANGED <<entry, inode>>
    BY <1>1 DEF OpenAndStat, Goto, fileVars
  <2>2. snap'[e].ino = entry
    BY <1>1, <1>o, SnapshotTyped DEF OpenAndStat, Types
  <2> QED
    BY <2>1, <2>2, <1>s, <1>o DEF Atomically, Agreed, Edits, Types
<1>2. CASE OpenMissing(e)
  <2>1. UNCHANGED <<entry, inode>> /\ entry = None /\ pc[e] = "open"
    BY <1>2 DEF OpenMissing, fileVars
  <2>2. CASE Return(e, "remove")
    BY <2>1, <2>2, <1>s, <1>o, ReturnAgrees
  <2>3. CASE Stay(e, "mkdir")
    <3>1. pc' = [pc EXCEPT ![e] = "mkdir"] /\ text' = text
      BY <2>3 DEF Stay, Goto, plan
    <3> QED
      BY <3>1, <2>1, <1>o DEF Atomically, Agreed, Edits, Types, Content
  <2> QED
    BY <1>2, <2>2, <2>3 DEF OpenMissing
<1>3. CASE ReadData(e)
  <2> DEFINE x == [text[e] EXCEPT !.lines = inode[snap[e].ino].lines]
  <2>1. /\ text' = [text EXCEPT ![e] = x] /\ pc' = [pc EXCEPT ![e] = "xattrs"]
        /\ UNCHANGED <<entry, inode>> /\ pc[e] = "data"
    BY <1>3 DEF ReadData, Goto, fileVars
  <2>2. entry # None /\ snap[e].ino = entry
    BY <2>1 DEF Agreed
  <2>3. x.lines = Content
    <3>1. text[e] \in AText
      BY <1>o DEF Types
    <3>2. ASSUME NEW t \in AText, NEW L PROVE [t EXCEPT !.lines = L].lines = L
      BY DEF AText
    <3> QED
      BY <3>1, <3>2, <2>2 DEF Content
  <2> HIDE DEF x
  <2> QED
    BY <2>1, <2>3, <1>s, <1>o DEF Atomically, Agreed, Edits, Types
<1>4. CASE ReadXattrs(e)
  <2>1. UNCHANGED <<entry, inode>> /\ pc[e] = "xattrs" /\ op[e] \in {"add", "remove", "create"}
    BY <1>4, <1>o DEF ReadXattrs, fileVars, Types
  <2>2. CASE Return(e, "error") \/ Return(e, op[e])
    BY <2>1, <2>2, <1>s, <1>o, ReturnAgrees
  <2>3. CASE /\ text' = [text EXCEPT ![e].acl = inode[snap[e].ino].acl]
             /\ Goto(e, IF Edited(e) = {} /\ RemoveEmpty THEN "rmcheck" ELSE "create")
             /\ UNCHANGED <<op, snap, unseen, result>>
    <3> DEFINE x == [text[e] EXCEPT !.acl = inode[snap[e].ino].acl]
    <3>1. text' = [text EXCEPT ![e] = x] /\ op' = op
      BY <2>3
    <3>2. \E l \in {"rmcheck", "create"} :
            pc' = [pc EXCEPT ![e] = l] /\ (l = "rmcheck" => Edited(e) = {})
      BY <2>3 DEF Goto
    <3>3. x.lines = text[e].lines
      <4>1. text[e] \in AText
        BY <1>o DEF Types
      <4>2. ASSUME NEW t \in AText, NEW a PROVE [t EXCEPT !.acl = a].lines = t.lines
        BY DEF AText
      <4> QED
        BY <4>1, <4>2
    <3> HIDE DEF x
    <3>4. text'[e].lines = text[e].lines /\ \A f \in Editors \ {e} : text'[f] = text[f]
      BY <3>1, <3>3, <1>o DEF Types
    <3>5. Edited(e)' = Edited(e)
      BY <3>1, <3>4 DEF Edited, DropIn
    <3> QED
      BY <3>2, <3>4, <3>5, <2>1, <1>s, <1>o DEF Atomically, Agreed, Edits, Types
  <2> QED
    BY <1>4, <2>2, <2>3 DEF ReadXattrs
<1>5. CASE MkdirAll(e) \/ CheckTool(e) \/ CheckUnchanged(e) \/ RenameRefused(e)
  <2>1. UNCHANGED <<entry, inode, op, text>>
    BY <1>5 DEF MkdirAll, CheckTool, CheckUnchanged, RenameRefused, fileVars, plan
  <2>2. PICK l \in {"create", "check", "rename", "cleanup", "inplace"} :
          /\ Goto(e, l)
          /\ l \in {"create", "check", "rename"} => pc[e] \in {"mkdir", "tool", "check"}
    BY <1>5 DEF MkdirAll, CheckTool, CheckUnchanged, RenameRefused
  <2> QED
    BY <2>1, <2>2, <1>s, <1>l, <1>o, GotoAgrees
<1>6. CASE CreateTmp(e)
  <2>1. PICK i \in Inodes : \E q :
          Fresh(i) /\ inode' = [inode EXCEPT ![i] = q]
    BY <1>6 DEF CreateTmp
  <2>2. i # entry /\ entry' = entry
    BY <2>1, <1>6 DEF Fresh, CreateTmp
  <2>3. Content' = Content
    BY <2>1, <2>2, ElsewhereContent
  <2> QED
    BY <2>3, <1>6, <1>l, <1>o, GotoAgrees DEF CreateTmp, plan
<1>7. CASE ApplyAttrs(e) \/ WriteTmp(e) \/ SyncTmp(e)
  <2>1. pc[e] \in Holding
    BY <1>7 DEF ApplyAttrs, WriteTmp, SyncTmp, Holding
  <2>2. \E q : inode' = [inode EXCEPT ![tmp[e]] = q]
    BY <1>7 DEF ApplyAttrs, WriteTmp, SyncTmp, Set
  <2>3. UNCHANGED <<entry, op, text>> /\ pc[e] \in {"attrs", "write", "sync"}
    BY <1>7 DEF ApplyAttrs, WriteTmp, SyncTmp, plan
  <2>4. Content' = Content
    BY <2>1, <2>2, <2>3, <1>t, ElsewhereContent
  <2>5. PICK l \in {"write", "sync", "tool"} : Goto(e, l)
    BY <1>7 DEF ApplyAttrs, WriteTmp, SyncTmp
  <2> QED
    BY <2>3, <2>4, <2>5, <1>l, <1>o, GotoAgrees
<1>8. CASE Rename(e)
  <2> DEFINE q == [inode[tmp[e]] EXCEPT !.stamp = clock]
  <2>1. /\ pc[e] = "rename" /\ Goto(e, "syncdir") /\ entry' = tmp[e] /\ UNCHANGED <<op, text>>
        /\ inode' = [inode EXCEPT ![tmp[e]] = q]
    BY <1>8 DEF Rename, MoveTmp, Set, plan
  <2>2. tmp[e] \in Inodes /\ tmp[e] # None /\ inode[tmp[e]] \in AnInode /\ inode[tmp[e]].lines = Edited(e)
    BY <2>1, <1>o, <1>t DEF Own, Prepared, Holding, Types
  <2>3. q.lines = Edited(e)
    <3>1. WithLines(q, inode[tmp[e]], inode[tmp[e]].lines)
      BY <2>2, <1>o, Stamped DEF Types
    <3> QED
      BY <3>1, <2>2 DEF WithLines
  <2> HIDE DEF q
  <2>4. Content' = Edited(e)
    BY <2>1, <2>2, <2>3, <1>o DEF Content, Types
  <2>5. Edited(e) \in {text[e].lines \cup {e}, text[e].lines \ {e}}
    BY DEF Edited
  <2>6. Content = text[e].lines
    BY <2>1 DEF Agreed
  <2>7. pc'[e] = "syncdir" /\ \A f \in Editors \ {e} : pc'[f] = pc[f] /\ text'[f] = text[f]
    BY <2>1, <1>o DEF Goto, Types
  <2> QED
    BY <2>4, <2>5, <2>6, <2>7 DEF Atomically, Agreed, Edits
<1>9. CASE SyncDir(e) \/ Cleanup(e)
  <2>1. PICK r \in {"add", "remove", "create", "error"} : Return(e, r)
    BY <1>9, <1>o DEF SyncDir, Cleanup, Types
  <2>2. entry' = entry /\ Sweep
    BY <1>9 DEF SyncDir, Cleanup
  <2>3. Content' = Content
    BY <2>2, <1>o, Swept DEF Content, Types
  <2> QED
    BY <2>1, <2>3, <1>o, ReturnAgrees
<1>10. CASE CheckRemove(e)
  <2>1. UNCHANGED <<entry, inode>> /\ pc[e] = "rmcheck"
    BY <1>10 DEF CheckRemove, fileVars
  <2>2. CASE Return(e, "error")
    BY <2>1, <2>2, <1>s, <1>o, ReturnAgrees
  <2>3. CASE Stay(e, "unlink")
    BY <2>1, <2>3, <1>s, <1>l, <1>o, GotoAgrees DEF Stay, plan
  <2> QED
    BY <1>10, <2>2, <2>3 DEF CheckRemove
<1>11. CASE Unlink(e)
  <2>1. entry' = None /\ Stay(e, "syncdir") /\ pc[e] = "unlink"
    BY <1>11 DEF Unlink
  <2>2. Content' = {} /\ Content = text[e].lines /\ Edited(e) = {}
    BY <2>1 DEF Content, Agreed
  <2>3. Content \ {e} = {}
    BY <2>2 DEF Edited
  <2>4. pc'[e] = "syncdir" /\ \A f \in Editors \ {e} : pc'[f] = pc[f] /\ text'[f] = text[f]
    BY <2>1, <1>o DEF Stay, Goto, plan, Types
  <2> QED
    BY <2>2, <2>3, <2>4 DEF Atomically, Agreed, Edits
<1>12. CASE OpenInPlace(e) \/ ChangeAttrs(e) \/ Truncate(e) \/ Rewrite(e) \/ SyncInPlace(e)
  BY <1>12, <1>o DEF OpenInPlace, ChangeAttrs, Truncate, Rewrite, SyncInPlace, Own, Prepared, InPlace
<1>13. CASE CallFails(e)
  <2>1. UNCHANGED <<entry, inode>>
    BY <1>13 DEF CallFails, fileVars
  <2>2. CASE Return(e, "error")
    BY <2>1, <2>2, <1>s, <1>o, ReturnAgrees
  <2>3. CASE Stay(e, "cleanup")
    BY <2>1, <2>3, <1>s, <1>l, <1>o, GotoAgrees DEF Stay, plan
  <2> QED
    BY <1>13, <2>2, <2>3 DEF CallFails
<1> QED
  BY <1>1, <1>2, <1>3, <1>4, <1>5, <1>6, <1>7, <1>8, <1>9, <1>10, <1>11, <1>12, <1>13 DEF Edit

-----------------------------------------------------------------------------
LEMMA SharedStart == SharedInit => AgreedInv /\ Atomic!Init
<1> SUFFICES ASSUME SharedInit PROVE AgreedInv /\ Atomic!Init
  OBVIOUS
<1>1. FileInv /\ site \in Sites
  BY FileInit DEF SharedInit, Init
<1>2. \A e \in Editors : Agreed(e)
  BY DEF SharedInit, Init, Agreed, NoText
<1>3. Content = {}
  BY DEF SharedInit, Init, Content, Blank
<1> QED
  BY <1>1, <1>2, <1>3 DEF AgreedInv, Atomic!Init

(* While the lock serialises them, each step of an editor is an edit or    *)
(* leaves the content alone.                                               *)
LEMMA SharedStep ==
  ASSUME SharedSites, LockInv, AgreedInv, [SharedNext]_sharedVars
  PROVE  AgreedInv' /\ [Atomic!Next]_Content
<1> DEFINE Goal == AgreedInv' /\ (Content' = Content \/ Atomic!Next)
<1> USE FileAssumption, SharedAssumption DEF FileAssumption
<1>0. FileInv /\ Types /\ ~DropIn /\ ~Mounted /\ \A e \in Editors : Agreed(e)
  BY DEF AgreedInv, FileInv, SharedSites, DropIn, Mounted
<1>k. ASSUME Kept, Littered', UNCHANGED site, \A e \in Editors : Agreed(e)' PROVE AgreedInv'
  BY <1>k DEF Kept, FileInv, AgreedInv
<1>q. ASSUME UNCHANGED <<site, entry, inode, text, pc, op, snap>>
      PROVE  Content' = Content /\ \A e \in Editors : Agreed(e)'
  BY <1>q, <1>0 DEF Content, Agreed, Edited, DropIn
<1>1. ASSUME UNCHANGED vars PROVE Goal
  <2>1. FileInv'
    BY <1>1, <1>0, FileStutters
  <2>2. UNCHANGED <<site, entry, inode, text, pc, op, snap>>
    BY <1>1 DEF vars, fileVars, editVars, plan
  <2> QED
    BY <2>1, <2>2, <1>q DEF AgreedInv
<1>2. ASSUME NEW e \in Editors, LockTimesOut(e), UNCHANGED site PROVE Goal
  <2>1. pc[e] = "idle" /\ UNCHANGED <<entry, diskEntry, inode, clock, tmp, litter, pc, op, snap, text, unseen, bounds>>
    BY <1>2 DEF LockTimesOut, LockInv, LockTypes, fileVars, plan
  <2>2. result' = [result EXCEPT ![e] = "error"] /\ effect' = [effect EXCEPT ![e] = "none"]
    BY <1>2 DEF LockTimesOut
  <2>3. Types' /\ Quiet(e)
    BY <2>1, <2>2, <1>0, <1>2 DEF Types, Quiet, Spared, bounds
  <2>4. Own(e)'
    <3>1. Own(e)
      BY <1>0 DEF FileInv
    <3>2. Prepared(e)'
      BY <3>1, <2>1, <1>2 DEF Own, Prepared, Holding, Reading, InPlace, Mounted, WantMode, DropIn, Edited
    <3>3. Unanswered(e)'
      BY <3>1, <2>1, <2>2, <1>0 DEF Unanswered, Types
    <3> QED
      BY <3>2, <3>3 DEF Own
  <2>5. Kept /\ Littered'
    BY <2>1, <2>3, <2>4, <1>0, QuietStep DEF FileInv, Kept, Littered, bounds
  <2> QED
    BY <2>5, <2>1, <1>2, <1>k, <1>q
<1>e. ASSUME NEW e \in Editors, pc[e] # "idle" \/ stage[e] = "locked", UNCHANGED site,
             Atomically(e), Kept, Littered'
      PROVE  Goal
  <2>1. ASSUME NEW f \in Editors \ {e} PROVE pc[f] = "idle"
    BY <1>e DEF LockInv, LockTypes
  <2>2. \A f \in Editors \ {e} : Agreed(f)'
    BY <2>1, <1>e, <1>0 DEF Atomically, Agreed
  <2>3. \A f \in Editors : Agreed(f)'
    BY <2>2, <1>e DEF Atomically
  <2>4. Content' = Content \/ Atomic!Next
    BY <1>e DEF Atomically, Edits, Atomic!Next
  <2> QED
    BY <2>3, <2>4, <1>e, <1>k
<1>3. ASSUME NEW e \in Editors, EditLocked(e), UNCHANGED site PROVE Goal
  <2>1. Edit(e) /\ stage[e] = "locked"
    BY <1>3 DEF EditLocked
  <2> QED
    BY <2>1, <1>3, <1>0, <1>e, EditKept, EditLitter, EditAgrees
<1>4. ASSUME NEW e \in Editors, CrashLocked(e), UNCHANGED site PROVE Goal
  <2>1. Crash(e) /\ pc[e] # "idle"
    BY <1>4 DEF CrashLocked, Crash
  <2>2. Kept /\ Littered'
    BY <2>1, <1>4, <1>0, CrashStep
  <2>3. Dead({e}) /\ Sweep /\ entry' = entry
    BY <2>1 DEF Crash
  <2>4. Content' = Content
    BY <2>3, <1>0, Swept DEF Content, Types
  <2>5. /\ pc'[e] = "idle" /\ text'[e] = NoText
        /\ \A f \in Editors \ {e} : pc'[f] = pc[f] /\ text'[f] = text[f]
    BY <2>3 DEF Dead
  <2>6. NoText.lines = {}
    BY DEF NoText
  <2>7. Atomically(e)
    BY <2>4, <2>5, <2>6 DEF Atomically, Agreed, Edits
  <2> QED
    BY <2>1, <2>2, <2>7, <1>4, <1>e
<1>5. ASSUME NEW e \in Editors, NEW o \in Ops, Lock(e, o), UNCHANGED site PROVE Goal
  <2>1. Begin(e, o)
    BY <1>5 DEF Lock
  <2>2. /\ pc[e] = "idle" /\ pc' = [pc EXCEPT ![e] = "open"]
        /\ UNCHANGED <<entry, inode, text, litter, bounds>>
    BY <2>1 DEF Begin, Goto, fileVars
  <2>3. Kept /\ Littered'
    BY <2>1, <2>2, <1>5, <1>0, BeginStep DEF FileInv, Littered, bounds
  <2>4. Agreed(e) /\ Content' = Content
    BY <2>2, <1>0 DEF Content
  <2>5. Agreed(e)' /\ \A f \in Editors \ {e} : pc'[f] = pc[f] /\ text'[f] = text[f]
    BY <2>2, <2>4, <1>0 DEF Agreed, Types
  <2>6. \A f \in Editors \ {e} : pc[f] = "idle"
    BY <1>5 DEF Lock, LockInv, LockTypes
  <2>7. \A f \in Editors \ {e} : Agreed(f)'
    BY <2>5, <2>6, <1>0 DEF Agreed
  <2> QED
    BY <2>3, <2>4, <2>5, <2>7, <1>5, <1>k
<1>6. CASE UNCHANGED sharedVars
  BY <1>6, <1>1 DEF sharedVars
<1>7. ASSUME NEW e \in Editors, AskLock(e) \/ Unlock(e), UNCHANGED site PROVE Goal
  BY <1>7, <1>1 DEF AskLock, Unlock
<1>8. Goal
  BY <1>2, <1>3, <1>4, <1>5, <1>6, <1>7 DEF SharedNext
<1> QED
  BY <1>8

(* Whatever the resources of a file do under its lock, with faults and     *)
(* crashes, amounts to edits that happen at once.                          *)
THEOREM SharedEditsAreAtomic ==
  ASSUME OneKey, SharedSites PROVE SharedSpec => ImplementsAtomicEdits
<1>1. LockInv /\ AgreedInv /\ [SharedNext]_sharedVars => AgreedInv' /\ [Atomic!Next]_Content
  BY SharedSites, SharedStep
<1>2. SharedSpec => []LockInv
  BY OneKey, LockInvariant
<1> QED
  BY <1>1, <1>2, SharedStart, PTL DEF SharedSpec, ImplementsAtomicEdits, Atomic!Spec
=============================================================================
