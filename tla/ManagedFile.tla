------------------------------ MODULE ManagedFile ------------------------------
(***************************************************************************)
(* How the provider reads, replaces and removes a configuration file       *)
(* (src/internal/provider/safefs.go): readRegularFileNoFollow,             *)
(* writeManagedFile, replaceFileAtomicWith, rewriteInPlace and             *)
(* removeManagedFile, as the read-modify-write cycle of an editor.  Other  *)
(* programs change the file at the same time without any lock, system      *)
(* calls fail, processes die and the machine loses power.                  *)
(*                                                                         *)
(* The content of the file is the set of marks in it: an editor adds or    *)
(* removes its own mark, as a resource does with its line or section.      *)
(***************************************************************************)
EXTENDS Naturals, FiniteSets

CONSTANTS Editors,    \* the cycles that may run, each known by its mark
          Foreign,    \* marks of other programs
          Inodes,     \* inode numbers, used again once nothing refers to them
          Modes,      \* mode and ownership, as one value
          Acls,       \* the extended attributes, as one value
          NewMode,    \* newMode of replaceFileAtomic
          NoAcl,      \* no access ACL
          Private,    \* 0600 and the current user: how a temporary file starts
          None,       \* no inode, snapshot or result
          Sites,      \* which files there may be, and of which resources
          NoReplace,  \* the filesystem supports RENAME_NOREPLACE
          DirExists,  \* the parent directory is known to exist at first
          Coarse,     \* two changes may have the same timestamp
          MaxForeign, \* bound: changes by other programs
          MaxFaults,  \* bound: failed calls, killed processes and power losses
          MaxOutages  \* bound: power losses among them

Marks == Editors \cup Foreign

ASSUME FileAssumption ==
  /\ NewMode \in Modes /\ NoAcl \in Acls /\ Private \notin Modes
  /\ None \notin Inodes \cup Editors \cup {"add", "remove", "create", "error"}
  /\ Editors \cap Foreign = {} /\ IsFiniteSet(Editors)
  /\ {NoReplace, DirExists, Coarse} \subseteq BOOLEAN
  /\ Sites \subseteq [dropIn : BOOLEAN, mounted : BOOLEAN, removeEmpty : BOOLEAN]
  /\ MaxForeign \in Nat /\ MaxFaults \in Nat /\ MaxOutages \in Nat

VARIABLES site,      \* which file it is
          entry,     \* the inode the path of the file refers to
          inode,     \* content and attributes of each inode
          diskEntry, \* what the path refers to on stable storage
          dir,       \* whether the parent directory exists
          clock,     \* the time that changes are stamped with
          tmp,       \* the temporary file of an editor
          litter,    \* how many temporary files processes that died left
          pc,        \* where an editor is
          op,        \* whether it adds or removes its mark
          snap,      \* its fileSnapshot; ino is None for nil
          text,      \* the data and extended attributes it read
          unseen,    \* the file changed in a way its checks cannot notice
          effect,    \* whether its cycle changed the file, and that was flushed
          result,    \* what its last cycle returned: nil after op, or an error
          changes,   \* how many foreign changes there were, for MaxForeign
          faults,    \* how many faults there were, for MaxFaults
          outages    \* how often power was lost, for MaxOutages

fileVars == <<entry, inode, diskEntry, dir, clock>>
plan == <<op, snap, text>>
ghosts == <<unseen, effect>>
editVars == <<tmp, litter, pc, plan, ghosts, result>>
bounds == <<changes, faults, outages>>
vars == <<site, fileVars, editVars, bounds>>

DropIn == site.dropIn           \* attributes are given (dropin.go), not those of the file
Mounted == site.mounted         \* the file is a mount point
RemoveEmpty == site.removeEmpty \* a file left empty is removed (sysctl, limits, locale)

\* A cycle adds or removes its mark; a drop-in may also have to be new.
Ops == {"add", "remove"} \cup IF DropIn THEN {"create"} ELSE {}

PCs == {"idle", "open", "data", "xattrs", "mkdir", "create", "attrs", "write",
        "sync", "tool", "check", "rename", "inplace", "chattr", "truncate",
        "rewrite", "fsync", "tidy", "cleanup", "rmcheck", "unlink", "syncdir"}

Inode == [lines : SUBSET Marks, whole : BOOLEAN, mode : Modes \cup {Private},
          acl : Acls, stamp : 0..MaxForeign, synced : BOOLEAN]
Snapshot == [ino : Inodes \cup {None}, stamp : 0..MaxForeign,
             size : 0..Cardinality(Marks), mode : Modes \cup {Private}]

(* The file never has the attributes a temporary file starts with.         *)
TypeOK ==
  /\ entry \in Inodes \cup {None} /\ diskEntry \in Inodes \cup {None}
  /\ inode \in [Inodes -> Inode]
  /\ entry # None => inode[entry].mode \in Modes
  /\ dir \in BOOLEAN /\ clock \in 0..MaxForeign
  /\ tmp \in [Editors -> Inodes \cup {None}] /\ litter \in Nat
  /\ pc \in [Editors -> PCs]
  /\ op \in [Editors -> Ops]
  /\ snap \in [Editors -> Snapshot]
  /\ text \in [Editors -> [lines : SUBSET Marks, acl : Acls]]
  /\ unseen \in [Editors -> BOOLEAN] /\ effect \in [Editors -> {"none", "made", "flushed"}]
  /\ result \in [Editors -> Ops \cup {None, "error"}]
  /\ changes \in 0..MaxForeign /\ faults \in 0..MaxFaults /\ outages \in 0..MaxOutages

Blank == [lines |-> {}, whole |-> TRUE, mode |-> NewMode, acl |-> NoAcl,
          stamp |-> 0, synced |-> TRUE]
NoSnap == [ino |-> None, stamp |-> 0, size |-> 0, mode |-> NewMode]
NoText == [lines |-> {}, acl |-> NoAcl]

Init ==
  /\ inode = [i \in Inodes |-> Blank]
  /\ site \in Sites /\ dir \in BOOLEAN /\ (DirExists \/ Mounted => dir)
  /\ entry \in (IF Mounted THEN {} ELSE {None}) \cup (IF dir THEN Inodes ELSE {})
  /\ diskEntry = entry
  /\ clock = 0
  /\ tmp = [e \in Editors |-> None] /\ litter = 0
  /\ pc = [e \in Editors |-> "idle"]
  /\ op = [e \in Editors |-> "add"]
  /\ snap = [e \in Editors |-> NoSnap]
  /\ text = [e \in Editors |-> NoText]
  /\ unseen = [e \in Editors |-> FALSE] /\ effect = [e \in Editors |-> "none"]
  /\ result = [e \in Editors |-> None]
  /\ changes = 0 /\ faults = 0 /\ outages = 0

Goto(e, l) == pc' = [pc EXCEPT ![e] = l]
Fault == faults + outages < MaxFaults /\ faults' = faults + 1 /\ UNCHANGED <<changes, outages>>
Stay(e, l) == Goto(e, l) /\ UNCHANGED <<plan, unseen, result>>

\* The cycle returns, and forgets what it read.
Return(e, r) ==
  /\ Goto(e, "idle")
  /\ result' = [result EXCEPT ![e] = r]
  /\ op' = [op EXCEPT ![e] = "add"]
  /\ snap' = [snap EXCEPT ![e] = NoSnap]
  /\ text' = [text EXCEPT ![e] = NoText]
  /\ unseen' = [unseen EXCEPT ![e] = FALSE]

\* The content another program finds at the path.
Content == IF entry = None THEN {} ELSE inode[entry].lines

\* An editor keeps the file open while it reads it.
Reading(e) == pc[e] \in {"data", "xattrs"}
InPlace(e) == pc[e] \in {"chattr", "truncate", "rewrite", "fsync"}
InUse(i) ==
  \E e \in Editors : tmp[e] = i \/ ((Reading(e) \/ InPlace(e)) /\ snap[e].ino = i)
Fresh(i) == i \notin {entry, diskEntry} /\ ~InUse(i)

\* snapshotOf: what fstat tells of an inode.
SnapshotOf(i) ==
  [ino |-> i, stamp |-> inode[i].stamp, mode |-> inode[i].mode,
   size |-> IF inode[i].whole THEN Cardinality(inode[i].lines) ELSE 0]

\* Mutant: unchangedSince compares size and mode, not the timestamps.
UnchangedBySize(e) ==
  IF entry = None THEN snap[e].ino = None
  ELSE [SnapshotOf(entry) EXCEPT !.stamp = snap[e].stamp] = snap[e]

\* checkUnchanged: the target still is the file of the snapshot, or missing.
Unchanged(e) ==
  IF entry = None THEN snap[e].ino = None ELSE SnapshotOf(entry) = snap[e]

\* Mutant: what the others put into the file is dropped.
EditedAlone(e) == IF op[e] = "remove" THEN {} ELSE {e}

\* The edit itself, on what was read.
Edited(e) ==
  LET others == IF DropIn THEN {} ELSE text[e].lines \ {e} IN
  IF op[e] = "remove" THEN others ELSE others \cup {e}

\* preservedAttrs, or those of a drop-in.  A new file that is not a drop-in
\* keeps an ACL that it inherited from its directory.
WantMode(e) == IF DropIn \/ snap[e].ino = None THEN NewMode ELSE snap[e].mode
WantAcl(e, inherited) ==
  IF DropIn THEN NoAcl ELSE IF snap[e].ino = None THEN inherited ELSE text[e].acl

-----------------------------------------------------------------------------
(* readRegularFileNoFollow, and what the caller makes of the result. *)

Begin(e, o) ==
  /\ pc[e] = "idle"
  /\ op' = [op EXCEPT ![e] = o]
  /\ effect' = [effect EXCEPT ![e] = "none"]
  /\ result' = [result EXCEPT ![e] = None]
  /\ Goto(e, "open")
  /\ UNCHANGED <<fileVars, tmp, litter, snap, text, unseen, bounds>>

\* open(O_NOFOLLOW) and fstat: the snapshot precedes the data.  A drop-in is
\* removed without being read (removeDropInFile).
OpenAndStat(e) ==
  /\ pc[e] = "open" /\ entry # None
  /\ snap' = [snap EXCEPT ![e] = SnapshotOf(entry)]
  /\ Goto(e, IF DropIn /\ op[e] = "remove" THEN "rmcheck" ELSE "data")
  /\ UNCHANGED <<fileVars, tmp, litter, op, text, ghosts, result, bounds>>

\* ENOENT: a missing file is created, and has nothing to remove.
OpenMissing(e) ==
  /\ pc[e] = "open" /\ entry = None
  /\ IF op[e] = "remove" THEN Return(e, "remove") ELSE Stay(e, "mkdir")
  /\ UNCHANGED <<fileVars, tmp, litter, effect, bounds>>

ReadData(e) ==
  /\ pc[e] = "data"
  /\ text' = [text EXCEPT ![e].lines = inode[snap[e].ino].lines]
  /\ Goto(e, "xattrs")
  /\ UNCHANGED <<fileVars, tmp, litter, op, snap, ghosts, result, bounds>>

\* readXattrs; then the caller refuses a new drop-in that exists, or edits the
\* data and has nothing to do, writes the result or removes an empty file.
ReadXattrs(e) ==
  /\ pc[e] = "xattrs"
  /\ \/ op[e] = "create" /\ Return(e, "error")
     \/ ~DropIn /\ Edited(e) = text[e].lines /\ Return(e, op[e])
     \/ /\ op[e] # "create" /\ (DropIn \/ Edited(e) # text[e].lines)
        /\ text' = [text EXCEPT ![e].acl = inode[snap[e].ino].acl]
        /\ Goto(e, IF Edited(e) = {} /\ RemoveEmpty THEN "rmcheck" ELSE "create")
        /\ UNCHANGED <<op, snap, unseen, result>>
  /\ UNCHANGED <<fileVars, tmp, litter, effect, bounds>>

-----------------------------------------------------------------------------
(* writeManagedFileWith and replaceFileAtomicWith. *)

MkdirAll(e) ==
  /\ pc[e] = "mkdir"
  /\ dir' = TRUE
  /\ Goto(e, "create")
  /\ UNCHANGED <<entry, inode, diskEntry, clock, tmp, litter, plan, ghosts, result, bounds>>

\* O_CREAT|O_EXCL with mode 0600; the directory may have a default ACL.
CreateTmp(e) ==
  /\ pc[e] = "create"
  /\ \E i \in Inodes, a \in Acls :
       /\ Fresh(i)
       /\ inode' = [inode EXCEPT ![i] =
                      [lines |-> {}, whole |-> TRUE, mode |-> Private, acl |-> a,
                       stamp |-> clock, synced |-> FALSE]]
       /\ tmp' = [tmp EXCEPT ![e] = i]
  /\ Goto(e, "attrs")
  /\ UNCHANGED <<entry, diskEntry, dir, clock, litter, plan, ghosts, result, bounds>>

Set(i, f) == inode' = [inode EXCEPT ![i] = f]

\* applyReplaceAttrs: chown, removal of an inherited ACL, chmod, xattrs.
ApplyAttrs(e) ==
  /\ pc[e] = "attrs"
  /\ Set(tmp[e], [inode[tmp[e]] EXCEPT !.mode = WantMode(e), !.acl = WantAcl(e, @)])
  /\ Goto(e, "write")
  /\ UNCHANGED <<entry, diskEntry, dir, clock, tmp, litter, plan, ghosts, result, bounds>>

WriteTmp(e) ==
  /\ pc[e] = "write"
  /\ Set(tmp[e], [inode[tmp[e]] EXCEPT !.lines = Edited(e), !.stamp = clock])
  /\ Goto(e, "sync")
  /\ UNCHANGED <<entry, diskEntry, dir, clock, tmp, litter, plan, ghosts, result, bounds>>

\* Mutant: no fsync of the temporary file.
SyncTmpSkipped(e) ==
  /\ pc[e] = "sync"
  /\ Goto(e, "tool")
  /\ UNCHANGED <<fileVars, tmp, litter, plan, ghosts, result, bounds>>

SyncTmp(e) ==
  /\ pc[e] = "sync"
  /\ Set(tmp[e], [inode[tmp[e]] EXCEPT !.synced = TRUE])
  /\ Goto(e, "tool")
  /\ UNCHANGED <<entry, diskEntry, dir, clock, tmp, litter, plan, ghosts, result, bounds>>

\* attrs.check: a tool such as visudo accepts the temporary file.
CheckTool(e) ==
  /\ pc[e] = "tool"
  /\ Goto(e, "check")
  /\ UNCHANGED <<fileVars, tmp, litter, plan, ghosts, result, bounds>>

CheckUnchanged(e) ==
  /\ pc[e] = "check"
  /\ Goto(e, IF Unchanged(e) THEN "rename" ELSE "cleanup")
  /\ UNCHANGED <<fileVars, tmp, litter, plan, ghosts, result, bounds>>

\* The rename, which changes the ctime of the file it moves.
MoveTmp(e) ==
  /\ Set(tmp[e], [inode[tmp[e]] EXCEPT !.stamp = clock])
  /\ entry' = tmp[e]
  /\ tmp' = [tmp EXCEPT ![e] = None]
  /\ effect' = [effect EXCEPT ![e] = "made"]
  /\ Goto(e, "syncdir")
  /\ UNCHANGED <<diskEntry, dir, clock, litter, plan, unseen, result, bounds>>

\* Mutant: a plain rename for new files as well.
RenameClobbers(e) == pc[e] = "rename" /\ ~Mounted /\ MoveTmp(e)

\* renameNoReplace for a new file, else rename; EBUSY at a mount point.
Rename(e) ==
  /\ pc[e] = "rename" /\ ~Mounted
  /\ snap[e].ino # None \/ entry = None \/ ~NoReplace
  /\ MoveTmp(e)

RenameRefused(e) ==
  /\ pc[e] = "rename"
  /\ \/ Mounted /\ Goto(e, "inplace")
     \/ ~Mounted /\ NoReplace /\ snap[e].ino = None /\ entry # None /\ Goto(e, "cleanup")
  /\ UNCHANGED <<fileVars, tmp, litter, plan, ghosts, result, bounds>>

\* The kernel frees an inode that nothing refers to any more.
Sweep == inode' = [i \in Inodes |-> IF Fresh(i)' THEN Blank ELSE inode[i]]

\* Mutant: the file is flushed rather than its directory.
SyncDirNoop(e) ==
  /\ pc[e] = "syncdir"
  /\ Return(e, op[e])
  /\ effect' = [effect EXCEPT ![e] = "flushed"]
  /\ UNCHANGED <<fileVars, tmp, litter, bounds>>

\* Mutant: the failure to flush the directory is returned as an error.
SyncDirFails(e) ==
  /\ pc[e] = "syncdir"
  /\ Return(e, "error")
  /\ UNCHANGED <<fileVars, tmp, litter, effect, bounds>>

\* syncDir, whose failure is ignored.
SyncDir(e) ==
  /\ pc[e] = "syncdir"
  /\ Return(e, op[e])
  /\ \/ diskEntry' = entry /\ effect' = [effect EXCEPT ![e] = "flushed"] /\ UNCHANGED bounds
     \/ Fault /\ UNCHANGED <<diskEntry, effect>>
  /\ UNCHANGED <<entry, dir, clock, tmp, litter>>
  /\ Sweep

\* Mutant: the temporary file is left to a later cycle.
CleanupNever(e) ==
  /\ pc[e] \in {"cleanup", "tidy"}
  /\ Return(e, IF pc[e] = "tidy" THEN op[e] ELSE "error")
  /\ UNCHANGED <<fileVars, tmp, litter, effect, bounds>>

\* The deferred removal of the temporary file.
Cleanup(e) ==
  /\ pc[e] \in {"cleanup", "tidy"}
  /\ tmp' = [tmp EXCEPT ![e] = None]
  /\ Return(e, IF pc[e] = "tidy" THEN op[e] ELSE "error")
  /\ UNCHANGED <<entry, diskEntry, dir, clock, litter, effect, bounds>>
  /\ Sweep

-----------------------------------------------------------------------------
(* rewriteInPlace, for a mount point. *)

\* Mutant: no second check of the identity.
OpenInPlaceUnchecked(e) ==
  /\ pc[e] = "inplace"
  /\ Goto(e, "chattr")
  /\ UNCHANGED <<fileVars, tmp, litter, plan, ghosts, result, bounds>>

OpenInPlace(e) ==
  /\ pc[e] = "inplace"
  /\ Goto(e, IF Unchanged(e) THEN "chattr" ELSE "cleanup")
  /\ UNCHANGED <<fileVars, tmp, litter, plan, ghosts, result, bounds>>

\* Mutant: the attributes of a mount point are left alone.
ChangeAttrsNever(e) ==
  /\ pc[e] = "chattr"
  /\ Goto(e, "truncate")
  /\ UNCHANGED <<fileVars, tmp, litter, plan, ghosts, result, bounds>>

\* Ownership, ACL and mode, where they differ, before the contents.
ChangeAttrs(e) ==
  LET i == snap[e].ino
      dropAcl == DropIn /\ text[e].acl # NoAcl
      chmod == WantMode(e) # snap[e].mode IN
  /\ pc[e] = "chattr"
  /\ Set(i, [inode[i] EXCEPT !.mode = IF chmod THEN WantMode(e) ELSE @,
                             !.acl = IF dropAcl THEN NoAcl ELSE @,
                             !.stamp = IF chmod \/ dropAcl THEN clock ELSE @])
  /\ Goto(e, "truncate")
  /\ UNCHANGED <<entry, diskEntry, dir, clock, tmp, litter, plan, ghosts, result, bounds>>

Truncate(e) ==
  /\ pc[e] = "truncate"
  /\ Set(snap[e].ino, [inode[snap[e].ino] EXCEPT
       !.lines = {}, !.whole = FALSE, !.synced = FALSE, !.stamp = clock])
  /\ effect' = [effect EXCEPT ![e] = "made"]
  /\ Goto(e, "rewrite")
  /\ UNCHANGED <<entry, diskEntry, dir, clock, tmp, litter, plan, unseen, result, bounds>>

Rewrite(e) ==
  /\ pc[e] = "rewrite"
  /\ Set(snap[e].ino, [inode[snap[e].ino] EXCEPT
       !.lines = Edited(e), !.whole = TRUE, !.stamp = clock])
  /\ Goto(e, "fsync")
  /\ UNCHANGED <<entry, diskEntry, dir, clock, tmp, litter, plan, ghosts, result, bounds>>

SyncInPlace(e) ==
  /\ pc[e] = "fsync"
  /\ Set(snap[e].ino, [inode[snap[e].ino] EXCEPT !.synced = TRUE])
  /\ effect' = [effect EXCEPT ![e] = "flushed"]
  /\ Goto(e, "tidy")
  /\ UNCHANGED <<entry, diskEntry, dir, clock, tmp, litter, plan, unseen, result, bounds>>

-----------------------------------------------------------------------------
(* removeManagedFile. *)

CheckRemove(e) ==
  /\ pc[e] = "rmcheck"
  /\ IF Unchanged(e) THEN Stay(e, "unlink") ELSE Return(e, "error")
  /\ UNCHANGED <<fileVars, tmp, litter, effect, bounds>>

\* A file that is gone by now is not an error; a mount point is (EBUSY).
Unlink(e) ==
  /\ pc[e] = "unlink"
  /\ \/ /\ ~Mounted
        /\ entry' = None
        /\ effect' = [effect EXCEPT ![e] = "made"]
        /\ Stay(e, "syncdir")
     \/ Mounted /\ Return(e, "error") /\ UNCHANGED <<entry, effect>>
  /\ UNCHANGED <<inode, diskEntry, dir, clock, tmp, litter, bounds>>

-----------------------------------------------------------------------------
(* Faults. *)

\* A call fails, or the tool of attrs.check refuses the file.
CallFails(e) ==
  /\ Fault
  /\ \/ pc[e] \in {"open", "data", "xattrs", "mkdir", "create", "rmcheck", "unlink"} /\ Return(e, "error")
     \/ /\ pc[e] \in {"attrs", "write", "sync", "tool", "check", "rename", "inplace",
                      "chattr", "truncate", "rewrite", "fsync"}
        /\ Stay(e, "cleanup")
  /\ UNCHANGED <<fileVars, tmp, litter, effect>>

Dead(D) ==
  /\ pc' = [e \in Editors |-> IF e \in D THEN "idle" ELSE pc[e]]
  /\ op' = [e \in Editors |-> IF e \in D THEN "add" ELSE op[e]]
  /\ snap' = [e \in Editors |-> IF e \in D THEN NoSnap ELSE snap[e]]
  /\ text' = [e \in Editors |-> IF e \in D THEN NoText ELSE text[e]]
  /\ unseen' = [e \in Editors |-> unseen[e] /\ e \notin D]
  /\ tmp' = [e \in Editors |-> IF e \in D THEN None ELSE tmp[e]]
  /\ litter' = litter + Cardinality({e \in D : tmp[e] # None})
  /\ UNCHANGED <<effect, result>>

\* The provider is killed in the middle of a cycle.
Crash(e) ==
  /\ pc[e] # "idle"
  /\ Fault
  /\ Dead({e})
  /\ UNCHANGED <<entry, diskEntry, dir, clock>>
  /\ Sweep

\* Power is lost: of the directory either version is on the disk, and the
\* data of a file that was not flushed may be missing.
PowerLoss ==
  /\ outages < MaxOutages /\ faults + outages < MaxFaults
  /\ outages' = outages + 1
  /\ Dead(Editors)
  /\ entry' \in {entry, diskEntry}
  /\ diskEntry' = entry'
  /\ \E torn \in SUBSET {i \in Inodes : ~inode[i].synced} :
       inode' = [i \in Inodes |->
                   IF Fresh(i)' THEN Blank
                   ELSE [inode[i] EXCEPT !.synced = TRUE,
                                         !.whole = @ /\ i \notin torn,
                                         !.lines = IF i \in torn THEN {} ELSE @]]
  /\ UNCHANGED <<dir, clock, changes, faults>>

-----------------------------------------------------------------------------
(* Programs that know nothing of the lock. *)

\* The time of a change: two in quick succession may not differ.
Now == IF Coarse THEN clock..(clock + 1) ELSE {clock + 1}

\* After the last check of an editor, or in the tick of its snapshot and with
\* the same size and mode, a change goes unnoticed.
Blind(e) ==
  \/ pc[e] \in {"rename", "unlink"} /\ ~Mounted
  \/ InPlace(e)
  \/ snap[e].ino # None /\ entry' = snap[e].ino /\ SnapshotOf(entry)' = snap[e]

ForeignChange ==
  /\ changes < MaxForeign
  /\ changes' = changes + 1
  /\ unseen' = [e \in Editors |-> unseen[e] \/ (pc[e] # "idle" /\ Blind(e))]
  /\ UNCHANGED <<dir, tmp, litter, pc, plan, effect, result, faults, outages>>

\* What another program makes of the content: it changes its own marks.
ForeignLines(L) == {(L \ Foreign) \cup F : F \in SUBSET Foreign}

ForeignWrite ==
  /\ entry # None /\ inode[entry].whole
  /\ clock' \in Now
  /\ \E L \in ForeignLines(inode[entry].lines) :
       Set(entry, [inode[entry] EXCEPT !.lines = L, !.stamp = clock'])
  /\ UNCHANGED <<entry, diskEntry>>
  /\ ForeignChange

ForeignChmod ==
  /\ entry # None
  /\ clock' \in Now
  /\ \E m \in Modes, a \in Acls :
       Set(entry, [inode[entry] EXCEPT !.mode = m, !.acl = a, !.stamp = clock'])
  /\ UNCHANGED <<entry, diskEntry>>
  /\ ForeignChange

ForeignReplace ==
  /\ ~Mounted /\ dir
  /\ clock' \in Now
  /\ \E i \in Inodes, L \in ForeignLines(Content), m \in Modes :
       /\ Fresh(i)
       /\ entry' = i /\ diskEntry' = i
       /\ inode' = [j \in Inodes |->
                     CASE j = i -> [Blank EXCEPT !.lines = L, !.mode = m, !.stamp = clock']
                       [] j = entry /\ ~InUse(j) -> Blank
                       [] OTHER -> inode[j]]
  /\ ForeignChange

ForeignRemove ==
  /\ ~Mounted /\ entry # None
  /\ clock' \in Now
  /\ entry' = None /\ diskEntry' = None
  /\ inode' = [j \in Inodes |-> IF j = entry /\ ~InUse(j) THEN Blank ELSE inode[j]]
  /\ ForeignChange

-----------------------------------------------------------------------------
Edit(e) ==
  \/ OpenAndStat(e) \/ OpenMissing(e) \/ ReadData(e) \/ ReadXattrs(e)
  \/ MkdirAll(e) \/ CreateTmp(e) \/ ApplyAttrs(e) \/ WriteTmp(e) \/ SyncTmp(e)
  \/ CheckTool(e) \/ CheckUnchanged(e) \/ Rename(e) \/ RenameRefused(e)
  \/ SyncDir(e) \/ Cleanup(e)
  \/ OpenInPlace(e) \/ ChangeAttrs(e) \/ Truncate(e) \/ Rewrite(e) \/ SyncInPlace(e)
  \/ CheckRemove(e) \/ Unlink(e)
  \/ CallFails(e)

Environment ==
  \/ PowerLoss
  \/ ForeignWrite \/ ForeignChmod \/ ForeignReplace \/ ForeignRemove

Next ==
  /\ \/ \E e \in Editors : \E o \in Ops : Begin(e, o)
     \/ \E e \in Editors : Edit(e) \/ Crash(e)
     \/ Environment
  /\ UNCHANGED site

Spec == Init /\ [][Next]_vars

-----------------------------------------------------------------------------
\* The step with which a cycle changes the file for the first time.
Commit(e) == effect[e] = "none" /\ effect'[e] = "made"

(* What an editor replaces or removes is what it read: a change that       *)
(* another program made meanwhile makes it give up (checkUnchanged), unless *)
(* it was made after the last check or within the granularity of the       *)
(* timestamps.  A new file replaces nothing at all where renameNoReplace   *)
(* is supported.                                                           *)
OnlyReadIsReplaced ==
  [][\A e \in Editors : Commit(e) =>
       IF snap[e].ino = None THEN entry = None \/ (unseen[e] /\ ~NoReplace)
       ELSE \/ unseen[e]
            \/ /\ entry = snap[e].ino
               /\ inode[entry].lines = text[e].lines \/ (DropIn /\ op[e] = "remove")]_vars

(* The replacement has the mode, owner and extended attributes the file    *)
(* has at that moment, although they were read in two steps before, or     *)
(* those of the drop-in.                                                   *)
AttrsKept ==
  [][\A e \in Editors : Commit(e) /\ entry # None /\ entry' # None /\ ~unseen[e] =>
       LET new == inode'[entry'] IN
       IF DropIn THEN new.mode = NewMode /\ new.acl = NoAcl
       ELSE new.mode = inode[entry].mode /\ new.acl = inode[entry].acl]_vars

(* Readers see the old or the new contents, never a partial file, even if  *)
(* processes die and power is lost: off mount points the path always       *)
(* refers to a complete file.                                              *)
NeverPartial == ~Mounted /\ entry # None => inode[entry].whole

(* A cycle that returns an error left the file alone; at a mount point it  *)
(* may have been interrupted.                                              *)
ErrorLeavesFile ==
  ~Mounted => \A e \in Editors : result[e] = "error" => effect[e] = "none"

(* Only processes that died leave temporary files behind.                  *)
NoLitter ==
  /\ \A e \in Editors : pc[e] = "idle" => tmp[e] = None
  /\ litter <= faults + outages * Cardinality(Editors)

(* A cycle that fails leaves nothing behind, neither in the file nor next   *)
(* to it.                                                                  *)
NoTrace == ErrorLeavesFile /\ NoLitter

(* What a cycle reported is so: the mark it added is in the file and the   *)
(* one it removed is not, until it runs again.                             *)
Reported(e) ==
  /\ result[e] \in {"add", "create"} => e \in Content
  /\ result[e] = "remove" => e \notin Content

(* A change that was reported survives a loss of power, unless the flush   *)
(* of the directory failed or others changed the file since: the file was  *)
(* flushed before the rename and the directory after it.                   *)
ChangesSurvive == changes = 0 => \A e \in Editors : effect[e] = "flushed" => Reported(e)
=============================================================================
