------------------------------ MODULE SharedFile ------------------------------
(***************************************************************************)
(* Several resources, in one or more provider processes, edit the same     *)
(* file: each takes the lock of the file (lockFileForEdit, as KeyedLock    *)
(* promises it), reads, changes and writes it (ManagedFile), and unlocks.  *)
(* The key of the lock is the path with the symlinks of its directory      *)
(* resolved, if the directory exists (fileLockKey).                        *)
(***************************************************************************)
EXTENDS ManagedFile

CONSTANTS Keys,     \* keys of locks
          Canon,    \* the path without symlinks
          Spelling  \* the path each resource was given

ASSUME SharedAssumption ==
  /\ Canon \in Keys
  /\ Spelling \in [Editors -> Keys]

VARIABLES holder,   \* who holds the lock of each key
          key,      \* the key a resource locks
          stage     \* whether it waits for the lock or has it

sharedVars == <<vars, holder, key, stage>>

SharedInit ==
  /\ Init
  /\ holder = [k \in Keys |-> None]
  /\ key = Spelling
  /\ stage = [e \in Editors |-> "idle"]

\* fileLockKey: EvalSymlinks fails if the directory is missing.
FileLockKey(e) == IF dir THEN Canon ELSE Spelling[e]

\* lockFileForEdit computes the key before it waits.
AskLock(e) ==
  /\ stage[e] = "idle"
  /\ key' = [key EXCEPT ![e] = FileLockKey(e)]
  /\ stage' = [stage EXCEPT ![e] = "waiting"]
  /\ UNCHANGED <<vars, holder>>

\* Mutant: the file is edited without waiting for the lock.
LockAnyway(e, o) ==
  /\ stage[e] = "waiting"
  /\ holder' = [holder EXCEPT ![key[e]] = e]
  /\ stage' = [stage EXCEPT ![e] = "locked"]
  /\ Begin(e, o)
  /\ UNCHANGED key

Lock(e, o) ==
  /\ stage[e] = "waiting" /\ holder[key[e]] = None
  /\ holder' = [holder EXCEPT ![key[e]] = e]
  /\ stage' = [stage EXCEPT ![e] = "locked"]
  /\ Begin(e, o)
  /\ UNCHANGED key

\* fileLockTimeout passes.
LockTimesOut(e) ==
  /\ stage[e] = "waiting" /\ holder[key[e]] # None
  /\ stage' = [stage EXCEPT ![e] = "idle"]
  /\ result' = [result EXCEPT ![e] = "error"]
  /\ effect' = [effect EXCEPT ![e] = "none"]
  /\ UNCHANGED <<fileVars, tmp, litter, pc, plan, unseen, bounds, holder, key>>

EditLocked(e) == stage[e] = "locked" /\ Edit(e) /\ UNCHANGED <<holder, key, stage>>

\* defer unlock()
Unlock(e) ==
  /\ stage[e] = "locked" /\ pc[e] = "idle"
  /\ holder' = [holder EXCEPT ![key[e]] = None]
  /\ stage' = [stage EXCEPT ![e] = "idle"]
  /\ UNCHANGED <<vars, key>>

\* The process dies in the cycle, and its lock with it.
CrashLocked(e) ==
  /\ Crash(e)
  /\ holder' = [holder EXCEPT ![key[e]] = None]
  /\ stage' = [stage EXCEPT ![e] = "idle"]
  /\ UNCHANGED key

SharedNext ==
  /\ \E e \in Editors :
       \/ AskLock(e) \/ LockTimesOut(e) \/ EditLocked(e) \/ Unlock(e) \/ CrashLocked(e)
       \/ \E o \in Ops : Lock(e, o)
  /\ UNCHANGED site

SharedSpec == SharedInit /\ [][SharedNext]_sharedVars

-----------------------------------------------------------------------------
(* Two resources never edit the file at the same time.  lock.go:18-21 says *)
(* that different spellings of the file share a lock.                      *)
EditsSerialised ==
  \A e, f \in Editors : stage[e] = "locked" /\ stage[f] = "locked" => e = f

(* Reads, renames, removals, crashes and leftovers together amount to edits *)
(* that happen at once, each of which touches what one resource manages.   *)
Atomic == INSTANCE AtomicEdits WITH content <- Content
ImplementsAtomicEdits == Atomic!Spec
=============================================================================
