------------------------------- MODULE EditLock -------------------------------
(***************************************************************************)
(* The locks that serialise changes to shared state                        *)
(* (src/internal/provider/lock.go).  A lock is a one-slot semaphore in a   *)
(* registry of the process, counted by its holders and waiters, combined   *)
(* with flock(2) on a lock file that all provider processes of a user      *)
(* share.  Each thread is a goroutine of one process; a process may be     *)
(* killed at any time and started again.                                   *)
(***************************************************************************)
EXTENDS Naturals, FiniteSets

CONSTANTS Threads,  \* the goroutines of all provider processes
          Procs,    \* the provider processes
          ProcOf,   \* the process each goroutine belongs to
          FileKeys, \* keys of lockFileForEdit, whose wait has a deadline
          ToolKeys, \* "package-manager" and "firewall": only cancellation
          Sems,     \* identities of semaphores (channels)
          None,     \* no thread, key or semaphore
          MaxFaults \* bound: failed system calls and killed processes

Keys == FileKeys \cup ToolKeys

ASSUME LockAssumption ==
  /\ IsFiniteSet(Threads)
  /\ ProcOf \in [Threads -> Procs]
  /\ None \notin Threads \cup Keys \cup Sems
  /\ MaxFaults \in Nat

VARIABLES regSem,   \* lockRegistry.locks of a process: the entry's semaphore
          regRefs,  \* ... and its count of holders and waiters
          full,     \* whether the slot of a semaphore is taken
          flock,    \* the thread whose descriptor holds a key's flock
          pc,       \* where a goroutine is in acquireLock
          want,     \* the key it asked for
          mySem,    \* the semaphore registerLock returned to it
          expired,  \* its context is done (deadline or cancellation)
          faults    \* how many faults there were, for MaxFaults

vars == <<regSem, regRefs, full, flock, pc, want, mySem, expired, faults>>

PCs == {"idle", "sem", "open", "try", "backoff", "held", "release", "unregister"}

TypeOK ==
  /\ regSem \in [Procs -> [Keys -> Sems \cup {None}]]
  /\ regRefs \in [Procs -> [Keys -> Nat]]
  /\ full \in [Sems -> BOOLEAN]
  /\ flock \in [Keys -> Threads \cup {None}]
  /\ pc \in [Threads -> PCs]
  /\ want \in [Threads -> Keys \cup {None}]
  /\ mySem \in [Threads -> Sems \cup {None}]
  /\ expired \in [Threads -> BOOLEAN]
  /\ faults \in 0..MaxFaults

Init ==
  /\ regSem = [p \in Procs |-> [k \in Keys |-> None]]
  /\ regRefs = [p \in Procs |-> [k \in Keys |-> 0]]
  /\ full = [s \in Sems |-> FALSE]
  /\ flock = [k \in Keys |-> None]
  /\ pc = [t \in Threads |-> "idle"]
  /\ want = [t \in Threads |-> None]
  /\ mySem = [t \in Threads |-> None]
  /\ expired = [t \in Threads |-> FALSE]
  /\ faults = 0

Fault == faults < MaxFaults /\ faults' = faults + 1

Goto(t, l) == pc' = [pc EXCEPT ![t] = l]

\* Counted in the registry, as a waiter or a holder.
Registered(t) == pc[t] # "idle"
\* Between sending to the semaphore and receiving from it.
OwnsSem(t) == pc[t] \in {"open", "try", "backoff", "held", "release"}
Holds(t, k) == pc[t] = "held" /\ want[t] = k
Waiting(t) == pc[t] \in {"sem", "open", "try", "backoff"}

\* The goroutines of process p that hold the lock of k or wait for it.
Users(p, k) == {t \in Threads : ProcOf[t] = p /\ want[t] = k}

\* A channel just made: nothing refers to it yet.
Fresh(s) ==
  /\ \A p \in Procs, k \in Keys : regSem[p][k] # s
  /\ \A t \in Threads : mySem[t] # s
  /\ ~full[s]

-----------------------------------------------------------------------------
(* registerLock: find or make the entry of the key, and count this caller. *)

\* Mutant: an entry that exists is replaced by a new one.
RegisterAlwaysNew(t, k) ==
  LET p == ProcOf[t] IN
  /\ pc[t] = "idle"
  /\ \E s \in Sems :
       /\ Fresh(s)
       /\ regSem' = [regSem EXCEPT ![p][k] = s]
       /\ mySem' = [mySem EXCEPT ![t] = s]
  /\ regRefs' = [regRefs EXCEPT ![p][k] = @ + 1]
  /\ want' = [want EXCEPT ![t] = k]
  /\ expired' = [expired EXCEPT ![t] = FALSE]
  /\ Goto(t, "sem")
  /\ UNCHANGED <<full, flock, faults>>

Register(t, k) ==
  LET p == ProcOf[t] IN
  /\ pc[t] = "idle"
  /\ \E s \in Sems :
       /\ IF regSem[p][k] = None THEN Fresh(s) ELSE s = regSem[p][k]
       /\ regSem' = [regSem EXCEPT ![p][k] = s]
       /\ mySem' = [mySem EXCEPT ![t] = s]
  /\ regRefs' = [regRefs EXCEPT ![p][k] = @ + 1]
  /\ want' = [want EXCEPT ![t] = k]
  /\ expired' = [expired EXCEPT ![t] = FALSE]
  /\ Goto(t, "sem")
  /\ UNCHANGED <<full, flock, faults>>

\* l.sem <- struct{}{}: possible even if the context is done as well, since
\* select picks any ready case.
AcquireSem(t) ==
  /\ pc[t] = "sem"
  /\ ~full[mySem[t]]
  /\ full' = [full EXCEPT ![mySem[t]] = TRUE]
  /\ Goto(t, "open")
  /\ UNCHANGED <<regSem, regRefs, flock, want, mySem, expired, faults>>

\* <-ctx.Done() while waiting for another goroutine of the process.
GiveUpSem(t) ==
  /\ pc[t] = "sem"
  /\ expired[t]
  /\ Goto(t, "unregister")
  /\ UNCHANGED <<regSem, regRefs, full, flock, want, mySem, expired, faults>>

\* lockDir and open(2) of the lock file.
OpenLockFile(t) ==
  /\ pc[t] = "open"
  /\ Goto(t, "try")
  /\ UNCHANGED <<regSem, regRefs, full, flock, want, mySem, expired, faults>>

\* Mutant: the error path drops the reference, and the deferred call does so
\* once more.
OpenFailsDropsTwice(t) ==
  /\ pc[t] = "open"
  /\ Fault
  /\ regRefs' = [regRefs EXCEPT ![ProcOf[t]][want[t]] = @ - 1]
  /\ Goto(t, "release")
  /\ UNCHANGED <<regSem, full, flock, want, mySem, expired>>

\* No usable directory for lock files, or the open fails.
OpenFails(t) ==
  /\ pc[t] = "open"
  /\ Fault
  /\ Goto(t, "release")
  /\ UNCHANGED <<regSem, regRefs, full, flock, want, mySem, expired>>

\* Mutant: LOCK_SH instead of LOCK_EX, so that descriptors share the flock.
TryFlockShared(t) ==
  /\ pc[t] = "try"
  /\ flock' = [flock EXCEPT ![want[t]] = t]
  /\ Goto(t, "held")
  /\ UNCHANGED <<regSem, regRefs, full, want, mySem, expired, faults>>

\* flock(LOCK_EX|LOCK_NB) on a descriptor of its own; EINTR retries at once.
\* Another error closes the descriptor and gives up.
TryFlock(t) ==
  /\ pc[t] = "try"
  /\ \/ /\ flock[want[t]] = None
        /\ flock' = [flock EXCEPT ![want[t]] = t]
        /\ Goto(t, "held")
     \/ /\ flock[want[t]] # None
        /\ Goto(t, "backoff")
        /\ UNCHANGED flock
  /\ UNCHANGED <<regSem, regRefs, full, want, mySem, expired, faults>>

FlockFails(t) ==
  /\ pc[t] = "try"
  /\ Fault
  /\ Goto(t, "release")
  /\ UNCHANGED <<regSem, regRefs, full, flock, want, mySem, expired>>

\* The timer of the poll fires.
PollAgain(t) ==
  /\ pc[t] = "backoff"
  /\ Goto(t, "try")
  /\ UNCHANGED <<regSem, regRefs, full, flock, want, mySem, expired, faults>>

\* Mutant: the poll loop goes on when the context is done.
GiveUpFlockNever(t) ==
  /\ pc[t] = "backoff"
  /\ expired[t]
  /\ Goto(t, "try")
  /\ UNCHANGED <<regSem, regRefs, full, flock, want, mySem, expired, faults>>

\* <-ctx.Done() between two polls: the descriptor is closed.
GiveUpFlock(t) ==
  /\ pc[t] = "backoff"
  /\ expired[t]
  /\ Goto(t, "release")
  /\ UNCHANGED <<regSem, regRefs, full, flock, want, mySem, expired, faults>>

\* The context of a wait becomes done: the deadline of lockFileForEdit, or
\* Terraform cancelling the operation.
Expire(t) ==
  /\ Waiting(t)
  /\ ~expired[t]
  /\ expired' = [expired EXCEPT ![t] = TRUE]
  /\ UNCHANGED <<regSem, regRefs, full, flock, pc, want, mySem, faults>>

\* Mutant: unlock releases the semaphore but leaves the descriptor open.
UnlockKeepsFd(t) ==
  /\ pc[t] = "held"
  /\ Goto(t, "release")
  /\ UNCHANGED <<regSem, regRefs, full, flock, want, mySem, expired, faults>>

\* The function acquireLock returned: closing the descriptor drops the flock.
\* A second call does nothing (sync.Once).
Unlock(t) ==
  /\ pc[t] = "held"
  /\ flock' = [flock EXCEPT ![want[t]] = None]
  /\ Goto(t, "release")
  /\ UNCHANGED <<regSem, regRefs, full, want, mySem, expired, faults>>

\* <-l.sem of release().
ReleaseSem(t) ==
  /\ pc[t] = "release"
  /\ full' = [full EXCEPT ![mySem[t]] = FALSE]
  /\ Goto(t, "unregister")
  /\ UNCHANGED <<regSem, regRefs, flock, want, mySem, expired, faults>>

\* unregisterLock: the last one to leave drops the entry.
Unregister(t) ==
  LET p == ProcOf[t]
      k == want[t] IN
  /\ pc[t] = "unregister"
  /\ regRefs' = [regRefs EXCEPT ![p][k] = @ - 1]
  /\ regSem' = [regSem EXCEPT ![p][k] = IF regRefs[p][k] = 1 THEN None ELSE @]
  /\ mySem' = [mySem EXCEPT ![t] = None]
  /\ want' = [want EXCEPT ![t] = None]
  /\ Goto(t, "idle")
  /\ UNCHANGED <<full, flock, expired, faults>>

\* A provider process dies and is started again: its memory is gone and the
\* kernel closes its descriptors, which drops their flocks.
Crash(p) ==
  LET gone == {t \in Threads : ProcOf[t] = p} IN
  /\ Fault
  /\ regSem' = [regSem EXCEPT ![p] = [k \in Keys |-> None]]
  /\ regRefs' = [regRefs EXCEPT ![p] = [k \in Keys |-> 0]]
  /\ full' = [s \in Sems |-> full[s] /\ \A k \in Keys : regSem[p][k] # s]
  /\ flock' = [k \in Keys |-> IF flock[k] \in gone THEN None ELSE flock[k]]
  /\ pc' = [t \in Threads |-> IF t \in gone THEN "idle" ELSE pc[t]]
  /\ want' = [t \in Threads |-> IF t \in gone THEN None ELSE want[t]]
  /\ mySem' = [t \in Threads |-> IF t \in gone THEN None ELSE mySem[t]]
  /\ expired' = [t \in Threads |-> expired[t] /\ t \notin gone]

-----------------------------------------------------------------------------
Step(t) ==
  \/ \E k \in Keys : Register(t, k)
  \/ AcquireSem(t) \/ GiveUpSem(t)
  \/ OpenLockFile(t) \/ OpenFails(t)
  \/ TryFlock(t) \/ FlockFails(t) \/ PollAgain(t) \/ GiveUpFlock(t)
  \/ Expire(t)
  \/ Unlock(t) \/ ReleaseSem(t) \/ Unregister(t)

Next ==
  \/ \E t \in Threads : Step(t)
  \/ \E p \in Procs : Crash(p)

Spec == Init /\ [][Next]_vars

\* The steps a running goroutine takes without waiting for anybody.
Runs(t) ==
  \/ OpenLockFile(t) \/ OpenFails(t) \/ TryFlock(t) \/ FlockFails(t)
  \/ ReleaseSem(t) \/ Unregister(t)

(***************************************************************************)
(* Goroutines are scheduled; an edit ends (its caller defers unlock()); a  *)
(* timer fires; the deadline of a file lock passes; and select, which picks *)
(* among ready cases at random, for ever overlooks neither a free          *)
(* semaphore nor a done context.                                           *)
(***************************************************************************)
Fairness ==
  \A t \in Threads :
    /\ WF_vars(Runs(t))
    /\ WF_vars(Unlock(t))
    /\ WF_vars(PollAgain(t))
    /\ SF_vars(AcquireSem(t))
    /\ WF_vars(GiveUpSem(t))
    /\ SF_vars(GiveUpFlock(t))
    /\ WF_vars(want[t] \in FileKeys /\ Expire(t))

FairSpec == Spec /\ Fairness

-----------------------------------------------------------------------------
(* A key is never edited by two goroutines at once, of one process or of   *)
(* two: acquireLock returns only with the flock of the lock file held.     *)
MutualExclusion ==
  \A t, u \in Threads : \A k \in Keys : Holds(t, k) /\ Holds(u, k) => t = u

(* The registry counts exactly the holders and waiters of each key, all of *)
(* them refer to the semaphore it has for the key, and an entry nobody     *)
(* refers to is dropped: registerLock and unregisterLock look the entry up *)
(* by key, so a stale entry would give two goroutines different            *)
(* semaphores, and a leaked one would grow the registry for ever.          *)
RegistryExact ==
  \A p \in Procs, k \in Keys :
    /\ regRefs[p][k] = Cardinality(Users(p, k))
    /\ regSem[p][k] = None <=> Users(p, k) = {}
    /\ \A t \in Users(p, k) : mySem[t] = regSem[p][k]

(* Within a process at most one goroutine at a time is past the semaphore  *)
(* of a key, so a process polls a lock file with one descriptor; the slot  *)
(* of a registered semaphore is taken only while such a goroutine exists,  *)
(* also after every error path of flockFile.                               *)
SemaphoreExact ==
  \A p \in Procs, k \in Keys :
    /\ \A t, u \in Users(p, k) : OwnsSem(t) /\ OwnsSem(u) => t = u
    /\ regSem[p][k] # None
         => (full[regSem[p][k]] <=> \E t \in Users(p, k) : OwnsSem(t))

(* lockFileForEdit returns: with the lock, or with an error once its       *)
(* deadline passed.                                                        *)
FileLockReturns ==
  \A t \in Threads :
    (Waiting(t) /\ want[t] \in FileKeys) ~> (pc[t] \in {"held", "release", "unregister", "idle"})

(* As long as anybody waits for a key somebody gets it, whatever was       *)
(* cancelled, failed or killed before: no error path leaves a lock behind  *)
(* that nobody holds.                                                      *)
Served(k) == (\E t \in Threads : Holds(t, k)) \/ ~\E t \in Threads : Waiting(t) /\ want[t] = k
LockProgress ==
  \A k \in Keys : (\E t \in Threads : Waiting(t) /\ want[t] = k) ~> Served(k)

(* The promise of KeyedLock: a key is held by the thread whose descriptor  *)
(* has its flock.                                                          *)
Promise == INSTANCE KeyedLock WITH holder <- flock
ImplementsKeyedLock == Promise!Spec
=============================================================================
