---------------------------- MODULE EditLockProofs ----------------------------
(***************************************************************************)
(* Proofs about EditLock, for any number of processes, goroutines, keys    *)
(* and faults: mutual exclusion, the exactness of the registry and of the  *)
(* semaphores, and that EditLock implements KeyedLock.                     *)
(***************************************************************************)
EXTENDS EditLock, FiniteSetTheorems, TLAPS

(* A key's flock is held by exactly the goroutine that is in its critical  *)
(* section: what TryFlock gives, only Unlock or a crash takes away.        *)
FlockInv == \A t \in Threads, k \in Keys : flock[k] = t <=> Holds(t, k)

(* A goroutine has a key and a semaphore exactly while it is registered.   *)
WantInv ==
  \A t \in Threads :
    /\ Registered(t) <=> want[t] # None
    /\ Registered(t) <=> mySem[t] # None

-----------------------------------------------------------------------------
(* Every step keeps the state well typed, except that the reference count  *)
(* could become negative; RegistryExact excludes that below.               *)
Shape ==
  /\ regSem \in [Procs -> [Keys -> Sems \cup {None}]]
  /\ regRefs \in [Procs -> [Keys -> Int]]
  /\ full \in [Sems -> BOOLEAN]
  /\ flock \in [Keys -> Threads \cup {None}]
  /\ pc \in [Threads -> PCs]
  /\ want \in [Threads -> Keys \cup {None}]
  /\ mySem \in [Threads -> Sems \cup {None}]
  /\ expired \in [Threads -> BOOLEAN]
  /\ faults \in 0..MaxFaults
  /\ WantInv

(* The shape of the state, and who has a key and a semaphore, is inductive. *)
LEMMA ShapeInvariant == Spec => []Shape
<1> USE LockAssumption
<1>1. Init => Shape
  BY DEF Init, Shape, PCs, WantInv, Registered
<1>2. Shape /\ [Next]_vars => Shape'
  <2> SUFFICES ASSUME Shape, [Next]_vars PROVE Shape'
    OBVIOUS
  <2> USE DEF Shape, PCs, WantInv, Registered, Goto, Fault
  <2>1. ASSUME NEW t \in Threads, NEW k \in Keys, Register(t, k) PROVE Shape'
    BY <2>1 DEF Register
  <2>2. ASSUME NEW t \in Threads, AcquireSem(t) PROVE Shape'
    BY <2>2 DEF AcquireSem
  <2>3. ASSUME NEW t \in Threads, GiveUpSem(t) PROVE Shape'
    BY <2>3 DEF GiveUpSem
  <2>4. ASSUME NEW t \in Threads, OpenLockFile(t) PROVE Shape'
    BY <2>4 DEF OpenLockFile
  <2>5. ASSUME NEW t \in Threads, OpenFails(t) PROVE Shape'
    BY <2>5 DEF OpenFails
  <2>6. ASSUME NEW t \in Threads, TryFlock(t) PROVE Shape'
    <3>1. want[t] \in Keys
      BY <2>6 DEF TryFlock
    <3>2. CASE pc' = [pc EXCEPT ![t] = "held"] /\ flock' = [flock EXCEPT ![want[t]] = t]
      BY <2>6, <3>1, <3>2 DEF TryFlock
    <3>3. CASE pc' = [pc EXCEPT ![t] = "backoff"] /\ UNCHANGED flock
      BY <2>6, <3>3 DEF TryFlock
    <3> QED
      BY <2>6, <3>2, <3>3 DEF TryFlock
  <2>7. ASSUME NEW t \in Threads, FlockFails(t) PROVE Shape'
    BY <2>7 DEF FlockFails
  <2>8. ASSUME NEW t \in Threads, PollAgain(t) PROVE Shape'
    BY <2>8 DEF PollAgain
  <2>9. ASSUME NEW t \in Threads, GiveUpFlock(t) PROVE Shape'
    BY <2>9 DEF GiveUpFlock
  <2>10. ASSUME NEW t \in Threads, Expire(t) PROVE Shape'
    BY <2>10 DEF Expire
  <2>11. ASSUME NEW t \in Threads, Unlock(t) PROVE Shape'
    BY <2>11 DEF Unlock
  <2>12. ASSUME NEW t \in Threads, ReleaseSem(t) PROVE Shape'
    BY <2>12 DEF ReleaseSem
  <2>13. ASSUME NEW t \in Threads, Unregister(t) PROVE Shape'
    BY <2>13 DEF Unregister
  <2>14. ASSUME NEW p \in Procs, Crash(p) PROVE Shape'
    BY <2>14 DEF Crash
  <2>15. CASE UNCHANGED vars
    BY <2>15 DEF vars
  <2> QED
    BY <2>1, <2>2, <2>3, <2>4, <2>5, <2>6, <2>7, <2>8, <2>9, <2>10, <2>11,
       <2>12, <2>13, <2>14, <2>15 DEF Next, Step
<1> QED
  BY <1>1, <1>2, PTL DEF Spec

-----------------------------------------------------------------------------
(* Holding the flock and being in the critical section stay the same thing. *)
LEMMA FlockInvariant == Spec => []FlockInv
<1> USE LockAssumption
<1>1. Init => FlockInv
  BY DEF Init, FlockInv, Holds
<1>2. Shape /\ FlockInv /\ [Next]_vars => FlockInv'
  <2> SUFFICES ASSUME Shape, FlockInv, [Next]_vars PROVE FlockInv'
    OBVIOUS
  <2> USE DEF Shape, FlockInv, WantInv, Registered, Holds, Goto
  <2>1. ASSUME NEW t \in Threads, NEW k \in Keys, Register(t, k) PROVE FlockInv'
    BY <2>1 DEF Register
  <2>2. ASSUME NEW t \in Threads, TryFlock(t) PROVE FlockInv'
    BY <2>2 DEF TryFlock
  <2>3. ASSUME NEW t \in Threads, Unlock(t) PROVE FlockInv'
    BY <2>3 DEF Unlock
  <2>4. ASSUME NEW t \in Threads, Unregister(t) PROVE FlockInv'
    BY <2>4 DEF Unregister
  <2>5. ASSUME NEW p \in Procs, Crash(p) PROVE FlockInv'
    BY <2>5 DEF Crash
  <2>6. ASSUME NEW t \in Threads,
               \/ AcquireSem(t) \/ GiveUpSem(t) \/ OpenLockFile(t) \/ OpenFails(t)
               \/ FlockFails(t) \/ PollAgain(t) \/ GiveUpFlock(t) \/ Expire(t)
               \/ ReleaseSem(t)
        PROVE FlockInv'
    BY <2>6 DEF AcquireSem, GiveUpSem, OpenLockFile, OpenFails, FlockFails,
                PollAgain, GiveUpFlock, Expire, ReleaseSem
  <2>7. CASE UNCHANGED vars
    BY <2>7 DEF vars
  <2> QED
    BY <2>1, <2>2, <2>3, <2>4, <2>5, <2>6, <2>7 DEF Next, Step
<1> QED
  BY <1>1, <1>2, ShapeInvariant, PTL DEF Spec

(* Two goroutines never edit the same file at once, whether they belong to *)
(* one provider process or to two (lock.go: acquireLock).                  *)
THEOREM MutualExclusionHolds == Spec => []MutualExclusion
<1>1. FlockInv => MutualExclusion
  BY DEF FlockInv, MutualExclusion
<1> QED
  BY <1>1, FlockInvariant, PTL

(* The two-level lock, with its registry, semaphores, polling, timeouts,   *)
(* failures and crashes, does only what the abstract lock allows.          *)
THEOREM RefinesKeyedLock == Spec => ImplementsKeyedLock
<1> USE LockAssumption
<1>1. Init => Promise!Init
  BY DEF Init, Promise!Init
<1>2. Shape /\ FlockInv /\ [Next]_vars => [Promise!Next]_flock
  <2> SUFFICES ASSUME Shape, FlockInv, Next, flock' # flock PROVE Promise!Next
    BY DEF vars
  <2> USE DEF Shape
  <2>1. ASSUME NEW t \in Threads, TryFlock(t) PROVE Promise!Next
    BY <2>1 DEF TryFlock, Promise!Next, Promise!Grant, WantInv, Registered
  <2>2. ASSUME NEW t \in Threads, Unlock(t) PROVE Promise!Next
    <3>1. want[t] \in Keys /\ flock[want[t]] = t
      BY <2>2 DEF Unlock, FlockInv, Holds, WantInv, Registered
    <3>2. Promise!Unlock(t, want[t])
      BY <2>2, <3>1 DEF Unlock, Promise!Unlock
    <3> QED
      BY <3>1, <3>2 DEF Promise!Next
  <2>3. ASSUME NEW p \in Procs, Crash(p) PROVE Promise!Next
    <3>1. ASSUME NEW k \in Keys
          PROVE flock[k] \in {t \in Threads : ProcOf[t] = p}
                  <=> flock[k] # None /\ ProcOf[flock[k]] = p
      BY DEF LockAssumption
    <3>2. flock' = [k \in Keys |-> IF flock[k] \in {t \in Threads : ProcOf[t] = p}
                                    THEN None ELSE flock[k]]
      BY <2>3 DEF Crash
    <3>3. Promise!Die(p)
      BY <3>1, <3>2 DEF Promise!Die
    <3> QED
      BY <3>3 DEF Promise!Next
  <2> QED
    BY <2>1, <2>2, <2>3
    DEF Next, Step, Register, AcquireSem, GiveUpSem, OpenLockFile, OpenFails,
        FlockFails, PollAgain, GiveUpFlock, Expire, ReleaseSem, Unregister
<1> QED
  BY <1>1, <1>2, ShapeInvariant, FlockInvariant, PTL
  DEF Spec, ImplementsKeyedLock, Promise!Spec

-----------------------------------------------------------------------------
(* No two entries, of one process or of two, have the same semaphore.      *)
SemDistinct ==
  \A p, q \in Procs, k, j \in Keys :
    regSem[p][k] # None /\ regSem[p][k] = regSem[q][j] => p = q /\ k = j

(* The registry, together with its semaphores being distinct, is inductive. *)
RegInv == RegistryExact /\ SemDistinct

(* The users of a key are finitely many, so that counting them is sound.   *)
LEMMA UsersFinite ==
  ASSUME NEW p, NEW k PROVE IsFiniteSet(Users(p, k))
BY LockAssumption, FS_Subset DEF Users, LockAssumption

(* Taking part in a lock or leaving it changes the count of its users by   *)
(* one and that of no other key.                                           *)
LEMMA RegisterCount ==
  ASSUME Shape, NEW t \in Threads, NEW k \in Keys, Register(t, k)
  PROVE  /\ t \notin Users(ProcOf[t], k)
         /\ Users(ProcOf[t], k)' = Users(ProcOf[t], k) \cup {t}
         /\ \A p \in Procs, j \in Keys :
              <<p, j>> # <<ProcOf[t], k>> => Users(p, j)' = Users(p, j)
         /\ Cardinality(Users(ProcOf[t], k)') = Cardinality(Users(ProcOf[t], k)) + 1
<1> USE LockAssumption DEF LockAssumption, Shape, WantInv, Registered, Register
<1>1. want[t] = None /\ want' = [want EXCEPT ![t] = k] /\ None \notin Keys
  OBVIOUS
<1>2. t \notin Users(ProcOf[t], k)
  BY <1>1 DEF Users
<1>3. Users(ProcOf[t], k)' = Users(ProcOf[t], k) \cup {t}
  BY <1>1 DEF Users
<1>4. ASSUME NEW p \in Procs, NEW j \in Keys, <<p, j>> # <<ProcOf[t], k>>
      PROVE Users(p, j)' = Users(p, j)
  BY <1>1, <1>4 DEF Users
<1>5. Cardinality(Users(ProcOf[t], k) \cup {t}) = Cardinality(Users(ProcOf[t], k)) + 1
  BY <1>2, UsersFinite, FS_AddElement
<1> QED
  BY <1>2, <1>3, <1>4, <1>5

(* The counterpart of RegisterCount for unregisterLock.                    *)
LEMMA UnregisterCount ==
  ASSUME Shape, NEW t \in Threads, Unregister(t), NEW k \in Keys, want[t] = k
  PROVE  /\ t \in Users(ProcOf[t], k)
         /\ Users(ProcOf[t], k)' = Users(ProcOf[t], k) \ {t}
         /\ \A p \in Procs, j \in Keys :
              <<p, j>> # <<ProcOf[t], k>> => Users(p, j)' = Users(p, j)
         /\ Cardinality(Users(ProcOf[t], k)') = Cardinality(Users(ProcOf[t], k)) - 1
<1> USE LockAssumption DEF LockAssumption, Shape, WantInv, Registered, Unregister
<1>1. want' = [want EXCEPT ![t] = None] /\ None \notin Keys
  OBVIOUS
<1>2. t \in Users(ProcOf[t], k)
  BY <1>1 DEF Users
<1>3. Users(ProcOf[t], k)' = Users(ProcOf[t], k) \ {t}
  BY <1>1 DEF Users
<1>4. ASSUME NEW p \in Procs, NEW j \in Keys, <<p, j>> # <<ProcOf[t], k>>
      PROVE Users(p, j)' = Users(p, j)
  BY <1>1, <1>4 DEF Users
<1>5. Cardinality(Users(ProcOf[t], k) \ {t}) = Cardinality(Users(ProcOf[t], k)) - 1
  BY <1>2, UsersFinite, FS_RemoveElement
<1> QED
  BY <1>2, <1>3, <1>4, <1>5

(* No process has two entries for a key, and no step of a goroutine but    *)
(* registering and unregistering touches the registry.                     *)
LEMMA RegistryInvariant == Spec => []RegInv
<1> USE LockAssumption
<1>1. Init => RegInv
  <2> SUFFICES ASSUME Init PROVE RegInv
    OBVIOUS
  <2>1. ASSUME NEW p \in Procs, NEW k \in Keys PROVE Users(p, k) = {}
    BY DEF Init, Users, LockAssumption
  <2>2. Cardinality({}) = 0
    BY FS_EmptySet
  <2> QED
    BY <2>1, <2>2 DEF Init, RegInv, RegistryExact, SemDistinct
<1>2. Shape /\ RegInv /\ [Next]_vars => RegInv'
  <2> SUFFICES ASSUME Shape, RegInv, [Next]_vars PROVE RegInv'
    OBVIOUS
  <2> USE DEF RegInv, RegistryExact, SemDistinct
  <2>1. ASSUME NEW t \in Threads, NEW k \in Keys, Register(t, k) PROVE RegInv'
    <3> DEFINE P == ProcOf[t]
    <3>1. P \in Procs /\ k \in Keys
      BY DEF LockAssumption
    <3>2. PICK s \in Sems :
            /\ IF regSem[P][k] = None THEN Fresh(s) ELSE s = regSem[P][k]
            /\ regSem' = [regSem EXCEPT ![P][k] = s]
            /\ mySem' = [mySem EXCEPT ![t] = s]
      BY <2>1 DEF Register
    <3>3. regRefs' = [regRefs EXCEPT ![P][k] = @ + 1]
      BY <2>1 DEF Register
    <3>4. /\ t \notin Users(P, k)
          /\ Users(P, k)' = Users(P, k) \cup {t}
          /\ \A p \in Procs, j \in Keys : <<p, j>> # <<P, k>> => Users(p, j)' = Users(p, j)
          /\ Cardinality(Users(P, k)') = Cardinality(Users(P, k)) + 1
      BY <2>1, RegisterCount
    <3> HIDE DEF P
    <3>5. regSem'[P][k] = s /\ s # None
          /\ \A p \in Procs, j \in Keys : <<p, j>> # <<P, k>> => regSem'[p][j] = regSem[p][j]
      BY <3>1, <3>2 DEF Shape, LockAssumption
    <3>6. regRefs'[P][k] = regRefs[P][k] + 1
          /\ \A p \in Procs, j \in Keys : <<p, j>> # <<P, k>> => regRefs'[p][j] = regRefs[p][j]
      BY <3>1, <3>3 DEF Shape
    <3>7. mySem'[t] = s /\ \A u \in Threads : u # t => mySem'[u] = mySem[u]
      BY <3>2 DEF Shape
    <3>8. ASSUME NEW p \in Procs, NEW j \in Keys
          PROVE /\ regRefs'[p][j] = Cardinality(Users(p, j)')
                /\ regSem'[p][j] = None <=> Users(p, j)' = {}
                /\ \A u \in Users(p, j)' : mySem'[u] = regSem'[p][j]
      <4>1. CASE <<p, j>> = <<P, k>>
        <5>1. \A u \in Users(P, k) : u # t /\ u \in Threads /\ mySem[u] = regSem[P][k]
          BY <3>1, <3>4 DEF Users
        <5>2. Users(P, k) # {} => s = regSem[P][k]
          BY <3>1, <3>2
        <5> QED
          BY <4>1, <5>1, <5>2, <3>1, <3>4, <3>5, <3>6, <3>7
      <4>2. CASE <<p, j>> # <<P, k>>
        <5>1. \A u \in Users(p, j) : u # t /\ u \in Threads
          BY <2>1, LockAssumption DEF Users, Register, Shape, WantInv, Registered, LockAssumption
        <5> QED
          BY <4>2, <5>1, <3>4, <3>5, <3>6, <3>7
      <4> QED
        BY <4>1, <4>2
    <3>9. ASSUME NEW p \in Procs, NEW q \in Procs, NEW i \in Keys, NEW j \in Keys,
                 regSem'[p][i] # None, regSem'[p][i] = regSem'[q][j]
          PROVE p = q /\ i = j
      <4>1. CASE regSem[P][k] = None
        BY <4>1, <3>1, <3>2, <3>5, <3>9 DEF Fresh
      <4>2. CASE regSem[P][k] # None
        BY <4>2, <3>1, <3>2, <3>5, <3>9
      <4> QED
        BY <4>1, <4>2
    <3> QED
      BY <3>8, <3>9
  <2>2. ASSUME NEW t \in Threads, Unregister(t) PROVE RegInv'
    <3> DEFINE P == ProcOf[t]
               k == want[t]
    <3>1. P \in Procs /\ k \in Keys
      BY <2>2 DEF Unregister, Shape, WantInv, Registered, LockAssumption
    <3>2. /\ regRefs' = [regRefs EXCEPT ![P][k] = @ - 1]
          /\ regSem' = [regSem EXCEPT ![P][k] = IF regRefs[P][k] = 1 THEN None ELSE @]
          /\ mySem' = [mySem EXCEPT ![t] = None]
      BY <2>2 DEF Unregister
    <3>3. PICK w \in Keys : w = want[t]
      BY <3>1
    <3>4. /\ t \in Users(P, w)
          /\ Users(P, w)' = Users(P, w) \ {t}
          /\ \A p \in Procs, j \in Keys : <<p, j>> # <<P, w>> => Users(p, j)' = Users(p, j)
          /\ Cardinality(Users(P, w)') = Cardinality(Users(P, w)) - 1
      BY <2>2, <3>3, UnregisterCount
    <3> HIDE DEF P
    <3>5. regSem'[P][w] = (IF regRefs[P][w] = 1 THEN None ELSE regSem[P][w])
          /\ \A p \in Procs, j \in Keys : <<p, j>> # <<P, w>> => regSem'[p][j] = regSem[p][j]
      BY <3>1, <3>2, <3>3 DEF Shape
    <3>6. regRefs'[P][w] = regRefs[P][w] - 1
          /\ \A p \in Procs, j \in Keys : <<p, j>> # <<P, w>> => regRefs'[p][j] = regRefs[p][j]
      BY <3>1, <3>2, <3>3 DEF Shape
    <3>7. \A u \in Threads : u # t => mySem'[u] = mySem[u]
      BY <3>2 DEF Shape
    <3>8. ASSUME NEW p \in Procs, NEW j \in Keys
          PROVE /\ regRefs'[p][j] = Cardinality(Users(p, j)')
                /\ regSem'[p][j] = None <=> Users(p, j)' = {}
                /\ \A u \in Users(p, j)' : mySem'[u] = regSem'[p][j]
      <4>1. CASE <<p, j>> = <<P, w>>
        <5>1. regRefs[P][w] = 1 <=> Users(P, w)' = {}
          <6>1. IsFiniteSet(Users(P, w)) /\ IsFiniteSet(Users(P, w) \ {t})
            BY UsersFinite, FS_Subset
          <6>2. Cardinality(Users(P, w)) \in Nat
            BY <6>1, FS_CardinalityType
          <6>3. Cardinality(Users(P, w) \ {t}) = 0 <=> Users(P, w) \ {t} = {}
            BY <6>1, FS_EmptySet
          <6>4. regRefs[P][w] = Cardinality(Users(P, w))
            BY <3>1, <3>3
          <6>5. Cardinality(Users(P, w) \ {t}) = Cardinality(Users(P, w)) - 1
            BY <3>4
          <6>6. Users(P, w)' = Users(P, w) \ {t}
            BY <3>4
          <6> HIDE DEF RegistryExact
          <6> QED
            BY <6>2, <6>3, <6>4, <6>5, <6>6
        <5>2. \A u \in Users(P, w) : u \in Threads /\ mySem[u] = regSem[P][w]
          <6>1. \A u \in Users(P, w) : mySem[u] = regSem[P][w]
            BY <3>1
          <6> QED
            BY <6>1 DEF Users
        <5>3. regSem[P][w] # None
          BY <3>1, <3>3, <3>4
        <5> QED
          <6>1. regRefs'[P][w] = Cardinality(Users(P, w)')
            BY <3>1, <3>3, <3>4, <3>6
          <6>2. regSem'[P][w] = None <=> Users(P, w)' = {}
            BY <5>1, <5>3, <3>5
          <6>3. ASSUME NEW u \in Users(P, w)' PROVE mySem'[u] = regSem'[P][w]
            <7>1. u \in Users(P, w) /\ u # t /\ Users(P, w)' # {}
              BY <3>4
            <7> QED
              BY <7>1, <5>1, <5>2, <3>5, <3>7
          <6> QED
            BY <4>1, <6>1, <6>2, <6>3
      <4>2. CASE <<p, j>> # <<P, w>>
        <5>1. \A u \in Users(p, j) : u # t /\ u \in Threads
          BY <4>2, <3>3 DEF Users, P
        <5> QED
          BY <4>2, <5>1, <3>4, <3>5, <3>6, <3>7
      <4> QED
        BY <4>1, <4>2
    <3>9. ASSUME NEW p \in Procs, NEW q \in Procs, NEW i \in Keys, NEW j \in Keys,
                 regSem'[p][i] # None, regSem'[p][i] = regSem'[q][j]
          PROVE p = q /\ i = j
      BY <3>1, <3>3, <3>5, <3>9
    <3> QED
      BY <3>8, <3>9
  <2>3. ASSUME NEW P \in Procs, Crash(P) PROVE RegInv'
    <3>1. ASSUME NEW k \in Keys
          PROVE Users(P, k)' = {} /\ regSem'[P][k] = None /\ regRefs'[P][k] = 0
      BY <2>3 DEF Crash, Users, Shape, LockAssumption
    <3>2. ASSUME NEW p \in Procs, NEW k \in Keys, p # P
          PROVE /\ Users(p, k)' = Users(p, k)
                /\ regSem'[p][k] = regSem[p][k]
                /\ regRefs'[p][k] = regRefs[p][k]
                /\ \A u \in Users(p, k) : mySem'[u] = mySem[u]
      BY <2>3, <3>2 DEF Crash, Users, Shape, LockAssumption
    <3>3. Cardinality({}) = 0
      BY FS_EmptySet
    <3>4. ASSUME NEW p \in Procs, NEW k \in Keys
          PROVE /\ regRefs'[p][k] = Cardinality(Users(p, k)')
                /\ regSem'[p][k] = None <=> Users(p, k)' = {}
                /\ \A u \in Users(p, k)' : mySem'[u] = regSem'[p][k]
      <4>1. CASE p = P
        BY <4>1, <3>1, <3>3
      <4>2. CASE p # P
        BY <4>2, <3>2
      <4> QED
        BY <4>1, <4>2
    <3>5. SemDistinct'
      BY <3>1, <3>2
    <3> QED
      BY <3>4, <3>5
  <2>4. CASE UNCHANGED <<regSem, regRefs, want, mySem>>
    <3>1. \A p \in Procs, k \in Keys : Users(p, k)' = Users(p, k)
      BY <2>4 DEF Users
    <3> QED
      BY <2>4, <3>1
  <2>5. ASSUME NEW t \in Threads,
               \/ AcquireSem(t) \/ GiveUpSem(t) \/ OpenLockFile(t) \/ OpenFails(t)
               \/ TryFlock(t) \/ FlockFails(t) \/ PollAgain(t) \/ GiveUpFlock(t)
               \/ Expire(t) \/ Unlock(t) \/ ReleaseSem(t)
        PROVE RegInv'
    <3>1. UNCHANGED <<regSem, regRefs, want, mySem>>
      BY <2>5 DEF AcquireSem, GiveUpSem, OpenLockFile, OpenFails, TryFlock, FlockFails,
                  PollAgain, GiveUpFlock, Expire, Unlock, ReleaseSem
    <3> QED
      BY <2>4, <3>1
  <2>6. CASE UNCHANGED vars
    BY <2>4, <2>6 DEF vars
  <2> QED
    BY <2>1, <2>2, <2>3, <2>5, <2>6 DEF Next, Step
<1> QED
  BY <1>1, <1>2, ShapeInvariant, PTL DEF Spec

(* The reference counts are exact, so no entry of the registry is leaked   *)
(* or dropped while a goroutine still uses it (lock.go: registerLock,      *)
(* unregisterLock).                                                        *)
THEOREM RegistryExactHolds == Spec => []RegistryExact
BY RegistryInvariant, PTL DEF RegInv

(* The state is well typed; reference counts never become negative.        *)
THEOREM TypeCorrect == Spec => []TypeOK
<1>1. Shape /\ RegInv => TypeOK
  <2> SUFFICES ASSUME Shape, RegInv PROVE TypeOK
    OBVIOUS
  <2>1. ASSUME NEW p \in Procs, NEW k \in Keys PROVE regRefs[p][k] \in Nat
    BY UsersFinite, FS_CardinalityType DEF RegInv, RegistryExact
  <2> QED
    BY <2>1 DEF Shape, TypeOK
<1> QED
  BY <1>1, ShapeInvariant, RegistryInvariant, PTL

-----------------------------------------------------------------------------
(* What SemaphoreExact says of one key of one process.                     *)
SemOk(p, k) ==
  /\ \A t, u \in Users(p, k) : OwnsSem(t) /\ OwnsSem(u) => t = u
  /\ regSem[p][k] # None
       => (full[regSem[p][k]] <=> \E t \in Users(p, k) : OwnsSem(t))

(* A goroutine that is past registerLock is a user of its key, and its     *)
(* semaphore is the registered one.                                        *)
LEMMA OwnSemaphore ==
  ASSUME Shape, RegInv, NEW t \in Threads, Registered(t)
  PROVE  /\ ProcOf[t] \in Procs /\ want[t] \in Keys
         /\ t \in Users(ProcOf[t], want[t])
         /\ mySem[t] \in Sems /\ mySem[t] = regSem[ProcOf[t]][want[t]]
<1>1. ProcOf[t] \in Procs /\ want[t] \in Keys /\ mySem[t] \in Sems
  BY LockAssumption DEF Shape, WantInv, LockAssumption
<1>2. t \in Users(ProcOf[t], want[t])
  BY DEF Users
<1> QED
  BY <1>1, <1>2 DEF RegInv, RegistryExact

(* At most one goroutine of a process is past the semaphore of a key, and  *)
(* the slot is taken exactly while there is one.                           *)
THEOREM SemaphoreExactHolds == Spec => []SemaphoreExact
<1> USE LockAssumption
<1>1. Init => SemaphoreExact
  BY DEF Init, SemaphoreExact, Users, OwnsSem
<1>2. Shape /\ RegInv /\ SemaphoreExact /\ [Next]_vars => SemaphoreExact'
  <2> SUFFICES ASSUME Shape, RegInv, SemaphoreExact, [Next]_vars,
                      NEW p \in Procs, NEW k \in Keys
               PROVE SemOk(p, k)'
    BY DEF SemaphoreExact, SemOk
  <2>0. SemOk(p, k)
    BY DEF SemaphoreExact, SemOk
  <2>a. \A u \in Users(p, k) : u \in Threads /\ ProcOf[u] = p /\ want[u] = k
    BY DEF Users
  <2>1. ASSUME NEW t \in Threads, NEW j \in Keys, Register(t, j) PROVE SemOk(p, k)'
    <3>1. pc' = [pc EXCEPT ![t] = "sem"] /\ UNCHANGED full
      BY <2>1 DEF Register, Goto
    <3>2. pc[t] = "idle" /\ \A u \in Threads : OwnsSem(u)' <=> OwnsSem(u)
      BY <2>1, <3>1 DEF Register, OwnsSem, Shape
    <3>3. ~OwnsSem(t)
      BY <3>2 DEF OwnsSem
    <3>4. \A u \in Users(p, k)' : u # t => u \in Users(p, k)
      BY <2>1 DEF Register, Users, Shape
    <3>5. \A u \in Users(p, k) : u \in Users(p, k)'
      BY <2>1 DEF Register, Users, Shape, WantInv, Registered, LockAssumption
    <3>6. CASE p = ProcOf[t] /\ j = k /\ regSem[p][k] = None
      <4>1. Users(p, k) = {}
        BY <3>6 DEF RegInv, RegistryExact
      <4>2. PICK s \in Sems : Fresh(s) /\ regSem' = [regSem EXCEPT ![p][k] = s]
        BY <2>1, <3>6 DEF Register
      <4>3. regSem'[p][k] = s /\ ~full'[s]
        BY <3>1, <4>2 DEF Shape, Fresh
      <4>4. \A u \in Users(p, k)' : ~OwnsSem(u)'
        BY <3>2, <3>3, <3>4, <4>1, <2>1
      <4> QED
        BY <4>3, <4>4 DEF SemOk
    <3>7. CASE ~(p = ProcOf[t] /\ j = k /\ regSem[p][k] = None)
      <4>1. regSem'[p][k] = regSem[p][k]
        BY <2>1, <3>7 DEF Register, Shape, LockAssumption
      <4>2. \A u \in Users(p, k)' : OwnsSem(u)' => u \in Users(p, k) /\ OwnsSem(u)
        BY <3>2, <3>3, <3>4 DEF Users
      <4>3. \A u \in Users(p, k) : OwnsSem(u) => u \in Users(p, k)' /\ OwnsSem(u)'
        BY <3>2, <3>5, <2>a
      <4> QED
        BY <2>0, <3>1, <4>1, <4>2, <4>3 DEF SemOk
    <3> QED
      BY <3>6, <3>7
  <2>2. ASSUME NEW t \in Threads, AcquireSem(t) PROVE SemOk(p, k)'
    <3>1. /\ pc[t] = "sem" /\ pc' = [pc EXCEPT ![t] = "open"]
          /\ ~full[mySem[t]] /\ full' = [full EXCEPT ![mySem[t]] = TRUE]
          /\ UNCHANGED <<regSem, want>>
      BY <2>2 DEF AcquireSem, Goto
    <3>2. Users(p, k)' = Users(p, k)
      BY <3>1 DEF Users
    <3>3. /\ ProcOf[t] \in Procs /\ want[t] \in Keys
          /\ mySem[t] \in Sems /\ mySem[t] = regSem[ProcOf[t]][want[t]]
      BY <3>1, OwnSemaphore DEF Registered
    <3>4. OwnsSem(t)' /\ \A u \in Threads : u # t => (OwnsSem(u)' <=> OwnsSem(u))
      BY <3>1 DEF OwnsSem, Shape
    <3>5. CASE p = ProcOf[t] /\ k = want[t]
      <4>1. t \in Users(p, k) /\ regSem[p][k] # None
        BY <3>3, <3>5, LockAssumption DEF Users, LockAssumption
      <4>2. \A u \in Users(p, k) : ~OwnsSem(u)
        BY <2>0, <3>1, <3>3, <3>5, <4>1 DEF SemOk
      <4>3. \A u \in Users(p, k) : OwnsSem(u)' => u = t
        BY <2>a, <3>4, <4>2
      <4>4. full'[regSem[p][k]]
        BY <3>1, <3>3, <3>5 DEF Shape
      <4> QED
        BY <3>1, <3>2, <3>4, <4>1, <4>3, <4>4 DEF SemOk
    <3>6. CASE ~(p = ProcOf[t] /\ k = want[t])
      <4>1. \A u \in Users(p, k) : OwnsSem(u)' <=> OwnsSem(u)
        BY <2>a, <3>4, <3>6
      <4>2. regSem[p][k] # None => regSem[p][k] # mySem[t] /\ regSem[p][k] \in Sems
        BY <3>3, <3>6 DEF RegInv, SemDistinct, Shape
      <4>3. regSem[p][k] # None => full'[regSem[p][k]] = full[regSem[p][k]]
        BY <3>1, <3>3, <4>2 DEF Shape
      <4> QED
        BY <2>0, <3>1, <3>2, <4>1, <4>3 DEF SemOk
    <3> QED
      BY <3>5, <3>6
  <2>3. ASSUME NEW t \in Threads, ReleaseSem(t) PROVE SemOk(p, k)'
    <3>1. /\ pc[t] = "release" /\ pc' = [pc EXCEPT ![t] = "unregister"]
          /\ full' = [full EXCEPT ![mySem[t]] = FALSE]
          /\ UNCHANGED <<regSem, want>>
      BY <2>3 DEF ReleaseSem, Goto
    <3>2. Users(p, k)' = Users(p, k)
      BY <3>1 DEF Users
    <3>3. /\ ProcOf[t] \in Procs /\ want[t] \in Keys
          /\ mySem[t] \in Sems /\ mySem[t] = regSem[ProcOf[t]][want[t]]
      BY <3>1, OwnSemaphore DEF Registered
    <3>4. OwnsSem(t) /\ ~OwnsSem(t)' /\ \A u \in Threads : u # t => (OwnsSem(u)' <=> OwnsSem(u))
      BY <3>1 DEF OwnsSem, Shape
    <3>5. CASE p = ProcOf[t] /\ k = want[t]
      <4>1. t \in Users(p, k)
        BY <3>5 DEF Users
      <4>2. \A u \in Users(p, k) : OwnsSem(u) => u = t
        BY <2>0, <3>4, <4>1 DEF SemOk
      <4>3. \A u \in Users(p, k) : ~OwnsSem(u)'
        BY <2>a, <3>4, <4>2
      <4>4. ~full'[regSem[p][k]]
        BY <3>1, <3>3, <3>5 DEF Shape
      <4> QED
        BY <3>1, <3>2, <4>3, <4>4 DEF SemOk
    <3>6. CASE ~(p = ProcOf[t] /\ k = want[t])
      <4>1. \A u \in Users(p, k) : OwnsSem(u)' <=> OwnsSem(u)
        BY <2>a, <3>4, <3>6
      <4>2. regSem[p][k] # None => regSem[p][k] # mySem[t] /\ regSem[p][k] \in Sems
        BY <3>3, <3>6 DEF RegInv, SemDistinct, Shape
      <4>3. regSem[p][k] # None => full'[regSem[p][k]] = full[regSem[p][k]]
        BY <3>1, <3>3, <4>2 DEF Shape
      <4> QED
        BY <2>0, <3>1, <3>2, <4>1, <4>3 DEF SemOk
    <3> QED
      BY <3>5, <3>6
  <2>4. ASSUME NEW t \in Threads, Unregister(t) PROVE SemOk(p, k)'
    <3>1. /\ pc[t] = "unregister" /\ pc' = [pc EXCEPT ![t] = "idle"]
          /\ want' = [want EXCEPT ![t] = None] /\ UNCHANGED full
      BY <2>4 DEF Unregister, Goto
    <3>2. ~OwnsSem(t) /\ ~OwnsSem(t)' /\ \A u \in Threads : OwnsSem(u)' <=> OwnsSem(u)
      BY <3>1 DEF OwnsSem, Shape
    <3>3. \A u \in Users(p, k)' : u \in Users(p, k) /\ u \in Threads
      BY <3>1 DEF Users, Shape, LockAssumption
    <3>4. \A u \in Users(p, k) : u # t => u \in Users(p, k)'
      BY <3>1 DEF Users, Shape
    <3>5. regSem'[p][k] = regSem[p][k] \/ regSem'[p][k] = None
      BY <2>4 DEF Unregister, Shape
    <3>6. (\E u \in Users(p, k)' : OwnsSem(u)') <=> (\E u \in Users(p, k) : OwnsSem(u))
      BY <2>a, <3>2, <3>3, <3>4
    <3> QED
      BY <2>0, <3>1, <3>2, <3>3, <3>5, <3>6 DEF SemOk
  <2>5. ASSUME NEW P \in Procs, Crash(P) PROVE SemOk(p, k)'
    <3>1. CASE p = P
      <4>1. \A u \in Users(p, k)' : ~OwnsSem(u)'
        BY <2>5, <3>1 DEF Crash, Users, OwnsSem, Shape
      <4>2. regSem'[p][k] = None
        BY <2>5, <3>1 DEF Crash, Shape
      <4> QED
        BY <4>1, <4>2 DEF SemOk
    <3>2. CASE p # P
      <4>1. Users(p, k)' = Users(p, k)
        BY <2>5, <3>2 DEF Crash, Users, Shape, LockAssumption
      <4>2. \A u \in Users(p, k) : OwnsSem(u)' <=> OwnsSem(u)
        BY <2>5, <3>2, <2>a DEF Crash, OwnsSem, Shape
      <4>3. regSem'[p][k] = regSem[p][k]
        BY <2>5, <3>2 DEF Crash, Shape
      <4>4. regSem[p][k] # None => regSem[p][k] \in Sems /\ \A j \in Keys : regSem[P][j] # regSem[p][k]
        BY <3>2 DEF RegInv, SemDistinct, Shape
      <4>5. regSem[p][k] # None => full'[regSem[p][k]] = full[regSem[p][k]]
        BY <2>5, <4>4 DEF Crash, Shape
      <4> QED
        BY <2>0, <4>1, <4>2, <4>3, <4>5 DEF SemOk
    <3> QED
      BY <3>1, <3>2
  <2>6. ASSUME NEW t \in Threads,
               \/ GiveUpSem(t) \/ OpenLockFile(t) \/ OpenFails(t) \/ TryFlock(t)
               \/ FlockFails(t) \/ PollAgain(t) \/ GiveUpFlock(t) \/ Expire(t) \/ Unlock(t)
        PROVE SemOk(p, k)'
    <3>1. UNCHANGED <<regSem, want, full>>
      BY <2>6 DEF GiveUpSem, OpenLockFile, OpenFails, TryFlock, FlockFails, PollAgain,
                  GiveUpFlock, Expire, Unlock
    <3>2. \A u \in Threads : OwnsSem(u)' <=> OwnsSem(u)
      BY <2>6 DEF GiveUpSem, OpenLockFile, OpenFails, TryFlock, FlockFails, PollAgain,
                  GiveUpFlock, Expire, Unlock, OwnsSem, Goto, Shape
    <3>3. Users(p, k)' = Users(p, k)
      BY <3>1 DEF Users
    <3> QED
      BY <2>0, <2>a, <3>1, <3>2, <3>3 DEF SemOk
  <2>7. CASE UNCHANGED vars
    BY <2>0, <2>7 DEF vars, SemOk, Users, OwnsSem
  <2> QED
    BY <2>1, <2>2, <2>3, <2>4, <2>5, <2>6, <2>7 DEF Next, Step
<1> QED
  BY <1>1, <1>2, ShapeInvariant, RegistryInvariant, PTL DEF Spec
=============================================================================
