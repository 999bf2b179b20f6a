------------------------------ MODULE KeyedLock ------------------------------
(***************************************************************************)
(* What lockFileForEdit, lockPackageManager and lockFirewall promise their *)
(* callers: for every key (a canonical path, "package-manager" or          *)
(* "firewall") at most one thread of all provider processes on the host    *)
(* is inside its read-modify-write cycle, and the key is freed when that   *)
(* thread unlocks or its process dies.                                     *)
(***************************************************************************)
CONSTANTS Threads,  \* the goroutines of all provider processes
          Procs,    \* the provider processes
          ProcOf,   \* the process each goroutine belongs to
          Keys,     \* what can be locked
          None      \* nobody

VARIABLE holder     \* who is inside the critical section of each key

TypeOK == holder \in [Keys -> Threads \cup {None}]

Init == holder = [k \in Keys |-> None]

Grant(t, k) ==
  /\ holder[k] = None
  /\ holder' = [holder EXCEPT ![k] = t]

Unlock(t, k) ==
  /\ holder[k] = t
  /\ holder' = [holder EXCEPT ![k] = None]

\* The kernel closes the descriptors of a process that dies.
Die(p) ==
  holder' = [k \in Keys |->
               IF holder[k] # None /\ ProcOf[holder[k]] = p THEN None ELSE holder[k]]

Next ==
  \/ \E t \in Threads, k \in Keys : Grant(t, k) \/ Unlock(t, k)
  \/ \E p \in Procs : Die(p)

Spec == Init /\ [][Next]_holder
=============================================================================
