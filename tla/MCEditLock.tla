------------------------------ MODULE MCEditLock ------------------------------
(* Instances of EditLock for TLC: two goroutines of one provider process    *)
(* and one of another that want the same locks.                             *)
EXTENDS EditLock, TLC

CONSTANTS t1, t2, t3, p1, p2

MCProcOf == (t1 :> p1) @@ (t2 :> p1) @@ (t3 :> p2)
=============================================================================
