------------------------------- MODULE Lease -------------------------------
(***************************************************************************)
(* What an atomic lock promises (crates/rainier-cache/src/lock.rs, module  *)
(* doc): a lease.  At most one holder at a time, and a lease ends (by      *)
(* release, expiry or force) before anybody else's begins.                 *)
(***************************************************************************)
CONSTANTS Holders, Nobody

VARIABLE holder

Init == holder = Nobody

Grant(p) == holder = Nobody /\ holder' = p

End == holder # Nobody /\ holder' = Nobody

Next == End \/ \E p \in Holders : Grant(p)

Spec == Init /\ [][Next]_holder
=============================================================================
