---------------------------- MODULE FixedWindow -----------------------------
(***************************************************************************)
(* What a RateLimitStore promises for one key                              *)
(* (crates/rainier-middleware/src/rate_limit.rs): a count in a window that *)
(* starts at a first hit, is never prolonged and ends on its own.          *)
(*                                                                         *)
(* With Lengths = {w} this is MemoryRateLimitStore, whose mutex makes hit  *)
(* and clear one step each.  Counts above Limit are all alike.             *)
(***************************************************************************)
EXTENDS Integers

CONSTANTS
    Limit,      \* max_attempts of the throttle
    Lengths     \* ticks a new window may last

VARIABLE window     \* hits so far and ticks left; none left: not live

Counts == 0 .. Limit + 1

NoWindow == [count |-> 0, left |-> 0]

Saturated(n) == IF n > Limit THEN Limit + 1 ELSE n

Init == window = NoWindow

Hit ==
    \/ /\ window.left > 0
       /\ window' = [window EXCEPT !.count = Saturated(@ + 1)]
    \/ /\ window.left = 0
       /\ \E length \in Lengths : window' = [count |-> 1, left |-> length]

Clear == window' = NoWindow

(* A tick; a window that ends takes its count along.                       *)
Tick ==
    /\ window.left > 0
    /\ window' = IF window.left = 1 THEN NoWindow ELSE [window EXCEPT !.left = @ - 1]

Next == Hit \/ Clear \/ Tick

Spec == Init /\ [][Next]_window
=============================================================================
