----------------------------- MODULE CacheStore -----------------------------
(***************************************************************************)
(* One key of a cache (crates/rainier-cache/src/memory.rs): what each      *)
(* method of the Cache port does to the entry under it, atomically, as the *)
(* mutex of MemoryCache makes it (and SET NX, INCR and the delete script   *)
(* on the shared stores).                                                  *)
(*                                                                         *)
(* Time is relative: an entry carries the ticks it has left, or Never when *)
(* it was stored without a TTL.  An entry with none left is expired; it    *)
(* stays in the map until something reaps it, and is dead until then.      *)
(***************************************************************************)
EXTENDS Integers

CONSTANT NoEntry        \* "the map has nothing under this key"

Never == -1

Entry(value, ttl) == [value |-> value, left |-> ttl]

(* Entry::is_live: expires_at > now, or no expiry at all.                  *)
Live(e) == e # NoEntry /\ e.left # 0

(* Cache::add stores only over an absent or dead entry.                    *)
Add(e, value, ttl) == IF Live(e) THEN e ELSE Entry(value, ttl)

(* Cache::forget_if removes only a live entry with the expected value.     *)
ForgetIf(e, value) == IF Live(e) /\ e.value = value THEN NoEntry ELSE e

(* Cache::increment counts from 0 where nothing is live, and keeps the     *)
(* expiry of what is; what it creates has none.                            *)
Increment(e, by) ==
    IF Live(e) THEN Entry(e.value + by, e.left) ELSE Entry(by, Never)

(* Cache::get, and purge, drop an entry they find dead.                    *)
Reap(e) == IF Live(e) THEN e ELSE NoEntry

(* One tick passes.                                                        *)
AgeEntry(e) == IF e # NoEntry /\ e.left > 0 THEN [e EXCEPT !.left = @ - 1] ELSE e
=============================================================================
