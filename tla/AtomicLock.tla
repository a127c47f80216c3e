----------------------------- MODULE AtomicLock -----------------------------
(***************************************************************************)
(* A named lock over the cache (crates/rainier-cache/src/lock.rs): acquire *)
(* (with wait_for), run, extend, release, keep and drop, force_release,    *)
(* among processes that may stall for any time at any point and may die.   *)
(*                                                                         *)
(* One action is one round trip to the cache; extend makes two.            *)
(***************************************************************************)
EXTENDS CacheStore

CONSTANTS
    Procs,          \* processes that contend for the lock
    Nobody,         \* no process
    Ttl,            \* ticks a lease lasts
    Waits,          \* the waits acquire is asked for: 0 is "give up at once"
    Extends,        \* whether holders call extend
    FastExtend,     \* whether nothing takes the lock away between the trips of extend
    MaxForced       \* bound: calls of force_release in a behaviour

ASSUME ConstantsAssumption ==
    /\ Ttl \in Nat \ {0}
    /\ Waits \subseteq Nat
    /\ Extends \in BOOLEAN /\ FastExtend \in BOOLEAN
    /\ MaxForced \in Nat
    /\ Nobody \notin Procs
    /\ NoEntry \notin [value: Procs, left: Nat]

VARIABLES
    entry,          \* the cache entry under the lock's key
    pc,             \* out, asking, holding, extending, or told it was lost
    patience,       \* ticks an asking process still waits
    lease,          \* ticks the process may count on since its last add or put
    forced          \* calls of force_release so far

vars == <<entry, pc, patience, lease, forced>>

Inside == {"holding", "extending", "lost"}

(* mint_owner: no two holders share a token, so the holder stands for it.  *)
MintOwner(p) == p

Owned(p) == Live(entry) /\ entry.value = MintOwner(p)

Init ==
    /\ entry = NoEntry
    /\ pc = [p \in Procs |-> "out"]
    /\ patience = [p \in Procs |-> 0]
    /\ lease = [p \in Procs |-> 0]
    /\ forced = 0

-----------------------------------------------------------------------------
(* acquire (and run) begins, with its deadline.                            *)
Ask(p, wait) ==
    /\ pc[p] = "out"
    /\ pc' = [pc EXCEPT ![p] = "asking"]
    /\ patience' = [patience EXCEPT ![p] = wait]
    /\ UNCHANGED <<entry, lease, forced>>

(* Mutant: has, then put: a live entry does not stop the store.            *)
AcquireOver(p) ==
    /\ pc[p] = "asking"
    /\ entry' = Entry(MintOwner(p), Ttl)
    /\ pc' = [pc EXCEPT ![p] = "holding"]
    /\ lease' = [lease EXCEPT ![p] = Ttl]
    /\ patience' = [patience EXCEPT ![p] = 0]
    /\ UNCHANGED forced

(* Mutant: a lock stored without a TTL.                                    *)
AcquireForever(p) ==
    /\ pc[p] = "asking"
    /\ ~Live(entry)
    /\ entry' = Add(entry, MintOwner(p), Never)
    /\ pc' = [pc EXCEPT ![p] = "holding"]
    /\ lease' = [lease EXCEPT ![p] = Ttl]
    /\ patience' = [patience EXCEPT ![p] = 0]
    /\ UNCHANGED forced

(* add answers true: the entry is ours, under a fresh token.               *)
Acquire(p) ==
    /\ pc[p] = "asking"
    /\ ~Live(entry)
    /\ entry' = Add(entry, MintOwner(p), Ttl)
    /\ pc' = [pc EXCEPT ![p] = "holding"]
    /\ lease' = [lease EXCEPT ![p] = Ttl]
    /\ patience' = [patience EXCEPT ![p] = 0]
    /\ UNCHANGED forced

(* add answers false and the deadline has come: acquire answers None.      *)
(* Before it, the process polls again.                                     *)
GiveUp(p) ==
    /\ pc[p] = "asking"
    /\ Live(entry)
    /\ patience[p] = 0
    /\ pc' = [pc EXCEPT ![p] = "out"]
    /\ UNCHANGED <<entry, patience, lease, forced>>

(* extend, first trip: is it still ours?                                   *)
ExtendRead(p) ==
    /\ Extends
    /\ pc[p] = "holding"
    /\ pc' = [pc EXCEPT ![p] = IF Owned(p) THEN "extending" ELSE "lost"]
    /\ entry' = Reap(entry)
    /\ UNCHANGED <<patience, lease, forced>>

(* extend, second trip: a put, whatever is there by now.                   *)
ExtendWrite(p) ==
    /\ pc[p] = "extending"
    /\ entry' = Entry(MintOwner(p), Ttl)
    /\ lease' = [lease EXCEPT ![p] = Ttl]
    /\ pc' = [pc EXCEPT ![p] = "holding"]
    /\ UNCHANGED <<patience, forced>>

Leave(p) ==
    /\ pc' = [pc EXCEPT ![p] = "out"]
    /\ lease' = [lease EXCEPT ![p] = 0]
    /\ UNCHANGED <<patience, forced>>

(* Mutant: release with a plain forget.                                    *)
ReleaseWhatever(p) ==
    /\ pc[p] \in {"holding", "lost"}
    /\ entry' = NoEntry
    /\ Leave(p)

(* release, by the holder or at the end of run: forget_if our token.       *)
Release(p) ==
    /\ pc[p] \in {"holding", "lost"}
    /\ entry' = ForgetIf(entry, MintOwner(p))
    /\ Leave(p)

(* keep, a dropped guard, or the death of the process: nothing is told to  *)
(* the cache.                                                              *)
Abandon(p) ==
    /\ pc[p] \in Inside
    /\ Leave(p)
    /\ UNCHANGED entry

(* Neither expiry nor force_release comes between the two trips of extend. *)
Undisturbed == FastExtend => \A p \in Procs : pc[p] # "extending"

(* force_release: a plain forget, the holder does not find out.            *)
ForceRelease ==
    /\ forced < MaxForced
    /\ Undisturbed
    /\ entry # NoEntry
    /\ entry' = NoEntry
    /\ forced' = forced + 1
    /\ UNCHANGED <<pc, patience, lease>>

(* purge: the dead entry leaves the map.                                   *)
Purge ==
    /\ entry # NoEntry /\ ~Live(entry)
    /\ entry' = Reap(entry)
    /\ UNCHANGED <<pc, patience, lease, forced>>

Countdown(n) == IF n > 0 THEN n - 1 ELSE 0

(* Mutant: the deadline is taken anew at every poll.                       *)
TickRestarting ==
    /\ Undisturbed
    /\ entry' = AgeEntry(entry)
    /\ lease' = [p \in Procs |-> Countdown(lease[p])]
    /\ UNCHANGED <<pc, patience, forced>>

Tick ==
    /\ Undisturbed
    /\ entry' = AgeEntry(entry)
    /\ patience' = [p \in Procs |-> Countdown(patience[p])]
    /\ lease' = [p \in Procs |-> Countdown(lease[p])]
    /\ UNCHANGED <<pc, forced>>

Next ==
    \/ \E p \in Procs, wait \in Waits : Ask(p, wait)
    \/ \E p \in Procs : Acquire(p)
    \/ \E p \in Procs : GiveUp(p)
    \/ \E p \in Procs : ExtendRead(p)
    \/ \E p \in Procs : ExtendWrite(p)
    \/ \E p \in Procs : Release(p)
    \/ \E p \in Procs : Abandon(p)
    \/ ForceRelease
    \/ Purge
    \/ Tick

(* A process in acquire keeps polling, one in extend goes on, and time     *)
(* passes however often others extend; nobody is obliged to release.       *)
Fairness ==
    /\ \A p \in Procs : WF_vars(Acquire(p) \/ GiveUp(p))
    /\ \A p \in Procs : WF_vars(ExtendWrite(p))
    /\ SF_vars(Tick)

Spec == Init /\ [][Next]_vars /\ Fairness

-----------------------------------------------------------------------------
(* Type correctness.                                                       *)
TypeOK ==
    /\ entry \in [value: Procs, left: Nat] \cup {NoEntry}
    /\ pc \in [Procs -> Inside \cup {"out", "asking"}]
    /\ patience \in [Procs -> Nat]
    /\ lease \in [Procs -> Nat]
    /\ forced \in Nat

(* The lease guarantee: unless an operator forces the lock, at most one of *)
(* the processes that act as holders is within its TTL.  One that overran  *)
(* may run beside it, but its late release does not let a further one in   *)
(* ("it stops one overrun becoming an unbounded number", lock.rs).         *)
LeaseExclusive ==
    forced = 0 => \A p, q \in Procs :
        pc[p] \in Inside /\ lease[p] > 0 /\ pc[q] \in Inside /\ lease[q] > 0 => p = q

(* A process that acts as a holder is within its TTL exactly when the      *)
(* entry is its own, and knows how long it has left; between the two trips *)
(* of extend it is.  LeaseExclusive rests on it.                           *)
HolderOwnsEntry ==
    forced = 0 => \A p \in Procs :
        /\ pc[p] \in Inside => (lease[p] > 0 <=> Owned(p))
        /\ pc[p] \in Inside /\ Owned(p) => entry.left = lease[p]
        /\ pc[p] = "extending" => Owned(p)
        /\ pc[p] \notin Inside => lease[p] = 0

(* The comment in extend names what this excludes: a lock that changes     *)
(* hands between the two trips of extend.                                  *)
ExtendSafe == Extends => FastExtend

(* The lock is a lease: ownership never passes from one process to another *)
(* without the first one's lease ending.                                   *)
L == INSTANCE Lease WITH Holders <- Procs,
                         holder <- IF Live(entry) THEN entry.value ELSE Nobody
LeaseRefined == L!Spec

(* A lock whose holder is gone (dead, or it dropped its guard) is free     *)
(* again in the end: the TTL is the safety net lock.rs says it is.         *)
LockFreed ==
    \A p \in Procs : (pc[p] = "out" /\ Owned(p)) ~> ~Owned(p)

(* acquire with a wait answers: it takes the lock or gives up.             *)
AcquireAnswers ==
    \A p \in Procs : (pc[p] = "asking") ~> (pc[p] # "asking")

(* LockGuard::release: "`false` means the TTL expired while we were        *)
(* working and somebody else has since taken it".                          *)
LateReleaseMeansTaken ==
    [][\A p \in Procs : pc[p] \in {"holding", "lost"} /\ pc'[p] = "out" /\ ~Owned(p) =>
          Live(entry)]_vars
=============================================================================
