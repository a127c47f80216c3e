---------------------------- MODULE CacheProofs -----------------------------
(* Proofs about what is kept in a cache: the atomic lock, for every set of *)
(* processes and every TTL; the rate limiter, for every set of requests,   *)
(* every limit and every window; and unique dispatch, which leans on the   *)
(* lock, for any number of dispatches and workers.                         *)
EXTENDS AtomicLock, CacheRateLimiter, UniqueDispatch, TLAPS

(* Type correctness is kept by every round trip and every tick.            *)
LEMMA TypeStep == TypeOK /\ [Next]_vars => TypeOK'
<1> SUFFICES ASSUME TypeOK, [Next]_vars PROVE TypeOK'
  OBVIOUS
<1> USE ConstantsAssumption DEF TypeOK, Inside, Live, Leave, MintOwner
<1>1. ASSUME NEW p \in Procs, NEW wait \in Waits, Ask(p, wait) PROVE TypeOK'
  BY <1>1 DEF Ask
<1>2. ASSUME NEW p \in Procs, Acquire(p) PROVE TypeOK'
  BY <1>2 DEF Acquire, Add, Entry
<1>3. ASSUME NEW p \in Procs, GiveUp(p) PROVE TypeOK'
  BY <1>3 DEF GiveUp
<1>4. ASSUME NEW p \in Procs, ExtendRead(p) PROVE TypeOK'
  BY <1>4 DEF ExtendRead, Reap
<1>5. ASSUME NEW p \in Procs, ExtendWrite(p) PROVE TypeOK'
  BY <1>5 DEF ExtendWrite, Entry
<1>6. ASSUME NEW p \in Procs, Release(p) PROVE TypeOK'
  BY <1>6 DEF Release, ForgetIf
<1>7. ASSUME NEW p \in Procs, Abandon(p) PROVE TypeOK'
  BY <1>7 DEF Abandon
<1>8. CASE ForceRelease
  BY <1>8 DEF ForceRelease, Undisturbed
<1>9. CASE Purge
  BY <1>9 DEF Purge, Reap
<1>10. CASE Tick
  <2>1. AgeEntry(entry) \in [value: Procs, left: Nat] \cup {NoEntry}
    BY DEF AgeEntry
  <2> QED BY <1>10, <2>1 DEF Tick, Countdown
<1>11. CASE UNCHANGED vars
  BY <1>11 DEF vars
<1> QED
  BY <1>1, <1>2, <1>3, <1>4, <1>5, <1>6, <1>7, <1>8, <1>9, <1>10, <1>11 DEF Next

(* The entry, the tokens and the clocks keep their types.                  *)
THEOREM TypeCorrect == Spec => []TypeOK
<1>1. Init => TypeOK
  BY DEF Init, TypeOK, Inside
<1> QED BY <1>1, TypeStep, PTL DEF Spec

-----------------------------------------------------------------------------
(* A holder's own count of its lease agrees with the entry, step by step.  *)
LEMMA HolderStep ==
    ASSUME TypeOK, HolderOwnsEntry, FastExtend, [Next]_vars
    PROVE  HolderOwnsEntry'
<1> USE ConstantsAssumption
    DEF TypeOK, HolderOwnsEntry, Inside, Owned, Live, Leave, MintOwner
<1>1. ASSUME NEW p \in Procs, NEW wait \in Waits, Ask(p, wait) PROVE HolderOwnsEntry'
  BY <1>1 DEF Ask
<1>2. ASSUME NEW p \in Procs, Acquire(p) PROVE HolderOwnsEntry'
  BY <1>2 DEF Acquire, Add, Entry
<1>3. ASSUME NEW p \in Procs, GiveUp(p) PROVE HolderOwnsEntry'
  BY <1>3 DEF GiveUp
<1>4. ASSUME NEW p \in Procs, ExtendRead(p) PROVE HolderOwnsEntry'
  BY <1>4 DEF ExtendRead, Reap
<1>5. ASSUME NEW p \in Procs, ExtendWrite(p) PROVE HolderOwnsEntry'
  BY <1>5 DEF ExtendWrite, Entry
<1>6. ASSUME NEW p \in Procs, Release(p) PROVE HolderOwnsEntry'
  BY <1>6 DEF Release, ForgetIf
<1>7. ASSUME NEW p \in Procs, Abandon(p) PROVE HolderOwnsEntry'
  BY <1>7 DEF Abandon
<1>8. CASE ForceRelease
  BY <1>8 DEF ForceRelease, Undisturbed
<1>9. CASE Purge
  BY <1>9 DEF Purge, Reap
<1>10. CASE Tick
  BY <1>10 DEF Tick, Undisturbed, Countdown, AgeEntry
<1>11. CASE UNCHANGED vars
  BY <1>11 DEF vars
<1> QED
  BY <1>1, <1>2, <1>3, <1>4, <1>5, <1>6, <1>7, <1>8, <1>9, <1>10, <1>11 DEF Next

(* Where no lock changes hands inside an extend, a holder's own count of   *)
(* its lease always agrees with the cache.                                 *)
THEOREM HolderCorrect ==
    FastExtend => (Spec => []HolderOwnsEntry)
<1> SUFFICES ASSUME FastExtend PROVE Spec => []HolderOwnsEntry
  OBVIOUS
<1>1. Init => HolderOwnsEntry
  BY DEF Init, HolderOwnsEntry, Inside
<1>2. TypeOK /\ HolderOwnsEntry /\ [Next]_vars => HolderOwnsEntry'
  BY HolderStep
<1> QED BY <1>1, <1>2, TypeCorrect, PTL DEF Spec

(* Where no lock changes hands inside an extend, at most one process is a  *)
(* holder within its TTL, however long others overrun and however late     *)
(* they release.                                                           *)
THEOREM LeaseExclusiveCorrect ==
    FastExtend => (Spec => []LeaseExclusive)
<1>1. HolderOwnsEntry => LeaseExclusive
  BY DEF HolderOwnsEntry, LeaseExclusive, Owned, MintOwner
<1> QED BY <1>1, HolderCorrect, PTL

-----------------------------------------------------------------------------
(* Whoever is between the two trips of extend owns the entry.              *)
ExtenderInv ==
    \A p \in Procs : pc[p] = "extending" => Extends /\ Owned(p)

(* No step takes the entry from a process between the trips of extend.     *)
LEMMA ExtenderStep ==
    ASSUME TypeOK, ExtenderInv, ExtendSafe, [Next]_vars
    PROVE  ExtenderInv'
<1> USE ConstantsAssumption
    DEF TypeOK, ExtenderInv, ExtendSafe, Inside, Owned, Live, Leave, MintOwner
<1>1. ASSUME NEW p \in Procs, NEW wait \in Waits, Ask(p, wait) PROVE ExtenderInv'
  BY <1>1 DEF Ask
<1>2. ASSUME NEW p \in Procs, Acquire(p) PROVE ExtenderInv'
  BY <1>2 DEF Acquire, Add, Entry
<1>3. ASSUME NEW p \in Procs, GiveUp(p) PROVE ExtenderInv'
  BY <1>3 DEF GiveUp
<1>4. ASSUME NEW p \in Procs, ExtendRead(p) PROVE ExtenderInv'
  BY <1>4 DEF ExtendRead, Reap
<1>5. ASSUME NEW p \in Procs, ExtendWrite(p) PROVE ExtenderInv'
  BY <1>5 DEF ExtendWrite, Entry
<1>6. ASSUME NEW p \in Procs, Release(p) PROVE ExtenderInv'
  BY <1>6 DEF Release, ForgetIf
<1>7. ASSUME NEW p \in Procs, Abandon(p) PROVE ExtenderInv'
  BY <1>7 DEF Abandon
<1>8. CASE ForceRelease
  BY <1>8 DEF ForceRelease, Undisturbed
<1>9. CASE Purge
  BY <1>9 DEF Purge, Reap
<1>10. CASE Tick
  BY <1>10 DEF Tick, Undisturbed, Countdown, AgeEntry
<1>11. CASE UNCHANGED vars
  BY <1>11 DEF vars
<1> QED
  BY <1>1, <1>2, <1>3, <1>4, <1>5, <1>6, <1>7, <1>8, <1>9, <1>10, <1>11 DEF Next

(* Every step of the lock is a step of the lease, or none.                 *)
LEMMA LeaseStep ==
    ASSUME TypeOK, ExtenderInv, [Next]_vars
    PROVE  [L!Next]_(IF Live(entry) THEN entry.value ELSE Nobody)
<1> DEFINE h == IF Live(entry) THEN entry.value ELSE Nobody
<1> USE ConstantsAssumption DEF TypeOK, Live, Leave, MintOwner
<1>1. ASSUME NEW p \in Procs, Acquire(p) PROVE L!Grant(p)
  BY <1>1 DEF Acquire, Add, Entry, L!Grant
<1>2. ASSUME NEW p \in Procs, ExtendRead(p) PROVE h' = h
  BY <1>2 DEF ExtendRead, Reap
<1>3. ASSUME NEW p \in Procs, ExtendWrite(p) PROVE h' = h
  BY <1>3 DEF ExtendWrite, Entry, ExtenderInv, Owned
<1>4. ASSUME NEW p \in Procs, Release(p) PROVE h' = h \/ L!End
  BY <1>4 DEF Release, ForgetIf, L!End
<1>5. CASE ForceRelease
  BY <1>5 DEF ForceRelease, L!End, L!Next
<1>6. CASE Purge
  BY <1>6 DEF Purge, Reap
<1>7. CASE Tick
  BY <1>7 DEF Tick, AgeEntry, L!End, L!Next
<1>8. ASSUME UNCHANGED entry PROVE h' = h
  BY <1>8
<1> QED
  BY <1>1, <1>2, <1>3, <1>4, <1>5, <1>6, <1>7, <1>8
  DEF Next, vars, L!Next, Ask, GiveUp, Abandon

(* The lock implements the lease: where no lock changes hands inside an    *)
(* extend, ownership never passes from one process to another without the  *)
(* first one's lease ending by release, expiry or force.                   *)
THEOREM LeaseCorrect == ExtendSafe => (Spec => LeaseRefined)
<1> SUFFICES ASSUME ExtendSafe PROVE Spec => LeaseRefined
  OBVIOUS
<1>1. Init => L!Init /\ ExtenderInv
  BY DEF Init, L!Init, Live, ExtenderInv
<1>2. TypeOK /\ ExtenderInv /\ [Next]_vars => ExtenderInv'
  BY ExtenderStep
<1>3. TypeOK /\ ExtenderInv /\ [Next]_vars
        => [L!Next]_(IF Live(entry) THEN entry.value ELSE Nobody)
  BY LeaseStep
<1> QED BY <1>1, <1>2, <1>3, TypeCorrect, PTL DEF Spec, LeaseRefined, L!Spec
-----------------------------------------------------------------------------
Lefts == (0 .. Window) \cup {-1}

(* What the rate limiter's constants are, one by one.                      *)
LEMMA RateConstants ==
    /\ Limit \in Nat /\ Limit > 0 /\ Window \in Nat /\ Window > 0 /\ MaxClears \in Nat
    /\ Unknown \notin Int
    /\ Lefts \subseteq Int
    /\ \A v, l \in Int : Entry(v, l) # NoEntry
BY LimiterAssumption DEF Entry, Lefts

(* What a call of the port makes of an entry.                              *)
LEMMA RateEntries ==
    ASSUME NEW values, values \subseteq Int
    PROVE  /\ NoEntry \in Entries(values)
           /\ \A v \in values, l \in Lefts : /\ Entry(v, l) \in Entries(values) /\ Entry(v, l) # NoEntry
                                            /\ Entry(v, l).value = v /\ Entry(v, l).left = l
           /\ \A e \in Entries(values) : e # NoEntry =>
                 e.value \in values /\ e.left \in Lefts /\ e = Entry(e.value, e.left)
<1>1. Entries(values) = [value: values, left: Lefts] \cup {NoEntry}
  BY DEF Entries, Instants, Never, Lefts
<1>2. \A v \in values, l \in Lefts : Entry(v, l) # NoEntry
  BY RateConstants
<1> QED BY <1>1, <1>2 DEF Entry

(* Until a tick or a clear falls into the middle of a hit: the counter     *)
(* lives while anybody hits; a live deadline is the end of its window; and *)
(* so is what a hit is about to report, or it is later.                    *)
WindowInv ==
    /\ counter # NoEntry => counter.left \in 0 .. Window
    /\ \A r \in Requests : step[r] \in MidHit => Live(counter) /\ ~clearing
    /\ \A r \in Requests : step[r] = "opened" => counter.left = Window
    /\ ~clearing /\ Live(deadline) =>
           counter # NoEntry /\ deadline.value = deadline.left /\ counter.left = deadline.left
    /\ \A r \in Requests : step[r] = "counting" => endsAt[r] = Unknown \/ endsAt[r] >= counter.left

RateInv ==
    /\ LimiterTypeOK
    /\ deadline # NoEntry => deadline.left \in 0 .. Window
    /\ ~crossed => WindowInv

(* Every trip and every tick keeps the types.                              *)
LEMMA RateTypeStep ==
    ASSUME LimiterTypeOK, deadline # NoEntry => deadline.left \in 0 .. Window, [LimiterNext]_limiterVars
    PROVE  LimiterTypeOK' /\ (deadline' # NoEntry => deadline'.left \in 0 .. Window)
<1> DEFINE Counts == 0 .. Limit + 1
<1> USE DEF Instants
<1>0. /\ Limit \in Nat /\ Limit > 0 /\ Window \in Nat /\ Window > 0 /\ MaxClears \in Nat /\ Unknown \notin Int
      /\ Counts \subseteq Int /\ Instants \subseteq Int
      /\ Window \in Lefts /\ 0 \in Lefts /\ Window \in Instants /\ 0 \in Counts
  BY RateConstants DEF Lefts
<1>1. /\ counter \in Entries(Counts) /\ deadline \in Entries(Instants)
      /\ step \in [Requests -> MidHit \cup Done] /\ endsAt \in [Requests -> Instants \cup {Unknown}]
      /\ clearing \in BOOLEAN /\ clears \in 0 .. MaxClears /\ recent \in [0 .. Window - 1 -> Nat] /\ crossed \in BOOLEAN
  BY DEF LimiterTypeOK, Instants
<1> DEFINE Dated(d) == d \in Entries(Instants) /\ (d # NoEntry => d.left \in 0 .. Window)
           Goal == LimiterTypeOK' /\ (deadline' # NoEntry => deadline'.left \in 0 .. Window)
<1>2. ASSUME counter' \in Entries(Counts), Dated(deadline'),
             step' \in [Requests -> MidHit \cup Done], endsAt' \in [Requests -> Instants \cup {Unknown}],
             clearing' \in BOOLEAN, clears' \in 0 .. MaxClears, recent' \in [0 .. Window - 1 -> Nat], crossed' \in BOOLEAN
      PROVE  Goal
  BY <1>2 DEF LimiterTypeOK, Instants
<1>3. Dated(deadline) /\ Dated(NoEntry) /\ Dated(Entry(Window, Window))
  <2>1. Entry(Window, Window) \in Entries(Instants) /\ Entry(Window, Window).left = Window
    BY <1>0, RateEntries
  <2>2. NoEntry \in Entries(Instants)
    BY <1>0, RateEntries
  <2> QED BY <1>0, <1>1, <2>1, <2>2
<1>4. \A r \in Requests, place \in MidHit \cup Done : [step EXCEPT ![r] = place] \in [Requests -> MidHit \cup Done]
  BY <1>1
<1>5. /\ "opened" \in MidHit /\ "joined" \in MidHit /\ "counting" \in MidHit /\ "idle" \in Done
      /\ "allowed" \in Done /\ "refused" \in Done /\ "failed" \in Done
  BY DEF MidHit, Done
<1>6. ASSUME NEW r \in Requests, Open(r) PROVE Goal
  <2>1. Add(counter, 0, Window) \in Entries(Counts)
    <3>1. Entry(0, Window) \in Entries(Counts)
      BY <1>0, RateEntries
    <3> QED BY <1>1, <3>1 DEF Add
  <2> HIDE DEF Counts, Instants, Dated, Goal
  <2>2. crossed' \in BOOLEAN /\ step' \in [Requests -> MidHit \cup Done]
    BY <1>4, <1>5, <1>6 DEF Open
  <2> QED BY <1>1, <1>2, <1>3, <1>6, <2>1, <2>2 DEF Open
<1>7. ASSUME NEW r \in Requests, Join(r) PROVE Goal
  <2> HIDE DEF Counts, Instants, Dated, Goal
  <2>1. crossed' \in BOOLEAN /\ step' \in [Requests -> MidHit \cup Done]
    BY <1>4, <1>5, <1>7 DEF Join
  <2> QED BY <1>1, <1>2, <1>3, <1>7, <2>1 DEF Join
<1>8. ASSUME NEW r \in Requests, WriteDeadline(r) PROVE Goal
  <2>1. Dated(Add(deadline, Window, Window))
    BY <1>3 DEF Add
  <2>2. endsAt' \in [Requests -> Instants \cup {Unknown}]
    BY <1>0, <1>1, <1>8 DEF WriteDeadline
  <2> HIDE DEF Counts, Instants, Dated, Goal
  <2>3. Dated(deadline') /\ step' \in [Requests -> MidHit \cup Done]
    BY <1>3, <1>4, <1>5, <1>8, <2>1 DEF WriteDeadline
  <2> QED BY <1>1, <1>2, <1>8, <2>2, <2>3 DEF WriteDeadline
<1>9. ASSUME NEW r \in Requests, ReadDeadline(r) PROVE Goal
  <2>1. Dated(Reap(deadline))
    BY <1>3 DEF Reap
  <2>2. Live(deadline) => deadline.value \in Instants
    BY <1>0, <1>1, RateEntries DEF Live
  <2>3. endsAt' \in [Requests -> Instants \cup {Unknown}]
    BY <1>1, <1>9, <2>2 DEF ReadDeadline
  <2> HIDE DEF Counts, Instants, Dated, Goal
  <2>4. Dated(deadline') /\ step' \in [Requests -> MidHit \cup Done]
    BY <1>4, <1>5, <1>9, <2>1 DEF ReadDeadline
  <2> QED BY <1>1, <1>2, <1>9, <2>3, <2>4 DEF ReadDeadline
<1>10. ASSUME NEW r \in Requests, Count(r) PROVE Goal
  <2> DEFINE counted == Increment(counter, 1)
  <2>1. /\ counter' = [counted EXCEPT !.value = Saturated(counted.value)]
        /\ step' = [step EXCEPT ![r] = IF OverLimit(counted.value) THEN "refused" ELSE "allowed"]
        /\ recent' = IF OverLimit(counted.value) THEN recent ELSE [age \in 0 .. Window - 1 |-> recent[age] + 1]
        /\ UNCHANGED <<deadline, endsAt, clearing, clears, crossed>>
    BY <1>10 DEF Count
  <2>2. PICK v \in Nat, l \in Lefts : counted = Entry(v, l)
    <3>1. CASE Live(counter)
      <4>1. counter.value \in Counts /\ counter.left \in Lefts
        BY <1>0, <1>1, <3>1, RateEntries DEF Live
      <4>2. counter.value + 1 \in Nat
        BY <1>0, <4>1
      <4> QED BY <3>1, <4>1, <4>2 DEF Increment
    <3>2. CASE ~Live(counter)
      <4>1. 1 \in Nat /\ -1 \in Lefts
        BY DEF Lefts
      <4> QED BY <3>2, <4>1 DEF Increment, Never
    <3> QED BY <3>1, <3>2
  <2> HIDE DEF counted
  <2>3. Saturated(v) \in Counts
    BY <1>0 DEF Saturated
  <2>4. counter' = Entry(Saturated(v), l)
    BY <2>1, <2>2 DEF Entry
  <2>5. counter' \in Entries(Counts)
    BY <1>0, <2>2, <2>3, <2>4, RateEntries
  <2>6. recent' \in [0 .. Window - 1 -> Nat]
    <3>1. [age \in 0 .. Window - 1 |-> recent[age] + 1] \in [0 .. Window - 1 -> Nat]
      BY <1>1
    <3> QED BY <1>1, <2>1, <3>1
  <2> HIDE DEF Counts, Instants, Dated, Goal
  <2>7. step' \in [Requests -> MidHit \cup Done]
    BY <1>4, <1>5, <2>1
  <2> QED BY <1>1, <1>2, <1>3, <2>1, <2>5, <2>6, <2>7
<1>11. ASSUME NEW r \in Requests, Outage(r) PROVE Goal
  <2> HIDE DEF Counts, Instants, Dated, Goal
  <2>1. step' \in [Requests -> MidHit \cup Done]
    BY <1>4, <1>5, <1>11 DEF Outage
  <2> QED BY <1>1, <1>2, <1>3, <1>11, <2>1 DEF Outage
<1>12. ASSUME ClearCounter PROVE Goal
  <2>1. clears' \in 0 .. MaxClears
    BY <1>0, <1>1, <1>12 DEF ClearCounter
  <2>2. counter' \in Entries(Counts)
    BY <1>0, <1>12, RateEntries DEF ClearCounter
  <2> HIDE DEF Counts, Instants, Dated, Goal
  <2>3. clearing' \in BOOLEAN /\ crossed' \in BOOLEAN
    BY <1>12 DEF ClearCounter
  <2> QED BY <1>1, <1>2, <1>3, <1>12, <2>1, <2>2, <2>3 DEF ClearCounter
<1>13. ASSUME ClearDeadline PROVE Goal
  <2> HIDE DEF Counts, Instants, Dated, Goal
  <2>1. clearing' \in BOOLEAN
    BY <1>13 DEF ClearDeadline
  <2> QED BY <1>1, <1>2, <1>3, <1>13, <2>1 DEF ClearDeadline
<1>14. ASSUME LimiterTick PROVE Goal
  <2>1. counter' \in Entries(Counts)
    <3>1. CASE counter # NoEntry /\ counter.left > 0
      <4>1. counter.value \in Counts /\ counter.left \in Lefts /\ counter = Entry(counter.value, counter.left)
        BY <1>0, <1>1, <3>1, RateEntries
      <4>2. counter.left - 1 \in Lefts
        BY <1>0, <3>1, <4>1 DEF Lefts
      <4>3. counter' = Entry(counter.value, counter.left - 1)
        BY <1>14, <3>1, <4>1 DEF LimiterTick, AgeEntry, Entry
      <4> QED BY <1>0, <4>1, <4>2, <4>3, RateEntries
    <3>2. CASE ~(counter # NoEntry /\ counter.left > 0)
      BY <1>1, <1>14, <3>2 DEF LimiterTick, AgeEntry
    <3> QED BY <3>1, <3>2
  <2>2. \A i \in Instants \cup {Unknown} : Closer(i) \in Instants \cup {Unknown}
    BY <1>0 DEF Closer
  <2>3. Dated(deadline')
    <3>1. CASE deadline = NoEntry
      BY <1>3, <1>14, <3>1 DEF LimiterTick
    <3>2. CASE deadline # NoEntry
      <4>1. deadline.value \in Instants /\ deadline.left \in 0 .. Window /\ deadline = Entry(deadline.value, deadline.left)
        BY <1>0, <1>1, <3>2, RateEntries
      <4>2. PICK l \in 0 .. Window : AgeEntry(deadline) = Entry(deadline.value, l)
        <5>1. CASE deadline.left > 0
          <6>1. deadline.left - 1 \in 0 .. Window /\ AgeEntry(deadline) = Entry(deadline.value, deadline.left - 1)
            BY <1>0, <3>2, <4>1, <5>1 DEF AgeEntry, Entry
          <6> QED BY <6>1
        <5>2. CASE ~(deadline.left > 0)
          BY <4>1, <5>2 DEF AgeEntry
        <5> QED BY <5>1, <5>2
      <4>3. deadline' = Entry(Closer(deadline.value), l)
        BY <1>14, <3>2, <4>2 DEF LimiterTick, Entry
      <4>4. Closer(deadline.value) \in Instants
        BY <1>0, <4>1 DEF Closer
      <4>5. deadline' \in Entries(Instants) /\ deadline'.left = l
        BY <4>2, <4>3, <4>4 DEF Entry, Entries, Instants
      <4> QED BY <4>2, <4>5
    <3> QED BY <3>1, <3>2
  <2>4. endsAt' \in [Requests -> Instants \cup {Unknown}]
    BY <1>1, <1>14, <2>2 DEF LimiterTick
  <2>5. recent' \in [0 .. Window - 1 -> Nat]
    <3>1. \A age \in 0 .. Window - 1 : age # 0 => age - 1 \in 0 .. Window - 1
      BY <1>0
    <3>2. \A age \in 0 .. Window - 1 : (IF age = 0 THEN 0 ELSE recent[age - 1]) \in Nat
      BY <1>1, <3>1
    <3> QED BY <1>14, <3>2 DEF LimiterTick
  <2> HIDE DEF Counts, Instants, Dated, Goal
  <2>6. crossed' \in BOOLEAN /\ step' \in [Requests -> MidHit \cup Done]
    BY <1>1, <1>5, <1>14 DEF LimiterTick
  <2> QED BY <1>1, <1>2, <1>14, <2>1, <2>3, <2>4, <2>5, <2>6 DEF LimiterTick
<1>15. ASSUME UNCHANGED limiterVars PROVE Goal
  <2> HIDE DEF Counts, Instants, Dated, Goal
  <2> QED BY <1>1, <1>2, <1>3, <1>15 DEF limiterVars
<1> HIDE DEF Goal
<1>16. Goal
  BY <1>6, <1>7, <1>8, <1>9, <1>10, <1>11, <1>12, <1>13, <1>14, <1>15 DEF LimiterNext
<1> QED BY <1>16 DEF Goal

(* A step that does not cross a hit keeps the window.                      *)
LEMMA WindowStep ==
    ASSUME RateInv, [LimiterNext]_limiterVars, ~crossed'
    PROVE  ~crossed /\ WindowInv /\ WindowInv'
<1>1. ~crossed
  <2>1. crossed \in BOOLEAN
    BY DEF RateInv, LimiterTypeOK
  <2> QED BY <2>1, Zenon DEF LimiterNext, Open, Join, WriteDeadline, ReadDeadline, Count, Outage,
                             ClearCounter, ClearDeadline, LimiterTick, limiterVars
<1>2. WindowInv
  BY <1>1 DEF RateInv
<1>3. /\ step \in [Requests -> MidHit \cup Done] /\ endsAt \in [Requests -> (0 .. Window) \cup {Unknown}]
      /\ clearing \in BOOLEAN
      /\ counter # NoEntry => /\ counter.left \in 0 .. Window /\ counter.value \in 0 .. Limit + 1
                              /\ counter = Entry(counter.value, counter.left)
      /\ deadline # NoEntry => /\ deadline.left \in 0 .. Window /\ deadline.value \in 0 .. Window
                               /\ deadline = Entry(deadline.value, deadline.left)
  <2>1. (0 .. Limit + 1) \subseteq Int /\ (0 .. Window) \subseteq Int
    BY RateConstants
  <2>2. counter \in Entries(0 .. Limit + 1) /\ deadline \in Entries(0 .. Window)
    BY DEF RateInv, LimiterTypeOK, Instants
  <2> QED BY <1>2, <2>1, <2>2, RateEntries DEF RateInv, LimiterTypeOK, Instants, WindowInv
<1>4. /\ Window \in Nat /\ Window > 0 /\ Unknown \notin Int
      /\ \A v \in Int : Entry(v, Window) # NoEntry /\ Entry(v, Window).left = Window /\ Entry(v, Window).value = v
  BY RateConstants DEF Entry
<1>5. /\ "opened" \in MidHit /\ "joined" \in MidHit /\ "counting" \in MidHit
      /\ \A place \in Done : place \notin MidHit
      /\ "idle" \in Done /\ "allowed" \in Done /\ "refused" \in Done /\ "failed" \in Done
  BY DEF MidHit, Done
<1> DEFINE Goal == WindowInv'
<1>6. ASSUME NEW r \in Requests, Open(r) PROVE Goal
  <2>1. /\ ~Live(counter) /\ counter' = Entry(0, Window) /\ step' = [step EXCEPT ![r] = "opened"]
        /\ deadline' = deadline /\ endsAt' = endsAt /\ clearing' = clearing
    BY <1>6 DEF Open, Add
  <2>2. ~clearing
    BY <1>6 DEF Open
  <2>3. counter' # NoEntry /\ counter'.left = Window /\ Live(counter')
    BY <1>4, <2>1 DEF Live
  <2>4. ~Live(deadline)
    BY <1>2, <2>1, <2>2 DEF WindowInv, Live
  <2>5. \A q \in Requests : step[q] \notin MidHit
    BY <1>2, <2>1 DEF WindowInv
  <2>6. \A q \in Requests : step'[q] # "counting"
    BY <1>3, <1>5, <2>1, <2>5
  <2> QED BY <1>4, <2>1, <2>2, <2>3, <2>4, <2>6 DEF WindowInv, Live
<1>7. ASSUME NEW r \in Requests, Join(r) PROVE Goal
  <2>1. /\ Live(counter) /\ step' = [step EXCEPT ![r] = "joined"] /\ ~clearing
        /\ UNCHANGED <<counter, deadline, endsAt, clearing>>
    BY <1>7 DEF Join
  <2>2. \A q \in Requests : step'[q] = step[q] \/ step'[q] = "joined"
    BY <1>3, <2>1
  <2> QED BY <1>2, <2>1, <2>2 DEF WindowInv, Live
<1>8. ASSUME NEW r \in Requests, WriteDeadline(r) PROVE Goal
  <2>1. /\ step[r] = "opened" /\ step' = [step EXCEPT ![r] = "counting"] /\ endsAt' = [endsAt EXCEPT ![r] = Window]
        /\ UNCHANGED <<counter, clearing>>
        /\ deadline' \in {Add(deadline, Window, Window), deadline}
    BY <1>8 DEF WriteDeadline
  <2>2. counter # NoEntry /\ counter.left = Window /\ Live(counter) /\ ~clearing
    BY <1>2, <1>5, <2>1 DEF WindowInv, Live
  <2>3. deadline' = deadline \/ (deadline' = Entry(Window, Window))
    BY <2>1 DEF Add
  <2>4. Live(deadline') => deadline'.value = deadline'.left /\ counter.left = deadline'.left
    BY <1>2, <1>4, <2>2, <2>3 DEF WindowInv
  <2>5. \A q \in Requests : /\ step'[q] = "opened" => step[q] = "opened"
                            /\ step'[q] = "counting" => endsAt'[q] = Window \/ (step[q] = "counting" /\ endsAt'[q] = endsAt[q])
    BY <1>3, <2>1
  <2> QED BY <1>2, <1>4, <2>1, <2>2, <2>4, <2>5 DEF WindowInv, Live
<1>9. ASSUME NEW r \in Requests, ReadDeadline(r) PROVE Goal
  <2>1. /\ step[r] = "joined" /\ step' = [step EXCEPT ![r] = "counting"]
        /\ endsAt' = [endsAt EXCEPT ![r] = IF Live(deadline) THEN deadline.value ELSE Unknown]
        /\ deadline' = Reap(deadline) /\ UNCHANGED <<counter, clearing>>
    BY <1>9 DEF ReadDeadline
  <2>2. Live(counter) /\ ~clearing
    BY <1>2, <1>5, <2>1 DEF WindowInv
  <2>3. Live(deadline') => Live(deadline) /\ deadline' = deadline
    BY <2>1 DEF Reap, Live
  <2>4. \A q \in Requests : /\ step'[q] = "opened" => step[q] = "opened"
                            /\ step'[q] = "counting" => \/ step[q] = "counting" /\ endsAt'[q] = endsAt[q]
                                                        \/ endsAt'[q] = Unknown
                                                        \/ Live(deadline) /\ endsAt'[q] = deadline.value
    BY <1>3, <2>1
  <2>5. Live(deadline) => deadline.value >= counter.left
    BY <1>2, <1>3, <2>2 DEF WindowInv, Live
  <2> QED BY <1>2, <2>1, <2>2, <2>3, <2>4, <2>5 DEF WindowInv, Live
<1>10. ASSUME NEW r \in Requests, Count(r) PROVE Goal
  <2> DEFINE counted == Increment(counter, 1)
  <2>1. /\ counter' = [counted EXCEPT !.value = Saturated(counted.value)]
        /\ step' = [step EXCEPT ![r] = IF OverLimit(counted.value) THEN "refused" ELSE "allowed"]
        /\ UNCHANGED <<deadline, endsAt, clearing>> /\ step[r] = "counting"
    BY <1>10 DEF Count
  <2>2. Live(counter) /\ counter # NoEntry /\ ~clearing
    BY <1>2, <1>5, <2>1 DEF WindowInv, Live
  <2>3. counter' = Entry(Saturated(counter.value + 1), counter.left)
    BY <2>1, <2>2 DEF Increment, Entry
  <2>4. counter'.left = counter.left
    BY <2>3 DEF Entry
  <2>5. counter' # NoEntry
    <3>1. Saturated(counter.value + 1) \in Int /\ counter.left \in Int
      BY <1>3, <2>2, RateConstants DEF Saturated
    <3> QED BY <2>3, <3>1, RateConstants
  <2>6. \A q \in Requests : /\ step'[q] \in MidHit => step'[q] = step[q]
    BY <1>3, <1>5, <2>1
  <2> QED BY <1>2, <1>5, <2>1, <2>2, <2>4, <2>5, <2>6 DEF WindowInv, Live
<1>11. ASSUME NEW r \in Requests, Outage(r) PROVE Goal
  <2>1. \A q \in Requests : step'[q] = step[q] \/ step'[q] = "failed"
    BY <1>3, <1>11 DEF Outage
  <2>2. "failed" \notin MidHit
    BY <1>5
  <2> QED BY <1>2, <1>11, <2>1, <2>2 DEF Outage, WindowInv, Live
<1>12. ASSUME ClearCounter PROVE Goal
  <2>1. \A q \in Requests : step[q] \notin MidHit
    BY <1>12 DEF ClearCounter, Hitting
  <2>2. counter' = NoEntry /\ clearing' /\ step' = step
    BY <1>12 DEF ClearCounter
  <2> QED BY <1>5, <2>1, <2>2 DEF WindowInv
<1>13. ASSUME ClearDeadline PROVE Goal
  <2>1. /\ clearing /\ deadline' = NoEntry /\ ~clearing' /\ UNCHANGED <<counter, step, endsAt>>
    BY <1>13 DEF ClearDeadline
  <2>2. \A q \in Requests : step[q] \notin MidHit
    BY <1>2, <2>1 DEF WindowInv
  <2> QED BY <1>2, <1>5, <2>1, <2>2 DEF WindowInv, Live
<1>14. ASSUME LimiterTick PROVE Goal
  <2>1. \A q \in Requests : step[q] \notin MidHit
    BY <1>14 DEF LimiterTick, Hitting
  <2>2. \A q \in Requests : step'[q] \notin MidHit
    BY <1>5, <1>14, <2>1 DEF LimiterTick
  <2>3. counter' = AgeEntry(counter) /\ clearing' = clearing
    BY <1>14 DEF LimiterTick
  <2>4. /\ (counter # NoEntry) = (counter' # NoEntry)
        /\ counter # NoEntry => counter'.left = IF counter.left > 0 THEN counter.left - 1 ELSE counter.left
    <3>1. CASE counter # NoEntry /\ counter.left > 0
      <4>1. counter' = Entry(counter.value, counter.left - 1)
        BY <1>3, <2>3, <3>1 DEF AgeEntry, Entry
      <4>2. counter.value \in Int /\ counter.left - 1 \in Int
        BY <1>3, <3>1, RateConstants
      <4>3. counter' # NoEntry
        BY <4>1, <4>2, RateConstants
      <4> QED BY <3>1, <4>1, <4>3 DEF Entry
    <3>2. CASE ~(counter # NoEntry /\ counter.left > 0)
      BY <2>3, <3>2 DEF AgeEntry
    <3> QED BY <3>1, <3>2
  <2>5. counter' # NoEntry => counter'.left \in 0 .. Window
    BY <1>3, <1>4, <2>4
  <2>6. ASSUME ~clearing', Live(deadline')
        PROVE  counter' # NoEntry /\ deadline'.value = deadline'.left /\ counter'.left = deadline'.left
    <3>1. deadline # NoEntry /\ deadline' = [AgeEntry(deadline) EXCEPT !.value = Closer(deadline.value)]
      <4>1. deadline # NoEntry
        BY <1>14, <2>6 DEF LimiterTick, Live
      <4>2. AgeEntry(deadline).value = deadline.value
        BY <1>3, <4>1 DEF AgeEntry, Entry
      <4> QED BY <1>14, <4>1, <4>2 DEF LimiterTick
    <3>2. CASE deadline.left > 0
      <4>1. deadline' = Entry(Closer(deadline.value), deadline.left - 1)
        BY <1>3, <3>1, <3>2 DEF AgeEntry, Entry
      <4>2. Live(deadline) /\ ~clearing
        BY <1>3, <2>3, <2>6, <3>1, <3>2 DEF Live
      <4>3. counter # NoEntry /\ deadline.value = deadline.left /\ counter.left = deadline.left
        BY <1>2, <4>2 DEF WindowInv
      <4>4. Closer(deadline.value) = deadline.value - 1
        BY <1>3, <1>4, <3>1, <3>2, <4>3 DEF Closer
      <4> QED BY <1>3, <2>4, <3>2, <4>1, <4>3, <4>4 DEF Entry
    <3>3. CASE ~(deadline.left > 0)
      <4>1. deadline.left = 0
        BY <1>3, <3>1, <3>3
      <4>2. deadline' = Entry(Closer(deadline.value), 0)
        BY <1>3, <3>1, <4>1 DEF AgeEntry, Entry
      <4> QED BY <2>6, <4>2 DEF Live, Entry
    <3> QED BY <3>2, <3>3
  <2> QED BY <1>5, <2>2, <2>5, <2>6 DEF WindowInv
<1>15. ASSUME UNCHANGED limiterVars PROVE Goal
  BY <1>2, <1>15 DEF limiterVars, WindowInv, Live
<1> HIDE DEF Goal
<1>16. Goal
  BY <1>6, <1>7, <1>8, <1>9, <1>10, <1>11, <1>12, <1>13, <1>14, <1>15 DEF LimiterNext
<1> QED BY <1>1, <1>2, <1>16 DEF Goal

(* The invariant holds of every behaviour.                                 *)
LEMMA RateKept ==
    LimiterSpec => []RateInv
<1>1. ASSUME LimiterInit PROVE RateInv
  <2>1. /\ counter = NoEntry /\ deadline = NoEntry /\ step = [r \in Requests |-> "idle"]
        /\ endsAt = [r \in Requests |-> Unknown] /\ clearing = FALSE /\ clears = 0
        /\ recent = [age \in 0 .. Window - 1 |-> 0] /\ crossed = FALSE
    BY <1>1 DEF LimiterInit
  <2>2. LimiterTypeOK
    <3>1. NoEntry \in Entries(0 .. Limit + 1) /\ NoEntry \in Entries(0 .. Window)
      BY RateConstants, RateEntries
    <3>2. clears \in 0 .. MaxClears
      BY <2>1, RateConstants
    <3>3. step \in [Requests -> MidHit \cup Done]
      BY <2>1 DEF MidHit, Done
    <3> QED BY <2>1, <3>1, <3>2, <3>3 DEF LimiterTypeOK, Instants
  <2>3. \A r \in Requests : step[r] \notin MidHit /\ step[r] # "opened" /\ step[r] # "counting"
    BY <2>1 DEF MidHit
  <2> QED BY <2>1, <2>2, <2>3 DEF RateInv, WindowInv, Live
<1>2. ASSUME RateInv, [LimiterNext]_limiterVars PROVE RateInv'
  <2>1. LimiterTypeOK' /\ (deadline' # NoEntry => deadline'.left \in 0 .. Window)
    BY <1>2, RateTypeStep DEF RateInv
  <2>2. ~crossed' => WindowInv'
    BY <1>2, WindowStep
  <2> QED BY <2>1, <2>2 DEF RateInv
<1> QED BY <1>1, <1>2, PTL DEF LimiterSpec

(* Every state of the rate-limited key is well typed.                      *)
THEOREM RateTypeCorrect ==
    LimiterSpec => []LimiterTypeOK
<1>1. RateInv => LimiterTypeOK
  BY DEF RateInv
<1> QED BY <1>1, RateKept, PTL

(* What becomes of a counter that is there: the count goes up and the      *)
(* expiry stays (Count), a tick brings the expiry closer, a clear removes  *)
(* it, or it is left as it is.                                             *)
LEMMA CounterStep ==
    ASSUME RateInv, [LimiterNext]_limiterVars, Live(counter)
    PROVE  \/ /\ \E r \in Requests : Count(r)
              /\ counter' = Entry(Saturated(counter.value + 1), counter.left)
           \/ LimiterTick /\ counter' = AgeEntry(counter)
           \/ ClearCounter /\ counter' = NoEntry
           \/ counter' = counter
<1>1. ASSUME NEW r \in Requests, Count(r)
      PROVE  counter' = Entry(Saturated(counter.value + 1), counter.left)
  BY <1>1 DEF Count, Increment, Entry
<1>2. LimiterTick => counter' = AgeEntry(counter)
  BY DEF LimiterTick
<1>3. ClearCounter => counter' = NoEntry
  BY DEF ClearCounter
<1>4. ASSUME NEW r \in Requests, Open(r) PROVE FALSE
  BY <1>4 DEF Open
<1>5. ASSUME NEW r \in Requests, Join(r) \/ WriteDeadline(r) \/ ReadDeadline(r) \/ Outage(r)
      PROVE  counter' = counter
  BY <1>5 DEF Join, WriteDeadline, ReadDeadline, Outage
<1>6. ClearDeadline \/ UNCHANGED limiterVars => counter' = counter
  BY DEF ClearDeadline, limiterVars
<1> QED BY <1>1, <1>2, <1>3, <1>4, <1>5, <1>6 DEF LimiterNext

(* What a live counter is, and how a tick leaves it.                       *)
LEMMA LiveCounter ==
    ASSUME RateInv, Live(counter)
    PROVE  /\ counter # NoEntry /\ counter.value \in 0 .. Limit + 1 /\ counter.left \in Lefts /\ counter.left # 0
           /\ counter.left > 0 => AgeEntry(counter) = Entry(counter.value, counter.left - 1)
           /\ ~crossed => counter.left \in 1 .. Window
<1>1. (0 .. Limit + 1) \subseteq Int /\ counter \in Entries(0 .. Limit + 1)
  BY RateConstants DEF RateInv, LimiterTypeOK
<1>2. /\ counter # NoEntry /\ counter.left # 0 /\ counter.value \in 0 .. Limit + 1 /\ counter.left \in Lefts
      /\ counter = Entry(counter.value, counter.left)
  BY <1>1, RateEntries DEF Live
<1>3. counter.left > 0 => AgeEntry(counter) = Entry(counter.value, counter.left - 1)
  BY <1>2 DEF AgeEntry, Entry
<1>4. ~crossed => counter.left \in 1 .. Window
  BY <1>2, RateConstants DEF RateInv, WindowInv
<1> QED BY <1>2, <1>3, <1>4

(* "A caller cannot hold a window open by continuing to knock": no hit,    *)
(* however the trips of several interleave, moves the expiry of a live     *)
(* counter; only time does.                                                *)
THEOREM AnchoredCorrect ==
    LimiterSpec => WindowAnchored
<1> DEFINE Anchored == Live(counter) /\ Live(counter)' /\ counter.left > 0 =>
                           counter'.left \in {counter.left, counter.left - 1}
<1>1. ASSUME RateInv, [LimiterNext]_limiterVars PROVE Anchored
  <2> SUFFICES ASSUME Live(counter), Live(counter)', counter.left > 0
               PROVE  counter'.left \in {counter.left, counter.left - 1}
    OBVIOUS
  <2>1. AgeEntry(counter) = Entry(counter.value, counter.left - 1)
    BY <1>1, LiveCounter
  <2>2. counter' # NoEntry
    BY DEF Live
  <2> QED BY <1>1, <2>1, <2>2, CounterStep DEF Entry
<1>2. RateInv /\ [LimiterNext]_limiterVars => [Anchored]_limiterVars
  BY <1>1
<1> QED BY <1>2, RateKept, PTL DEF LimiterSpec, WindowAnchored

(* "`retry-after` has to say something true": for every number of requests *)
(* in whatever order of their trips, a refused request that comes back     *)
(* after resets_in finds the window that refused it over, unless a tick or *)
(* a clear fell into the middle of a hit.                                  *)
THEOREM RetryAfterCorrect ==
    LimiterSpec => RetryAfterTrue
<1> DEFINE Honest == \A r \in Requests : step[r] = "counting" /\ step'[r] = "refused" /\ ~crossed =>
                                            Remaining(r) >= counter'.left
<1>1. ASSUME RateInv, [LimiterNext]_limiterVars PROVE Honest
  <2> SUFFICES ASSUME NEW r \in Requests, step[r] = "counting", step'[r] = "refused", ~crossed
               PROVE  Remaining(r) >= counter'.left
    OBVIOUS
  <2>1. Live(counter) /\ (endsAt[r] = Unknown \/ endsAt[r] >= counter.left)
    BY <1>1 DEF RateInv, WindowInv, MidHit
  <2>2. counter.left \in 1 .. Window /\ Window \in Nat
    BY <1>1, <2>1, LiveCounter, RateConstants
  <2>3. Remaining(r) >= counter.left
    BY <2>1, <2>2 DEF Remaining
  <2>4. step \in [Requests -> MidHit \cup Done]
    BY <1>1 DEF RateInv, LimiterTypeOK
  <2>5. ~(LimiterTick \/ ClearCounter)
    BY <2>4 DEF LimiterTick, ClearCounter, Done
  <2>6. counter'.left = counter.left
    BY <1>1, <2>1, <2>5, CounterStep DEF Entry
  <2> QED BY <2>3, <2>6
<1>2. RateInv /\ [LimiterNext]_limiterVars => [Honest]_limiterVars
  BY <1>1
<1> QED BY <1>2, RateKept, PTL DEF LimiterSpec, RetryAfterTrue

(* The two keys of the cache, updated by trips that interleave, implement  *)
(* a fixed window: the window starts as FixedWindow's does, and every step *)
(* up to the first tick or clear in the middle of a hit is one of          *)
(* FixedWindow or leaves the window as it is.                              *)
THEOREM FixedWindowCorrect ==
    LimiterSpec => FixedWindowRefined
<1> DEFINE Shown(c) == IF Live(c) /\ c.value > 0 THEN [count |-> c.value, left |-> c.left] ELSE [count |-> 0, left |-> 0]
<1>1. Kept = Shown(counter) /\ Kept' = Shown(counter')
  BY DEF Kept, Live
<1>2. ~Live(NoEntry)
  BY DEF Live
<1>3. ASSUME LimiterInit PROVE F!Init
  BY <1>1, <1>2, <1>3 DEF LimiterInit, F!Init, F!NoWindow
<1>4. ASSUME RateInv, [LimiterNext]_limiterVars, ~crossed' PROVE [F!Next]_Kept
  <2>1. ~crossed
    BY <1>4, WindowStep
  <2>2. CASE ~Live(counter)
    <3>1. Shown(counter') = Shown(counter)
      <4>1. ASSUME NEW r \in Requests, Open(r) PROVE Shown(counter') = Shown(counter)
        BY <2>2, <4>1 DEF Open, Add, Entry
      <4>2. ASSUME NEW r \in Requests, Join(r) \/ WriteDeadline(r) \/ ReadDeadline(r) \/ Outage(r)
            PROVE  Shown(counter') = Shown(counter)
        BY <4>2 DEF Join, WriteDeadline, ReadDeadline, Outage
      <4>3. ASSUME NEW r \in Requests, Count(r) PROVE FALSE
        BY <1>4, <2>1, <2>2, <4>3 DEF Count, RateInv, WindowInv, MidHit
      <4>4. ClearCounter => Shown(counter') = Shown(counter)
        BY <1>2, <2>2 DEF ClearCounter
      <4>5. LimiterTick => Shown(counter') = Shown(counter)
        BY <2>2 DEF LimiterTick, AgeEntry, Live
      <4>6. ClearDeadline \/ UNCHANGED limiterVars => Shown(counter') = Shown(counter)
        BY DEF ClearDeadline, limiterVars
      <4> HIDE DEF Shown
      <4> QED BY <1>4, <4>1, <4>2, <4>3, <4>4, <4>5, <4>6 DEF LimiterNext
    <3> QED BY <1>1, <3>1
  <2>3. CASE Live(counter)
    <3>1. /\ counter.value \in 0 .. Limit + 1 /\ counter.left \in 1 .. Window /\ Limit \in Nat /\ Limit > 0 /\ Window \in Nat
          /\ counter # NoEntry
          /\ AgeEntry(counter) = Entry(counter.value, counter.left - 1)
      BY <1>4, <2>1, <2>3, LiveCounter, RateConstants
    <3>2. \A v, l \in Int : /\ Entry(v, l) # NoEntry /\ Entry(v, l).value = v /\ Entry(v, l).left = l
      BY RateConstants DEF Entry
    <3>3. CASE counter' = Entry(Saturated(counter.value + 1), counter.left)
      <4>1. /\ Saturated(counter.value + 1) \in Int /\ Saturated(counter.value + 1) > 0
            /\ counter.value = 0 => Saturated(counter.value + 1) = 1
        BY <3>1 DEF Saturated
      <4>2. Shown(counter') = [count |-> Saturated(counter.value + 1), left |-> counter.left]
        BY <3>1, <3>2, <3>3, <4>1 DEF Live
      <4>3. CASE counter.value = 0
        <5>1. Kept.left = 0
          BY <1>1, <4>3
        <5>2. Kept' = [count |-> 1, left |-> counter.left]
          BY <1>1, <4>1, <4>2, <4>3
        <5> QED BY <3>1, <5>1, <5>2 DEF F!Next, F!Hit
      <4>4. CASE counter.value > 0
        <5>1. Kept = [count |-> counter.value, left |-> counter.left]
          BY <1>1, <2>3, <4>4
        <5>2. Kept' = [Kept EXCEPT !.count = F!Saturated(Kept.count + 1)]
          BY <1>1, <4>2, <5>1 DEF Saturated, F!Saturated
        <5>3. Kept.left > 0
          BY <3>1, <5>1
        <5> QED BY <5>2, <5>3 DEF F!Next, F!Hit
      <4> QED BY <3>1, <4>3, <4>4
    <3>4. CASE counter' = AgeEntry(counter)
      <4>1. counter' = Entry(counter.value, counter.left - 1)
        BY <3>1, <3>4
      <4>2. counter' # NoEntry /\ counter'.value = counter.value /\ counter'.left = counter.left - 1
        BY <3>1, <3>2, <4>1
      <4>3. CASE counter.value = 0
        <5>1. Shown(counter') = Shown(counter)
          BY <4>2, <4>3
        <5> QED BY <1>1, <5>1
      <4>4. CASE counter.value > 0 /\ counter.left = 1
        <5>1. Kept = [count |-> counter.value, left |-> 1] /\ Kept' = [count |-> 0, left |-> 0]
          BY <1>1, <2>3, <4>2, <4>4 DEF Live
        <5> QED BY <5>1 DEF F!Next, F!Clear, F!NoWindow
      <4>5. CASE counter.value > 0 /\ counter.left > 1
        <5>1. /\ Kept = [count |-> counter.value, left |-> counter.left]
              /\ Kept' = [count |-> counter.value, left |-> counter.left - 1]
          BY <1>1, <2>3, <3>1, <4>2, <4>5 DEF Live
        <5>2. Kept.left > 0 /\ Kept.left # 1 /\ Kept' = [Kept EXCEPT !.left = Kept.left - 1]
          BY <3>1, <4>5, <5>1
        <5> QED BY <5>2 DEF F!Next, F!Tick
      <4> QED BY <3>1, <4>3, <4>4, <4>5
    <3>5. CASE counter' = NoEntry
      <4>1. Kept' = [count |-> 0, left |-> 0]
        BY <1>1, <1>2, <3>5
      <4> QED BY <4>1 DEF F!Next, F!Clear, F!NoWindow
    <3>6. CASE counter' = counter
      BY <1>1, <3>6
    <3> QED BY <1>4, <2>3, <3>3, <3>4, <3>5, <3>6, CounterStep
  <2> QED BY <2>2, <2>3
<1>5. RateInv /\ [LimiterNext]_limiterVars => [~crossed' => [F!Next]_Kept]_limiterVars
  BY <1>4
<1> QED BY <1>3, <1>5, RateKept, PTL DEF LimiterSpec, FixedWindowRefined

-----------------------------------------------------------------------------
(* What the counter's own window has let through, of what was let through  *)
(* lately: since it opened nothing else was, and before it opened one      *)
(* allowance, apart from one for each clear.                               *)
Spent(e) == IF ~Live(e) THEN 0 ELSE IF e.value > Limit THEN Limit ELSE e.value

Within(e, cleared, through) ==
    /\ \A age \in 0 .. Window - 1 : through[age] <= Spent(e) + cleared + Limit
    /\ Live(e) /\ e.left > 0 =>
           \A age \in 0 .. Window - 1 : age < Window - e.left => through[age] <= Spent(e) + cleared

AllowanceInv == Within(counter, clears * Limit, recent)

(* What a window has spent is an allowance at most.                        *)
LEMMA SpentBound ==
    ASSUME NEW e, Live(e) => e.value \in 0 .. Limit + 1
    PROVE  Spent(e) \in 0 .. Limit
BY RateConstants DEF Spent

(* Every step keeps the account: a window opens only when the one before   *)
(* it is over or was cleared, and counts what it lets through.             *)
LEMMA AllowanceStep ==
    ASSUME LimiterTypeOK, AllowanceInv, [LimiterNext]_limiterVars
    PROVE  AllowanceInv'
<1> DEFINE Ages == 0 .. Window - 1
           cleared == clears * Limit
<1>1. /\ Limit \in Nat /\ Limit > 0 /\ Window \in Nat /\ Window > 0 /\ clears \in Nat /\ cleared \in Nat
      /\ recent \in [Ages -> Nat]
  BY RateConstants DEF LimiterTypeOK
<1>2. Live(counter) => /\ counter.value \in 0 .. Limit + 1 /\ counter.left \in Lefts /\ counter.left # 0
                         /\ counter = Entry(counter.value, counter.left)
  <2>1. (0 .. Limit + 1) \subseteq Int /\ counter \in Entries(0 .. Limit + 1)
    BY RateConstants DEF LimiterTypeOK
  <2> QED BY <2>1, RateEntries DEF Live
<1>3. Spent(counter) \in 0 .. Limit
  BY <1>2, SpentBound
<1>4. Within(counter, cleared, recent)
  BY DEF AllowanceInv
<1>5. \A v, l \in Int : /\ Entry(v, l).value = v /\ Entry(v, l).left = l
                        /\ Live(Entry(v, l)) <=> l # 0
  BY RateConstants DEF Entry, Live
<1> HIDE DEF cleared
<1>6. ASSUME clears' = clears, Within(counter', cleared, recent') PROVE AllowanceInv'
  BY <1>6 DEF AllowanceInv, cleared
<1>7. ASSUME NEW r \in Requests, Open(r) PROVE AllowanceInv'
  <2>1. ~Live(counter) /\ counter' = Entry(0, Window) /\ recent' = recent /\ clears' = clears
    BY <1>7 DEF Open, Add
  <2>2. counter'.left = Window /\ Live(counter')
    BY <1>1, <1>5, <2>1
  <2>3. Spent(counter) = 0 /\ Spent(counter') = 0
    BY <1>1, <1>5, <2>1 DEF Spent
  <2>4. Within(counter', cleared, recent)
    BY <1>1, <1>4, <2>2, <2>3 DEF Within
  <2> QED BY <1>6, <2>1, <2>4
<1>8. ASSUME NEW r \in Requests, Count(r) PROVE AllowanceInv'
  <2> DEFINE counted == Increment(counter, 1)
  <2>1. /\ counter' = [counted EXCEPT !.value = Saturated(counted.value)] /\ clears' = clears
        /\ recent' = IF OverLimit(counted.value) THEN recent ELSE [age \in Ages |-> recent[age] + 1]
    BY <1>8 DEF Count
  <2>2. CASE Live(counter)
    <3>1. counted = Entry(counter.value + 1, counter.left)
      BY <2>2 DEF Increment
    <3>2. counter' = Entry(Saturated(counter.value + 1), counter.left) /\ counted.value = counter.value + 1
      BY <2>1, <3>1 DEF Entry
    <3> HIDE DEF counted
    <3>3. counter.left \in Int /\ counter.value \in Int /\ Saturated(counter.value + 1) \in Int
      BY <1>1, <1>2, <2>2 DEF Lefts, Saturated
    <3>4. Live(counter') /\ counter'.left = counter.left /\ counter'.value = Saturated(counter.value + 1)
      BY <1>2, <1>5, <2>2, <3>2, <3>3
    <3>5. CASE counter.value + 1 > Limit
      <4>1. recent' = recent
        BY <2>1, <3>2, <3>5 DEF OverLimit
      <4>2. Spent(counter') = Spent(counter)
        BY <1>1, <1>2, <2>2, <3>3, <3>4, <3>5 DEF Spent, Saturated
      <4>3. Within(counter', cleared, recent')
        BY <1>4, <2>2, <3>4, <4>1, <4>2 DEF Within
      <4> QED BY <1>6, <2>1, <4>3
    <3>6. CASE ~(counter.value + 1 > Limit)
      <4>1. recent' = [age \in Ages |-> recent[age] + 1]
        BY <2>1, <3>2, <3>6 DEF OverLimit
      <4>2. Spent(counter') = Spent(counter) + 1
        BY <1>1, <1>2, <2>2, <3>3, <3>4, <3>6 DEF Spent, Saturated
      <4>3. \A age \in Ages : recent'[age] = recent[age] + 1 /\ recent[age] \in Nat
        BY <1>1, <4>1
      <4>4. \A age \in Ages : recent'[age] <= Spent(counter') + cleared + Limit
        BY <1>1, <1>3, <1>4, <4>2, <4>3 DEF Within
      <4>5. counter'.left > 0 =>
               \A age \in Ages : age < Window - counter'.left => recent'[age] <= Spent(counter') + cleared
        BY <1>1, <1>3, <1>4, <2>2, <3>4, <4>2, <4>3 DEF Within
      <4>6. Within(counter', cleared, recent')
        BY <4>4, <4>5 DEF Within
      <4> QED BY <1>6, <2>1, <4>6
    <3> QED BY <3>5, <3>6
  <2>3. CASE ~Live(counter)
    <3>1. counted = Entry(1, -1)
      BY <2>3 DEF Increment, Never
    <3>2. Saturated(1) = 1
      BY <1>1 DEF Saturated
    <3>3. counter' = Entry(1, -1) /\ counted.value = 1
      BY <2>1, <3>1, <3>2 DEF Entry
    <3> HIDE DEF counted
    <3>4. Live(counter') /\ counter'.left = -1 /\ counter'.value = 1
      BY <1>5, <3>3
    <3>5. recent' = [age \in Ages |-> recent[age] + 1]
      BY <1>1, <2>1, <3>3 DEF OverLimit
    <3>6. Spent(counter) = 0 /\ Spent(counter') = 1
      BY <1>1, <2>3, <3>4 DEF Spent
    <3>7. Within(counter', cleared, recent')
      BY <1>1, <1>4, <3>4, <3>5, <3>6 DEF Within
    <3> QED BY <1>6, <2>1, <3>7
  <2> QED BY <2>2, <2>3
<1>9. ASSUME ClearCounter PROVE AllowanceInv'
  <2>1. counter' = NoEntry /\ clears' = clears + 1 /\ recent' = recent
    BY <1>9 DEF ClearCounter
  <2>2. ~Live(counter') /\ Spent(counter') = 0
    BY <2>1 DEF Live, Spent
  <2>3. clears' * Limit = cleared + Limit
    BY <1>1, <2>1 DEF cleared
  <2>4. Within(counter', cleared + Limit, recent)
    BY <1>1, <1>3, <1>4, <2>2 DEF Within
  <2> QED BY <2>1, <2>3, <2>4 DEF AllowanceInv
<1>10. ASSUME LimiterTick PROVE AllowanceInv'
  <2>1. /\ counter' = AgeEntry(counter) /\ clears' = clears
        /\ recent' = [age \in Ages |-> IF age = 0 THEN 0 ELSE recent[age - 1]]
    BY <1>10 DEF LimiterTick
  <2>2. \A age \in Ages : /\ age # 0 => age - 1 \in Ages /\ recent'[age] = recent[age - 1]
                          /\ age = 0 => recent'[age] = 0
    BY <1>1, <2>1
  <2>3. \A age \in Ages : recent'[age] <= Spent(counter) + cleared + Limit
    <3> SUFFICES ASSUME NEW age \in Ages PROVE recent'[age] <= Spent(counter) + cleared + Limit
      OBVIOUS
    <3>1. CASE age = 0
      BY <1>1, <1>3, <2>2, <3>1
    <3>2. CASE age # 0
      BY <1>4, <2>2, <3>2 DEF Within
    <3> QED BY <3>1, <3>2
  <2>4. CASE Live(counter) /\ counter.left > 0
    <3>1. counter' = Entry(counter.value, counter.left - 1)
      BY <1>2, <2>1, <2>4 DEF AgeEntry, Live, Entry
    <3>2. counter.left \in 1 .. Window /\ counter.value \in Int
      BY <1>1, <1>2, <2>4 DEF Lefts
    <3>3. counter'.left = counter.left - 1 /\ counter'.value = counter.value /\ (Live(counter') <=> counter.left # 1)
      BY <1>5, <3>1, <3>2
    <3>4. \A age \in Ages : age < Window - counter.left => recent[age] <= Spent(counter) + cleared
      BY <1>4, <2>4 DEF Within
    <3>5. CASE counter.left = 1
      <4>1. Spent(counter') = 0
        BY <3>3, <3>5 DEF Spent
      <4>2. \A age \in Ages : recent'[age] <= cleared + Limit
        <5> SUFFICES ASSUME NEW age \in Ages PROVE recent'[age] <= cleared + Limit
          OBVIOUS
        <5>1. CASE age = 0
          BY <1>1, <2>2, <5>1
        <5>2. CASE age # 0
          <6>1. age - 1 \in Ages /\ age - 1 < Window - counter.left /\ recent'[age] = recent[age - 1]
            BY <1>1, <2>2, <3>5, <5>2
          <6>2. recent[age - 1] <= Spent(counter) + cleared /\ recent[age - 1] \in Nat
            BY <1>1, <3>4, <6>1
          <6> QED BY <1>1, <1>3, <6>1, <6>2
        <5> QED BY <5>1, <5>2
      <4>3. Within(counter', cleared, recent')
        BY <1>1, <3>3, <3>5, <4>1, <4>2 DEF Within
      <4> QED BY <1>6, <2>1, <4>3
    <3>6. CASE counter.left # 1
      <4>1. Spent(counter') = Spent(counter)
        BY <2>4, <3>3, <3>6 DEF Spent
      <4>3. \A age \in Ages : age < Window - (counter.left - 1) => recent'[age] <= Spent(counter) + cleared
        <5> SUFFICES ASSUME NEW age \in Ages, age < Window - (counter.left - 1) PROVE recent'[age] <= Spent(counter) + cleared
          OBVIOUS
        <5>1. CASE age = 0
          BY <1>1, <1>3, <2>2, <5>1
        <5>2. CASE age # 0
          <6>0. age - 1 \in Ages /\ age - 1 < Window - counter.left
            BY <1>1, <3>2, <5>2
          <6>1. age - 1 \in Ages /\ age - 1 < Window - counter.left /\ recent'[age] = recent[age - 1]
            BY <2>2, <5>2, <6>0
          <6> QED BY <3>4, <6>1
        <5> QED BY <5>1, <5>2
      <4>4. Within(counter', cleared, recent')
        BY <2>3, <3>3, <4>1, <4>3 DEF Within
      <4> QED BY <1>6, <2>1, <4>4
    <3> QED BY <3>5, <3>6
  <2>5. CASE ~(Live(counter) /\ counter.left > 0)
    <3>1. counter' = counter
      BY <1>1, <1>2, <2>1, <2>5 DEF AgeEntry, Live
    <3>3. Within(counter', cleared, recent')
      BY <2>5, <2>3, <3>1 DEF Within
    <3> QED BY <1>6, <2>1, <3>3
  <2> QED BY <2>4, <2>5
<1>11. ASSUME NEW r \in Requests, Join(r) \/ WriteDeadline(r) \/ ReadDeadline(r) \/ Outage(r) PROVE AllowanceInv'
  <2>1. counter' = counter /\ recent' = recent /\ clears' = clears
    BY <1>11 DEF Join, WriteDeadline, ReadDeadline, Outage
  <2> QED BY <1>4, <1>6, <2>1
<1>12. ASSUME ClearDeadline \/ UNCHANGED limiterVars PROVE AllowanceInv'
  <2>1. counter' = counter /\ recent' = recent /\ clears' = clears
    BY <1>12 DEF ClearDeadline, limiterVars
  <2> QED BY <1>4, <1>6, <2>1
<1> QED BY <1>7, <1>8, <1>9, <1>10, <1>11, <1>12 DEF LimiterNext

(* In any Window consecutive ticks at most two allowances are spent, and   *)
(* one more for each clear: for every limit, every window and every number *)
(* of requests, wherever they stall in the middle of a hit.                *)
THEOREM AllowancesCorrect ==
    LimiterSpec => []TwoAllowancesAtMost
<1>1. ASSUME LimiterInit PROVE AllowanceInv
  <2>1. /\ counter = NoEntry /\ clears = 0 /\ recent = [age \in 0 .. Window - 1 |-> 0] /\ Limit \in Nat
    BY <1>1, RateConstants DEF LimiterInit
  <2>2. ~Live(counter) /\ Spent(counter) = 0 /\ clears * Limit = 0
    BY <2>1 DEF Live, Spent
  <2> QED BY <2>1, <2>2 DEF AllowanceInv, Within
<1>2. ASSUME RateInv, AllowanceInv PROVE TwoAllowancesAtMost
  <2>1. /\ Limit \in Nat /\ Window \in Nat /\ Window > 0 /\ clears \in Nat /\ clears * Limit \in Nat
        /\ recent \in [0 .. Window - 1 -> Nat]
    BY <1>2, RateConstants DEF RateInv, LimiterTypeOK
  <2>2. Live(counter) => counter.value \in 0 .. Limit + 1
    BY <1>2, LiveCounter
  <2>3. Spent(counter) \in 0 .. Limit
    BY <2>2, SpentBound
  <2>4. Window - 1 \in 0 .. Window - 1
    BY <2>1
  <2>5. recent[Window - 1] <= Spent(counter) + clears * Limit + Limit
    BY <1>2, <2>4 DEF AllowanceInv, Within
  <2>6. (2 + clears) * Limit = clears * Limit + Limit + Limit
    BY <2>1
  <2>7. recent[Window - 1] \in Nat
    BY <2>1, <2>4
  <2> QED BY <2>1, <2>3, <2>5, <2>6, <2>7 DEF TwoAllowancesAtMost
<1>3. RateInv /\ AllowanceInv /\ [LimiterNext]_limiterVars => AllowanceInv'
  BY AllowanceStep DEF RateInv
<1> QED BY <1>1, <1>2, <1>3, RateKept, PTL DEF LimiterSpec

-----------------------------------------------------------------------------
(* What the reservations and UNIQUE_FOR must allow for: a reservation that *)
(* outlasts a live worker's job and a lock that outlasts the job.          *)
WellTimed == ~Outlives /\ ~Overruns

(* Every step of a dispatch keeps the types.                               *)
LEMMA DispatchTypeStep ==
    ASSUME DispatchTypeOK, [DispatchNext]_dispatchVars PROVE DispatchTypeOK'
<1> USE DispatchAssumption DEF DispatchTypeOK, Live
<1>1. ASSUME NEW j \in Jobs, ClaimHeld(j) PROVE DispatchTypeOK'
  BY <1>1 DEF ClaimHeld, Add, Entry
<1>2. ASSUME NEW j \in Jobs, AlreadyQueued(j) PROVE DispatchTypeOK'
  BY <1>2 DEF AlreadyQueued
<1>3. ASSUME NEW j \in Jobs, Push(j) PROVE DispatchTypeOK'
  BY <1>3 DEF Push
<1>4. ASSUME NEW j \in Jobs, PushRefused(j) PROVE DispatchTypeOK'
  BY <1>4 DEF PushRefused
<1>5. ASSUME NEW w \in Workers, NEW j \in Jobs, Reserve(w, j) PROVE DispatchTypeOK'
  BY <1>5 DEF Reserve
<1>6. ASSUME NEW w \in Workers, Settle(w) PROVE DispatchTypeOK'
  BY <1>6 DEF Settle
<1>7. ASSUME NEW w \in Workers, ReleaseJob(w) PROVE DispatchTypeOK'
  BY <1>7 DEF ReleaseJob
<1>8. ASSUME NEW w \in Workers, ReleaseUniqueness(w) PROVE DispatchTypeOK'
  BY <1>8 DEF ReleaseUniqueness
<1>9. ASSUME NEW w \in Workers, CrashWorker(w) PROVE DispatchTypeOK'
  BY <1>9 DEF CrashWorker
<1>10. ASSUME NEW j \in Jobs, CrashDispatcher(j) PROVE DispatchTypeOK'
  BY <1>10 DEF CrashDispatcher
<1>11. ASSUME NEW j \in Jobs, Lapse(j) PROVE DispatchTypeOK'
  BY <1>11 DEF Lapse
<1>12. CASE DispatchTick
  BY <1>12 DEF DispatchTick, AgeEntry
<1>13. CASE UNCHANGED dispatchVars
  BY <1>13 DEF dispatchVars
<1> QED
  BY <1>1, <1>2, <1>3, <1>4, <1>5, <1>6, <1>7, <1>8,
     <1>9, <1>10, <1>11, <1>12, <1>13 DEF DispatchNext

(* The lock, the queue and the workers keep their types.                   *)
THEOREM DispatchTypeCorrect == DispatchSpec => []DispatchTypeOK
<1>1. DispatchInit => DispatchTypeOK
  BY DispatchAssumption DEF DispatchInit, DispatchTypeOK
<1>2. DispatchTypeOK /\ [DispatchNext]_dispatchVars => DispatchTypeOK'
  BY DispatchTypeStep
<1> QED BY <1>1, <1>2, PTL DEF DispatchSpec

-----------------------------------------------------------------------------
(* Every step keeps the lock on what is pending: a claim needs the lock    *)
(* free, so nothing is pending; a release_uniqueness follows the only copy *)
(* of its job; a tick spares the lock of a pending job.                    *)
LEMMA CoverStep ==
    ASSUME WellTimed, DispatchTypeOK, LockCoversPending, [DispatchNext]_dispatchVars
    PROVE  LockCoversPending'
<1> USE DispatchAssumption DEF WellTimed, DispatchTypeOK, LockCoversPending, Pending, Live
<1>1. ASSUME NEW j \in Jobs, ClaimHeld(j) PROVE LockCoversPending'
  BY <1>1 DEF ClaimHeld, Add, Entry
<1>2. ASSUME NEW j \in Jobs, AlreadyQueued(j) PROVE LockCoversPending'
  BY <1>2 DEF AlreadyQueued
<1>3. ASSUME NEW j \in Jobs, Push(j) PROVE LockCoversPending'
  BY <1>3 DEF Push
<1>4. ASSUME NEW j \in Jobs, PushRefused(j) PROVE LockCoversPending'
  BY <1>4 DEF PushRefused
<1>5. ASSUME NEW w \in Workers, NEW j \in Jobs, Reserve(w, j) PROVE LockCoversPending'
  BY <1>5 DEF Reserve
<1>6. ASSUME NEW w \in Workers, Settle(w) PROVE LockCoversPending'
  BY <1>6 DEF Settle
<1>7. ASSUME NEW w \in Workers, ReleaseJob(w) PROVE LockCoversPending'
  BY <1>7 DEF ReleaseJob
<1>8. ASSUME NEW w \in Workers, ReleaseUniqueness(w) PROVE LockCoversPending'
  BY <1>8 DEF ReleaseUniqueness
<1>9. ASSUME NEW w \in Workers, CrashWorker(w) PROVE LockCoversPending'
  BY <1>9 DEF CrashWorker
<1>10. ASSUME NEW j \in Jobs, CrashDispatcher(j) PROVE LockCoversPending'
  BY <1>10 DEF CrashDispatcher
<1>11. ASSUME NEW j \in Jobs, Lapse(j) PROVE LockCoversPending'
  BY <1>11 DEF Lapse
<1>12. CASE DispatchTick
  BY <1>12 DEF DispatchTick, AgeEntry
<1>13. CASE UNCHANGED dispatchVars
  BY <1>13 DEF dispatchVars
<1> QED
  BY <1>1, <1>2, <1>3, <1>4, <1>5, <1>6, <1>7, <1>8,
     <1>9, <1>10, <1>11, <1>12, <1>13 DEF DispatchNext

(* The lock is always the pending job's.                                   *)
LEMMA CoverInductive == WellTimed => (DispatchSpec => [](DispatchTypeOK /\ LockCoversPending))
<1> SUFFICES ASSUME WellTimed PROVE DispatchSpec => [](DispatchTypeOK /\ LockCoversPending)
  OBVIOUS
<1>1. DispatchInit => DispatchTypeOK /\ LockCoversPending
  BY DispatchAssumption DEF DispatchInit, DispatchTypeOK, LockCoversPending, Pending
<1>2. DispatchTypeOK /\ LockCoversPending /\ [DispatchNext]_dispatchVars => (DispatchTypeOK /\ LockCoversPending)'
  BY DispatchTypeStep, CoverStep
<1> QED BY <1>1, <1>2, PTL DEF DispatchSpec

(* Of the dispatches with one unique_id at most one is pending or running, *)
(* whatever is retried, refused or interrupted.                            *)
THEOREM OnePendingCorrect == WellTimed => (DispatchSpec => []OnePending)
<1>1. LockCoversPending => OnePending
  BY DEF LockCoversPending, OnePending
<1> QED BY <1>1, CoverInductive, PTL

(* The force_release of release_uniqueness only ever removes the lock of a *)
(* dispatch that is over.                                                  *)
THEOREM ReleasedWhenOverCorrect == WellTimed => (DispatchSpec => ReleasedWhenOver)
<1> SUFFICES ASSUME WellTimed PROVE DispatchSpec => ReleasedWhenOver
  OBVIOUS
<1> DEFINE Over == \A j \in Jobs : Live(lock) /\ lock.value = j /\ lock' = NoEntry => ~Pending(j)'
<1>1. DispatchTypeOK /\ LockCoversPending /\ (DispatchTypeOK /\ LockCoversPending)' /\ [DispatchNext]_dispatchVars => Over
  BY DEF LockCoversPending, Live
<1>2. DispatchTypeOK /\ LockCoversPending /\ (DispatchTypeOK /\ LockCoversPending)' /\ [DispatchNext]_dispatchVars => [Over]_dispatchVars
  BY <1>1
<1>3. DispatchSpec => [](DispatchTypeOK /\ LockCoversPending)
  BY CoverInductive
<1>4. DispatchSpec => [][DispatchNext]_dispatchVars
  BY PTL DEF DispatchSpec
<1> QED BY <1>2, <1>3, <1>4, PTL DEF ReleasedWhenOver

-----------------------------------------------------------------------------
(* A standing lock stands for something, as long as every push went        *)
(* through and nobody died.                                                *)
LockIsPending ==
    Live(lock) => Pending(lock.value) \/ crashes > 0 \/ \E i \in Jobs : sent[i] = "error"

(* Every step of a queue that keeps jobs preserves it: the dispatch that   *)
(* claims is pending itself, and the lock goes with the worker's job.      *)
LEMMA PendingStep ==
    ASSUME ~Sync, DispatchTypeOK, LockCoversPending, LockIsPending, [DispatchNext]_dispatchVars
    PROVE  LockIsPending'
<1> USE DispatchAssumption DEF DispatchTypeOK, LockCoversPending, LockIsPending, Pending, Live
<1>1. ASSUME NEW j \in Jobs, ClaimHeld(j) PROVE LockIsPending'
  BY <1>1 DEF ClaimHeld, Add, Entry
<1>2. ASSUME NEW j \in Jobs, AlreadyQueued(j) PROVE LockIsPending'
  BY <1>2 DEF AlreadyQueued
<1>3. ASSUME NEW j \in Jobs, Push(j) PROVE LockIsPending'
  BY <1>3 DEF Push
<1>4. ASSUME NEW j \in Jobs, PushRefused(j) PROVE LockIsPending'
  BY <1>4 DEF PushRefused
<1>5. ASSUME NEW w \in Workers, NEW j \in Jobs, Reserve(w, j) PROVE LockIsPending'
  BY <1>5 DEF Reserve
<1>6. ASSUME NEW w \in Workers, Settle(w) PROVE LockIsPending'
  BY <1>6 DEF Settle
<1>7. ASSUME NEW w \in Workers, ReleaseJob(w) PROVE LockIsPending'
  BY <1>7 DEF ReleaseJob
<1>8. ASSUME NEW w \in Workers, ReleaseUniqueness(w) PROVE LockIsPending'
  BY <1>8 DEF ReleaseUniqueness
<1>9. ASSUME NEW w \in Workers, CrashWorker(w) PROVE LockIsPending'
  BY <1>9 DEF CrashWorker
<1>10. ASSUME NEW j \in Jobs, CrashDispatcher(j) PROVE LockIsPending'
  BY <1>10 DEF CrashDispatcher
<1>11. ASSUME NEW j \in Jobs, Lapse(j) PROVE LockIsPending'
  BY <1>11 DEF Lapse
<1>12. CASE DispatchTick
  BY <1>12 DEF DispatchTick, AgeEntry
<1>13. CASE UNCHANGED dispatchVars
  BY <1>13 DEF dispatchVars
<1> QED
  BY <1>1, <1>2, <1>3, <1>4, <1>5, <1>6, <1>7, <1>8,
     <1>9, <1>10, <1>11, <1>12, <1>13 DEF DispatchNext

(* "`Ok(None)` when an identical one is already pending": with a queue     *)
(* that keeps jobs, a dispatch is dropped for another that is pending, as  *)
(* long as no push failed and nobody died.                                 *)
THEOREM DropCorrect == WellTimed /\ ~Sync => (DispatchSpec => UndisturbedDropMeansPending)
<1> SUFFICES ASSUME WellTimed, ~Sync PROVE DispatchSpec => UndisturbedDropMeansPending
  OBVIOUS
<1> DEFINE Inv == DispatchTypeOK /\ LockCoversPending /\ LockIsPending
           Meant == \A j \in Jobs : sent[j] = "new" /\ sent'[j] = "dropped" =>
                       \/ \E i \in Jobs \ {j} : Pending(i)
                       \/ crashes > 0 \/ \E i \in Jobs : sent[i] = "error"
<1>1. DispatchInit => Inv
  BY DispatchAssumption DEF DispatchInit, DispatchTypeOK, LockCoversPending, LockIsPending, Pending, Live
<1>2. Inv /\ [DispatchNext]_dispatchVars => Inv'
  BY DispatchTypeStep, CoverStep, PendingStep
<1>3. Inv /\ [DispatchNext]_dispatchVars => [Meant]_dispatchVars
  <2> SUFFICES ASSUME Inv, DispatchNext, NEW j \in Jobs, sent[j] = "new", sent'[j] = "dropped"
               PROVE  \/ \E i \in Jobs \ {j} : Pending(i)
                      \/ crashes > 0 \/ \E i \in Jobs : sent[i] = "error"
    OBVIOUS
  <2>1. Live(lock)
    BY DEF DispatchNext, DispatchTypeOK, ClaimHeld, AlreadyQueued, Push, PushRefused, Reserve, Settle, ReleaseJob, ReleaseUniqueness,
           CrashWorker, CrashDispatcher, Lapse, DispatchTick
  <2>2. ~Pending(j)
    BY DispatchAssumption DEF LockCoversPending, Pending
  <2>3. lock.value \in Jobs
    BY <2>1, DispatchAssumption DEF DispatchTypeOK, Live
  <2> QED BY <2>1, <2>2, <2>3 DEF LockIsPending
<1> HIDE DEF Inv, Meant
<1>4. DispatchSpec => [][Meant]_dispatchVars
  BY <1>1, <1>2, <1>3, PTL DEF DispatchSpec
<1> QED BY <1>4 DEF UndisturbedDropMeansPending, Meant
=============================================================================
