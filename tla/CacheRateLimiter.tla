-------------------------- MODULE CacheRateLimiter --------------------------
(***************************************************************************)
(* One rate-limited key kept in a cache                                    *)
(* (crates/rainier-cache/src/rate_limit.rs), hit by concurrent requests    *)
(* through ThrottleRequests (crates/rainier-middleware/src/builtin.rs) and *)
(* cleared, as a login that succeeds does.                                 *)
(*                                                                         *)
(* A hit is three trips to the cache: add the counter, write or read the   *)
(* deadline, increment.  A clear is two.  One action is one trip.  The     *)
(* deadline is a wall-clock instant; here it is the ticks until then.      *)
(***************************************************************************)
EXTENDS CacheStore

CONSTANTS
    Requests,       \* bound: request slots, each serves one request per tick
    Limit,          \* max_attempts
    Window,         \* ticks of a window
    MaxClears,      \* bound: calls of clear in a behaviour
    Unknown         \* no deadline to read

ASSUME LimiterAssumption ==
    /\ Limit \in Nat \ {0} /\ Window \in Nat \ {0}
    /\ MaxClears \in Nat
    /\ Unknown \notin Int
    /\ NoEntry \notin [value: Int, left: Int]

VARIABLES
    counter,        \* the entry under rate:<key>
    deadline,       \* the entry under rate:<key>:until
    step,           \* where each request is
    endsAt,         \* the instant its hit will report
    clearing,       \* whether a clear has made its first trip
    clears,         \* clears so far
    recent,         \* requests the count let through in this tick and so many before it
    crossed         \* history: a tick or a clear fell into the middle of a hit

limiterVars == <<counter, deadline, step, endsAt, clearing, clears, recent, crossed>>

MidHit == {"opened", "joined", "counting"}
Done == {"idle", "allowed", "refused", "failed"}

(* Only "more than the limit" is ever asked of a count.                    *)
Saturated(n) == IF n > Limit THEN Limit + 1 ELSE n

LimiterInit ==
    /\ counter = NoEntry
    /\ deadline = NoEntry
    /\ step = [r \in Requests |-> "idle"]
    /\ endsAt = [r \in Requests |-> Unknown]
    /\ clearing = FALSE
    /\ clears = 0
    /\ recent = [age \in 0 .. Window - 1 |-> 0]
    /\ crossed = FALSE

Hitting == \E r \in Requests : step[r] \in MidHit

-----------------------------------------------------------------------------
(* Mutant: put instead of add, every hit starts the window again.          *)
OpenAlways(r) ==
    /\ step[r] = "idle"
    /\ counter' = Entry(IF Live(counter) THEN counter.value ELSE 0, Window)
    /\ step' = [step EXCEPT ![r] = "opened"]
    /\ crossed' = (crossed \/ clearing)
    /\ UNCHANGED <<deadline, endsAt, clearing, clears, recent>>

(* Mutant: the counter is stored without a TTL.                            *)
OpenForever(r) ==
    /\ step[r] = "idle"
    /\ ~Live(counter)
    /\ counter' = Add(counter, 0, Never)
    /\ step' = [step EXCEPT ![r] = "opened"]
    /\ crossed' = (crossed \/ clearing)
    /\ UNCHANGED <<deadline, endsAt, clearing, clears, recent>>

(* hit, first trip: add answers true, the window is ours to date.          *)
Open(r) ==
    /\ step[r] = "idle"
    /\ ~Live(counter)
    /\ counter' = Add(counter, 0, Window)
    /\ step' = [step EXCEPT ![r] = "opened"]
    /\ crossed' = (crossed \/ clearing)
    /\ UNCHANGED <<deadline, endsAt, clearing, clears, recent>>

(* hit, first trip: add answers false.                                     *)
Join(r) ==
    /\ step[r] = "idle"
    /\ Live(counter)
    /\ step' = [step EXCEPT ![r] = "joined"]
    /\ crossed' = (crossed \/ clearing)
    /\ UNCHANGED <<counter, deadline, endsAt, clearing, clears, recent>>

(* hit, second trip of the opener: add the deadline.  Its answer, and an   *)
(* error, are ignored.                                                     *)
WriteDeadline(r) ==
    /\ step[r] = "opened"
    /\ deadline' \in {Add(deadline, Window, Window), deadline}
    /\ endsAt' = [endsAt EXCEPT ![r] = Window]
    /\ step' = [step EXCEPT ![r] = "counting"]
    /\ UNCHANGED <<counter, clearing, clears, recent, crossed>>

(* Mutant: a missing deadline reads as "now".                              *)
ReadDeadlineOrNow(r) ==
    /\ step[r] = "joined"
    /\ endsAt' = [endsAt EXCEPT ![r] = IF Live(deadline) THEN deadline.value ELSE 0]
    /\ deadline' = Reap(deadline)
    /\ step' = [step EXCEPT ![r] = "counting"]
    /\ UNCHANGED <<counter, clearing, clears, recent, crossed>>

(* hit, second trip of the others.                                         *)
ReadDeadline(r) ==
    /\ step[r] = "joined"
    /\ endsAt' = [endsAt EXCEPT ![r] = IF Live(deadline) THEN deadline.value ELSE Unknown]
    /\ deadline' = Reap(deadline)
    /\ step' = [step EXCEPT ![r] = "counting"]
    /\ UNCHANGED <<counter, clearing, clears, recent, crossed>>

(* Mutant: off by one.                                                     *)
OverLimitByOne(count) == count > Limit + 1

OverLimit(count) == count > Limit

(* hit, third trip: increment, whatever became of the counter meanwhile;   *)
(* ThrottleRequests answers 429 above the limit and runs the rest below.   *)
Count(r) ==
    LET counted == Increment(counter, 1)
        refused == OverLimit(counted.value)
    IN /\ step[r] = "counting"
       /\ counter' = [counted EXCEPT !.value = Saturated(@)]
       /\ step' = [step EXCEPT ![r] = IF refused THEN "refused" ELSE "allowed"]
       /\ recent' = IF refused THEN recent ELSE [age \in 0 .. Window - 1 |-> recent[age] + 1]
       /\ UNCHANGED <<deadline, endsAt, clearing, clears, crossed>>

(* An error from a trip, or the client gone in the middle of it: nothing   *)
(* more happens to the cache.  On an error ThrottleRequests fails open.    *)
Outage(r) ==
    /\ step[r] \in MidHit
    /\ step' = [step EXCEPT ![r] = "failed"]
    /\ UNCHANGED <<counter, deadline, endsAt, clearing, clears, recent, crossed>>

(* remaining: what resets_in says at the end of the hit.                   *)
Remaining(r) == IF endsAt[r] = Unknown THEN Window ELSE endsAt[r]

(* clear, first and second trip.                                           *)
ClearCounter ==
    /\ ~clearing /\ clears < MaxClears
    /\ counter' = NoEntry
    /\ clearing' = TRUE
    /\ clears' = clears + 1
    /\ crossed' = (crossed \/ Hitting)
    /\ UNCHANGED <<deadline, step, endsAt, recent>>

ClearDeadline ==
    /\ clearing
    /\ deadline' = NoEntry
    /\ clearing' = FALSE
    /\ UNCHANGED <<counter, step, endsAt, clears, recent, crossed>>

(* An instant comes a tick closer, down to "now" (saturating_sub).         *)
Closer(instant) ==
    IF instant \in {Unknown, 0} THEN instant ELSE instant - 1

LimiterTick ==
    /\ counter' = AgeEntry(counter)
    /\ deadline' = IF deadline = NoEntry THEN NoEntry
                   ELSE [AgeEntry(deadline) EXCEPT !.value = Closer(@)]
    /\ endsAt' = [r \in Requests |-> Closer(endsAt[r])]
    /\ recent' = [age \in 0 .. Window - 1 |-> IF age = 0 THEN 0 ELSE recent[age - 1]]
    /\ step' = [r \in Requests |-> IF step[r] \in Done THEN "idle" ELSE step[r]]
    /\ crossed' = (crossed \/ Hitting)
    /\ UNCHANGED <<clearing, clears>>

LimiterNext ==
    \/ \E r \in Requests : Open(r)
    \/ \E r \in Requests : Join(r)
    \/ \E r \in Requests : WriteDeadline(r)
    \/ \E r \in Requests : ReadDeadline(r)
    \/ \E r \in Requests : Count(r)
    \/ \E r \in Requests : Outage(r)
    \/ ClearCounter
    \/ ClearDeadline
    \/ LimiterTick

(* A hit goes on, and time passes.                                         *)
LimiterFairness ==
    /\ \A r \in Requests : WF_limiterVars(WriteDeadline(r) \/ ReadDeadline(r) \/ Count(r))
    /\ WF_limiterVars(ClearDeadline)
    /\ SF_limiterVars(LimiterTick)

LimiterSpec == LimiterInit /\ [][LimiterNext]_limiterVars /\ LimiterFairness

-----------------------------------------------------------------------------
Instants == 0 .. Window
Entries(values) == [value: values, left: Instants \cup {Never}] \cup {NoEntry}

(* Type correctness.                                                       *)
LimiterTypeOK ==
    /\ counter \in Entries(0 .. Limit + 1)
    /\ deadline \in Entries(Instants)
    /\ step \in [Requests -> MidHit \cup Done]
    /\ endsAt \in [Requests -> Instants \cup {Unknown}]
    /\ clearing \in BOOLEAN
    /\ clears \in 0 .. MaxClears
    /\ recent \in [0 .. Window - 1 -> Nat]
    /\ crossed \in BOOLEAN

(* The boundary effect of a fixed window and no more than it: in any       *)
(* Window consecutive ticks at most two allowances are spent ("a caller    *)
(* can spend a full window's allowance either side of a reset"), and one   *)
(* more for each clear, even by requests that stall in the middle of a     *)
(* hit.                                                                    *)
TwoAllowancesAtMost ==
    recent[Window - 1] <= (2 + clears) * Limit

(* "A caller cannot hold a window open by continuing to knock": while the  *)
(* counter lives its expiry only comes closer.                             *)
WindowAnchored ==
    [][Live(counter) /\ Live(counter)' /\ counter.left > 0 =>
          counter'.left \in {counter.left, counter.left - 1}]_limiterVars

(* "`retry-after` has to say something true": unless a tick or a clear     *)
(* fell into the middle of a hit, a refused request that comes back after  *)
(* resets_in finds the window that refused it over.                        *)
RetryAfterTrue ==
    [][\A r \in Requests :
          step[r] = "counting" /\ step'[r] = "refused" /\ ~crossed =>
              Remaining(r) >= counter'.left]_limiterVars

(* "A fixed window needs the counter to expire on its own": a window ends  *)
(* although requests keep coming ...                                       *)
WindowExpires == Live(counter) ~> ~Live(counter)

(* ... which is so unless a tick or a clear fell into the middle of a hit. *)
UncrossedWindowExpires == Live(counter) ~> ~Live(counter) \/ crossed

(* The two keys together are a fixed window, in which an opener that gives *)
(* up before its increment leaves a shorter one to the next: up to the     *)
(* first tick or clear in the middle of a hit, every step is one of        *)
(* FixedWindow or leaves the window as it is.                              *)
Kept == IF Live(counter) /\ counter.value > 0
        THEN [count |-> counter.value, left |-> counter.left]
        ELSE [count |-> 0, left |-> 0]
F == INSTANCE FixedWindow WITH Lengths <- 1 .. Window, window <- Kept
FixedWindowRefined == F!Init /\ [][~crossed' => [F!Next]_Kept]_limiterVars
=============================================================================
