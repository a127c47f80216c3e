-------------------------- MODULE WorkerLoopProofs --------------------------
(* Proofs about the worker's loop, for any jobs, queues, limits, numbers of*)
(* attempts and reservations lost: the limits hold, a job runs as often as *)
(* it is allowed to, and the failed hook with it.                          *)
EXTENDS WorkerLoop, FiniteSetTheorems, TLAPS

(* What the constants are, in the form the steps below use.                *)
LEMMA Constants ==
    /\ Len(Queues) \in Nat
    /\ \A i \in 1 .. Len(Queues) : Queues[i] \in QueueNames
    /\ QueueOf \in [Jobs -> QueueNames]
    /\ QueueLimits \in [QueueNames -> Nat]
    /\ MaxAttempts \in [Jobs -> Nat] /\ \A j \in Jobs : MaxAttempts[j] > 0
    /\ Concurrency \in Nat /\ MaxConsecutive \in Nat /\ MaxConsecutive > 0
    /\ MaxJobs \in Nat
<1>1. Len(Queues) \in Nat
  BY ConstantsAssumption
<1>2. \A i \in 1 .. Len(Queues) : Queues[i] \in QueueNames
  BY DEF QueueNames
<1>3. QueueOf \in [Jobs -> QueueNames] /\ QueueLimits \in [QueueNames -> Nat \ {0}]
  BY ConstantsAssumption DEF QueueNames
<1>4. QueueLimits \in [QueueNames -> Nat]
  BY <1>3
<1>5. MaxAttempts \in [Jobs -> Nat] /\ \A j \in Jobs : MaxAttempts[j] > 0
  BY ConstantsAssumption
<1>6. /\ Concurrency \in Nat /\ MaxConsecutive \in Nat /\ MaxConsecutive > 0
      /\ MaxJobs \in Nat
  BY ConstantsAssumption
<1> QED BY <1>1, <1>2, <1>3, <1>4, <1>5, <1>6

(* A count that goes up for one job, or stays.                             *)
LEMMA Counted ==
    ASSUME NEW f \in [Jobs -> Nat], NEW j \in Jobs, NEW g, g = f \/ g = [f EXCEPT ![j] = @ + 1]
    PROVE  g \in [Jobs -> Nat]
  OBVIOUS

(* A count that goes back for one job, where it is not 0.                  *)
LEMMA Forgotten ==
    ASSUME NEW f \in [Jobs -> Nat], NEW j \in Jobs, f[j] > 0, NEW g, g = f \/ g = [f EXCEPT ![j] = @ - 1]
    PROVE  g \in [Jobs -> Nat]
  OBVIOUS

(* What is asked of the driver: one of three things, and fail exactly when *)
(* an attempt failed and the allowance is used up.                         *)
LEMMA SettlementFacts ==
    ASSUME NEW j \in Jobs
    PROVE  /\ Settlement(j) \in {"processed", "failed", "waiting"}
           /\ Settlement(j) = "failed" => job[j] = "erred" /\ attempts[j] >= AttemptsFor(j)
           /\ Settlement(j) = "waiting" /\ j \in Settling =>
                 job[j] = "erred" /\ ~(attempts[j] >= AttemptsFor(j))
           /\ Settlement(j) = "processed" => job[j] = "succeeded"
<1>1. CASE job[j] = "succeeded"
  BY <1>1, Zenon DEF Settlement
<1>2. CASE job[j] = "erred" /\ attempts[j] >= AttemptsFor(j)
  BY <1>2, Zenon DEF Settlement
<1>3. CASE job[j] # "succeeded" /\ ~(job[j] = "erred" /\ attempts[j] >= AttemptsFor(j))
  <2>1. Settlement(j) = "waiting"
    BY <1>3, Zenon DEF Settlement
  <2> QED BY <1>3, <2>1 DEF Settling
<1> QED BY <1>1, <1>2, <1>3

(* The end of a handler, whichever of the three it is.                     *)
LEMMA HandlerFacts ==
    ASSUME TypeOK, NEW j \in Jobs, HandlerOk(j) \/ HandlerErr(j) \/ CutShort(j)
    PROVE  /\ pc \in {"landing", "backoff"} /\ job[j] = "in_flight"
           /\ \E outcome \in {"succeeded", "erred"} : job' = [job EXCEPT ![j] = outcome]
           /\ UNCHANGED <<pc, at, attempts, runs, lapses, running, total, consecutive,
                          stopping, expired, options>>
           /\ hooks' = hooks \/ (attempts[j] >= MaxAttempts[j] /\ hooks' = [hooks EXCEPT ![j] = @ + 1])
           /\ cut \subseteq cut' /\ cut' \subseteq Jobs
           /\ job'[j] = "erred" /\ j \notin cut' /\ attempts[j] >= MaxAttempts[j] => hooks'[j] = hooks[j] + 1
<1>1. CASE HandlerOk(j)
  BY <1>1 DEF HandlerOk, HandlerOver, TypeOK
<1>2. CASE HandlerErr(j)
  BY <1>2 DEF HandlerErr, HandlerOver, IsLastAttempt, TypeOK
<1>3. CASE CutShort(j)
  BY <1>3 DEF CutShort, HandlerOver, IsLastAttempt, TypeOK
<1> QED BY <1>1, <1>2, <1>3

(* The end of a job's processing, whether the driver answers or not.       *)
LEMMA SettleFacts ==
    ASSUME TypeOK, NEW j \in Jobs, Settle(j) \/ SettleError(j)
    PROVE  /\ pc \in {"landing", "backoff"} /\ pc' = "top" /\ j \in Settling
           /\ UNCHANGED <<at, attempts, runs, hooks, cut, consecutive, stopping, expired, options>>
           /\ running' = Finished(QueueOf[j])
           /\ total' \in {total, total + 1}
           /\ \/ job' = [job EXCEPT ![j] = Settlement(j)] /\ lapses' = lapses
              \/ job' = [job EXCEPT ![j] = "stuck"] /\ lapses' = [lapses EXCEPT ![j] = @ + 1]
  BY DEF Settle, SettleError, attempted

(* What giving up makes of the jobs.                                       *)
LEMMA GiveUpFacts ==
    ASSUME TypeOK, GiveUp
    PROVE  /\ pc = "reserving" /\ pc' = "gave_up"
           /\ UNCHANGED <<attempts, runs, hooks, cut, running, total, stopping, expired, options>>
           /\ job' \in [Jobs -> JobState] /\ lapses' \in [Jobs -> Nat]
           /\ \A j \in Jobs :
                 \/ j \notin InFlight /\ job'[j] = job[j] /\ lapses'[j] = lapses[j]
                 \/ j \in InFlight /\ job'[j] = "stuck" /\ lapses'[j] = lapses[j] + 1
                 \/ j \in Settling /\ job'[j] = Settlement(j) /\ lapses'[j] = lapses[j]
<1>1. PICK done \in SUBSET Settling :
         /\ job' = [j \in Jobs |-> IF j \in done THEN Settlement(j)
                                   ELSE IF j \in InFlight THEN "stuck" ELSE job[j]]
         /\ lapses' = [j \in Jobs |-> IF j \in InFlight \ done THEN lapses[j] + 1 ELSE lapses[j]]
  BY DEF GiveUp
<1>2. \A j \in Jobs : Settlement(j) \in JobState
  BY SettlementFacts DEF JobState
<1>3. done \subseteq InFlight
  BY DEF InFlight
<1>4. job' \in [Jobs -> JobState] /\ lapses' \in [Jobs -> Nat]
  BY <1>1, <1>2 DEF TypeOK, JobState
<1>5. ASSUME NEW j \in Jobs
      PROVE  \/ j \notin InFlight /\ job'[j] = job[j] /\ lapses'[j] = lapses[j]
             \/ j \in InFlight /\ job'[j] = "stuck" /\ lapses'[j] = lapses[j] + 1
             \/ j \in Settling /\ job'[j] = Settlement(j) /\ lapses'[j] = lapses[j]
  BY <1>1, <1>3
<1> QED BY <1>4, <1>5 DEF GiveUp

(* A job that is out, or was, has been handed out.                         *)
HandedOut == \A j \in Jobs : job[j] \in {"in_flight", "succeeded", "erred", "stuck"} => attempts[j] > 0

(* A job keeps its number until it is handed out again.                    *)
LEMMA HandedOutStep ==
    ASSUME TypeOK, HandedOut, [Next]_vars
    PROVE  HandedOut'
<1>0. job \in [Jobs -> JobState] /\ attempts \in [Jobs -> Nat]
  BY DEF TypeOK
<1>1. CASE job' = job /\ attempts' = attempts
  BY <1>1 DEF HandedOut
<1>2. ASSUME NEW j \in Jobs, Take(j) PROVE HandedOut'
  <2>1. job' = [job EXCEPT ![j] = "in_flight"] /\ attempts' = [attempts EXCEPT ![j] = @ + 1]
    BY <1>2 DEF Take
  <2> QED BY <1>0, <2>1 DEF HandedOut
<1>3. ASSUME NEW j \in Jobs, HandlerOk(j) \/ HandlerErr(j) \/ CutShort(j) PROVE HandedOut'
  <2>1. PICK outcome \in {"succeeded", "erred"} : job' = [job EXCEPT ![j] = outcome]
    BY <1>3, HandlerFacts
  <2>2. attempts' = attempts /\ job[j] = "in_flight"
    BY <1>3, HandlerFacts
  <2> QED BY <1>0, <2>1, <2>2 DEF HandedOut
<1>4. ASSUME NEW j \in Jobs, Settle(j) \/ SettleError(j) PROVE HandedOut'
  <2>1. PICK outcome \in {"processed", "failed", "waiting", "stuck"} : job' = [job EXCEPT ![j] = outcome]
    BY <1>4, SettleFacts, SettlementFacts
  <2>2. attempts' = attempts /\ job[j] \in {"succeeded", "erred"}
    BY <1>4, SettleFacts DEF Settling
  <2> QED BY <1>0, <2>1, <2>2 DEF HandedOut
<1>5. CASE GiveUp
  BY <1>5, GiveUpFacts, SettlementFacts DEF HandedOut, InFlight, Settling
<1>6. ASSUME NEW j \in Jobs, Push(j) \/ Reclaim(j) PROVE HandedOut'
  <2>1. job' = [job EXCEPT ![j] = "waiting"] /\ \A i \in Jobs \ {j} : attempts'[i] = attempts[i]
    BY <1>0, <1>6 DEF Push, Reclaim, attempted
  <2> QED BY <1>0, <2>1 DEF HandedOut
<1>7. CASE Top \/ Skip \/ Nothing \/ BrokerError \/ Wake \/ Restart \/ Stop \/ Expire \/ UNCHANGED vars
  <2>1. job' = job /\ attempts' = attempts
    BY <1>7, Zenon DEF Top, Skip, Nothing, BrokerError, Wake, Restart, Stop, Expire, vars, attempted
  <2> QED BY <1>1, <2>1
<1> QED BY <1>2, <1>3, <1>4, <1>5, <1>6, <1>7 DEF Next, Land

(* Type correctness is kept by every step of the loop and of the world; a  *)
(* driver that forgets an attempt has one to forget.                       *)
LEMMA TypeStep ==
    ASSUME TypeOK, HandedOut, [Next]_vars
    PROVE  TypeOK'
<1> USE Constants DEF TypeOK, JobState, attempted
<1>1. CASE Top
  <2>1. pc' \in {"ended", "reserving", "landing"}
    BY <1>1, Zenon DEF Top
  <2> QED BY <1>1, <2>1 DEF Top
<1>2. ASSUME NEW j \in Jobs, Take(j) PROVE TypeOK'
  <2>0. /\ job' = [job EXCEPT ![j] = "in_flight"] /\ attempts' = [attempts EXCEPT ![j] = @ + 1]
        /\ runs' = [runs EXCEPT ![j] = @ + 1] /\ running' = [running EXCEPT ![QueueOf[j]] = @ + 1]
        /\ cut' = cut \ {j} /\ at' = 1 /\ pc' = "top" /\ consecutive' = 0
        /\ UNCHANGED <<lapses, hooks, total, stopping, expired, options>>
    BY <1>2 DEF Take
  <2>1. job' \in [Jobs -> JobState] /\ attempts' \in [Jobs -> Nat]
    BY <2>0
  <2>2. runs' \in [Jobs -> Nat] /\ cut' \subseteq Jobs
    BY <2>0
  <2>3. running' \in [QueueNames -> Nat]
    BY <2>0
  <2>5. at' \in 1 .. Len(Queues) + 1 /\ consecutive' \in Nat /\ total' \in Nat
    BY <2>0
  <2>6. /\ lapses' \in [Jobs -> Nat] /\ hooks' \in [Jobs -> Nat]
        /\ options' \in [stopWhenEmpty : BOOLEAN, maxTime : BOOLEAN, tries : Nat]
    BY <2>0
  <2>7. stopping' \in BOOLEAN /\ expired' \in BOOLEAN
    BY <2>0, Zenon
  <2> QED BY <2>0, <2>1, <2>2, <2>3, <2>5, <2>6, <2>7
<1>3. CASE Skip
  BY <1>3 DEF Skip
<1>4. CASE Nothing
  <2>1. pc' \in {"landing", "ended", "sleeping"}
    BY <1>4, Zenon DEF Nothing
  <2> QED BY <1>4, <2>1 DEF Nothing
<1>5. CASE BrokerError
  BY <1>5 DEF BrokerError
<1>6. CASE Wake
  BY <1>6 DEF Wake
<1>7. ASSUME NEW j \in Jobs, HandlerOk(j) \/ HandlerErr(j) \/ CutShort(j) PROVE TypeOK'
  <2>1. PICK outcome \in {"succeeded", "erred"} : job' = [job EXCEPT ![j] = outcome]
    BY <1>7, HandlerFacts
  <2>3. job' \in [Jobs -> JobState]
    BY <2>1
  <2>4. hooks' \in [Jobs -> Nat] /\ cut' \subseteq Jobs
    <3>1. /\ hooks' = hooks \/ hooks' = [hooks EXCEPT ![j] = @ + 1]
          /\ cut' \subseteq Jobs
      BY <1>7, HandlerFacts
    <3>2. hooks' \in [Jobs -> Nat]
      BY <3>1, Counted
    <3> QED BY <3>1, <3>2
  <2>5. UNCHANGED <<pc, at, attempts, runs, lapses, running, total, consecutive, stopping, expired, options>>
    BY <1>7, HandlerFacts
  <2> QED BY <2>3, <2>4, <2>5
<1>8. ASSUME NEW j \in Jobs, Settle(j) \/ SettleError(j) PROVE TypeOK'
  <2>0. /\ total' \in {total, total + 1} /\ running' = Finished(QueueOf[j])
        /\ \/ job' = [job EXCEPT ![j] = Settlement(j)] /\ lapses' = lapses
           \/ job' = [job EXCEPT ![j] = "stuck"] /\ lapses' = [lapses EXCEPT ![j] = @ + 1]
    BY <1>8, SettleFacts
  <2>1. job' \in [Jobs -> JobState] /\ lapses' \in [Jobs -> Nat] /\ total' \in Nat
    <3>1. Settlement(j) \in JobState
      BY SettlementFacts
    <3>2. job' \in [Jobs -> JobState]
      BY <2>0, <3>1
    <3>3. lapses' = lapses \/ lapses' = [lapses EXCEPT ![j] = @ + 1]
      BY <2>0
    <3>4. lapses' \in [Jobs -> Nat]
      BY <3>3, Counted
    <3>5. total' \in Nat
      BY <2>0
    <3> QED BY <3>2, <3>4, <3>5
  <2>2. running' \in [QueueNames -> Nat]
    BY <2>0 DEF Finished
  <2> QED BY <1>8, <2>1, <2>2, SettleFacts
<1>9. CASE GiveUp
  <2>2. /\ job' \in [Jobs -> JobState] /\ lapses' \in [Jobs -> Nat] /\ pc' = "gave_up"
        /\ UNCHANGED <<attempts, runs, hooks, cut, running, total, stopping, expired, options>>
    BY <1>9, GiveUpFacts
  <2>3. at' = 1 /\ consecutive' \in Nat
    BY <1>9 DEF GiveUp
  <2> QED BY <2>2, <2>3
<1>10. CASE Restart
  <2>1. expired' \in BOOLEAN
    BY <1>10, Zenon DEF Restart
  <2> QED BY <1>10, <2>1 DEF Restart
<1>11. ASSUME NEW j \in Jobs, Reclaim(j) PROVE TypeOK'
  <2>1. attempts[j] > 0
    BY <1>11 DEF Reclaim, HandedOut
  <2>2. attempts' = attempts \/ attempts' = [attempts EXCEPT ![j] = @ - 1]
    BY <1>11 DEF Reclaim
  <2>3. attempts' \in [Jobs -> Nat]
    BY <2>1, <2>2, Forgotten
  <2> QED BY <1>11, <2>3 DEF Reclaim
<1>12. ASSUME NEW j \in Jobs, Push(j) PROVE TypeOK'
  BY <1>12 DEF Push
<1>13. CASE Stop
  BY <1>13 DEF Stop
<1>14. CASE Expire
  BY <1>14 DEF Expire
<1>15. CASE UNCHANGED vars
  BY <1>15 DEF vars
<1> QED
  BY <1>1, <1>2, <1>3, <1>4, <1>5, <1>6, <1>7, <1>8, <1>9, <1>10, <1>11, <1>12, <1>13, <1>14, <1>15
  DEF Next, Land

(* The loop's own state and what it keeps of each job keep their types.    *)
THEOREM TypeCorrect == Spec => []TypeOK
<1>1. Init => TypeOK /\ HandedOut
  <2>1. Init => options \in [stopWhenEmpty : BOOLEAN, maxTime : BOOLEAN, tries : Nat]
    BY ConstantsAssumption, Zenon DEF Init
  <2>3. Init => at \in 1 .. Len(Queues) + 1
    BY Constants DEF Init
  <2>4. Init => stopping \in BOOLEAN /\ expired \in BOOLEAN
    BY Zenon DEF Init
  <2> SUFFICES ASSUME Init PROVE TypeOK /\ HandedOut
    OBVIOUS
  <2>5. /\ job \in [Jobs -> JobState]
        /\ attempts \in [Jobs -> Nat] /\ runs \in [Jobs -> Nat]
        /\ lapses \in [Jobs -> Nat] /\ hooks \in [Jobs -> Nat]
        /\ running \in [QueueNames -> Nat]
    BY DEF Init, JobState
  <2>6. total \in Nat /\ consecutive \in Nat /\ cut \subseteq Jobs /\ HandedOut
    BY DEF Init, HandedOut
  <2> QED BY <2>1, <2>3, <2>4, <2>5, <2>6 DEF Init, TypeOK
<1>2. TypeOK /\ HandedOut /\ [Next]_vars => TypeOK' /\ HandedOut'
  BY TypeStep, HandedOutStep
<1> QED BY <1>1, <1>2, PTL DEF Spec

-----------------------------------------------------------------------------
(* The limits, with what the loop knows while it reserves, that there was  *)
(* room when it began and nothing lands before it is done, and that a run  *)
(* that is over has nothing in flight.                                     *)
LimitsInv ==
    /\ IsFiniteSet(InFlight)
    /\ WithinLimits
    /\ RunningIsInFlight
    /\ pc = "reserving" =>
          /\ Cardinality(InFlight) < Concurrency
          /\ total + Cardinality(InFlight) < MaxJobs
    /\ pc \in {"ended", "gave_up"} => InFlight = {}

(* Counts of jobs in flight are numbers.                                   *)
LEMMA InFlightFinite ==
    ASSUME IsFiniteSet(InFlight)
    PROVE  /\ Cardinality(InFlight) \in Nat
           /\ \A q \in QueueNames : IsFiniteSet(InFlightOf(q)) /\ Cardinality(InFlightOf(q)) \in Nat
<1>1. \A q \in QueueNames : InFlightOf(q) \in SUBSET InFlight
  BY DEF InFlightOf
<1>2. \A q \in QueueNames : IsFiniteSet(InFlightOf(q))
  BY <1>1, FS_Subset
<1> QED BY <1>2, FS_CardinalityType

(* A job taken is one more in flight, of its queue and of no other.        *)
LEMMA TakenCounts ==
    ASSUME TypeOK, IsFiniteSet(InFlight), NEW j \in Jobs, j \notin InFlight,
           job' = [job EXCEPT ![j] = "in_flight"]
    PROVE  /\ IsFiniteSet(InFlight')
           /\ Cardinality(InFlight') = Cardinality(InFlight) + 1
           /\ \A q \in QueueNames : Cardinality(InFlightOf(q)') =
                 IF q = QueueOf[j] THEN Cardinality(InFlightOf(q)) + 1 ELSE Cardinality(InFlightOf(q))
<1>1. InFlight' = InFlight \cup {j} /\ j \notin InFlight
  BY DEF InFlight, Settling, TypeOK
<1>2. \A q \in QueueNames : InFlightOf(q)' = IF q = QueueOf[j] THEN InFlightOf(q) \cup {j} ELSE InFlightOf(q)
  BY <1>1 DEF InFlightOf
<1>3. \A q \in QueueNames : j \notin InFlightOf(q)
  BY <1>1 DEF InFlightOf
<1>4. ASSUME NEW q \in QueueNames
      PROVE  Cardinality(InFlightOf(q) \cup {j}) = Cardinality(InFlightOf(q)) + 1
  BY <1>3, InFlightFinite, FS_AddElement
<1> QED BY <1>1, <1>2, <1>4, FS_AddElement

(* A job landed is one less in flight, of its queue and of no other.       *)
LEMMA LandedCounts ==
    ASSUME TypeOK, IsFiniteSet(InFlight), NEW j \in Jobs, j \in InFlight,
           NEW outcome \in {"processed", "failed", "waiting", "stuck"}, job' = [job EXCEPT ![j] = outcome]
    PROVE  /\ IsFiniteSet(InFlight')
           /\ Cardinality(InFlight') = Cardinality(InFlight) - 1
           /\ \A q \in QueueNames : Cardinality(InFlightOf(q)') =
                 IF q = QueueOf[j] THEN Cardinality(InFlightOf(q)) - 1 ELSE Cardinality(InFlightOf(q))
<1>1. InFlight' = InFlight \ {j} /\ j \in InFlight
  BY DEF InFlight, Settling, TypeOK
<1>2. \A q \in QueueNames : InFlightOf(q)' = IF q = QueueOf[j] THEN InFlightOf(q) \ {j} ELSE InFlightOf(q)
  BY <1>1 DEF InFlightOf
<1>3. j \in InFlightOf(QueueOf[j])
  BY <1>1 DEF InFlightOf
<1>4. Cardinality(InFlightOf(QueueOf[j]) \ {j}) = Cardinality(InFlightOf(QueueOf[j])) - 1
  BY <1>3, InFlightFinite, Constants, FS_RemoveElement
<1> QED BY <1>1, <1>2, <1>4, FS_RemoveElement

(* With nothing in flight there is room.                                   *)
LEMMA NoneInFlight ==
    /\ IsFiniteSet({}) /\ Cardinality({}) = 0
    /\ 0 <= Concurrency /\ \A q \in QueueNames : 0 <= QueueLimits[q]
<1>1. \A q \in QueueNames : QueueLimits[q] \in Nat
  BY Constants
<1> QED BY <1>1, FS_EmptySet, Constants

(* A step that changes neither what is in flight nor the counts is nothing *)
(* to the limits, unless it begins to reserve or ends the run.             *)
LEMMA SameInFlight ==
    ASSUME LimitsInv, InFlight' = InFlight, UNCHANGED <<running, total>>,
           \/ pc' = pc
           \/ pc # "gave_up" /\ pc' \notin {"reserving", "ended", "gave_up"}
    PROVE  LimitsInv'
<1>1. \A q \in QueueNames : InFlightOf(q)' = InFlightOf(q)
  BY DEF InFlightOf
<1>2. WithinLimits' /\ IsFiniteSet(InFlight')
  BY <1>1 DEF LimitsInv, WithinLimits
<1>3. RunningIsInFlight'
  BY <1>1 DEF LimitsInv, RunningIsInFlight
<1> QED BY <1>2, <1>3 DEF LimitsInv

(* Every step keeps within the limits.                                     *)
LEMMA LimitsStep ==
    ASSUME TypeOK, LimitsInv, [Next]_vars
    PROVE  LimitsInv'
<1>0. /\ Cardinality(InFlight) \in Nat
      /\ \A q \in QueueNames : Cardinality(InFlightOf(q)) \in Nat
  BY InFlightFinite DEF LimitsInv
<1>1. ASSUME UNCHANGED job PROVE InFlight' = InFlight
  BY <1>1 DEF InFlight, Settling
<1>3. CASE Top
  <2>0. InFlight' = InFlight /\ pc = "top" /\ UNCHANGED <<running, total>>
    BY <1>1, <1>3 DEF Top
  <2>1. CASE pc' = "reserving"
    <3>1. ~Finishing /\ Cardinality(InFlight) < Concurrency
      BY <1>3, <2>1, Zenon DEF Top
    <3>2. total + Cardinality(InFlight) < MaxJobs
      BY <1>0, <3>1, Constants DEF Finishing, TypeOK
    <3> QED BY <2>0, <2>1, <3>1, <3>2 DEF LimitsInv, WithinLimits, RunningIsInFlight, InFlightOf
  <2>2. CASE pc' = "ended"
    <3>1. InFlight = {}
      BY <1>3, <2>2, Zenon DEF Top
    <3> QED BY <2>0, <2>2, <3>1 DEF LimitsInv, WithinLimits, RunningIsInFlight, InFlightOf
  <2>3. pc' \in {"ended", "reserving", "landing"}
    BY <1>3, Zenon DEF Top
  <2> QED BY <2>0, <2>1, <2>2, <2>3, SameInFlight
<1>4. ASSUME NEW j \in Jobs, Take(j) PROVE LimitsInv'
  <2>1. /\ IsFiniteSet(InFlight')
        /\ Cardinality(InFlight') = Cardinality(InFlight) + 1
        /\ \A q \in QueueNames : Cardinality(InFlightOf(q)') =
              IF q = QueueOf[j] THEN Cardinality(InFlightOf(q)) + 1 ELSE Cardinality(InFlightOf(q))
    <3>1. j \notin InFlight /\ job' = [job EXCEPT ![j] = "in_flight"]
      BY <1>4 DEF Take, InFlight, Settling
    <3> QED BY <3>1, TakenCounts DEF LimitsInv
  <2>2. /\ QueueOf[j] \in QueueNames /\ running[QueueOf[j]] < QueueLimits[QueueOf[j]]
        /\ running' = [running EXCEPT ![QueueOf[j]] = @ + 1]
        /\ pc = "reserving" /\ pc' = "top" /\ total' = total
    <3>1. QueueOf[j] \in QueueNames /\ QueueLimits[QueueOf[j]] \in Nat
      BY Constants
    <3>2. running[QueueOf[j]] \in Nat
      BY <3>1 DEF TypeOK
    <3> QED BY <1>4, <3>1, <3>2 DEF Take, AtLimit
  <2>3. Cardinality(InFlight') <= Concurrency /\ total' + Cardinality(InFlight') <= MaxJobs
    <3>1. Concurrency \in Nat /\ MaxJobs \in Nat /\ total \in Nat
      BY Constants DEF TypeOK
    <3>2. Cardinality(InFlight) < Concurrency /\ total + Cardinality(InFlight) < MaxJobs
      BY <2>2 DEF LimitsInv
    <3> QED BY <1>0, <2>1, <2>2, <3>1, <3>2
  <2>4. \A q \in QueueNames : Cardinality(InFlightOf(q)') <= QueueLimits[q] /\ running'[q] = Cardinality(InFlightOf(q)')
    <3> TAKE q \in QueueNames
    <3>1. running[q] = Cardinality(InFlightOf(q)) /\ Cardinality(InFlightOf(q)) <= QueueLimits[q]
      BY <2>2 DEF LimitsInv, WithinLimits, RunningIsInFlight
    <3>2. running' \in [QueueNames -> Nat] /\ running'[q] = IF q = QueueOf[j] THEN running[q] + 1 ELSE running[q]
      BY <2>2 DEF TypeOK
    <3>3. QueueLimits[q] \in Nat /\ Cardinality(InFlightOf(q)) \in Nat
      BY <1>0, Constants
    <3> QED BY <2>1, <2>2, <3>1, <3>2, <3>3
  <2> QED BY <2>1, <2>2, <2>3, <2>4 DEF LimitsInv, WithinLimits, RunningIsInFlight
<1>5. ASSUME NEW j \in Jobs, Settle(j) \/ SettleError(j) PROVE LimitsInv'
  <2>1. PICK outcome \in {"processed", "failed", "waiting", "stuck"} : job' = [job EXCEPT ![j] = outcome]
    BY <1>5, SettleFacts, SettlementFacts
  <2>2. /\ j \in InFlight /\ pc \in {"landing", "backoff"} /\ pc' = "top"
        /\ QueueOf[j] \in QueueNames /\ total' \in {total, total + 1}
        /\ running' = [running EXCEPT ![QueueOf[j]] = IF @ > 0 THEN @ - 1 ELSE 0]
    BY <1>5, SettleFacts, Constants DEF Finished, InFlight
  <2>3. /\ IsFiniteSet(InFlight')
        /\ Cardinality(InFlight') = Cardinality(InFlight) - 1
        /\ \A q \in QueueNames : Cardinality(InFlightOf(q)') =
              IF q = QueueOf[j] THEN Cardinality(InFlightOf(q)) - 1 ELSE Cardinality(InFlightOf(q))
    BY <2>1, <2>2, LandedCounts DEF LimitsInv
  <2>4. /\ Cardinality(InFlight') \in Nat
        /\ \A q \in QueueNames : Cardinality(InFlightOf(q)') \in Nat
    <3>1. \A q \in QueueNames : InFlightOf(q)' \in SUBSET InFlight'
      BY DEF InFlightOf
    <3> QED BY <2>3, <3>1, FS_Subset, FS_CardinalityType
  <2>5. Cardinality(InFlight') <= Concurrency /\ total' + Cardinality(InFlight') <= MaxJobs
    <3>1. Concurrency \in Nat /\ MaxJobs \in Nat /\ total \in Nat
      BY Constants DEF TypeOK
    <3>2. Cardinality(InFlight) <= Concurrency /\ total + Cardinality(InFlight) <= MaxJobs
      BY <2>2 DEF LimitsInv, WithinLimits
    <3> QED BY <1>0, <2>2, <2>3, <2>4, <3>1, <3>2
  <2>6. \A q \in QueueNames : Cardinality(InFlightOf(q)') <= QueueLimits[q] /\ running'[q] = Cardinality(InFlightOf(q)')
    <3> TAKE q \in QueueNames
    <3>1. running[q] = Cardinality(InFlightOf(q)) /\ Cardinality(InFlightOf(q)) <= QueueLimits[q]
      BY <2>2 DEF LimitsInv, WithinLimits, RunningIsInFlight
    <3>2. running'[q] = IF q = QueueOf[j] /\ running[q] > 0 THEN running[q] - 1
                        ELSE IF q = QueueOf[j] THEN 0 ELSE running[q]
      BY <2>2 DEF TypeOK
    <3>3. QueueLimits[q] \in Nat /\ Cardinality(InFlightOf(q)) \in Nat /\ Cardinality(InFlightOf(q)') \in Nat
      BY <1>0, <2>4, Constants
    <3> QED BY <2>3, <3>1, <3>2, <3>3
  <2> QED BY <2>2, <2>3, <2>5, <2>6 DEF LimitsInv, WithinLimits, RunningIsInFlight
<1>6. ASSUME InFlight' = {}, total' \in Nat, total' <= MaxJobs, pc' # "reserving",
             pc' = "gave_up" \/ \A q \in QueueNames : running'[q] = 0
      PROVE  LimitsInv'
  <2>1. \A q \in QueueNames : InFlightOf(q)' = {}
    BY <1>6 DEF InFlightOf
  <2>2. \A q \in QueueNames : Cardinality(InFlightOf(q)') = 0 /\ Cardinality(InFlightOf(q)') <= QueueLimits[q]
    BY <2>1, NoneInFlight
  <2>3. IsFiniteSet(InFlight') /\ Cardinality(InFlight') = 0
    BY <1>6, NoneInFlight
  <2>4. WithinLimits'
    BY <1>6, <2>2, <2>3, NoneInFlight DEF WithinLimits
  <2> QED BY <1>6, <2>2, <2>3, <2>4 DEF LimitsInv, RunningIsInFlight
<1>7. CASE GiveUp
  <2>1. InFlight' = {}
    BY <1>7, GiveUpFacts, SettlementFacts DEF InFlight, Settling
  <2>2. total' = total /\ total \in Nat /\ total <= MaxJobs /\ pc' = "gave_up"
    BY <1>0, <1>7, GiveUpFacts, Constants DEF LimitsInv, WithinLimits, TypeOK
  <2> QED BY <1>6, <2>1, <2>2
<1>8. CASE Restart
  <2>1. InFlight' = {}
    BY <1>1, <1>8 DEF Restart, LimitsInv
  <2> QED BY <1>6, <1>8, <2>1, Constants DEF Restart
<1>9. CASE Nothing
  <2>0. InFlight' = InFlight /\ pc = "reserving" /\ UNCHANGED <<running, total>>
    BY <1>1, <1>9 DEF Nothing
  <2>1. pc' \in {"landing", "ended", "sleeping"} /\ (pc' = "ended" => InFlight = {})
    BY <1>9, Zenon DEF Nothing
  <2>2. CASE pc' = "ended"
    BY <2>0, <2>1, <2>2 DEF LimitsInv, WithinLimits, RunningIsInFlight, InFlightOf
  <2> QED BY <2>0, <2>1, <2>2, SameInFlight
<1>10. CASE BrokerError \/ Wake
  BY <1>1, <1>10, SameInFlight DEF BrokerError, Wake
<1>11. ASSUME NEW j \in Jobs, HandlerOk(j) \/ HandlerErr(j) \/ CutShort(j) PROVE LimitsInv'
  <2>1. InFlight' = InFlight
    BY <1>11, HandlerFacts DEF InFlight, Settling, TypeOK
  <2> QED BY <1>11, <2>1, HandlerFacts, SameInFlight
<1>12. ASSUME NEW j \in Jobs, Push(j) \/ Reclaim(j) PROVE LimitsInv'
  <2>1. InFlight' = InFlight
    BY <1>12 DEF Push, Reclaim, InFlight, Settling, TypeOK
  <2> QED BY <1>12, <2>1, SameInFlight DEF Push, Reclaim
<1>13. CASE Skip \/ Stop \/ Expire \/ UNCHANGED vars
  BY <1>1, <1>13, SameInFlight DEF Skip, Stop, Expire, vars
<1> QED
  BY <1>3, <1>4, <1>5, <1>7, <1>8, <1>9, <1>10, <1>11, <1>12, <1>13 DEF Next, Land

(* However jobs land, err and are reserved, the worker's concurrency, each *)
(* queue's own limit and max_jobs hold at every moment, and the count the  *)
(* loop keeps of a queue is what is in flight.                             *)
THEOREM LimitsCorrect == Spec => [](WithinLimits /\ RunningIsInFlight)
<1>1. Init => LimitsInv
  <2> SUFFICES ASSUME Init PROVE LimitsInv
    OBVIOUS
  <2>1. InFlight = {} /\ \A q \in QueueNames : InFlightOf(q) = {}
    BY DEF Init, InFlight, InFlightOf, Settling
  <2>2. pc = "top" /\ total = 0 /\ \A q \in QueueNames : running[q] = 0
    BY DEF Init
  <2>3. \A q \in QueueNames : Cardinality(InFlightOf(q)) = 0
    BY <2>1, NoneInFlight
  <2>4. IsFiniteSet(InFlight) /\ Cardinality(InFlight) = 0
    BY <2>1, NoneInFlight
  <2>5. WithinLimits
    BY <2>2, <2>3, <2>4, NoneInFlight, Constants DEF WithinLimits
  <2> QED BY <2>2, <2>3, <2>4, <2>5 DEF LimitsInv, RunningIsInFlight
<1>2. TypeOK /\ LimitsInv /\ [Next]_vars => LimitsInv'
  BY LimitsStep
<1>3. LimitsInv => WithinLimits /\ RunningIsInFlight
  BY DEF LimitsInv
<1> QED BY <1>1, <1>2, <1>3, TypeCorrect, PTL DEF Spec

-----------------------------------------------------------------------------
(* attempts_for is the larger of the two allowances.                       *)
LEMMA AttemptsForIsLarger ==
    ASSUME TypeOK
    PROVE  \A j \in Jobs :
              /\ AttemptsFor(j) \in Nat /\ options.tries \in Nat
              /\ MaxAttempts[j] \in Nat /\ MaxAttempts[j] > 0 /\ MaxAttempts[j] <= AttemptsFor(j)
              /\ AttemptsFor(j) = Larger(MaxAttempts[j], options.tries)
              /\ AttemptsFor(j) = MaxAttempts[j] + Larger(options.tries - MaxAttempts[j], 0)
              /\ options.tries <= MaxAttempts[j] => AttemptsFor(j) = MaxAttempts[j]
<1> TAKE j \in Jobs
<1>1. MaxAttempts[j] \in Nat /\ MaxAttempts[j] > 0 /\ options.tries \in Nat
  BY Constants DEF TypeOK
<1> QED BY <1>1 DEF AttemptsFor, Larger

(* What is known of a job that waits, is out, is lost or is over: its runs *)
(* against the driver's count, its allowance and the reservations lost.    *)
Allowed(j) ==
    /\ attempts[j] <= runs[j] /\ runs[j] <= attempts[j] + lapses[j]
    /\ runs[j] <= AttemptsFor(j) + lapses[j]
    /\ job[j] \in {"outside", "waiting"} => runs[j] < AttemptsFor(j) + lapses[j]
    /\ job[j] = "stuck" => runs[j] < AttemptsFor(j) + lapses[j] /\ runs[j] < attempts[j] + lapses[j]
    /\ job[j] = "failed" => attempts[j] >= AttemptsFor(j)

(* And the calls of its hook against its runs: no more than the runs past  *)
(* the job's own number, the one under way excepted.                       *)
Hooked(j) ==
    /\ hooks[j] > 0 => hooks[j] + MaxAttempts[j] <= runs[j] + 1
    /\ hooks[j] > 0 /\ job[j] = "in_flight" => hooks[j] + MaxAttempts[j] <= runs[j]
    /\ job[j] \in {"erred", "failed"} /\ j \notin cut /\ attempts[j] >= MaxAttempts[j] => hooks[j] > 0
    /\ hooks[j] > 0 /\ options.tries <= MaxAttempts[j] /\ lapses[j] = 0 => job[j] \in {"erred", "failed"}

RunsInv == \A j \in Jobs : Allowed(j) /\ Hooked(j)

(* A job that no step touches stays as it was.                             *)
LEMMA Untouched ==
    ASSUME NEW j \in Jobs, Allowed(j), Hooked(j), options' = options,
           job'[j] = job[j], attempts'[j] = attempts[j], runs'[j] = runs[j],
           lapses'[j] = lapses[j], hooks'[j] = hooks[j], j \in cut' <=> j \in cut
    PROVE  Allowed(j)' /\ Hooked(j)'
<1>1. AttemptsFor(j)' = AttemptsFor(j)
  BY DEF AttemptsFor
<1> QED BY <1>1 DEF Allowed, Hooked

(* A job that is settled, or whose settling is lost with its reservation.  *)
LEMMA Settled ==
    ASSUME TypeOK, NEW j \in Jobs, Allowed(j), Hooked(j), options' = options, j \in InFlight,
           attempts'[j] = attempts[j], runs'[j] = runs[j], hooks'[j] = hooks[j], cut' = cut,
           \/ j \in Settling /\ job'[j] = Settlement(j) /\ lapses'[j] = lapses[j]
           \/ job'[j] = "stuck" /\ lapses'[j] = lapses[j] + 1
    PROVE  Allowed(j)' /\ Hooked(j)'
<1>1. AttemptsFor(j)' = AttemptsFor(j)
  BY DEF AttemptsFor
<1>2. /\ attempts[j] \in Nat /\ runs[j] \in Nat /\ hooks[j] \in Nat /\ lapses[j] \in Nat
      /\ AttemptsFor(j) \in Nat /\ MaxAttempts[j] \in Nat /\ MaxAttempts[j] <= AttemptsFor(j)
      /\ options.tries \in Nat
      /\ options.tries <= MaxAttempts[j] => AttemptsFor(j) = MaxAttempts[j]
  BY AttemptsForIsLarger DEF TypeOK
<1>3. CASE job'[j] = "stuck" /\ lapses'[j] = lapses[j] + 1
  <2>1. Allowed(j)'
    BY <1>1, <1>2, <1>3 DEF Allowed
  <2>2. Hooked(j)'
    BY <1>1, <1>2, <1>3 DEF Hooked
  <2> QED BY <2>1, <2>2
<1>4. CASE j \in Settling /\ job'[j] = Settlement(j) /\ lapses'[j] = lapses[j]
  <2>1. \/ job'[j] = "processed" /\ job[j] = "succeeded"
        \/ job'[j] = "failed" /\ job[j] = "erred" /\ attempts[j] >= AttemptsFor(j)
        \/ job'[j] = "waiting" /\ job[j] = "erred" /\ ~(attempts[j] >= AttemptsFor(j))
    BY <1>4, SettlementFacts
  <2>2. Allowed(j)'
    BY <1>1, <1>2, <1>4, <2>1 DEF Allowed
  <2>3. hooks[j] > 0 /\ options.tries <= MaxAttempts[j] /\ lapses[j] = 0 => job'[j] = "failed"
    <3> SUFFICES ASSUME hooks[j] > 0, options.tries <= MaxAttempts[j], lapses[j] = 0
                 PROVE  job'[j] = "failed"
      OBVIOUS
    <3>1. job[j] = "erred" \/ job[j] = "failed"
      BY DEF Hooked
    <3>2. hooks[j] + MaxAttempts[j] <= runs[j] + 1 /\ runs[j] <= attempts[j]
      BY <1>2 DEF Hooked, Allowed
    <3> QED BY <1>2, <2>1, <3>1, <3>2
  <2>4. Hooked(j)'
    BY <1>1, <1>2, <1>4, <2>1, <2>3 DEF Hooked
  <2> QED BY <2>2, <2>4
<1> QED BY <1>3, <1>4

(* Every step keeps runs, attempts and hooks in step.                      *)
LEMMA RunsStep ==
    ASSUME TypeOK, RunsInv, [Next]_vars
    PROVE  RunsInv'
<1>1. ASSUME NEW j \in Jobs
      PROVE  /\ attempts[j] \in Nat /\ runs[j] \in Nat /\ hooks[j] \in Nat /\ lapses[j] \in Nat
             /\ AttemptsFor(j) \in Nat /\ MaxAttempts[j] \in Nat /\ MaxAttempts[j] > 0
             /\ Allowed(j) /\ Hooked(j)
  BY AttemptsForIsLarger DEF TypeOK, RunsInv
<1>2. ASSUME options' = options, NEW j \in Jobs PROVE AttemptsFor(j)' = AttemptsFor(j)
  BY <1>2 DEF AttemptsFor
<1>3. ASSUME NEW j \in Jobs, Take(j) PROVE RunsInv'
  <2>1. /\ job[j] = "waiting" /\ job' = [job EXCEPT ![j] = "in_flight"]
        /\ attempts' = [attempts EXCEPT ![j] = @ + 1] /\ runs' = [runs EXCEPT ![j] = @ + 1]
        /\ cut' = cut \ {j} /\ UNCHANGED <<lapses, hooks, options>>
    BY <1>3 DEF Take
  <2>2. \A i \in Jobs \ {j} : Allowed(i)' /\ Hooked(i)'
    BY <1>1, <2>1, Untouched DEF TypeOK
  <2>3. job'[j] = "in_flight" /\ attempts'[j] = attempts[j] + 1 /\ runs'[j] = runs[j] + 1
    BY <2>1 DEF TypeOK
  <2>4. Allowed(j)'
    BY <1>1, <1>2, <2>1, <2>3 DEF Allowed
  <2>5. Hooked(j)'
    BY <1>1, <1>2, <2>1, <2>3 DEF Hooked
  <2> QED BY <2>2, <2>4, <2>5 DEF RunsInv
<1>4. ASSUME NEW j \in Jobs, HandlerOk(j) \/ HandlerErr(j) \/ CutShort(j) PROVE RunsInv'
  <2>1. /\ job[j] = "in_flight" /\ UNCHANGED <<attempts, runs, lapses, options>>
        /\ hooks' = hooks \/ (attempts[j] >= MaxAttempts[j] /\ hooks' = [hooks EXCEPT ![j] = @ + 1])
        /\ job'[j] = "erred" /\ j \notin cut' /\ attempts[j] >= MaxAttempts[j] => hooks'[j] = hooks[j] + 1
    BY <1>4, HandlerFacts
  <2>2. job'[j] \in {"succeeded", "erred"} /\ \A i \in Jobs \ {j} : job'[i] = job[i]
    BY <1>4, HandlerFacts DEF TypeOK
  <2>3. \A i \in Jobs \ {j} : i \in cut' <=> i \in cut
    BY <1>4 DEF HandlerOk, HandlerErr, CutShort
  <2>4. \A i \in Jobs \ {j} : Allowed(i)' /\ Hooked(i)'
    BY <1>1, <2>1, <2>2, <2>3, Untouched DEF TypeOK
  <2>5. Allowed(j)'
    BY <1>1, <1>2, <2>1, <2>2 DEF Allowed
  <2>6. \/ hooks'[j] = hooks[j]
        \/ attempts[j] >= MaxAttempts[j] /\ hooks'[j] = hooks[j] + 1
    BY <2>1 DEF TypeOK
  <2>7. hooks[j] > 0 => hooks[j] + MaxAttempts[j] <= runs[j]
    BY <1>1, <2>1 DEF Hooked
  <2>8. attempts[j] <= runs[j] /\ runs[j] <= attempts[j] + lapses[j]
    BY <1>1 DEF Allowed
  <2>9. Hooked(j)'
    <3>1. hooks'[j] > 0 => hooks'[j] + MaxAttempts[j] <= runs[j] + 1
      BY <1>1, <2>6, <2>7, <2>8
    <3>2. hooks'[j] > 0 /\ options.tries <= MaxAttempts[j] /\ lapses[j] = 0 => job'[j] = "erred"
      <4>1. hooks[j] > 0 /\ options.tries <= MaxAttempts[j] => lapses[j] # 0
        BY <1>1, <2>1 DEF Hooked
      <4>2. job'[j] = "succeeded" => hooks' = hooks
        BY <1>4, <2>1, <2>2 DEF HandlerOk, HandlerErr, CutShort, HandlerOver, TypeOK
      <4> QED BY <2>2, <4>1, <4>2
    <3>3. job'[j] = "erred" /\ j \notin cut' /\ attempts[j] >= MaxAttempts[j] => hooks'[j] > 0
      BY <1>1, <2>1
    <3> QED BY <2>1, <2>2, <3>1, <3>2, <3>3 DEF Hooked
  <2> QED BY <2>4, <2>5, <2>9 DEF RunsInv
<1>5. ASSUME NEW j \in Jobs, Settle(j) \/ SettleError(j) PROVE RunsInv'
  <2>1. /\ UNCHANGED <<attempts, runs, hooks, cut, options>> /\ j \in Settling
        /\ \/ job' = [job EXCEPT ![j] = Settlement(j)] /\ lapses' = lapses
           \/ job' = [job EXCEPT ![j] = "stuck"] /\ lapses' = [lapses EXCEPT ![j] = @ + 1]
    BY <1>5, SettleFacts
  <2>2. \A i \in Jobs \ {j} : Allowed(i)' /\ Hooked(i)'
    BY <1>1, <2>1, Untouched DEF TypeOK
  <2>3. \/ job'[j] = Settlement(j) /\ lapses'[j] = lapses[j]
        \/ job'[j] = "stuck" /\ lapses'[j] = lapses[j] + 1
    BY <2>1 DEF TypeOK
  <2>4. j \in InFlight
    BY <2>1 DEF InFlight
  <2>5. Allowed(j)' /\ Hooked(j)'
    BY <1>1, <2>1, <2>3, <2>4, Settled
  <2> QED BY <2>2, <2>5 DEF RunsInv
<1>6. CASE GiveUp
  <2>1. /\ UNCHANGED <<attempts, runs, hooks, cut, options>>
        /\ \A j \in Jobs :
              \/ j \notin InFlight /\ job'[j] = job[j] /\ lapses'[j] = lapses[j]
              \/ j \in InFlight /\ job'[j] = "stuck" /\ lapses'[j] = lapses[j] + 1
              \/ j \in Settling /\ job'[j] = Settlement(j) /\ lapses'[j] = lapses[j]
    BY <1>6, GiveUpFacts
  <2>2. Settling \subseteq InFlight
    BY DEF InFlight
  <2>3. ASSUME NEW j \in Jobs PROVE Allowed(j)' /\ Hooked(j)'
    <3>1. CASE job'[j] = job[j] /\ lapses'[j] = lapses[j]
      BY <1>1, <2>1, <3>1, Untouched
    <3>2. CASE j \in InFlight /\ job'[j] = "stuck" /\ lapses'[j] = lapses[j] + 1
      BY <1>1, <2>1, <3>2, Settled
    <3>3. CASE j \in Settling /\ job'[j] = Settlement(j) /\ lapses'[j] = lapses[j]
      BY <1>1, <2>1, <2>2, <3>3, Settled
    <3> QED BY <2>1, <3>1, <3>2, <3>3
  <2> QED BY <2>3 DEF RunsInv
<1>7. ASSUME NEW j \in Jobs, Reclaim(j) PROVE RunsInv'
  <2>1. /\ job[j] = "stuck" /\ job' = [job EXCEPT ![j] = "waiting"]
        /\ attempts' = attempts \/ attempts' = [attempts EXCEPT ![j] = @ - 1]
        /\ UNCHANGED <<runs, lapses, hooks, cut, options>>
    BY <1>7 DEF Reclaim
  <2>2. \A i \in Jobs \ {j} : Allowed(i)' /\ Hooked(i)'
    BY <1>1, <2>1, Untouched DEF TypeOK
  <2>3. job'[j] = "waiting" /\ attempts'[j] \in {attempts[j], attempts[j] - 1}
    BY <2>1 DEF TypeOK
  <2>4. Allowed(j)'
    BY <1>1, <1>2, <2>1, <2>3 DEF Allowed
  <2>5. Hooked(j)'
    BY <1>1, <2>1, <2>3 DEF Hooked
  <2> QED BY <2>2, <2>4, <2>5 DEF RunsInv
<1>8. ASSUME NEW j \in Jobs, Push(j) PROVE RunsInv'
  <2>1. /\ job[j] = "outside" /\ job' = [job EXCEPT ![j] = "waiting"]
        /\ UNCHANGED <<attempts, runs, lapses, hooks, cut, options>>
    BY <1>8 DEF Push, attempted
  <2>2. \A i \in Jobs \ {j} : Allowed(i)' /\ Hooked(i)'
    BY <1>1, <2>1, Untouched DEF TypeOK
  <2>3. job'[j] = "waiting"
    BY <2>1 DEF TypeOK
  <2>4. Allowed(j)' /\ Hooked(j)'
    BY <1>1, <1>2, <2>1, <2>3 DEF Allowed, Hooked
  <2> QED BY <2>2, <2>4 DEF RunsInv
<1>9. CASE Top \/ Skip \/ Nothing \/ BrokerError \/ Wake \/ Restart \/ Stop \/ Expire \/ UNCHANGED vars
  <2>1. UNCHANGED <<job, attempts, runs, lapses, hooks, cut, options>>
    BY <1>9, Zenon DEF Top, Skip, Nothing, BrokerError, Wake, Restart, Stop, Expire, vars, attempted
  <2> QED BY <1>1, <2>1, Untouched DEF RunsInv
<1> QED BY <1>3, <1>4, <1>5, <1>6, <1>7, <1>8, <1>9 DEF Next, Land

(* What holds of every job, at every moment.                               *)
LEMMA RunsAlways == Spec => []RunsInv
<1>1. Init => RunsInv
  <2> SUFFICES ASSUME Init PROVE RunsInv
    OBVIOUS
  <2>1. \A j \in Jobs : /\ job[j] = "outside" /\ attempts[j] = 0 /\ runs[j] = 0
                        /\ lapses[j] = 0 /\ hooks[j] = 0
    BY DEF Init
  <2>2. options.tries \in Nat
    BY ConstantsAssumption DEF Init
  <2>3. \A j \in Jobs : AttemptsFor(j) \in Nat /\ AttemptsFor(j) > 0
    BY <2>2, Constants DEF AttemptsFor, Larger
  <2> QED BY <2>1, <2>3 DEF RunsInv, Allowed, Hooked
<1>2. TypeOK /\ RunsInv /\ [Next]_vars => RunsInv'
  BY RunsStep
<1> QED BY <1>1, <1>2, TypeCorrect, PTL DEF Spec

(* A job is given up when the larger of its own and the worker's number of *)
(* attempts is used up, and it runs no more often than that and once for   *)
(* every reservation that came to nothing, whichever driver hands it out   *)
(* again and whether or not that counts the attempt.                       *)
THEOREM AllowanceCorrect == Spec => []RunsWithinAllowance
<1>1. TypeOK /\ RunsInv => RunsWithinAllowance
  BY AttemptsForIsLarger DEF RunsInv, Allowed, RunsWithinAllowance
<1> QED BY <1>1, TypeCorrect, RunsAlways, PTL

(* A job that is given up has had its hook, unless its last attempt was    *)
(* cut short; the hook runs once, and again at most for every attempt past *)
(* the job's own number and every reservation lost; and without these only *)
(* for a job that is given up.                                             *)
THEOREM HookCorrect == Spec => []HookForTheGivenUp
<1>1. ASSUME TypeOK, RunsInv PROVE HookForTheGivenUp
  <2> SUFFICES ASSUME NEW j \in Jobs
               PROVE  /\ job[j] = "failed" /\ j \notin cut => hooks[j] >= 1
                      /\ hooks[j] <= Larger(options.tries - MaxAttempts[j], 0) + 1 + lapses[j]
                      /\ hooks[j] > 0 /\ options.tries <= MaxAttempts[j] /\ lapses[j] = 0 =>
                            job[j] \in {"erred", "failed"}
    BY DEF HookForTheGivenUp
  <2>1. Allowed(j) /\ Hooked(j)
    BY <1>1 DEF RunsInv
  <2>2. /\ attempts[j] \in Nat /\ runs[j] \in Nat /\ hooks[j] \in Nat /\ lapses[j] \in Nat
        /\ AttemptsFor(j) \in Nat /\ MaxAttempts[j] \in Nat /\ MaxAttempts[j] <= AttemptsFor(j)
        /\ AttemptsFor(j) = MaxAttempts[j] + Larger(options.tries - MaxAttempts[j], 0)
    BY <1>1, AttemptsForIsLarger DEF TypeOK
  <2>3. Larger(options.tries - MaxAttempts[j], 0) \in Nat
    BY <1>1, AttemptsForIsLarger DEF Larger
  <2>4. job[j] = "failed" /\ j \notin cut => hooks[j] >= 1
    BY <2>1, <2>2 DEF Allowed, Hooked
  <2>5. hooks[j] <= Larger(options.tries - MaxAttempts[j], 0) + 1 + lapses[j]
    <3>1. hooks[j] > 0 => hooks[j] + MaxAttempts[j] <= runs[j] + 1
      BY <2>1 DEF Hooked
    <3>2. runs[j] <= AttemptsFor(j) + lapses[j]
      BY <2>1 DEF Allowed
    <3> QED BY <2>2, <2>3, <3>1, <3>2
  <2> QED BY <2>1, <2>4, <2>5 DEF Hooked
<1> QED BY <1>1, TypeCorrect, RunsAlways, PTL
=============================================================================
