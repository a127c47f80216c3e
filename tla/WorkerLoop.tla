----------------------------- MODULE WorkerLoop -----------------------------
(***************************************************************************)
(* One run of a queue worker: QueueWorker::run in                          *)
(* crates/rainier-queue/src/worker.rs, with several jobs in flight,        *)
(* queues polled in priority order under limits of their own, broker       *)
(* errors with a backoff, and the ways for a run to end; and what becomes  *)
(* of each attempt: the worker decides between release and fail, the       *)
(* registry's runner (job.rs) about the job's failed hook, and the two ask *)
(* different questions.  A job whose settling fails, or which a run that   *)
(* gives up drops, stays reserved with nobody working on it until the      *)
(* driver hands it out again, to this run or to the next.                  *)
(*                                                                         *)
(* The jobs in flight are futures that the loop itself polls: they advance *)
(* only while it waits for one of them, and not while it waits for the     *)
(* broker or sleeps.                                                       *)
(***************************************************************************)
EXTENDS Integers, Sequences, FiniteSets

CONSTANTS
    Jobs,
    Queues,             \* the queues polled, in order of priority
    QueueOf,            \* the queue of each job
    QueueLimits,        \* most jobs in flight of each queue
    Concurrency,
    MaxJobs,            \* max_jobs; as many as there are jobs for "no limit"
    Options,            \* the settings to check: stop_when_empty, whether there is a max_time,
                        \* and --tries, 0 if it is not given
    MaxAttempts,        \* each job's own TRIES
    BrokerFails,        \* whether a reserve, or a settling, may fail
    MaxConsecutive,     \* max_consecutive_errors
    MaxLapses,          \* bound: a job's reservations that come to nothing
    Failing             \* bound: the jobs whose handler may fail

ASSUME ConstantsAssumption ==
    /\ Queues \in Seq({Queues[i] : i \in 1 .. Len(Queues)})
    /\ QueueOf \in [Jobs -> {Queues[i] : i \in 1 .. Len(Queues)}]
    /\ QueueLimits \in [{Queues[i] : i \in 1 .. Len(Queues)} -> Nat \ {0}]
    /\ MaxAttempts \in [Jobs -> Nat \ {0}]
    /\ {Concurrency, MaxConsecutive} \subseteq Nat \ {0}
    /\ {MaxJobs, MaxLapses} \subseteq Nat
    /\ Options \subseteq [stopWhenEmpty : BOOLEAN, maxTime : BOOLEAN, tries : Nat]
    /\ Failing \subseteq Jobs /\ BrokerFails \in BOOLEAN

VARIABLES
    pc,             \* top, reserving, sleeping, backoff, landing, ended, gave_up
    at,             \* the queue a reserve is about to poll
    job,            \* outside; waiting; in_flight, its handler running; succeeded or erred,
                    \* to be settled; processed; failed; or stuck: reserved by no one
    attempts,       \* the number the driver gives the attempt
    runs,           \* how often the job was handed out (history)
    lapses,         \* how often nothing came of that (history)
    hooks,          \* calls of Job::failed (history)
    cut,            \* jobs whose last attempt ended by timeout, panic or an unreadable payload
    running,        \* the loop's own count of each queue's jobs in flight
    total,          \* stats.total(): jobs processed or failed
    consecutive,    \* consecutive_errors
    stopping,       \* stop was called
    expired,        \* max_time is over
    options

vars == <<pc, at, job, attempts, runs, lapses, hooks, cut, running, total, consecutive,
          stopping, expired, options>>
attempted == <<attempts, runs, lapses, hooks, cut>>

QueueNames == {Queues[i] : i \in 1 .. Len(Queues)}
Settling == {j \in Jobs : job[j] \in {"succeeded", "erred"}}
InFlight == {j \in Jobs : job[j] = "in_flight"} \cup Settling
InFlightOf(q) == {j \in InFlight : QueueOf[j] = q}

Init ==
    /\ pc = "top"
    /\ at = 1
    /\ job = [j \in Jobs |-> "outside"]
    /\ attempts = [j \in Jobs |-> 0]
    /\ runs = [j \in Jobs |-> 0]
    /\ lapses = [j \in Jobs |-> 0]
    /\ hooks = [j \in Jobs |-> 0]
    /\ cut = {}
    /\ running = [q \in QueueNames |-> 0]
    /\ total = 0
    /\ consecutive = 0
    /\ stopping = FALSE
    /\ expired = FALSE
    /\ options \in Options

-----------------------------------------------------------------------------
(* Mutant: only finished jobs count towards max_jobs.                      *)
FinishingByTotal ==
    \/ stopping
    \/ total >= MaxJobs
    \/ expired

Finishing ==
    \/ stopping
    \/ total + Cardinality(InFlight) >= MaxJobs
    \/ expired

(* The top of the loop: break, fill a free slot, or wait for one to land.  *)
Top ==
    /\ pc = "top"
    /\ pc' = CASE Finishing /\ InFlight = {} -> "ended"
               [] ~Finishing /\ Cardinality(InFlight) < Concurrency -> "reserving"
               [] OTHER -> "landing"
    /\ at' = 1
    /\ UNCHANGED <<job, attempted, running, total, consecutive, stopping, expired, options>>

AtLimit(q) == running[q] >= QueueLimits[q]

(* reserve_within, one queue: a waiting job is taken ...                   *)
Take(j) ==
    /\ pc = "reserving" /\ at <= Len(Queues)
    /\ Queues[at] = QueueOf[j]
    /\ ~AtLimit(QueueOf[j])
    /\ job[j] = "waiting"
    /\ job' = [job EXCEPT ![j] = "in_flight"]
    /\ attempts' = [attempts EXCEPT ![j] = @ + 1]
    /\ runs' = [runs EXCEPT ![j] = @ + 1]
    /\ running' = [running EXCEPT ![QueueOf[j]] = @ + 1]
    /\ consecutive' = 0
    /\ pc' = "top"
    /\ cut' = cut \ {j}
    /\ at' = 1
    /\ UNCHANGED <<lapses, hooks, total, stopping, expired, options>>

(* ... and an empty queue, or one at its limit, is passed over.            *)
Skip ==
    /\ pc = "reserving" /\ at <= Len(Queues)
    /\ AtLimit(Queues[at]) \/ \A j \in Jobs : QueueOf[j] = Queues[at] => job[j] # "waiting"
    /\ at' = at + 1
    /\ UNCHANGED <<pc, job, attempted, running, total, consecutive, stopping, expired, options>>

(* No queue had anything.                                                  *)
Nothing ==
    /\ pc = "reserving" /\ at > Len(Queues)
    /\ consecutive' = 0
    /\ pc' = CASE InFlight # {} -> "landing"
               [] InFlight = {} /\ options.stopWhenEmpty -> "ended"
               [] OTHER -> "sleeping"
    /\ at' = 1
    /\ UNCHANGED <<job, attempted, running, total, stopping, expired, options>>

(* Mutant: the idle loop polls again without a look at the stop flag.      *)
WakeDeaf ==
    /\ pc \in {"sleeping", "backoff"}
    /\ pc' = "reserving"
    /\ at' = 1
    /\ UNCHANGED <<job, attempted, running, total, consecutive, stopping, expired, options>>

(* A sleep, or the backoff, is over.                                       *)
Wake ==
    /\ pc \in {"sleeping", "backoff"}
    /\ pc' = "top"
    /\ UNCHANGED <<at, job, attempted, running, total, consecutive, stopping, expired, options>>

Larger(m, n) == IF m > n THEN m ELSE n

(* WorkerOptions::attempts_for: --tries is a floor.                        *)
AttemptsFor(j) == Larger(Larger(MaxAttempts[j], options.tries), 1)

(* JobContext::is_last_attempt: the job's own count, not the worker's.     *)
IsLastAttempt(j) == attempts[j] >= MaxAttempts[j]

(* The futures in flight advance while the loop waits for one of them, on  *)
(* its own or beside the backoff.  A handler is over ...                   *)
HandlerOver(j, outcome) ==
    /\ pc \in {"landing", "backoff"}
    /\ job[j] = "in_flight"
    /\ job' = [job EXCEPT ![j] = outcome]
    /\ UNCHANGED <<pc, at, attempts, runs, lapses, running, total, consecutive,
                   stopping, expired, options>>

HandlerOk(j) ==
    /\ HandlerOver(j, "succeeded")
    /\ UNCHANGED <<hooks, cut>>

(* Mutant: the hook runs after every failed attempt.                       *)
HandlerErrHooking(j) ==
    /\ j \in Failing /\ HandlerOver(j, "erred")
    /\ hooks' = [hooks EXCEPT ![j] = @ + 1]
    /\ UNCHANGED cut

(* ... with Err: the runner calls the hook on what the job believes to be  *)
(* its last attempt ...                                                    *)
HandlerErr(j) ==
    /\ j \in Failing /\ HandlerOver(j, "erred")
    /\ hooks' = [hooks EXCEPT ![j] = IF IsLastAttempt(j) THEN @ + 1 ELSE @]
    /\ UNCHANGED cut

(* ... or without its say: a timeout drops it, it panics, its payload does *)
(* not decode or nobody registered its name.  No hook, unless the timeout  *)
(* or the panic comes while the hook runs.                                 *)
CutShort(j) ==
    /\ j \in Failing /\ HandlerOver(j, "erred")
    /\ cut' = cut \cup {j}
    /\ \/ UNCHANGED hooks
       \/ IsLastAttempt(j) /\ hooks' = [hooks EXCEPT ![j] = @ + 1]

(* Mutant: the allowance is compared for equality.                         *)
SettlementExact(j) ==
    CASE job[j] = "succeeded" -> "processed"
      [] job[j] = "erred" /\ attempts[j] = AttemptsFor(j) -> "failed"
      [] OTHER -> "waiting"

(* What the worker asks of the driver: acknowledge; fail when the attempts *)
(* are used up, release before.                                            *)
Settlement(j) ==
    CASE job[j] = "succeeded" -> "processed"
      [] job[j] = "erred" /\ attempts[j] >= AttemptsFor(j) -> "failed"
      [] OTHER -> "waiting"

(* Mutant: the queue's count is not taken back.                            *)
FinishedUncounted(q) == running

(* finished: the job no longer counts against its queue.                   *)
Finished(q) == [running EXCEPT ![q] = IF @ > 0 THEN @ - 1 ELSE 0]

(* The end of process, then tally: what was asked is done, and a job that  *)
(* was processed or failed for good counts ...                             *)
Settle(j) ==
    /\ pc \in {"landing", "backoff"} /\ j \in Settling
    /\ job' = [job EXCEPT ![j] = Settlement(j)]
    /\ total' = IF Settlement(j) = "waiting" THEN total ELSE total + 1
    /\ running' = Finished(QueueOf[j])
    /\ pc' = "top"
    /\ UNCHANGED <<at, attempted, consecutive, stopping, expired, options>>

MayLapse == \A j \in Jobs : lapses[j] < MaxLapses

(* ... or the call fails: an error is tallied, the job counts for nothing, *)
(* and is done with unheard of, or is still reserved.                      *)
SettleError(j) ==
    /\ BrokerFails
    /\ pc \in {"landing", "backoff"} /\ j \in Settling
    /\ \/ /\ job' = [job EXCEPT ![j] = Settlement(j)]
          /\ UNCHANGED lapses
       \/ /\ MayLapse
          /\ job' = [job EXCEPT ![j] = "stuck"]
          /\ lapses' = [lapses EXCEPT ![j] = @ + 1]
    /\ running' = Finished(QueueOf[j])
    /\ pc' = "top"
    /\ UNCHANGED <<at, attempts, runs, hooks, cut, total, consecutive, stopping, expired, options>>

Land(j) == HandlerOk(j) \/ HandlerErr(j) \/ CutShort(j) \/ Settle(j) \/ SettleError(j)

(* The broker refuses a reserve: the loop backs off ...                    *)
BrokerError ==
    /\ BrokerFails
    /\ pc = "reserving" /\ at <= Len(Queues)
    /\ ~AtLimit(Queues[at])
    /\ consecutive + 1 < MaxConsecutive
    /\ consecutive' = consecutive + 1
    /\ pc' = "backoff"
    /\ at' = 1
    /\ UNCHANGED <<job, attempted, running, total, stopping, expired, options>>

(* ... and at the end of the allowance run returns the error.  The futures *)
(* in flight are dropped with it; a settling that was on its way may still *)
(* be done.                                                                *)
GiveUp ==
    /\ BrokerFails
    /\ pc = "reserving" /\ at <= Len(Queues)
    /\ ~AtLimit(Queues[at])
    /\ consecutive + 1 >= MaxConsecutive
    /\ consecutive' = consecutive + 1
    /\ pc' = "gave_up"
    /\ \E done \in SUBSET Settling :
          /\ InFlight \ done = {} \/ MayLapse
          /\ job' = [j \in Jobs |-> IF j \in done THEN Settlement(j)
                                    ELSE IF j \in InFlight THEN "stuck" ELSE job[j]]
          /\ lapses' = [j \in Jobs |-> IF j \in InFlight \ done THEN lapses[j] + 1 ELSE lapses[j]]
    /\ at' = 1
    /\ UNCHANGED <<attempts, runs, hooks, cut, running, total, stopping, expired, options>>

(* A supervisor starts the worker again, unless it was told to stop: the   *)
(* counts, the error count and the clock of the run begin anew.            *)
Restart ==
    /\ pc \in {"ended", "gave_up"} /\ ~stopping
    /\ pc' = "top"
    /\ running' = [q \in QueueNames |-> 0]
    /\ total' = 0 /\ consecutive' = 0 /\ expired' = FALSE
    /\ UNCHANGED <<at, job, attempted, stopping, options>>

(* The driver hands out again what has been reserved for too long.  Some   *)
(* keep the attempt that came to nothing, in the row (reclaim_expired);    *)
(* the entry XAUTOCLAIM finds in Redis knows nothing of it.                *)
Reclaim(j) ==
    /\ job[j] = "stuck"
    /\ job' = [job EXCEPT ![j] = "waiting"]
    /\ \/ UNCHANGED attempts
       \/ attempts' = [attempts EXCEPT ![j] = @ - 1]
    /\ UNCHANGED <<pc, at, runs, lapses, hooks, cut, running, total, consecutive,
                   stopping, expired, options>>

(* The world: a job is pushed, a signal calls stop, max_time passes.       *)
Push(j) ==
    /\ job[j] = "outside"
    /\ job' = [job EXCEPT ![j] = "waiting"]
    /\ UNCHANGED <<pc, at, attempted, running, total, consecutive, stopping, expired, options>>

Stop ==
    /\ ~stopping
    /\ stopping' = TRUE
    /\ UNCHANGED <<pc, at, job, attempted, running, total, consecutive, expired, options>>

Expire ==
    /\ pc \notin {"ended", "gave_up"}
    /\ options.maxTime /\ ~expired
    /\ expired' = TRUE
    /\ UNCHANGED <<pc, at, job, attempted, running, total, consecutive, stopping, options>>

Next ==
    \/ Top
    \/ \E j \in Jobs : Take(j)
    \/ Skip
    \/ Nothing
    \/ BrokerError
    \/ GiveUp
    \/ Wake
    \/ \E j \in Jobs : Land(j)
    \/ Restart
    \/ \E j \in Jobs : Reclaim(j)
    \/ \E j \in Jobs : Push(j)
    \/ Stop
    \/ Expire

(* The loop goes on, sleeps end, and a job that is polled comes to an end. *)
LoopFairness ==
    WF_vars(Top \/ Nothing \/ Wake \/ (pc = "landing" /\ \E j \in Jobs : Land(j)) \/ Restart)

(* The broker answers every reserve, and not always with an error; what is *)
(* reserved for too long is handed out again.                              *)
BrokerFairness ==
    /\ WF_vars(Skip \/ BrokerError \/ GiveUp \/ \E j \in Jobs : Take(j))
    /\ SF_vars(Skip)
    /\ SF_vars(\E j \in Jobs : Take(j))
    /\ WF_vars(\E j \in Jobs : Reclaim(j))

Spec == Init /\ [][Next]_vars /\ LoopFairness /\ BrokerFairness

(* As Spec, with a broker that may leave a reserve unanswered.             *)
SpecUnreachable == Init /\ [][Next]_vars /\ LoopFairness

-----------------------------------------------------------------------------
JobState == {"outside", "waiting", "in_flight", "succeeded", "erred", "processed", "failed", "stuck"}

(* Type correctness.                                                       *)
TypeOK ==
    /\ pc \in {"top", "reserving", "sleeping", "backoff", "landing", "ended", "gave_up"}
    /\ at \in 1 .. Len(Queues) + 1
    /\ job \in [Jobs -> JobState]
    /\ attempts \in [Jobs -> Nat] /\ runs \in [Jobs -> Nat]
    /\ lapses \in [Jobs -> Nat] /\ hooks \in [Jobs -> Nat]
    /\ cut \subseteq Jobs
    /\ running \in [QueueNames -> Nat]
    /\ total \in Nat
    /\ consecutive \in Nat
    /\ stopping \in BOOLEAN /\ expired \in BOOLEAN 
    /\ options \in [stopWhenEmpty : BOOLEAN, maxTime : BOOLEAN, tries : Nat]

(* The limits hold at every moment, whatever lands, errs or is reserved in *)
(* which order: the worker's concurrency, each queue's own limit, and      *)
(* max_jobs, against which jobs in flight count as well as finished ones.  *)
WithinLimits ==
    /\ Cardinality(InFlight) <= Concurrency
    /\ \A q \in QueueNames : Cardinality(InFlightOf(q)) <= QueueLimits[q]
    /\ total + Cardinality(InFlight) <= MaxJobs

(* The loop's count of a queue is what is in flight: a count that drifts   *)
(* up would shut the queue for the rest of the run.                        *)
RunningIsInFlight ==
    pc # "gave_up" => \A q \in QueueNames : running[q] = Cardinality(InFlightOf(q))

(* "Work already reserved has to be drained either way": a run that is     *)
(* over leaves nothing reserved behind.                                    *)
DrainedEitherWay == [][pc # pc' /\ pc' \in {"ended", "gave_up"} => InFlight = {}]_vars

(* "Fill the free slots before waiting on any of them, so a worker with    *)
(* room does not sit on an idle socket while jobs queue up."               *)
RoomIsFilled ==
    pc = "landing" /\ ~Finishing /\ Cardinality(InFlight) < Concurrency =>
        \A j \in Jobs : job[j] = "waiting" => AtLimit(QueueOf[j])

(* "A broker that cannot be reached does not stop the jobs already         *)
(* running."                                                               *)
RunningJobsLand == \A j \in Jobs : j \in InFlight ~> j \notin InFlight

(* A job is given up when the larger of its own and the worker's number of *)
(* attempts is used up and never before, and it runs no more often than    *)
(* that, but for one run for every reservation that came to nothing:       *)
(* whether the driver counts such a run or forgets it, and although a job  *)
(* can come back with its attempts used up.                                *)
RunsWithinAllowance ==
    \A j \in Jobs :
        /\ runs[j] <= Larger(MaxAttempts[j], options.tries) + lapses[j]
        /\ job[j] = "failed" => attempts[j] >= Larger(MaxAttempts[j], options.tries)

(* The failed hook, although job and worker may disagree and reservations  *)
(* be lost: a job that is given up has had it, unless its last attempt was *)
(* cut short; it runs once and, at most, once more for every attempt the   *)
(* worker grants beyond the job's own number and for every reservation     *)
(* lost; where there is neither, it runs only for a job that is given up.  *)
HookForTheGivenUp ==
    \A j \in Jobs :
        /\ job[j] = "failed" /\ j \notin cut => hooks[j] >= 1
        /\ hooks[j] <= Larger(options.tries - MaxAttempts[j], 0) + 1 + lapses[j]
        /\ hooks[j] > 0 /\ options.tries <= MaxAttempts[j] /\ lapses[j] = 0 =>
              job[j] \in {"erred", "failed"}

(* Job::failed: "Called after the final attempt fails."                    *)
HookAfterFinalAttempt ==
    \A j \in Jobs : job[j] \in {"waiting", "processed", "failed"} =>
        (hooks[j] = IF job[j] = "failed" THEN 1 ELSE 0)

(* A stop, from a signal or from max_time, ends the run.                   *)
StopEnds == (stopping \/ expired) ~> pc \in {"ended", "gave_up"}

(* A job that was pushed is processed or given up in the end, whatever its *)
(* queue's limit and whoever goes before it, although settlings fail and   *)
(* runs give up with jobs in flight, unless the worker is told to stop or  *)
(* its time is over.                                                       *)
EveryJobAnswered ==
    \A j \in Jobs :
        job[j] # "outside" ~> (job[j] \in {"processed", "failed"} \/ stopping \/ expired)
=============================================================================
