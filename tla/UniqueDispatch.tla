--------------------------- MODULE UniqueDispatch ---------------------------
(***************************************************************************)
(* Unique jobs, end to end: PendingDispatch::send claims a lock before it  *)
(* pushes (crates/rainier-queue/src/manager.rs), the queue hands the job   *)
(* to workers, and the worker gives the lock back when the job is over     *)
(* (crates/rainier-queue/src/worker.rs, release_uniqueness).               *)
(*                                                                         *)
(* All the jobs here have the same unique_id, so there is one lock.  The   *)
(* queue is what the Queue port promises and no more: a reserved job comes *)
(* back when its reservation lapses.  DatabaseQueue has the details.       *)
(***************************************************************************)
EXTENDS CacheStore

CONSTANTS
    Jobs,           \* dispatches of jobs with one unique_id
    Workers,
    NoJob,          \* a worker's, when it has none
    UniqueFor,      \* ticks: UNIQUE_FOR
    MaxAttempts,    \* attempts a job gets
    Sync,           \* whether the queue is SyncQueue
    Refusals,       \* whether the backend may refuse a push
    Outlives,       \* whether a job may outlive UNIQUE_FOR
    Overruns,       \* whether a reservation may lapse under a live worker
    MaxCrashes      \* bound: crashes of workers and dispatchers

ASSUME DispatchAssumption ==
    /\ UniqueFor \in Nat \ {0} /\ MaxAttempts \in Nat \ {0}
    /\ {Sync, Refusals, Outlives, Overruns} \subseteq BOOLEAN
    /\ MaxCrashes \in Nat
    /\ NoJob \notin Jobs
    /\ NoEntry \notin [value: Jobs, left: Int]

VARIABLES
    lock,           \* the entry under queue:unique:<name>:<id>
    sent,           \* how far each dispatch is, or what it answered
    queue,          \* where the queue has each job: none, waiting, reserved
    attempts,       \* attempts of each job so far
    work,           \* each worker's job
    progress,       \* idle, running, or settled: uniqueness still to release
    crashes

dispatchVars == <<lock, sent, queue, attempts, work, progress, crashes>>

DispatchInit ==
    /\ lock = NoEntry
    /\ sent = [j \in Jobs |-> "new"]
    /\ queue = [j \in Jobs |-> "none"]
    /\ attempts = [j \in Jobs |-> 0]
    /\ work = [w \in Workers |-> NoJob]
    /\ progress = [w \in Workers |-> "idle"]
    /\ crashes = 0

-----------------------------------------------------------------------------
(* Mutant: the claim has no TTL.                                           *)
ClaimForever(j) ==
    /\ sent[j] = "new"
    /\ ~Live(lock)
    /\ lock' = Add(lock, j, Never)
    /\ sent' = [sent EXCEPT ![j] = "claimed"]
    /\ UNCHANGED <<queue, attempts, work, progress, crashes>>

(* send: the destination resolves, then Claim::Held.                       *)
ClaimHeld(j) ==
    /\ sent[j] = "new"
    /\ ~Live(lock)
    /\ lock' = Add(lock, j, UniqueFor)
    /\ sent' = [sent EXCEPT ![j] = "claimed"]
    /\ UNCHANGED <<queue, attempts, work, progress, crashes>>

(* send: Claim::AlreadyQueued, answered Ok(None).                          *)
AlreadyQueued(j) ==
    /\ sent[j] = "new"
    /\ Live(lock)
    /\ sent' = [sent EXCEPT ![j] = "dropped"]
    /\ UNCHANGED <<lock, queue, attempts, work, progress, crashes>>

(* push_to succeeds and the guard is kept.  SyncQueue has then run the job *)
(* already.                                                                *)
Push(j) ==
    /\ sent[j] = "claimed"
    /\ sent' = [sent EXCEPT ![j] = "queued"]
    /\ queue' = IF Sync THEN queue ELSE [queue EXCEPT ![j] = "waiting"]
    /\ UNCHANGED <<lock, attempts, work, progress, crashes>>

(* push_to fails: the error is returned and the guard dropped, which       *)
(* releases nothing.  With SyncQueue this is a job that failed.            *)
PushRefused(j) ==
    /\ Refusals
    /\ sent[j] = "claimed"
    /\ sent' = [sent EXCEPT ![j] = "error"]
    /\ UNCHANGED <<lock, queue, attempts, work, progress, crashes>>

Reserve(w, j) ==
    /\ progress[w] = "idle"
    /\ queue[j] = "waiting"
    /\ queue' = [queue EXCEPT ![j] = "reserved"]
    /\ attempts' = [attempts EXCEPT ![j] = IF @ < MaxAttempts THEN @ + 1 ELSE @]
    /\ work' = [work EXCEPT ![w] = j]
    /\ progress' = [progress EXCEPT ![w] = "running"]
    /\ UNCHANGED <<lock, sent, crashes>>

(* The handler succeeded and the job is acknowledged, or its last attempt  *)
(* failed and it moved to the failed store: either way it leaves the queue.*)
Settle(w) ==
    /\ progress[w] = "running"
    /\ queue' = [queue EXCEPT ![work[w]] = "none"]
    /\ progress' = [progress EXCEPT ![w] = "settled"]
    /\ UNCHANGED <<lock, sent, attempts, work, crashes>>

(* Mutant: the lock is released together with a job that will be retried.  *)
ReleaseAndUnlock(w) ==
    /\ progress[w] = "running"
    /\ attempts[work[w]] < MaxAttempts
    /\ queue' = [queue EXCEPT ![work[w]] = IF @ = "none" THEN @ ELSE "waiting"]
    /\ lock' = NoEntry
    /\ work' = [work EXCEPT ![w] = NoJob]
    /\ progress' = [progress EXCEPT ![w] = "idle"]
    /\ UNCHANGED <<sent, attempts, crashes>>

(* handle_failure with attempts left: back to the queue, lock kept.        *)
ReleaseJob(w) ==
    /\ progress[w] = "running"
    /\ attempts[work[w]] < MaxAttempts
    /\ queue' = [queue EXCEPT ![work[w]] = IF @ = "none" THEN @ ELSE "waiting"]
    /\ work' = [work EXCEPT ![w] = NoJob]
    /\ progress' = [progress EXCEPT ![w] = "idle"]
    /\ UNCHANGED <<lock, sent, attempts, crashes>>

(* Mutant: the lock is left to its TTL.                                    *)
KeepUniqueness(w) ==
    /\ progress[w] = "settled"
    /\ work' = [work EXCEPT ![w] = NoJob]
    /\ progress' = [progress EXCEPT ![w] = "idle"]
    /\ UNCHANGED <<lock, sent, queue, attempts, crashes>>

(* release_uniqueness: force_release, whoever's the lock is by now.        *)
ReleaseUniqueness(w) ==
    /\ progress[w] = "settled"
    /\ lock' = NoEntry
    /\ work' = [work EXCEPT ![w] = NoJob]
    /\ progress' = [progress EXCEPT ![w] = "idle"]
    /\ UNCHANGED <<sent, queue, attempts, crashes>>

(* A worker dies, or the cache does not answer its release_uniqueness.     *)
CrashWorker(w) ==
    /\ crashes < MaxCrashes
    /\ progress[w] # "idle"
    /\ crashes' = crashes + 1
    /\ work' = [work EXCEPT ![w] = NoJob]
    /\ progress' = [progress EXCEPT ![w] = "idle"]
    /\ UNCHANGED <<lock, sent, queue, attempts>>

(* A dispatching process dies between its claim and its push.              *)
CrashDispatcher(j) ==
    /\ crashes < MaxCrashes
    /\ sent[j] = "claimed"
    /\ crashes' = crashes + 1
    /\ sent' = [sent EXCEPT ![j] = "error"]
    /\ UNCHANGED <<lock, queue, attempts, work, progress>>

(* The queue takes a reserved job back.                                    *)
Lapse(j) ==
    /\ queue[j] = "reserved"
    /\ Overruns \/ \A w \in Workers : work[w] # j
    /\ queue' = [queue EXCEPT ![j] = "waiting"]
    /\ UNCHANGED <<lock, sent, attempts, work, progress, crashes>>

(* Dispatched and not over: being sent, in the queue, or with a worker.    *)
Pending(j) ==
    \/ sent[j] = "claimed"
    \/ queue[j] # "none"
    \/ \E w \in Workers : work[w] = j

DispatchTick ==
    /\ Live(lock)
    /\ Outlives \/ lock.left # 1 \/ ~Pending(lock.value)
    /\ lock' = AgeEntry(lock)
    /\ UNCHANGED <<sent, queue, attempts, work, progress, crashes>>

DispatchNext ==
    \/ \E j \in Jobs : ClaimHeld(j)
    \/ \E j \in Jobs : AlreadyQueued(j)
    \/ \E j \in Jobs : Push(j)
    \/ \E j \in Jobs : PushRefused(j)
    \/ \E w \in Workers, j \in Jobs : Reserve(w, j)
    \/ \E w \in Workers : Settle(w)
    \/ \E w \in Workers : ReleaseJob(w)
    \/ \E w \in Workers : ReleaseUniqueness(w)
    \/ \E w \in Workers : CrashWorker(w)
    \/ \E j \in Jobs : CrashDispatcher(j)
    \/ \E j \in Jobs : Lapse(j)
    \/ DispatchTick

(* A dispatch goes on, workers poll and finish what they run, reservations *)
(* of the dead lapse, and time passes.                                     *)
DispatchFairness ==
    /\ \A j \in Jobs : WF_dispatchVars(Push(j) \/ PushRefused(j)) /\ WF_dispatchVars(Lapse(j))
    /\ \A w \in Workers : WF_dispatchVars(\E j \in Jobs : Reserve(w, j))
    /\ \A w \in Workers : WF_dispatchVars(Settle(w) \/ ReleaseJob(w))
    /\ \A w \in Workers : WF_dispatchVars(ReleaseUniqueness(w))
    /\ WF_dispatchVars(DispatchTick)

DispatchSpec == DispatchInit /\ [][DispatchNext]_dispatchVars /\ DispatchFairness

-----------------------------------------------------------------------------
(* Type correctness.                                                       *)
DispatchTypeOK ==
    /\ lock \in [value: Jobs, left: 0 .. UniqueFor] \cup {NoEntry}
    /\ sent \in [Jobs -> {"new", "claimed", "queued", "dropped", "error"}]
    /\ queue \in [Jobs -> {"none", "waiting", "reserved"}]
    /\ attempts \in [Jobs -> 0 .. MaxAttempts]
    /\ work \in [Workers -> Jobs \cup {NoJob}]
    /\ progress \in [Workers -> {"idle", "running", "settled"}]
    /\ crashes \in 0 .. MaxCrashes

(* "One pending or running at a time" (release_uniqueness, manager.rs): as *)
(* long as no job outlives UNIQUE_FOR and no reservation lapses under a    *)
(* live worker, retries and crashes included.                              *)
OnePending == \A i, j \in Jobs : Pending(i) /\ Pending(j) => i = j

(* PendingDispatch::send: "`Ok(None)` when the job declares a unique_id    *)
(* and an identical one is already pending".                               *)
DroppedMeansPending ==
    [][\A j \in Jobs : sent[j] = "new" /\ sent'[j] = "dropped" =>
          \E i \in Jobs \ {j} : Pending(i)]_dispatchVars

(* ... which is so as long as every push went through and nobody died.     *)
UndisturbedDropMeansPending ==
    [][\A j \in Jobs : sent[j] = "new" /\ sent'[j] = "dropped" =>
          \/ \E i \in Jobs \ {j} : Pending(i)
          \/ crashes > 0 \/ \E i \in Jobs : sent[i] = "error"]_dispatchVars

(* UNIQUE_FOR is "the safety net for a worker that dies mid-job: without   *)
(* it, one crash would block that job's id forever": the id becomes free   *)
(* again whatever was interrupted.                                         *)
IdFreed == Live(lock) ~> ~Live(lock)

(* release_uniqueness: "the job it belonged to is over": a live lock is    *)
(* only ever removed for a dispatch that is no longer pending.             *)
ReleasedWhenOver ==
    [][\A j \in Jobs :
          Live(lock) /\ lock.value = j /\ lock' = NoEntry => ~Pending(j)']_dispatchVars

(* What OnePending rests on: whatever is pending is what the lock was      *)
(* taken for, at most one worker has it, and a worker that has it agrees   *)
(* with the queue about how far it is.                                     *)
LockCoversPending ==
    /\ \A j \in Jobs : Pending(j) => Live(lock) /\ lock.value = j
    /\ \A j \in Jobs : queue[j] # "none" => sent[j] = "queued"
    /\ \A w \in Workers :
          /\ progress[w] = "idle" <=> work[w] = NoJob
          /\ work[w] # NoJob => sent[work[w]] = "queued"
          /\ progress[w] = "running" => queue[work[w]] = "reserved"
          /\ progress[w] = "settled" => queue[work[w]] = "none"
    /\ \A v, w \in Workers : work[v] = work[w] /\ work[w] # NoJob => v = w
=============================================================================
