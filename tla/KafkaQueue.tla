----------------------------- MODULE KafkaQueue -----------------------------
(***************************************************************************)
(* The Kafka queue driver (crates/rainier-queue/src/kafka.rs) under        *)
(* workers that reserve, run and settle.  A partition is a log that only   *)
(* grows; which worker reads it is a lease (crates/rainier-cache/src/      *)
(* lock.rs), how far it has been read is a cursor, and how often an offset *)
(* was handed out is a counter, all three in the shared cache.             *)
(*                                                                         *)
(* One action is one command to Kafka or to the cache.  A worker has slots *)
(* (its concurrency); its loop reserves for one slot at a time.            *)
(***************************************************************************)
EXTENDS CacheStore, Sequences, FiniteSets

CONSTANTS
    Jobs, Workers, Slots,
    WorkerOf,       \* the worker a slot belongs to
    NParts,         \* partitions of the topic
    PartitionOf,    \* the partition a job's key hashes to
    NotAJob,        \* a record that does not decode
    MaxAttempts,    \* attempts the worker gives a job (attempts_for)
    LeaseTicks,     \* ticks a partition lease lasts
    HoldTime,       \* ticks from taking the lease to the last command about a job
    FastExtend,     \* whether no lease is lost between the two commands of extend
    Backoff,        \* ticks a release is delayed by
    Delays,         \* delays a dispatch may ask for
    MaxEvents,      \* bound: stray records, retentions, clears, crashes and failed commands
    TakenCap        \* bound: deliveries of a job are counted up to here

Parts == 1 .. NParts
Record == [job: Jobs \cup {NotAJob}, attempts: Nat, delay: Nat]
Positive == Nat \ {0}

ASSUME ConstantsAssumption ==
    /\ WorkerOf \in [Slots -> Workers]
    /\ NParts \in Positive /\ PartitionOf \in [Jobs -> Parts]
    /\ NotAJob \notin Jobs
    /\ LeaseTicks \in Positive
    /\ {MaxAttempts, HoldTime, Backoff, MaxEvents, TakenCap} \subseteq Nat
    /\ Delays \subseteq Nat /\ FastExtend \in BOOLEAN
    /\ NoEntry \notin [value: Workers, left: Nat]

(* Offsets count from 1; a cursor of 0 is "never read".                    *)
VARIABLES
    log,            \* what was produced to each partition
    first,          \* the earliest offset retention has left
    cursor, lease, counted,         \* in the cache
    failed,         \* jobs on the failed topic
    guards,         \* the partitions each worker has a guard for
    pc, at, from, attempts, held,   \* of each slot
    taken,          \* times each job was handed to a worker, up to TakenCap
    pushed, succeeded, excused,     \* history, as sets of jobs
    torn,           \* a fault came between two commands that belong together
    cleared,        \* clear was called
    clearing,       \* the end a clear has read, 0: none under way
    events          \* counts what MaxEvents bounds

slot == <<pc, at, from, attempts, held>>
history == <<taken, pushed, succeeded, excused, torn, cleared>>
shared == <<log, first, cursor, lease, counted, failed>>
vars == <<shared, guards, slot, history, clearing, events>>

Reserving == {"own", "renew", "read", "fetch", "rejoin", "skip", "count", "stamp"}
Working == {"stamp", "running", "release", "fail", "forget", "commit"}

-----------------------------------------------------------------------------
Here(s) == log[at[s]][from[s]]
Owned(w, p) == Live(lease[p]) /\ lease[p].value = w
Goto(s, step) == pc' = [pc EXCEPT ![s] = step]

Produced(p, job, count, delay) ==
    /\ log' = [log EXCEPT ![p] = Append(@, [job |-> job, attempts |-> count, delay |-> delay])]
    /\ counted' = [counted EXCEPT ![p] = Append(@, 0)]

(* The loop of reserve goes on to the next partition, or answers None.     *)
Onward(s) ==
    /\ pc' = [pc EXCEPT ![s] = IF at[s] < NParts THEN "own" ELSE "idle"]
    /\ at' = [at EXCEPT ![s] = IF @ < NParts THEN @ + 1 ELSE 1]
    /\ from' = [from EXCEPT ![s] = 0]
    /\ attempts' = [attempts EXCEPT ![s] = 0]
    /\ held' = [held EXCEPT ![s] = 0]

(* Nothing is left of what these slots were doing.                         *)
Drop(these) ==
    /\ pc' = [s \in Slots |-> IF s \in these THEN "idle" ELSE pc[s]]
    /\ at' = [s \in Slots |-> IF s \in these THEN 1 ELSE at[s]]
    /\ from' = [s \in Slots |-> IF s \in these THEN 0 ELSE from[s]]
    /\ attempts' = [s \in Slots |-> IF s \in these THEN 0 ELSE attempts[s]]
    /\ held' = [s \in Slots |-> IF s \in these THEN 0 ELSE held[s]]

Event == events < MaxEvents /\ events' = events + 1

Init ==
    /\ log = [p \in Parts |-> <<>>]
    /\ first = [p \in Parts |-> 1]
    /\ cursor = [p \in Parts |-> 0]
    /\ lease = [p \in Parts |-> NoEntry]
    /\ counted = [p \in Parts |-> <<>>]
    /\ failed = {}
    /\ guards = [w \in Workers |-> {}]
    /\ pc = [s \in Slots |-> "idle"]
    /\ at = [s \in Slots |-> 1]
    /\ from = [s \in Slots |-> 0]
    /\ attempts = [s \in Slots |-> 0]
    /\ held = [s \in Slots |-> 0]
    /\ taken = [j \in Jobs |-> 0]
    /\ pushed = {} /\ succeeded = {} /\ excused = {}
    /\ torn = FALSE /\ cleared = FALSE
    /\ clearing = [p \in Parts |-> 0]
    /\ events = 0

-----------------------------------------------------------------------------
(* push: the key decides the partition.                                    *)
Push(j, delay) ==
    /\ j \notin pushed
    /\ pushed' = pushed \cup {j}
    /\ Produced(PartitionOf[j], j, 0, delay)
    /\ UNCHANGED <<first, cursor, lease, failed, guards, slot, taken, succeeded, excused, torn, cleared, clearing, events>>

(* Somebody else produces to the topic what is not a job.                  *)
Stray(p) ==
    /\ Event
    /\ Produced(p, NotAJob, 0, 0)
    /\ UNCHANGED <<first, cursor, lease, failed, guards, slot, history, clearing>>

(* Retention: the jobs it removes unread "are gone whatever we do".        *)
Retire(p) ==
    /\ Event
    /\ first[p] <= Len(log[p])
    /\ first' = [first EXCEPT ![p] = @ + 1]
    /\ excused' = IF first[p] >= cursor[p] THEN excused \cup ({log[p][first[p]].job} \cap Jobs)
                                           ELSE excused
    /\ UNCHANGED <<log, cursor, lease, counted, failed, guards, slot, taken, pushed, succeeded, torn, cleared, clearing>>

-----------------------------------------------------------------------------
(* reserve: partition by partition.                                        *)
Begin(s) ==
    /\ pc[s] = "idle"
    /\ \A t \in Slots : WorkerOf[t] = WorkerOf[s] => pc[t] \notin Reserving
    /\ Goto(s, "own")
    /\ UNCHANGED <<shared, guards, at, from, attempts, held, history, clearing, events>>

(* own, with a guard: extend finds the lease still ours ...                *)
StillOurs(s) ==
    /\ pc[s] = "own" /\ at[s] \in guards[WorkerOf[s]]
    /\ Owned(WorkerOf[s], at[s])
    /\ Goto(s, "renew")
    /\ UNCHANGED <<shared, guards, at, from, attempts, held, history, clearing, events>>

(* ... and puts it again, with its full length; ...                        *)
Renew(s) ==
    /\ pc[s] = "renew"
    /\ lease' = [lease EXCEPT ![at[s]] = Entry(WorkerOf[s], LeaseTicks)]
    /\ Goto(s, "read")
    /\ UNCHANGED <<log, first, cursor, counted, failed, guards, at, from, attempts, held, history, clearing, events>>

(* ... or finds it lost, and the guard goes.                               *)
LeaseLost(s) ==
    /\ pc[s] = "own" /\ at[s] \in guards[WorkerOf[s]]
    /\ ~Owned(WorkerOf[s], at[s])
    /\ guards' = [guards EXCEPT ![WorkerOf[s]] = @ \ {at[s]}]
    /\ lease' = [lease EXCEPT ![at[s]] = Reap(@)]
    /\ UNCHANGED <<log, first, cursor, counted, failed, slot, history, clearing, events>>

(* Mutant: the lease is read and then put, so two workers both get it.     *)
AcquireOver(s) ==
    /\ pc[s] = "own" /\ at[s] \notin guards[WorkerOf[s]]
    /\ lease' = [lease EXCEPT ![at[s]] = Entry(WorkerOf[s], LeaseTicks)]
    /\ guards' = [guards EXCEPT ![WorkerOf[s]] = @ \cup {at[s]}]
    /\ Goto(s, "read")
    /\ UNCHANGED <<log, first, cursor, counted, failed, at, from, attempts, held, history, clearing, events>>

(* own, without a guard: acquire takes what nobody has, ...                *)
Acquire(s) ==
    /\ pc[s] = "own" /\ at[s] \notin guards[WorkerOf[s]]
    /\ ~Live(lease[at[s]])
    /\ lease' = [lease EXCEPT ![at[s]] = Add(@, WorkerOf[s], LeaseTicks)]
    /\ guards' = [guards EXCEPT ![WorkerOf[s]] = @ \cup {at[s]}]
    /\ Goto(s, "read")
    /\ UNCHANGED <<log, first, cursor, counted, failed, at, from, attempts, held, history, clearing, events>>

(* ... and leaves the partition alone when somebody has it.                *)
Refused(s) ==
    /\ pc[s] = "own" /\ at[s] \notin guards[WorkerOf[s]]
    /\ Live(lease[at[s]])
    /\ Onward(s)
    /\ UNCHANGED <<shared, guards, history, clearing, events>>

(* start_of: the cursor, or the earliest record there is.                  *)
StartOf(s) ==
    /\ pc[s] = "read"
    /\ from' = [from EXCEPT ![s] = IF cursor[at[s]] # 0 THEN cursor[at[s]] ELSE first[at[s]]]
    /\ Goto(s, "fetch")
    /\ UNCHANGED <<shared, guards, at, attempts, held, history, clearing, events>>

(* fetch: what the record at the cursor calls for.  One that is not due    *)
(* makes the whole partition wait.                                         *)
Fetched(s) ==
    IF from[s] < first[at[s]] THEN "rejoin"
    ELSE IF from[s] > Len(log[at[s]]) THEN "next"
    ELSE IF Here(s).job = NotAJob THEN "skip"
    ELSE IF Here(s).delay > 0 THEN "next"
    ELSE "count"

Fetch(s) ==
    /\ pc[s] = "fetch"
    /\ Fetched(s) # "next"
    /\ Goto(s, Fetched(s))
    /\ UNCHANGED <<shared, guards, at, from, attempts, held, history, clearing, events>>

FetchNothing(s) ==
    /\ pc[s] = "fetch"
    /\ Fetched(s) = "next"
    /\ Onward(s)
    /\ UNCHANGED <<shared, guards, history, clearing, events>>

(* The cursor is no longer in the log: begin again where it does.          *)
Rejoin(s) ==
    /\ pc[s] = "rejoin"
    /\ cursor' = [cursor EXCEPT ![at[s]] = first[at[s]]]
    /\ Onward(s)
    /\ UNCHANGED <<log, first, lease, counted, failed, guards, history, clearing, events>>

(* Mutant: what is not a job is left where it is.                          *)
SkipNothing(s) ==
    /\ pc[s] = "skip"
    /\ Onward(s)
    /\ UNCHANGED <<shared, guards, history, clearing, events>>

(* advance_past a record that is not a job.                                *)
Skip(s) ==
    /\ pc[s] = "skip"
    /\ cursor' = [cursor EXCEPT ![at[s]] = from[s] + 1]
    /\ Onward(s)
    /\ UNCHANGED <<log, first, lease, counted, failed, guards, history, clearing, events>>

HandOver(s) ==
    /\ Goto(s, "running")
    /\ taken' = [taken EXCEPT ![Here(s).job] = IF @ < TakenCap THEN @ + 1 ELSE @]

(* attempt_number: what the record says, and what the counter says.        *)
AttemptNumber(recorded, delivered) == recorded + delivered

(* count_attempt, first command: increment; above 1 it is the only one.    *)
CountAttempt(s) ==
    /\ pc[s] = "count"
    /\ LET delivered == counted[at[s]][from[s]] + 1
       IN  /\ counted' = [counted EXCEPT ![at[s]][from[s]] = delivered]
           /\ attempts' = [attempts EXCEPT ![s] = AttemptNumber(Here(s).attempts, delivered)]
           /\ IF delivered = 1 THEN Goto(s, "stamp") /\ UNCHANGED taken ELSE HandOver(s)
    /\ UNCHANGED <<log, first, cursor, lease, failed, guards, at, from, held, pushed, succeeded, excused, torn, cleared, clearing, events>>

(* Second command: put "1" with a TTL, over whatever is there by now.      *)
StampAttempt(s) ==
    /\ pc[s] = "stamp"
    /\ counted' = [counted EXCEPT ![at[s]][from[s]] = 1]
    /\ HandOver(s)
    /\ UNCHANGED <<log, first, cursor, lease, failed, guards, at, from, attempts, held, pushed, succeeded, excused, torn, cleared, clearing, events>>

-----------------------------------------------------------------------------
HandlerOk(s) ==
    /\ pc[s] = "running"
    /\ succeeded' = succeeded \cup {Here(s).job}
    /\ Goto(s, "forget")
    /\ UNCHANGED <<shared, guards, at, from, attempts, held, taken, pushed, excused, torn, cleared, clearing, events>>

HandlerErr(s) ==
    /\ pc[s] = "running"
    /\ Goto(s, IF attempts[s] >= MaxAttempts THEN "fail" ELSE "release")
    /\ UNCHANGED <<shared, guards, at, from, attempts, held, history, clearing, events>>

(* Mutant: the retry is the record as it was read.                         *)
ReleaseUncounted(s) ==
    /\ pc[s] = "release"
    /\ Produced(PartitionOf[Here(s).job], Here(s).job, Here(s).attempts, Backoff)
    /\ Goto(s, "forget")
    /\ UNCHANGED <<first, cursor, lease, failed, guards, at, from, attempts, held, history, clearing, events>>

(* release: the retry is a new record, at the end, with its count ...      *)
Release(s) ==
    /\ pc[s] = "release"
    /\ Produced(PartitionOf[Here(s).job], Here(s).job, attempts[s], Backoff)
    /\ Goto(s, "forget")
    /\ UNCHANGED <<first, cursor, lease, failed, guards, at, from, attempts, held, history, clearing, events>>

(* ... fail: a record on the failed topic ...                              *)
Fail(s) ==
    /\ pc[s] = "fail"
    /\ failed' = failed \cup {Here(s).job}
    /\ Goto(s, "forget")
    /\ UNCHANGED <<log, first, cursor, lease, counted, guards, at, from, attempts, held, history, clearing, events>>

(* ... and only then, as in acknowledge, advance_past: the counter ...     *)
ForgetAttempts(s) ==
    /\ pc[s] = "forget"
    /\ counted' = [counted EXCEPT ![at[s]][from[s]] = 0]
    /\ Goto(s, "commit")
    /\ UNCHANGED <<log, first, cursor, lease, failed, guards, at, from, attempts, held, history, clearing, events>>

(* Mutant: the cursor is moved past everything that was fetched.           *)
CommitFetched(s) ==
    /\ pc[s] = "commit"
    /\ cursor' = [cursor EXCEPT ![at[s]] = Len(log[at[s]]) + 1]
    /\ Drop({s})
    /\ UNCHANGED <<log, first, lease, counted, failed, guards, history, clearing, events>>

(* ... and the cursor, whatever it is by now.                              *)
Commit(s) ==
    /\ pc[s] = "commit"
    /\ cursor' = [cursor EXCEPT ![at[s]] = from[s] + 1]
    /\ Drop({s})
    /\ UNCHANGED <<log, first, lease, counted, failed, guards, history, clearing, events>>

SlotStep(s) ==
    \/ Begin(s)
    \/ StillOurs(s)
    \/ Renew(s)
    \/ LeaseLost(s)
    \/ Acquire(s)
    \/ Refused(s)
    \/ StartOf(s)
    \/ Fetch(s)
    \/ FetchNothing(s)
    \/ Rejoin(s)
    \/ Skip(s)
    \/ CountAttempt(s)
    \/ StampAttempt(s)
    \/ HandlerOk(s)
    \/ HandlerErr(s)
    \/ Release(s)
    \/ Fail(s)
    \/ ForgetAttempts(s)
    \/ Commit(s)

-----------------------------------------------------------------------------
(* release_partitions, once the worker has stopped: the guards' own tokens.*)
ReleasePartitions(w) ==
    /\ guards[w] # {}
    /\ \A s \in Slots : WorkerOf[s] = w => pc[s] = "idle"
    /\ guards' = [guards EXCEPT ![w] = {}]
    /\ lease' = [p \in Parts |-> IF p \in guards[w] THEN ForgetIf(lease[p], w) ELSE lease[p]]
    /\ UNCHANGED <<log, first, cursor, counted, failed, slot, history, clearing, events>>

(* clear: the end of a partition is read ...                               *)
ClearRead(p) ==
    /\ Event
    /\ clearing[p] = 0
    /\ cleared' = TRUE
    /\ clearing' = [clearing EXCEPT ![p] = Len(log[p]) + 1]
    /\ UNCHANGED <<shared, guards, slot, taken, pushed, succeeded, excused, torn>>

(* ... and the cursor is put there.                                        *)
ClearCommit(p) ==
    /\ clearing[p] # 0
    /\ cursor' = [cursor EXCEPT ![p] = clearing[p]]
    /\ excused' = excused \cup ({log[p][o].job : o \in 1 .. (clearing[p] - 1)} \cap Jobs)
    /\ clearing' = [clearing EXCEPT ![p] = 0]
    /\ UNCHANGED <<log, first, lease, counted, failed, guards, slot, taken, pushed, succeeded, torn, cleared, events>>

Tears(s) == pc[s] \in {"stamp", "forget", "commit"}

(* A command of the slot answers with an error.  The record on the failed  *)
(* topic (which may not exist) and the two about the counter are best      *)
(* effort; any other error ends the reserve or the settling.               *)
CommandFails(s) ==
    /\ Event
    /\ torn' = (torn \/ Tears(s))
    /\ \/ /\ pc[s] = "forget" /\ Goto(s, "commit")
          /\ UNCHANGED <<at, from, attempts, held, taken, excused>>
       \/ /\ pc[s] = "stamp" /\ HandOver(s)
          /\ UNCHANGED <<at, from, attempts, held, excused>>
       \/ /\ pc[s] = "fail" /\ Goto(s, "forget")
          /\ excused' = excused \cup {Here(s).job}
          /\ UNCHANGED <<at, from, attempts, held, taken>>
       \/ /\ pc[s] \notin {"idle", "running", "stamp", "fail", "forget"}
          /\ Drop({s})
          /\ UNCHANGED <<taken, excused>>
    /\ UNCHANGED <<shared, guards, pushed, succeeded, cleared, clearing>>

(* The worker dies with everything it was doing.  Its leases stay.         *)
Crash(w) ==
    LET mine == {s \in Slots : WorkerOf[s] = w}
    IN  /\ Event
        /\ \E s \in mine : pc[s] # "idle"
        /\ torn' = (torn \/ \E s \in mine : Tears(s))
        /\ Drop(mine)
        /\ guards' = [guards EXCEPT ![w] = {}]
        /\ UNCHANGED <<shared, taken, pushed, succeeded, excused, cleared, clearing>>

Waited(r) == [job |-> r.job, attempts |-> r.attempts, delay |-> IF r.delay > 0 THEN r.delay - 1 ELSE 0]

OnLease(s) == pc[s] \notin {"idle", "own", "renew"}

(* Time passes.  No slot is slower than HoldTime.                          *)
Tick ==
    /\ \A s \in Slots : /\ OnLease(s) => held[s] < HoldTime
                        /\ FastExtend /\ pc[s] = "renew" => Live(AgeEntry(lease[at[s]]))
    /\ lease' = [p \in Parts |-> AgeEntry(lease[p])]
    /\ log' = [p \in Parts |-> [o \in 1 .. Len(log[p]) |-> Waited(log[p][o])]]
    /\ held' = [s \in Slots |-> IF OnLease(s) THEN held[s] + 1 ELSE held[s]]
    /\ UNCHANGED <<first, cursor, counted, failed, guards, pc, at, from, attempts, history, clearing, events>>

Next ==
    \/ \E j \in Jobs, delay \in Delays : Push(j, delay)
    \/ \E p \in Parts : Stray(p)
    \/ \E p \in Parts : Retire(p)
    \/ \E s \in Slots : SlotStep(s)
    \/ \E w \in Workers : ReleasePartitions(w)
    \/ \E p \in Parts : ClearRead(p)
    \/ \E p \in Parts : ClearCommit(p)
    \/ \E s \in Slots : CommandFails(s)
    \/ \E w \in Workers : Crash(w)
    \/ Tick

(* Workers poll, handlers end, and time passes however often leases are    *)
(* renewed.                                                                *)
Fairness == (\A s \in Slots : WF_vars(SlotStep(s))) /\ SF_vars(Tick)

Spec == Init /\ [][Next]_vars
FairSpec == Spec /\ Fairness

-----------------------------------------------------------------------------
(* Type correctness.                                                       *)
TypeOK ==
    /\ log \in [Parts -> Seq(Record)]
    /\ first \in [Parts -> Positive]
    /\ cursor \in [Parts -> Nat]
    /\ lease \in [Parts -> [value: Workers, left: Nat] \cup {NoEntry}]
    /\ counted \in [Parts -> Seq(Nat)]
    /\ failed \subseteq Jobs
    /\ guards \in [Workers -> SUBSET Parts]
    /\ pc \in [Slots -> Reserving \cup Working \cup {"idle"}]
    /\ at \in [Slots -> Parts]
    /\ from \in [Slots -> Nat] /\ attempts \in [Slots -> Nat] /\ held \in [Slots -> Nat]
    /\ taken \in [Jobs -> Nat]
    /\ pushed \subseteq Jobs /\ succeeded \subseteq Jobs /\ excused \subseteq Jobs
    /\ torn \in BOOLEAN
    /\ cleared \in BOOLEAN
    /\ clearing \in [Parts -> Nat]
    /\ events \in Nat

Answered(j) == j \in succeeded \cup failed \cup excused

(* At least once, whatever the leases do: a job that was pushed has        *)
(* succeeded, is on the failed topic, was given up in a way the code       *)
(* announces (cleared, lost to retention, no failed topic), or has a       *)
(* record that the cursor has not passed.  A worker that has lost its      *)
(* lease can move the cursor back, never past a job nobody settled.        *)
NoJobLost ==
    \A j \in pushed : Answered(j) \/
        \E o \in 1 .. Len(log[PartitionOf[j]]) :
            log[PartitionOf[j]][o].job = j /\ o >= cursor[PartitionOf[j]]

(* "Two workers cannot share a partition": one job of a partition is in    *)
(* flight at a time.                                                       *)
OneInFlight ==
    \A s, t \in Slots :
        pc[s] \in Working /\ pc[t] \in Working /\ at[s] = at[t] => s = t

(* A lease outlives the slowest job, and is not lost between the read and  *)
(* the write of extend; and each worker runs one job at a time.            *)
WellTimed == HoldTime < LeaseTicks /\ FastExtend
OneSlotEach == \A s, t \in Slots : WorkerOf[s] = WorkerOf[t] => s = t

(* "A cursor cannot go backwards": whatever the crashes, a commit never    *)
(* takes a partition back to what was settled, until somebody clears it.   *)
CursorForward ==
    [][~cleared => \A p \in Parts : cursor'[p] >= cursor[p]]_vars

(* clear: "What this does is move every cursor to the end, so the jobs     *)
(* stop being *this group's* problem": a cleared job is not run later.     *)
ClearedStayCleared ==
    [][\A p \in Parts : cleared /\ clearing[p] = 0 => cursor'[p] >= cursor[p]]_vars

(* An attempt is "what the record carries plus how many times this offset  *)
(* has been handed out": as long as no fault came between commands that    *)
(* belong together, the number a handler runs as counts every delivery of  *)
(* its job, those that killed their worker too.                            *)
AttemptsCountCrashes ==
    ~torn /\ ~cleared => \A s \in Slots :
        pc[s] = "running" => attempts[s] = taken[Here(s).job]

(* "Counting deliveries against the offset makes the fourth one the last   *)
(* one": no job is handed out more often than it has attempts.             *)
LastAttemptIsLast == ~torn /\ ~cleared => \A j \in Jobs : taken[j] <= MaxAttempts

(* Every job that was pushed is answered, whatever the faults interrupt.   *)
EveryJobAnswered == \A j \in Jobs : j \in pushed ~> Answered(j)
=============================================================================
