--------------------------- MODULE DatabaseQueue ---------------------------
(***************************************************************************)
(* The database queue driver (crates/rainier-queue/src/database.rs) under  *)
(* the workers that drive it (worker.rs, process_untraced and              *)
(* handle_failure), the periodic reclaim_expired, and an operator who      *)
(* retries failed jobs or clears the queue.                                *)
(*                                                                         *)
(* One action is one SQL statement: whatever lies between two statements   *)
(* of a method can be interleaved with every other process.  A crash (or   *)
(* a statement that answers with an error) can fall between any two.       *)
(*                                                                         *)
(* Time is relative: a row carries the ticks until it is available         *)
(* (available_at - now, never below 0) and the ticks until its reservation *)
(* lapses (reserved_until - now, never below -1, and lapsed at -1 because  *)
(* the code compares with <).  ORDER BY available_at is therefore not      *)
(* kept: candidates are tried in any order, which allows every order the   *)
(* database can answer with.                                               *)
(***************************************************************************)
EXTENDS Integers, FiniteSets

CONSTANTS
    Jobs,           \* ids of jobs: generate_id never repeats one
    Workers,        \* worker slots, in one process or several
    Reclaimers,     \* concurrent executions of reclaim_expired
    Operators,      \* concurrent executions of retry_failed
    NoRow,          \* "no row with this id"
    MaxAttempts,    \* Job::TRIES, stored in the row as max_attempts
    Tries,          \* WorkerOptions::tries
    Reservation,    \* ticks a reservation lasts (with_reservation)
    HoldTime,       \* ticks from a claim to the last statement that settles it
    Backoff,        \* ticks handle_failure delays a release by
    Delays,         \* delays a dispatch may ask for
    ClaimLimit,     \* max_claim_attempts: candidates fetched by one reserve
    AttemptsCap,    \* bound: attempts are counted up to here, and no further
    MaxCrashes,     \* bound: crashes and failed statements in a behaviour
    MaxRetries,     \* bound: calls of retry_failed in a behaviour
    MaxClears       \* bound: calls of clear in a behaviour

(* A row of rainier_jobs: reserved is "reserved_at IS NOT NULL".           *)
Row == [attempts: Nat, max: Nat, availableIn: Nat,
        reserved: BOOLEAN, reservedFor: Int]

(* What a worker remembers of a row: a candidate, then its QueuedJob.      *)
Ticket == [id: Jobs, attempts: Nat, max: Nat]

ASSUME ConstantsAssumption ==
    /\ MaxAttempts \in Nat /\ Tries \in Nat
    /\ Reservation \in Nat /\ HoldTime \in Nat /\ Backoff \in Nat
    /\ Delays \subseteq Nat
    /\ ClaimLimit \in Nat
    /\ AttemptsCap \in Nat /\ AttemptsCap > MaxAttempts /\ AttemptsCap > Tries
    /\ MaxCrashes \in Nat /\ MaxRetries \in Nat /\ MaxClears \in Nat
    /\ NoRow \notin Row

VARIABLES
    rows,           \* rainier_jobs, by primary key
    failedRows,     \* primary keys in rainier_failed_jobs
    pc,             \* where each worker is in reserve / process
    candidates,     \* rows a worker's reserve selected and has yet to try
    ticket,         \* the QueuedJob a worker holds, as a set of at most one
    held,           \* ticks since the worker's claim
    stale,          \* rows a reclaimer selected and has yet to write back
    retry,          \* where each retry_failed is: <<step, job>>
    pushed,         \* jobs ever pushed
    succeeded,      \* jobs one of whose runs returned Ok
    cleared,        \* jobs an operator discarded
    crashes, retries, clears

tables  == <<rows, failedRows>>
work    == <<pc, candidates, ticket, held>>
history == <<pushed, succeeded, cleared>>
bounds  == <<crashes, retries, clears>>
vars    == <<tables, work, stale, retry, history, bounds>>

-----------------------------------------------------------------------------
Busy    == {"running", "ack", "release", "fail", "delete"}
NoStale == [j \in Jobs |-> NoRow]
Idle    == <<"idle">>

Exists(j)    == rows[j] # NoRow
Available(j) == Exists(j) /\ ~rows[j].reserved /\ rows[j].availableIn = 0
Lapsed(row)  == row.reserved /\ row.reservedFor < 0

NewRow(max, delay) ==
    [attempts |-> 0, max |-> max, availableIn |-> delay,
     reserved |-> FALSE, reservedFor |-> -1]

Reserve(row, attempts) ==
    [attempts |-> attempts, max |-> row.max, availableIn |-> row.availableIn,
     reserved |-> TRUE, reservedFor |-> Reservation]

Unreserve(row, availableIn) ==
    [attempts |-> row.attempts, max |-> row.max, availableIn |-> availableIn,
     reserved |-> FALSE, reservedFor |-> -1]

(* WorkerOptions::attempts_for: the larger of the job's and the worker's.  *)
AttemptsFor(max) ==
    CHOOSE n \in {max, Tries, 1} : \A m \in {max, Tries, 1} : n >= m

(* One more attempt.  Beyond the cap, which is above every limit an        *)
(* attempt is compared with, one count decides like another.               *)
Counted(attempts) == IF attempts < AttemptsCap THEN attempts + 1 ELSE AttemptsCap

(* The worker w works on the job with id j.                                *)
Holds(w, j) == pc[w] \in Busy /\ \E t \in ticket[w] : t.id = j

Init ==
    /\ rows = [j \in Jobs |-> NoRow]
    /\ failedRows = {}
    /\ pc = [w \in Workers |-> "idle"]
    /\ candidates = [w \in Workers |-> {}]
    /\ ticket = [w \in Workers |-> {}]
    /\ held = [w \in Workers |-> 0]
    /\ stale = [r \in Reclaimers |-> NoStale]
    /\ retry = [o \in Operators |-> Idle]
    /\ pushed = {} /\ succeeded = {} /\ cleared = {}
    /\ crashes = 0 /\ retries = 0 /\ clears = 0

-----------------------------------------------------------------------------
(* Queue::push: a fresh row, available after the delay of the dispatch.    *)
Push(j, delay) ==
    /\ j \notin pushed
    /\ rows' = [rows EXCEPT ![j] = NewRow(MaxAttempts, delay)]
    /\ pushed' = pushed \cup {j}
    /\ UNCHANGED <<failedRows, work, stale, retry, succeeded, cleared, bounds>>

(* The SELECT of reserve.  Nothing to select is reserve's Ok(None).        *)
Select(w) ==
    /\ pc[w] = "idle"
    /\ \E ids \in SUBSET {j \in Jobs : Available(j)} :
        /\ ids # {}
        /\ \/ Cardinality(ids) = ClaimLimit
           \/ Cardinality(ids) < ClaimLimit /\ \A j \in Jobs \ ids : ~Available(j)
        /\ candidates' = [candidates EXCEPT ![w] =
               {[id |-> j, attempts |-> rows[j].attempts, max |-> rows[j].max] :
                   j \in ids}]
    /\ pc' = [pc EXCEPT ![w] = "claiming"]
    /\ UNCHANGED <<tables, ticket, held, stale, retry, history, bounds>>

(* Mutant: the UPDATE of claim without its "reserved_at IS NULL".          *)
ClaimUnconditionally(w, c) ==
    /\ pc[w] = "claiming" /\ c \in candidates[w]
    /\ Exists(c.id)
    /\ rows' = [rows EXCEPT ![c.id] = Reserve(@, Counted(c.attempts))]
    /\ ticket' = [ticket EXCEPT ![w] = {[c EXCEPT !.attempts = Counted(c.attempts)]}]
    /\ candidates' = [candidates EXCEPT ![w] = {}]
    /\ held' = [held EXCEPT ![w] = 0]
    /\ pc' = [pc EXCEPT ![w] = "running"]
    /\ UNCHANGED <<failedRows, stale, retry, history, bounds>>

(* Mutant: reserve answers with the row as selected, attempts not raised.  *)
ClaimUncounted(w, c) ==
    /\ pc[w] = "claiming" /\ c \in candidates[w]
    /\ Exists(c.id) /\ ~rows[c.id].reserved
    /\ rows' = [rows EXCEPT ![c.id] = Reserve(@, Counted(c.attempts))]
    /\ ticket' = [ticket EXCEPT ![w] = {c}]
    /\ candidates' = [candidates EXCEPT ![w] = {}]
    /\ held' = [held EXCEPT ![w] = 0]
    /\ pc' = [pc EXCEPT ![w] = "running"]
    /\ UNCHANGED <<failedRows, stale, retry, history, bounds>>

(* claim: UPDATE ... WHERE id = ? AND reserved_at IS NULL matched the row. *)
(* What it writes comes from the candidate, as it was selected.            *)
ClaimWins(w, c) ==
    /\ pc[w] = "claiming" /\ c \in candidates[w]
    /\ Exists(c.id) /\ ~rows[c.id].reserved
    /\ rows' = [rows EXCEPT ![c.id] = Reserve(@, Counted(c.attempts))]
    /\ ticket' = [ticket EXCEPT ![w] = {[c EXCEPT !.attempts = Counted(c.attempts)]}]
    /\ candidates' = [candidates EXCEPT ![w] = {}]
    /\ held' = [held EXCEPT ![w] = 0]
    /\ pc' = [pc EXCEPT ![w] = "running"]
    /\ UNCHANGED <<failedRows, stale, retry, history, bounds>>

(* claim matched nothing: the next candidate, or reserve's Ok(None).       *)
ClaimLoses(w, c) ==
    /\ pc[w] = "claiming" /\ c \in candidates[w]
    /\ ~(Exists(c.id) /\ ~rows[c.id].reserved)
    /\ candidates' = [candidates EXCEPT ![w] = @ \ {c}]
    /\ pc' = [pc EXCEPT ![w] =
                 IF candidates[w] = {c} THEN "idle" ELSE "claiming"]
    /\ UNCHANGED <<tables, ticket, held, stale, retry, history, bounds>>

(* run_handler answers Ok: process_untraced goes on to acknowledge.        *)
HandlerOk(w) ==
    /\ pc[w] = "running"
    /\ pc' = [pc EXCEPT ![w] = "ack"]
    /\ succeeded' = succeeded \cup {t.id : t \in ticket[w]}
    /\ UNCHANGED <<tables, candidates, ticket, held, stale, retry,
                   pushed, cleared, bounds>>

(* run_handler answers Err (the job's own, a panic or the timeout) and     *)
(* handle_failure chooses between fail and release.                        *)
HandlerErr(w) ==
    /\ pc[w] = "running"
    /\ \E t \in ticket[w] :
        pc' = [pc EXCEPT ![w] =
                  IF t.attempts >= AttemptsFor(t.max) THEN "fail" ELSE "release"]
    /\ UNCHANGED <<tables, candidates, ticket, held, stale, retry, history, bounds>>

(* The worker is done with its job, whatever became of the row.            *)
Drop(w) ==
    /\ pc' = [pc EXCEPT ![w] = "idle"]
    /\ candidates' = [candidates EXCEPT ![w] = {}]
    /\ ticket' = [ticket EXCEPT ![w] = {}]
    /\ held' = [held EXCEPT ![w] = 0]

(* acknowledge: DELETE by id.                                              *)
Acknowledge(w) ==
    /\ pc[w] = "ack"
    /\ rows' = [j \in Jobs |-> IF \E t \in ticket[w] : t.id = j THEN NoRow ELSE rows[j]]
    /\ Drop(w)
    /\ UNCHANGED <<failedRows, stale, retry, history, bounds>>

(* release: UPDATE by id; a row that is gone is left gone.                 *)
Release(w) ==
    /\ pc[w] = "release"
    /\ rows' = [j \in Jobs |->
           IF Exists(j) /\ \E t \in ticket[w] : t.id = j
             THEN Unreserve(rows[j], Backoff)
             ELSE rows[j]]
    /\ Drop(w)
    /\ UNCHANGED <<failedRows, stale, retry, history, bounds>>

(* fail, first statement: INSERT into rainier_failed_jobs ...              *)
FailInsert(w) ==
    /\ pc[w] = "fail"
    /\ \E t \in ticket[w] :
        /\ t.id \notin failedRows
        /\ failedRows' = failedRows \cup {t.id}
    /\ pc' = [pc EXCEPT ![w] = "delete"]
    /\ UNCHANGED <<rows, candidates, ticket, held, stale, retry, history, bounds>>

(* ... which is refused when the id is already there, and fail is an Err.  *)
FailRefused(w) ==
    /\ pc[w] = "fail"
    /\ \E t \in ticket[w] : t.id \in failedRows
    /\ Drop(w)
    /\ UNCHANGED <<tables, stale, retry, history, bounds>>

(* fail, second statement: DELETE the job's row.                           *)
FailDelete(w) ==
    /\ pc[w] = "delete"
    /\ rows' = [j \in Jobs |-> IF \E t \in ticket[w] : t.id = j THEN NoRow ELSE rows[j]]
    /\ Drop(w)
    /\ UNCHANGED <<failedRows, stale, retry, history, bounds>>

-----------------------------------------------------------------------------
(* Mutant: the SELECT passes over rows that have no attempt left.          *)
ReclaimSelectRetriable(r) ==
    /\ stale[r] = NoStale
    /\ \E j \in Jobs : Exists(j) /\ Lapsed(rows[j]) /\ rows[j].attempts < rows[j].max
    /\ stale' = [stale EXCEPT ![r] =
           [j \in Jobs |-> IF Exists(j) /\ Lapsed(rows[j]) /\ rows[j].attempts < rows[j].max
                             THEN rows[j] ELSE NoRow]]
    /\ UNCHANGED <<tables, work, retry, history, bounds>>

(* reclaim_expired, the SELECT of the rows whose reservation has lapsed.   *)
ReclaimSelect(r) ==
    /\ stale[r] = NoStale
    /\ \E j \in Jobs : Exists(j) /\ Lapsed(rows[j])
    /\ stale' = [stale EXCEPT ![r] =
           [j \in Jobs |-> IF Exists(j) /\ Lapsed(rows[j]) THEN rows[j] ELSE NoRow]]
    /\ UNCHANGED <<tables, work, retry, history, bounds>>

(* reclaim_expired, one UPDATE: every column of the selected row is        *)
(* written back by primary key, reserved_at and reserved_until as NULL.    *)
ReclaimUpdate(r, j) ==
    /\ stale[r][j] # NoRow
    /\ rows' = [rows EXCEPT ![j] =
           IF Exists(j) THEN Unreserve(stale[r][j], stale[r][j].availableIn) ELSE NoRow]
    /\ stale' = [stale EXCEPT ![r][j] = NoRow]
    /\ UNCHANGED <<failedRows, work, retry, history, bounds>>

-----------------------------------------------------------------------------
(* Mutant: retry_failed takes the failed row out as soon as it finds it.   *)
RetryTake(o, j) ==
    /\ retry[o] = Idle
    /\ j \in failedRows
    /\ retries < MaxRetries
    /\ retry' = [retry EXCEPT ![o] = <<"create", j>>]
    /\ failedRows' = failedRows \ {j}
    /\ retries' = retries + 1
    /\ UNCHANGED <<rows, work, stale, history, crashes, clears>>

(* retry_failed finds the failed row ...                                   *)
RetryFind(o, j) ==
    /\ retry[o] = Idle
    /\ j \in failedRows
    /\ retries < MaxRetries
    /\ retry' = [retry EXCEPT ![o] = <<"create", j>>]
    /\ retries' = retries + 1
    /\ UNCHANGED <<tables, work, stale, history, crashes, clears>>

(* ... inserts a fresh row with one attempt, refused when the id is there  *)
RetryCreate(o, j) ==
    /\ retry[o] = <<"create", j>>
    /\ IF Exists(j)
         THEN /\ retry' = [retry EXCEPT ![o] = Idle]
              /\ UNCHANGED rows
         ELSE /\ retry' = [retry EXCEPT ![o] = <<"delete", j>>]
              /\ rows' = [rows EXCEPT ![j] = NewRow(1, 0)]
    /\ UNCHANGED <<failedRows, work, stale, history, bounds>>

(* ... and deletes the failed row.                                         *)
RetryDelete(o, j) ==
    /\ retry[o] = <<"delete", j>>
    /\ failedRows' = failedRows \ {j}
    /\ retry' = [retry EXCEPT ![o] = Idle]
    /\ UNCHANGED <<rows, work, stale, history, bounds>>

(* clear: every row of the queue, reserved or not, is deleted.             *)
Clear ==
    /\ clears < MaxClears
    /\ \E j \in Jobs : Exists(j)
    /\ cleared' = cleared \cup {j \in Jobs : Exists(j)}
    /\ rows' = [j \in Jobs |-> NoRow]
    /\ clears' = clears + 1
    /\ UNCHANGED <<failedRows, work, stale, retry, pushed, succeeded, crashes, retries>>

-----------------------------------------------------------------------------
(* A process dies, or the statement it was about to make answers with an   *)
(* error: nothing it held in memory is kept.                               *)
Crash ==
    /\ crashes < MaxCrashes
    /\ crashes' = crashes + 1
    /\ UNCHANGED <<tables, history, retries, clears>>

CrashWorker(w) ==
    /\ pc[w] # "idle"
    /\ Crash /\ Drop(w) /\ UNCHANGED <<stale, retry>>

CrashReclaimer(r) ==
    /\ stale[r] # NoStale
    /\ Crash
    /\ stale' = [stale EXCEPT ![r] = NoStale]
    /\ UNCHANGED <<work, retry>>

CrashOperator(o) ==
    /\ retry[o] # Idle
    /\ Crash
    /\ retry' = [retry EXCEPT ![o] = Idle]
    /\ UNCHANGED <<work, stale>>

-----------------------------------------------------------------------------
(* One tick of the clock.  HoldTime is the worker's timeout and the time   *)
(* its settling statements take: no worker is still busy beyond it.        *)
Aged(row) ==
    IF row = NoRow THEN NoRow
    ELSE [row EXCEPT !.availableIn = IF @ > 0 THEN @ - 1 ELSE 0,
                     !.reservedFor = IF @ >= 0 THEN @ - 1 ELSE -1]

Tick ==
    /\ \A w \in Workers : pc[w] \in Busy => held[w] < HoldTime
    /\ held' = [w \in Workers |-> IF pc[w] \in Busy THEN held[w] + 1 ELSE 0]
    /\ rows' = [j \in Jobs |-> Aged(rows[j])]
    /\ stale' = [r \in Reclaimers |-> [j \in Jobs |-> Aged(stale[r][j])]]
    /\ UNCHANGED <<failedRows, pc, candidates, ticket, retry, history, bounds>>

-----------------------------------------------------------------------------
(* Everything a worker does of its own accord.                             *)
WorkerStep(w) ==
    \/ Select(w)
    \/ \E c \in candidates[w] : ClaimWins(w, c)
    \/ \E c \in candidates[w] : ClaimLoses(w, c)
    \/ HandlerOk(w) \/ HandlerErr(w)
    \/ Acknowledge(w) \/ Release(w)
    \/ FailInsert(w) \/ FailRefused(w) \/ FailDelete(w)

ReclaimStep(r) == ReclaimSelect(r) \/ \E j \in Jobs : ReclaimUpdate(r, j)

RetryStep(o) == \E j \in Jobs : RetryCreate(o, j) \/ RetryDelete(o, j)

Next ==
    \/ \E j \in Jobs, delay \in Delays : Push(j, delay)
    \/ \E w \in Workers : WorkerStep(w)
    \/ \E r \in Reclaimers : ReclaimStep(r)
    \/ \E o \in Operators, j \in Jobs : RetryFind(o, j)
    \/ \E o \in Operators : RetryStep(o)
    \/ Clear
    \/ \E w \in Workers : CrashWorker(w)
    \/ \E r \in Reclaimers : CrashReclaimer(r)
    \/ \E o \in Operators : CrashOperator(o)
    \/ Tick

(* Workers poll and settle, reclaim_expired is run again and again, and    *)
(* time passes; nobody is obliged to push, retry, clear or crash.          *)
Fairness ==
    /\ \A w \in Workers : WF_vars(WorkerStep(w))
    /\ \A r \in Reclaimers : WF_vars(ReclaimStep(r))
    /\ \A o \in Operators : WF_vars(RetryStep(o))
    /\ WF_vars(Tick)

Spec == Init /\ [][Next]_vars /\ Fairness

-----------------------------------------------------------------------------
(* Type correctness of both tables and of what each process remembers.     *)
TypeOK ==
    /\ rows \in [Jobs -> Row \cup {NoRow}]
    /\ failedRows \subseteq Jobs
    /\ pc \in [Workers -> Busy \cup {"idle", "claiming"}]
    /\ candidates \in [Workers -> SUBSET Ticket]
    /\ ticket \in [Workers -> SUBSET Ticket]
    /\ held \in [Workers -> Nat]
    /\ stale \in [Reclaimers -> [Jobs -> Row \cup {NoRow}]]
    /\ retry \in [Operators -> {Idle} \cup ({"create", "delete"} \X Jobs)]
    /\ pushed \subseteq Jobs /\ succeeded \subseteq Jobs /\ cleared \subseteq Jobs
    /\ crashes \in Nat /\ retries \in Nat /\ clears \in Nat

(* Two workers never work on the same job at the same time, unless an      *)
(* operator cleared it: the optimistic claim and the reservation deadline  *)
(* together keep a job to one worker (database.rs, module doc).            *)
OneRunner ==
    \A v, w \in Workers, j \in Jobs \ cleared :
        Holds(v, j) /\ Holds(w, j) => v = w

(* The attempt number a worker reports and decides by is the one stored in *)
(* the row, for as long as it holds the job (the comment in reserve).      *)
AttemptMatchesRow ==
    \A w \in Workers : \A t \in ticket[w] :
        pc[w] \in Busy /\ t.id \notin cleared =>
            Exists(t.id) /\ rows[t.id].attempts = t.attempts

(* A job that was pushed, and that nobody cleared, is in one of the tables *)
(* until a run of it succeeds, wherever crashes fall.                      *)
NoJobLost ==
    \A j \in pushed : Exists(j) \/ j \in failedRows \cup succeeded \cup cleared

(* A reservation that has not lapsed is given up by its holder and by      *)
(* nobody else: no reclaim_expired takes a live job away from its worker.  *)
OnlyHolderGivesUp ==
    \A j \in Jobs \ cleared' :
        (Exists(j) /\ rows[j].reserved /\ ~Lapsed(rows[j])) =>
            \/ Exists(j)' /\ rows'[j].reserved
            \/ \E w \in Workers : Holds(w, j) /\ pc'[w] = "idle"

(* ... in every step.                                                      *)
LiveReservationKept == [][OnlyHolderGivesUp]_vars

(* What the doc of with_reservation asks of a deployment, and that one     *)
(* reclaim_expired is over before the next begins.                         *)
WellConfigured ==
    /\ HoldTime <= Reservation
    /\ \A r, s \in Reclaimers : r = s

(* A worker holds one job while it is busy and none otherwise; one that is *)
(* about to acknowledge has seen its job succeed.                          *)
TicketInv ==
    \A w \in Workers :
        /\ pc[w] \in Busy => \E t \in ticket[w] : ticket[w] = {t}
        /\ pc[w] \notin Busy => ticket[w] = {}
        /\ pc[w] = "ack" => \A t \in ticket[w] : t.id \in succeeded

(* A worker's reservation outlives its work: its row is there, reserved    *)
(* until Reservation ticks after the claim, and counts this attempt.       *)
HolderInv ==
    \A w \in Workers : \A t \in ticket[w] :
        pc[w] \in Busy /\ t.id \notin cleared =>
            /\ Exists(t.id) /\ rows[t.id].reserved
            /\ rows[t.id].reservedFor = Reservation - held[w]
            /\ rows[t.id].attempts = t.attempts
            /\ held[w] <= HoldTime

(* A row that a reclaimer is about to write back is still lapsed.          *)
StaleInv ==
    \A r \in Reclaimers, j \in Jobs \ cleared :
        stale[r][j] # NoRow => Exists(j) /\ Lapsed(rows[j])

(* Only a pushed job is in a table or in anybody's hands.                  *)
KnownInv ==
    /\ \A j \in Jobs : Exists(j) => j \in pushed
    /\ failedRows \subseteq pushed
    /\ \A w \in Workers : \A t \in ticket[w] : t.id \in pushed
    /\ \A o \in Operators, j \in Jobs :
         retry[o] \in {<<"create", j>>, <<"delete", j>>} => j \in pushed

(* Between the two writes of retry_failed, and of fail, the job is in both *)
(* tables, and no other call is between its own two: so no deletion takes  *)
(* the last copy.  NoJobLost rests on it.                                  *)
RetryInv ==
    \A j \in Jobs \ (succeeded \cup cleared) :
        /\ \A o \in Operators : retry[o] = <<"delete", j>> =>
            /\ Exists(j) /\ j \in failedRows
            /\ \A p \in Operators : retry[p] = <<"delete", j>> => p = o
        /\ \A w \in Workers : pc[w] = "delete" /\ Holds(w, j) =>
            /\ j \in failedRows
            /\ \A o \in Operators : retry[o] # <<"delete", j>>

(* The inductive invariant: what the safety properties rest on.            *)
SafetyInv ==
    TicketInv /\ HolderInv /\ StaleInv /\ KnownInv /\ RetryInv /\ OneRunner /\ NoJobLost

(* Every job that is pushed is answered: a run of it succeeds, it is       *)
(* recorded as failed, or an operator clears it.                           *)
EveryJobAnswered ==
    \A j \in Jobs : j \in pushed ~> j \in failedRows \cup succeeded \cup cleared

(* Queue::release: "Return a job to the queue for another attempt,         *)
(* available after `delay`": no claim takes a row before it is available.  *)
BackoffKept ==
    [][\A j \in Jobs :
         Exists(j) /\ ~rows[j].reserved /\ rows[j].availableIn > 0 /\ Exists(j)'
            => ~rows'[j].reserved]_vars

(* "`claim` incremented the stored count": no step takes an attempt back   *)
(* while the row stays.                                                    *)
AttemptsNeverForgotten ==
    [][\A j \in Jobs :
         Exists(j) /\ Exists(j)' => rows'[j].attempts >= rows[j].attempts]_vars

(* Queue::fail: "Move a job to the failed store after its last attempt":   *)
(* once a worker has used the last attempt up, the row goes away.          *)
LastAttemptLeavesQueue ==
    \A w \in Workers, j \in Jobs :
        (pc[w] = "fail" /\ Holds(w, j)) ~> ~Exists(j)
=============================================================================
