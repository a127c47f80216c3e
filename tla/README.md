# Rainier: a verification project in TLA+

Rainier is a web framework in Rust, some forty crates under `crates/`. These
modules model the part of it that keeps state between requests, processes and
machines and that has to stay correct while they interleave, stall and die:
the queues and the workers that drain them, the locks and rate limits kept in
a shared cache, unique jobs, the scheduler, the sessions of a browser, and the
migrations of a database. TLC checks each model on a
small instance; TLAPS proves every safety property that the runs check for
every value of the constants.

Paths below are relative to `crates/`.

## 1. Inventory

### What is modelled

| Component | State it keeps | Operations | Hard behaviour |
|---|---|---|---|
| `rainier-queue` `DatabaseQueue` | tables `rainier_jobs`, `rainier_failed_jobs` | push, reserve, acknowledge, release, fail, clear, reclaim_expired, retry_failed | several statements per method, optimistic claim, reservations that lapse |
| `rainier-queue` `RedisQueue`, stream commands of `rainier-drivers` | stream with a consumer group and its pending list, sorted set of delayed jobs, failed list | the same port; promotion of due jobs inside reserve | two to five commands per method, claims by idle time, a group that `clear` deletes |
| `rainier-queue` `KafkaQueue` | partitions of a log; in the cache a lease and a cursor per partition, a delivery count per offset | the same port; release_partitions | a log gives no acknowledgement, redelivery or delay: all three are made of cache keys |
| `rainier-queue` `QueueWorker::run`, `process`, `JobRegistry` | jobs in flight, counts per queue, error count, attempts, the failed hook | fill, wait, sleep, back off, drain, end; run, release, fail | one task polls the broker and the jobs; worker and job decide separately what the last attempt is |
| `rainier-queue` `PendingDispatch`, `SyncQueue`, `release_uniqueness` | a lock per unique id | claim, push, run, release the id | the claim, the push and the release are made by different processes |
| `rainier-cache` `Lock` | one entry with owner and TTL | acquire, extend, release, keep, drop, force_release | holders that overrun, die or are late |
| `rainier-cache` `CacheRateLimiter` and `ThrottleRequests` | counter key and deadline key | hit, peek, clear | a hit is three trips, a clear two, and both keys expire |
| `rainier-cache` `MemoryCache` (the `Cache` port) | entries with a TTL | add, put, forget_if, increment, purge | an expired entry is absent before it is removed |
| `rainier-scheduler` `ScheduledTask::run`, `Schedule::run_due`, and `schedule:work` of `rainier-framework` | claim per minute, overlap lock | pass, claim, start, finish | several machines, late passes, crashes with a lock held |
| `rainier-scheduler` `CronExpression` | parsed fields | parse, matches, next_after | ends of months, leap days, day of month *or* day of week |
| `rainier-scheduler` task builder and boot check | expression, recorded error | cron, daily_at, on_days, boot | a later call hides what an earlier one got wrong |
| `rainier-session` `StartSession`, `Session`, the server-side stores, `VerifyCsrfToken`; login and logout of `rainier-auth` | a bag per id with its flash keys and token; two cookies in the browser | load, put, flash, keep, pull, regenerate, invalidate, save, destroy, gc | requests overlap, each with a copy of the whole bag; the store fails in the middle |
| `rainier-database` `Migrator` | the ledger, and the schema | run, rollback | machines boot at once, without a lock; a step is several statements and a row |

How they interact:

- A dispatch takes a lock (`Lock` over the cache), then pushes to a queue.
  Workers reserve from the queue, run the handler, settle the job
  (acknowledge, release or fail) and give the unique lock back.
- `reclaim_expired` and the consumer group's idle time return what dead
  workers held. An operator moves failed jobs back, or clears a queue.
- Middleware hits the rate limiter; a login that succeeds clears it.
- Every machine runs the scheduler; it agrees with the others only through
  two locks in the cache.
- A Kafka worker holds its partitions by the same lock, and keeps cursors and
  counts in the same cache.
- A browser and the session store agree through a cookie; every request takes
  the bag at its start and puts it back at its end.
- Every machine runs the migrations when it boots; the ledger is all they share.

Nothing here shares memory across processes: every shared step is one SQL
statement, one Redis command or one call of the `Cache` port. That is the grain
of the models.

### What would make it correct

- Queues: a pushed job is never lost; one worker has it at a time while
  reservations outlive handlers; the attempt it runs as is the one on record;
  it is answered in the end.
- Worker: limits hold however jobs land; a stop ends the run; a job is given up
  when its allowance is used up, with its hook, and not before; a pushed job is
  answered although settlings fail and runs give up.
- Unique jobs: one pending at a time; a dispatch is dropped only for a reason;
  an id does not stay locked.
- Locks: one lease at a time, although holders overrun; an abandoned lock
  comes free; a waiting acquire answers.
- Rate limits: at most the allowance per window (two around a boundary); no
  window is prolonged, or lasts for ever; `retry-after` is true.
- Sessions: an outage of the store signs nobody out; what was destroyed stays
  destroyed; flash data lives for one request; both cookies belong to one session.
- Migrations: what is recorded is applied, in an order that can be undone;
  a step that was interrupted is completed by a later boot.
- Scheduler: an occurrence runs once, runs do not overlap, and an occurrence
  somebody could have run is not given away; cron finds the first due day.

### What is not modelled

`PROJECT.json` lists every other part with its reason. In short:

- *Planned* (section 9): the memory queue, events, the container, database
  connections, the OAuth server, accounts, billing webhooks, broadcasting, the
  server's shutdown, the HTTP client's retries.
- *Functions of one request or one call, without state between calls*: HTTP,
  routing, the middleware pipeline, validation, views, query building, the
  ORM, OpenAPI, the console.
- *Calls of an outside service or codecs*: mail, notifications, files,
  drivers, cryptography, compat.
- *Observers*: metrics, telemetry, debug pages.

By lines the models stand for a small share of the repository: most of it is
tests, builders, codecs, configuration and calls of services, which keep no
state that could go wrong between two steps. They stand for most of the code
that coordinates processes.

## 2. Modules

| Module | Models | Extends / composes |
|---|---|---|
| `DatabaseQueue` | `rainier-queue/src/database.rs`, under the workers of `worker.rs` | |
| `RedisQueue` | `rainier-queue/src/redis.rs`, `rainier-drivers/src/redis_streams.rs` | |
| `KafkaQueue` | `rainier-queue/src/kafka.rs`, under the workers of `worker.rs` | `CacheStore` |
| `CacheStore` | one entry of the `Cache` port (`rainier-cache/src/memory.rs`) | used by the lock, the limiter, unique jobs, the scheduler and Kafka |
| `AtomicLock` | `rainier-cache/src/lock.rs` | `CacheStore`, implements `Lease` |
| `Lease` | what a lock promises | abstract |
| `CacheRateLimiter` | `rainier-cache/src/rate_limit.rs` under `ThrottleRequests` | `CacheStore`, implements `FixedWindow` |
| `FixedWindow` | the `RateLimitStore` port, and `MemoryRateLimitStore` | abstract |
| `UniqueDispatch` | `send` of `manager.rs` with `release_uniqueness` of `worker.rs` | `CacheStore`, over an abstract queue |
| `Scheduler` | `task.rs`, `schedule.rs`, `rainier-framework/src/scheduling.rs` | `CacheStore` |
| `WorkerLoop` | `QueueWorker::run`, `process_untraced`, `handle_failure`, `JobRegistry` | |
| `CronExpression` | `rainier-scheduler/src/cron.rs` | operators and the steps of the search |
| `ScheduledTaskBuilder` | the builder half of `task.rs` and the boot check, up to the next run | `CronExpression` |
| `Session` | `rainier-session/src/middleware.rs`, `session.rs`, `csrf.rs`, the stores; `rainier-auth/src/guard.rs` | |
| `Migrator` | `rainier-database/src/migrator.rs` | |
| `CacheProofs` | theorems about the lock, the rate limiter and unique jobs | `AtomicLock`, `CacheRateLimiter`, `UniqueDispatch` |
| `SchedulerProofs` | theorems about cron, the builder and the scheduler | `ScheduledTaskBuilder`, `Scheduler` |
| other `*Proofs` | the theorems of section 7 | the module of that name |
| `MC*` | the instances of section 4 | the module of that name |

Conventions. An action is one atomic step of the code as the outside sees it.
What a process remembers between two steps is a variable (`ticket`,
`candidates`, `stale`, `retry`, `endsAt`, `at`). A crash drops it and nothing
else, and stands also for a statement that answers with an error, after which
the method returns. Time is relative, in ticks: an entry, a row or a
reservation holds the ticks it has left. A definition whose comment begins
with "Mutant" is a variant of its neighbour with a plausible slip in it; it
occurs in no specification, and each shows that a property would notice. Where
one module of proofs extends several models, the names they share carry the
model's name (`LimiterSpec`, `DispatchTick`, `SchedulerTypeOK`).

### DatabaseQueue

`rows` and `failedRows` are the tables. `reserve` is `Select` (the candidates,
up to `ClaimLimit`) and then one `ClaimWins` or `ClaimLoses` per candidate, the
optimistic `UPDATE … WHERE reserved_at IS NULL`, which writes the attempt count
computed from the candidate as it was selected. `HandlerOk` and `HandlerErr`
are the run, `Acknowledge` and `Release` one statement each, `fail` two
(`FailInsert` or `FailRefused`, then `FailDelete`). `reclaim_expired` is
`ReclaimSelect` and a `ReclaimUpdate` per row, `retry_failed` is `RetryFind`,
`RetryCreate`, `RetryDelete`. `CrashWorker`, `CrashReclaimer` and
`CrashOperator` may fall between any two. Left open: the order in which
candidates are tried. Left out: payloads, and the errors a database reports
about itself.

### RedisQueue

`copies` is everything stored, by handle (a stream entry's id or a member of
the sorted set), with its place: delayed, new, pending or acked. `reserve` is
`CreateGroup`, `Promote`, `Claim` or `ClaimNothing`, `Read` or `ReadNothing`;
`NoGroup` is the error of a group that `Clear` deleted. `release` and `fail` are a
store (`Release`, `Fail`), an `Ack` and a `Delete`. The attempt is counted in
the worker's ticket, and the stored entry is one behind. Left out: an entry that
is not a job, eviction and lost writes inside Redis; `renew` has no caller.

### KafkaQueue

`log` is the partitions, `first` what retention has left of them; `lease`,
`cursor` and `counted` are the cache's. A worker has slots, its concurrency, and
its loop reserves for one at a time. `reserve` goes partition by partition:
`StillOurs` and `Renew` (the two trips of `extend`), `LeaseLost`, `Acquire` or
`Refused`; `StartOf` reads the cursor, `Fetch` the record, and then it is
`Rejoin` (retention was faster), `Skip` (not a job), `FetchNothing` (none, or
none that is due), or `CountAttempt` and `StampAttempt`, after which the slot
runs the job. `Release` and `Fail` produce a record, and then, as in
acknowledge, come `ForgetAttempts` and `Commit`. A clear is `ClearRead` and
`ClearCommit`. `Crash`, `CommandFails`, `Stray` records and retention
(`Retire`) happen up to `MaxEvents` times. `torn` records a fault between two
commands that belong together. Left out: several queues, the TTL of a delivery
count (a day), and a change of the number of partitions.

### AtomicLock, Lease, CacheStore

`CacheStore` is what a call of the port does to one entry: `Live`, `Add`,
`ForgetIf`, `Increment`, `Reap`, `AgeEntry`. `AtomicLock` has `Ask`, `Acquire`,
`GiveUp` for acquire with a wait, `ExtendRead` and `ExtendWrite`, `Release`
(`forget_if`), `Abandon` (drop, keep or death), `ForceRelease`. `lease[p]` is
what the process may count on, `entry` what the cache says. `Lease` knows only
a holder that is granted and ends.

### CacheRateLimiter, FixedWindow

A hit is `Open` or `Join` (the `add` of the counter), `WriteDeadline` or
`ReadDeadline`, and `Count` (the increment and the verdict of
`ThrottleRequests`). `Outage` is a cache error at any trip: the throttle lets the
request through. A clear is `ClearCounter` and `ClearDeadline`. `crossed`
records that a tick or a clear has fallen into the middle of a hit. `recent`
counts what was let through in this tick and so many before it, up to a window.

### UniqueDispatch

Dispatches of one unique id: `ClaimHeld` or `AlreadyQueued`, then `Push` or
`PushRefused`; with `Sync` the push runs the job. The queue is what the port
promises: `Reserve`, `Settle`, `ReleaseJob` and `Lapse`. `ReleaseUniqueness` is the
worker's last step. `Outlives` and `Overruns` switch on jobs that last longer
than `UNIQUE_FOR` and reservations that lapse under a live worker.

### WorkerLoop

The loop: `Top` (finish, wait or poll), `Take`, `Skip` and `Nothing` through
the queues in order of priority, `BrokerError` with its count, `Wake`. Jobs
advance only while the loop waits for one. A handler ends as `HandlerOk`,
`HandlerErr` (with the hook, if the job believes it was its last attempt) or
`CutShort` (timeout, panic, unreadable payload: without, unless it was the hook
that was cut). Then the worker settles, by its own count: `Settle`
(acknowledge, release or fail), or `SettleError`, whose call the driver has
carried out unheard of or not at all. In the second case the job is `stuck`,
reserved with nobody working on it; so is what a run drops when it gives up
(`GiveUp`). `Reclaim` is the driver that hands such a job out again, with the
attempt counted (the database) or forgotten (Redis), `Restart` the next run of
the worker. `lapses` counts the reservations a job has lost in this way.
`Options` holds every setting the run is to check. Left out: the length of the
retry delay, and a reservation that runs out under a running attempt (the
drivers' modules have that).

### Scheduler, CronExpression, ScheduledTaskBuilder

`Pass` fixes the minute; `ConditionFalse`, `Claim` or `AnotherServer`, `Start` or
`StillRunning`, `Finish` are the branches of `ScheduledTask::run`; `Interrupt` is a
crash or a cache error. The tasks that a pass runs before this one only make
it late, by up to `MaxLate`. `CronExpression` has the three day fields at
midnight, parsed as the code does, and the search one day at a time; the
reference it is compared with (`Listed`, `Due`) is read off the doc of the
fields. `ScheduledTaskBuilder` puts it to use: every chain of calls that set the
expression, the boot check, and the search for the next run of what came of it;
`wanted` is what the calls ask for, and `failed` what went wrong on the way.

### Session

A request goes from `Send` through a load (`LoadNone`, `LoadFound`,
`LoadExpired` with its `Reap`, `LoadFails`), `Verify`, at most one call of the
handler on the bag (`Put`, `Flash`, `Keep`, `Pull`, `Login`, `Logout`), `Finish`
(the XSRF cookie) or `FinishUntold` (the same without the cookie: turned off,
not minted on a read, or a value that cannot be sealed), `Save`, a `Destroy` for
each superseded id, `Write`, and `Respond` or `LoseResponse`. A request that
passes without a token (it only reads, its path is excepted, its origin is
vouched for) is `exempt`; any other presents whatever token there ever was, the
current one of a front end or a form, an old one, or none (`Presented`). One that is refused (419) is
saved like any other, and gets no XSRF cookie. Every trip to the store is a step
of its own, and requests interleave at every step. Of a bag two keys are kept,
the identity and a note. `Revoke` is `SessionManager::destroy`, `Gc` the sweep.
`signed` and `note` are what the user of the browser has reason to expect;
`dead`, `reopened`, `overlapped`, `disturbed` record what happened; `bare` says
that a session has been stored without a token, `astray` that the last response
to move a cookie moved only one of the two. Left out: handlers that make several
calls (a login that also flashes), the client-side cookie store, and rows that
do not parse. `NoteAfter`, what is expected of a note, has the code's result for a
`put` over a flashed note (section 6, `PutStored`).

### Migrator

A step is its place in the order of declaration, and its statements the
effects they have; `Raw` steps have statements that fail when their work is
done already, the others pass over it; a database that enforces its keys refuses
to undo what others build on, and one that does not accepts it for the steps in
`Lax`. `Run` reads the ledger once; `Up` is one
statement, accepted or not, `Record` the insert, which the primary key refuses
to the second machine. `Rollback` fixes its targets, `Down` and `Forget` undo
them one by one. `Cut` is a crash or an error between any two. `torn` records
that a command stopped where no later one makes it good: a rollback in the
middle of a step, or a `Raw` step half done. `RollbackAlone` says that an
operator does not roll back while machines boot; nothing in the code prevents
it (section 6). The list of steps is fixed and the ledger begins with none of
them recorded, names of steps since `Retired` apart. A step that is declared
later between two others (in a list that `merge` puts before them,
`migrator.rs:383`) is not in the model: it would be recorded in a later batch than its successors, and
`LedgerInOrder` would not hold. Left out also: the rendering of SQL, and statements other than those
that make or undo one thing.

## 3. Environment assumptions

- A SQL statement, a Redis command and a call of the `Cache` port are atomic
  and durable (marked external in `PROJECT.json`).
- Clocks: one clock per instance. Skew between machines is not modelled.
- `generate_id`, `mint_owner` and `generate_session_id` never repeat a value.
- `extend` reads its lease and then writes it (`rainier-cache/src/lock.rs:341`).
  That the lease is not lost between the two is the constant `FastExtend`, of
  `AtomicLock` and of `KafkaQueue`, true in the runs and a hypothesis of the
  theorems that need it; section 6 has what happens without it.
- In `WorkerLoop` the reservation of an attempt that is under way does not run
  out, and a job loses at most `MaxLapses` reservations.

## 4. Runs

| Run | Instance | Properties | Distinct states |
|---|---|---|---|
| `database_queue` | 1 job, 2 workers, 1 reclaimer, 2 operators, 2 crashes, 2 retries, 1 clear | OneRunner, AttemptMatchesRow, NoJobLost, EveryJobAnswered | 459 461 |
| `redis_queue` | 1 job, 2 workers, 4 handles, 2 crashes, 1 clear | NoJobLost, EntryExclusive, AttemptsCountedUninterrupted, EveryJobAnswered | 523 596 |
| `kafka_queue` | 1 job, 1 partition, 2 workers of one slot, 2 faults or other events | NoJobLost, OneInFlight, AttemptsCountCrashes, EveryJobAnswered | 305 569 |
| `kafka_slots` | 1 job, 1 worker of two slots, no faults | OneInFlight, **violated** | |
| `atomic_lock` | 3 processes, TTL 2, waits 0 and 1, extend, 1 force_release | LeaseExclusive, LeaseRefined, LockFreed, AcquireAnswers | 3 550 |
| `rate_limiter` | 2 requests at a time, limit 1, window 3, 1 clear | TwoAllowancesAtMost, RetryAfterTrue, UncrossedWindowExpires, FixedWindowRefined | 145 080 |
| `unique_dispatch` | 3 dispatches, 2 workers, refused pushes, 2 crashes | OnePending, ReleasedWhenOver, UndisturbedDropMeansPending, IdFreed | 6 982 |
| `worker_loop` | 3 jobs, one of which may fail (TRIES 2), 2 queues (the first limited), 2 slots, max_jobs 2, `--tries` 3 and 1, errors of reserve and settling, 1 lost reservation per job, next runs, stop, max_time | WithinLimits, RunsWithinAllowance, HookForTheGivenUp, EveryJobAnswered, StopEnds | 254 407 |
| `scheduler` | 3 machines, 2 minutes of 3 ticks, passes up to 2 ticks late, 1 fault | OncePerMinute, NoOverlap | 9 034 |
| `cron` | chains of 3 calls over 66 expressions, 4 start dates, 4 × 366 days | GivesUpOnlyOnNever, NextIsEarliest | 119 615 |
| `session` | 3 requests, 2 at a time, with any token or none, 1 failed call, response lost or without its XSRF cookie, revocation or tick | StaysSignedIn, DestroyedStayDead, FlashedForOneRequest, XsrfOfItsSession | 2 655 606 |
| `migrator` | 3 machines, 3 steps of 2 statements (one raw, one lax), 1 name retired, 2 cuts, 2 rollbacks | RecordedIsApplied, LedgerInOrder, EventuallyMigrated | 136 240 |

What they show:

- `database_queue`: with a reservation at least as long as the slowest handler
  and one `reclaim_expired` at a time, two workers never have one job, its
  attempt number is the row's, and no
  order of the statements of `fail` and `retry_failed`, nor a crash between
  them, loses a job; under fair polling every job is answered.
- `redis_queue`: the same contract, at least once, through XADD, XAUTOCLAIM,
  XACK and XDEL; a count of attempts that is right as long as nobody died.
- `kafka_queue`: the same again, out of a lease, a cursor and a counter. With a
  lease longer than the slowest job and not lost within an `extend`, and workers
  of one slot, one job of a partition is in flight; the number of an attempt counts the deliveries that
  killed their worker, which Redis does not; and no order of commits by owners
  old and new moves the cursor past a job nobody settled.
- `kafka_slots`: section 6.
- `atomic_lock`: a process may overrun its TTL and run beside the next holder,
  but its late release frees nobody else's lease. The lock is a `Lease`.
- `rate_limiter`: the boundary effect of a fixed window and no more than it,
  even when requests stall inside a hit. Up to the first tick or clear inside
  a hit the two keys are one `FixedWindow`; after it they need not be (section 6).
- `unique_dispatch`: one dispatch pending at a time, through retries, refusals
  and crashes; the id comes free.
- `worker_loop`: no limit is passed; a job runs no more often than the larger
  of its own and the worker's number of attempts and once more for each
  reservation lost, and is given up only then; one that is given up has had its
  failed hook, which repeats only for attempts beyond the job's own number and
  for lost reservations; every pushed job is answered although settlings fail
  and runs give up with jobs in flight; a stop ends the run.
- `scheduler`: one run per minute while passes are less than a minute late,
  and no overlap after any crash.
- `cron`: a task that was given nothing wrong next runs on the first day that
  its chain of calls makes due, over month ends and leap days.
- `session`: a store that cannot be read signs nobody out; a destroyed session
  comes back only from a request that had it already; flash data lives for one
  request, where each request makes one call on the bag; the XSRF cookie is the
  token of the session the browser names, whatever tokens requests present and
  however they overlap, except from a response that moves one of the two
  cookies alone to the next that brings both.
- `migrator`: machines that race for the same steps leave a ledger in order,
  with nothing recorded that is not applied; whatever a boot leaves half done
  the next completes, if its statements can be repeated.

Bounds, and why they are enough to meet the interesting cases. Two workers are
what a race for one row takes; two crashes let a second fall into the recovery
from the first; two operators and two retries let two `retry_failed` calls meet
on one job; four handles hold a job's first entry, two retries and a duplicate
of a retry. `Reservation` is one tick in `database_queue` (a reservation is over
only when strictly past) and two in `redis_queue`, the smallest values at which
a live worker keeps its job and a dead one's comes back. A TTL of 2 lets a
lease be alive, about to end and over. A window of 3 has an inside. Two events let a Kafka worker
die in the recovery from another fault, or after a clear; two partitions (802 748
states) and two jobs (922 162) with one event show nothing further. Three
requests are a sign-in, one that overlaps it or its successor, and one that
sees what became of it. One lost reservation per job lets a job come back in the
same run, or the next, with its attempts used up. Three machines let one find the ledger that two others
are racing for; two statements have a between. The
safety properties do not depend on any of these bounds: section 7 proves them
for every value (`GivesUpOnlyOnNever` for every search that begins from 1901 to
2095). Counters that
could grow (`AttemptsCap`, `TakenCap`, counts above the limit) are saturated
where their exact value no longer matters. Symmetry is used in the scheduler
and the sessions only, for machines and requests that differ in nothing, and
never with a liveness property.

Deadlock is checked in the runs whose system never stops. It is off where the
system does stop: a worker that was told to stop ends, a search is over, a chain of calls
boots, the modelled minutes pass, every dispatch has been answered, a browser
sends no more requests, everything is migrated.

## 5. Fairness

Weak fairness of a process's next step says that a live process goes on; the
code's runtime gives that to a task that is not blocked. In particular:

- workers poll in a loop, and a handler ends, by itself or by the worker's
  timeout: `WorkerStep`;
- `reclaim_expired` is run again and again, as `docs/deployment.md` asks (nothing in the
  framework schedules it): `ReclaimStep`;
- time passes: `Tick` (`LimiterTick`, `DispatchTick`). It is *strongly* fair in `AtomicLock`, `CacheRateLimiter`
  and `KafkaQueue`, where a guard keeps a tick out of the trips of a running
  call and calls can follow each other for ever: a clock does not wait for them;
- in `Migrator` a command goes on, and a machine that finds steps pending boots
  again: `CommandStep`, `Run`;
- in `WorkerLoop` the loop goes on, a job it polls comes to an end, and a
  supervisor starts a worker that has ended again, unless it was told to stop
  (`LoopFairness`); the broker answers every reserve and not always with an error,
  and what has been reserved for too long is handed out again (`BrokerFairness`). `SpecUnreachable` is without the
  second.

Nobody is obliged to push, dispatch, release, retry, clear, stop or crash, and
crashes are finitely many: with infinitely many no job need ever be finished.

## 6. Where code and docs disagree

One has a run of its own: `kafka_slots`. The owner of a partition may reserve
from it again, and the cursor stays where it is until a job is settled: a worker
with concurrency above 1 takes the record it is still running, and runs the job
twice at once (`rainier-queue/src/kafka.rs:264`), where the docs have "one job in
flight each".

The modules state further promises of the docs that no run lists. Each is
violated: add the definition to the named cfg, in place of its properties,
with the change given.

| Definition | cfg (change) | The code |
|---|---|---|
| `OneRunner` | `MCDatabaseQueue` (`Reclaimers = {r1, r2}`) | overlapping `reclaim_expired` calls write back whole rows, unconditionally; the later one un-reserves a row claimed since (`rainier-queue/src/database.rs:197`) |
| `BackoffKept` | `MCDatabaseQueue` | a candidate selected before another worker's release is claimed during its backoff (`:258`) |
| `AttemptsNeverForgotten` | `MCDatabaseQueue` | the claim writes the count of an old candidate (`:260`) |
| `LastAttemptLeavesQueue` | `MCDatabaseQueue` | after a crash between `fail`'s insert and delete, every later `fail` is refused by the primary key (`:349`) |
| `AttemptsCountRuns` | `MCRedisQueue` | a delivery that ends in a crash is not counted (`rainier-queue/src/redis.rs:318`) |
| `NothingKept` | `MCRedisQueue` (drop `crashes = 0`) | an entry acknowledged and not deleted stays in the stream (`rainier-drivers/src/redis_streams.rs:150`) |
| `LastAttemptIsLast` | `MCKafkaQueue` | a job that kills its worker on every delivery is handed out again after the last one: the limit is looked at only when a handler has returned (`rainier-queue/src/kafka.rs:324` "makes the fourth one the last one") |
| `OneInFlight` | `MCKafkaQueue` (`FastExtend = FALSE`) | a lease that runs out between the two commands of `extend`, and is taken by another worker, is written over (`rainier-cache/src/lock.rs:341`) |
| `ClearedStayCleared` | `MCKafkaQueue` | a job in flight during a clear commits its own, earlier cursor (`:346`) |
| `LateReleaseMeansTaken` | `MCAtomicLock` | `release` answers false also when nobody else came (`rainier-cache/src/lock.rs:321`) |
| `RetryAfterTrue` | `MCCacheRateLimiter` (drop `~crossed`) | a window opened between the trips of a clear keeps the old deadline (`rainier-cache/src/rate_limit.rs:123`) |
| `WindowExpires` | `MCCacheRateLimiter` | a counter that expires between `add` and `increment` is created anew without a TTL, and its window never ends (`:103`) |
| `DroppedMeansPending` | `MCUniqueDispatch` | a push that fails leaves the id locked (`rainier-queue/src/manager.rs:183`); with `Sync = TRUE` the lock of a finished job stands as well (`:39`) |
| `ReleasedWhenOver` | `MCUniqueDispatch` (`Outlives = TRUE`) | `release_uniqueness` removes whatever lock stands under the key (`rainier-queue/src/worker.rs:1173`) |
| `DrainedEitherWay` | `MCWorkerLoop` | giving up drops the jobs in flight (`:860`) |
| `RoomIsFilled` | `MCWorkerLoop` | the loop waits for a running job with slots free (`:891`) |
| `RunningJobsLand` | `MCWorkerLoop` (`SpecUnreachable`) | jobs do not advance while a reserve is unanswered (`:817`) |
| `HookAfterFinalAttempt` | `MCWorkerLoop` | `failed` is called by the job's own limit only, after no timeout or panic, and again when a job comes back because its settling failed (`rainier-queue/src/job.rs:507`) |
| `OncePerMinute` | `MCScheduler` (`MaxLate = 4`) | the claim lasts 60 s, a pass can be later (`rainier-scheduler/src/task.rs:471`) |
| `SkipMeansServed` | `MCScheduler` (no SYMMETRY) | the minute is claimed before the overlap lock is asked for: who claims may skip, and the others have left (`:466`) |
| `GivesUpOnlyOnNever` | `MCScheduledTaskBuilder` (`LeapDays`, `CenturyStarts`) | from 2096 the next 29 February is eight years away (`rainier-scheduler/src/cron.rs:147`) |
| `AtOrAfter` | `MCScheduledTaskBuilder` | the search starts after `from` (`:145`) |
| `BareStepIsRange` | `MCScheduledTaskBuilder` (`SteppedDays`) | a stepped day of week runs on to 7, Sunday (`:221`) |
| `DaysAsAsked` | `MCScheduledTaskBuilder` | `on_days` does nothing to `@daily` (`rainier-scheduler/src/task.rs:276`) |
| `WrongExpressionRefused` | `MCScheduledTaskBuilder` | a later call that parses drops the recorded error (`:509`) |
| `MalformedTimeRefused` | `MCScheduledTaskBuilder` | a time that does not parse becomes midnight (`:547`) |
| `LogoutFinal` | `MCSession` (no SYMMETRY) | a request under way during a logout writes the old session again and moves the cookie back to it (`rainier-session/src/middleware.rs:215`; `docs/sessions.md:170` "invalidates **everything**") |
| `XsrfNeverParted` | `MCSession` | a request without its session still announces a token, of a bag that is not kept (`rainier-session/src/csrf.rs:264`; `middleware.rs:145` "nor moves the cookie"); with `MaxEvents = 0`, without an outage: a refused request, which gets no XSRF cookie (`csrf.rs:305`), is saved during a logout and moves the session cookie back (`middleware.rs:228`) |
| `PutStored` | `MCSession` (no SYMMETRY) | a value put over one flashed by the request before is dropped with it (`rainier-session/src/session.rs:276`) |
| `LiveIsKept` | `MCSession` (no SYMMETRY) | the delete of an expired row does not look at it again, and removes one that another request has just renewed (`rainier-session/src/database.rs:88`) |
| `RunsAtMostOnce` | `MCMigrator` | machines that boot at once, and a boot after an interrupted one, run a step again (`rainier-database/src/migrator.rs:427`; `:5` "each runs at most once") |
| `DependantsFirst`, `RecordedIsApplied` | `MCMigrator` (`RollbackAlone = FALSE`) | a rollback beside a booting machine undoes what the other builds on (`:463`) |

## 7. Proofs

For every set of jobs, workers, slots, partitions, processes, machines,
requests, handles and operators, every TTL, reservation, limit, window and
delay, and any number of crashes. The assumptions on the constants are the named
ASSUMEs of the modules (numbers are numbers, "nothing" is not a thing); each
theorem states what else it needs of a deployment.

**DatabaseQueueProofs.** `TypeCorrect`, `SafetyCorrect`, `OneRunnerCorrect`,
`NoJobLostCorrect`, `AttemptMatchesRowCorrect`, `LiveReservationCorrect`; all
but the first under `WellConfigured`: the reservation lasts at least as long as a
worker may hold a job, and `reclaim_expired` calls do not overlap.
`OneRunner` is not inductive: from a state in which a worker runs a job whose
row is free, another could claim it. `SafetyInv` adds what excludes such states.
`HolderInv`: a busy worker's row is there, reserved, with exactly the time left
that its own clock gives it, and with its attempt number. `StaleInv`: a row a
reclaimer is about to write back is still lapsed, so no held row is among them.
`KnownInv` and `TicketInv` tie ids to pushes and tickets to program counters.
`RetryInv`, for `NoJobLost`: between the two writes of `retry_failed`, and of
`fail`, the job is in both tables and no other call is between its own two, so no
deletion takes the last copy. The frame lemmas `ReservationFrame` and
`NoLossFrame` state once what a step that touches nothing relevant preserves.

Two promises that fail between workers (section 6) are proved for one:
`BackoffCorrect` (`BackoffKept`) under `OneWorker` alone, and `AttemptsKeptCorrect`
(`AttemptsNeverForgotten`) under `WellConfigured`, `OneWorker` and no clear. The
claim writes from a row it read earlier and looks at `reserved_at` only, so what
has to be invariant is that nobody's copy is out of date: `AvailableInv` (a
candidate's row, a reserved row and a row about to be written back are
available) and `CountInv` (each of them has the count its holder read). A clear
would break the second: the job is retried into a fresh row while a reclaimer
still has the old one.

**RedisQueueProofs.** `TypeCorrect`, `SafetyCorrect` and `NoJobLostCorrect` need
nothing, not even that reservations outlive handlers. `EntryExclusiveCorrect`
needs `WellTimed` (a worker is faster than a reservation). The heart of
`NoJobLost` is `SettledFirst`: before a worker acknowledges, its job is answered
or stored again *under a count at least its own*. Without the count the
invariant is not inductive: two workers holding old copies could each count on
the other's. `HeldCopies` (what a worker holds is what is stored, one attempt
behind) keeps the counts apart. `EntryExclusive` rests on `IdleAsHeld`: an entry
has been idle for as long as its worker has had it, so it is never idle enough
to be claimed. `AttemptsCorrect`, until a worker dies: the number a handler runs
as is the number of times its job was taken. The count is carried by the copy
that waits or by the worker that runs or releases the job; `CountInv` says that
there is one carrier at most, that it has counted every delivery, and that no
pending entry is without a worker, so none is claimed. `MaxAttempts <= TakenCap`
keeps the model's history variable from saturating; it asks nothing of the code.

**KafkaQueueProofs.** `KeptCorrect` and `NoLossCorrect` need nothing. `KeptInv` is the
heart: for every offset that is a cursor, a place a slot has read from or about
to be committed, whatever of the partition's jobs lies before it only is
answered (`Kept`). The code writes the cursor without looking at it, so it may
go back, and nothing about the cursor alone is inductive; that every value
somebody still has in hand is harmless is. `OneInFlightCorrect` and `CursorCorrect`
(until a clear, no cursor goes back) need `WellTimed` (a lease outlives the
slowest job and is not lost between the two commands of `extend`) and `OneSlotEach` (one slot per worker); `kafka_slots` shows that the
second cannot be dropped. `LeasedInv` says that the time a slot has been at work
and the time its lease has left add up to the lease. `CrashesCounted`: the number
of an attempt counts every delivery, those that killed their worker too, until a
fault comes between commands that belong together or a queue is cleared.
`TallyInv` has one record of each job ahead of the cursor (`SoleRecord`), and the
takings of its job equal the record's own attempts and the count of its offset,
for a record at rest (`RecordsTallied`) and for one at work at each of its steps
(`SlotsTallied`). Its further hypothesis, `MaxAttempts + MaxEvents <= TakenCap`, is
again about saturation only.

**CacheProofs.** Of the lock: `TypeCorrect`, `HolderCorrect`, `LeaseExclusiveCorrect`
and `LeaseCorrect`. `HolderOwnsEntry` is the inductive invariant: until somebody
forces the lock, a process that acts as holder is within its TTL exactly when
the entry is its own. Hypothesis: neither the end of the lease nor a
force_release falls between the read and the write of `extend` (`FastExtend`), the
gap its comment names. `LeaseCorrect` is the refinement of `Lease`: initial
states map to initial states and every step to a step or a stutter, with
force_release included; it too needs only that `extend`, if used, is undisturbed.

Of the rate limiter: `RateTypeCorrect`, `AnchoredCorrect` (no hit moves the expiry
of a live counter), `RetryAfterCorrect`, and `FixedWindowCorrect`, the refinement of
`FixedWindow` up to the first tick or clear inside a hit. `WindowInv` is what the
two keys have to do with each other until then: the counter lives while anybody
hits and nothing is half cleared, a live deadline is the counter's expiry, and
what a request is about to report is not before it. The refinement alone is not
inductive: an increment is a step of `FixedWindow` only because the counter it
meets is alive.

`AllowancesCorrect` (`TwoAllowancesAtMost`) needs nothing: it holds wherever hits
stall and are crossed. The bound alone is not inductive, since it does not say
which window spent what. `AllowanceInv` does: a stretch of ticks no older than the
window in force holds only what that window has counted, and one that reaches
back beyond its opening at most one allowance more, each apart from one
allowance per clear. A window opens only when no stretch reaches back to more
than one before it.

Of unique jobs, where no job outlives `UNIQUE_FOR` and no reservation lapses under
a live worker: `DispatchTypeCorrect`, `OnePendingCorrect`, `ReleasedWhenOverCorrect`
and, with a queue that keeps jobs, `DropCorrect`. The invariant `LockCoversPending`:
whatever is pending is what the live lock was taken for, and its worker and the
queue agree about it. `LockIsPending`, for `DropCorrect`, is the converse while
nothing has failed: a live lock has its dispatch pending.

**SchedulerProofs.** Of cron and the builder: `TypeCorrect`, `NextRunCorrect`,
`FourYearsSuffice`, for every set of expressions and days, good and bad, and
chains of any length. `NextRunCorrect` (`NextIsEarliest`) has no hypothesis.
`MatchesIsDue` shows that what the code makes of the parsed sets is what the doc
of the fields says, field by field and part by part (`PartListed`, `FieldListed`,
`DayOfWeekListed`); `BuildInv` relates the expression in force to what the calls
ask for, through calls that fail and calls that make them good.

`FourYearsSuffice` (`GivesUpOnlyOnNever`) has the hypothesis `FourYears`: the
horizon is the code's 4 * 366 days or longer, and searches begin from 1901 to
2095, where every fourth year is a leap year. Section 6 shows that it fails from
2096. The days are numbered (`Ord`), and `NextDayOrd` shows that the next day has
the next number, at the ends of months, years and Februaries. `SearchInv`: the
search has gone from day to day, with the weekdays in turn, and no day it passed
matches. The induction is thus over the steps of the search and none over
the calendar is needed. It remains that a day that some month of the expression has
is ahead: the next 29 February at most 1461 days (`LeapDayAhead`), any other
date (`DateReached`) and any weekday in a month (`WeekdayReached`) within the next
year. A search that ends without a match would have passed it.

Of the scheduler: `SchedulerTypeCorrect`; `OncePerMinuteCorrect`, under `Punctual` (a pass
is less than a minute late), from `ClaimInv`: while a machine may still come to
the task for a minute, the claim that was taken for it stands, and one machine
has it; `NoOverlapCorrect`, from `LockedWork`: who works has the live lock.
`SkipCorrect` (`SkipMeansServed`), where there is no overlap lock and nothing
fails: `ServedInv`, a claim that stands has been served or is about to be. Section
6 shows that a claimant who skips for the overlap lock breaks it.

**WorkerLoopProofs.** `TypeCorrect`; `LimitsCorrect` (concurrency, each queue's limit,
max_jobs, and counts that do not drift), where `LimitsInv` adds that there is room
at every reserve, because nothing lands between the check and the take.
`AllowanceCorrect` (`RunsWithinAllowance`) and `HookCorrect` (`HookForTheGivenUp`), for
drivers that count a lost reservation and for drivers that forget it. Neither is
inductive: what a job may still run depends on where it is. `RunsInv` says for
each place how the runs, the driver's number and the lost reservations go
together (`Allowed`: a job that waits, or is stuck, has a run left in its
allowance and the reservations it lost), and that there are no more hooks than
runs past the job's own number, the one under way excepted (`Hooked`). No
hypothesis, and no bound on the reservations lost.

**SessionProofs.** `SafeCorrect` and `DeadCorrect`: `SafeInv` bounds every id in use by
the last one minted, so that a new id is nobody's, and says that a request that
will still write holds no dead id it did not have when it died. `XsrfCorrect`:
`TokenInv` says that there *is* an assignment of tokens to ids to which the store,
every bag and both cookies keep, while every stored session has a token (`bare`)
and, for the cookies, until a response moves one alone (`astray`). A token is made lazily, at first use, so the
assignment is chosen anew as requests go on, and that needs `SoleOwners`: an id
without a token yet is known to one request only. `SignedCorrect`: `SignedInv` says,
while nothing disturbs, that every bag of a signed-in browser has the identity
and that a sign-in or sign-out under way is alone. `FlashCorrect`: `NoteInv` ties
the bag in hand, what it will save and what is stored to what the calls so far
make of the note. `PlainInv` is the shape of a bag at each step.

**MigratorProofs.** `TypeCorrect`; `LedgerCorrect`, `AppliedCorrect` and `OrderCorrect` where
the operator does not roll back while machines boot (`RollbackAlone`; without it
both properties fail, section 6), for databases that enforce keys and databases
that do not. `RecordedIsApplied` is not inductive, for a
machine records a step from what it read before others recorded theirs.
`LedgerInv` adds, for each command, `RunGood` (every step it no longer has to do is
recorded, in a batch up to its own, and the statements it has done are in the
schema, whoever did them first) and `RollGood` (what it has to undo is as it read
it, with everything recorded after it on its list).

`CleanCorrect`, under the same hypothesis, is about what the ledger does *not* say,
until a command is cut short: no step is torn, however many machines boot
together. `DependantsCorrect` (`DependantsFirst`) follows. `CleanInv` has three parts.
`Covered`: every effect of an unrecorded step is the work of a run that still has
the step in hand. It is kept only because a run that is refused half-way would
leave its effects to nobody, and that cannot happen: a refusal means that a
statement that cannot be repeated has been run by another, and then (`RawSole`)
the refused one has done nothing of the step. `Undone`: a rollback has undone as
many statements as it has counted, so it meets no refusal. `OnceCorrect`
(`RunsAtMostOnce`): a single machine, uninterrupted, runs each step once between
rollbacks, for what it has left is unrecorded and nobody else's
(`LeftUnrecorded`); with two machines, or one cut short, it does not hold (section
6).

An attempt to prove `KeptInv` found an overlap in the model: two arms of the
CASE that reads a fetched record could apply at once, and TLA+ does not say
which is taken. `Fetched` is now a chain of IFs in the order of the code.

**Only model-checked.** Liveness (`EveryJobAnswered`, `LockFreed`,
`AcquireAnswers`, `IdFreed`, `StopEnds`,
`UncrossedWindowExpires`, `EventuallyMigrated`): fairness and ENABLED are beyond
the prover. The searches of cron that begin outside 1901 to 2095 are not
covered by `FourYearsSuffice`. Every other property of the runs is a theorem.

## 8. Using it

    tlc -workers 2 -config MCDatabaseQueue.cfg MCDatabaseQueue
    tlapm DatabaseQueueProofs.tla

The runs of the queues, the worker loop and the sessions take one to two minutes
each, the others seconds; a proof module takes from half a minute to a few
minutes.

## 9. Plan

In order of weight, each with the hazards it is for.

1. Theorems: what the remaining safety definitions of section 6 become under
   the hypothesis their counterexample suggests (`LastAttemptIsLast` where no
   job kills its worker, `LiveIsKept` with one request at a time).
2. `StripeWebhooks`: claim, dispatch and release under redelivery (a process that
   dies after its claim leaves the event unhandled,
   `rainier-billing/src/webhook.rs:400`). `OAuthServer`: a code and a refresh token
   spent once, with failures between the store calls. Both over `CacheStore`.
3. `MemoryQueue` as the abstract queue, and the drivers shown to implement it.
4. Logins and the second factor over `Session`.
5. `Events` and queued listeners; the container's singletons and scoped
   instances under concurrent resolution; the server's shutdown;
   broadcasting; the HTTP client's retry loop.
