----------------------------- MODULE RedisQueue -----------------------------
(***************************************************************************)
(* The Redis queue driver (crates/rainier-queue/src/redis.rs, on the       *)
(* commands of crates/rainier-drivers/src/redis_streams.rs) under workers  *)
(* that reserve, run and settle, with a crash between any two commands.    *)
(*                                                                         *)
(* One action is one Redis command.  A stored copy of a job is delayed (in *)
(* the sorted set), new (in the stream, never delivered), pending (in the  *)
(* group's pending list) or acked (XACKed and not yet XDELed: in the       *)
(* stream, never delivered again).  Copies are told apart by handles, the  *)
(* entry ids; which of several copies a command answers with is left open. *)
(***************************************************************************)
EXTENDS Integers, FiniteSets

CONSTANTS
    Jobs, Workers,
    Handles,        \* bound: copies stored or worked on at one time
    NoCopy,         \* "nothing is stored under this handle"
    NoTicket,       \* "the worker holds no job"
    MaxAttempts,    \* attempts the worker gives a job (attempts_for)
    Reservation,    \* ticks an entry must be idle to be claimed
    HoldTime,       \* ticks from taking an entry to the last command about it
    Backoff,        \* ticks a release is delayed by
    Delays,         \* delays a dispatch may ask for
    MaxCrashes,     \* bound: crashes and failed commands in a behaviour
    MaxClears,      \* bound: calls of clear
    TakenCap        \* bound: deliveries of a job are counted up to here

Copy == [job: Jobs, attempts: Nat, place: {"delayed", "new", "pending", "acked"}, ticks: Nat]
Ticket == [handle: Handles, job: Jobs, attempts: Nat]

ASSUME ConstantsAssumption ==
    /\ {MaxAttempts, Reservation, HoldTime, Backoff, MaxCrashes, MaxClears, TakenCap} \subseteq Nat
    /\ Delays \subseteq Nat
    /\ NoCopy \notin Copy /\ NoTicket \notin Ticket

VARIABLES
    copies,         \* what is stored, by handle
    group,          \* the consumer group exists
    failed,         \* jobs in the failed list
    pc, ticket, held,
    taken,          \* times each job has been delivered, up to TakenCap
    pushed, succeeded, cleared,     \* history, as sets of jobs
    crashes, clears

work == <<pc, ticket, held>>
history == <<pushed, succeeded, cleared>>
bounds == <<crashes, clears>>
vars == <<copies, group, failed, work, taken, history, bounds>>

-----------------------------------------------------------------------------
Stored(h, place) == copies[h] # NoCopy /\ copies[h].place = place

(* Entry ids are never used again: neither is one a worker still has.      *)
Fresh(h) == copies[h] = NoCopy /\ \A w \in Workers : ticket[w] # NoTicket => ticket[w].handle # h

Waiting(job, attempts, delay) ==
    [job |-> job, attempts |-> attempts, ticks |-> delay,
     place |-> IF delay > 0 THEN "delayed" ELSE "new"]

(* The same body, elsewhere.                                               *)
Moved(c, place) == [job |-> c.job, attempts |-> c.attempts, place |-> place, ticks |-> 0]

Goto(w, step) == pc' = [pc EXCEPT ![w] = step]

Drop(w) ==
    /\ Goto(w, "idle")
    /\ ticket' = [ticket EXCEPT ![w] = NoTicket]
    /\ held' = [held EXCEPT ![w] = 0]

Init ==
    /\ copies = [h \in Handles |-> NoCopy]
    /\ group = FALSE
    /\ failed = {}
    /\ pc = [w \in Workers |-> "idle"]
    /\ ticket = [w \in Workers |-> NoTicket]
    /\ held = [w \in Workers |-> 0]
    /\ taken = [j \in Jobs |-> 0]
    /\ pushed = {} /\ succeeded = {} /\ cleared = {}
    /\ crashes = 0 /\ clears = 0

-----------------------------------------------------------------------------
(* push: ZADD when it is delayed, XADD when it is not.                     *)
Push(j, delay, h) ==
    /\ j \notin pushed
    /\ Fresh(h)
    /\ copies' = [copies EXCEPT ![h] = Waiting(j, 0, delay)]
    /\ pushed' = pushed \cup {j}
    /\ UNCHANGED <<group, failed, work, taken, succeeded, cleared, bounds>>

(* reserve: XGROUP CREATE, which is allowed to find the group there ...    *)
CreateGroup(w) ==
    /\ pc[w] = "idle"
    /\ group' = TRUE
    /\ Goto(w, "promote")
    /\ UNCHANGED <<copies, failed, ticket, held, taken, history, bounds>>

Due(h) == Stored(h, "delayed") /\ copies[h].ticks = 0

(* Mutant: the score is compared with the wrong end.                       *)
PromoteUndue(w) ==
    /\ pc[w] = "promote"
    /\ copies' = [h \in Handles |-> IF Stored(h, "delayed") /\ ~Due(h)
                                    THEN Moved(copies[h], "new") ELSE copies[h]]
    /\ Goto(w, "claim")
    /\ UNCHANGED <<group, failed, ticket, held, taken, history, bounds>>

(* ... the script that moves what is due into the stream ...               *)
Promote(w) ==
    /\ pc[w] = "promote"
    /\ copies' = [h \in Handles |-> IF Due(h) THEN Moved(copies[h], "new") ELSE copies[h]]
    /\ Goto(w, "claim")
    /\ UNCHANGED <<group, failed, ticket, held, taken, history, bounds>>

(* The worker has the entry; attempts goes up in its hands only.           *)
Take(w, h) ==
    /\ ticket' = [ticket EXCEPT ![w] =
                     [handle |-> h, job |-> copies[h].job, attempts |-> copies[h].attempts + 1]]
    /\ held' = [held EXCEPT ![w] = 0]
    /\ taken' = [taken EXCEPT ![copies[h].job] = IF @ < TakenCap THEN @ + 1 ELSE @]
    /\ Goto(w, "running")

Claimable(h) == Stored(h, "pending") /\ copies[h].ticks >= Reservation

(* Mutant: min-idle-time left at 0.                                        *)
ClaimAny(w, h) ==
    /\ pc[w] = "claim" /\ group
    /\ Stored(h, "pending")
    /\ copies' = [copies EXCEPT ![h] = Moved(@, "pending")]
    /\ Take(w, h)
    /\ UNCHANGED <<group, failed, history, bounds>>

(* ... XAUTOCLAIM of an entry that has been idle for too long ...          *)
Claim(w, h) ==
    /\ pc[w] = "claim" /\ group
    /\ Claimable(h)
    /\ copies' = [copies EXCEPT ![h] = Moved(@, "pending")]
    /\ Take(w, h)
    /\ UNCHANGED <<group, failed, history, bounds>>

ClaimNothing(w) ==
    /\ pc[w] = "claim" /\ group
    /\ \A h \in Handles : ~Claimable(h)
    /\ Goto(w, "read")
    /\ UNCHANGED <<copies, group, failed, ticket, held, taken, history, bounds>>

(* Mutant: an entry is acknowledged by being read.                         *)
ReadPopping(w, h) ==
    /\ pc[w] = "read" /\ group
    /\ Stored(h, "new")
    /\ copies' = [copies EXCEPT ![h] = Moved(@, "acked")]
    /\ Take(w, h)
    /\ UNCHANGED <<group, failed, history, bounds>>

(* ... or XREADGROUP of a new one.                                         *)
Read(w, h) ==
    /\ pc[w] = "read" /\ group
    /\ Stored(h, "new")
    /\ copies' = [copies EXCEPT ![h] = Moved(@, "pending")]
    /\ Take(w, h)
    /\ UNCHANGED <<group, failed, history, bounds>>

ReadNothing(w) ==
    /\ pc[w] = "read" /\ group
    /\ \A h \in Handles : ~Stored(h, "new")
    /\ Goto(w, "idle")
    /\ UNCHANGED <<copies, group, failed, ticket, held, taken, history, bounds>>

(* NOGROUP: a clear took the group away, and reserve is an Err.            *)
NoGroup(w) ==
    /\ pc[w] \in {"claim", "read"} /\ ~group
    /\ Goto(w, "idle")
    /\ UNCHANGED <<copies, group, failed, ticket, held, taken, history, bounds>>

-----------------------------------------------------------------------------
HandlerOk(w) ==
    /\ pc[w] = "running"
    /\ succeeded' = succeeded \cup {ticket[w].job}
    /\ Goto(w, "ack")
    /\ UNCHANGED <<copies, group, failed, ticket, held, taken, pushed, cleared, bounds>>

HandlerErr(w) ==
    /\ pc[w] = "running"
    /\ Goto(w, IF ticket[w].attempts >= MaxAttempts THEN "fail" ELSE "release")
    /\ UNCHANGED <<copies, group, failed, ticket, held, taken, history, bounds>>

(* Mutant: the retry is the body as it was delivered.                      *)
ReleaseUncounted(w, h) ==
    /\ pc[w] = "release"
    /\ Fresh(h)
    /\ copies' = [copies EXCEPT ![h] = Waiting(ticket[w].job, ticket[w].attempts - 1, Backoff)]
    /\ Goto(w, "ack")
    /\ UNCHANGED <<group, failed, ticket, held, taken, history, bounds>>

(* release: the retry is stored, as a new entry ...                        *)
Release(w, h) ==
    /\ pc[w] = "release"
    /\ Fresh(h)
    /\ copies' = [copies EXCEPT ![h] = Waiting(ticket[w].job, ticket[w].attempts, Backoff)]
    /\ Goto(w, "ack")
    /\ UNCHANGED <<group, failed, ticket, held, taken, history, bounds>>

(* ... and fail: LPUSH, ...                                                *)
Fail(w) ==
    /\ pc[w] = "fail"
    /\ failed' = failed \cup {ticket[w].job}
    /\ Goto(w, "ack")
    /\ UNCHANGED <<copies, group, ticket, held, taken, history, bounds>>

(* ... and only then, as in acknowledge, XACK ...                          *)
Ack(w) ==
    /\ pc[w] = "ack"
    /\ LET h == ticket[w].handle
       IN  copies' = [copies EXCEPT ![h] = IF Stored(h, "pending")
                                           THEN Moved(@, "acked") ELSE @]
    /\ Goto(w, "delete")
    /\ UNCHANGED <<group, failed, ticket, held, taken, history, bounds>>

(* ... and XDEL.                                                           *)
Delete(w) ==
    /\ pc[w] = "delete"
    /\ copies' = [copies EXCEPT ![ticket[w].handle] = NoCopy]
    /\ Drop(w)
    /\ UNCHANGED <<group, failed, taken, history, bounds>>

WorkerStep(w) ==
    \/ CreateGroup(w)
    \/ Promote(w)
    \/ \E h \in Handles : Claim(w, h)
    \/ ClaimNothing(w)
    \/ \E h \in Handles : Read(w, h)
    \/ ReadNothing(w)
    \/ NoGroup(w)
    \/ HandlerOk(w)
    \/ HandlerErr(w)
    \/ \E h \in Handles : Release(w, h)
    \/ Fail(w)
    \/ Ack(w)
    \/ Delete(w)

(* clear: DEL of the stream, its group with it, the delayed and the failed.*)
Clear ==
    /\ clears < MaxClears
    /\ clears' = clears + 1
    /\ cleared' = cleared \cup {copies[h].job : h \in {i \in Handles : copies[i] # NoCopy}} \cup failed
    /\ copies' = [h \in Handles |-> NoCopy]
    /\ failed' = {}
    /\ group' = FALSE
    /\ UNCHANGED <<work, taken, pushed, succeeded, crashes>>

(* The worker dies, or a command answers with an error.                    *)
Crash(w) ==
    /\ crashes < MaxCrashes
    /\ pc[w] # "idle"
    /\ crashes' = crashes + 1
    /\ Drop(w)
    /\ UNCHANGED <<copies, group, failed, taken, history, clears>>

Aged(c) ==
    [job |-> c.job, attempts |-> c.attempts, place |-> c.place,
     ticks |-> CASE c.place = "delayed" /\ c.ticks > 0 -> c.ticks - 1
                 [] c.place = "pending" /\ c.ticks < Reservation -> c.ticks + 1
                 [] OTHER -> c.ticks]

(* Time passes, but no worker is slower than HoldTime.                     *)
Tick ==
    /\ \A w \in Workers : ticket[w] # NoTicket => held[w] < HoldTime
    /\ copies' = [h \in Handles |-> IF copies[h] = NoCopy THEN NoCopy ELSE Aged(copies[h])]
    /\ held' = [w \in Workers |-> IF ticket[w] = NoTicket THEN held[w] ELSE held[w] + 1]
    /\ UNCHANGED <<group, failed, pc, ticket, taken, history, bounds>>

Next ==
    \/ \E j \in Jobs, delay \in Delays, h \in Handles : Push(j, delay, h)
    \/ \E w \in Workers : WorkerStep(w)
    \/ Clear
    \/ \E w \in Workers : Crash(w)
    \/ Tick

Fairness == (\A w \in Workers : WF_vars(WorkerStep(w))) /\ WF_vars(Tick)

Spec == Init /\ [][Next]_vars
FairSpec == Spec /\ Fairness

-----------------------------------------------------------------------------
(* Type correctness.                                                       *)
TypeOK ==
    /\ copies \in [Handles -> Copy \cup {NoCopy}]
    /\ group \in BOOLEAN
    /\ failed \subseteq Jobs
    /\ pc \in [Workers -> {"idle", "promote", "claim", "read", "running", "release", "fail", "ack", "delete"}]
    /\ ticket \in [Workers -> Ticket \cup {NoTicket}]
    /\ \A w \in Workers : pc[w] \in {"running", "release", "fail", "ack", "delete"} <=> ticket[w] # NoTicket
    /\ held \in [Workers -> 0 .. HoldTime]
    /\ taken \in [Jobs -> 0 .. TakenCap]
    /\ {pushed, succeeded, cleared} \subseteq SUBSET Jobs
    /\ crashes \in 0 .. MaxCrashes /\ clears \in 0 .. MaxClears

(* What is in the store and will be delivered.                             *)
Kept(h) == copies[h] # NoCopy /\ copies[h].place # "acked"

Answered(j) == j \in succeeded \cup failed \cup cleared

(* At-least-once "is the contract, and this is the line that keeps it": a  *)
(* job that was pushed has succeeded, is in the failed list, was cleared,  *)
(* or will still be delivered.                                             *)
NoJobLost ==
    \A j \in pushed : Answered(j) \/ \E h \in Handles : Kept(h) /\ copies[h].job = j

(* "Two workers cannot take the same entry", where a reservation outlives  *)
(* the slowest worker.                                                     *)
EntryExclusive ==
    \A v, w \in Workers :
        ticket[v] # NoTicket /\ ticket[w] # NoTicket /\ ticket[v].handle = ticket[w].handle => v = w

(* The parts of the inductive invariant.  The entry a worker works on, as  *)
(* long as it is there, is the one it was given, one attempt behind; the   *)
(* entry has been idle for as long as the worker has held it.              *)
HeldCopy(w) ==
    ticket[w] # NoTicket /\ copies[ticket[w].handle] # NoCopy =>
        LET c == copies[ticket[w].handle]
        IN  /\ c.job = ticket[w].job
            /\ c.attempts + 1 = ticket[w].attempts
            /\ c.place \in {"pending", "acked"}
HeldCopies == \A w \in Workers : HeldCopy(w)

IdleAsHeld ==
    \A w \in Workers : ticket[w] # NoTicket /\ Stored(ticket[w].handle, "pending") =>
        copies[ticket[w].handle].ticks = held[w]

(* Before a worker acknowledges, its job is answered or stored again under *)
(* a higher count: no two retries can be waiting for each other.           *)
Supersedes(h, t) == Kept(h) /\ copies[h].job = t.job /\ copies[h].attempts >= t.attempts

Settled(w) ==
    pc[w] \in {"ack", "delete"} =>
        Answered(ticket[w].job) \/ \E h \in Handles : Supersedes(h, ticket[w])
SettledFirst == \A w \in Workers : Settled(w)

AckedBeforeDelete == \A w \in Workers : pc[w] = "delete" => ~Kept(ticket[w].handle)

(* The inductive invariant behind NoJobLost.                               *)
SafetyInv == TypeOK /\ HeldCopies /\ SettledFirst /\ AckedBeforeDelete /\ NoJobLost

(* The inductive invariant behind EntryExclusive.                          *)
ExclusiveInv == TypeOK /\ HeldCopies /\ IdleAsHeld /\ EntryExclusive

(* A reservation outlives the slowest worker.                              *)
WellTimed == HoldTime < Reservation

(* "How many times it has been attempted": the attempt a handler runs as   *)
(* is the number of times its job has been taken; and, as long as no       *)
(* worker died, it is.                                                     *)
AttemptsCountRuns ==
    \A w \in Workers : pc[w] = "running" => ticket[w].attempts = taken[ticket[w].job]

AttemptsCountedUninterrupted == crashes = 0 => AttemptsCountRuns

(* The stream does not keep what is finished, as long as no worker died:   *)
(* "a queue that never deletes grows until it fills the memory".           *)
NothingKept ==
    crashes = 0 => \A h \in Handles : Stored(h, "acked") =>
                       \E w \in Workers : pc[w] = "delete" /\ ticket[w].handle = h

(* A job that was pushed is answered, whatever the crashes interrupt.      *)
EveryJobAnswered == \A j \in Jobs : j \in pushed ~> Answered(j)
=============================================================================
