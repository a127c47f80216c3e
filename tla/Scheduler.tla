------------------------------ MODULE Scheduler -----------------------------
(***************************************************************************)
(* One scheduled task on several machines (crates/rainier-scheduler/src/   *)
(* task.rs and schedule.rs, the schedule:work loop of                      *)
(* crates/rainier-framework/src/scheduling.rs): the condition, the         *)
(* one-server claim of the minute, the overlap lock and the work.          *)
(*                                                                         *)
(* A pass fixes its minute when it starts and then runs the tasks in       *)
(* order, so it comes to this one some time later: late by the slowness of *)
(* the machine's clock and by the tasks before it.                         *)
(***************************************************************************)
EXTENDS CacheStore

CONSTANTS
    Machines,
    MinuteTicks,        \* ticks in a minute
    LastMinute,         \* bound: the minutes considered are 0 .. LastMinute
    MaxLate,            \* ticks after its minute began that a pass may come to the task
    OneServer,          \* on_one_server
    WithoutOverlapping, \* without_overlapping
    OverlapTtl,         \* its TTL in ticks
    MaxFaults           \* bound: crashes and cache errors in a behaviour

ASSUME SchedulerAssumption ==
    /\ {MinuteTicks, OverlapTtl} \subseteq Nat \ {0}
    /\ {LastMinute, MaxLate, MaxFaults} \subseteq Nat
    /\ {OneServer, WithoutOverlapping} \subseteq BOOLEAN
    /\ NoEntry \notin [value: Machines, left: Int]

(* "Held for a minute."                                                    *)
ClaimTtl == MinuteTicks

Minutes == 0 .. LastMinute
Started(minute) == minute * MinuteTicks

VARIABLES
    now,            \* ticks since the first minute began
    claims,         \* the entry under schedule:one-server:<name>:<minute>
    overlap,        \* the entry under schedule:overlap:<name>
    phase,          \* idle, due, claimed, working
    at,             \* the minute of the machine's pass
    last,           \* the last minute it made a pass for; -1: none
    runs,           \* how often the task has been started for each minute
    faults

schedulerVars == <<now, claims, overlap, phase, at, last, runs, faults>>

SchedulerInit ==
    /\ now = 0
    /\ claims = [minute \in Minutes |-> NoEntry]
    /\ overlap = NoEntry
    /\ phase = [m \in Machines |-> "idle"]
    /\ at = [m \in Machines |-> 0]
    /\ last = [m \in Machines |-> -1]
    /\ runs = [minute \in Minutes |-> 0]
    /\ faults = 0

-----------------------------------------------------------------------------
Idle(m) == phase' = [phase EXCEPT ![m] = "idle"]

(* The loop wakes, for a minute it has not had, and the task is due.  A    *)
(* clock that is behind makes it an earlier minute than the others have.   *)
Pass(m, minute) ==
    /\ phase[m] = "idle"
    /\ minute > last[m]
    /\ Started(minute) <= now /\ now <= Started(minute) + MaxLate
    /\ phase' = [phase EXCEPT ![m] = "due"]
    /\ at' = [at EXCEPT ![m] = minute]
    /\ last' = [last EXCEPT ![m] = minute]
    /\ UNCHANGED <<now, claims, overlap, runs, faults>>

(* The condition says no, before any lock is taken.                        *)
ConditionFalse(m) ==
    /\ phase[m] = "due"
    /\ Idle(m)
    /\ UNCHANGED <<now, claims, overlap, at, last, runs, faults>>

(* Mutant: two machines find the minute free.                              *)
ClaimRegardless(m) ==
    /\ phase[m] = "due"
    /\ claims' = [claims EXCEPT ![at[m]] = Entry(m, ClaimTtl)]
    /\ phase' = [phase EXCEPT ![m] = "claimed"]
    /\ UNCHANGED <<now, overlap, at, last, runs, faults>>

(* The minute is claimed, and kept.  A task without on_one_server goes on. *)
Claim(m) ==
    /\ phase[m] = "due"
    /\ OneServer => ~Live(claims[at[m]])
    /\ claims' = IF OneServer
                 THEN [claims EXCEPT ![at[m]] = Add(@, m, ClaimTtl)]
                 ELSE claims
    /\ phase' = [phase EXCEPT ![m] = "claimed"]
    /\ UNCHANGED <<now, overlap, at, last, runs, faults>>

(* Skipped::AnotherServer.                                                 *)
AnotherServer(m) ==
    /\ phase[m] = "due"
    /\ OneServer /\ Live(claims[at[m]])
    /\ Idle(m)
    /\ UNCHANGED <<now, claims, overlap, at, last, runs, faults>>

(* Mutant: the machine with the minute does not ask for the overlap lock.  *)
StartRegardless(m) ==
    /\ phase[m] = "claimed"
    /\ overlap' = IF WithoutOverlapping THEN Entry(m, OverlapTtl) ELSE overlap
    /\ runs' = [runs EXCEPT ![at[m]] = @ + 1]
    /\ phase' = [phase EXCEPT ![m] = "working"]
    /\ UNCHANGED <<now, claims, at, last, faults>>

(* The overlap lock is free or not asked for: the work starts.             *)
Start(m) ==
    /\ phase[m] = "claimed"
    /\ WithoutOverlapping => ~Live(overlap)
    /\ overlap' = IF WithoutOverlapping THEN Add(overlap, m, OverlapTtl) ELSE overlap
    /\ runs' = [runs EXCEPT ![at[m]] = @ + 1]
    /\ phase' = [phase EXCEPT ![m] = "working"]
    /\ UNCHANGED <<now, claims, at, last, faults>>

(* Skipped::StillRunning: with the minute claimed.                         *)
StillRunning(m) ==
    /\ phase[m] = "claimed"
    /\ WithoutOverlapping /\ Live(overlap)
    /\ Idle(m)
    /\ UNCHANGED <<now, claims, overlap, at, last, runs, faults>>

(* The work ended, well or not, and Lock::run releases.                    *)
Finish(m) ==
    /\ phase[m] = "working"
    /\ overlap' = IF WithoutOverlapping THEN ForgetIf(overlap, m) ELSE overlap
    /\ Idle(m)
    /\ UNCHANGED <<now, claims, at, last, runs, faults>>

(* The pass leaves the task as it stands: the process dies and is started  *)
(* again, or a call to the cache fails (Outcome::Failed).                  *)
Interrupt(m) ==
    /\ faults < MaxFaults
    /\ phase[m] # "idle"
    /\ faults' = faults + 1
    /\ Idle(m)
    /\ UNCHANGED <<now, claims, overlap, at, last, runs>>

(* Time passes, with what the doc of without_overlapping asks for, a TTL   *)
(* longer than the work takes.                                             *)
Tick ==
    /\ now + 1 < Started(LastMinute + 1)
    /\ \A m \in Machines :
          /\ phase[m] = "due" => now + 1 <= Started(at[m]) + MaxLate
          /\ phase[m] = "working" /\ WithoutOverlapping => overlap.left > 1
    /\ now' = now + 1
    /\ claims' = [minute \in Minutes |-> AgeEntry(claims[minute])]
    /\ overlap' = AgeEntry(overlap)
    /\ UNCHANGED <<phase, at, last, runs, faults>>

SchedulerNext ==
    \/ \E m \in Machines, minute \in Minutes : Pass(m, minute)
    \/ \E m \in Machines : ConditionFalse(m)
    \/ \E m \in Machines : Claim(m)
    \/ \E m \in Machines : AnotherServer(m)
    \/ \E m \in Machines : Start(m)
    \/ \E m \in Machines : StillRunning(m)
    \/ \E m \in Machines : Finish(m)
    \/ \E m \in Machines : Interrupt(m)
    \/ Tick

SchedulerSpec == SchedulerInit /\ [][SchedulerNext]_schedulerVars

-----------------------------------------------------------------------------
Entries(ttl) == [value: Machines, left: 0 .. ttl] \cup {NoEntry}

(* Type correctness.                                                       *)
SchedulerTypeOK ==
    /\ now \in 0 .. Started(LastMinute + 1) - 1
    /\ claims \in [Minutes -> Entries(ClaimTtl)]
    /\ overlap \in Entries(OverlapTtl)
    /\ phase \in [Machines -> {"idle", "due", "claimed", "working"}]
    /\ at \in [Machines -> Minutes]
    /\ last \in [Machines -> Minutes \cup {-1}]
    /\ runs \in [Minutes -> Nat]
    /\ faults \in 0 .. MaxFaults

(* on_one_server prevents "three machines running the same minute".        *)
OncePerMinute == OneServer => \A minute \in Minutes : runs[minute] <= 1

(* without_overlapping: "do not start a run while the previous one is      *)
(* still going", on any machine and after any crash.                       *)
NoOverlap ==
    WithoutOverlapping =>
        \A m, n \in Machines : phase[m] = "working" /\ phase[n] = "working" => m = n

(* A pass comes to the task within its own minute.                         *)
Punctual == MaxLate < MinuteTicks

(* The parts of the inductive invariants.  A pass that is due is not later *)
(* than MaxLate, and from the claim of a minute until nobody can be due in *)
(* it, the claim is there; one machine has it, and has not started yet.    *)
DueInTime ==
    \A m \in Machines : phase[m] = "due" => Started(at[m]) <= now /\ now <= Started(at[m]) + MaxLate

Taken(minute) == runs[minute] > 0 \/ \E m \in Machines : phase[m] = "claimed" /\ at[m] = minute

ClaimLasts ==
    \A minute \in Minutes : Taken(minute) =>
        \/ Started(minute) + MinuteTicks <= now
        \/ Live(claims[minute]) /\ Started(minute) + MinuteTicks <= now + claims[minute].left

OneClaimant ==
    \A m \in Machines : phase[m] = "claimed" =>
        /\ runs[at[m]] = 0
        /\ \A n \in Machines : phase[n] = "claimed" /\ at[n] = at[m] => n = m

ClaimInv == DueInTime /\ (OneServer => ClaimLasts /\ OneClaimant) /\ OncePerMinute

(* Whoever works has the overlap lock.                                     *)
LockedWork ==
    WithoutOverlapping => \A m \in Machines :
        phase[m] = "working" => Live(overlap) /\ overlap.value = m

(* A machine that finds the minute claimed may leave it to the claimant:   *)
(* it has run the task, or is about to ("leaving the minute unclaimed by   *)
(* anyone who could have run it" is what the order is said to avoid).      *)
SkipMeansServed ==
    [][\A m \in Machines :
          phase[m] = "due" /\ phase'[m] = "idle" /\ OneServer /\ Live(claims[at[m]]) /\ faults' = faults =>
              \/ runs[at[m]] > 0
              \/ \E n \in Machines \ {m} : phase[n] = "claimed" /\ at[n] = at[m]]_schedulerVars
=============================================================================
