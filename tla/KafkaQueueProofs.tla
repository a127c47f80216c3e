-------------------------- MODULE KafkaQueueProofs --------------------------
(* Proofs about the Kafka queue, for any number of workers, slots,         *)
(* partitions, jobs and faults: no job is lost; one job of a partition is  *)
(* in flight; cursors go forward; and an attempt counts every delivery.    *)
EXTENDS KafkaQueue, SequenceTheorems, TLAPS

-----------------------------------------------------------------------------
(* What the assumption says of each constant.                              *)
LEMMA Constants ==
    /\ NParts \in Nat /\ NParts > 0 /\ 1 \in Parts
    /\ WorkerOf \in [Slots -> Workers] /\ PartitionOf \in [Jobs -> Parts]
    /\ NotAJob \notin Jobs
    /\ LeaseTicks \in Nat /\ LeaseTicks > 0
    /\ MaxAttempts \in Nat /\ HoldTime \in Nat /\ Backoff \in Nat /\ MaxEvents \in Nat /\ TakenCap \in Nat
    /\ Delays \subseteq Nat
BY ConstantsAssumption DEF Positive, Parts

(* The jobs of a partition, and the jobs that are answered.                *)
Homed(jobs, p) == {j \in jobs : PartitionOf[j] = p}
Answers == succeeded \cup failed \cup excused

(* Every one of these jobs is answered, or has a record from there on.     *)
Kept(records, start, jobs, answers) ==
    \A j \in jobs : j \in answers \/ \E o \in 1 .. Len(records) : records[o].job = j /\ o >= start

(* A partition: its cursor has passed no job that is neither settled nor   *)
(* to come again, and its start has not either.                            *)
PartGood(p, records, counts, start, earliest, jobs, answers) ==
    /\ Len(counts) = Len(records)
    /\ start <= Len(records) + 1 /\ earliest <= Len(records) + 1
    /\ \A o \in 1 .. Len(records) : records[o].job \in Jobs => PartitionOf[records[o].job] = p
    /\ Kept(records, start, jobs, answers)
    /\ Kept(records, earliest, jobs, answers)

(* A slot: where it reads from is as good as a cursor, what it works on is *)
(* a job, and once that is settled the next offset is as good too.         *)
SlotGood(step, offset, records, jobs, answers) ==
    /\ offset <= Len(records) + 1
    /\ Kept(records, offset, jobs, answers)
    /\ step \in {"skip", "count"} \cup Working => offset \in 1 .. Len(records)
    /\ step = "skip" => records[offset].job = NotAJob
    /\ step \in {"count"} \cup Working => records[offset].job \in Jobs
    /\ step \in {"forget", "commit"} => Kept(records, offset + 1, jobs, answers)

KeptInv ==
    /\ TypeOK
    /\ \A p \in Parts : PartGood(p, log[p], counted[p], cursor[p], first[p], Homed(pushed, p), Answers)
    /\ \A p \in Parts : clearing[p] <= Len(log[p]) + 1
    /\ \A s \in Slots : SlotGood(pc[s], from[s], log[at[s]], Homed(pushed, at[s]), Answers)

-----------------------------------------------------------------------------
(* One count of a partition is changed.                                    *)
LEMMA CountSet ==
    ASSUME NEW q \in Seq(Nat), NEW i \in 1 .. Len(q), NEW n \in Nat
    PROVE  [q EXCEPT ![i] = n] \in Seq(Nat) /\ Len([q EXCEPT ![i] = n]) = Len(q)
BY ExceptSeq

(* A record joins the end of a log ...                                     *)
LEMMA LogAppend ==
    ASSUME NEW q \in Seq(Record), NEW job \in Jobs \cup {NotAJob}, NEW count \in Nat, NEW delay \in Nat,
           NEW r, r = Append(q, [job |-> job, attempts |-> count, delay |-> delay])
    PROVE  /\ r \in Seq(Record) /\ Len(r) = Len(q) + 1
           /\ r[Len(q) + 1].job = job /\ r[Len(q) + 1].attempts = count
           /\ \A o \in 1 .. Len(q) : r[o] = q[o]
<1> DEFINE e == [job |-> job, attempts |-> count, delay |-> delay]
<1>1. e \in Record /\ e.job = job /\ e.attempts = count
  BY DEF Record
<1> HIDE DEF e
<1>2. r = Append(q, e)
  BY DEF e
<1> QED BY <1>1, <1>2, AppendProperties

(* ... and waiting changes neither its jobs nor what they carry.           *)
LEMMA LogWait ==
    ASSUME NEW q \in Seq(Record), NEW r, r = [o \in 1 .. Len(q) |-> Waited(q[o])]
    PROVE  /\ r \in Seq(Record) /\ Len(r) = Len(q)
           /\ \A o \in 1 .. Len(q) : r[o].job = q[o].job /\ r[o].attempts = q[o].attempts
<1>1. \A o \in 1 .. Len(q) : /\ q[o] \in Record /\ Waited(q[o]) \in Record /\ Waited(q[o]).job = q[o].job
                             /\ Waited(q[o]).attempts = q[o].attempts
  <2> SUFFICES ASSUME NEW o \in 1 .. Len(q)
               PROVE  /\ q[o] \in Record /\ Waited(q[o]) \in Record /\ Waited(q[o]).job = q[o].job
                      /\ Waited(q[o]).attempts = q[o].attempts
    OBVIOUS
  <2>1. q[o] \in Record
    BY ElementOfSeq
  <2> QED BY <2>1 DEF Record, Waited
<1>2. Len(q) \in Nat /\ r \in [1 .. Len(q) -> Record]
  BY <1>1, LenProperties
<1>3. r \in Seq(Record) /\ Len(r) = Len(q)
  BY <1>2, IsASeq, LenProperties
<1> QED BY <1>1, <1>3

-----------------------------------------------------------------------------
Steps == Reserving \cup Working \cup {"idle"}

(* Every action keeps the types.                                           *)
LEMMA TypeStep == KeptInv /\ [Next]_vars => TypeOK'
<1> SUFFICES ASSUME KeptInv, [Next]_vars PROVE TypeOK'
  OBVIOUS
<1>0. TypeOK
  BY DEF KeptInv
<1>1. ASSUME NEW s \in Slots, pc[s] \in {"count"} \cup Working
      PROVE  /\ at[s] \in Parts /\ from[s] \in 1 .. Len(log[at[s]]) /\ from[s] \in 1 .. Len(counted[at[s]])
             /\ Here(s) \in Record /\ Here(s).job \in Jobs /\ counted[at[s]][from[s]] \in Nat
  <2>1. at[s] \in Parts /\ log[at[s]] \in Seq(Record) /\ counted[at[s]] \in Seq(Nat)
    BY <1>0 DEF TypeOK
  <2>2. from[s] \in 1 .. Len(log[at[s]]) /\ Here(s).job \in Jobs
    BY <1>1 DEF KeptInv, SlotGood, Here
  <2>3. Len(counted[at[s]]) = Len(log[at[s]])
    BY <2>1 DEF KeptInv, PartGood
  <2> QED BY <2>1, <2>2, <2>3, ElementOfSeq DEF Here
<1>2. ASSUME NEW s \in Slots, NEW step \in Steps, Goto(s, step) PROVE (pc \in [Slots -> Steps])'
  BY <1>0, <1>2 DEF Goto, TypeOK, Steps
<1> DEFINE SlotTypes ==
             /\ pc \in [Slots -> Steps] /\ at \in [Slots -> Parts]
             /\ from \in [Slots -> Nat] /\ attempts \in [Slots -> Nat] /\ held \in [Slots -> Nat]
           HistoryTypes ==
             /\ taken \in [Jobs -> Nat]
             /\ pushed \subseteq Jobs /\ succeeded \subseteq Jobs /\ excused \subseteq Jobs
           LogTypes == log \in [Parts -> Seq(Record)] /\ counted \in [Parts -> Seq(Nat)]
<1>3. SlotTypes /\ HistoryTypes /\ LogTypes
  BY <1>0 DEF TypeOK, Steps
<1>4. ASSUME NEW s \in Slots, Onward(s) PROVE SlotTypes'
  <2>1. at[s] \in Parts /\ (at[s] < NParts => at[s] + 1 \in Parts)
    BY <1>3, Constants DEF Parts
  <2>2. at' \in [Slots -> Parts]
    BY <1>3, <1>4, <2>1, Constants DEF Onward
  <2>3. pc' \in [Slots -> Steps]
    BY <1>3, <1>4 DEF Onward, Steps, Reserving
  <2> QED BY <1>3, <1>4, <2>2, <2>3 DEF Onward
<1>5. ASSUME NEW these, Drop(these) PROVE SlotTypes'
  BY <1>3, <1>5, Constants DEF Drop, Steps
<1>6. ASSUME NEW p \in Parts, NEW job \in Jobs \cup {NotAJob}, NEW count \in Nat, NEW delay \in Nat,
             Produced(p, job, count, delay)
      PROVE  LogTypes'
  <2>1. log[p] \in Seq(Record) /\ counted[p] \in Seq(Nat)
    BY <1>3
  <2> DEFINE e == [job |-> job, attempts |-> count, delay |-> delay]
  <2>2. Append(log[p], e) \in Seq(Record) /\ Append(counted[p], 0) \in Seq(Nat)
    <3>1. Append(log[p], e) \in Seq(Record)
      BY <2>1, LogAppend
    <3>2. Append(counted[p], 0) \in Seq(Nat)
      BY <2>1, AppendProperties
    <3> QED BY <3>1, <3>2
  <2> QED BY <1>3, <1>6, <2>2 DEF Produced
<1>7. ASSUME NEW s \in Slots, NEW n \in Nat, pc[s] \in {"count"} \cup Working,
             counted' = [counted EXCEPT ![at[s]][from[s]] = n]
      PROVE  counted' \in [Parts -> Seq(Nat)]
  <2>1. counted[at[s]] \in Seq(Nat) /\ from[s] \in 1 .. Len(counted[at[s]])
    BY <1>1, <1>3, <1>7
  <2>2. [counted[at[s]] EXCEPT ![from[s]] = n] \in Seq(Nat)
    BY <2>1, CountSet
  <2> QED BY <1>3, <1>7, <2>2
<1>8. ASSUME NEW s \in Slots, pc[s] \in {"count"} \cup Working, HandOver(s)
      PROVE  pc' \in [Slots -> Steps] /\ taken' \in [Jobs -> Nat]
  <2>1. pc' \in [Slots -> Steps]
    BY <1>2, <1>8 DEF HandOver, Steps, Working
  <2> QED BY <1>1, <1>3, <1>8, <2>1 DEF HandOver
<1>9. ASSUME NEW j \in Jobs, NEW delay \in Delays, Push(j, delay) PROVE TypeOK'
  <2>1. LogTypes'
    BY <1>6, <1>9, Constants DEF Push
  <2> QED BY <1>0, <1>9, <2>1 DEF Push, TypeOK, slot
<1>10. ASSUME NEW p \in Parts, Stray(p) PROVE TypeOK'
  <2>1. LogTypes'
    BY <1>6, <1>10 DEF Stray
  <2> QED BY <1>0, <1>10, <2>1 DEF Stray, TypeOK, slot, history, Event
<1>11. ASSUME NEW p \in Parts, Retire(p) PROVE TypeOK'
  <2>1. first' \in [Parts -> Positive]
    BY <1>0, <1>11 DEF Retire, TypeOK, Positive
  <2>2. excused' \subseteq Jobs
    BY <1>0, <1>11 DEF Retire, TypeOK
  <2> QED BY <1>0, <1>11, <2>1, <2>2 DEF Retire, TypeOK, slot, Event
<1>12. ASSUME NEW s \in Slots, Begin(s) \/ StillOurs(s) PROVE TypeOK'
  <2>1. pc' \in [Slots -> Steps]
    BY <1>2, <1>12 DEF Begin, StillOurs, Steps, Reserving
  <2> QED BY <1>0, <1>12, <2>1 DEF Begin, StillOurs, TypeOK, Steps, shared, history
<1>13. ASSUME NEW s \in Slots, Renew(s) \/ Acquire(s) PROVE TypeOK'
  <2>1. pc' \in [Slots -> Steps]
    BY <1>2, <1>13 DEF Renew, Acquire, Steps, Reserving
  <2>2. lease' \in [Parts -> [value: Workers, left: Nat] \cup {NoEntry}]
    <3>1. WorkerOf[s] \in Workers /\ Entry(WorkerOf[s], LeaseTicks) \in [value: Workers, left: Nat]
      BY Constants DEF Entry
    <3>2. \E e \in [value: Workers, left: Nat] \cup {NoEntry} : lease' = [lease EXCEPT ![at[s]] = e]
      BY <1>0, <1>13, <3>1 DEF Renew, Acquire, TypeOK, Add
    <3> QED BY <1>0, <3>2 DEF TypeOK
  <2>3. guards' \in [Workers -> SUBSET Parts]
    <3>1. WorkerOf[s] \in Workers /\ at[s] \in Parts /\ guards \in [Workers -> SUBSET Parts]
      BY <1>0, Constants DEF TypeOK
    <3>2. guards' = guards \/ guards' = [guards EXCEPT ![WorkerOf[s]] = @ \cup {at[s]}]
      BY <1>13 DEF Renew, Acquire
    <3> QED BY <3>1, <3>2
  <2> QED BY <1>0, <1>13, <2>1, <2>2, <2>3 DEF Renew, Acquire, TypeOK, Steps, history
<1>14. ASSUME NEW s \in Slots, LeaseLost(s) PROVE TypeOK'
  <2>1. lease' \in [Parts -> [value: Workers, left: Nat] \cup {NoEntry}]
    BY <1>0, <1>14 DEF LeaseLost, TypeOK, Reap
  <2>2. guards' \in [Workers -> SUBSET Parts]
    BY <1>0, <1>14, Constants DEF LeaseLost, TypeOK
  <2> QED BY <1>0, <1>14, <2>1, <2>2 DEF LeaseLost, TypeOK, slot, history
<1>15. ASSUME NEW s \in Slots, Refused(s) \/ FetchNothing(s) PROVE TypeOK'
  <2>1. SlotTypes'
    BY <1>4, <1>15 DEF Refused, FetchNothing
  <2> QED BY <1>0, <1>15, <2>1 DEF Refused, FetchNothing, TypeOK, Steps, shared, history
<1>16. ASSUME NEW s \in Slots, StartOf(s) PROVE TypeOK'
  <2>1. pc' \in [Slots -> Steps]
    BY <1>2, <1>16 DEF StartOf, Steps, Reserving
  <2>2. from' \in [Slots -> Nat]
    BY <1>0, <1>16 DEF StartOf, TypeOK, Positive
  <2> QED BY <1>0, <1>16, <2>1, <2>2 DEF StartOf, TypeOK, Steps, shared, history
<1>17. ASSUME NEW s \in Slots, Fetch(s) PROVE TypeOK'
  <2>1. Fetched(s) \in {"rejoin", "next", "skip", "count"}
    BY Zenon DEF Fetched
  <2>2. pc' \in [Slots -> Steps]
    BY <1>2, <1>17, <2>1 DEF Fetch, Steps, Reserving
  <2> QED BY <1>0, <1>17, <2>2 DEF Fetch, TypeOK, Steps, shared, history
<1>18. ASSUME NEW s \in Slots, Rejoin(s) \/ Skip(s) PROVE TypeOK'
  <2>1. SlotTypes'
    BY <1>4, <1>18 DEF Rejoin, Skip
  <2>2. cursor' \in [Parts -> Nat]
    <3>1. first[at[s]] \in Nat /\ from[s] + 1 \in Nat /\ cursor \in [Parts -> Nat]
      BY <1>0 DEF TypeOK, Positive
    <3> QED BY <1>18, <3>1 DEF Rejoin, Skip
  <2>3. UNCHANGED <<log, first, lease, counted, failed, guards, history, clearing, events>>
    BY <1>18 DEF Rejoin, Skip
  <2> QED BY <1>0, <2>1, <2>2, <2>3 DEF TypeOK, Steps, history
<1>19. ASSUME NEW s \in Slots, CountAttempt(s) PROVE TypeOK'
  <2> DEFINE delivered == counted[at[s]][from[s]] + 1
  <2>1. delivered \in Nat /\ Here(s).attempts \in Nat
    BY <1>1, <1>19 DEF CountAttempt, Record
  <2>2. counted' \in [Parts -> Seq(Nat)]
    BY <1>7, <1>19, <2>1 DEF CountAttempt
  <2>3. attempts' \in [Slots -> Nat]
    BY <1>3, <1>19, <2>1 DEF CountAttempt, AttemptNumber
  <2>4. pc' \in [Slots -> Steps] /\ taken' \in [Jobs -> Nat]
    BY <1>2, <1>3, <1>8, <1>19 DEF CountAttempt, Steps, Working
  <2> QED BY <1>0, <1>19, <2>2, <2>3, <2>4 DEF CountAttempt, TypeOK, Steps
<1>20. ASSUME NEW s \in Slots, StampAttempt(s) PROVE TypeOK'
  <2>1. counted' \in [Parts -> Seq(Nat)]
    BY <1>7, <1>20 DEF StampAttempt, Working
  <2>2. pc' \in [Slots -> Steps] /\ taken' \in [Jobs -> Nat]
    BY <1>8, <1>20 DEF StampAttempt, Working
  <2> QED BY <1>0, <1>20, <2>1, <2>2 DEF StampAttempt, TypeOK, Steps
<1>21. ASSUME NEW s \in Slots, HandlerOk(s) PROVE TypeOK'
  <2>1. pc' \in [Slots -> Steps]
    BY <1>2, <1>21 DEF HandlerOk, Steps, Working
  <2>2. succeeded' \subseteq Jobs
    BY <1>1, <1>3, <1>21 DEF HandlerOk, Working
  <2> QED BY <1>0, <1>21, <2>1, <2>2 DEF HandlerOk, TypeOK, Steps, shared
<1>22. ASSUME NEW s \in Slots, HandlerErr(s) PROVE TypeOK'
  <2>1. pc' \in [Slots -> Steps]
    BY <1>2, <1>22 DEF HandlerErr, Steps, Working
  <2> QED BY <1>0, <1>22, <2>1 DEF HandlerErr, TypeOK, Steps, shared, history
<1>23. ASSUME NEW s \in Slots, Release(s) PROVE TypeOK'
  <2>1. pc' \in [Slots -> Steps]
    BY <1>2, <1>23 DEF Release, Steps, Working
  <2>2. Here(s).job \in Jobs /\ PartitionOf[Here(s).job] \in Parts /\ attempts[s] \in Nat /\ Backoff \in Nat
    BY <1>1, <1>3, <1>23, Constants DEF Release, Working
  <2>3. LogTypes'
    BY <1>6, <1>23, <2>2 DEF Release
  <2> QED BY <1>0, <1>23, <2>1, <2>3 DEF Release, TypeOK, Steps, history
<1>24. ASSUME NEW s \in Slots, Fail(s) PROVE TypeOK'
  <2>1. pc' \in [Slots -> Steps]
    BY <1>2, <1>24 DEF Fail, Steps, Working
  <2>2. failed' \subseteq Jobs
    BY <1>0, <1>1, <1>24 DEF Fail, Working, TypeOK
  <2> QED BY <1>0, <1>24, <2>1, <2>2 DEF Fail, TypeOK, Steps, history
<1>25. ASSUME NEW s \in Slots, ForgetAttempts(s) PROVE TypeOK'
  <2>1. pc' \in [Slots -> Steps]
    BY <1>2, <1>25 DEF ForgetAttempts, Steps, Working
  <2>2. counted' \in [Parts -> Seq(Nat)]
    BY <1>7, <1>25 DEF ForgetAttempts, Working
  <2> QED BY <1>0, <1>25, <2>1, <2>2 DEF ForgetAttempts, TypeOK, Steps, history
<1>26. ASSUME NEW s \in Slots, Commit(s) PROVE TypeOK'
  <2>1. SlotTypes'
    BY <1>5, <1>26 DEF Commit
  <2>2. cursor' \in [Parts -> Nat]
    BY <1>0, <1>26 DEF Commit, TypeOK
  <2> QED BY <1>0, <1>26, <2>1, <2>2 DEF Commit, TypeOK, Steps, history
<1>27. ASSUME NEW w \in Workers, ReleasePartitions(w) PROVE TypeOK'
  <2>1. lease' \in [Parts -> [value: Workers, left: Nat] \cup {NoEntry}]
    BY <1>0, <1>27 DEF ReleasePartitions, TypeOK, ForgetIf
  <2>2. guards' \in [Workers -> SUBSET Parts]
    BY <1>0, <1>27 DEF ReleasePartitions, TypeOK
  <2> QED BY <1>0, <1>27, <2>1, <2>2 DEF ReleasePartitions, TypeOK, slot, history
<1>28. ASSUME NEW p \in Parts, ClearRead(p) PROVE TypeOK'
  <2>1. Len(log[p]) + 1 \in Nat
    BY <1>3, LenProperties
  <2>2. clearing' \in [Parts -> Nat] /\ events' \in Nat
    BY <1>0, <1>28, <2>1 DEF ClearRead, TypeOK, Event
  <2>3. cleared' \in BOOLEAN
    BY <1>28 DEF ClearRead
  <2> QED BY <1>0, <1>28, <2>2, <2>3 DEF ClearRead, TypeOK, shared, slot
<1>29. ASSUME NEW p \in Parts, ClearCommit(p) PROVE TypeOK'
  <2>1. excused' \subseteq Jobs
    BY <1>0, <1>29 DEF ClearCommit, TypeOK
  <2>2. cursor' \in [Parts -> Nat] /\ clearing' \in [Parts -> Nat]
    BY <1>0, <1>29 DEF ClearCommit, TypeOK
  <2> QED BY <1>0, <1>29, <2>1, <2>2 DEF ClearCommit, TypeOK, slot
<1>30. ASSUME NEW s \in Slots, CommandFails(s) PROVE TypeOK'
  <2>1. torn' \in BOOLEAN
    BY <1>30, Zenon DEF CommandFails
  <2>2. /\ events' \in Nat
        /\ UNCHANGED <<shared, guards, pushed, succeeded, cleared, clearing>>
    BY <1>0, <1>30 DEF CommandFails, Event, TypeOK
  <2>3. CASE pc[s] = "forget" /\ Goto(s, "commit") /\ UNCHANGED <<at, from, attempts, held, taken, excused>>
    <3>1. pc' \in [Slots -> Steps]
      BY <1>2, <2>3 DEF Steps, Working
    <3> QED BY <1>0, <2>1, <2>2, <2>3, <3>1 DEF TypeOK, Steps, shared
  <2>4. CASE pc[s] = "stamp" /\ HandOver(s) /\ UNCHANGED <<at, from, attempts, held, excused>>
    <3>1. pc' \in [Slots -> Steps] /\ taken' \in [Jobs -> Nat]
      BY <1>8, <2>4 DEF Working
    <3> QED BY <1>0, <2>1, <2>2, <2>4, <3>1 DEF TypeOK, Steps, shared
  <2>5. CASE /\ pc[s] = "fail" /\ Goto(s, "forget") /\ excused' = excused \cup {Here(s).job}
             /\ UNCHANGED <<at, from, attempts, held, taken>>
    <3>1. pc' \in [Slots -> Steps]
      BY <1>2, <2>5 DEF Steps, Working
    <3>2. excused' \subseteq Jobs
      BY <1>1, <1>3, <2>5 DEF Working
    <3> QED BY <1>0, <2>1, <2>2, <2>5, <3>1, <3>2 DEF TypeOK, Steps, shared
  <2>6. CASE Drop({s}) /\ UNCHANGED <<taken, excused>>
    <3>1. SlotTypes'
      BY <1>5, <2>6
    <3> QED BY <1>0, <2>1, <2>2, <2>6, <3>1 DEF TypeOK, Steps, shared
  <2> QED BY <1>30, <2>3, <2>4, <2>5, <2>6 DEF CommandFails
<1>31. ASSUME NEW w \in Workers, Crash(w) PROVE TypeOK'
  <2>1. torn' \in BOOLEAN
    BY <1>31, Zenon DEF Crash
  <2>2. SlotTypes'
    BY <1>5, <1>31 DEF Crash
  <2>3. guards' \in [Workers -> SUBSET Parts] /\ events' \in Nat
    BY <1>0, <1>31 DEF Crash, TypeOK, Event
  <2> QED BY <1>0, <1>31, <2>1, <2>2, <2>3 DEF Crash, TypeOK, Steps, shared
<1>32. ASSUME Tick PROVE TypeOK'
  <2>1. lease' \in [Parts -> [value: Workers, left: Nat] \cup {NoEntry}]
    <3>1. \A e \in [value: Workers, left: Nat] \cup {NoEntry} : AgeEntry(e) \in [value: Workers, left: Nat] \cup {NoEntry}
      BY DEF AgeEntry
    <3> QED BY <1>0, <1>32, <3>1 DEF Tick, TypeOK
  <2>2. log' \in [Parts -> Seq(Record)]
    BY <1>3, <1>32, LogWait DEF Tick
  <2>3. held' \in [Slots -> Nat]
    BY <1>0, <1>32 DEF Tick, TypeOK
  <2> QED BY <1>0, <1>32, <2>1, <2>2, <2>3 DEF Tick, TypeOK, history
<1>33. CASE UNCHANGED vars
  BY <1>0, <1>33 DEF vars, TypeOK, shared, slot, history
<1> QED
  BY <1>9, <1>10, <1>11, <1>12, <1>13, <1>14, <1>15, <1>16, <1>17, <1>18, <1>19, <1>20, <1>21, <1>22, <1>23,
     <1>24, <1>25, <1>26, <1>27, <1>28, <1>29, <1>30, <1>31, <1>32, <1>33 DEF Next, SlotStep

-----------------------------------------------------------------------------
(* A log goes on: its records keep their jobs, and a job that is new to    *)
(* the partition has a record among the new ones.                          *)
Extends(p, records, more, jobs, jobs2) ==
    /\ Len(records) <= Len(more)
    /\ \A o \in 1 .. Len(records) : more[o].job = records[o].job
    /\ \A o \in 1 .. Len(more) : o > Len(records) /\ more[o].job \in Jobs => PartitionOf[more[o].job] = p
    /\ \A j \in jobs2 \ jobs : \E o \in 1 .. Len(more) : o > Len(records) /\ more[o].job = j

(* What is kept from an offset on is kept as the log and the answers grow, *)
(* and from any offset before.                                             *)
LEMMA KeptGrows ==
    ASSUME NEW p, NEW records \in Seq(Record), NEW more \in Seq(Record), NEW jobs, NEW jobs2,
           NEW answers, NEW answers2, answers \subseteq answers2, NEW start \in Nat, start <= Len(records) + 1,
           Extends(p, records, more, jobs, jobs2), Kept(records, start, jobs, answers)
    PROVE  Kept(more, start, jobs2, answers2)
<1> SUFFICES ASSUME NEW j \in jobs2, j \notin answers2
             PROVE  \E o \in 1 .. Len(more) : more[o].job = j /\ o >= start
  BY DEF Kept
<1>0. Len(records) \in Nat /\ Len(more) \in Nat /\ Len(records) <= Len(more)
  BY LenProperties DEF Extends
<1>1. CASE j \in jobs
  <2>1. PICK o \in 1 .. Len(records) : records[o].job = j /\ o >= start
    BY <1>1 DEF Kept
  <2>2. more[o].job = j /\ o \in 1 .. Len(more)
    BY <1>0, <2>1 DEF Extends
  <2> QED BY <2>1, <2>2
<1>2. CASE j \notin jobs
  <2>1. PICK o \in 1 .. Len(more) : o > Len(records) /\ more[o].job = j
    BY <1>2 DEF Extends
  <2>2. o >= start
    BY <1>0, <2>1
  <2> QED BY <2>1, <2>2
<1> QED BY <1>1, <1>2

LEMMA KeptBefore ==
    ASSUME NEW records \in Seq(Record), NEW jobs, NEW answers, NEW start \in Nat, NEW before \in Nat,
           before <= start, Kept(records, start, jobs, answers)
    PROVE  Kept(records, before, jobs, answers)
<1>1. \A o \in 1 .. Len(records) : o >= start => o >= before
  BY LenProperties
<1> QED BY <1>1 DEF Kept

(* ... and from the next offset, when the record there is settled.         *)
LEMMA KeptNext ==
    ASSUME NEW records \in Seq(Record), NEW jobs, NEW answers, NEW answers2, NEW start \in Nat,
           answers \subseteq answers2, Kept(records, start, jobs, answers),
           start \in 1 .. Len(records) /\ records[start].job \in jobs => records[start].job \in answers2
    PROVE  Kept(records, start + 1, jobs, answers2)
<1> SUFFICES ASSUME NEW j \in jobs, j \notin answers2
             PROVE  \E o \in 1 .. Len(records) : records[o].job = j /\ o >= start + 1
  BY DEF Kept
<1>1. PICK o \in 1 .. Len(records) : records[o].job = j /\ o >= start
  BY DEF Kept
<1>2. o # start
  BY <1>1
<1>3. o >= start + 1
  BY <1>1, <1>2, LenProperties
<1> QED BY <1>1, <1>3

(* A slot that stays where it is stays good.                               *)
LEMMA SlotGrows ==
    ASSUME NEW p, NEW records \in Seq(Record), NEW more \in Seq(Record), NEW jobs, NEW jobs2,
           NEW answers, NEW answers2, answers \subseteq answers2, NEW step, NEW offset \in Nat,
           Extends(p, records, more, jobs, jobs2), SlotGood(step, offset, records, jobs, answers)
    PROVE  SlotGood(step, offset, more, jobs2, answers2)
<1>0. Len(records) \in Nat /\ Len(more) \in Nat /\ Len(records) <= Len(more)
  BY LenProperties DEF Extends
<1>1. offset <= Len(more) + 1 /\ Kept(more, offset, jobs2, answers2)
  BY <1>0, KeptGrows DEF SlotGood
<1>2. step \in {"skip", "count"} \cup Working =>
          offset \in 1 .. Len(more) /\ more[offset].job = records[offset].job
  BY <1>0 DEF SlotGood, Extends
<1>3. step \in {"forget", "commit"} => Kept(more, offset + 1, jobs2, answers2)
  <2> SUFFICES ASSUME step \in {"forget", "commit"} PROVE Kept(more, offset + 1, jobs2, answers2)
    OBVIOUS
  <2>1. step \in Working
    BY DEF Working
  <2>2. offset + 1 \in Nat /\ offset + 1 <= Len(records) + 1
    BY <1>0, <2>1 DEF SlotGood
  <2> QED BY <2>2, KeptGrows DEF SlotGood
<1> QED BY <1>1, <1>2, <1>3 DEF SlotGood

(* Whatever happens, every log goes on, with as many counts as records,    *)
(* and no answer is taken back.                                            *)
LEMMA LogsGrow ==
    ASSUME KeptInv, [Next]_vars, TypeOK'
    PROVE  /\ Answers \subseteq Answers'
           /\ \A p \in Parts : Extends(p, log[p], log'[p], Homed(pushed, p), Homed(pushed', p))
           /\ \A p \in Parts : Len(counted'[p]) = Len(log'[p])
<1>0. log \in [Parts -> Seq(Record)] /\ counted \in [Parts -> Seq(Nat)] /\ pushed \subseteq Jobs
  BY DEF KeptInv, TypeOK
<1>1. \A p \in Parts : Len(counted[p]) = Len(log[p]) /\ Len(log[p]) \in Nat
  BY <1>0, LenProperties DEF KeptInv, PartGood
<1>2. ASSUME UNCHANGED <<log, pushed>>, \A p \in Parts : Len(counted'[p]) = Len(counted[p]),
             Answers \subseteq Answers'
      PROVE  /\ \A p \in Parts : Extends(p, log[p], log'[p], Homed(pushed, p), Homed(pushed', p))
             /\ \A p \in Parts : Len(counted'[p]) = Len(log'[p])
  BY <1>1, <1>2 DEF Extends, Homed
<1>3. ASSUME NEW p \in Parts, NEW job \in Jobs \cup {NotAJob}, NEW count \in Nat, NEW delay \in Nat,
             Produced(p, job, count, delay), job \in Jobs => PartitionOf[job] = p,
             pushed' \subseteq pushed \cup {job}
      PROVE  /\ \A q \in Parts : Extends(q, log[q], log'[q], Homed(pushed, q), Homed(pushed', q))
             /\ \A q \in Parts : Len(counted'[q]) = Len(log'[q])
  <2> SUFFICES ASSUME NEW q \in Parts
               PROVE  Extends(q, log[q], log'[q], Homed(pushed, q), Homed(pushed', q)) /\ Len(counted'[q]) = Len(log'[q])
    OBVIOUS
  <2>1. CASE q # p
    <3>1. log'[q] = log[q] /\ counted'[q] = counted[q]
      BY <1>0, <1>3, <2>1 DEF Produced
    <3>2. Homed(pushed', q) \subseteq Homed(pushed, q)
      <4>1. pushed' \subseteq Jobs
        BY DEF TypeOK
      <4> QED BY <1>3, <2>1, <4>1, Constants DEF Homed
    <3> QED BY <1>1, <3>1, <3>2 DEF Extends
  <2>2. CASE q = p
    <3> DEFINE e == [job |-> job, attempts |-> count, delay |-> delay]
    <3>1. log'[p] = Append(log[p], e) /\ counted'[p] = Append(counted[p], 0)
      BY <1>0, <1>3 DEF Produced
    <3>2. log[p] \in Seq(Record) /\ counted[p] \in Seq(Nat)
      BY <1>0
    <3>3. /\ Len(log'[p]) = Len(log[p]) + 1 /\ log'[p][Len(log[p]) + 1].job = job
          /\ \A o \in 1 .. Len(log[p]) : log'[p][o] = log[p][o]
      BY <3>1, <3>2, LogAppend
    <3>4. Len(counted'[p]) = Len(log'[p])
      BY <1>1, <3>1, <3>2, <3>3, AppendProperties
    <3>5. \A o \in 1 .. Len(log'[p]) : o > Len(log[p]) => o = Len(log[p]) + 1
      BY <1>1, <3>3
    <3>6. Homed(pushed', p) \ Homed(pushed, p) \subseteq {job}
      BY <1>3 DEF Homed
    <3>7. Len(log[p]) + 1 \in 1 .. Len(log'[p]) /\ Len(log[p]) + 1 > Len(log[p]) /\ Len(log[p]) <= Len(log'[p])
      BY <1>1, <3>3
    <3>8. Extends(p, log[p], log'[p], Homed(pushed, p), Homed(pushed', p))
      BY <1>3, <3>3, <3>5, <3>6, <3>7 DEF Extends
    <3> QED BY <2>2, <3>4, <3>8
  <2> QED BY <2>1, <2>2
<1>4. ASSUME NEW j \in Jobs, NEW delay \in Delays, Push(j, delay)
      PROVE  Answers \subseteq Answers' /\ pushed' \subseteq pushed \cup {j} /\ Produced(PartitionOf[j], j, 0, delay)
  BY <1>4 DEF Push, Answers
<1>5. ASSUME NEW p \in Parts, Stray(p)
      PROVE  Answers \subseteq Answers' /\ pushed' \subseteq pushed \cup {NotAJob} /\ Produced(p, NotAJob, 0, 0)
  BY <1>5 DEF Stray, Answers, history
<1>6. ASSUME NEW s \in Slots, Release(s)
      PROVE  /\ Answers \subseteq Answers' /\ pushed' \subseteq pushed \cup {Here(s).job}
             /\ Produced(PartitionOf[Here(s).job], Here(s).job, attempts[s], Backoff)
             /\ Here(s).job \in Jobs /\ PartitionOf[Here(s).job] \in Parts /\ attempts[s] \in Nat /\ Backoff \in Nat
  <2>1. Here(s).job \in Jobs
    BY <1>6 DEF Release, KeptInv, SlotGood, Here, Working
  <2> QED BY <1>6, <2>1, Constants DEF Release, Answers, history, KeptInv, TypeOK
<1>7. ASSUME NEW s \in Slots, pc[s] \in {"count"} \cup Working, NEW n \in Nat,
             counted' = [counted EXCEPT ![at[s]][from[s]] = n]
      PROVE  \A p \in Parts : Len(counted'[p]) = Len(counted[p])
  <2>1. at[s] \in Parts /\ from[s] \in 1 .. Len(counted[at[s]]) /\ counted[at[s]] \in Seq(Nat)
    <3>1. at[s] \in Parts
      BY DEF KeptInv, TypeOK
    <3>2. from[s] \in 1 .. Len(log[at[s]])
      BY <1>7 DEF KeptInv, SlotGood
    <3> QED BY <1>0, <1>1, <3>1, <3>2
  <2>2. Len([counted[at[s]] EXCEPT ![from[s]] = n]) = Len(counted[at[s]])
    BY <2>1, CountSet
  <2> QED BY <1>0, <1>7, <2>1, <2>2
<1>8. ASSUME NEW s \in Slots, CountAttempt(s) \/ StampAttempt(s) \/ ForgetAttempts(s)
      PROVE  UNCHANGED <<log, pushed>> /\ Answers \subseteq Answers' /\ \A p \in Parts : Len(counted'[p]) = Len(counted[p])
  <2>1. UNCHANGED <<log, pushed>> /\ Answers \subseteq Answers'
    BY <1>8 DEF CountAttempt, StampAttempt, ForgetAttempts, Answers, history
  <2>2. pc[s] \in {"count"} \cup Working
    BY <1>8 DEF CountAttempt, StampAttempt, ForgetAttempts, Working
  <2>3. at[s] \in Parts /\ from[s] \in 1 .. Len(counted[at[s]])
    <3>1. at[s] \in Parts
      BY DEF KeptInv, TypeOK
    <3>2. from[s] \in 1 .. Len(log[at[s]])
      BY <2>2 DEF KeptInv, SlotGood
    <3> QED BY <1>1, <3>1, <3>2
  <2>4. counted[at[s]][from[s]] \in Nat
    BY <1>0, <2>3, ElementOfSeq
  <2>5. PICK n \in Nat : counted' = [counted EXCEPT ![at[s]][from[s]] = n]
    <3>1. CASE CountAttempt(s)
      <4>1. counted[at[s]][from[s]] + 1 \in Nat
        BY <2>4
      <4> QED BY <3>1, <4>1 DEF CountAttempt
    <3>2. CASE StampAttempt(s)
      <4>1. counted' = [counted EXCEPT ![at[s]][from[s]] = 1]
        BY <3>2 DEF StampAttempt
      <4> QED BY <4>1
    <3>3. CASE ForgetAttempts(s)
      <4>1. counted' = [counted EXCEPT ![at[s]][from[s]] = 0]
        BY <3>3 DEF ForgetAttempts
      <4> QED BY <4>1
    <3> QED BY <1>8, <3>1, <3>2, <3>3
  <2> QED BY <1>7, <2>1, <2>2, <2>5
<1>9. ASSUME Tick
      PROVE  /\ Answers \subseteq Answers'
             /\ \A p \in Parts : Extends(p, log[p], log'[p], Homed(pushed, p), Homed(pushed', p))
             /\ \A p \in Parts : Len(counted'[p]) = Len(log'[p])
  <2>1. UNCHANGED <<counted, pushed>> /\ Answers \subseteq Answers'
    BY <1>9 DEF Tick, Answers, history
  <2>2. \A p \in Parts : Len(log'[p]) = Len(log[p]) /\ \A o \in 1 .. Len(log[p]) : log'[p][o].job = log[p][o].job
    <3> SUFFICES ASSUME NEW p \in Parts
                 PROVE  Len(log'[p]) = Len(log[p]) /\ \A o \in 1 .. Len(log[p]) : log'[p][o].job = log[p][o].job
      OBVIOUS
    <3>1. log[p] \in Seq(Record) /\ log'[p] = [o \in 1 .. Len(log[p]) |-> Waited(log[p][o])]
      BY <1>0, <1>9 DEF Tick
    <3> QED BY <3>1, LogWait
  <2>3. \A p \in Parts : Homed(pushed', p) = Homed(pushed, p)
    BY <2>1 DEF Homed
  <2> QED BY <1>1, <2>1, <2>2, <2>3 DEF Extends
<1>10. ASSUME UNCHANGED <<log, counted, pushed>>, Answers \subseteq Answers'
       PROVE  /\ \A p \in Parts : Extends(p, log[p], log'[p], Homed(pushed, p), Homed(pushed', p))
              /\ \A p \in Parts : Len(counted'[p]) = Len(log'[p])
  BY <1>2, <1>10
<1>11. ASSUME NEW p \in Parts, Retire(p) \/ ClearRead(p) \/ ClearCommit(p)
       PROVE  UNCHANGED <<log, counted, pushed>> /\ Answers \subseteq Answers'
  BY <1>11 DEF Retire, ClearRead, ClearCommit, Answers, shared
<1>12. ASSUME NEW w \in Workers, ReleasePartitions(w) \/ Crash(w)
       PROVE  UNCHANGED <<log, counted, pushed>> /\ Answers \subseteq Answers'
  BY <1>12 DEF ReleasePartitions, Crash, Answers, shared, history
<1>13. ASSUME NEW s \in Slots,
              \/ Begin(s) \/ StillOurs(s) \/ Renew(s) \/ LeaseLost(s) \/ Acquire(s) \/ Refused(s)
              \/ StartOf(s) \/ Fetch(s) \/ FetchNothing(s) \/ Rejoin(s) \/ Skip(s)
       PROVE  UNCHANGED <<log, counted, pushed>> /\ Answers \subseteq Answers'
  BY <1>13 DEF Begin, StillOurs, Renew, LeaseLost, Acquire, Refused, StartOf, Fetch, FetchNothing, Rejoin, Skip,
               Answers, shared, history
<1>14. ASSUME NEW s \in Slots, HandlerOk(s) \/ HandlerErr(s) \/ Fail(s) \/ Commit(s)
       PROVE  UNCHANGED <<log, counted, pushed>> /\ Answers \subseteq Answers'
  BY <1>14 DEF HandlerOk, HandlerErr, Fail, Commit, Answers, shared, history
<1>15. ASSUME NEW s \in Slots, CommandFails(s)
       PROVE  UNCHANGED <<log, counted, pushed>> /\ Answers \subseteq Answers'
  BY <1>15 DEF CommandFails, Answers, shared
<1>16. ASSUME UNCHANGED vars
       PROVE  UNCHANGED <<log, counted, pushed>> /\ Answers \subseteq Answers'
  BY <1>16 DEF vars, Answers, shared, history
<1>17. CASE \E j \in Jobs, delay \in Delays : Push(j, delay)
  BY <1>3, <1>4, <1>17, Constants
<1>18. CASE \E p \in Parts : Stray(p)
  BY <1>3, <1>5, <1>18, Constants
<1>19. CASE \E s \in Slots : Release(s)
  BY <1>3, <1>6, <1>19
<1>20. CASE \E s \in Slots : CountAttempt(s) \/ StampAttempt(s) \/ ForgetAttempts(s)
  BY <1>2, <1>8, <1>20
<1> QED
  BY <1>9, <1>10, <1>11, <1>12, <1>13, <1>14, <1>15, <1>16, <1>17, <1>18, <1>19, <1>20 DEF Next, SlotStep

-----------------------------------------------------------------------------
(* Nobody moves a cursor, or a slot, past a job that is not settled.       *)
LEMMA KeptStep == KeptInv /\ [Next]_vars => KeptInv'
<1> SUFFICES ASSUME KeptInv, [Next]_vars PROVE KeptInv'
  OBVIOUS
<1>0. TypeOK /\ TypeOK'
  BY TypeStep DEF KeptInv
<1>1. /\ Answers \subseteq Answers'
      /\ \A p \in Parts : Extends(p, log[p], log'[p], Homed(pushed, p), Homed(pushed', p)) /\ Len(counted'[p]) = Len(log'[p])
  BY <1>0, LogsGrow
<1>2. \A p \in Parts : /\ log[p] \in Seq(Record) /\ log'[p] \in Seq(Record) /\ Len(log[p]) \in Nat /\ Len(log'[p]) \in Nat
                       /\ Len(log[p]) <= Len(log'[p])
                       /\ cursor[p] \in Nat /\ cursor'[p] \in Nat /\ first[p] \in Nat /\ first'[p] \in Nat
                       /\ clearing[p] \in Nat
  BY <1>0, <1>1, LenProperties DEF TypeOK, Positive, Extends
<1>3. \A s \in Slots : at[s] \in Parts /\ at'[s] \in Parts /\ from[s] \in Nat /\ from'[s] \in Nat
  BY <1>0 DEF TypeOK
<1>4. \A p \in Parts : /\ cursor[p] <= Len(log[p]) + 1 /\ Kept(log[p], cursor[p], Homed(pushed, p), Answers')
                       /\ first[p] <= Len(log[p]) + 1 /\ Kept(log[p], first[p], Homed(pushed, p), Answers')
  BY <1>1 DEF KeptInv, PartGood, Kept
<1>5. ASSUME NEW p \in Parts,
             cursor'[p] <= Len(log[p]) + 1, Kept(log[p], cursor'[p], Homed(pushed, p), Answers'),
             first'[p] <= Len(log[p]) + 1, Kept(log[p], first'[p], Homed(pushed, p), Answers')
      PROVE  PartGood(p, log'[p], counted'[p], cursor'[p], first'[p], Homed(pushed', p), Answers')
  <2>1. Kept(log'[p], cursor'[p], Homed(pushed', p), Answers') /\ Kept(log'[p], first'[p], Homed(pushed', p), Answers')
    BY <1>1, <1>2, <1>5, KeptGrows
  <2>2. \A o \in 1 .. Len(log'[p]) : log'[p][o].job \in Jobs => PartitionOf[log'[p][o].job] = p
    <3>1. \A o \in 1 .. Len(log'[p]) : o > Len(log[p]) \/ o \in 1 .. Len(log[p])
      BY <1>2
    <3> QED BY <1>1, <3>1 DEF KeptInv, PartGood, Extends
  <2>3. cursor'[p] <= Len(log'[p]) + 1 /\ first'[p] <= Len(log'[p]) + 1
    BY <1>2, <1>5
  <2> QED BY <1>1, <2>1, <2>2, <2>3 DEF PartGood
<1> DEFINE PartsGood == \A p \in Parts : PartGood(p, log[p], counted[p], cursor[p], first[p], Homed(pushed, p), Answers)
           SlotsGood == \A s \in Slots : SlotGood(pc[s], from[s], log[at[s]], Homed(pushed, at[s]), Answers)
           ClearsGood == \A p \in Parts : clearing[p] <= Len(log[p]) + 1
<1>6. ASSUME PartsGood', SlotsGood', ClearsGood' PROVE KeptInv'
  BY <1>0, <1>6 DEF KeptInv
<1>7. ASSUME UNCHANGED <<cursor, first>> PROVE PartsGood'
  BY <1>4, <1>5, <1>7
<1>8. ASSUME UNCHANGED clearing PROVE ClearsGood'
  BY <1>2, <1>8 DEF KeptInv
<1>9. ASSUME NEW s \in Slots, SlotGood(pc'[s], from'[s], log[at'[s]], Homed(pushed, at'[s]), Answers')
      PROVE  SlotGood(pc'[s], from'[s], log'[at'[s]], Homed(pushed', at'[s]), Answers')
  <2> DEFINE p == at'[s]
  <2>1. p \in Parts /\ from'[s] \in Nat
    BY <1>3
  <2> HIDE DEF p
  <2>2. SlotGood(pc'[s], from'[s], log'[p], Homed(pushed', p), Answers')
    BY <1>1, <1>2, <1>9, <2>1, SlotGrows DEF p
  <2> QED BY <2>2 DEF p
<1>10. ASSUME NEW s \in Slots
       PROVE  SlotGood(pc[s], from[s], log[at[s]], Homed(pushed, at[s]), Answers')
  BY <1>1 DEF KeptInv, SlotGood, Kept
<1>11. ASSUME NEW s \in Slots, pc'[s] = pc[s], at'[s] = at[s], from'[s] = from[s]
       PROVE  SlotGood(pc'[s], from'[s], log'[at'[s]], Homed(pushed', at'[s]), Answers')
  BY <1>9, <1>10, <1>11
<1>12. ASSUME NEW s \in Slots, pc'[s] \in {"idle", "own"}, from'[s] = 0
       PROVE  SlotGood(pc'[s], from'[s], log'[at'[s]], Homed(pushed', at'[s]), Answers')
  <2>1. at'[s] \in Parts
    BY <1>3
  <2>2. Kept(log[at'[s]], 0, Homed(pushed, at'[s]), Answers') /\ 0 <= Len(log[at'[s]]) + 1
    BY <1>2, <1>4, <2>1, KeptBefore
  <2>3. SlotGood(pc'[s], from'[s], log[at'[s]], Homed(pushed, at'[s]), Answers')
    BY <1>12, <2>2 DEF SlotGood, Working
  <2> QED BY <1>9, <2>3
<1>13. ASSUME UNCHANGED <<pc, at, from>> PROVE SlotsGood'
  BY <1>11, <1>13
<1>14. ASSUME NEW s \in Slots, Onward(s) PROVE SlotsGood'
  <2>1. pc'[s] \in {"idle", "own"} /\ from'[s] = 0
    BY <1>0, <1>14 DEF Onward, TypeOK
  <2>2. \A t \in Slots : t # s => pc'[t] = pc[t] /\ at'[t] = at[t] /\ from'[t] = from[t]
    BY <1>0, <1>14 DEF Onward, TypeOK
  <2> QED BY <1>11, <1>12, <2>1, <2>2
<1>15. ASSUME NEW these, Drop(these) PROVE SlotsGood'
  <2>1. \A t \in Slots : t \in these => pc'[t] \in {"idle", "own"} /\ from'[t] = 0
    BY <1>15 DEF Drop
  <2>2. \A t \in Slots : t \notin these => pc'[t] = pc[t] /\ at'[t] = at[t] /\ from'[t] = from[t]
    BY <1>15 DEF Drop
  <2> QED BY <1>11, <1>12, <2>1, <2>2
<1>16. ASSUME NEW s \in Slots, NEW step, Goto(s, step), UNCHANGED <<at, from>>,
              SlotGood(step, from[s], log[at[s]], Homed(pushed, at[s]), Answers')
       PROVE  SlotsGood'
  <2>1. pc'[s] = step /\ \A t \in Slots : t # s => pc'[t] = pc[t]
    BY <1>0, <1>16 DEF Goto, TypeOK
  <2> QED BY <1>9, <1>11, <1>16, <2>1
<1>17. ASSUME NEW s \in Slots, pc[s] \in {"count"} \cup Working
       PROVE  /\ from[s] \in 1 .. Len(log[at[s]]) /\ Here(s).job \in Jobs
              /\ \A step \in Working \ {"forget", "commit"} :
                    SlotGood(step, from[s], log[at[s]], Homed(pushed, at[s]), Answers')
  BY <1>10, <1>17 DEF SlotGood, Here, Working
<1>18. ASSUME NEW s \in Slots, pc[s] \in Working, Here(s).job \in Answers', NEW step \in {"forget", "commit"}
       PROVE  SlotGood(step, from[s], log[at[s]], Homed(pushed, at[s]), Answers')
  <2>1. Kept(log[at[s]], from[s], Homed(pushed, at[s]), Answers')
    BY <1>10 DEF SlotGood
  <2>2. Kept(log[at[s]], from[s] + 1, Homed(pushed, at[s]), Answers')
    BY <1>2, <1>3, <1>18, <2>1, KeptNext DEF Here
  <2> QED BY <1>10, <1>18, <2>2 DEF SlotGood, Working
<1>19. ASSUME NEW p \in Parts, NEW c \in Nat, c <= Len(log[p]) + 1, Kept(log[p], c, Homed(pushed, p), Answers'),
              cursor' = [cursor EXCEPT ![p] = c], UNCHANGED first
       PROVE  PartsGood'
  <2>1. cursor'[p] = c /\ \A q \in Parts : q # p => cursor'[q] = cursor[q]
    BY <1>0, <1>19 DEF TypeOK
  <2> QED BY <1>4, <1>5, <1>19, <2>1
<1>20. ASSUME NEW j \in Jobs, NEW delay \in Delays, Push(j, delay) PROVE KeptInv'
  BY <1>6, <1>7, <1>8, <1>13, <1>20 DEF Push, slot
<1>21. ASSUME NEW p \in Parts, Stray(p) PROVE KeptInv'
  BY <1>6, <1>7, <1>8, <1>13, <1>21 DEF Stray, slot
<1>22. ASSUME NEW p \in Parts, Retire(p) PROVE KeptInv'
  <2>1. /\ first'[p] = first[p] + 1 /\ first[p] <= Len(log[p]) /\ \A q \in Parts : q # p => first'[q] = first[q]
        /\ UNCHANGED <<cursor, clearing, pc, at, from>>
    BY <1>0, <1>22 DEF Retire, TypeOK, slot
  <2>2. first[p] + 1 <= Len(log[p]) + 1
    BY <1>2, <2>1
  <2>3. Kept(log[p], first[p] + 1, Homed(pushed, p), Answers')
    <3>1. CASE first[p] >= cursor[p]
      <4>1. log[p][first[p]].job \in Jobs => log[p][first[p]].job \in Answers'
        BY <1>22, <3>1 DEF Retire, Answers
      <4>2. Homed(pushed, p) \subseteq Jobs
        BY <1>0 DEF Homed, TypeOK
      <4> QED BY <1>2, <1>4, <4>1, <4>2, KeptNext
    <3>2. CASE ~(first[p] >= cursor[p])
      <4>1. first[p] + 1 \in Nat /\ first[p] + 1 <= cursor[p]
        BY <1>2, <3>2
      <4> QED BY <1>2, <1>4, <4>1, KeptBefore
    <3> QED BY <3>1, <3>2
  <2>4. PartsGood'
    BY <1>4, <1>5, <2>1, <2>2, <2>3
  <2> QED BY <1>6, <1>8, <1>13, <2>1, <2>4
<1>23. ASSUME NEW s \in Slots, NEW step \in {"own", "renew", "read", "rejoin"}, Goto(s, step),
              UNCHANGED <<cursor, first, clearing, at, from>>
       PROVE  KeptInv'
  <2>1. SlotGood(step, from[s], log[at[s]], Homed(pushed, at[s]), Answers')
    BY <1>10, <1>23 DEF SlotGood, Working
  <2> QED BY <1>6, <1>7, <1>8, <1>16, <1>23, <2>1
<1>24. ASSUME NEW s \in Slots, Begin(s) \/ StillOurs(s) PROVE KeptInv'
  BY <1>23, <1>24 DEF Begin, StillOurs, shared
<1>25. ASSUME NEW s \in Slots, Renew(s) \/ Acquire(s) PROVE KeptInv'
  BY <1>23, <1>25 DEF Renew, Acquire
<1>26. ASSUME NEW s \in Slots, LeaseLost(s) PROVE KeptInv'
  BY <1>6, <1>7, <1>8, <1>13, <1>26 DEF LeaseLost, slot
<1>27. ASSUME NEW s \in Slots, Refused(s) \/ FetchNothing(s) PROVE KeptInv'
  BY <1>6, <1>7, <1>8, <1>14, <1>27 DEF Refused, FetchNothing, shared
<1>28. ASSUME NEW s \in Slots, StartOf(s) PROVE KeptInv'
  <2>1. /\ pc'[s] = "fetch" /\ UNCHANGED <<cursor, first, clearing, at>>
        /\ from'[s] = IF cursor[at[s]] # 0 THEN cursor[at[s]] ELSE first[at[s]]
        /\ \A t \in Slots : t # s => pc'[t] = pc[t] /\ from'[t] = from[t]
    BY <1>0, <1>28 DEF StartOf, Goto, TypeOK, shared
  <2>2. SlotGood(pc'[s], from'[s], log[at'[s]], Homed(pushed, at'[s]), Answers')
    BY <1>3, <1>4, <2>1 DEF SlotGood, Working
  <2>3. SlotsGood'
    BY <1>9, <1>11, <2>1, <2>2
  <2> QED BY <1>6, <1>7, <1>8, <2>1, <2>3
<1>29. ASSUME NEW s \in Slots, Fetch(s) PROVE KeptInv'
  <2>1. Goto(s, Fetched(s)) /\ Fetched(s) # "next" /\ UNCHANGED <<cursor, first, clearing, at, from>>
    BY <1>29 DEF Fetch, shared
  <2>2. /\ Fetched(s) \in {"rejoin", "next", "skip", "count"}
        /\ Fetched(s) = "skip" => ~(from[s] < first[at[s]]) /\ ~(from[s] > Len(log[at[s]])) /\ Here(s).job = NotAJob
        /\ Fetched(s) = "count" => ~(from[s] < first[at[s]]) /\ ~(from[s] > Len(log[at[s]])) /\ Here(s).job # NotAJob
    BY DEF Fetched
  <2>3. first[at[s]] \in Nat /\ first[at[s]] > 0
    <3>1. at[s] \in Parts /\ first \in [Parts -> Nat \ {0}]
      BY <1>0 DEF TypeOK, Positive
    <3> QED BY <3>1
  <2>4. Fetched(s) \in {"skip", "count"} => from[s] \in 1 .. Len(log[at[s]])
    BY <1>2, <1>3, <2>2, <2>3
  <2>5. Fetched(s) = "count" => Here(s).job \in Jobs
    <3> SUFFICES ASSUME Fetched(s) = "count" PROVE Here(s).job \in Jobs
      OBVIOUS
    <3>1. Here(s) \in Record
      BY <1>2, <1>3, <2>4, ElementOfSeq DEF Here
    <3> QED BY <2>2, <3>1 DEF Record
  <2>6. SlotGood(Fetched(s), from[s], log[at[s]], Homed(pushed, at[s]), Answers')
    BY <1>10, <2>1, <2>2, <2>4, <2>5 DEF SlotGood, Here, Working
  <2> QED BY <1>6, <1>7, <1>8, <1>16, <2>1, <2>6
<1>30. ASSUME NEW s \in Slots, Rejoin(s) PROVE KeptInv'
  <2>1. PartsGood'
    BY <1>2, <1>3, <1>4, <1>19, <1>30 DEF Rejoin
  <2> QED BY <1>6, <1>8, <1>14, <1>30, <2>1 DEF Rejoin
<1>31. ASSUME NEW s \in Slots, Skip(s) PROVE KeptInv'
  <2>1. /\ SlotGood("skip", from[s], log[at[s]], Homed(pushed, at[s]), Answers')
        /\ log[at[s]] \in Seq(Record) /\ from[s] \in Nat /\ at[s] \in Parts
    BY <1>2, <1>3, <1>10, <1>31 DEF Skip
  <2>2. log[at[s]][from[s]].job \notin Homed(pushed, at[s])
    BY <1>0, <2>1, Constants DEF SlotGood, Homed, TypeOK
  <2>3. Kept(log[at[s]], from[s] + 1, Homed(pushed, at[s]), Answers')
    BY <2>1, <2>2, KeptNext DEF SlotGood
  <2>4. from[s] + 1 \in Nat /\ from[s] + 1 <= Len(log[at[s]]) + 1
    BY <1>2, <2>1 DEF SlotGood
  <2>5. PartsGood'
    BY <1>19, <1>31, <2>1, <2>3, <2>4 DEF Skip
  <2> QED BY <1>6, <1>8, <1>14, <1>31, <2>5 DEF Skip
<1>32. ASSUME NEW s \in Slots, pc[s] \in {"count"} \cup Working, NEW step \in Working \ {"forget", "commit"},
              Goto(s, step), UNCHANGED <<cursor, first, clearing, at, from>>
       PROVE  KeptInv'
  BY <1>6, <1>7, <1>8, <1>16, <1>17, <1>32
<1>33. ASSUME NEW s \in Slots, CountAttempt(s) \/ StampAttempt(s) \/ HandlerErr(s) PROVE KeptInv'
  <2>1. PICK step \in Working \ {"forget", "commit"} : Goto(s, step)
    BY <1>33 DEF CountAttempt, StampAttempt, HandlerErr, HandOver, Working
  <2>2. pc[s] \in {"count"} \cup Working /\ UNCHANGED <<cursor, first, clearing, at, from>>
    BY <1>33 DEF CountAttempt, StampAttempt, HandlerErr, Working, shared
  <2> QED BY <1>32, <2>1, <2>2
<1>34. ASSUME NEW s \in Slots, pc[s] \in Working, Here(s).job \in Answers', NEW step \in {"forget", "commit"},
              Goto(s, step), UNCHANGED <<cursor, first, clearing, at, from>>
       PROVE  KeptInv'
  BY <1>6, <1>7, <1>8, <1>16, <1>18, <1>34
<1>35. ASSUME NEW s \in Slots, HandlerOk(s) \/ Fail(s) PROVE KeptInv'
  <2>1. pc[s] \in Working /\ Goto(s, "forget") /\ UNCHANGED <<cursor, first, clearing, at, from>>
    BY <1>35 DEF HandlerOk, Fail, Working, shared
  <2>2. Here(s).job \in Answers'
    BY <1>35 DEF HandlerOk, Fail, Answers
  <2> QED BY <1>34, <2>1, <2>2
<1>36. ASSUME NEW s \in Slots, Release(s) PROVE KeptInv'
  <2> DEFINE p == at[s]
             job == Here(s).job
  <2>1. /\ p \in Parts /\ log[p] \in Seq(Record) /\ from[s] \in 1 .. Len(log[p]) /\ job \in Jobs
        /\ job = log[p][from[s]].job /\ attempts[s] \in Nat /\ Backoff \in Nat
    BY <1>0, <1>2, <1>3, <1>17, <1>36, Constants DEF Release, Working, Here, TypeOK
  <2>2. PartitionOf[job] = p
    BY <2>1 DEF KeptInv, PartGood
  <2>3. UNCHANGED <<cursor, first, clearing, at, from, pushed>>
    BY <1>36 DEF Release, history
  <2>4. pc'[s] = "forget" /\ \A t \in Slots : t # s => pc'[t] = pc[t]
    BY <1>0, <1>36 DEF Release, Goto, TypeOK
  <2>5. /\ Len(log'[p]) = Len(log[p]) + 1 /\ log'[p][Len(log[p]) + 1].job = job
        /\ \A o \in 1 .. Len(log[p]) : log'[p][o] = log[p][o]
    <3>1. log' = [log EXCEPT ![p] = Append(@, [job |-> job, attempts |-> attempts[s], delay |-> Backoff])]
      BY <1>36, <2>2 DEF Release, Produced
    <3>2. log'[p] = Append(log[p], [job |-> job, attempts |-> attempts[s], delay |-> Backoff])
      BY <1>0, <2>1, <3>1 DEF TypeOK
    <3> HIDE DEF p, job
    <3> QED BY <2>1, <3>2, LogAppend
  <2>6. SlotGood("release", from[s], log'[p], Homed(pushed', p), Answers')
    <3>1. SlotGood("release", from[s], log[p], Homed(pushed, p), Answers')
      BY <1>10, <1>36 DEF Release
    <3> QED BY <1>1, <1>2, <1>3, <2>1, <3>1, SlotGrows
  <2>7. Kept(log'[p], from[s] + 1, Homed(pushed', p), Answers')
    <3> SUFFICES ASSUME NEW j \in Homed(pushed', p), j \notin Answers'
                 PROVE  \E o \in 1 .. Len(log'[p]) : log'[p][o].job = j /\ o >= from[s] + 1
      BY DEF Kept
    <3>1. CASE j = job
      <4>1. Len(log[p]) + 1 \in 1 .. Len(log'[p]) /\ Len(log[p]) + 1 >= from[s] + 1
        BY <1>2, <2>1, <2>5
      <4> QED BY <2>5, <3>1, <4>1
    <3>2. CASE j # job
      <4>1. PICK o \in 1 .. Len(log'[p]) : log'[p][o].job = j /\ o >= from[s]
        BY <2>6 DEF SlotGood, Kept
      <4>2. o # from[s]
        BY <2>1, <2>5, <3>2, <4>1
      <4>3. o >= from[s] + 1
        BY <1>2, <1>3, <2>1, <4>1, <4>2
      <4> QED BY <4>1, <4>3
    <3> QED BY <3>1, <3>2
  <2>8. SlotGood("forget", from[s], log'[p], Homed(pushed', p), Answers')
    BY <2>6, <2>7 DEF SlotGood, Working
  <2>9. SlotsGood'
    BY <1>11, <2>3, <2>4, <2>8
  <2> QED BY <1>6, <1>7, <1>8, <2>3, <2>9
<1>37. ASSUME NEW s \in Slots, pc[s] = "forget", Goto(s, "commit"), UNCHANGED <<cursor, first, clearing, at, from>>
       PROVE  KeptInv'
  <2>1. SlotGood("commit", from[s], log[at[s]], Homed(pushed, at[s]), Answers')
    BY <1>10, <1>37 DEF SlotGood, Working
  <2> QED BY <1>6, <1>7, <1>8, <1>16, <1>37, <2>1
<1>38. ASSUME NEW s \in Slots, ForgetAttempts(s) PROVE KeptInv'
  BY <1>37, <1>38 DEF ForgetAttempts
<1>39. ASSUME NEW s \in Slots, Commit(s) PROVE KeptInv'
  <2>1. /\ SlotGood("commit", from[s], log[at[s]], Homed(pushed, at[s]), Answers')
        /\ from[s] \in Nat /\ at[s] \in Parts /\ Len(log[at[s]]) \in Nat
    BY <1>2, <1>3, <1>10, <1>39 DEF Commit
  <2>2. from[s] + 1 \in Nat /\ from[s] + 1 <= Len(log[at[s]]) + 1
    BY <2>1 DEF SlotGood, Working
  <2>3. Kept(log[at[s]], from[s] + 1, Homed(pushed, at[s]), Answers')
    BY <2>1 DEF SlotGood
  <2>4. PartsGood'
    BY <1>19, <1>39, <2>1, <2>2, <2>3 DEF Commit
  <2> QED BY <1>6, <1>8, <1>15, <1>39, <2>4 DEF Commit
<1>40. ASSUME NEW w \in Workers, ReleasePartitions(w) PROVE KeptInv'
  BY <1>6, <1>7, <1>8, <1>13, <1>40 DEF ReleasePartitions, slot
<1>41. ASSUME NEW p \in Parts, ClearRead(p) PROVE KeptInv'
  <2>1. UNCHANGED <<log, cursor, first, pc, at, from>> /\ clearing' = [clearing EXCEPT ![p] = Len(log[p]) + 1]
    BY <1>41 DEF ClearRead, shared, slot
  <2>2. ClearsGood'
    BY <1>0, <1>2, <2>1 DEF KeptInv, TypeOK
  <2> QED BY <1>6, <1>7, <1>13, <2>1, <2>2
<1>42. ASSUME NEW p \in Parts, ClearCommit(p) PROVE KeptInv'
  <2>1. /\ UNCHANGED <<log, first, pc, at, from>>
        /\ cursor' = [cursor EXCEPT ![p] = clearing[p]] /\ clearing' = [clearing EXCEPT ![p] = 0]
        /\ excused' = excused \cup ({log[p][o].job : o \in 1 .. (clearing[p] - 1)} \cap Jobs)
    BY <1>42 DEF ClearCommit, slot
  <2>2. ClearsGood'
    BY <1>0, <1>2, <2>1 DEF KeptInv, TypeOK
  <2>3. Kept(log[p], clearing[p], Homed(pushed, p), Answers')
    <3> SUFFICES ASSUME NEW j \in Homed(pushed, p), j \notin Answers'
                 PROVE  \E o \in 1 .. Len(log[p]) : log[p][o].job = j /\ o >= clearing[p]
      BY DEF Kept
    <3>1. PICK o \in 1 .. Len(log[p]) : log[p][o].job = j
      BY <1>4 DEF Kept
    <3>2. j \in Jobs
      BY <1>0 DEF Homed, TypeOK
    <3>3. o \notin 1 .. (clearing[p] - 1)
      BY <2>1, <3>1, <3>2 DEF Answers
    <3>4. o >= clearing[p]
      BY <1>2, <3>1, <3>3
    <3> QED BY <3>1, <3>4
  <2>4. clearing[p] \in Nat /\ clearing[p] <= Len(log[p]) + 1
    BY <1>2 DEF KeptInv
  <2>5. PartsGood'
    BY <1>19, <2>1, <2>3, <2>4
  <2> QED BY <1>6, <1>13, <2>1, <2>2, <2>5
<1>43. ASSUME NEW s \in Slots, CommandFails(s) PROVE KeptInv'
  <2>1. UNCHANGED <<cursor, first, clearing>>
    BY <1>43 DEF CommandFails, shared
  <2>2. CASE pc[s] = "forget" /\ Goto(s, "commit") /\ UNCHANGED <<at, from>>
    BY <1>37, <2>1, <2>2
  <2>3. CASE pc[s] = "stamp" /\ HandOver(s) /\ UNCHANGED <<at, from>>
    BY <1>32, <2>1, <2>3 DEF HandOver, Working
  <2>4. CASE pc[s] = "fail" /\ Goto(s, "forget") /\ excused' = excused \cup {Here(s).job} /\ UNCHANGED <<at, from>>
    BY <1>34, <2>1, <2>4 DEF Working, Answers
  <2>5. CASE Drop({s})
    BY <1>6, <1>7, <1>8, <1>15, <2>1, <2>5
  <2> QED BY <1>43, <2>2, <2>3, <2>4, <2>5 DEF CommandFails
<1>44. ASSUME NEW w \in Workers, Crash(w) PROVE KeptInv'
  BY <1>6, <1>7, <1>8, <1>15, <1>44 DEF Crash, shared
<1>45. ASSUME Tick PROVE KeptInv'
  BY <1>6, <1>7, <1>8, <1>13, <1>45 DEF Tick
<1>46. CASE UNCHANGED vars
  BY <1>6, <1>7, <1>8, <1>13, <1>46 DEF vars, shared, slot
<1> QED
  BY <1>20, <1>21, <1>22, <1>24, <1>25, <1>26, <1>27, <1>28, <1>29, <1>30, <1>31, <1>33, <1>35, <1>36, <1>38,
     <1>39, <1>40, <1>41, <1>42, <1>43, <1>44, <1>45, <1>46 DEF Next, SlotStep

(* The types are kept, and with them that a cursor never passes a job that *)
(* nobody settled.                                                         *)
THEOREM KeptCorrect == Spec => []KeptInv
<1>1. Init => KeptInv
  <2> SUFFICES ASSUME Init PROVE KeptInv
    OBVIOUS
  <2>1. /\ \A p \in Parts : log[p] = <<>> /\ counted[p] = <<>> /\ cursor[p] = 0 /\ first[p] = 1 /\ clearing[p] = 0
        /\ \A s \in Slots : pc[s] = "idle" /\ from[s] = 0 /\ at[s] = 1
        /\ pushed = {}
    BY DEF Init
  <2>2. Len(<<>>) = 0 /\ \A p : Homed(pushed, p) = {}
    BY <2>1 DEF Homed
  <2>3. torn \in BOOLEAN /\ cleared \in BOOLEAN
    BY Zenon DEF Init
  <2>4. TypeOK
    BY <2>3, Constants DEF Init, TypeOK, Positive
  <2>5. \A p \in Parts : PartGood(p, log[p], counted[p], cursor[p], first[p], Homed(pushed, p), Answers)
    BY <2>1, <2>2 DEF PartGood, Kept
  <2>6. \A s \in Slots : SlotGood(pc[s], from[s], log[at[s]], Homed(pushed, at[s]), Answers)
    BY <2>1, <2>2, Constants DEF SlotGood, Kept, Working
  <2> QED BY <2>1, <2>2, <2>4, <2>5, <2>6 DEF KeptInv
<1> QED BY <1>1, KeptStep, PTL DEF Spec

(* At least once: a job that was pushed is answered, or has a record that  *)
(* the cursor of its partition has not passed, whatever crashed, failed,   *)
(* lapsed, was cleared or was committed out of turn.                       *)
THEOREM NoLossCorrect == Spec => []NoJobLost
<1>1. KeptInv => NoJobLost
  <2> SUFFICES ASSUME KeptInv, NEW j \in pushed, ~Answered(j)
               PROVE  \E o \in 1 .. Len(log[PartitionOf[j]]) :
                          log[PartitionOf[j]][o].job = j /\ o >= cursor[PartitionOf[j]]
    BY DEF NoJobLost
  <2>1. PartitionOf[j] \in Parts
    BY Constants DEF KeptInv, TypeOK
  <2>2. j \in Homed(pushed, PartitionOf[j]) /\ j \notin Answers
    BY DEF Homed, Answers, Answered
  <2> QED BY <2>1, <2>2 DEF KeptInv, PartGood, Kept
<1> QED BY <1>1, KeptCorrect, PTL

-----------------------------------------------------------------------------
Holds(w, entry) == Live(entry) /\ entry.value = w
Waits == {"idle", "own", "renew"}

(* A slot that reads or works has the lease of its partition, for as long  *)
(* as it was given less what the slot has held it; one that is about to    *)
(* renew has it still.                                                     *)
SlotLeased(step, w, time, entry) ==
    /\ step \notin Waits => Holds(w, entry) /\ entry.left + time = LeaseTicks /\ time <= HoldTime
    /\ step \in Waits => time = 0
    /\ step = "renew" => Holds(w, entry)

LeasedInv == \A s \in Slots : SlotLeased(pc[s], WorkerOf[s], held[s], lease[at[s]])

(* With a slot for each worker and a lease that outlives the slowest job,  *)
(* nothing takes a lease from the slot that has it.                        *)
LEMMA LeasedStep ==
    ASSUME WellTimed, OneSlotEach, TypeOK, LeasedInv, [Next]_vars
    PROVE  LeasedInv'
<1>0. /\ pc \in [Slots -> Steps] /\ at \in [Slots -> Parts] /\ held \in [Slots -> Nat]
      /\ lease \in [Parts -> [value: Workers, left: Nat] \cup {NoEntry}]
      /\ WorkerOf \in [Slots -> Workers] /\ LeaseTicks \in Nat /\ HoldTime \in Nat /\ LeaseTicks > 0
      /\ HoldTime < LeaseTicks
      /\ NoEntry \notin [value: Workers, left: Nat]
  BY Constants, ConstantsAssumption DEF TypeOK, Steps, WellTimed
<1>1. \A s, t \in Slots : s # t => WorkerOf[s] # WorkerOf[t]
  BY DEF OneSlotEach
<1>2. ASSUME UNCHANGED <<pc, at, held, lease>> PROVE LeasedInv'
  BY <1>2 DEF LeasedInv
<1>3. ASSUME NEW s \in Slots, NEW step, Goto(s, step), UNCHANGED <<at, held, lease>>,
             SlotLeased(step, WorkerOf[s], held[s], lease[at[s]])
      PROVE  LeasedInv'
  <2>1. pc'[s] = step /\ \A t \in Slots : t # s => pc'[t] = pc[t]
    BY <1>0, <1>3 DEF Goto
  <2> QED BY <1>3, <2>1 DEF LeasedInv
<1>4. ASSUME NEW s \in Slots, NEW step \in Steps \ Waits, pc[s] \notin Waits, Goto(s, step), UNCHANGED <<at, held, lease>>
      PROVE  LeasedInv'
  <2>1. SlotLeased(step, WorkerOf[s], held[s], lease[at[s]])
    BY <1>4 DEF LeasedInv, SlotLeased, Waits
  <2> QED BY <1>3, <1>4, <2>1
<1>5. ASSUME NEW s \in Slots, Onward(s), UNCHANGED lease PROVE LeasedInv'
  <2>1. pc'[s] \in {"idle", "own"} /\ held'[s] = 0
    BY <1>0, <1>5 DEF Onward
  <2>2. \A t \in Slots : t # s => pc'[t] = pc[t] /\ at'[t] = at[t] /\ held'[t] = held[t]
    BY <1>0, <1>5 DEF Onward
  <2> QED BY <1>5, <2>1, <2>2 DEF LeasedInv, SlotLeased, Waits
<1>6. ASSUME NEW these, Drop(these), UNCHANGED lease PROVE LeasedInv'
  <2>1. \A t \in Slots : t \in these => pc'[t] = "idle" /\ held'[t] = 0
    BY <1>6 DEF Drop
  <2>2. \A t \in Slots : t \notin these => pc'[t] = pc[t] /\ at'[t] = at[t] /\ held'[t] = held[t]
    BY <1>6 DEF Drop
  <2> QED BY <1>6, <2>1, <2>2 DEF LeasedInv, SlotLeased, Waits
<1>7. ASSUME NEW s \in Slots, Begin(s) PROVE LeasedInv'
  <2>1. pc[s] = "idle" /\ Goto(s, "own") /\ UNCHANGED <<at, held, lease>>
    BY <1>7 DEF Begin, shared
  <2>2. SlotLeased("own", WorkerOf[s], held[s], lease[at[s]])
    BY <2>1 DEF LeasedInv, SlotLeased, Waits
  <2> QED BY <1>3, <2>1, <2>2
<1>8. ASSUME NEW s \in Slots, StillOurs(s) PROVE LeasedInv'
  <2>1. pc[s] = "own" /\ Owned(WorkerOf[s], at[s]) /\ Goto(s, "renew") /\ UNCHANGED <<at, held, lease>>
    BY <1>8 DEF StillOurs, shared
  <2>2. SlotLeased("renew", WorkerOf[s], held[s], lease[at[s]])
    BY <2>1 DEF LeasedInv, SlotLeased, Waits, Owned, Holds
  <2> QED BY <1>3, <2>1, <2>2
<1>9. ASSUME NEW s \in Slots, Goto(s, "read"), pc[s] \in {"own", "renew"}, UNCHANGED <<at, held>>,
             lease' = [lease EXCEPT ![at[s]] = Entry(WorkerOf[s], LeaseTicks)],
             \A t \in Slots : t # s /\ at[t] = at[s] => ~Holds(WorkerOf[t], lease[at[t]])
      PROVE  LeasedInv'
  <2> SUFFICES ASSUME NEW t \in Slots
               PROVE  SlotLeased(pc'[t], WorkerOf[t], held'[t], lease'[at'[t]])
    BY DEF LeasedInv
  <2>1. at[t] \in Parts /\ lease'[at[s]] = Entry(WorkerOf[s], LeaseTicks)
    BY <1>0, <1>9
  <2>2. CASE t = s
    <3>1. pc'[s] = "read" /\ held'[s] = 0
      BY <1>0, <1>9 DEF Goto, LeasedInv, SlotLeased, Waits
    <3>2. Entry(WorkerOf[s], LeaseTicks) # NoEntry
      BY <1>0 DEF Entry
    <3>3. Holds(WorkerOf[s], Entry(WorkerOf[s], LeaseTicks)) /\ Entry(WorkerOf[s], LeaseTicks).left = LeaseTicks
      BY <1>0, <3>2 DEF Holds, Live, Entry
    <3> QED BY <1>0, <1>9, <2>1, <2>2, <3>1, <3>3 DEF SlotLeased, Waits
  <2>3. CASE t # s /\ at[t] # at[s]
    <3>1. pc'[t] = pc[t] /\ lease'[at[t]] = lease[at[t]]
      BY <1>0, <1>9, <2>3 DEF Goto
    <3> QED BY <1>9, <3>1 DEF LeasedInv
  <2>4. CASE t # s /\ at[t] = at[s]
    <3>1. pc'[t] = pc[t]
      BY <1>0, <1>9, <2>4 DEF Goto
    <3>2. ~Holds(WorkerOf[t], lease[at[t]])
      BY <1>9, <2>4
    <3>3. pc[t] \in Waits /\ pc[t] # "renew" /\ held[t] = 0
      BY <3>2 DEF LeasedInv, SlotLeased
    <3> QED BY <1>9, <3>1, <3>3 DEF SlotLeased
  <2> QED BY <2>2, <2>3, <2>4
<1>10. ASSUME NEW s \in Slots, Renew(s) PROVE LeasedInv'
  <2>1. Holds(WorkerOf[s], lease[at[s]])
    BY <1>10 DEF Renew, LeasedInv, SlotLeased
  <2>2. \A t \in Slots : t # s /\ at[t] = at[s] => ~Holds(WorkerOf[t], lease[at[t]])
    BY <1>1, <2>1 DEF Holds
  <2> QED BY <1>9, <1>10, <2>2 DEF Renew
<1>11. ASSUME NEW s \in Slots, Acquire(s) PROVE LeasedInv'
  <2>1. lease' = [lease EXCEPT ![at[s]] = Entry(WorkerOf[s], LeaseTicks)]
    BY <1>0, <1>11 DEF Acquire, Add
  <2>2. \A t \in Slots : t # s /\ at[t] = at[s] => ~Holds(WorkerOf[t], lease[at[t]])
    BY <1>11 DEF Acquire, Holds
  <2> QED BY <1>9, <1>11, <2>1, <2>2 DEF Acquire
<1>12. ASSUME UNCHANGED <<pc, at, held>>,
              \A t \in Slots : Holds(WorkerOf[t], lease[at[t]]) /\ pc[t] # "idle" => lease'[at[t]] = lease[at[t]]
       PROVE  LeasedInv'
  <2> SUFFICES ASSUME NEW t \in Slots
               PROVE  SlotLeased(pc[t], WorkerOf[t], held[t], lease'[at[t]])
    BY <1>12 DEF LeasedInv
  <2>1. SlotLeased(pc[t], WorkerOf[t], held[t], lease[at[t]])
    BY DEF LeasedInv
  <2> QED BY <1>12, <2>1 DEF SlotLeased, Waits
<1>13. ASSUME NEW s \in Slots, LeaseLost(s) PROVE LeasedInv'
  <2>1. lease' = [lease EXCEPT ![at[s]] = Reap(lease[at[s]])] /\ UNCHANGED <<pc, at, held>>
    BY <1>13 DEF LeaseLost, slot
  <2>2. \A t \in Slots : Live(lease[at[t]]) => lease'[at[t]] = lease[at[t]]
    BY <1>0, <2>1 DEF Reap
  <2> QED BY <1>12, <2>1, <2>2 DEF Holds
<1>14. ASSUME NEW w \in Workers, ReleasePartitions(w) PROVE LeasedInv'
  <2>1. UNCHANGED <<pc, at, held>> /\ \A p \in Parts : lease'[p] = IF p \in guards[w] THEN ForgetIf(lease[p], w) ELSE lease[p]
    BY <1>14 DEF ReleasePartitions, slot
  <2>2. \A t \in Slots : pc[t] # "idle" => WorkerOf[t] # w
    BY <1>14 DEF ReleasePartitions
  <2>3. \A t \in Slots : Holds(WorkerOf[t], lease[at[t]]) /\ pc[t] # "idle" => lease'[at[t]] = lease[at[t]]
    BY <1>0, <2>1, <2>2 DEF Holds, ForgetIf
  <2> QED BY <1>12, <2>1, <2>3
<1>15. ASSUME Tick PROVE LeasedInv'
  <2> SUFFICES ASSUME NEW t \in Slots
               PROVE  SlotLeased(pc[t], WorkerOf[t], held'[t], lease'[at[t]])
    BY <1>15 DEF LeasedInv, Tick
  <2> DEFINE e == lease[at[t]]
  <2>1. /\ SlotLeased(pc[t], WorkerOf[t], held[t], e) /\ e \in [value: Workers, left: Nat] \cup {NoEntry}
        /\ held[t] \in Nat
    BY <1>0 DEF LeasedInv
  <2>2. lease'[at[t]] = AgeEntry(e) /\ held'[t] = IF OnLease(t) THEN held[t] + 1 ELSE held[t]
    BY <1>0, <1>15 DEF Tick
  <2>3. OnLease(t) <=> pc[t] \notin Waits
    BY DEF OnLease, Waits
  <2>4. (OnLease(t) => held[t] < HoldTime) /\ (pc[t] = "renew" => Live(AgeEntry(e)))
    BY <1>15 DEF Tick, WellTimed
  <2> HIDE DEF e
  <2>5. CASE pc[t] \notin Waits
    <3>1. /\ Live(e) /\ e \in [value: Workers, left: Nat] /\ e.value = WorkerOf[t] /\ e.left + held[t] = LeaseTicks
          /\ held[t] < HoldTime /\ held'[t] = held[t] + 1 /\ e.left \in Nat
      BY <2>1, <2>2, <2>3, <2>4, <2>5 DEF SlotLeased, Holds, Live
    <3>2. e.left > 1
      BY <1>0, <2>1, <3>1
    <3>3. AgeEntry(e).value = WorkerOf[t] /\ AgeEntry(e).left = e.left - 1 /\ AgeEntry(e) # NoEntry
      BY <1>0, <3>1, <3>2 DEF AgeEntry, Live
    <3>4. Holds(WorkerOf[t], AgeEntry(e)) /\ AgeEntry(e).left + held'[t] = LeaseTicks /\ held'[t] <= HoldTime
      BY <1>0, <2>1, <3>1, <3>2, <3>3 DEF Holds, Live
    <3> QED BY <2>2, <2>5, <3>4 DEF SlotLeased, Waits
  <2>6. CASE pc[t] \in Waits
    <3>1. held'[t] = 0
      BY <2>1, <2>2, <2>3, <2>6 DEF SlotLeased
    <3>2. ASSUME pc[t] = "renew" PROVE Holds(WorkerOf[t], AgeEntry(e))
      <4>1. Live(e) /\ e \in [value: Workers, left: Nat] /\ e.value = WorkerOf[t] /\ Live(AgeEntry(e))
        BY <2>1, <2>4, <3>2 DEF SlotLeased, Holds, Live
      <4>2. AgeEntry(e).value = e.value
        BY <4>1 DEF AgeEntry
      <4> QED BY <4>1, <4>2 DEF Holds
    <3> QED BY <2>2, <2>6, <3>1, <3>2 DEF SlotLeased
  <2> QED BY <2>5, <2>6
<1>16. ASSUME NEW s \in Slots, Fetch(s) PROVE LeasedInv'
  <2>1. Fetched(s) \in {"rejoin", "next", "skip", "count"} /\ Goto(s, Fetched(s)) /\ pc[s] = "fetch" /\ UNCHANGED <<at, held, lease>>
    BY <1>16 DEF Fetch, Fetched, shared
  <2>2. Fetched(s) \in Steps \ Waits
    BY <1>16, <2>1 DEF Fetch, Steps, Reserving, Waits
  <2> QED BY <1>4, <2>1, <2>2 DEF Waits
<1>17. ASSUME NEW s \in Slots, StartOf(s) \/ CountAttempt(s) \/ StampAttempt(s) PROVE LeasedInv'
  <2>1. pc[s] \notin Waits /\ UNCHANGED <<at, held, lease>>
    BY <1>17 DEF StartOf, CountAttempt, StampAttempt, Waits, shared
  <2>2. PICK step \in Steps \ Waits : Goto(s, step)
    BY <1>17 DEF StartOf, CountAttempt, StampAttempt, HandOver, Steps, Reserving, Working, Waits
  <2> QED BY <1>4, <2>1, <2>2
<1>18. ASSUME NEW s \in Slots, HandlerOk(s) \/ HandlerErr(s) \/ Release(s) \/ Fail(s) \/ ForgetAttempts(s) PROVE LeasedInv'
  <2>1. pc[s] \notin Waits /\ UNCHANGED <<at, held, lease>>
    BY <1>18 DEF HandlerOk, HandlerErr, Release, Fail, ForgetAttempts, Waits, shared
  <2>2. PICK step \in Steps \ Waits : Goto(s, step)
    BY <1>18 DEF HandlerOk, HandlerErr, Release, Fail, ForgetAttempts, Steps, Working, Waits
  <2> QED BY <1>4, <2>1, <2>2
<1>19. ASSUME NEW s \in Slots, Refused(s) \/ FetchNothing(s) \/ Rejoin(s) \/ Skip(s) PROVE LeasedInv'
  BY <1>5, <1>19 DEF Refused, FetchNothing, Rejoin, Skip, shared
<1>20. ASSUME NEW s \in Slots, Commit(s) PROVE LeasedInv'
  BY <1>6, <1>20 DEF Commit
<1>21. ASSUME NEW s \in Slots, CommandFails(s) PROVE LeasedInv'
  <2>1. UNCHANGED lease
    BY <1>21 DEF CommandFails, shared
  <2>2. CASE Drop({s})
    BY <1>6, <2>1, <2>2
  <2>3. CASE pc[s] \in {"forget", "stamp", "fail"} /\ UNCHANGED <<at, held>> /\ \E step \in {"commit", "running", "forget"} : Goto(s, step)
    <3>1. pc[s] \notin Waits
      BY <2>3 DEF Waits
    <3>2. PICK step \in Steps \ Waits : Goto(s, step)
      BY <2>3 DEF Steps, Working, Waits
    <3> QED BY <1>4, <2>1, <2>3, <3>1, <3>2
  <2> QED BY <1>21, <2>2, <2>3 DEF CommandFails, HandOver
<1>22. ASSUME NEW w \in Workers, Crash(w) PROVE LeasedInv'
  BY <1>6, <1>22 DEF Crash, shared
<1>23. ASSUME \/ \E j \in Jobs, delay \in Delays : Push(j, delay)
              \/ \E p \in Parts : Stray(p) \/ Retire(p) \/ ClearRead(p) \/ ClearCommit(p)
              \/ UNCHANGED vars
       PROVE  LeasedInv'
  BY <1>2, <1>23 DEF Push, Stray, Retire, ClearRead, ClearCommit, vars, shared, slot
<1> QED
  BY <1>7, <1>8, <1>10, <1>11, <1>13, <1>14, <1>15, <1>16, <1>17, <1>18, <1>19, <1>20, <1>21, <1>22, <1>23
     DEF Next, SlotStep

(* "Two workers cannot share a partition": one job of a partition is in    *)
(* flight at a time, when a lease outlives the slowest job and is not lost *)
(* within an extend, and a worker runs one job at a time.                  *)
THEOREM OneInFlightCorrect == WellTimed /\ OneSlotEach => (Spec => []OneInFlight)
<1>0. SUFFICES ASSUME WellTimed, OneSlotEach PROVE Spec => []OneInFlight
  OBVIOUS
<1>1. Init => LeasedInv
  BY Constants DEF Init, LeasedInv, SlotLeased, Waits
<1>2. TypeOK /\ LeasedInv /\ [Next]_vars => LeasedInv'
  BY <1>0, LeasedStep
<1>3. KeptInv => TypeOK
  BY DEF KeptInv
<1>4. LeasedInv => OneInFlight
  <2> SUFFICES ASSUME LeasedInv, NEW s \in Slots, NEW t \in Slots,
                      pc[s] \in Working, pc[t] \in Working, at[s] = at[t]
               PROVE  s = t
    BY DEF OneInFlight
  <2>1. Holds(WorkerOf[s], lease[at[s]]) /\ Holds(WorkerOf[t], lease[at[t]])
    BY DEF LeasedInv, SlotLeased, Working, Waits
  <2> QED BY <1>0, <2>1 DEF Holds, OneSlotEach
<1> QED BY <1>1, <1>2, <1>3, <1>4, KeptCorrect, PTL DEF Spec

-----------------------------------------------------------------------------
(* Where a slot has read from, the cursor has not passed, and nothing is   *)
(* about to be cleared before somebody clears.                             *)
CursorInv ==
    ~cleared =>
        /\ \A p \in Parts : clearing[p] = 0
        /\ \A s \in Slots : pc[s] \notin Waits \cup {"read"} => from[s] >= cursor[at[s]]
        /\ \A s \in Slots : pc[s] = "rejoin" => from[s] < first[at[s]]

(* Only one slot reads from or works on a partition.                       *)
LEMMA Alone ==
    ASSUME OneSlotEach, LeasedInv, NEW s \in Slots, NEW t \in Slots,
           pc[s] \notin Waits, pc[t] \notin Waits, at[s] = at[t]
    PROVE  s = t
<1>1. Holds(WorkerOf[s], lease[at[s]]) /\ Holds(WorkerOf[t], lease[at[t]])
  BY DEF LeasedInv, SlotLeased
<1> QED BY <1>1 DEF Holds, OneSlotEach

(* Until somebody clears, no step moves a cursor back.                     *)
LEMMA CursorStep ==
    ASSUME OneSlotEach, TypeOK, TypeOK', LeasedInv, CursorInv, [Next]_vars
    PROVE  CursorInv' /\ (~cleared => \A p \in Parts : cursor'[p] >= cursor[p])
<1>0. /\ pc \in [Slots -> Steps] /\ at \in [Slots -> Parts] /\ from \in [Slots -> Nat]
      /\ cursor \in [Parts -> Nat] /\ first \in [Parts -> Nat] /\ clearing \in [Parts -> Nat]
      /\ pc' \in [Slots -> Steps] /\ at' \in [Slots -> Parts] /\ from' \in [Slots -> Nat]
      /\ cursor' \in [Parts -> Nat] /\ first' \in [Parts -> Nat]
  BY DEF TypeOK, Steps, Positive
<1> DEFINE Behind(t) == /\ pc'[t] \notin Waits \cup {"read"} => from'[t] >= cursor'[at'[t]]
                        /\ pc'[t] = "rejoin" => from'[t] < first'[at'[t]]
           Forward == \A p \in Parts : cursor'[p] >= cursor[p]
           Goal == CursorInv' /\ (~cleared => Forward)
<1>1. ASSUME UNCHANGED clearing, cleared' = cleared, ~cleared => Forward /\ \A t \in Slots : Behind(t) PROVE Goal
  BY <1>1 DEF CursorInv
<1>2. ASSUME UNCHANGED cursor PROVE Forward
  BY <1>0, <1>2
<1>3. ASSUME NEW t \in Slots, pc'[t] \in Waits \cup {"read"} PROVE Behind(t)
  BY <1>3 DEF Waits
<1>4. ASSUME ~cleared, NEW t \in Slots, pc'[t] = pc[t], at'[t] = at[t], from'[t] = from[t],
             pc[t] \in Waits \/ cursor'[at[t]] = cursor[at[t]], first'[at[t]] >= first[at[t]]
      PROVE  Behind(t)
  BY <1>0, <1>4 DEF CursorInv, Waits
<1>5. ASSUME NEW s \in Slots, NEW step, pc[s] \notin Waits \cup {"read"} \/ step \in Waits \cup {"read"},
             step = "rejoin" => from[s] < first[at[s]],
             Goto(s, step), UNCHANGED <<at, from, cursor, first, cleared, clearing>>
      PROVE  Goal
  <2> SUFFICES ASSUME ~cleared, NEW t \in Slots PROVE Behind(t)
    BY <1>1, <1>2, <1>5
  <2>1. CASE t # s
    <3>1. pc'[t] = pc[t] /\ first'[at[t]] >= first[at[t]]
      BY <1>0, <1>5, <2>1 DEF Goto
    <3> QED BY <1>4, <1>5, <3>1
  <2>2. CASE t = s
    <3>1. pc'[s] = step
      BY <1>0, <1>5 DEF Goto
    <3> QED BY <1>0, <1>5, <2>2, <3>1 DEF CursorInv
  <2> QED BY <2>1, <2>2
<1>6. ASSUME NEW these, \A t \in Slots : /\ t \in these => pc'[t] \in Waits
                                         /\ t \notin these => pc'[t] = pc[t] /\ at'[t] = at[t] /\ from'[t] = from[t],
             UNCHANGED <<cursor, first, cleared, clearing>>
      PROVE  Goal
  <2>1. \A t \in Slots : first'[at[t]] >= first[at[t]]
    BY <1>0, <1>6
  <2> QED BY <1>1, <1>2, <1>3, <1>4, <1>6, <2>1
<1>7. ASSUME NEW s \in Slots, pc[s] \notin Waits, pc'[s] \in Waits, NEW c \in Nat,
             \A t \in Slots : t # s => pc'[t] = pc[t] /\ at'[t] = at[t] /\ from'[t] = from[t],
             cursor' = [cursor EXCEPT ![at[s]] = c], ~cleared => c >= cursor[at[s]], UNCHANGED <<first, cleared, clearing>>
      PROVE  Goal
  <2>1. ~cleared => Forward
    BY <1>0, <1>7
  <2> SUFFICES ASSUME ~cleared, NEW t \in Slots PROVE Behind(t)
    BY <1>1, <1>7, <2>1
  <2>2. CASE t = s
    BY <1>3, <1>7, <2>2
  <2>3. CASE t # s
    <3>1. pc[t] \in Waits \/ at[t] # at[s]
      BY <1>7, <2>3, Alone
    <3>2. pc[t] \in Waits \/ cursor'[at[t]] = cursor[at[t]]
      BY <1>0, <1>7, <3>1
    <3>3. first'[at[t]] >= first[at[t]]
      BY <1>0, <1>7
    <3> QED BY <1>4, <1>7, <2>3, <3>2, <3>3
  <2> QED BY <2>2, <2>3
<1>8. ASSUME NEW s \in Slots, Onward(s)
      PROVE  pc'[s] \in Waits /\ \A t \in Slots : t # s => pc'[t] = pc[t] /\ at'[t] = at[t] /\ from'[t] = from[t]
  BY <1>0, <1>8 DEF Onward, Waits
<1>9. ASSUME NEW these, Drop(these)
      PROVE  \A t \in Slots : /\ t \in these => pc'[t] \in Waits
                              /\ t \notin these => pc'[t] = pc[t] /\ at'[t] = at[t] /\ from'[t] = from[t]
  BY <1>9 DEF Drop, Waits
<1>10. ASSUME NEW s \in Slots, Begin(s) \/ StillOurs(s) PROVE Goal
  <2>1. PICK step \in Waits : Goto(s, step)
    BY <1>10 DEF Begin, StillOurs, Waits
  <2>2. UNCHANGED <<at, from, cursor, first, cleared, clearing>> /\ step # "rejoin"
    BY <1>10, <2>1 DEF Begin, StillOurs, shared, history, Waits
  <2> QED BY <1>5, <2>1, <2>2
<1>11. ASSUME NEW s \in Slots, Renew(s) \/ Acquire(s) PROVE Goal
  <2>1. Goto(s, "read") /\ UNCHANGED <<at, from, cursor, first, cleared, clearing>>
    BY <1>11 DEF Renew, Acquire, history
  <2> QED BY <1>5, <2>1
<1>12. ASSUME NEW s \in Slots, Refused(s) \/ FetchNothing(s) PROVE Goal
  <2>1. Onward(s) /\ UNCHANGED <<cursor, first, cleared, clearing>>
    BY <1>12 DEF Refused, FetchNothing, shared, history
  <2>2. \A t \in Slots : /\ t \in {s} => pc'[t] \in Waits
                         /\ t \notin {s} => pc'[t] = pc[t] /\ at'[t] = at[t] /\ from'[t] = from[t]
    BY <1>8, <2>1
  <2> QED BY <1>6, <2>1, <2>2
<1>13. ASSUME NEW s \in Slots, StartOf(s) PROVE Goal
  <2>1. /\ Goto(s, "fetch") /\ UNCHANGED <<at, cursor, first, cleared, clearing>>
        /\ from' = [from EXCEPT ![s] = IF cursor[at[s]] # 0 THEN cursor[at[s]] ELSE first[at[s]]]
    BY <1>13 DEF StartOf, shared, history
  <2> SUFFICES ASSUME ~cleared, NEW t \in Slots PROVE Behind(t)
    BY <1>1, <1>2, <2>1
  <2>2. CASE t = s
    <3>1. pc'[s] = "fetch" /\ from'[s] >= cursor[at[s]]
      BY <1>0, <2>1 DEF Goto
    <3> QED BY <2>1, <2>2, <3>1
  <2>3. CASE t # s
    <3>1. pc'[t] = pc[t] /\ at'[t] = at[t] /\ from'[t] = from[t] /\ first'[at[t]] >= first[at[t]]
      BY <1>0, <2>1, <2>3 DEF Goto
    <3> QED BY <1>4, <2>1, <3>1
  <2> QED BY <2>2, <2>3
<1>14. ASSUME NEW s \in Slots, Fetch(s) PROVE Goal
  <2>1. pc[s] = "fetch" /\ Goto(s, Fetched(s)) /\ UNCHANGED <<at, from, cursor, first, cleared, clearing>>
    BY <1>14 DEF Fetch, shared, history
  <2>2. Fetched(s) = "rejoin" => from[s] < first[at[s]]
    BY DEF Fetched
  <2> QED BY <1>5, <2>1, <2>2 DEF Waits
<1>15. ASSUME NEW s \in Slots, Rejoin(s) PROVE Goal
  <2>1. /\ pc[s] = "rejoin" /\ Onward(s) /\ cursor' = [cursor EXCEPT ![at[s]] = first[at[s]]]
        /\ UNCHANGED <<first, cleared, clearing>>
    BY <1>15 DEF Rejoin, history
  <2>2. pc[s] \notin Waits \cup {"read"}
    BY <2>1 DEF Waits
  <2>3. ~cleared => first[at[s]] >= cursor[at[s]]
    BY <1>0, <2>1, <2>2 DEF CursorInv
  <2>4. first[at[s]] \in Nat
    BY <1>0
  <2> QED BY <1>7, <1>8, <2>1, <2>2, <2>3, <2>4
<1>16. ASSUME NEW s \in Slots, pc[s] \in {"skip", "commit"}, Onward(s) \/ Drop({s}),
              cursor' = [cursor EXCEPT ![at[s]] = from[s] + 1], UNCHANGED <<first, cleared, clearing>>
       PROVE  Goal
  <2>1. pc'[s] \in Waits /\ \A t \in Slots : t # s => pc'[t] = pc[t] /\ at'[t] = at[t] /\ from'[t] = from[t]
    BY <1>8, <1>9, <1>16
  <2>2. pc[s] \notin Waits \cup {"read"}
    BY <1>16 DEF Waits
  <2>3. (~cleared => from[s] + 1 >= cursor[at[s]]) /\ from[s] + 1 \in Nat
    BY <1>0, <2>2 DEF CursorInv
  <2> QED BY <1>7, <1>16, <2>1, <2>2, <2>3
<1>17. ASSUME NEW s \in Slots, Skip(s) \/ Commit(s) PROVE Goal
  BY <1>16, <1>17 DEF Skip, Commit, history
<1>18. ASSUME NEW s \in Slots, CountAttempt(s) \/ StampAttempt(s) PROVE Goal
  <2>1. PICK step \in {"stamp", "running"} : Goto(s, step)
    BY <1>18 DEF CountAttempt, StampAttempt, HandOver
  <2>2. pc[s] \in {"count", "stamp"} /\ UNCHANGED <<at, from, cursor, first, cleared, clearing>>
    BY <1>18 DEF CountAttempt, StampAttempt
  <2> QED BY <1>5, <2>1, <2>2 DEF Waits
<1>19. ASSUME NEW s \in Slots, HandlerOk(s) \/ HandlerErr(s) \/ Release(s) \/ Fail(s) \/ ForgetAttempts(s) PROVE Goal
  <2>1. PICK step \in {"forget", "fail", "release", "commit"} : Goto(s, step)
    BY <1>19 DEF HandlerOk, HandlerErr, Release, Fail, ForgetAttempts
  <2>2. pc[s] \in {"running", "release", "fail", "forget"} /\ UNCHANGED <<at, from, cursor, first, cleared, clearing>>
    BY <1>19 DEF HandlerOk, HandlerErr, Release, Fail, ForgetAttempts, shared, history
  <2> QED BY <1>5, <2>1, <2>2 DEF Waits
<1>20. ASSUME NEW s \in Slots, CommandFails(s) PROVE Goal
  <2>1. UNCHANGED <<cursor, first, cleared, clearing>>
    BY <1>20 DEF CommandFails, shared
  <2>2. ASSUME Drop({s}) PROVE Goal
    <3>1. \A t \in Slots : /\ t \in {s} => pc'[t] \in Waits
                           /\ t \notin {s} => pc'[t] = pc[t] /\ at'[t] = at[t] /\ from'[t] = from[t]
      BY <1>9, <2>2
    <3> QED BY <1>6, <2>1, <3>1
  <2>3. ASSUME pc[s] \in {"forget", "stamp", "fail"}, UNCHANGED <<at, from>>,
               NEW step \in {"commit", "running", "forget"}, Goto(s, step)
        PROVE  Goal
    BY <1>5, <2>1, <2>3 DEF Waits
  <2> HIDE DEF Goal
  <2> QED BY <1>20, <2>2, <2>3 DEF CommandFails, HandOver
<1>21. ASSUME NEW w \in Workers, Crash(w) PROVE Goal
  <2>1. UNCHANGED <<cursor, first, cleared, clearing>>
    BY <1>21 DEF Crash, shared
  <2>2. PICK these : Drop(these)
    BY <1>21 DEF Crash
  <2>3. \A t \in Slots : /\ t \in these => pc'[t] \in Waits
                         /\ t \notin these => pc'[t] = pc[t] /\ at'[t] = at[t] /\ from'[t] = from[t]
    BY <1>9, <2>2
  <2> QED BY <1>6, <2>1, <2>3
<1>22. ASSUME UNCHANGED <<pc, at, from, cursor, cleared, clearing>>, \A p \in Parts : first'[p] >= first[p] PROVE Goal
  <2>1. \A t \in Slots : first'[at[t]] >= first[at[t]]
    BY <1>0, <1>22
  <2> QED BY <1>1, <1>2, <1>4, <1>22, <2>1
<1>23. ASSUME NEW p \in Parts, Retire(p) PROVE Goal
  <2>1. \A q \in Parts : first'[q] >= first[q]
    BY <1>0, <1>23 DEF Retire
  <2> QED BY <1>22, <1>23, <2>1 DEF Retire, slot
<1>24. ASSUME \/ \E j \in Jobs, delay \in Delays : Push(j, delay)
              \/ \E p \in Parts : Stray(p)
              \/ \E s \in Slots : LeaseLost(s)
              \/ \E w \in Workers : ReleasePartitions(w)
              \/ Tick \/ UNCHANGED vars
       PROVE  Goal
  <2>1. UNCHANGED <<pc, at, from, cursor, cleared, clearing, first>>
    BY <1>24 DEF Push, Stray, LeaseLost, ReleasePartitions, Tick, vars, shared, slot, history
  <2>2. \A q \in Parts : first'[q] >= first[q]
    BY <1>0, <2>1
  <2> QED BY <1>22, <2>1, <2>2
<1>25. ASSUME NEW p \in Parts, ClearRead(p) PROVE Goal
  <2>1. cleared' = TRUE /\ UNCHANGED cursor
    BY <1>25 DEF ClearRead, shared
  <2>2. Forward
    BY <1>2, <2>1
  <2> QED BY <2>1, <2>2 DEF CursorInv
<1>26. ASSUME NEW p \in Parts, ClearCommit(p) PROVE Goal
  <2>1. cleared
    BY <1>26 DEF ClearCommit, CursorInv
  <2>2. cleared' = cleared
    BY <1>26 DEF ClearCommit
  <2> QED BY <2>1, <2>2 DEF CursorInv
<1> HIDE DEF Goal
<1>27. ASSUME NEW s \in Slots, SlotStep(s) PROVE Goal
  BY <1>10, <1>11, <1>12, <1>13, <1>14, <1>15, <1>17, <1>18, <1>19, <1>24, <1>27 DEF SlotStep
<1>28. Goal
  BY <1>20, <1>21, <1>23, <1>24, <1>25, <1>26, <1>27 DEF Next
<1> QED BY <1>28 DEF Goal

(* "A cursor cannot go backwards": until a queue is cleared no partition   *)
(* is taken back to what was settled, whatever crashes and fails, when a   *)
(* lease outlives the slowest job and is not lost within an extend, and a  *)
(* worker runs one job at a time.                                          *)
THEOREM CursorCorrect == WellTimed /\ OneSlotEach => (Spec => CursorForward)
<1>0. SUFFICES ASSUME WellTimed, OneSlotEach PROVE Spec => CursorForward
  OBVIOUS
<1>1. Init => LeasedInv /\ CursorInv
  BY Constants DEF Init, LeasedInv, SlotLeased, Waits, CursorInv
<1>2. KeptInv /\ KeptInv' /\ LeasedInv /\ CursorInv /\ [Next]_vars =>
          LeasedInv' /\ CursorInv' /\ (~cleared => \A p \in Parts : cursor'[p] >= cursor[p])
  BY <1>0, LeasedStep, CursorStep DEF KeptInv
<1>3. KeptInv /\ KeptInv' /\ LeasedInv /\ CursorInv /\ [Next]_vars =>
          [~cleared => \A p \in Parts : cursor'[p] >= cursor[p]]_vars
  BY <1>2
<1> QED BY <1>1, <1>2, <1>3, KeptCorrect, PTL DEF Spec, CursorForward

-----------------------------------------------------------------------------
(* Deliveries of a job stay within its attempts and the faults so far.     *)
Limit == MaxAttempts + events

(* A record tells, with its count, how often its job was handed out.       *)
Tallied(r, n, given) == given[r.job] = r.attempts + n

(* What a slot knows of the job it works on.                               *)
SlotTallied(step, number, r, n, given, limit) ==
    /\ step = "stamp" => n = 1 /\ number = r.attempts + 1 /\ given[r.job] = r.attempts /\ given[r.job] < limit
    /\ step \in {"running", "release", "fail"} =>
           Tallied(r, n, given) /\ number = given[r.job] /\ given[r.job] <= limit
    /\ step = "release" => number < MaxAttempts

Works(s, p, o, steps) == pc[s] \in steps /\ at[s] = p /\ from[s] = o
Settled == {"forget", "commit"}

(* A record the cursor has not passed is the last of its job, unless it is *)
(* settled and not yet committed; ...                                      *)
SoleRecord ==
    \A p \in Parts : \A o, o2 \in 1 .. Len(log[p]) :
        log[p][o].job \in Jobs /\ log[p][o2].job = log[p][o].job /\ o < o2 =>
            o < cursor[p] \/ \E s \in Slots : Works(s, p, o, Settled)

(* ... if no slot works on it, it is tallied, and its job can be delivered *)
(* once more; ...                                                          *)
RecordsTallied ==
    \A p \in Parts : \A o \in 1 .. Len(log[p]) :
        log[p][o].job \in Jobs /\ o >= cursor[p] =>
            \/ Tallied(log[p][o], counted[p][o], taken) /\ taken[log[p][o].job] < Limit
            \/ \E s \in Slots : Works(s, p, o, Working)

(* ... and if one does, that one knows.                                    *)
SlotsTallied ==
    \A s \in Slots : pc[s] \in Working =>
        SlotTallied(pc[s], attempts[s], Here(s), counted[at[s]][from[s]], taken, Limit)

(* A job nobody has pushed has no record, and was handed to nobody.        *)
UnpushedUntaken ==
    /\ \A j \in Jobs \ pushed : taken[j] = 0
    /\ \A p \in Parts : \A o \in 1 .. Len(log[p]) : log[p][o].job \in Jobs => log[p][o].job \in pushed

TallyInv ==
    /\ events <= MaxEvents
    /\ UnpushedUntaken
    /\ ~torn /\ ~cleared => SoleRecord /\ RecordsTallied /\ SlotsTallied

-----------------------------------------------------------------------------
NextWorks(s, p, o, steps) == pc'[s] \in steps /\ at'[s] = p /\ from'[s] = o

(* A slot leaves its record: nobody was on it, or it comes again at the    *)
(* cost of an event, or the cursor passes it.                              *)
Leaves(s) ==
    /\ pc'[s] \notin Working
    /\ pc[s] \in Working => \/ pc[s] \in {"running", "release", "fail"} /\ events' > events
                            \/ cursor'[at[s]] > from[s]

(* A slot goes on with its record.                                         *)
Moves(s) ==
    /\ pc[s] \in {"count"} \cup Working /\ pc'[s] \in Working
    /\ at'[s] = at[s] /\ from'[s] = from[s]
    /\ pc[s] \in Settled => pc'[s] \in Settled
    /\ SlotTallied(pc'[s], attempts'[s], Here(s), counted'[at[s]][from[s]], taken', Limit')

(* The records of a partition are carried on: who is not worked on is not  *)
(* touched, and one that joins is tallied and the only one of its job.     *)
Carried(p) ==
    /\ Len(log[p]) <= Len(log'[p]) /\ Len(log'[p]) <= Len(log[p]) + 1
    /\ \A o \in 1 .. Len(log[p]) :
           log'[p][o].job = log[p][o].job /\ log'[p][o].attempts = log[p][o].attempts
    /\ \A o \in 1 .. Len(log[p]) : log[p][o].job \in Jobs /\ o >= cursor'[p] =>
           \/ counted'[p][o] = counted[p][o] /\ taken'[log[p][o].job] = taken[log[p][o].job]
           \/ \E s \in Slots : NextWorks(s, p, o, Working)
    /\ \A o \in 1 .. Len(log'[p]) : o > Len(log[p]) /\ log'[p][o].job \in Jobs =>
           /\ Tallied(log'[p][o], counted'[p][o], taken') /\ taken'[log'[p][o].job] < Limit'
           /\ \A o2 \in 1 .. Len(log[p]) : log[p][o2].job = log'[p][o].job =>
                  o2 < cursor'[p] \/ \E s \in Slots : NextWorks(s, p, o2, Settled)

(* The limit moves with the faults.                                        *)
LEMMA LimitGrows ==
    ASSUME KeptInv, TypeOK', events' >= events
    PROVE  Limit \in Nat /\ Limit' \in Nat /\ Limit <= Limit' /\ (events' > events => Limit < Limit')
<1>1. events \in Nat /\ events' \in Nat /\ MaxAttempts \in Nat
  BY Constants DEF KeptInv, TypeOK
<1>2. Limit = MaxAttempts + events /\ Limit' = MaxAttempts + events'
  BY DEF Limit
<1>3. \A m, e, f \in Nat : f >= e => m + e \in Nat /\ m + f \in Nat /\ m + e <= m + f /\ (f > e => m + e < m + f)
  OBVIOUS
<1> QED BY <1>1, <1>2, <1>3, Zenon

(* What each slot and each partition does keeps the tally.                 *)
LEMMA TallyFrame ==
    ASSUME KeptInv, TypeOK', SoleRecord, RecordsTallied, SlotsTallied, events' >= events,
           \A p \in Parts : cursor'[p] >= cursor[p],
           \A p \in Parts : Carried(p),
           \A s \in Slots : Leaves(s) \/ Moves(s)
    PROVE  SoleRecord' /\ RecordsTallied' /\ SlotsTallied'
<1>0. /\ \A p \in Parts : /\ cursor[p] \in Nat /\ cursor'[p] \in Nat /\ Len(log[p]) \in Nat /\ Len(log'[p]) \in Nat
      /\ \A s \in Slots : at[s] \in Parts /\ from[s] \in Nat
      /\ events \in Nat /\ events' \in Nat /\ MaxAttempts \in Nat
      /\ \A j \in Jobs : taken[j] \in Nat /\ taken'[j] \in Nat
  BY Constants, LenProperties DEF KeptInv, TypeOK
<1>1. \A s \in Slots : pc[s] \in {"count"} \cup Working => from[s] \in 1 .. Len(log[at[s]]) /\ Here(s).job \in Jobs
  BY DEF KeptInv, SlotGood, Here
<1>2. \A p \in Parts : \A o \in 1 .. Len(log'[p]) : o \in 1 .. Len(log[p]) \/ (o = Len(log[p]) + 1 /\ o > Len(log[p]))
  <2> SUFFICES ASSUME NEW p \in Parts, NEW o \in 1 .. Len(log'[p])
               PROVE  o \in 1 .. Len(log[p]) \/ (o = Len(log[p]) + 1 /\ o > Len(log[p]))
    OBVIOUS
  <2>1. Len(log'[p]) <= Len(log[p]) + 1 /\ Len(log[p]) \in Nat /\ Len(log'[p]) \in Nat
    BY <1>0 DEF Carried
  <2>2. \A n, m, i \in Nat : m <= n + 1 /\ 1 <= i /\ i <= m => i \in 1 .. n \/ (i = n + 1 /\ i > n)
    OBVIOUS
  <2>3. o \in Nat /\ 1 <= o /\ o <= Len(log'[p])
    BY <2>1
  <2> QED BY <2>1, <2>2, <2>3
<1>3. Limit \in Nat /\ Limit' \in Nat /\ Limit <= Limit' /\ (events' > events => Limit < Limit')
  BY LimitGrows
<1>4. SoleRecord'
  <2> SUFFICES ASSUME NEW p \in Parts, NEW o \in 1 .. Len(log'[p]), NEW o2 \in 1 .. Len(log'[p]),
                      log'[p][o].job \in Jobs, log'[p][o2].job = log'[p][o].job, o < o2
               PROVE  o < cursor'[p] \/ \E s \in Slots : NextWorks(s, p, o, Settled)
    BY DEF SoleRecord, Works, NextWorks
  <2>0. o \in Nat /\ o2 \in Nat /\ Carried(p)
    BY <1>0
  <2>1. o \in 1 .. Len(log[p])
    BY <1>0, <1>2, <2>0
  <2>2. CASE o2 \in 1 .. Len(log[p])
    <3>1. log[p][o].job \in Jobs /\ log[p][o2].job = log[p][o].job
      BY <2>0, <2>1, <2>2 DEF Carried
    <3>2. o < cursor[p] \/ \E s \in Slots : Works(s, p, o, Settled)
      BY <2>1, <2>2, <3>1 DEF SoleRecord
    <3>3. CASE o < cursor[p]
      BY <1>0, <2>0, <3>3
    <3>4. ASSUME NEW s \in Slots, Works(s, p, o, Settled)
          PROVE  o < cursor'[p] \/ \E t \in Slots : NextWorks(t, p, o, Settled)
      <4>1. pc[s] \in Settled /\ at[s] = p /\ from[s] = o
        BY <3>4 DEF Works
      <4>2. pc[s] \in Working /\ pc[s] \notin {"running", "release", "fail"}
        BY <4>1 DEF Settled, Working
      <4>3. CASE Leaves(s)
        <5>1. cursor'[at[s]] > from[s]
          BY <4>2, <4>3 DEF Leaves
        <5> QED BY <1>0, <2>0, <4>1, <5>1
      <4>4. CASE Moves(s)
        BY <4>1, <4>4 DEF Moves, NextWorks
      <4> QED BY <4>3, <4>4
    <3> QED BY <3>2, <3>3, <3>4
  <2>3. CASE o2 > Len(log[p])
    <3>1. log'[p][o2].job \in Jobs /\ log[p][o].job = log'[p][o2].job
      BY <2>0, <2>1 DEF Carried
    <3> QED BY <2>0, <2>1, <2>3, <3>1 DEF Carried
  <2> QED BY <1>2, <2>2, <2>3
<1>5. RecordsTallied'
  <2> SUFFICES ASSUME NEW p \in Parts, NEW o \in 1 .. Len(log'[p]), log'[p][o].job \in Jobs, o >= cursor'[p]
               PROVE  \/ Tallied(log'[p][o], counted'[p][o], taken') /\ taken'[log'[p][o].job] < Limit'
                      \/ \E s \in Slots : NextWorks(s, p, o, Working)
    BY DEF RecordsTallied, Works, NextWorks
  <2>0. o \in Nat /\ Carried(p)
    BY <1>0
  <2>1. CASE o > Len(log[p])
    BY <2>0, <2>1 DEF Carried
  <2>2. CASE o \in 1 .. Len(log[p])
    <3>1. log[p][o].job = log'[p][o].job /\ log[p][o].attempts = log'[p][o].attempts /\ log[p][o].job \in Jobs /\ o >= cursor[p]
      BY <1>0, <2>0, <2>2 DEF Carried
    <3>2. CASE \E s \in Slots : NextWorks(s, p, o, Working)
      BY <3>2
    <3>3. CASE counted'[p][o] = counted[p][o] /\ taken'[log[p][o].job] = taken[log[p][o].job]
      <4>1. ASSUME Tallied(log[p][o], counted[p][o], taken), taken[log[p][o].job] < Limit'
            PROVE  Tallied(log'[p][o], counted'[p][o], taken') /\ taken'[log'[p][o].job] < Limit'
        BY <3>1, <3>3, <4>1 DEF Tallied
      <4>2. CASE Tallied(log[p][o], counted[p][o], taken) /\ taken[log[p][o].job] < Limit
        <5>1. taken[log[p][o].job] < Limit'
          BY <1>0, <1>3, <3>1, <4>2
        <5> QED BY <4>1, <4>2, <5>1
      <4>3. ASSUME NEW s \in Slots, Works(s, p, o, Working)
            PROVE  \/ Tallied(log[p][o], counted[p][o], taken) /\ taken[log[p][o].job] < Limit'
                   \/ NextWorks(s, p, o, Working)
        <5>1. pc[s] \in Working /\ at[s] = p /\ from[s] = o /\ Here(s) = log[p][o]
          BY <4>3 DEF Works, Here
        <5>2. CASE Moves(s)
          BY <5>1, <5>2 DEF Moves, NextWorks
        <5>3. CASE Leaves(s)
          <6>1. ~(cursor'[at[s]] > from[s])
            BY <1>0, <2>0, <5>1
          <6>2. pc[s] \in {"running", "release", "fail"} /\ events' > events
            BY <5>1, <5>3, <6>1 DEF Leaves
          <6>3. Tallied(log[p][o], counted[p][o], taken) /\ taken[log[p][o].job] <= Limit
            BY <5>1, <6>2 DEF SlotsTallied, SlotTallied
          <6>4. taken[log[p][o].job] < Limit'
            BY <1>0, <1>3, <3>1, <6>2, <6>3
          <6> QED BY <6>3, <6>4
        <5> QED BY <5>2, <5>3
      <4>4. \/ Tallied(log[p][o], counted[p][o], taken) /\ taken[log[p][o].job] < Limit
            \/ \E s \in Slots : Works(s, p, o, Working)
        BY <2>2, <3>1 DEF RecordsTallied
      <4> QED BY <4>1, <4>2, <4>3, <4>4
    <3> QED BY <2>0, <2>2, <3>1, <3>2, <3>3 DEF Carried
  <2> QED BY <1>2, <2>1, <2>2
<1>6. SlotsTallied'
  <2> SUFFICES ASSUME NEW s \in Slots, pc'[s] \in Working
               PROVE  SlotTallied(pc'[s], attempts'[s], log'[at'[s]][from'[s]], counted'[at'[s]][from'[s]], taken', Limit')
    BY DEF SlotsTallied, Here
  <2>1. Moves(s)
    BY DEF Leaves
  <2>2. /\ at'[s] = at[s] /\ from'[s] = from[s] /\ from[s] \in 1 .. Len(log[at[s]]) /\ at[s] \in Parts
        /\ SlotTallied(pc'[s], attempts'[s], Here(s), counted'[at[s]][from[s]], taken', Limit')
    BY <1>0, <1>1, <2>1 DEF Moves
  <2>3. log'[at[s]][from[s]].job = Here(s).job /\ log'[at[s]][from[s]].attempts = Here(s).attempts
    BY <2>2 DEF Carried, Here
  <2> QED BY <2>2, <2>3 DEF SlotTallied, Tallied
<1> QED BY <1>4, <1>5, <1>6

(* No other record that the cursor has not passed is of the job a slot is  *)
(* about to run or runs, and no other slot works on that job.              *)
LEMMA SoleHere ==
    ASSUME OneSlotEach, KeptInv, LeasedInv, CursorInv, ~cleared, SoleRecord,
           NEW s \in Slots, pc[s] \in {"count"} \cup Working, pc[s] \notin Settled
    PROVE  /\ \A p \in Parts : \A o \in 1 .. Len(log[p]) :
                  log[p][o].job = Here(s).job /\ o >= cursor[p] => p = at[s] /\ o = from[s]
           /\ \A t \in Slots : t # s /\ pc[t] \in {"count"} \cup Working => at[t] # at[s] /\ Here(t).job # Here(s).job
<1>0. /\ \A p \in Parts : cursor[p] \in Nat /\ Len(log[p]) \in Nat
      /\ \A t \in Slots : at[t] \in Parts /\ from[t] \in Nat
  BY LenProperties DEF KeptInv, TypeOK
<1>1. \A t \in Slots : pc[t] \in {"count"} \cup Working => from[t] \in 1 .. Len(log[at[t]]) /\ Here(t).job \in Jobs
  BY DEF KeptInv, SlotGood, Here
<1>2. \A p \in Parts : \A o \in 1 .. Len(log[p]) : log[p][o].job \in Jobs => PartitionOf[log[p][o].job] = p
  BY DEF KeptInv, PartGood
<1>3. \A t \in Slots : pc[t] \in {"count"} \cup Working => PartitionOf[Here(t).job] = at[t]
  BY <1>0, <1>1, <1>2 DEF Here
<1>4. \A t \in Slots : pc[t] \in {"count"} \cup Working => pc[t] \notin Waits \cup {"read"}
  BY DEF Working, Waits
<1>5. \A t \in Slots : t # s /\ pc[t] \in {"count"} \cup Working => at[t] # at[s]
  BY <1>4, Alone
<1>6. \A o \in Nat : ~\E t \in Slots : Works(t, at[s], o, Settled)
  <2> SUFFICES ASSUME NEW o \in Nat, NEW t \in Slots, Works(t, at[s], o, Settled) PROVE FALSE
    OBVIOUS
  <2>1. t # s /\ at[t] = at[s] /\ pc[t] \in Working
    BY DEF Works, Settled, Working
  <2> QED BY <1>5, <2>1
<1>7. from[s] >= cursor[at[s]]
  BY <1>4 DEF CursorInv
<1>8. ASSUME NEW p \in Parts, NEW o \in 1 .. Len(log[p]), log[p][o].job = Here(s).job, o >= cursor[p]
      PROVE  p = at[s] /\ o = from[s]
  <2>1. p = at[s]
    BY <1>1, <1>2, <1>3, <1>8
  <2>2. o \in Nat /\ from[s] \in 1 .. Len(log[p]) /\ log[p][from[s]].job \in Jobs /\ log[p][from[s]].job = log[p][o].job
    BY <1>0, <1>1, <1>8, <2>1 DEF Here
  <2>3. ~(o < cursor[p]) /\ ~(from[s] < cursor[p])
    BY <1>0, <1>7, <1>8, <2>1, <2>2
  <2>4. ~(o < from[s])
    BY <1>0, <1>6, <1>8, <2>1, <2>2, <2>3 DEF SoleRecord
  <2>5. ~(from[s] < o)
    BY <1>0, <1>6, <1>8, <2>1, <2>2, <2>3 DEF SoleRecord
  <2> QED BY <1>0, <2>1, <2>2, <2>4, <2>5
<1> QED BY <1>3, <1>5, <1>8

(* A slot that stays where it is keeps its part of the tally, ...          *)
LEMMA TallyStays ==
    ASSUME KeptInv, TypeOK', SlotsTallied, events' >= events, NEW s \in Slots,
           pc'[s] = pc[s], at'[s] = at[s], from'[s] = from[s], attempts'[s] = attempts[s],
           pc[s] \in Working => /\ counted'[at[s]][from[s]] = counted[at[s]][from[s]]
                                /\ taken'[Here(s).job] = taken[Here(s).job]
    PROVE  Leaves(s) \/ Moves(s)
<1>1. CASE pc[s] \notin Working
  BY <1>1 DEF Leaves
<1>2. CASE pc[s] \in Working
  <2>1. SlotTallied(pc[s], attempts[s], Here(s), counted[at[s]][from[s]], taken, Limit)
    BY <1>2 DEF SlotsTallied
  <2>2. Limit \in Nat /\ Limit' \in Nat /\ Limit <= Limit'
    BY LimitGrows
  <2>3. Here(s).job \in Jobs /\ taken[Here(s).job] \in Nat
    BY <1>2 DEF KeptInv, TypeOK, SlotGood, Here
  <2>4. SlotTallied(pc[s], attempts[s], Here(s), counted'[at[s]][from[s]], taken', Limit')
    BY <1>2, <2>1, <2>2, <2>3 DEF SlotTallied, Tallied
  <2> QED BY <1>2, <2>4 DEF Moves
<1> QED BY <1>1, <1>2

(* ... and one that goes on with its record keeps all of it, if it touches *)
(* no other count, and the deliveries of no other job.                     *)
LEMMA TallyMoves ==
    ASSUME OneSlotEach, KeptInv, TypeOK', LeasedInv, CursorInv, ~cleared, SoleRecord, RecordsTallied, SlotsTallied,
           events' >= events, UNCHANGED <<log, cursor, at, from>>, NEW s \in Slots, Moves(s),
           \A t \in Slots : t # s => pc'[t] = pc[t] /\ attempts'[t] = attempts[t],
           \A p \in Parts : \A o \in 1 .. Len(log[p]) :
               (p = at[s] /\ o = from[s]) \/ counted'[p][o] = counted[p][o],
           \/ UNCHANGED taken
           \/ pc[s] \notin Settled /\ \A j \in Jobs : j = Here(s).job \/ taken'[j] = taken[j]
    PROVE  SoleRecord' /\ RecordsTallied' /\ SlotsTallied'
<1>0. /\ \A p \in Parts : cursor[p] \in Nat /\ Len(log[p]) \in Nat
      /\ \A t \in Slots : at[t] \in Parts
  BY LenProperties DEF KeptInv, TypeOK
<1>1. \A t \in Slots : pc[t] \in {"count"} \cup Working => from[t] \in 1 .. Len(log[at[t]]) /\ Here(t).job \in Jobs
  BY DEF KeptInv, SlotGood, Here
<1>2. pc[s] \in {"count"} \cup Working /\ NextWorks(s, at[s], from[s], Working)
  BY DEF Moves, NextWorks
<1>3. ASSUME NEW t \in Slots, t # s PROVE Leaves(t) \/ Moves(t)
  <2>1. ASSUME pc[t] \in Working
        PROVE  /\ counted'[at[t]][from[t]] = counted[at[t]][from[t]]
               /\ taken'[Here(t).job] = taken[Here(t).job]
    <3>1. at[t] # at[s]
      <4>1. pc[t] \notin Waits /\ pc[s] \notin Waits
        BY <1>2, <2>1 DEF Working, Waits
      <4> QED BY <1>3, <4>1, Alone
    <3>2. counted'[at[t]][from[t]] = counted[at[t]][from[t]]
      BY <1>0, <1>1, <2>1, <3>1
    <3>3. taken'[Here(t).job] = taken[Here(t).job]
      <4>1. CASE UNCHANGED taken
        BY <4>1
      <4>2. CASE pc[s] \notin Settled /\ \A j \in Jobs : j = Here(s).job \/ taken'[j] = taken[j]
        <5>1. Here(t).job # Here(s).job /\ Here(t).job \in Jobs
          BY <1>1, <1>2, <1>3, <2>1, <4>2, SoleHere
        <5> QED BY <4>2, <5>1
      <4> QED BY <4>1, <4>2
    <3> QED BY <3>2, <3>3
  <2>2. pc'[t] = pc[t] /\ attempts'[t] = attempts[t] /\ at'[t] = at[t] /\ from'[t] = from[t]
    BY <1>3
  <2> QED BY <2>1, <2>2, TallyStays
<1>4. ASSUME NEW p \in Parts PROVE Carried(p)
  <2>1. /\ Len(log[p]) <= Len(log'[p]) /\ Len(log'[p]) <= Len(log[p]) + 1
        /\ \A o \in 1 .. Len(log[p]) : log'[p][o].job = log[p][o].job /\ log'[p][o].attempts = log[p][o].attempts
        /\ \A o \in 1 .. Len(log'[p]) : ~(o > Len(log[p]))
    BY <1>0
  <2>2. ASSUME NEW o \in 1 .. Len(log[p]), log[p][o].job \in Jobs, o >= cursor'[p]
        PROVE  \/ counted'[p][o] = counted[p][o] /\ taken'[log[p][o].job] = taken[log[p][o].job]
               \/ \E t \in Slots : NextWorks(t, p, o, Working)
    <3>1. CASE p = at[s] /\ o = from[s]
      BY <1>2, <3>1
    <3>2. CASE ~(p = at[s] /\ o = from[s])
      <4>1. counted'[p][o] = counted[p][o]
        BY <3>2
      <4>2. CASE UNCHANGED taken
        BY <4>1, <4>2
      <4>3. CASE pc[s] \notin Settled /\ \A j \in Jobs : j = Here(s).job \/ taken'[j] = taken[j]
        <5>1. log[p][o].job # Here(s).job
          BY <1>2, <2>2, <3>2, <4>3, SoleHere
        <5> QED BY <2>2, <4>1, <4>3, <5>1
      <4> QED BY <4>2, <4>3
    <3> QED BY <3>1, <3>2
  <2> QED BY <2>1, <2>2 DEF Carried
<1>5. \A p \in Parts : cursor'[p] >= cursor[p]
  BY <1>0
<1>6. \A t \in Slots : Leaves(t) \/ Moves(t)
  BY <1>3
<1> QED BY <1>4, <1>5, <1>6, TallyFrame

(* Where nothing is handed out, counted or produced, slots may stay, or    *)
(* leave their records as they should.                                     *)
LEMMA TallyLeaves ==
    ASSUME KeptInv, TypeOK', SoleRecord, RecordsTallied, SlotsTallied,
           events' >= events, UNCHANGED <<counted, taken>>,
           \A p \in Parts : cursor'[p] >= cursor[p],
           \A p \in Parts : /\ Len(log'[p]) = Len(log[p])
                            /\ \A o \in 1 .. Len(log[p]) :
                                   log'[p][o].job = log[p][o].job /\ log'[p][o].attempts = log[p][o].attempts,
           \A s \in Slots : \/ Leaves(s)
                            \/ pc'[s] = pc[s] /\ at'[s] = at[s] /\ from'[s] = from[s] /\ attempts'[s] = attempts[s]
    PROVE  SoleRecord' /\ RecordsTallied' /\ SlotsTallied'
<1>1. \A p \in Parts : Len(log[p]) \in Nat
  BY LenProperties DEF KeptInv, TypeOK
<1>2. \A p \in Parts : Carried(p)
  <2> SUFFICES ASSUME NEW p \in Parts PROVE Carried(p)
    OBVIOUS
  <2>1. Len(log[p]) <= Len(log'[p]) /\ Len(log'[p]) <= Len(log[p]) + 1 /\ \A o \in 1 .. Len(log'[p]) : ~(o > Len(log[p]))
    BY <1>1
  <2> QED BY <2>1 DEF Carried
<1>3. \A s \in Slots : Leaves(s) \/ Moves(s)
  BY TallyStays
<1> QED BY <1>2, <1>3, TallyFrame

(* A record that joins the end of its log keeps the tally.                 *)
LEMMA TallyProduced ==
    ASSUME KeptInv, TypeOK', SoleRecord, RecordsTallied, SlotsTallied,
           events' >= events, UNCHANGED <<taken, cursor, at, from, attempts>>,
           NEW p \in Parts, NEW job \in Jobs \cup {NotAJob}, NEW count \in Nat, NEW delay \in Nat,
           Produced(p, job, count, delay),
           \A s \in Slots : pc'[s] = pc[s] \/ (pc[s] = "release" /\ pc'[s] = "forget"),
           job \in Jobs => /\ taken[job] = count /\ taken[job] < Limit'
                           /\ \A o \in 1 .. Len(log[p]) : log[p][o].job = job =>
                                  o < cursor[p] \/ \E s \in Slots : NextWorks(s, p, o, Settled)
    PROVE  SoleRecord' /\ RecordsTallied' /\ SlotsTallied'
<1>0. /\ log \in [Parts -> Seq(Record)] /\ counted \in [Parts -> Seq(Nat)]
      /\ \A q \in Parts : Len(log[q]) \in Nat /\ Len(counted[q]) = Len(log[q]) /\ cursor[q] \in Nat
      /\ \A t \in Slots : at[t] \in Parts
  BY LenProperties DEF KeptInv, TypeOK, PartGood
<1>1. \A t \in Slots : pc[t] \in {"count"} \cup Working => from[t] \in 1 .. Len(log[at[t]]) /\ Here(t).job \in Jobs
  BY DEF KeptInv, SlotGood, Here
<1>2. /\ log'[p] = Append(log[p], [job |-> job, attempts |-> count, delay |-> delay])
      /\ counted'[p] = Append(counted[p], 0)
      /\ \A q \in Parts : q # p => log'[q] = log[q] /\ counted'[q] = counted[q]
  BY <1>0 DEF Produced
<1>3. log[p] \in Seq(Record) /\ counted[p] \in Seq(Nat)
  BY <1>0
<1>4. /\ Len(log'[p]) = Len(log[p]) + 1
      /\ log'[p][Len(log[p]) + 1].job = job /\ log'[p][Len(log[p]) + 1].attempts = count
      /\ \A o \in 1 .. Len(log[p]) : log'[p][o] = log[p][o]
  BY <1>2, <1>3, LogAppend
<1>5. counted'[p][Len(log[p]) + 1] = 0 /\ \A o \in 1 .. Len(log[p]) : counted'[p][o] = counted[p][o]
  BY <1>0, <1>2, <1>3, AppendProperties
<1>6. ASSUME NEW q \in Parts PROVE Carried(q)
  <2>1. CASE q # p
    <3>1. /\ Len(log[q]) <= Len(log'[q]) /\ Len(log'[q]) <= Len(log[q]) + 1 /\ log'[q] = log[q] /\ counted'[q] = counted[q]
          /\ \A o \in 1 .. Len(log'[q]) : ~(o > Len(log[q]))
      BY <1>0, <1>2, <2>1
    <3> QED BY <3>1 DEF Carried
  <2>2. CASE q = p
    <3>1. Len(log[p]) <= Len(log'[p]) /\ Len(log'[p]) <= Len(log[p]) + 1
      BY <1>0, <1>4
    <3>2. \A o \in 1 .. Len(log'[p]) : o > Len(log[p]) => o = Len(log[p]) + 1
      BY <1>0, <1>4
    <3>3. job \in Jobs => Tallied(log'[p][Len(log[p]) + 1], counted'[p][Len(log[p]) + 1], taken')
      BY <1>4, <1>5 DEF Tallied
    <3>4. ASSUME NEW o \in 1 .. Len(log'[p]), o > Len(log[p]), log'[p][o].job \in Jobs
          PROVE  /\ Tallied(log'[p][o], counted'[p][o], taken') /\ taken'[log'[p][o].job] < Limit'
                 /\ \A o2 \in 1 .. Len(log[p]) : log[p][o2].job = log'[p][o].job =>
                        o2 < cursor'[p] \/ \E s \in Slots : NextWorks(s, p, o2, Settled)
      <4>1. o = Len(log[p]) + 1 /\ log'[p][o].job = job /\ job \in Jobs
        BY <1>4, <3>2, <3>4
      <4> QED BY <3>3, <4>1
    <3> QED BY <1>4, <1>5, <2>2, <3>1, <3>4 DEF Carried
  <2> QED BY <2>1, <2>2
<1>7. ASSUME NEW t \in Slots PROVE Leaves(t) \/ Moves(t)
  <2>1. CASE pc'[t] = pc[t]
    <3>1. pc[t] \in Working => counted'[at[t]][from[t]] = counted[at[t]][from[t]]
      BY <1>0, <1>1, <1>2, <1>5
    <3> QED BY <2>1, <3>1, TallyStays
  <2>2. CASE pc[t] = "release" /\ pc'[t] = "forget"
    BY <2>2 DEF Moves, SlotTallied, Working, Settled
  <2> QED BY <2>1, <2>2
<1>8. \A q \in Parts : cursor'[q] >= cursor[q]
  BY <1>0
<1> QED BY <1>6, <1>7, <1>8, TallyFrame

-----------------------------------------------------------------------------
(* A tick keeps the length, the jobs and the counts of every log.          *)
LEMMA TickLog ==
    ASSUME TypeOK, Tick, NEW p \in Parts
    PROVE  /\ Len(log'[p]) = Len(log[p])
           /\ \A o \in 1 .. Len(log[p]) : log'[p][o].job = log[p][o].job /\ log'[p][o].attempts = log[p][o].attempts
<1>1. log[p] \in Seq(Record) /\ log'[p] = [o \in 1 .. Len(log[p]) |-> Waited(log[p][o])]
  BY DEF TypeOK, Tick
<1>2. PICK q \in Seq(Record) : q = log[p]
  BY <1>1
<1>3. PICK r : r = log'[p]
  OBVIOUS
<1>4. r = [o \in 1 .. Len(q) |-> Waited(q[o])]
  BY <1>1, <1>2, <1>3
<1>5. Len(r) = Len(q) /\ \A o \in 1 .. Len(q) : r[o].job = q[o].job /\ r[o].attempts = q[o].attempts
  BY <1>4, LogWait
<1> QED BY <1>2, <1>3, <1>5

(* Faults are counted, and none is taken back.                             *)
LEMMA FaultsGrow ==
    ASSUME TypeOK, [Next]_vars, events <= MaxEvents
    PROVE  events' >= events /\ events' <= MaxEvents /\ (~torn' /\ ~cleared' => ~torn /\ ~cleared)
<1>0. events \in Nat /\ MaxEvents \in Nat /\ torn \in BOOLEAN /\ cleared \in BOOLEAN
  BY Constants DEF TypeOK
<1> DEFINE Goal == events' >= events /\ events' <= MaxEvents /\ (~torn' /\ ~cleared' => ~torn /\ ~cleared)
<1>1. ASSUME UNCHANGED <<events, torn, cleared>> PROVE Goal
  BY <1>0, <1>1
<1>2. ASSUME Event PROVE events' >= events /\ events' <= MaxEvents
  <2>1. events < MaxEvents /\ events' = events + 1
    BY <1>2 DEF Event
  <2> QED BY <1>0, <2>1
<1>3. ASSUME NEW p \in Parts, Stray(p) \/ Retire(p) PROVE Goal
  <2>1. Event /\ UNCHANGED <<torn, cleared>>
    BY <1>3 DEF Stray, Retire, history
  <2> QED BY <1>2, <2>1
<1>4. ASSUME NEW p \in Parts, ClearRead(p) PROVE Goal
  <2>1. Event /\ cleared'
    BY <1>4 DEF ClearRead
  <2> QED BY <1>2, <2>1
<1>5. ASSUME Event, UNCHANGED cleared, torn => torn' PROVE Goal
  BY <1>2, <1>5
<1>6. ASSUME NEW s \in Slots, CommandFails(s) PROVE Goal
  <2>1. Event /\ UNCHANGED cleared /\ (torn => torn')
    BY <1>6 DEF CommandFails
  <2> QED BY <1>5, <2>1
<1>7. ASSUME NEW w \in Workers, Crash(w) PROVE Goal
  <2>1. Event /\ UNCHANGED cleared /\ (torn => torn')
    BY <1>7 DEF Crash
  <2> QED BY <1>5, <2>1
<1>8. ASSUME NEW s \in Slots, \/ Begin(s) \/ StillOurs(s) \/ Renew(s) \/ LeaseLost(s) \/ Acquire(s) \/ Refused(s)
                              \/ StartOf(s) \/ Fetch(s) \/ FetchNothing(s) \/ Rejoin(s)
      PROVE  Goal
  <2>1. UNCHANGED <<events, torn, cleared>>
    BY <1>8 DEF Begin, StillOurs, Renew, LeaseLost, Acquire, Refused, StartOf, Fetch, FetchNothing, Rejoin, history
  <2> QED BY <1>1, <2>1
<1>9. ASSUME NEW s \in Slots, \/ Skip(s) \/ CountAttempt(s) \/ StampAttempt(s) \/ HandlerOk(s) \/ HandlerErr(s)
                              \/ Release(s) \/ Fail(s) \/ ForgetAttempts(s) \/ Commit(s)
      PROVE  Goal
  <2>1. UNCHANGED <<events, torn, cleared>>
    BY <1>9 DEF Skip, CountAttempt, StampAttempt, HandlerOk, HandlerErr, Release, Fail, ForgetAttempts, Commit, history
  <2> QED BY <1>1, <2>1
<1>10. ASSUME \/ \E j \in Jobs, delay \in Delays : Push(j, delay)
              \/ \E w \in Workers : ReleasePartitions(w)
              \/ \E p \in Parts : ClearCommit(p)
              \/ Tick \/ UNCHANGED vars
       PROVE  Goal
  <2>1. UNCHANGED <<events, torn, cleared>>
    BY <1>10 DEF Push, ReleasePartitions, ClearCommit, Tick, vars, history
  <2> QED BY <1>1, <2>1
<1> HIDE DEF Goal
<1>11. ASSUME NEW s \in Slots, SlotStep(s) PROVE Goal
  BY <1>8, <1>9, <1>11 DEF SlotStep
<1>12. Goal
  BY <1>3, <1>4, <1>6, <1>7, <1>10, <1>11 DEF Next
<1> QED BY <1>12 DEF Goal

(* What is produced, and what is handed out, has been pushed.              *)
LEMMA UnpushedStep ==
    ASSUME KeptInv, TypeOK', UnpushedUntaken, [Next]_vars
    PROVE  UnpushedUntaken'
<1>0. /\ log \in [Parts -> Seq(Record)] /\ taken \in [Jobs -> Nat]
      /\ \A p \in Parts : Len(log[p]) \in Nat
      /\ \A s \in Slots : at[s] \in Parts /\ attempts[s] \in Nat
  BY LenProperties DEF KeptInv, TypeOK
<1>1. \A s \in Slots : pc[s] \in {"count"} \cup Working => Here(s).job \in Jobs /\ Here(s).job \in pushed
  BY <1>0 DEF KeptInv, SlotGood, Here, UnpushedUntaken
<1>2. ASSUME UNCHANGED <<log, taken, pushed>> PROVE UnpushedUntaken'
  BY <1>2 DEF UnpushedUntaken
<1>3. ASSUME NEW s \in Slots, pc[s] \in {"count"} \cup Working, HandOver(s), UNCHANGED <<log, pushed>>
      PROVE  UnpushedUntaken'
  <2>1. Here(s).job \in pushed /\ \A j \in Jobs : j # Here(s).job => taken'[j] = taken[j]
    BY <1>0, <1>1, <1>3 DEF HandOver
  <2> QED BY <1>3, <2>1 DEF UnpushedUntaken
<1>4. ASSUME NEW p \in Parts, NEW job \in Jobs \cup {NotAJob}, NEW count \in Nat, NEW delay \in Nat,
             Produced(p, job, count, delay), UNCHANGED taken, pushed \subseteq pushed', job \in Jobs => job \in pushed'
      PROVE  UnpushedUntaken'
  <2>1. /\ log'[p] = Append(log[p], [job |-> job, attempts |-> count, delay |-> delay])
        /\ \A q \in Parts : q # p => log'[q] = log[q]
    BY <1>0, <1>4 DEF Produced
  <2>2. log[p] \in Seq(Record)
    BY <1>0
  <2>3. /\ Len(log'[p]) = Len(log[p]) + 1 /\ log'[p][Len(log[p]) + 1].job = job
        /\ \A o \in 1 .. Len(log[p]) : log'[p][o] = log[p][o]
    BY <2>1, <2>2, LogAppend
  <2>4. \A o \in 1 .. Len(log'[p]) : o \in 1 .. Len(log[p]) \/ o = Len(log[p]) + 1
    BY <1>0, <2>3
  <2>5. \A q \in Parts : \A o \in 1 .. Len(log'[q]) : log'[q][o].job \in Jobs => log'[q][o].job \in pushed'
    BY <1>4, <2>1, <2>3, <2>4 DEF UnpushedUntaken
  <2> QED BY <1>4, <2>5 DEF UnpushedUntaken
<1>5. ASSUME NEW j \in Jobs, NEW delay \in Delays, Push(j, delay) PROVE UnpushedUntaken'
  <2>1. PartitionOf[j] \in Parts /\ delay \in Nat
    BY Constants
  <2>2. Produced(PartitionOf[j], j, 0, delay) /\ UNCHANGED taken /\ pushed' = pushed \cup {j}
    BY <1>5 DEF Push
  <2> QED BY <1>4, <2>1, <2>2
<1>6. ASSUME NEW p \in Parts, Stray(p) PROVE UnpushedUntaken'
  BY <1>4, <1>6, Constants DEF Stray, history
<1>7. ASSUME NEW s \in Slots, Release(s) PROVE UnpushedUntaken'
  <2>1. pc[s] \in Working /\ UNCHANGED <<taken, pushed>>
    BY <1>7 DEF Release, Working, history
  <2>2. Here(s).job \in Jobs /\ Here(s).job \in pushed
    BY <1>1, <2>1
  <2>3. PartitionOf[Here(s).job] \in Parts /\ attempts[s] \in Nat /\ Backoff \in Nat
    BY <1>0, <2>2, Constants
  <2>4. Produced(PartitionOf[Here(s).job], Here(s).job, attempts[s], Backoff)
    BY <1>7 DEF Release
  <2> QED BY <1>4, <2>1, <2>2, <2>3, <2>4
<1>8. ASSUME NEW s \in Slots, CountAttempt(s) \/ StampAttempt(s) PROVE UnpushedUntaken'
  <2>1. pc[s] \in {"count"} \cup Working /\ UNCHANGED <<log, pushed>> /\ (UNCHANGED taken \/ HandOver(s))
    BY <1>8 DEF CountAttempt, StampAttempt, Working
  <2> QED BY <1>2, <1>3, <2>1
<1>9. ASSUME NEW s \in Slots, CommandFails(s) PROVE UnpushedUntaken'
  <2>1. UNCHANGED <<log, pushed>> /\ (UNCHANGED taken \/ (pc[s] \in {"count"} \cup Working /\ HandOver(s)))
    BY <1>9 DEF CommandFails, Working, shared
  <2> QED BY <1>2, <1>3, <2>1
<1>10. ASSUME Tick PROVE UnpushedUntaken'
  <2>1. TypeOK
    BY DEF KeptInv
  <2>2. \A p \in Parts : Len(log'[p]) = Len(log[p]) /\ \A o \in 1 .. Len(log[p]) : log'[p][o].job = log[p][o].job
    BY <1>10, <2>1, TickLog
  <2>3. UNCHANGED <<taken, pushed>>
    BY <1>10 DEF Tick, history
  <2> QED BY <2>2, <2>3 DEF UnpushedUntaken
<1>11. ASSUME NEW s \in Slots, \/ Begin(s) \/ StillOurs(s) \/ Renew(s) \/ LeaseLost(s) \/ Acquire(s) \/ Refused(s)
                               \/ StartOf(s) \/ Fetch(s) \/ FetchNothing(s) \/ Rejoin(s)
       PROVE  UnpushedUntaken'
  <2>1. UNCHANGED <<log, taken, pushed>>
    BY <1>11 DEF Begin, StillOurs, Renew, LeaseLost, Acquire, Refused, StartOf, Fetch, FetchNothing, Rejoin, history, shared
  <2> QED BY <1>2, <2>1
<1>12. ASSUME NEW s \in Slots, Skip(s) \/ HandlerOk(s) \/ HandlerErr(s) \/ Fail(s) \/ ForgetAttempts(s) \/ Commit(s)
       PROVE  UnpushedUntaken'
  <2>1. UNCHANGED <<log, taken, pushed>>
    BY <1>12 DEF Skip, HandlerOk, HandlerErr, Fail, ForgetAttempts, Commit, history, shared
  <2> QED BY <1>2, <2>1
<1>13. ASSUME \/ \E p \in Parts : Retire(p) \/ ClearRead(p) \/ ClearCommit(p)
              \/ \E w \in Workers : ReleasePartitions(w) \/ Crash(w)
              \/ UNCHANGED vars
       PROVE  UnpushedUntaken'
  <2>1. UNCHANGED <<log, taken, pushed>>
    BY <1>13 DEF Retire, ClearRead, ClearCommit, ReleasePartitions, Crash, vars, history, shared
  <2> QED BY <1>2, <2>1
<1>14. ASSUME NEW s \in Slots, SlotStep(s) PROVE UnpushedUntaken'
  BY <1>7, <1>8, <1>11, <1>12, <1>14 DEF SlotStep
<1> QED BY <1>5, <1>6, <1>9, <1>10, <1>13, <1>14 DEF Next

(* Every action keeps the tally, as long as no fault tears commands apart. *)
LEMMA TallyStep ==
    ASSUME OneSlotEach, MaxAttempts >= 1, MaxAttempts + MaxEvents <= TakenCap,
           KeptInv, TypeOK', LeasedInv, CursorInv, TallyInv, [Next]_vars
    PROVE  TallyInv'
<1>0. TypeOK /\ events' >= events /\ events' <= MaxEvents /\ (~torn' /\ ~cleared' => ~torn /\ ~cleared)
  BY FaultsGrow DEF KeptInv, TallyInv
<1>1. UnpushedUntaken /\ UnpushedUntaken'
  BY UnpushedStep DEF TallyInv
<1> DEFINE Goal == SoleRecord' /\ RecordsTallied' /\ SlotsTallied'
<1> SUFFICES ASSUME ~torn', ~cleared' PROVE Goal
  BY <1>0, <1>1 DEF TallyInv
<1>2. ~torn /\ ~cleared /\ SoleRecord /\ RecordsTallied /\ SlotsTallied
  BY <1>0 DEF TallyInv
<1>3. \A p \in Parts : cursor'[p] >= cursor[p]
  BY <1>0, <1>2, CursorStep
<1>4. /\ pc \in [Slots -> Steps] /\ at \in [Slots -> Parts] /\ from \in [Slots -> Nat] /\ attempts \in [Slots -> Nat]
      /\ log \in [Parts -> Seq(Record)] /\ counted \in [Parts -> Seq(Nat)] /\ taken \in [Jobs -> Nat]
      /\ cursor \in [Parts -> Nat] /\ \A p \in Parts : Len(log[p]) \in Nat /\ Len(counted[p]) = Len(log[p])
  BY <1>0, LenProperties DEF TypeOK, Steps, KeptInv, PartGood
<1>5. \A s \in Slots : pc[s] \in {"count"} \cup Working =>
          /\ from[s] \in 1 .. Len(log[at[s]]) /\ from[s] \in 1 .. Len(counted[at[s]])
          /\ Here(s) = log[at[s]][from[s]] /\ Here(s).job \in Jobs
          /\ Here(s).attempts \in Nat /\ counted[at[s]][from[s]] \in Nat
          /\ from[s] >= cursor[at[s]] /\ PartitionOf[Here(s).job] = at[s]
  <2> SUFFICES ASSUME NEW s \in Slots, pc[s] \in {"count"} \cup Working
               PROVE  /\ from[s] \in 1 .. Len(log[at[s]]) /\ from[s] \in 1 .. Len(counted[at[s]])
                      /\ Here(s) = log[at[s]][from[s]] /\ Here(s).job \in Jobs
                      /\ Here(s).attempts \in Nat /\ counted[at[s]][from[s]] \in Nat
                      /\ from[s] >= cursor[at[s]] /\ PartitionOf[Here(s).job] = at[s]
    OBVIOUS
  <2>1. at[s] \in Parts /\ log[at[s]] \in Seq(Record) /\ counted[at[s]] \in Seq(Nat)
    BY <1>4
  <2>2. from[s] \in 1 .. Len(log[at[s]]) /\ Here(s).job \in Jobs /\ Here(s) = log[at[s]][from[s]]
    BY DEF KeptInv, SlotGood, Here
  <2>3. from[s] \in 1 .. Len(counted[at[s]])
    BY <1>4, <2>1, <2>2
  <2>4. Here(s) \in Record /\ counted[at[s]][from[s]] \in Nat
    BY <2>1, <2>2, <2>3, ElementOfSeq
  <2>5. pc[s] \notin Waits \cup {"read"}
    BY DEF Waits, Working
  <2>6. from[s] >= cursor[at[s]]
    BY <1>2, <2>5 DEF CursorInv
  <2>7. PartitionOf[Here(s).job] = at[s]
    BY <2>1, <2>2 DEF KeptInv, PartGood
  <2> QED BY <2>2, <2>3, <2>4, <2>6, <2>7 DEF Record
<1>6. Limit \in Nat /\ Limit' \in Nat /\ Limit <= Limit' /\ (events' > events => Limit < Limit') /\ MaxAttempts <= Limit /\ Limit <= TakenCap
  <2>1. events \in Nat /\ MaxEvents \in Nat /\ MaxAttempts \in Nat /\ TakenCap \in Nat /\ events <= MaxEvents
    BY <1>0, Constants DEF TypeOK, TallyInv
  <2>2. MaxAttempts <= Limit /\ Limit <= TakenCap
    BY <2>1 DEF Limit
  <2> QED BY <1>0, <2>2, LimitGrows
(* What moves one slot on.                                                 *)
<1>7. ASSUME NEW s \in Slots, NEW step, Goto(s, step) PROVE pc'[s] = step /\ \A t \in Slots : t # s => pc'[t] = pc[t]
  BY <1>4, <1>7 DEF Goto
<1>8. ASSUME NEW s \in Slots, pc[s] \in Working, NEW step \in Working, Goto(s, step),
             UNCHANGED <<log, cursor, counted, at, from, attempts, taken>>, pc[s] \in Settled => step \in Settled,
             SlotTallied(step, attempts[s], Here(s), counted[at[s]][from[s]], taken, Limit')
      PROVE  Goal
  <2>1. pc'[s] = step /\ \A t \in Slots : t # s => pc'[t] = pc[t]
    BY <1>7, <1>8
  <2>2. Moves(s)
    BY <1>8, <2>1 DEF Moves
  <2> QED BY <1>0, <1>2, <1>8, <2>1, <2>2, TallyMoves
<1>9. ASSUME NEW s \in Slots, HandOver(s), pc[s] \in {"count", "stamp"}, taken[Here(s).job] < Limit
      PROVE  /\ pc'[s] = "running" /\ \A t \in Slots : t # s => pc'[t] = pc[t]
             /\ taken'[Here(s).job] = taken[Here(s).job] + 1
             /\ \A j \in Jobs : j = Here(s).job \/ taken'[j] = taken[j]
  <2>1. Here(s).job \in Jobs /\ taken[Here(s).job] \in Nat
    BY <1>4, <1>5, <1>9 DEF Working
  <2>2. taken[Here(s).job] < TakenCap
    BY <1>6, <1>9, <2>1, Constants
  <2>3. taken' = [taken EXCEPT ![Here(s).job] = IF taken[Here(s).job] < TakenCap THEN taken[Here(s).job] + 1 ELSE taken[Here(s).job]]
    BY <1>9 DEF HandOver
  <2>4. Goto(s, "running")
    BY <1>9 DEF HandOver
  <2> QED BY <1>4, <1>7, <2>1, <2>2, <2>3, <2>4
<1>10. ASSUME NEW s \in Slots, pc[s] \in {"count"} \cup Working, NEW n \in Nat,
              counted' = [counted EXCEPT ![at[s]][from[s]] = n]
       PROVE  /\ counted'[at[s]][from[s]] = n
              /\ \A p \in Parts : \A o \in 1 .. Len(log[p]) : (p = at[s] /\ o = from[s]) \/ counted'[p][o] = counted[p][o]
  <2>1. at[s] \in Parts /\ from[s] \in 1 .. Len(counted[at[s]]) /\ counted[at[s]] \in Seq(Nat)
    BY <1>4, <1>5, <1>10
  <2>2. counted'[at[s]] = [counted[at[s]] EXCEPT ![from[s]] = n] /\ \A p \in Parts : p # at[s] => counted'[p] = counted[p]
    BY <1>4, <1>10, <2>1
  <2>3. counted'[at[s]][from[s]] = n /\ \A o \in 1 .. Len(counted[at[s]]) : o = from[s] \/ counted'[at[s]][o] = counted[at[s]][o]
    BY <2>1, <2>2, ExceptSeq
  <2> QED BY <1>4, <2>1, <2>2, <2>3
<1>11. ASSUME NEW s \in Slots, CountAttempt(s) PROVE Goal
  <2> DEFINE n == counted[at[s]][from[s]]
             r == Here(s)
  <2>1. /\ pc[s] = "count" /\ counted' = [counted EXCEPT ![at[s]][from[s]] = n + 1]
        /\ attempts' = [attempts EXCEPT ![s] = r.attempts + (n + 1)]
        /\ \/ n + 1 = 1 /\ Goto(s, "stamp") /\ UNCHANGED taken
           \/ n + 1 # 1 /\ HandOver(s)
        /\ UNCHANGED <<log, cursor, at, from>>
    BY <1>11 DEF CountAttempt, AttemptNumber
  <2>2. n \in Nat /\ r.job \in Jobs /\ r.attempts \in Nat /\ taken[r.job] \in Nat
    BY <1>4, <1>5, <2>1
  <2>3. Tallied(r, n, taken) /\ taken[r.job] < Limit
    <3>1. ~\E t \in Slots : Works(t, at[s], from[s], Working)
      <4> SUFFICES ASSUME NEW t \in Slots, Works(t, at[s], from[s], Working) PROVE FALSE
        OBVIOUS
      <4>1. t # s /\ at[t] = at[s] /\ pc[t] \notin Waits /\ pc[s] \notin Waits
        BY <2>1 DEF Works, Working, Waits
      <4> QED BY <4>1, Alone
    <3>2. at[s] \in Parts /\ from[s] \in 1 .. Len(log[at[s]]) /\ r = log[at[s]][from[s]] /\ from[s] >= cursor[at[s]]
      BY <1>4, <1>5, <2>1
    <3> QED BY <1>2, <2>2, <3>1, <3>2 DEF RecordsTallied
  <2>4. attempts'[s] = r.attempts + (n + 1) /\ \A t \in Slots : t # s => attempts'[t] = attempts[t]
    BY <1>4, <2>1
  <2>5. /\ counted'[at[s]][from[s]] = n + 1
        /\ \A p \in Parts : \A o \in 1 .. Len(log[p]) : (p = at[s] /\ o = from[s]) \/ counted'[p][o] = counted[p][o]
    <3>1. PICK m \in Nat : m = n + 1
      BY <2>2
    <3>2. pc[s] \in {"count"} \cup Working /\ counted' = [counted EXCEPT ![at[s]][from[s]] = m]
      BY <2>1, <3>1
    <3> HIDE DEF n
    <3> QED BY <1>10, <3>1, <3>2
  <2> HIDE DEF n, r
  <2>6. CASE n + 1 = 1 /\ Goto(s, "stamp") /\ UNCHANGED taken
    <3>1. pc'[s] = "stamp" /\ \A t \in Slots : t # s => pc'[t] = pc[t]
      BY <1>7, <2>6
    <3>2. n = 0 /\ taken[r.job] = r.attempts /\ taken[r.job] < Limit'
      BY <1>6, <2>2, <2>3, <2>6 DEF Tallied
    <3>3. SlotTallied("stamp", attempts'[s], r, n + 1, taken', Limit')
      BY <2>2, <2>4, <2>6, <3>2 DEF SlotTallied
    <3>4. Moves(s)
      BY <2>1, <2>5, <3>1, <3>3 DEF Moves, Working, Settled, r
    <3> QED BY <1>0, <1>2, <2>1, <2>4, <2>5, <2>6, <3>1, <3>4, TallyMoves
  <2>7. CASE HandOver(s)
    <3>1. /\ pc'[s] = "running" /\ \A t \in Slots : t # s => pc'[t] = pc[t]
          /\ taken'[r.job] = taken[r.job] + 1 /\ \A j \in Jobs : j = r.job \/ taken'[j] = taken[j]
      BY <1>9, <2>1, <2>3, <2>7 DEF r
    <3>2. taken'[r.job] = r.attempts + (n + 1) /\ taken'[r.job] <= Limit'
      BY <1>6, <2>2, <2>3, <3>1 DEF Tallied
    <3>3. SlotTallied("running", attempts'[s], r, n + 1, taken', Limit')
      BY <2>4, <3>2 DEF SlotTallied, Tallied
    <3>4. Moves(s)
      BY <2>1, <2>5, <3>1, <3>3 DEF Moves, Working, Settled, r
    <3>5. pc[s] \notin Settled /\ \A j \in Jobs : j = Here(s).job \/ taken'[j] = taken[j]
      BY <2>1, <3>1 DEF Settled, r
    <3> QED BY <1>0, <1>2, <2>1, <2>4, <2>5, <3>1, <3>4, <3>5, TallyMoves
  <2> QED BY <2>1, <2>6, <2>7
<1>12. ASSUME NEW s \in Slots, StampAttempt(s) PROVE Goal
  <2> DEFINE r == Here(s)
  <2>1. /\ pc[s] = "stamp" /\ counted' = [counted EXCEPT ![at[s]][from[s]] = 1] /\ HandOver(s)
        /\ UNCHANGED <<log, cursor, at, from, attempts>>
    BY <1>12 DEF StampAttempt
  <2>2. pc[s] \in Working /\ pc[s] \notin Settled
    BY <2>1 DEF Working, Settled
  <2>3. r.job \in Jobs /\ r.attempts \in Nat /\ taken[r.job] \in Nat
    BY <1>4, <1>5, <2>2
  <2>4. attempts[s] = r.attempts + 1 /\ taken[r.job] = r.attempts /\ taken[r.job] < Limit
    BY <1>2, <2>1, <2>2 DEF SlotsTallied, SlotTallied
  <2>5. /\ counted'[at[s]][from[s]] = 1
        /\ \A p \in Parts : \A o \in 1 .. Len(log[p]) : (p = at[s] /\ o = from[s]) \/ counted'[p][o] = counted[p][o]
    BY <1>10, <2>1, <2>2
  <2>6. /\ pc'[s] = "running" /\ \A t \in Slots : t # s => pc'[t] = pc[t]
        /\ taken'[r.job] = taken[r.job] + 1 /\ \A j \in Jobs : j = r.job \/ taken'[j] = taken[j]
    BY <1>9, <2>1, <2>4
  <2> HIDE DEF r
  <2>7. taken'[r.job] = r.attempts + 1 /\ taken'[r.job] <= Limit'
    BY <1>6, <2>3, <2>4, <2>6
  <2>8. SlotTallied("running", attempts'[s], r, 1, taken', Limit')
    BY <2>1, <2>4, <2>7 DEF SlotTallied, Tallied
  <2>9. Moves(s)
    BY <2>1, <2>2, <2>5, <2>6, <2>8 DEF Moves, Working, r
  <2>10. \A j \in Jobs : j = Here(s).job \/ taken'[j] = taken[j]
    BY <2>6 DEF r
  <2>11. \A t \in Slots : t # s => pc'[t] = pc[t] /\ attempts'[t] = attempts[t]
    BY <2>1, <2>6
  <2> QED BY <1>0, <1>2, <2>1, <2>2, <2>5, <2>9, <2>10, <2>11, TallyMoves
<1>13. ASSUME NEW s \in Slots, HandlerOk(s) \/ Fail(s) PROVE Goal
  <2>1. pc[s] \in Working \ Settled /\ Goto(s, "forget") /\ UNCHANGED <<log, cursor, counted, at, from, attempts, taken>>
    BY <1>13 DEF HandlerOk, Fail, Working, Settled, shared, history
  <2>2. SlotTallied("forget", attempts[s], Here(s), counted[at[s]][from[s]], taken, Limit') /\ "forget" \in Working
    BY DEF SlotTallied, Working
  <2> QED BY <1>8, <2>1, <2>2
<1>14. ASSUME NEW s \in Slots, HandlerErr(s) PROVE Goal
  <2> DEFINE step == IF attempts[s] >= MaxAttempts THEN "fail" ELSE "release"
  <2>1. pc[s] = "running" /\ Goto(s, step) /\ UNCHANGED <<log, cursor, counted, at, from, attempts, taken>>
    BY <1>14 DEF HandlerErr, shared, history
  <2>2. pc[s] \in Working /\ pc[s] \notin Settled /\ step \in Working
    BY <2>1 DEF Working, Settled
  <2>3. SlotTallied("running", attempts[s], Here(s), counted[at[s]][from[s]], taken, Limit)
    BY <1>2, <2>1, <2>2 DEF SlotsTallied
  <2>4. Here(s).job \in Jobs /\ taken[Here(s).job] \in Nat /\ attempts[s] \in Nat
    BY <1>4, <1>5, <2>2
  <2>5. step \in {"fail", "release"} /\ (step = "release" => attempts[s] < MaxAttempts)
    BY <2>4, Constants
  <2> HIDE DEF step
  <2>6. SlotTallied(step, attempts[s], Here(s), counted[at[s]][from[s]], taken, Limit')
    BY <1>6, <2>3, <2>4, <2>5 DEF SlotTallied
  <2> QED BY <1>8, <2>1, <2>2, <2>6
<1>15. ASSUME NEW s \in Slots, ForgetAttempts(s) PROVE Goal
  <2>1. /\ pc[s] = "forget" /\ counted' = [counted EXCEPT ![at[s]][from[s]] = 0] /\ Goto(s, "commit")
        /\ UNCHANGED <<log, cursor, at, from, attempts, taken>>
    BY <1>15 DEF ForgetAttempts, history
  <2>2. pc'[s] = "commit" /\ \A t \in Slots : t # s => pc'[t] = pc[t]
    BY <1>7, <2>1
  <2>3. pc[s] \in Working
    BY <2>1 DEF Working
  <2>4. \A p \in Parts : \A o \in 1 .. Len(log[p]) : (p = at[s] /\ o = from[s]) \/ counted'[p][o] = counted[p][o]
    BY <1>10, <2>1, <2>3
  <2>5. Moves(s)
    BY <2>1, <2>2 DEF Moves, SlotTallied, Working, Settled
  <2>6. \A t \in Slots : t # s => pc'[t] = pc[t] /\ attempts'[t] = attempts[t]
    BY <2>1, <2>2
  <2> QED BY <1>0, <1>2, <2>1, <2>4, <2>5, <2>6, TallyMoves
<1>16. ASSUME NEW s \in Slots, Release(s) PROVE Goal
  <2>1. /\ pc[s] = "release" /\ Produced(PartitionOf[Here(s).job], Here(s).job, attempts[s], Backoff)
        /\ Goto(s, "forget") /\ UNCHANGED <<taken, cursor, at, from, attempts>>
    BY <1>16 DEF Release, history
  <2>2. pc[s] \in Working /\ pc[s] \notin Settled
    BY <2>1 DEF Working, Settled
  <2>3. /\ Here(s).job \in Jobs /\ PartitionOf[Here(s).job] = at[s] /\ attempts[s] \in Nat /\ at[s] \in Parts
        /\ taken[Here(s).job] \in Nat /\ Backoff \in Nat
    BY <1>4, <1>5, <2>2, Constants
  <2>4. attempts[s] = taken[Here(s).job] /\ attempts[s] < MaxAttempts
    BY <1>2, <2>1, <2>2 DEF SlotsTallied, SlotTallied
  <2>5. taken[Here(s).job] < Limit'
    BY <1>6, <2>3, <2>4, Constants
  <2>6. pc'[s] = "forget" /\ \A t \in Slots : t # s => pc'[t] = pc[t]
    BY <1>7, <2>1
  <2>7. ASSUME NEW o \in 1 .. Len(log[at[s]]), log[at[s]][o].job = Here(s).job
        PROVE  o < cursor[at[s]] \/ \E t \in Slots : NextWorks(t, at[s], o, Settled)
    <3>1. CASE o >= cursor[at[s]]
      <4>1. o = from[s]
        BY <1>2, <2>2, <2>3, <2>7, <3>1, SoleHere
      <4> QED BY <2>1, <2>6, <4>1 DEF NextWorks, Settled
    <3>2. CASE ~(o >= cursor[at[s]])
      BY <1>4, <2>3, <3>2
    <3> QED BY <3>1, <3>2
  <2>8. \A t \in Slots : pc'[t] = pc[t] \/ (pc[t] = "release" /\ pc'[t] = "forget")
    BY <2>1, <2>6
  <2>9. PICK p \in Parts : p = at[s]
    BY <2>3
  <2>10. PICK job \in Jobs \cup {NotAJob} : job = Here(s).job
    BY <2>3
  <2>11. PICK count \in Nat : count = attempts[s]
    BY <2>3
  <2>12. Produced(p, job, count, Backoff)
    BY <2>1, <2>3, <2>9, <2>10, <2>11
  <2>13. job \in Jobs => /\ taken[job] = count /\ taken[job] < Limit'
                         /\ \A o \in 1 .. Len(log[p]) : log[p][o].job = job =>
                                o < cursor[p] \/ \E t \in Slots : NextWorks(t, p, o, Settled)
    BY <2>4, <2>5, <2>7, <2>9, <2>10, <2>11
  <2> QED BY <1>0, <1>2, <2>1, <2>3, <2>8, <2>12, <2>13, TallyProduced
<1>17. ASSUME NEW j \in Jobs, NEW delay \in Delays, Push(j, delay) PROVE Goal
  <2>1. j \notin pushed /\ Produced(PartitionOf[j], j, 0, delay) /\ UNCHANGED <<taken, cursor, at, from, attempts, pc>>
    BY <1>17 DEF Push, slot
  <2>2. PICK p \in Parts : p = PartitionOf[j]
    BY Constants
  <2>3. taken[j] = 0 /\ \A o \in 1 .. Len(log[p]) : log[p][o].job # j
    BY <1>1, <2>1 DEF UnpushedUntaken
  <2>4. taken[j] < Limit'
    BY <1>6, <2>3, Constants
  <2>5. Produced(p, j, 0, delay) /\ delay \in Nat /\ 0 \in Nat
    BY <2>1, <2>2, Constants
  <2> QED BY <1>0, <1>2, <2>1, <2>3, <2>4, <2>5, TallyProduced
<1>18. ASSUME NEW p \in Parts, Stray(p) PROVE Goal
  <2>1. Produced(p, NotAJob, 0, 0) /\ UNCHANGED <<taken, cursor, at, from, attempts, pc>> /\ NotAJob \notin Jobs
    BY <1>18, Constants DEF Stray, slot, history
  <2> QED BY <1>0, <1>2, <2>1, TallyProduced
(* What leaves the records alone.                                          *)
<1>19. ASSUME UNCHANGED <<log, counted, taken>>,
              \A t \in Slots : \/ Leaves(t)
                               \/ pc'[t] = pc[t] /\ at'[t] = at[t] /\ from'[t] = from[t] /\ attempts'[t] = attempts[t]
       PROVE  Goal
  BY <1>0, <1>2, <1>3, <1>19, TallyLeaves
<1>20. ASSUME NEW s \in Slots, NEW step, Goto(s, step), pc[s] \notin Working, step \notin Working,
              UNCHANGED <<log, counted, taken, at, attempts>>, \A t \in Slots : t # s => from'[t] = from[t]
       PROVE  Goal
  <2>1. pc'[s] = step /\ \A t \in Slots : t # s => pc'[t] = pc[t]
    BY <1>7, <1>20
  <2>2. Leaves(s)
    BY <1>20, <2>1 DEF Leaves
  <2> QED BY <1>19, <1>20, <2>1, <2>2
<1>21. ASSUME NEW s \in Slots, Begin(s) \/ StillOurs(s) PROVE Goal
  <2>1. PICK step \in Waits : Goto(s, step) /\ pc[s] \in Waits
    BY <1>21 DEF Begin, StillOurs, Waits
  <2>2. UNCHANGED <<log, counted, taken, at, attempts, from>>
    BY <1>21 DEF Begin, StillOurs, shared, history
  <2>3. pc[s] \notin Working /\ step \notin Working
    BY <2>1 DEF Waits, Working
  <2> QED BY <1>20, <2>1, <2>2, <2>3
<1>22. ASSUME NEW s \in Slots, Renew(s) \/ Acquire(s) PROVE Goal
  <2>1. Goto(s, "read") /\ UNCHANGED <<log, counted, taken, at, attempts, from>> /\ pc[s] \notin Working
    BY <1>22 DEF Renew, Acquire, history, Working
  <2>2. "read" \notin Working
    BY DEF Working
  <2> QED BY <1>20, <2>1, <2>2
<1>23. ASSUME NEW s \in Slots, StartOf(s) PROVE Goal
  <2>1. /\ Goto(s, "fetch") /\ UNCHANGED <<log, counted, taken, at, attempts>> /\ pc[s] \notin Working
        /\ \A t \in Slots : t # s => from'[t] = from[t]
    BY <1>4, <1>23 DEF StartOf, shared, history, Working
  <2>2. "fetch" \notin Working
    BY DEF Working
  <2> QED BY <1>20, <2>1, <2>2
<1>24. ASSUME NEW s \in Slots, Fetch(s) PROVE Goal
  <2>1. Goto(s, Fetched(s)) /\ UNCHANGED <<log, counted, taken, at, attempts, from>> /\ pc[s] \notin Working
    BY <1>24 DEF Fetch, shared, history, Working
  <2>2. Fetched(s) \notin Working
    BY DEF Fetched, Working
  <2> QED BY <1>20, <2>1, <2>2
<1>25. ASSUME NEW s \in Slots, Onward(s), pc[s] \notin Working, UNCHANGED <<log, counted, taken>> PROVE Goal
  <2>1. /\ pc'[s] \in {"own", "idle"}
        /\ \A t \in Slots : t # s => pc'[t] = pc[t] /\ at'[t] = at[t] /\ from'[t] = from[t] /\ attempts'[t] = attempts[t]
    BY <1>4, <1>25 DEF Onward
  <2>2. Leaves(s)
    BY <1>25, <2>1 DEF Leaves, Working
  <2> QED BY <1>19, <1>25, <2>1, <2>2
<1>26. ASSUME NEW s \in Slots, Refused(s) \/ FetchNothing(s) \/ Rejoin(s) \/ Skip(s) PROVE Goal
  <2>1. Onward(s) /\ pc[s] \notin Working /\ UNCHANGED <<log, counted, taken>>
    BY <1>26 DEF Refused, FetchNothing, Rejoin, Skip, shared, history, Working
  <2> QED BY <1>25, <2>1
<1>27. ASSUME NEW these, Drop(these), UNCHANGED <<log, counted, taken>>,
              \A t \in these \cap Slots : pc[t] \in Working =>
                  \/ pc[t] \in {"running", "release", "fail"} /\ events' > events
                  \/ cursor'[at[t]] > from[t]
       PROVE  Goal
  <2>1. \A t \in Slots : /\ t \in these => pc'[t] = "idle"
                         /\ t \notin these => pc'[t] = pc[t] /\ at'[t] = at[t] /\ from'[t] = from[t] /\ attempts'[t] = attempts[t]
    BY <1>27 DEF Drop
  <2>2. \A t \in Slots : t \in these => Leaves(t)
    BY <1>27, <2>1 DEF Leaves, Working
  <2> QED BY <1>19, <1>27, <2>1, <2>2
<1>28. ASSUME NEW s \in Slots, Commit(s) PROVE Goal
  <2>1. /\ pc[s] = "commit" /\ Drop({s}) /\ cursor' = [cursor EXCEPT ![at[s]] = from[s] + 1]
        /\ UNCHANGED <<log, counted, taken>>
    BY <1>28 DEF Commit, history
  <2>2. cursor'[at[s]] > from[s]
    BY <1>4, <2>1
  <2> QED BY <1>27, <2>1, <2>2
<1>29. ASSUME Event PROVE events' > events
  BY <1>0, <1>29 DEF Event, TypeOK
<1>30. \A t \in Slots : pc[t] \in Working /\ ~Tears(t) => pc[t] \in {"running", "release", "fail"}
  BY DEF Working, Tears
<1>31. ASSUME NEW s \in Slots, CommandFails(s) PROVE Goal
  <2>1. Event /\ ~Tears(s) /\ UNCHANGED <<log, counted, cursor>>
    BY <1>31 DEF CommandFails, shared
  <2>2. ASSUME Drop({s}), UNCHANGED taken PROVE Goal
    BY <1>27, <1>29, <1>30, <2>1, <2>2
  <2>3. ASSUME pc[s] = "fail", Goto(s, "forget"), UNCHANGED <<at, from, attempts, taken>> PROVE Goal
    <3>1. pc[s] \in Working /\ pc[s] \notin Settled /\ "forget" \in Working
      BY <2>3 DEF Working, Settled
    <3>2. SlotTallied("forget", attempts[s], Here(s), counted[at[s]][from[s]], taken, Limit')
      BY DEF SlotTallied
    <3> QED BY <1>8, <2>1, <2>3, <3>1, <3>2
  <2> HIDE DEF Goal
  <2> QED BY <1>31, <2>1, <2>2, <2>3 DEF CommandFails, Tears
<1>32. ASSUME NEW w \in Workers, Crash(w) PROVE Goal
  <2> DEFINE mine == {s \in Slots : WorkerOf[s] = w}
  <2>1. Event /\ (\A s \in mine : ~Tears(s)) /\ Drop(mine) /\ UNCHANGED <<log, counted, taken>>
    BY <1>32 DEF Crash, shared
  <2> QED BY <1>27, <1>29, <1>30, <2>1
<1>33. ASSUME Tick PROVE Goal
  <2>2. ASSUME NEW p \in Parts
        PROVE  /\ Len(log'[p]) = Len(log[p])
               /\ \A o \in 1 .. Len(log[p]) : log'[p][o].job = log[p][o].job /\ log'[p][o].attempts = log[p][o].attempts
    BY <1>0, <1>33, TickLog
  <2>3. UNCHANGED <<counted, taken, pc, at, from, attempts>>
    BY <1>33 DEF Tick, history
  <2> QED BY <1>0, <1>2, <1>3, <2>2, <2>3, TallyLeaves
<1>34. ASSUME \/ \E p \in Parts : Retire(p) \/ ClearRead(p) \/ ClearCommit(p)
              \/ \E w \in Workers : ReleasePartitions(w)
              \/ \E s \in Slots : LeaseLost(s)
              \/ UNCHANGED vars
       PROVE  Goal
  <2>1. UNCHANGED <<log, counted, taken, pc, at, from, attempts>>
    BY <1>34 DEF Retire, ClearRead, ClearCommit, ReleasePartitions, LeaseLost, vars, history, shared, slot
  <2> QED BY <1>19, <2>1
<1> HIDE DEF Goal
<1>35. ASSUME NEW s \in Slots, SlotStep(s) PROVE Goal
  BY <1>11, <1>12, <1>13, <1>14, <1>15, <1>16, <1>21, <1>22, <1>23, <1>24, <1>26, <1>28, <1>34, <1>35 DEF SlotStep
<1> QED BY <1>17, <1>18, <1>31, <1>32, <1>33, <1>34, <1>35 DEF Next

(* The number a handler runs as counts every delivery of its job, those    *)
(* that killed their worker too, as long as no fault came between commands *)
(* that belong together and nothing was cleared: for any number of jobs,   *)
(* workers, partitions and crashes, when a lease outlives the slowest job  *)
(* and is not lost within an extend, a worker runs one job at a time, and  *)
(* the bound on what is counted is not reached.                            *)
THEOREM CrashesCounted ==
    WellTimed /\ OneSlotEach /\ MaxAttempts >= 1 /\ MaxAttempts + MaxEvents <= TakenCap =>
        (Spec => []AttemptsCountCrashes)
<1>0. SUFFICES ASSUME WellTimed, OneSlotEach, MaxAttempts >= 1, MaxAttempts + MaxEvents <= TakenCap
               PROVE  Spec => []AttemptsCountCrashes
  OBVIOUS
<1>1. Init => LeasedInv /\ CursorInv /\ TallyInv
  <2> SUFFICES ASSUME Init PROVE LeasedInv /\ CursorInv /\ TallyInv
    OBVIOUS
  <2>1. LeasedInv /\ CursorInv
    BY Constants DEF Init, LeasedInv, SlotLeased, Waits, CursorInv
  <2>2. \A p \in Parts : log[p] = << >> /\ Len(log[p]) = 0
    BY DEF Init
  <2>3. SoleRecord /\ RecordsTallied /\ UnpushedUntaken
    BY <2>2 DEF Init, SoleRecord, RecordsTallied, UnpushedUntaken
  <2>4. SlotsTallied
    BY DEF Init, SlotsTallied, Working
  <2>5. events <= MaxEvents
    BY Constants DEF Init
  <2> QED BY <2>1, <2>3, <2>4, <2>5 DEF TallyInv
<1>2. KeptInv /\ KeptInv' /\ LeasedInv /\ CursorInv /\ TallyInv /\ [Next]_vars => LeasedInv' /\ CursorInv' /\ TallyInv'
  BY <1>0, LeasedStep, CursorStep, TallyStep DEF KeptInv
<1>3. KeptInv /\ TallyInv => AttemptsCountCrashes
  BY DEF KeptInv, TallyInv, AttemptsCountCrashes, SlotsTallied, SlotTallied, Working
<1> QED BY <1>1, <1>2, <1>3, KeptCorrect, PTL DEF Spec
=============================================================================
