-------------------------- MODULE RedisQueueProofs --------------------------
(* Proofs about RedisQueue: type correctness, that no job is lost, and     *)
(* that no entry is in two workers' hands.                                 *)
EXTENDS RedisQueue, TLAPS

(* What the commands make of a copy is a copy.                             *)
LEMMA CopyTypes ==
    /\ \A c \in Copy, place \in {"delayed", "new", "pending", "acked"} : Moved(c, place) \in Copy
    /\ \A c \in Copy : Aged(c) \in Copy
    /\ \A j \in Jobs, n \in Nat, delay \in Nat : Waiting(j, n, delay) \in Copy
<1>1. \A c \in Copy, place \in {"delayed", "new", "pending", "acked"} : Moved(c, place) \in Copy
  BY DEF Copy, Moved
<1>2. \A c \in Copy : Aged(c) \in Copy
  BY ConstantsAssumption DEF Copy, Aged
<1>3. \A j \in Jobs, n \in Nat, delay \in Nat : Waiting(j, n, delay) \in Copy
  BY DEF Copy, Waiting
<1> QED BY <1>1, <1>2, <1>3

(* Taking an entry keeps the types of what the worker remembers.           *)
LEMMA TakeType ==
    ASSUME TypeOK, NEW w \in Workers, NEW h \in Handles, Take(w, h), copies[h] # NoCopy
    PROVE  /\ ticket' \in [Workers -> Ticket \cup {NoTicket}]
           /\ held' \in [Workers -> 0 .. HoldTime]
           /\ taken' \in [Jobs -> 0 .. TakenCap]
           /\ ticket'[w] = [handle |-> h, job |-> copies[h].job, attempts |-> copies[h].attempts + 1]
           /\ ticket'[w] \in Ticket /\ ticket'[w] # NoTicket
           /\ \A v \in Workers \ {w} : ticket'[v] = ticket[v]
<1>1. copies[h] \in Copy
  BY DEF TypeOK
<1>2. [handle |-> h, job |-> copies[h].job, attempts |-> copies[h].attempts + 1] \in Ticket
  BY <1>1 DEF Copy, Ticket
<1>3. ticket' \in [Workers -> Ticket \cup {NoTicket}]
  BY <1>2 DEF Take, TypeOK
<1>4. held' \in [Workers -> 0 .. HoldTime]
  BY ConstantsAssumption DEF Take, TypeOK
<1>5. taken' \in [Jobs -> 0 .. TakenCap]
  BY <1>1, ConstantsAssumption DEF Take, TypeOK, Copy
<1>6. /\ ticket'[w] = [handle |-> h, job |-> copies[h].job, attempts |-> copies[h].attempts + 1]
      /\ \A v \in Workers \ {w} : ticket'[v] = ticket[v]
  BY DEF Take, TypeOK
<1> QED BY <1>2, <1>3, <1>4, <1>5, <1>6, ConstantsAssumption

(* Type correctness is kept by every command.                              *)
LEMMA TypeStep == TypeOK /\ [Next]_vars => TypeOK'
<1> SUFFICES ASSUME TypeOK, [Next]_vars PROVE TypeOK'
  OBVIOUS
<1> USE DEF TypeOK, work, history, bounds
<1>1. ASSUME NEW j \in Jobs, NEW delay \in Delays, NEW h \in Handles, Push(j, delay, h) PROVE TypeOK'
  BY <1>1, CopyTypes, ConstantsAssumption DEF Push
<1>2. ASSUME NEW w \in Workers, CreateGroup(w) PROVE TypeOK'
  BY <1>2 DEF CreateGroup, Goto
<1>3. ASSUME NEW w \in Workers, Promote(w) PROVE TypeOK'
  BY <1>3, CopyTypes DEF Promote, Goto, Due, Stored
<1>4. ASSUME NEW w \in Workers, NEW h \in Handles, Claim(w, h) PROVE TypeOK'
  <2>1. copies' \in [Handles -> Copy \cup {NoCopy}]
    BY <1>4, CopyTypes DEF Claim, Claimable, Stored
  <2> QED BY <1>4, <2>1, TakeType DEF Claim, Claimable, Stored, Take, Goto
<1>5. ASSUME NEW w \in Workers, ClaimNothing(w) PROVE TypeOK'
  BY <1>5 DEF ClaimNothing, Goto
<1>6. ASSUME NEW w \in Workers, NEW h \in Handles, Read(w, h) PROVE TypeOK'
  <2>1. copies' \in [Handles -> Copy \cup {NoCopy}]
    BY <1>6, CopyTypes DEF Read, Stored
  <2> QED BY <1>6, <2>1, TakeType DEF Read, Stored, Take, Goto
<1>7. ASSUME NEW w \in Workers, ReadNothing(w) PROVE TypeOK'
  BY <1>7 DEF ReadNothing, Goto
<1>8. ASSUME NEW w \in Workers, NoGroup(w) PROVE TypeOK'
  BY <1>8 DEF NoGroup, Goto
<1>9. ASSUME NEW w \in Workers, HandlerOk(w) PROVE TypeOK'
  BY <1>9 DEF HandlerOk, Goto, Ticket
<1>10. ASSUME NEW w \in Workers, HandlerErr(w) PROVE TypeOK'
  BY <1>10 DEF HandlerErr, Goto
<1>11. ASSUME NEW w \in Workers, NEW h \in Handles, Release(w, h) PROVE TypeOK'
  <2>1. ticket[w] \in Ticket
    BY <1>11 DEF Release
  <2>2. Waiting(ticket[w].job, ticket[w].attempts, Backoff) \in Copy
    BY <2>1, CopyTypes, ConstantsAssumption DEF Ticket
  <2> QED BY <1>11, <2>2 DEF Release, Goto
<1>12. ASSUME NEW w \in Workers, Fail(w) PROVE TypeOK'
  BY <1>12 DEF Fail, Goto, Ticket
<1>13. ASSUME NEW w \in Workers, Ack(w) PROVE TypeOK'
  BY <1>13, CopyTypes DEF Ack, Goto, Stored, Ticket
<1>14. ASSUME NEW w \in Workers, Delete(w) PROVE TypeOK'
  BY <1>14, ConstantsAssumption DEF Delete, Drop, Goto, Ticket
<1>15. CASE Clear
  <2>1. cleared' \subseteq Jobs
    BY <1>15 DEF Clear, Copy
  <2>2. clears' \in 0 .. MaxClears
    BY <1>15, ConstantsAssumption DEF Clear
  <2>3. {pushed, succeeded, cleared}' \subseteq SUBSET Jobs
    BY <1>15, <2>1 DEF Clear
  <2>4. copies' \in [Handles -> Copy \cup {NoCopy}] /\ group' \in BOOLEAN /\ failed' \subseteq Jobs
    BY <1>15 DEF Clear
  <2> QED BY <1>15, <2>2, <2>3, <2>4 DEF Clear
<1>16. ASSUME NEW w \in Workers, Crash(w) PROVE TypeOK'
  BY <1>16, ConstantsAssumption DEF Crash, Drop, Goto
<1>17. CASE Tick
  <2>1. copies' \in [Handles -> Copy \cup {NoCopy}]
    BY <1>17, CopyTypes DEF Tick
  <2>2. held' \in [Workers -> 0 .. HoldTime]
    BY <1>17, ConstantsAssumption DEF Tick
  <2> QED BY <1>17, <2>1, <2>2 DEF Tick
<1>18. CASE UNCHANGED vars
  BY <1>18 DEF vars
<1> QED
  BY <1>1, <1>2, <1>3, <1>4, <1>5, <1>6, <1>7, <1>8, <1>9, <1>10, <1>11, <1>12,
     <1>13, <1>14, <1>15, <1>16, <1>17, <1>18
  DEF Next, WorkerStep

(* What is stored and what every worker remembers keep their types.        *)
THEOREM TypeCorrect == Spec => []TypeOK
<1>1. Init => TypeOK
  <2> SUFFICES ASSUME Init PROVE TypeOK
    OBVIOUS
  <2>1. copies \in [Handles -> Copy \cup {NoCopy}] /\ group \in BOOLEAN
    BY DEF Init
  <2>2. held \in [Workers -> 0 .. HoldTime] /\ taken \in [Jobs -> 0 .. TakenCap]
    BY ConstantsAssumption DEF Init
  <2>3. crashes \in 0 .. MaxCrashes /\ clears \in 0 .. MaxClears
    BY ConstantsAssumption DEF Init
  <2> QED BY <2>1, <2>2, <2>3 DEF Init, TypeOK
<1> QED BY <1>1, TypeStep, PTL DEF Spec

-----------------------------------------------------------------------------
(* What may happen to an entry while a worker has it: nothing, its         *)
(* removal, a move within the group, or the passing of time.               *)
LEMMA HeldFrame ==
    ASSUME TypeOK, NEW w \in Workers, HeldCopy(w), ticket'[w] = ticket[w],
           ticket[w] # NoTicket =>
               LET h == ticket[w].handle
               IN  copies'[h] \in {copies[h], NoCopy, Moved(copies[h], "pending"),
                                   Moved(copies[h], "acked"), Aged(copies[h])}
                   /\ (copies[h] = NoCopy => copies'[h] = NoCopy)
    PROVE  HeldCopy(w)'
<1> SUFFICES ASSUME ticket[w] # NoTicket PROVE HeldCopy(w)'
  BY DEF HeldCopy
<1> DEFINE h == ticket[w].handle
<1>1. h \in Handles
  BY DEF TypeOK, Ticket
<1>2. CASE copies[h] = NoCopy
  BY <1>2 DEF HeldCopy
<1>3. CASE copies[h] # NoCopy
  <2>1. copies[h].job = ticket[w].job /\ copies[h].attempts + 1 = ticket[w].attempts
        /\ copies[h].place \in {"pending", "acked"}
    BY <1>3 DEF HeldCopy
  <2> QED BY <1>3, <2>1 DEF HeldCopy, Moved, Aged
<1> QED BY <1>2, <1>3

(* A worker's entry stays the one it was given: other commands only move   *)
(* it, age it or remove it, and no new copy gets its handle.               *)
LEMMA HeldStep == TypeOK /\ HeldCopies /\ [Next]_vars => HeldCopies'
<1> SUFFICES ASSUME TypeOK, HeldCopies, [Next]_vars, NEW w \in Workers PROVE HeldCopy(w)'
  BY DEF HeldCopies
<1>0. HeldCopy(w) /\ (ticket[w] # NoTicket => ticket[w].handle \in Handles)
  BY DEF HeldCopies, TypeOK, Ticket
<1> USE DEF work, history, bounds, Goto
<1>1. ASSUME NEW j \in Jobs, NEW delay \in Delays, NEW h \in Handles, Push(j, delay, h) PROVE HeldCopy(w)'
  BY <1>0, <1>1, HeldFrame DEF Push, Fresh, TypeOK
<1>2. ASSUME NEW v \in Workers,
             CreateGroup(v) \/ ClaimNothing(v) \/ ReadNothing(v) \/ NoGroup(v) \/ HandlerOk(v) \/ HandlerErr(v) \/ Fail(v)
      PROVE  HeldCopy(w)'
  BY <1>0, <1>2, HeldFrame DEF CreateGroup, ClaimNothing, ReadNothing, NoGroup, HandlerOk, HandlerErr, Fail
<1>3. ASSUME NEW v \in Workers, Promote(v) PROVE HeldCopy(w)'
  BY <1>0, <1>3 DEF Promote, Due, Stored, HeldCopy
<1>4. ASSUME NEW v \in Workers, NEW h \in Handles, Claim(v, h) \/ Read(v, h) PROVE HeldCopy(w)'
  <2>1. copies[h] # NoCopy /\ Take(v, h) /\ copies' = [copies EXCEPT ![h] = Moved(@, "pending")]
    BY <1>4 DEF Claim, Read, Claimable, Stored
  <2>2. CASE w = v
    <3>0. ticket'[v] = [handle |-> h, job |-> copies[h].job, attempts |-> copies[h].attempts + 1]
      BY <2>1, TakeType
    <3>1. ticket'[w].handle = h /\ ticket'[w].job = copies[h].job /\ ticket'[w].attempts = copies[h].attempts + 1
      BY <2>2, <3>0
    <3>2. copies'[h] = Moved(copies[h], "pending")
      BY <2>1 DEF TypeOK
    <3> QED BY <3>1, <3>2 DEF HeldCopy, Moved
  <2>3. CASE w # v
    BY <1>0, <2>1, <2>3, TakeType, HeldFrame DEF TypeOK
  <2> QED BY <2>2, <2>3
<1>5. ASSUME NEW v \in Workers, NEW h \in Handles, Release(v, h) PROVE HeldCopy(w)'
  BY <1>0, <1>5, HeldFrame DEF Release, Fresh, TypeOK
<1>6. ASSUME NEW v \in Workers, Ack(v) PROVE HeldCopy(w)'
  BY <1>0, <1>6, HeldFrame DEF Ack, Stored, TypeOK, Ticket
<1>7. ASSUME NEW v \in Workers, Delete(v) PROVE HeldCopy(w)'
  <2>1. CASE w = v
    BY <1>7, <2>1 DEF Delete, Drop, HeldCopy, TypeOK
  <2>2. CASE w # v
    BY <1>0, <1>7, <2>2, HeldFrame DEF Delete, Drop, TypeOK
  <2> QED BY <2>1, <2>2
<1>8. CASE Clear
  BY <1>0, <1>8, HeldFrame DEF Clear
<1>9. ASSUME NEW v \in Workers, Crash(v) PROVE HeldCopy(w)'
  <2>1. CASE w = v
    BY <1>9, <2>1 DEF Crash, Drop, HeldCopy, TypeOK
  <2>2. CASE w # v
    BY <1>0, <1>9, <2>2, HeldFrame DEF Crash, Drop, TypeOK
  <2> QED BY <2>1, <2>2
<1>10. CASE Tick
  BY <1>0, <1>10, HeldFrame DEF Tick
<1>11. CASE UNCHANGED vars
  BY <1>0, <1>11, HeldFrame DEF vars
<1> QED
  BY <1>1, <1>2, <1>3, <1>4, <1>5, <1>6, <1>7, <1>8, <1>9, <1>10, <1>11 DEF Next, WorkerStep

-----------------------------------------------------------------------------
(* A job that is answered stays answered; clear only changes how.          *)
LEMMA AnsweredStays ==
    ASSUME TypeOK, [Next]_vars, NEW j, Answered(j) PROVE Answered(j)'
<1> USE DEF work, history, bounds, Answered
<1>1. CASE Clear
  BY <1>1 DEF Clear
<1>2. CASE UNCHANGED vars
  BY <1>2 DEF vars
<1>3. CASE ~Clear /\ Next
  BY <1>3 DEF Next, WorkerStep, Push, CreateGroup, Promote, Claim, ClaimNothing, Read, ReadNothing, NoGroup,
     HandlerOk, HandlerErr, Release, Fail, Ack, Delete, Crash, Tick
<1> QED BY <1>1, <1>2, <1>3

(* A copy that will be delivered is kept by every step, or its job is      *)
(* answered, or a later attempt of it is kept instead.                     *)
LEMMA CarriedStep ==
    ASSUME TypeOK, HeldCopies, SettledFirst, AckedBeforeDelete, [Next]_vars,
           NEW h \in Handles, Kept(h)
    PROVE  \/ \E j \in Jobs : j = copies[h].job /\ Answered(j)'
           \/ (\E g \in Handles : Kept(g)' /\ copies'[g].job = copies[h].job /\ copies'[g].attempts >= copies[h].attempts)
<1>0. copies[h] \in Copy /\ copies[h].job \in Jobs /\ copies[h].attempts \in Nat
  BY DEF Kept, TypeOK, Copy
<1> DEFINE Same == Kept(h)' /\ copies'[h].job = copies[h].job /\ copies'[h].attempts = copies[h].attempts
<1>same. Same => \E g \in Handles : Kept(g)' /\ copies'[g].job = copies[h].job /\ copies'[g].attempts >= copies[h].attempts
  BY <1>0
<1> USE DEF work, history, bounds, Goto
<1>1. ASSUME NEW j \in Jobs, NEW delay \in Delays, NEW g \in Handles, Push(j, delay, g) PROVE Same
  BY <1>1 DEF Push, Fresh, Kept, TypeOK
<1>2. ASSUME NEW v \in Workers,
             CreateGroup(v) \/ ClaimNothing(v) \/ ReadNothing(v) \/ NoGroup(v) \/ HandlerOk(v) \/ HandlerErr(v) \/ Fail(v) \/ Crash(v)
      PROVE  Same
  BY <1>2 DEF CreateGroup, ClaimNothing, ReadNothing, NoGroup, HandlerOk, HandlerErr, Fail, Crash, Kept
<1>3. ASSUME NEW v \in Workers, Promote(v) PROVE Same
  BY <1>0, <1>3, CopyTypes, ConstantsAssumption DEF Promote, Kept, Moved
<1>4. ASSUME NEW v \in Workers, NEW g \in Handles, Claim(v, g) \/ Read(v, g) PROVE Same
  <2>1. copies' = [copies EXCEPT ![g] = Moved(@, "pending")]
    BY <1>4 DEF Claim, Read
  <2> QED BY <1>0, <2>1, CopyTypes, ConstantsAssumption DEF Kept, Moved, TypeOK
<1>5. ASSUME NEW v \in Workers, NEW g \in Handles, Release(v, g) PROVE Same
  BY <1>5 DEF Release, Fresh, Kept, TypeOK
<1>6. ASSUME NEW v \in Workers, Ack(v)
      PROVE  \/ \E j \in Jobs : j = copies[h].job /\ Answered(j)'
             \/ \E g \in Handles : Kept(g)' /\ copies'[g].job = copies[h].job /\ copies'[g].attempts >= copies[h].attempts
  <2>0. ticket[v] \in Ticket /\ ticket[v] # NoTicket /\ ticket[v].attempts \in Nat /\ ticket[v].handle \in Handles
    BY <1>6 DEF Ack, TypeOK, Ticket
  <2>1. \A g \in Handles \ {ticket[v].handle} : copies'[g] = copies[g]
    BY <1>6, <2>0 DEF Ack, TypeOK
  <2>2. CASE h # ticket[v].handle
    BY <1>same, <2>1, <2>2 DEF Kept
  <2>3. CASE h = ticket[v].handle
    <3>1. copies[h].job = ticket[v].job /\ copies[h].attempts + 1 = ticket[v].attempts
      BY <2>0, <2>3 DEF HeldCopies, HeldCopy, Kept
    <3>2. CASE Answered(ticket[v].job)
      BY <1>0, <3>1, <3>2, AnsweredStays
    <3>3. ASSUME NEW g \in Handles, Supersedes(g, ticket[v])
          PROVE  Kept(g)' /\ copies'[g].job = copies[h].job /\ copies'[g].attempts >= copies[h].attempts
      <4>1. copies[g] \in Copy /\ copies[g].attempts \in Nat
        BY <3>3 DEF Supersedes, Kept, TypeOK, Copy
      <4>2. copies[g].attempts >= ticket[v].attempts /\ copies[g].job = ticket[v].job /\ Kept(g)
        BY <3>3 DEF Supersedes
      <4>3. g # h
        BY <1>0, <2>0, <3>1, <4>1, <4>2
      <4>4. copies'[g] = copies[g]
        BY <2>1, <2>3, <4>3
      <4> QED BY <1>0, <2>0, <3>1, <4>1, <4>2, <4>4 DEF Kept
    <3> QED BY <1>6, <3>2, <3>3 DEF SettledFirst, Settled, Ack
  <2> QED BY <2>2, <2>3
<1>7. ASSUME NEW v \in Workers, Delete(v) PROVE Same
  BY <1>7 DEF Delete, AckedBeforeDelete, Kept, TypeOK
<1>8. CASE Clear
  <2>1. \E j \in Jobs : j = copies[h].job /\ j \in cleared'
    BY <1>0, <1>8 DEF Clear, Kept
  <2> QED BY <2>1 DEF Answered
<1>9. CASE Tick
  BY <1>0, <1>9, CopyTypes, ConstantsAssumption DEF Tick, Kept, Aged
<1>10. CASE UNCHANGED vars
  <2>1. copies' = copies
    BY <1>10 DEF vars
  <2>2. Same
    BY <2>1 DEF Kept
  <2> QED BY <1>same, <2>2
<1> QED
  BY <1>same, <1>1, <1>2, <1>3, <1>4, <1>5, <1>6, <1>7, <1>8, <1>9, <1>10 DEF Next, WorkerStep

(* A job that a kept copy carries is answered or kept after every step.    *)
LEMMA NoJobLostStep ==
    ASSUME SafetyInv, [Next]_vars PROVE NoJobLost'
<1> SUFFICES ASSUME NEW j \in pushed'
             PROVE  Answered(j)' \/ \E h \in Handles : Kept(h)' /\ copies'[h].job = j
  BY DEF NoJobLost
<1> USE DEF SafetyInv
<1>1. CASE j \in pushed
  <2>1. CASE Answered(j)
    BY <2>1, AnsweredStays
  <2>2. ASSUME NEW h \in Handles, Kept(h), copies[h].job = j
        PROVE  Answered(j)' \/ \E g \in Handles : Kept(g)' /\ copies'[g].job = j
    <3>1. \/ \E i \in Jobs : i = copies[h].job /\ Answered(i)'
          \/ \E g \in Handles : Kept(g)' /\ copies'[g].job = copies[h].job /\ copies'[g].attempts >= copies[h].attempts
      BY <2>2, CarriedStep
    <3> QED BY <2>2, <3>1
  <2> QED BY <1>1, <2>1, <2>2 DEF NoJobLost
<1>2. CASE j \notin pushed
  <2>1. PICK i \in Jobs, delay \in Delays, h \in Handles : Push(i, delay, h)
    BY <1>2 DEF Next, WorkerStep, CreateGroup, Promote, Claim, ClaimNothing, Read, ReadNothing, NoGroup,
       HandlerOk, HandlerErr, Release, Fail, Ack, Delete, Clear, Crash, Tick, vars, work, history, bounds
  <2>2. i = j
    BY <1>2, <2>1 DEF Push
  <2>3. copies'[h] = Waiting(i, 0, delay) /\ Waiting(i, 0, delay) \in Copy
    BY <2>1, CopyTypes, ConstantsAssumption DEF Push, TypeOK
  <2>4. copies'[h] # NoCopy /\ copies'[h].job = j /\ copies'[h].place # "acked"
    BY <2>2, <2>3, ConstantsAssumption DEF Waiting
  <2> QED BY <2>4 DEF Kept
<1> QED BY <1>1, <1>2

(* A worker that has settled its job stays settled, while its ticket is    *)
(* the same.                                                               *)
LEMMA SettledStays ==
    ASSUME SafetyInv, [Next]_vars, NEW w \in Workers, ticket'[w] = ticket[w], ticket[w] # NoTicket,
           Answered(ticket[w].job) \/ \E h \in Handles : Supersedes(h, ticket[w])
    PROVE  Settled(w)'
<1> USE DEF SafetyInv
<1>0. ticket[w].job \in Jobs /\ ticket[w].attempts \in Nat
  BY DEF TypeOK, Ticket
<1> DEFINE t == ticket[w]
<1>1. CASE Answered(t.job)
  <2>1. \E j \in Jobs : j = t.job /\ Answered(j)'
    BY <1>0, <1>1, AnsweredStays
  <2> QED BY <2>1 DEF Settled, Answered
<1>2. ASSUME NEW h \in Handles, Supersedes(h, t) PROVE Settled(w)'
  <2>1. Kept(h) /\ copies[h].job = t.job /\ copies[h].attempts >= t.attempts /\ copies[h].attempts \in Nat
    BY <1>2 DEF Supersedes, Kept, TypeOK, Copy
  <2>2. \/ \E i \in Jobs : i = copies[h].job /\ Answered(i)'
        \/ \E g \in Handles : Kept(g)' /\ copies'[g].job = copies[h].job /\ copies'[g].attempts >= copies[h].attempts
    BY <2>1, CarriedStep
  <2>3. CASE \E i \in Jobs : i = copies[h].job /\ Answered(i)'
    BY <2>1, <2>3 DEF Settled, Answered
  <2>4. ASSUME NEW g \in Handles, Kept(g)', copies'[g].job = copies[h].job, copies'[g].attempts >= copies[h].attempts
        PROVE  Settled(w)'
    <3>1. copies'[g].attempts \in Nat
      BY <2>4, TypeStep DEF TypeOK, Kept, Copy
    <3>2. copies'[g].job = ticket'[w].job /\ copies'[g].attempts >= ticket'[w].attempts
      BY <1>0, <2>1, <2>4, <3>1
    <3> QED BY <2>4, <3>2 DEF Settled, Supersedes
  <2> QED BY <2>2, <2>3, <2>4
<1> QED BY <1>1, <1>2

(* Nothing is acknowledged before its job is settled.                      *)
LEMMA SettledStep ==
    ASSUME SafetyInv, [Next]_vars PROVE SettledFirst'
<1> SUFFICES ASSUME NEW w \in Workers PROVE Settled(w)'
  BY DEF SettledFirst
<1> USE DEF work, history, bounds
<1>0. TypeOK /\ TypeOK' /\ Settled(w)
  BY TypeStep DEF SafetyInv, SettledFirst
<1>1. CASE pc'[w] \notin {"ack", "delete"}
  BY <1>1 DEF Settled
<1>2. CASE pc[w] \in {"ack", "delete"} /\ ticket'[w] = ticket[w]
  BY <1>0, <1>2, SettledStays DEF Settled, TypeOK
<1>3. CASE HandlerOk(w)
  BY <1>0, <1>3 DEF HandlerOk, Settled, Answered
<1>4. CASE Fail(w)
  BY <1>0, <1>4 DEF Fail, Settled, Answered
<1>5. ASSUME NEW h \in Handles, Release(w, h) PROVE Settled(w)'
  <2>0. ticket[w] \in Ticket /\ ticket[w].job \in Jobs /\ ticket[w].attempts \in Nat
    BY <1>0, <1>5 DEF Release, TypeOK, Ticket
  <2>1. copies'[h] = Waiting(ticket[w].job, ticket[w].attempts, Backoff)
        /\ Waiting(ticket[w].job, ticket[w].attempts, Backoff) \in Copy
    BY <1>0, <1>5, <2>0, CopyTypes, ConstantsAssumption DEF Release, TypeOK
  <2>2. copies'[h] # NoCopy /\ copies'[h].job = ticket[w].job /\ copies'[h].attempts = ticket[w].attempts
        /\ copies'[h].place # "acked"
    BY <2>1, ConstantsAssumption DEF Waiting
  <2>3. ticket'[w] = ticket[w]
    BY <1>5 DEF Release
  <2> QED BY <2>0, <2>2, <2>3 DEF Settled, Supersedes, Kept
<1>6. ASSUME pc'[w] \in {"ack", "delete"},
             ~(pc[w] \in {"ack", "delete"} /\ ticket'[w] = ticket[w])
      PROVE  HandlerOk(w) \/ Fail(w) \/ \E h \in Handles : Release(w, h)
  BY <1>0, <1>6 DEF TypeOK, Next, WorkerStep, Push, CreateGroup, Promote, Claim, ClaimNothing, Read, ReadNothing, NoGroup,
     Take, HandlerErr, HandlerOk, Fail, Release, Ack, Delete, Drop, Clear, Crash, Tick, Goto, vars
<1> QED BY <1>1, <1>2, <1>3, <1>4, <1>5, <1>6

(* Nothing is deleted that would still be delivered.                       *)
LEMMA AckedStep ==
    ASSUME SafetyInv, [Next]_vars PROVE AckedBeforeDelete'
<1> SUFFICES ASSUME NEW w \in Workers, pc'[w] = "delete" PROVE ~Kept(ticket[w].handle)'
  BY DEF AckedBeforeDelete
<1> USE DEF work, history, bounds
<1>0. TypeOK /\ TypeOK' /\ HeldCopy(w)
  BY TypeStep DEF SafetyInv, HeldCopies
<1>1. (pc[w] = "delete" /\ ticket'[w] = ticket[w]) \/ Ack(w)
  BY <1>0 DEF TypeOK, Next, WorkerStep, Push, CreateGroup, Promote, Claim, ClaimNothing, Read, ReadNothing, NoGroup,
     Take, HandlerErr, HandlerOk, Fail, Release, Ack, Delete, Drop, Clear, Crash, Tick, Goto, vars
<1>2. CASE Ack(w)
  <2> DEFINE h == ticket[w].handle
  <2>1. ticket[w] # NoTicket /\ h \in Handles /\ ticket'[w] = ticket[w]
    BY <1>0, <1>2 DEF Ack, TypeOK, Ticket
  <2>2. copies'[h] = IF Stored(h, "pending") THEN Moved(copies[h], "acked") ELSE copies[h]
    BY <1>0, <1>2, <2>1 DEF Ack, TypeOK
  <2>3. copies[h] # NoCopy => copies[h].place \in {"pending", "acked"}
    BY <1>0, <2>1 DEF HeldCopy
  <2> QED BY <2>1, <2>2, <2>3 DEF Kept, Stored, Moved
<1>3. CASE pc[w] = "delete" /\ ticket'[w] = ticket[w]
  <2> DEFINE h == ticket[w].handle
  <2>1. ticket[w] # NoTicket /\ h \in Handles /\ ~Kept(h)
    BY <1>0, <1>3 DEF SafetyInv, AckedBeforeDelete, TypeOK, Ticket
  <2>2. copies'[h] \in {copies[h], NoCopy, Aged(copies[h])} /\ (copies[h] = NoCopy => copies'[h] = NoCopy)
    <3>1. ~Stored(h, "pending") /\ ~Stored(h, "new") /\ ~Stored(h, "delayed") /\ ~Fresh(h)
      BY <2>1 DEF Kept, Stored, Fresh
    <3> QED BY <1>0, <2>1, <3>1 DEF TypeOK, Next, WorkerStep, Push, CreateGroup, Promote, Due, Claim, Claimable, ClaimNothing,
            Read, ReadNothing, NoGroup, HandlerErr, HandlerOk, Fail, Release, Ack, Delete, Clear, Crash, Tick, vars
  <2> QED BY <1>3, <2>1, <2>2 DEF Kept, Aged
<1> QED BY <1>1, <1>2, <1>3

(* The invariant behind NoJobLost holds in every state: what a worker      *)
(* holds is what is stored, and is settled before it is acknowledged.      *)
THEOREM SafetyCorrect == Spec => []SafetyInv
<1>1. Init => HeldCopies /\ SettledFirst /\ AckedBeforeDelete /\ NoJobLost
  BY DEF Init, HeldCopies, HeldCopy, SettledFirst, Settled, AckedBeforeDelete, NoJobLost
<1>2. TypeOK /\ HeldCopies /\ SettledFirst /\ AckedBeforeDelete /\ NoJobLost => SafetyInv
  BY DEF SafetyInv
<1>3. SafetyInv /\ [Next]_vars => SafetyInv'
  <2> SUFFICES ASSUME SafetyInv, [Next]_vars PROVE SafetyInv'
    OBVIOUS
  <2>1. TypeOK'
    BY TypeStep DEF SafetyInv
  <2>2. HeldCopies'
    BY HeldStep DEF SafetyInv
  <2> QED BY <2>1, <2>2, SettledStep, AckedStep, NoJobLostStep DEF SafetyInv
<1> QED BY <1>1, <1>2, <1>3, TypeCorrect, PTL DEF Spec

(* No job is lost, for any number of jobs, workers and crashes and         *)
(* whatever the reservation is: push, release, fail and acknowledge in the *)
(* order the driver has them are enough.                                   *)
THEOREM NoJobLostCorrect == Spec => []NoJobLost
<1>1. SafetyInv => NoJobLost
  BY DEF SafetyInv
<1> QED BY <1>1, SafetyCorrect, PTL

-----------------------------------------------------------------------------
(* An entry that has been idle for as long as a worker has held it is not  *)
(* claimed while a reservation outlives the slowest worker; and an entry   *)
(* that a worker holds is not read as a new one.                           *)
LEMMA ExclusiveStep ==
    ASSUME WellTimed, ExclusiveInv, [Next]_vars PROVE IdleAsHeld' /\ EntryExclusive'
<1> USE DEF work, history, bounds, ExclusiveInv
<1>0. TypeOK /\ TypeOK' /\ HeldCopies
  BY TypeStep
<1>h. \A w \in Workers : ticket[w] # NoTicket => ticket[w].handle \in Handles /\ held[w] \in Nat /\ held[w] <= HoldTime
  BY <1>0, ConstantsAssumption DEF TypeOK, Ticket
<1>1. ASSUME NEW v \in Workers, NEW h \in Handles, Claim(v, h) \/ Read(v, h)
      PROVE  IdleAsHeld' /\ EntryExclusive'
  <2>1. /\ copies[h] # NoCopy /\ Take(v, h) /\ copies' = [copies EXCEPT ![h] = Moved(@, "pending")]
        /\ held' = [held EXCEPT ![v] = 0] /\ ticket[v] = NoTicket
    BY <1>0, <1>1 DEF Claim, Read, Claimable, Stored, Take, TypeOK
  <2>2. ASSUME NEW w \in Workers, ticket[w] # NoTicket PROVE ticket[w].handle # h
    <3>1. CASE Read(v, h)
      BY <1>0, <2>1, <2>2, <3>1 DEF Read, Stored, HeldCopies, HeldCopy
    <3>2. CASE Claim(v, h)
      <4>1. Stored(h, "pending") /\ copies[h].ticks >= Reservation /\ copies[h].ticks \in Nat
        BY <1>0, <3>2 DEF Claim, Claimable, Stored, TypeOK, Copy
      <4>2. ticket[w].handle = h => copies[h].ticks = held[w]
        BY <2>2, <4>1 DEF IdleAsHeld
      <4> QED BY <1>h, <2>2, <4>1, <4>2, ConstantsAssumption DEF WellTimed
    <3> QED BY <1>1, <3>1, <3>2
  <2>3. /\ ticket'[v] = [handle |-> h, job |-> copies[h].job, attempts |-> copies[h].attempts + 1]
        /\ \A w \in Workers \ {v} : ticket'[w] = ticket[w]
    BY <1>0, <2>1, TakeType
  <2>4. ticket'[v].handle = h
    BY <2>3
  <2>5. copies'[h] = Moved(copies[h], "pending") /\ \A g \in Handles \ {h} : copies'[g] = copies[g]
    BY <1>0, <2>1 DEF TypeOK
  <2>6. held'[v] = 0 /\ \A w \in Workers \ {v} : held'[w] = held[w]
    BY <1>0, <2>1 DEF TypeOK
  <2>7. EntryExclusive'
    BY <2>2, <2>3, <2>4 DEF EntryExclusive
  <2>8. IdleAsHeld'
    <3> SUFFICES ASSUME NEW w \in Workers, ticket'[w] # NoTicket, Stored(ticket[w].handle, "pending")'
                 PROVE  copies'[ticket'[w].handle].ticks = held'[w]
      BY DEF IdleAsHeld
    <3>1. CASE w = v
      BY <2>4, <2>5, <2>6, <3>1 DEF Moved
    <3>2. CASE w # v
      <4>1. ticket'[w] = ticket[w] /\ held'[w] = held[w] /\ copies'[ticket[w].handle] = copies[ticket[w].handle]
        BY <1>h, <2>2, <2>3, <2>5, <2>6, <3>2
      <4> QED BY <4>1 DEF IdleAsHeld, Stored
    <3> QED BY <3>1, <3>2
  <2> QED BY <2>7, <2>8
<1>2. CASE Tick
  <2>1. EntryExclusive'
    BY <1>2 DEF Tick, EntryExclusive
  <2>2. ASSUME NEW w \in Workers, ticket'[w] # NoTicket, Stored(ticket[w].handle, "pending")'
        PROVE  copies'[ticket'[w].handle].ticks = held'[w]
    <3> DEFINE h == ticket[w].handle
    <3>1. ticket'[w] = ticket[w] /\ held[w] < HoldTime /\ held'[w] = held[w] + 1 /\ h \in Handles
      BY <1>0, <1>h, <1>2, <2>2 DEF Tick, TypeOK
    <3>2. copies'[h] = Aged(copies[h]) /\ copies[h] # NoCopy
      BY <1>2, <2>2, <3>1 DEF Tick, Stored
    <3>3. Stored(h, "pending") /\ copies[h].place = "pending"
      BY <2>2, <3>1, <3>2 DEF Stored, Aged
    <3>4. copies[h].ticks = held[w]
      BY <2>2, <3>1, <3>3 DEF IdleAsHeld
    <3> QED BY <1>h, <2>2, <3>1, <3>2, <3>3, <3>4, ConstantsAssumption DEF Aged, WellTimed
  <2> QED BY <2>1, <2>2 DEF IdleAsHeld
<1>3. CASE ~Tick /\ ~(\E v \in Workers, h \in Handles : Claim(v, h) \/ Read(v, h))
  <2>1. \A w \in Workers : ticket'[w] # NoTicket => ticket'[w] = ticket[w] /\ held'[w] = held[w]
    BY <1>0, <1>3 DEF TypeOK, Next, WorkerStep, Push, CreateGroup, Promote, ClaimNothing, ReadNothing, NoGroup,
       HandlerErr, HandlerOk, Fail, Release, Ack, Delete, Drop, Clear, Crash, vars
  <2>2. EntryExclusive'
    BY <2>1 DEF EntryExclusive
  <2>3. ASSUME NEW w \in Workers, ticket'[w] # NoTicket, Stored(ticket[w].handle, "pending")'
        PROVE  copies'[ticket'[w].handle].ticks = held'[w]
    <3> DEFINE h == ticket[w].handle
    <3>1. h \in Handles /\ ticket'[w] = ticket[w] /\ held'[w] = held[w] /\ ticket[w] # NoTicket /\ ~Fresh(h)
      BY <1>h, <2>1, <2>3 DEF Fresh
    <3>2. copies'[h] \in {copies[h], NoCopy, Moved(copies[h], "acked"), Moved(copies[h], "new")}
      BY <1>0, <1>3, <3>1 DEF TypeOK, Next, WorkerStep, Push, CreateGroup, Promote, ClaimNothing, ReadNothing, NoGroup,
         HandlerErr, HandlerOk, Fail, Release, Ack, Delete, Clear, Crash, vars
    <3>3. copies'[h] = copies[h] /\ Stored(h, "pending")
      BY <2>3, <3>1, <3>2 DEF Stored, Moved
    <3> QED BY <3>1, <3>3 DEF IdleAsHeld
  <2> QED BY <2>2, <2>3 DEF IdleAsHeld
<1> QED BY <1>1, <1>2, <1>3

(* While a reservation outlives the slowest worker, no two workers have    *)
(* the same entry, for any number of jobs, workers and crashes.            *)
THEOREM EntryExclusiveCorrect == ASSUME WellTimed PROVE Spec => []EntryExclusive
<1>1. Init => HeldCopies /\ IdleAsHeld /\ EntryExclusive
  BY DEF Init, HeldCopies, HeldCopy, IdleAsHeld, EntryExclusive
<1>2. TypeOK /\ HeldCopies /\ IdleAsHeld /\ EntryExclusive => ExclusiveInv
  BY DEF ExclusiveInv
<1>3. ExclusiveInv /\ [Next]_vars => ExclusiveInv'
  <2> SUFFICES ASSUME ExclusiveInv, [Next]_vars PROVE ExclusiveInv'
    OBVIOUS
  <2>1. TypeOK'
    BY TypeStep DEF ExclusiveInv
  <2>2. HeldCopies'
    BY HeldStep DEF ExclusiveInv
  <2>3. IdleAsHeld' /\ EntryExclusive'
    BY ExclusiveStep
  <2> QED BY <2>1, <2>2, <2>3 DEF ExclusiveInv
<1>4. ExclusiveInv => EntryExclusive
  BY DEF ExclusiveInv
<1> QED BY <1>1, <1>2, <1>3, <1>4, TypeCorrect, PTL DEF Spec

-----------------------------------------------------------------------------
(* How attempts are counted while no worker dies.  The count is carried by *)
(* the copy that waits, or by the worker that runs or releases the job;    *)
(* there is one carrier at most, and it has counted every delivery.        *)
Waits(h) == copies[h] # NoCopy /\ copies[h].place \in {"delayed", "new"}
Works(w) == pc[w] \in {"running", "release"}

WaitingCounted ==
    \A h \in Handles : Waits(h) =>
        /\ copies[h].job \in pushed
        /\ copies[h].attempts = taken[copies[h].job]
        /\ copies[h].attempts < MaxAttempts

WorkingCounted ==
    \A w \in Workers : Works(w) =>
        /\ ticket[w].job \in pushed
        /\ ticket[w].attempts = taken[ticket[w].job]
        /\ pc[w] = "release" => ticket[w].attempts < MaxAttempts

SoleCarrier ==
    /\ \A g, h \in Handles : Waits(g) /\ Waits(h) /\ copies[g].job = copies[h].job => g = h
    /\ \A v, w \in Workers : Works(v) /\ Works(w) /\ ticket[v].job = ticket[w].job => v = w
    /\ \A h \in Handles, w \in Workers : Waits(h) /\ Works(w) => copies[h].job # ticket[w].job

(* A pending entry is in a worker's hands, so nothing is there to claim.   *)
PendingHeld ==
    \A h \in Handles : Stored(h, "pending") =>
        \E w \in Workers : ticket[w] # NoTicket /\ ticket[w].handle = h

UnpushedUntaken == \A j \in Jobs \ pushed : taken[j] = 0

CountInv == WaitingCounted /\ WorkingCounted /\ SoleCarrier /\ PendingHeld /\ UnpushedUntaken

(* What moving and ageing leave of a copy.                                 *)
LEMMA CopyFields ==
    /\ \A c, place : Moved(c, place).job = c.job /\ Moved(c, place).attempts = c.attempts /\ Moved(c, place).place = place
    /\ \A c : Aged(c).job = c.job /\ Aged(c).attempts = c.attempts /\ Aged(c).place = c.place
BY DEF Moved, Aged

(* A step that delivers nothing and stores no new copy keeps the counts.   *)
LEMMA CountFrame ==
    ASSUME TypeOK, CountInv, taken' = taken, pushed' = pushed,
           \A h \in Handles : Waits(h)' => /\ Waits(h)
                                           /\ copies'[h].job = copies[h].job
                                           /\ copies'[h].attempts = copies[h].attempts,
           \A w \in Workers : Works(w)' => /\ Works(w)
                                           /\ ticket'[w] = ticket[w]
                                           /\ pc'[w] = "release" => pc[w] = "release" \/ ticket[w].attempts < MaxAttempts,
           \A h \in Handles : Stored(h, "pending")' => Stored(h, "pending"),
           \A w \in Workers, h \in Handles :
               ticket[w] # NoTicket /\ ticket[w].handle = h /\ ticket'[w] # ticket[w] => ~Stored(h, "pending")'
    PROVE  CountInv'
<1>1. WaitingCounted'
  BY DEF CountInv, WaitingCounted
<1>2. WorkingCounted'
  BY DEF CountInv, WorkingCounted
<1>3. SoleCarrier'
  BY DEF CountInv, SoleCarrier
<1>4. PendingHeld'
  <2> SUFFICES ASSUME NEW h \in Handles, Stored(h, "pending")'
               PROVE  \E w \in Workers : ticket'[w] # NoTicket /\ ticket'[w].handle = h
    BY DEF PendingHeld
  <2>1. PICK w \in Workers : ticket[w] # NoTicket /\ ticket[w].handle = h
    BY DEF CountInv, PendingHeld
  <2> QED BY <2>1
<1>5. UnpushedUntaken'
  BY DEF CountInv, UnpushedUntaken
<1> QED BY <1>1, <1>2, <1>3, <1>4, <1>5 DEF CountInv

(* A new copy of a job that nothing else carries: the push and the retry.  *)
LEMMA CountStored ==
    ASSUME TypeOK, CountInv, NEW g \in Handles, Fresh(g), taken' = taken, ticket' = ticket,
           NEW c \in Copy, copies' = [copies EXCEPT ![g] = c],
           c.place \in {"delayed", "new"}, c.attempts = taken[c.job], c.attempts < MaxAttempts,
           pushed' = pushed \cup {c.job},
           \A h \in Handles : Waits(h) => copies[h].job # c.job,
           \A w \in Workers : Works(w)' => Works(w) /\ pc'[w] = pc[w] /\ ticket[w].job # c.job
    PROVE  CountInv'
<1>1. c # NoCopy /\ copies'[g] = c /\ \A h \in Handles \ {g} : copies'[h] = copies[h]
  BY ConstantsAssumption DEF TypeOK
<1>2. \A h \in Handles \ {g} : (Waits(h)' <=> Waits(h)) /\ (Stored(h, "pending")' <=> Stored(h, "pending"))
  BY <1>1 DEF Waits, Stored
<1>3. ~Stored(g, "pending")'
  BY <1>1 DEF Stored
<1>4. WaitingCounted'
  BY <1>1, <1>2 DEF CountInv, WaitingCounted
<1>5. WorkingCounted'
  BY DEF CountInv, WorkingCounted
<1>6. SoleCarrier'
  BY <1>1, <1>2 DEF CountInv, SoleCarrier
<1>7. PendingHeld'
  BY <1>2, <1>3 DEF CountInv, PendingHeld
<1>8. UnpushedUntaken'
  BY DEF CountInv, UnpushedUntaken
<1> QED BY <1>4, <1>5, <1>6, <1>7, <1>8 DEF CountInv

(* A delivery: the carrier was the copy, and now it is the worker.         *)
LEMMA CountRead ==
    ASSUME MaxAttempts <= TakenCap, TypeOK, CountInv, NEW w \in Workers, NEW h \in Handles, Read(w, h)
    PROVE  CountInv'
<1> DEFINE j == copies[h].job
<1>1. copies[h] \in Copy /\ j \in Jobs /\ copies[h].attempts \in Nat /\ copies[h] # NoCopy /\ Take(w, h) /\ Waits(h)
  BY DEF Read, Stored, TypeOK, Copy, Waits
<1>2. j \in pushed /\ copies[h].attempts = taken[j] /\ copies[h].attempts < MaxAttempts
  BY <1>1 DEF CountInv, WaitingCounted
<1>3. /\ ticket'[w] = [handle |-> h, job |-> j, attempts |-> copies[h].attempts + 1]
      /\ ticket'[w] # NoTicket
      /\ \A v \in Workers \ {w} : ticket'[v] = ticket[v]
  BY <1>1, TakeType
<1>4. ticket'[w].handle = h /\ ticket'[w].job = j /\ ticket'[w].attempts = copies[h].attempts + 1
  BY <1>3
<1>5. taken'[j] = taken[j] + 1 /\ \A i \in Jobs \ {j} : taken'[i] = taken[i]
  BY <1>1, <1>2, ConstantsAssumption DEF Take, TypeOK
<1>6. pc'[w] = "running" /\ pc[w] = "read" /\ \A v \in Workers \ {w} : pc'[v] = pc[v]
  BY DEF Read, Take, Goto, TypeOK
<1>7. copies'[h] = Moved(copies[h], "pending") /\ \A g \in Handles \ {h} : copies'[g] = copies[g]
  BY DEF Read, TypeOK
<1>8. ~Waits(h)' /\ \A g \in Handles \ {h} : (Waits(g)' <=> Waits(g)) /\ (Stored(g, "pending")' <=> Stored(g, "pending"))
  BY <1>7 DEF Waits, Stored, Moved
<1>9. ticket[w] = NoTicket /\ pushed' = pushed
  BY <1>6 DEF Read, history, TypeOK
<1>w. /\ \A g \in Handles \ {h} : Waits(g) => copies[g].job # j /\ copies[g].job \in Jobs
      /\ \A v \in Workers \ {w} : Works(v) => ticket[v].job # j /\ ticket[v].job \in Jobs
      /\ \A v \in Workers \ {w} : Works(v)' <=> Works(v)
  <2>1. \A g \in Handles \ {h} : Waits(g) => copies[g].job # j /\ copies[g].job \in Jobs
    BY <1>1 DEF CountInv, SoleCarrier, Waits, TypeOK, Copy
  <2>2. \A v \in Workers \ {w} : Works(v) => ticket[v].job # j /\ ticket[v].job \in Jobs
    BY <1>1 DEF CountInv, SoleCarrier, Works, TypeOK, Ticket
  <2>3. \A v \in Workers \ {w} : Works(v)' <=> Works(v)
    BY <1>6 DEF Works
  <2> QED BY <2>1, <2>2, <2>3
<1> HIDE DEF j
<1>10. WaitingCounted'
  <2> SUFFICES ASSUME NEW g \in Handles, Waits(g)'
               PROVE  /\ copies'[g].job \in pushed'
                      /\ copies'[g].attempts = taken'[copies'[g].job]
                      /\ copies'[g].attempts < MaxAttempts
    BY DEF WaitingCounted
  <2>1. g # h /\ copies'[g] = copies[g] /\ Waits(g)
    BY <1>7, <1>8
  <2>2. taken'[copies[g].job] = taken[copies[g].job]
    BY <1>5, <1>w, <2>1
  <2> QED BY <1>9, <2>1, <2>2 DEF CountInv, WaitingCounted
<1>11. WorkingCounted'
  <2> SUFFICES ASSUME NEW v \in Workers, Works(v)'
               PROVE  /\ ticket'[v].job \in pushed'
                      /\ ticket'[v].attempts = taken'[ticket'[v].job]
                      /\ pc'[v] = "release" => ticket'[v].attempts < MaxAttempts
    BY DEF WorkingCounted
  <2>1. CASE v = w
    BY <1>2, <1>4, <1>5, <1>6, <1>9, <2>1
  <2>2. CASE v # w
    <3>1. ticket'[v] = ticket[v] /\ pc'[v] = pc[v] /\ Works(v) /\ taken'[ticket[v].job] = taken[ticket[v].job]
      BY <1>3, <1>5, <1>6, <1>w, <2>2
    <3> QED BY <1>9, <3>1 DEF CountInv, WorkingCounted
  <2> QED BY <2>1, <2>2
<1>12. SoleCarrier'
  <2>1. \A f, g \in Handles : Waits(f)' /\ Waits(g)' /\ copies'[f].job = copies'[g].job => f = g
    BY <1>7, <1>8 DEF CountInv, SoleCarrier
  <2>2. \A u, v \in Workers : Works(u)' /\ Works(v)' /\ ticket'[u].job = ticket'[v].job => u = v
    BY <1>3, <1>4, <1>w DEF CountInv, SoleCarrier
  <2>3. \A g \in Handles, v \in Workers : Waits(g)' /\ Works(v)' => copies'[g].job # ticket'[v].job
    BY <1>3, <1>4, <1>7, <1>8, <1>w DEF CountInv, SoleCarrier
  <2> QED BY <2>1, <2>2, <2>3 DEF SoleCarrier
<1>13. PendingHeld'
  <2> SUFFICES ASSUME NEW g \in Handles, Stored(g, "pending")'
               PROVE  \E v \in Workers : ticket'[v] # NoTicket /\ ticket'[v].handle = g
    BY DEF PendingHeld
  <2>1. CASE g = h
    BY <1>3, <1>4, <2>1
  <2>2. CASE g # h
    <3>1. PICK v \in Workers : ticket[v] # NoTicket /\ ticket[v].handle = g
      BY <1>8, <2>2 DEF CountInv, PendingHeld
    <3> QED BY <1>3, <1>9, <3>1
  <2> QED BY <2>1, <2>2
<1>14. UnpushedUntaken'
  BY <1>2, <1>5, <1>9 DEF CountInv, UnpushedUntaken
<1> QED BY <1>10, <1>11, <1>12, <1>13, <1>14 DEF CountInv

(* Nothing is claimed: every pending entry has been idle no longer than    *)
(* the worker that has it may take.                                        *)
LEMMA NothingClaimed ==
    ASSUME WellTimed, ExclusiveInv, CountInv, NEW h \in Handles PROVE ~Claimable(h)
<1> SUFFICES ASSUME Claimable(h) PROVE FALSE
  OBVIOUS
<1>1. Stored(h, "pending") /\ copies[h].ticks >= Reservation /\ copies[h].ticks \in Nat
  BY DEF Claimable, Stored, ExclusiveInv, TypeOK, Copy
<1>2. PICK w \in Workers : ticket[w] # NoTicket /\ ticket[w].handle = h
  BY <1>1 DEF CountInv, PendingHeld
<1>3. copies[h].ticks = held[w]
  BY <1>1, <1>2 DEF ExclusiveInv, IdleAsHeld
<1>4. held[w] \in Nat /\ held[w] <= HoldTime
  BY ConstantsAssumption DEF ExclusiveInv, TypeOK
<1> QED BY <1>1, <1>3, <1>4, ConstantsAssumption DEF WellTimed

(* Every step that is not a crash keeps the counts.                        *)
LEMMA CountStep ==
    ASSUME WellTimed, MaxAttempts >= 1, MaxAttempts <= TakenCap,
           ExclusiveInv, CountInv, [Next]_vars, ~\E w \in Workers : Crash(w)
    PROVE  CountInv'
<1>0. TypeOK /\ \A w \in Workers : ticket[w] # NoTicket => ticket[w].handle \in Handles
  BY DEF ExclusiveInv, TypeOK, Ticket
<1> USE DEF work, history, bounds
<1>1. ASSUME NEW j \in Jobs, NEW delay \in Delays, NEW g \in Handles, Push(j, delay, g) PROVE CountInv'
  <2> DEFINE c == Waiting(j, 0, delay)
  <2>1. c \in Copy /\ c.job = j /\ c.attempts = 0 /\ c.place \in {"delayed", "new"}
    BY CopyTypes, ConstantsAssumption DEF Waiting
  <2>2. Fresh(g) /\ taken' = taken /\ ticket' = ticket /\ pc' = pc /\ j \notin pushed
        /\ copies' = [copies EXCEPT ![g] = c] /\ pushed' = pushed \cup {j}
    BY <1>1 DEF Push
  <2>3. taken[j] = 0
    BY <2>2 DEF CountInv, UnpushedUntaken
  <2>4. \A h \in Handles : Waits(h) => copies[h].job # j
    BY <2>2 DEF CountInv, WaitingCounted
  <2>5. \A w \in Workers : Works(w)' => Works(w) /\ pc'[w] = pc[w] /\ ticket[w].job # j
    BY <2>2 DEF CountInv, WorkingCounted, Works
  <2> HIDE DEF c
  <2>6. 0 < MaxAttempts
    BY ConstantsAssumption
  <2>7. /\ c.attempts = taken[c.job] /\ c.attempts < MaxAttempts /\ pushed' = pushed \cup {c.job}
        /\ \A h \in Handles : Waits(h) => copies[h].job # c.job
        /\ \A w \in Workers : Works(w)' => Works(w) /\ pc'[w] = pc[w] /\ ticket[w].job # c.job
    BY <2>1, <2>2, <2>3, <2>4, <2>5, <2>6
  <2> QED BY <1>0, <2>1, <2>2, <2>7, CountStored
<1>2. ASSUME NEW w \in Workers, NEW h \in Handles, Claim(w, h) PROVE CountInv'
  BY <1>2, NothingClaimed DEF Claim
<1>3. ASSUME NEW w \in Workers, NEW h \in Handles, Read(w, h) PROVE CountInv'
  BY <1>0, <1>3, CountRead
<1>4. ASSUME NEW w \in Workers, NEW g \in Handles, Release(w, g) PROVE CountInv'
  <2> DEFINE c == Waiting(ticket[w].job, ticket[w].attempts, Backoff)
  <2>0. ticket[w] \in Ticket /\ ticket[w].job \in Jobs /\ ticket[w].attempts \in Nat /\ Works(w)
    BY <1>0, <1>4 DEF Release, TypeOK, Ticket, Works
  <2>1. c \in Copy /\ c.job = ticket[w].job /\ c.attempts = ticket[w].attempts /\ c.place \in {"delayed", "new"}
    BY <2>0, CopyTypes, ConstantsAssumption DEF Waiting
  <2>2. Fresh(g) /\ taken' = taken /\ ticket' = ticket /\ copies' = [copies EXCEPT ![g] = c]
    BY <1>4 DEF Release
  <2>3. ticket[w].job \in pushed /\ ticket[w].attempts = taken[ticket[w].job] /\ ticket[w].attempts < MaxAttempts
    BY <1>4, <2>0 DEF CountInv, WorkingCounted, Release
  <2>4. pushed' = pushed \cup {ticket[w].job}
    BY <1>4, <2>3 DEF Release
  <2>5. \A h \in Handles : Waits(h) => copies[h].job # ticket[w].job
    BY <2>0 DEF CountInv, SoleCarrier
  <2>6. pc'[w] = "ack" /\ \A v \in Workers \ {w} : pc'[v] = pc[v]
    BY <1>0, <1>4 DEF Release, Goto, TypeOK
  <2>7. \A v \in Workers : Works(v)' => Works(v) /\ pc'[v] = pc[v] /\ ticket[v].job # ticket[w].job
    BY <2>0, <2>6 DEF CountInv, SoleCarrier, Works
  <2> HIDE DEF c
  <2>8. /\ c.attempts = taken[c.job] /\ c.attempts < MaxAttempts /\ pushed' = pushed \cup {c.job}
        /\ \A h \in Handles : Waits(h) => copies[h].job # c.job
        /\ \A v \in Workers : Works(v)' => Works(v) /\ pc'[v] = pc[v] /\ ticket[v].job # c.job
    BY <2>1, <2>3, <2>4, <2>5, <2>7
  <2> QED BY <1>0, <2>1, <2>2, <2>8, CountStored
<1>5. ASSUME NEW w \in Workers,
             CreateGroup(w) \/ ClaimNothing(w) \/ ReadNothing(w) \/ NoGroup(w) \/ HandlerOk(w) \/ Fail(w)
      PROVE  CountInv'
  <2>1. copies' = copies /\ ticket' = ticket /\ taken' = taken /\ pushed' = pushed
    BY <1>5 DEF CreateGroup, ClaimNothing, ReadNothing, NoGroup, HandlerOk, Fail
  <2>2. \A v \in Workers : Works(v)' => pc'[v] = pc[v] /\ Works(v)
    BY <1>0, <1>5 DEF CreateGroup, ClaimNothing, ReadNothing, NoGroup, HandlerOk, Fail, Goto, TypeOK, Works
  <2> QED BY <1>0, <2>1, <2>2, CountFrame DEF Waits, Stored
<1>6. ASSUME NEW w \in Workers, HandlerErr(w) PROVE CountInv'
  <2>1. copies' = copies /\ ticket' = ticket /\ taken' = taken /\ pushed' = pushed
    BY <1>6 DEF HandlerErr
  <2>2. ticket[w].attempts \in Nat
    BY <1>0, <1>6 DEF HandlerErr, TypeOK, Ticket
  <2>3. \A v \in Workers : Works(v)' => /\ Works(v)
                                        /\ pc'[v] = "release" => pc[v] = "release" \/ ticket[v].attempts < MaxAttempts
    BY <1>0, <1>6, <2>2, ConstantsAssumption DEF HandlerErr, Goto, TypeOK, Works
  <2> QED BY <1>0, <2>1, <2>3, CountFrame DEF Waits, Stored
<1>7. ASSUME NEW w \in Workers, Promote(w) PROVE CountInv'
  <2>1. ticket' = ticket /\ taken' = taken /\ pushed' = pushed
    BY <1>7 DEF Promote
  <2>2. \A v \in Workers : Works(v)' => pc'[v] = pc[v] /\ Works(v)
    BY <1>0, <1>7 DEF Promote, Goto, TypeOK, Works
  <2>3. \A h \in Handles : copies'[h] = copies[h] \/ (Due(h) /\ copies'[h] = Moved(copies[h], "new"))
    BY <1>7 DEF Promote
  <2>4. \A h \in Handles : Waits(h)' => /\ Waits(h)
                                        /\ copies'[h].job = copies[h].job
                                        /\ copies'[h].attempts = copies[h].attempts
    BY <2>3, CopyFields DEF Waits, Due, Stored
  <2>5. \A h \in Handles : Stored(h, "pending")' => Stored(h, "pending")
    BY <2>3, CopyFields DEF Stored
  <2> QED BY <1>0, <2>1, <2>2, <2>4, <2>5, CountFrame
<1>8. ASSUME NEW w \in Workers, Ack(w) PROVE CountInv'
  <2>1. ticket' = ticket /\ taken' = taken /\ pushed' = pushed
    BY <1>8 DEF Ack
  <2>2. \A v \in Workers : Works(v)' => pc'[v] = pc[v] /\ Works(v)
    BY <1>0, <1>8 DEF Ack, Goto, TypeOK, Works
  <2>3. \A h \in Handles : copies'[h] = copies[h] \/ copies'[h] = Moved(copies[h], "acked")
    BY <1>0, <1>8 DEF Ack, TypeOK
  <2>4. \A h \in Handles : Waits(h)' => Waits(h) /\ copies'[h] = copies[h]
    BY <2>3, CopyFields DEF Waits
  <2>5. \A h \in Handles : Stored(h, "pending")' => Stored(h, "pending")
    BY <2>3, CopyFields DEF Stored
  <2> QED BY <1>0, <2>1, <2>2, <2>4, <2>5, CountFrame
<1>9. ASSUME NEW w \in Workers, Delete(w) PROVE CountInv'
  <2>0. ticket[w] # NoTicket /\ ticket[w].handle \in Handles
    BY <1>0, <1>9 DEF Delete, TypeOK
  <2>1. /\ taken' = taken /\ pushed' = pushed
        /\ pc'[w] = "idle" /\ ticket'[w] = NoTicket
        /\ \A v \in Workers \ {w} : pc'[v] = pc[v] /\ ticket'[v] = ticket[v]
    BY <1>0, <1>9 DEF Delete, Drop, Goto, TypeOK
  <2>2. copies'[ticket[w].handle] = NoCopy /\ \A h \in Handles \ {ticket[w].handle} : copies'[h] = copies[h]
    BY <1>0, <1>9, <2>0 DEF Delete, TypeOK
  <2>3. \A v \in Workers : Works(v)' => v # w
    BY <2>1 DEF Works
  <2>4. \A v \in Workers : Works(v)' => pc'[v] = pc[v] /\ ticket'[v] = ticket[v] /\ Works(v)
    BY <2>1, <2>3 DEF Works
  <2>5. \A h \in Handles : copies'[h] # NoCopy => copies'[h] = copies[h]
    BY <2>2
  <2>6. \A h \in Handles : (Waits(h)' => Waits(h) /\ copies'[h] = copies[h]) /\ (Stored(h, "pending")' => Stored(h, "pending"))
    BY <2>5 DEF Waits, Stored
  <2>7. \A v \in Workers, h \in Handles :
            ticket[v] # NoTicket /\ ticket[v].handle = h /\ ticket'[v] # ticket[v] => ~Stored(h, "pending")'
    BY <2>1, <2>2 DEF Stored
  <2> QED BY <1>0, <2>1, <2>4, <2>6, <2>7, CountFrame
<1>10. CASE Clear
  <2>1. ticket' = ticket /\ taken' = taken /\ pushed' = pushed /\ pc' = pc /\ \A h \in Handles : copies'[h] = NoCopy
    BY <1>10 DEF Clear
  <2> QED BY <1>0, <2>1, CountFrame DEF Waits, Stored, Works
<1>11. CASE Tick
  <2>1. ticket' = ticket /\ taken' = taken /\ pushed' = pushed /\ pc' = pc
    BY <1>11 DEF Tick
  <2>2. \A h \in Handles : IF copies[h] = NoCopy THEN copies'[h] = NoCopy ELSE copies'[h] = Aged(copies[h])
    BY <1>11 DEF Tick
  <2>3. \A h \in Handles : copies'[h] # NoCopy => /\ copies[h] # NoCopy
                                                  /\ copies'[h].job = copies[h].job
                                                  /\ copies'[h].attempts = copies[h].attempts
                                                  /\ copies'[h].place = copies[h].place
    BY <2>2, CopyFields
  <2> QED BY <1>0, <2>1, <2>3, CountFrame DEF Waits, Stored, Works
<1>12. CASE UNCHANGED vars
  <2>1. copies' = copies /\ ticket' = ticket /\ taken' = taken /\ pushed' = pushed /\ pc' = pc
    BY <1>12 DEF vars
  <2> QED BY <1>0, <2>1, CountFrame DEF Waits, Stored, Works
<1> QED
  BY <1>1, <1>2, <1>3, <1>4, <1>5, <1>6, <1>7, <1>8, <1>9, <1>10, <1>11, <1>12 DEF Next, WorkerStep

(* While a reservation outlives the slowest worker and no worker has died, *)
(* the attempt a handler runs as is the number of times its job was taken, *)
(* whatever is cleared meanwhile.  TakenCap bounds the model's history     *)
(* variable only: above it deliveries are no longer counted.               *)
THEOREM AttemptsCorrect ==
    WellTimed /\ MaxAttempts >= 1 /\ MaxAttempts <= TakenCap => (Spec => []AttemptsCountedUninterrupted)
<1> SUFFICES ASSUME WellTimed, MaxAttempts >= 1, MaxAttempts <= TakenCap
             PROVE  Spec => []AttemptsCountedUninterrupted
  OBVIOUS
<1> DEFINE Inv == ExclusiveInv /\ (crashes = 0 => CountInv)
<1>1. Init => HeldCopies /\ IdleAsHeld /\ EntryExclusive /\ CountInv
  BY DEF Init, HeldCopies, HeldCopy, IdleAsHeld, EntryExclusive, CountInv, WaitingCounted, WorkingCounted, SoleCarrier,
         PendingHeld, UnpushedUntaken, Waits, Works, Stored
<1>2. TypeOK /\ HeldCopies /\ IdleAsHeld /\ EntryExclusive /\ CountInv => Inv
  BY DEF ExclusiveInv
<1>3. Inv /\ [Next]_vars => Inv'
  <2> SUFFICES ASSUME Inv, [Next]_vars PROVE Inv'
    OBVIOUS
  <2>1. TypeOK' /\ HeldCopies' /\ IdleAsHeld' /\ EntryExclusive'
    BY TypeStep, HeldStep, ExclusiveStep DEF ExclusiveInv
  <2>2. ASSUME crashes' = 0 PROVE CountInv'
    <3>1. crashes = 0 /\ ~\E w \in Workers : Crash(w)
      BY <2>2, ConstantsAssumption DEF ExclusiveInv, TypeOK, Next, WorkerStep, Push, CreateGroup, Promote, Claim, ClaimNothing,
         Read, ReadNothing, NoGroup, HandlerOk, HandlerErr, Release, Fail, Ack, Delete, Clear, Crash, Tick, vars, bounds
    <3> QED BY <3>1, CountStep
  <2> QED BY <2>1, <2>2 DEF ExclusiveInv
<1>4. Inv => AttemptsCountedUninterrupted
  BY DEF CountInv, WorkingCounted, Works, AttemptsCountedUninterrupted, AttemptsCountRuns
<1> HIDE DEF Inv
<1> QED BY <1>1, <1>2, <1>3, <1>4, TypeCorrect, PTL DEF Spec
=============================================================================
