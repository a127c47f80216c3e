------------------------ MODULE DatabaseQueueProofs ------------------------
(* Proofs about the database queue driver, for every set of jobs, workers  *)
(* and operators and every value of the bounds.                            *)
EXTENDS DatabaseQueue, TLAPS

(* One more attempt is a number of attempts.                               *)
LEMMA CountedType ==
    ASSUME NEW n \in Nat
    PROVE  Counted(n) \in Nat
BY ConstantsAssumption DEF Counted

(* Ageing a row gives a row, and ageing no row gives none.                 *)
LEMMA AgedType ==
    ASSUME NEW row \in Row \cup {NoRow}
    PROVE  /\ Aged(row) \in Row \cup {NoRow}
           /\ Aged(row) = NoRow <=> row = NoRow
           /\ row # NoRow =>
                /\ Aged(row).attempts = row.attempts
                /\ Aged(row).reserved = row.reserved
                /\ Aged(row).reservedFor =
                      IF row.reservedFor >= 0 THEN row.reservedFor - 1 ELSE -1
<1>1. CASE row = NoRow
  BY <1>1 DEF Aged
<1>2. CASE row \in Row
  <2> DEFINE a == IF row.availableIn > 0 THEN row.availableIn - 1 ELSE 0
             f == IF row.reservedFor >= 0 THEN row.reservedFor - 1 ELSE -1
  <2>1. a \in Nat /\ f \in Int
    BY <1>2 DEF Row
  <2>2. row # NoRow
    BY <1>2, ConstantsAssumption
  <2>3. Aged(row) = [row EXCEPT !.availableIn = a, !.reservedFor = f]
    BY <2>2 DEF Aged
  <2> HIDE DEF a, f
  <2>4. Aged(row) \in Row
    BY <1>2, <2>1, <2>3 DEF Row
  <2>5. /\ Aged(row).attempts = row.attempts
        /\ Aged(row).reserved = row.reserved
        /\ Aged(row).reservedFor = f
    BY <1>2, <2>1, <2>3 DEF Row
  <2> QED BY <2>2, <2>4, <2>5, ConstantsAssumption DEF f
<1> QED BY <1>1, <1>2

(* A fresh row, a reserved row and a row given back are rows.              *)
LEMMA RowTypes ==
    /\ \A max, delay \in Nat : NewRow(max, delay) \in Row
    /\ \A row \in Row, n \in Nat : Reserve(row, n) \in Row
    /\ \A row \in Row, n \in Nat : Unreserve(row, n) \in Row
<1>1. \A max, delay \in Nat : NewRow(max, delay) \in Row
  BY DEF NewRow, Row
<1>2. \A row \in Row, n \in Nat : Reserve(row, n) \in Row
  BY ConstantsAssumption DEF Reserve, Row
<1>3. \A row \in Row, n \in Nat : Unreserve(row, n) \in Row
  BY DEF Unreserve, Row
<1> QED BY <1>1, <1>2, <1>3

(* A row that is reserved says so.                                         *)
LEMMA ReserveReserves ==
    ASSUME NEW row, NEW n
    PROVE  Reserve(row, n).reserved
BY DEF Reserve

(* Type correctness is kept by every step of every process.                *)
LEMMA TypeStep == TypeOK /\ [Next]_vars => TypeOK'
<1> SUFFICES ASSUME TypeOK, [Next]_vars PROVE TypeOK'
  OBVIOUS
<1> USE DEF TypeOK, tables, work, history, bounds, Busy, Idle
<1>1. ASSUME NEW j \in Jobs, NEW delay \in Delays, Push(j, delay) PROVE TypeOK'
  BY <1>1, RowTypes, ConstantsAssumption DEF Push
<1>2. ASSUME NEW w \in Workers, Select(w) PROVE TypeOK'
  <2>1. PICK ids \in SUBSET {j \in Jobs : Available(j)} :
            candidates' = [candidates EXCEPT ![w] =
               {[id |-> j, attempts |-> rows[j].attempts, max |-> rows[j].max] :
                   j \in ids}]
    BY <1>2 DEF Select
  <2>2. {[id |-> j, attempts |-> rows[j].attempts, max |-> rows[j].max] :
            j \in ids} \in SUBSET Ticket
    BY DEF Available, Exists, Row, Ticket
  <2> QED BY <1>2, <2>1, <2>2 DEF Select
<1>3. ASSUME NEW w \in Workers, NEW c \in candidates[w], ClaimWins(w, c) PROVE TypeOK'
  <2>1. c \in Ticket /\ Counted(c.attempts) \in Nat
    BY CountedType DEF Ticket
  <2>2. [c EXCEPT !.attempts = Counted(c.attempts)] \in Ticket
    BY <2>1 DEF Ticket
  <2>3. rows[c.id] \in Row
    BY <1>3, <2>1 DEF ClaimWins, Exists, Ticket
  <2>4. Reserve(rows[c.id], Counted(c.attempts)) \in Row
    BY <2>1, <2>3, RowTypes
  <2>5. rows' \in [Jobs -> Row \cup {NoRow}]
    BY <1>3, <2>1, <2>4 DEF ClaimWins, Ticket
  <2> QED BY <1>3, <2>2, <2>5 DEF ClaimWins
<1>4. ASSUME NEW w \in Workers, NEW c \in candidates[w], ClaimLoses(w, c) PROVE TypeOK'
  BY <1>4 DEF ClaimLoses
<1>5. ASSUME NEW w \in Workers, HandlerOk(w) PROVE TypeOK'
  BY <1>5 DEF HandlerOk, Ticket
<1>6. ASSUME NEW w \in Workers, HandlerErr(w) PROVE TypeOK'
  BY <1>6 DEF HandlerErr
<1>7. ASSUME NEW w \in Workers, Acknowledge(w) PROVE TypeOK'
  BY <1>7 DEF Acknowledge, Drop
<1>8. ASSUME NEW w \in Workers, Release(w) PROVE TypeOK'
  BY <1>8, RowTypes, ConstantsAssumption DEF Release, Drop, Exists
<1>9. ASSUME NEW w \in Workers, FailInsert(w) PROVE TypeOK'
  BY <1>9 DEF FailInsert, Ticket
<1>10. ASSUME NEW w \in Workers, FailRefused(w) PROVE TypeOK'
  BY <1>10 DEF FailRefused, Drop
<1>11. ASSUME NEW w \in Workers, FailDelete(w) PROVE TypeOK'
  BY <1>11 DEF FailDelete, Drop
<1>12. ASSUME NEW r \in Reclaimers, ReclaimSelect(r) PROVE TypeOK'
  BY <1>12 DEF ReclaimSelect
<1>13. ASSUME NEW r \in Reclaimers, NEW j \in Jobs, ReclaimUpdate(r, j) PROVE TypeOK'
  <2>1. stale[r][j] \in Row /\ stale[r][j].availableIn \in Nat
    BY <1>13 DEF ReclaimUpdate, Row
  <2> QED BY <1>13, <2>1, RowTypes DEF ReclaimUpdate
<1>14. ASSUME NEW o \in Operators, NEW j \in Jobs, RetryFind(o, j) PROVE TypeOK'
  BY <1>14 DEF RetryFind
<1>15. ASSUME NEW o \in Operators, NEW j \in Jobs, RetryCreate(o, j) PROVE TypeOK'
  <2>1. CASE Exists(j)
    BY <1>15, <2>1 DEF RetryCreate
  <2>2. CASE ~Exists(j)
    <3>1. NewRow(1, 0) \in Row
      BY RowTypes
    <3>2. <<"delete", j>> \in {"create", "delete"} \X Jobs
      OBVIOUS
    <3> QED BY <1>15, <2>2, <3>1, <3>2 DEF RetryCreate
  <2> QED BY <2>1, <2>2
<1>16. ASSUME NEW o \in Operators, NEW j \in Jobs, RetryDelete(o, j) PROVE TypeOK'
  BY <1>16 DEF RetryDelete
<1>17. CASE Clear
  BY <1>17 DEF Clear
<1>18. ASSUME NEW w \in Workers, CrashWorker(w) PROVE TypeOK'
  BY <1>18 DEF CrashWorker, Crash, Drop
<1>19. ASSUME NEW r \in Reclaimers, CrashReclaimer(r) PROVE TypeOK'
  BY <1>19 DEF CrashReclaimer, Crash, NoStale
<1>20. ASSUME NEW o \in Operators, CrashOperator(o) PROVE TypeOK'
  BY <1>20 DEF CrashOperator, Crash
<1>21. CASE Tick
  BY <1>21, AgedType DEF Tick
<1>22. CASE UNCHANGED vars
  BY <1>22 DEF vars
<1> QED
  BY <1>1, <1>2, <1>3, <1>4, <1>5, <1>6, <1>7, <1>8, <1>9, <1>10, <1>11, <1>12,
     <1>13, <1>14, <1>15, <1>16, <1>17, <1>18, <1>19, <1>20, <1>21, <1>22
  DEF Next, WorkerStep, ReclaimStep, RetryStep

(* The tables and every process's memory keep their types in every         *)
(* behaviour of the driver.                                                *)
THEOREM TypeCorrect == Spec => []TypeOK
<1>1. Init => TypeOK
  BY DEF Init, TypeOK, NoStale, Idle, Busy
<1> QED BY <1>1, TypeStep, PTL DEF Spec

-----------------------------------------------------------------------------
(* A reservation that is held has not lapsed, and what a reclaimer is      *)
(* about to write back nobody holds.                                       *)
LEMMA HeldNotStale ==
    ASSUME TypeOK, HolderInv, StaleInv, WellConfigured,
           NEW w \in Workers, NEW j \in Jobs \ cleared, Holds(w, j)
    PROVE  /\ Exists(j) /\ rows[j].reserved /\ ~Lapsed(rows[j])
           /\ \A r \in Reclaimers : stale[r][j] = NoRow
<1>1. PICK t \in ticket[w] : t.id = j
  BY DEF Holds
<1>2. /\ Exists(j) /\ rows[j].reserved
      /\ rows[j].reservedFor = Reservation - held[w]
      /\ held[w] <= HoldTime
  BY <1>1 DEF HolderInv, Holds
<1>3. ~Lapsed(rows[j])
  BY <1>2, ConstantsAssumption DEF Lapsed, TypeOK, WellConfigured
<1> QED BY <1>2, <1>3 DEF StaleInv

(* Each worker's single ticket is kept by every step.                      *)
LEMMA TicketStep ==
    ASSUME TypeOK, TicketInv, [Next]_vars
    PROVE  TicketInv'
<1> USE DEF TicketInv, Busy, tables, work, history, bounds
<1>1. ASSUME NEW j \in Jobs, NEW delay \in Delays, Push(j, delay) PROVE TicketInv'
  BY <1>1 DEF Push
<1>2. ASSUME NEW w \in Workers, Select(w) PROVE TicketInv'
  BY <1>2 DEF Select, TypeOK
<1>3. ASSUME NEW w \in Workers, NEW c \in candidates[w], ClaimWins(w, c) PROVE TicketInv'
  BY <1>3 DEF ClaimWins, TypeOK
<1>4. ASSUME NEW w \in Workers, NEW c \in candidates[w], ClaimLoses(w, c) PROVE TicketInv'
  BY <1>4 DEF ClaimLoses, TypeOK
<1>5. ASSUME NEW w \in Workers, HandlerOk(w) PROVE TicketInv'
  BY <1>5 DEF HandlerOk, TypeOK
<1>6. ASSUME NEW w \in Workers, HandlerErr(w) PROVE TicketInv'
  BY <1>6 DEF HandlerErr, TypeOK
<1>7. ASSUME NEW w \in Workers, Drop(w), UNCHANGED succeeded PROVE TicketInv'
  BY <1>7 DEF Drop, TypeOK
<1>8. ASSUME NEW w \in Workers, FailInsert(w) PROVE TicketInv'
  BY <1>8 DEF FailInsert, TypeOK
<1>9. ASSUME UNCHANGED <<pc, ticket, succeeded>> PROVE TicketInv'
  BY <1>9
<1> QED
  BY <1>1, <1>2, <1>3, <1>4, <1>5, <1>6, <1>7, <1>8, <1>9
  DEF Next, vars, WorkerStep, ReclaimStep, RetryStep, Acknowledge, Release, FailRefused,
      FailDelete, ReclaimSelect, ReclaimUpdate, RetryFind, RetryCreate, RetryDelete,
      Clear, Crash, CrashWorker, CrashReclaimer, CrashOperator, Tick

(* Only a pushed job is ever in a table or in anybody's hands.             *)
LEMMA KnownStep ==
    ASSUME TypeOK, KnownInv, [Next]_vars
    PROVE  KnownInv'
<1> USE DEF KnownInv, TypeOK, Exists, Idle, Ticket, tables, work, history, bounds
<1>1. ASSUME NEW j \in Jobs, NEW delay \in Delays, Push(j, delay) PROVE KnownInv'
  BY <1>1 DEF Push
<1>2. ASSUME NEW w \in Workers, Select(w) PROVE KnownInv'
  BY <1>2 DEF Select
<1>3. ASSUME NEW w \in Workers, NEW c \in candidates[w], ClaimWins(w, c) PROVE KnownInv'
  BY <1>3 DEF ClaimWins
<1>4. ASSUME NEW w \in Workers, NEW c \in candidates[w], ClaimLoses(w, c) PROVE KnownInv'
  BY <1>4 DEF ClaimLoses
<1>5. ASSUME NEW w \in Workers, HandlerOk(w) PROVE KnownInv'
  BY <1>5 DEF HandlerOk
<1>6. ASSUME NEW w \in Workers, HandlerErr(w) PROVE KnownInv'
  BY <1>6 DEF HandlerErr
<1>7. ASSUME NEW w \in Workers, Acknowledge(w) PROVE KnownInv'
  BY <1>7 DEF Acknowledge, Drop
<1>8. ASSUME NEW w \in Workers, Release(w) PROVE KnownInv'
  BY <1>8 DEF Release, Drop
<1>9. ASSUME NEW w \in Workers, FailInsert(w) PROVE KnownInv'
  BY <1>9 DEF FailInsert
<1>10. ASSUME NEW w \in Workers, FailRefused(w) PROVE KnownInv'
  BY <1>10 DEF FailRefused, Drop
<1>11. ASSUME NEW w \in Workers, FailDelete(w) PROVE KnownInv'
  BY <1>11 DEF FailDelete, Drop
<1>12. ASSUME NEW r \in Reclaimers, ReclaimSelect(r) PROVE KnownInv'
  BY <1>12 DEF ReclaimSelect
<1>13. ASSUME NEW r \in Reclaimers, NEW j \in Jobs, ReclaimUpdate(r, j) PROVE KnownInv'
  BY <1>13 DEF ReclaimUpdate
<1>14. ASSUME NEW o \in Operators, NEW j \in Jobs, RetryFind(o, j) PROVE KnownInv'
  BY <1>14 DEF RetryFind
<1>15. ASSUME NEW o \in Operators, NEW j \in Jobs, RetryCreate(o, j) PROVE KnownInv'
  BY <1>15 DEF RetryCreate
<1>16. ASSUME NEW o \in Operators, NEW j \in Jobs, RetryDelete(o, j) PROVE KnownInv'
  BY <1>16 DEF RetryDelete
<1>17. ASSUME Clear PROVE KnownInv'
  BY <1>17 DEF Clear
<1>18. ASSUME NEW w \in Workers, CrashWorker(w) PROVE KnownInv'
  BY <1>18 DEF CrashWorker, Crash, Drop
<1>19. ASSUME NEW r \in Reclaimers, CrashReclaimer(r) PROVE KnownInv'
  BY <1>19 DEF CrashReclaimer, Crash
<1>20. ASSUME NEW o \in Operators, CrashOperator(o) PROVE KnownInv'
  BY <1>20 DEF CrashOperator, Crash
<1>21. ASSUME Tick PROVE KnownInv'
  BY <1>21, AgedType DEF Tick
<1>22. ASSUME UNCHANGED vars PROVE KnownInv'
  BY <1>22 DEF vars
<1> QED
  BY <1>1, <1>2, <1>3, <1>4, <1>5, <1>6, <1>7, <1>8, <1>9, <1>10, <1>11,
     <1>12, <1>13, <1>14, <1>15, <1>16, <1>17, <1>18, <1>19, <1>20, <1>21, <1>22
  DEF Next, WorkerStep, ReclaimStep, RetryStep


(* A step that gives no worker a job, and writes neither to a row that is  *)
(* still held nor to one that is still to be written back, keeps the       *)
(* reservations in order.                                                  *)
LEMMA ReservationFrame ==
    ASSUME TypeOK, HolderInv, StaleInv, OneRunner, cleared \subseteq cleared',
           \A w \in Workers : pc'[w] \in Busy =>
               pc[w] \in Busy /\ ticket'[w] = ticket[w] /\ held'[w] = held[w],
           \A w \in Workers, j \in Jobs \ cleared' : Holds(w, j)' => rows'[j] = rows[j],
           \A r \in Reclaimers, j \in Jobs \ cleared' : stale'[r][j] # NoRow =>
               stale[r][j] # NoRow /\ rows'[j] = rows[j]
    PROVE  HolderInv' /\ StaleInv' /\ OneRunner'
<1>1. \A w \in Workers, j \in Jobs : Holds(w, j)' => Holds(w, j)
  BY DEF Holds
<1>2. OneRunner'
  BY <1>1 DEF OneRunner
<1>3. StaleInv'
  BY DEF StaleInv, Exists
<1>4. HolderInv'
  <2> SUFFICES ASSUME NEW w \in Workers, NEW t \in ticket'[w],
                      pc'[w] \in Busy, t.id \notin cleared'
               PROVE  /\ Exists(t.id)' /\ rows'[t.id].reserved
                      /\ rows'[t.id].reservedFor = Reservation - held'[w]
                      /\ rows'[t.id].attempts = t.attempts
                      /\ held'[w] <= HoldTime
    BY DEF HolderInv
  <2>1. t \in ticket[w] /\ pc[w] \in Busy /\ held'[w] = held[w] /\ t.id \in Jobs \ cleared'
    BY DEF TypeOK, Ticket
  <2>2. Holds(w, t.id)'
    BY <2>1 DEF Holds
  <2>3. rows'[t.id] = rows[t.id]
    BY <2>1, <2>2
  <2> QED BY <2>1, <2>3 DEF HolderInv, Exists
<1> QED BY <1>2, <1>3, <1>4

(* Nobody takes a reservation from its holder, and so no second worker     *)
(* gets hold of the job.                                                   *)
LEMMA ReservationStep ==
    ASSUME TypeOK, KnownInv, HolderInv, StaleInv, OneRunner, WellConfigured, [Next]_vars
    PROVE  HolderInv' /\ StaleInv' /\ OneRunner'
<1> DEFINE Goal == HolderInv' /\ StaleInv' /\ OneRunner'
<1> USE DEF tables, work, history, bounds
<1>a. \A w \in Workers, j \in Jobs \ cleared : Holds(w, j) =>
         /\ Exists(j) /\ rows[j].reserved /\ ~Lapsed(rows[j])
         /\ \A r \in Reclaimers : stale[r][j] = NoRow
  BY HeldNotStale
<1>b. \A r \in Reclaimers, j \in Jobs \ cleared : stale[r][j] # NoRow =>
         Exists(j) /\ Lapsed(rows[j]) /\ \A w \in Workers : ~Holds(w, j)
  BY <1>a DEF StaleInv
<1>1. ASSUME NEW k \in Jobs, NEW delay \in Delays, Push(k, delay) PROVE Goal
  <2>1. ~Exists(k)
    BY <1>1 DEF Push, KnownInv
  <2>2. \A j \in Jobs : j # k => rows'[j] = rows[j]
    BY <1>1 DEF Push, TypeOK
  <2>3. UNCHANGED <<pc, ticket, held, stale, cleared>>
    BY <1>1 DEF Push
  <2> QED BY <1>a, <1>b, <2>1, <2>2, <2>3, ReservationFrame DEF Holds
<1>2. ASSUME NEW w \in Workers, Select(w) PROVE Goal
  <2>1. UNCHANGED <<rows, ticket, held, stale, cleared>>
    BY <1>2 DEF Select
  <2>2. \A v \in Workers : pc'[v] \in Busy => pc[v] \in Busy
    BY <1>2 DEF Select, TypeOK, Busy
  <2> QED BY <2>1, <2>2, ReservationFrame
<1>3. ASSUME NEW w \in Workers, NEW c \in candidates[w], ClaimWins(w, c) PROVE Goal
  <2> DEFINE k == c.id
             u == [c EXCEPT !.attempts = Counted(c.attempts)]
  <2>1. c \in Ticket /\ k \in Jobs /\ u \in Ticket /\ u.id = k /\ u.attempts = Counted(c.attempts)
    BY CountedType DEF TypeOK, Ticket
  <2>2. /\ Exists(k) /\ ~rows[k].reserved
        /\ rows' = [rows EXCEPT ![k] = Reserve(rows[k], Counted(c.attempts))]
        /\ ticket' = [ticket EXCEPT ![w] = {u}]
        /\ held' = [held EXCEPT ![w] = 0]
        /\ pc' = [pc EXCEPT ![w] = "running"]
        /\ UNCHANGED <<stale, cleared>>
    BY <1>3 DEF ClaimWins
  <2> HIDE DEF k, u
  <2>3. /\ rows'[k] # NoRow /\ rows'[k].reserved
        /\ rows'[k].reservedFor = Reservation
        /\ rows'[k].attempts = u.attempts
    <3>1. rows'[k] = Reserve(rows[k], Counted(c.attempts))
      BY <2>1, <2>2 DEF TypeOK
    <3>2. rows[k] \in Row /\ Counted(c.attempts) \in Nat
      BY <2>1, <2>2, CountedType DEF TypeOK, Exists, Ticket
    <3>3. rows'[k] \in Row
      BY <3>1, <3>2, RowTypes
    <3>4. rows'[k] # NoRow
      BY <3>3, ConstantsAssumption
    <3>5. rows'[k].reservedFor = Reservation /\ rows'[k].attempts = u.attempts
      BY <2>1, <3>1 DEF Reserve
    <3>6. rows'[k].reserved = TRUE
      BY <3>1, ReserveReserves
    <3> QED BY <3>4, <3>5, <3>6
  <2>4. \A j \in Jobs : j # k => rows'[j] = rows[j]
    BY <2>2 DEF TypeOK
  <2>5. \A v \in Workers : v # w => ticket'[v] = ticket[v] /\ held'[v] = held[v] /\ pc'[v] = pc[v]
    BY <2>2 DEF TypeOK
  <2>6. ticket'[w] = {u} /\ held'[w] = 0
    BY <2>2 DEF TypeOK
  <2>7. k \notin cleared => \A v \in Workers : ~Holds(v, k)
    BY <1>a, <2>1, <2>2
  <2>8. k \notin cleared => \A r \in Reclaimers : stale[r][k] = NoRow
    BY <1>b, <2>1, <2>2 DEF Lapsed
  <2>9. HolderInv'
    <3> SUFFICES ASSUME NEW v \in Workers, NEW t \in ticket'[v],
                        pc'[v] \in Busy, t.id \notin cleared
                 PROVE  /\ Exists(t.id)' /\ rows'[t.id].reserved
                        /\ rows'[t.id].reservedFor = Reservation - held'[v]
                        /\ rows'[t.id].attempts = t.attempts
                        /\ held'[v] <= HoldTime
      BY <2>2 DEF HolderInv
    <3>1. CASE v = w
      BY <2>1, <2>3, <2>6, <3>1, ConstantsAssumption DEF Exists
    <3>2. CASE v # w
      <4>1. t \in ticket[v] /\ pc[v] \in Busy /\ t.id \in Jobs
        BY <2>5, <3>2 DEF TypeOK, Ticket
      <4>2. t.id # k
        BY <2>7, <4>1 DEF Holds
      <4> QED BY <2>4, <2>5, <3>2, <4>1, <4>2 DEF HolderInv, Exists
    <3> QED BY <3>1, <3>2
  <2>10. StaleInv'
    BY <2>2, <2>4, <2>8 DEF StaleInv, Exists
  <2>11. \A v \in Workers, j \in Jobs : Holds(v, j)' => Holds(v, j) \/ (v = w /\ j = k)
    BY <2>1, <2>5, <2>6 DEF Holds
  <2>12. OneRunner'
    BY <2>2, <2>7, <2>11 DEF OneRunner
  <2> QED BY <2>9, <2>10, <2>12
<1>4. ASSUME NEW w \in Workers, NEW c \in candidates[w], ClaimLoses(w, c) PROVE Goal
  <2>1. UNCHANGED <<rows, ticket, held, stale, cleared>>
    BY <1>4 DEF ClaimLoses
  <2>2. \A v \in Workers : pc'[v] \in Busy => pc[v] \in Busy
    BY <1>4 DEF ClaimLoses, TypeOK, Busy
  <2> QED BY <2>1, <2>2, ReservationFrame
<1>5. ASSUME NEW w \in Workers, HandlerOk(w) \/ HandlerErr(w) \/ FailInsert(w) PROVE Goal
  <2>1. UNCHANGED <<rows, ticket, held, stale, cleared>>
    BY <1>5 DEF HandlerOk, HandlerErr, FailInsert
  <2>2. \A v \in Workers : pc'[v] \in Busy => pc[v] \in Busy
    BY <1>5 DEF HandlerOk, HandlerErr, FailInsert, TypeOK, Busy
  <2> QED BY <2>1, <2>2, ReservationFrame
<1>6. ASSUME NEW w \in Workers, Drop(w), UNCHANGED <<stale, cleared>>, pc[w] \in Busy,
             \A j \in Jobs : (\A t \in ticket[w] : t.id # j) => rows'[j] = rows[j]
      PROVE  Goal
  <2>1. \A v \in Workers : pc'[v] \in Busy =>
            v # w /\ pc[v] \in Busy /\ ticket'[v] = ticket[v] /\ held'[v] = held[v]
    BY <1>6 DEF Drop, TypeOK, Busy
  <2>2. \A v \in Workers, j \in Jobs \ cleared' : Holds(v, j)' => rows'[j] = rows[j]
    BY <1>6, <2>1 DEF OneRunner, Holds
  <2>3. \A r \in Reclaimers, j \in Jobs \ cleared' : stale'[r][j] # NoRow =>
            stale[r][j] # NoRow /\ rows'[j] = rows[j]
    BY <1>6, <1>b DEF Holds
  <2> QED BY <1>6, <2>1, <2>2, <2>3, ReservationFrame
<1>7. ASSUME NEW w \in Workers, CrashWorker(w) PROVE Goal
  <2>1. \A v \in Workers : pc'[v] \in Busy =>
            v # w /\ pc[v] \in Busy /\ ticket'[v] = ticket[v] /\ held'[v] = held[v]
    BY <1>7 DEF CrashWorker, Drop, TypeOK, Busy
  <2>2. UNCHANGED <<rows, stale, cleared>>
    BY <1>7 DEF CrashWorker, Crash
  <2> QED BY <2>1, <2>2, ReservationFrame
<1>8. ASSUME NEW r \in Reclaimers, ReclaimSelect(r) PROVE Goal
  <2>1. UNCHANGED <<rows, pc, ticket, held, cleared>>
    BY <1>8 DEF ReclaimSelect
  <2>2. HolderInv' /\ OneRunner'
    BY <2>1 DEF HolderInv, OneRunner, Exists, Holds
  <2>3. \A s \in Reclaimers, j \in Jobs : stale'[s][j] # NoRow =>
            stale[s][j] # NoRow \/ (Exists(j) /\ Lapsed(rows[j]))
    BY <1>8 DEF ReclaimSelect, TypeOK
  <2>4. StaleInv'
    BY <2>1, <2>3 DEF StaleInv, Exists
  <2> QED BY <2>2, <2>4
<1>9. ASSUME NEW r \in Reclaimers, NEW k \in Jobs, ReclaimUpdate(r, k) PROVE Goal
  <2>1. UNCHANGED <<pc, ticket, held, cleared>>
    BY <1>9 DEF ReclaimUpdate
  <2>2. \A j \in Jobs : j # k => rows'[j] = rows[j]
    BY <1>9 DEF ReclaimUpdate, TypeOK
  <2>3. \A s \in Reclaimers, j \in Jobs : stale'[s][j] # NoRow =>
            stale[s][j] # NoRow /\ j # k
    BY <1>9 DEF ReclaimUpdate, TypeOK, WellConfigured
  <2>4. \A w \in Workers, j \in Jobs \ cleared' : Holds(w, j)' => rows'[j] = rows[j]
    BY <1>9, <1>b, <2>1, <2>2 DEF ReclaimUpdate, Holds
  <2> QED BY <2>1, <2>2, <2>3, <2>4, ReservationFrame
<1>10. ASSUME NEW o \in Operators, NEW k \in Jobs, RetryCreate(o, k) PROVE Goal
  <2>1. UNCHANGED <<pc, ticket, held, stale, cleared>>
    BY <1>10 DEF RetryCreate
  <2>2. \A j \in Jobs : Exists(j) => rows'[j] = rows[j]
    BY <1>10 DEF RetryCreate, TypeOK
  <2> QED BY <1>a, <1>b, <2>1, <2>2, ReservationFrame DEF Holds
<1>11. ASSUME Clear PROVE Goal
  <2>1. UNCHANGED <<pc, ticket, held, stale>> /\ cleared \subseteq cleared'
    BY <1>11 DEF Clear
  <2>2. \A j \in Jobs \ cleared' : ~Exists(j)
    BY <1>11 DEF Clear
  <2> QED BY <1>a, <1>b, <2>1, <2>2, ReservationFrame DEF Holds
<1>12. ASSUME NEW r \in Reclaimers, CrashReclaimer(r) PROVE Goal
  <2>1. UNCHANGED <<rows, pc, ticket, held, cleared>>
    BY <1>12 DEF CrashReclaimer, Crash
  <2>2. \A s \in Reclaimers, j \in Jobs : stale'[s][j] # NoRow => stale[s][j] # NoRow
    BY <1>12 DEF CrashReclaimer, NoStale, TypeOK
  <2> QED BY <2>1, <2>2, ReservationFrame
<1>13. ASSUME UNCHANGED <<rows, pc, ticket, held, stale, cleared>> PROVE Goal
  BY <1>13, ReservationFrame
<1>14. ASSUME Tick PROVE Goal
  <2>1. /\ \A w \in Workers : pc[w] \in Busy => held[w] < HoldTime /\ held'[w] = held[w] + 1
        /\ \A j \in Jobs : rows'[j] = Aged(rows[j])
        /\ \A r \in Reclaimers, j \in Jobs : stale'[r][j] = Aged(stale[r][j])
        /\ UNCHANGED <<pc, ticket, cleared>>
    BY <1>14 DEF Tick
  <2>2. \A j \in Jobs : Exists(j) =>
            /\ Exists(j)'
            /\ rows'[j].attempts = rows[j].attempts
            /\ rows'[j].reserved = rows[j].reserved
            /\ rows'[j].reservedFor =
                  IF rows[j].reservedFor >= 0 THEN rows[j].reservedFor - 1 ELSE -1
            /\ rows[j].reservedFor \in Int
    BY <2>1, AgedType DEF TypeOK, Exists, Row
  <2>3. HolderInv'
    <3> SUFFICES ASSUME NEW w \in Workers, NEW t \in ticket[w],
                        pc[w] \in Busy, t.id \notin cleared
                 PROVE  /\ Exists(t.id)' /\ rows'[t.id].reserved
                        /\ rows'[t.id].reservedFor = Reservation - held'[w]
                        /\ rows'[t.id].attempts = t.attempts
                        /\ held'[w] <= HoldTime
      BY <2>1 DEF HolderInv
    <3>1. /\ Exists(t.id) /\ rows[t.id].reserved
          /\ rows[t.id].reservedFor = Reservation - held[w]
          /\ rows[t.id].attempts = t.attempts
      BY DEF HolderInv
    <3>2. t.id \in Jobs /\ held[w] \in Nat
      BY DEF TypeOK, Ticket
    <3>3. held[w] < HoldTime /\ held'[w] = held[w] + 1
      BY <2>1
    <3>4. rows[t.id].reservedFor >= 0
      BY <3>1, <3>2, <3>3, ConstantsAssumption DEF WellConfigured
    <3>5. rows'[t.id].reservedFor = Reservation - held'[w] /\ held'[w] <= HoldTime
      BY <2>2, <3>1, <3>2, <3>3, <3>4, ConstantsAssumption
    <3> QED BY <2>2, <3>1, <3>2, <3>5
  <2>4. StaleInv'
    <3> SUFFICES ASSUME NEW r \in Reclaimers, NEW j \in Jobs \ cleared, stale'[r][j] # NoRow
                 PROVE  Exists(j)' /\ Lapsed(rows'[j])
      BY <2>1 DEF StaleInv
    <3>1. stale[r][j] # NoRow
      BY <2>1, AgedType DEF TypeOK
    <3> QED BY <2>2, <3>1 DEF StaleInv, Lapsed
  <2>5. OneRunner'
    BY <2>1 DEF OneRunner, Holds
  <2> QED BY <2>3, <2>4, <2>5
<1>15. ASSUME NEW w \in Workers,
              Acknowledge(w) \/ Release(w) \/ FailRefused(w) \/ FailDelete(w)
       PROVE  Goal
  <2>1. Drop(w) /\ UNCHANGED <<stale, cleared>> /\ pc[w] \in Busy
    BY <1>15 DEF Acknowledge, Release, FailRefused, FailDelete, Busy
  <2>2. \A j \in Jobs : (\A t \in ticket[w] : t.id # j) => rows'[j] = rows[j]
    BY <1>15 DEF Acknowledge, Release, FailRefused, FailDelete
  <2> QED BY <1>6, <2>1, <2>2
<1> QED
  BY <1>1, <1>2, <1>3, <1>4, <1>5, <1>7, <1>8, <1>9, <1>10, <1>11, <1>12, <1>13, <1>14, <1>15
  DEF Next, vars, WorkerStep, ReclaimStep, RetryStep, RetryFind, RetryDelete, Crash, CrashOperator

-----------------------------------------------------------------------------
(* A step that deletes nothing and starts neither second statement, of     *)
(* fail or of retry_failed, loses no job.                                  *)
LEMMA NoLossFrame ==
    ASSUME RetryInv, NoJobLost,
           succeeded \subseteq succeeded', cleared \subseteq cleared',
           failedRows \subseteq failedRows',
           \A j \in Jobs \ (succeeded' \cup cleared') : Exists(j) => Exists(j)',
           \A j \in pushed' : j \in pushed \/ Exists(j)', pushed' \subseteq Jobs,
           \A o \in Operators, j \in Jobs :
               retry'[o] = <<"delete", j>> => retry[o] = <<"delete", j>>,
           \A w \in Workers, j \in Jobs :
               pc'[w] = "delete" /\ Holds(w, j)' => pc[w] = "delete" /\ Holds(w, j)
    PROVE  RetryInv' /\ NoJobLost'
<1>1. RetryInv'
  BY DEF RetryInv
<1>2. NoJobLost'
  BY DEF NoJobLost
<1> QED BY <1>1, <1>2

(* Wherever a crash falls, one of the tables keeps a job that nobody       *)
(* finished.                                                               *)
LEMMA NoLossStep ==
    ASSUME TypeOK, TypeOK', TicketInv, KnownInv, HolderInv, StaleInv, OneRunner,
           RetryInv, NoJobLost, WellConfigured, [Next]_vars
    PROVE  RetryInv' /\ NoJobLost'
<1> DEFINE Goal == RetryInv' /\ NoJobLost'
<1> USE DEF tables, work, history, bounds
<1>a. \A w \in Workers, j \in Jobs \ cleared : Holds(w, j) => Exists(j)
  BY HeldNotStale
<1>1. ASSUME NEW k \in Jobs, NEW delay \in Delays, Push(k, delay) PROVE Goal
  <2>1. \A j \in Jobs : Exists(j) \/ j = k => Exists(j)'
    BY <1>1, RowTypes, ConstantsAssumption DEF Push, TypeOK, Exists
  <2> QED BY <1>1, <2>1, NoLossFrame DEF Push, Holds, TypeOK
<1>2. ASSUME NEW w \in Workers, Select(w) PROVE Goal
  BY <1>2, NoLossFrame DEF Select, Exists, Holds, TypeOK
<1>3. ASSUME NEW w \in Workers, NEW c \in candidates[w], ClaimWins(w, c) PROVE Goal
  <2>1. \A j \in Jobs : Exists(j) => Exists(j)'
    <3>1. c.attempts \in Nat /\ c.id \in Jobs
      BY DEF TypeOK, Ticket
    <3>2. rows[c.id] \in Row /\ Counted(c.attempts) \in Nat
      BY <1>3, <3>1, CountedType DEF ClaimWins, Exists, TypeOK
    <3>3. Reserve(rows[c.id], Counted(c.attempts)) # NoRow
      BY <3>2, RowTypes, ConstantsAssumption
    <3> QED BY <1>3, <3>1, <3>3 DEF ClaimWins, Exists, TypeOK
  <2>2. \A v \in Workers : pc'[v] = "delete" => pc[v] = "delete" /\ ticket'[v] = ticket[v]
    BY <1>3 DEF ClaimWins, TypeOK
  <2> QED BY <1>3, <2>1, <2>2, NoLossFrame DEF ClaimWins, Holds, TypeOK
<1>4. ASSUME NEW w \in Workers, NEW c \in candidates[w], ClaimLoses(w, c) PROVE Goal
  BY <1>4, NoLossFrame DEF ClaimLoses, Exists, Holds, TypeOK
<1>5. ASSUME NEW w \in Workers, HandlerOk(w) PROVE Goal
  BY <1>5, NoLossFrame DEF HandlerOk, Exists, Holds, TypeOK
<1>6. ASSUME NEW w \in Workers, HandlerErr(w) PROVE Goal
  BY <1>6, NoLossFrame DEF HandlerErr, Exists, Holds, TypeOK
<1>b. ASSUME NEW w \in Workers, Drop(w)
      PROVE  \A v \in Workers, j \in Jobs : pc'[v] = "delete" /\ Holds(v, j)' =>
                 v # w /\ pc[v] = "delete" /\ Holds(v, j)
  BY <1>b DEF Drop, Holds, TypeOK
<1>7. ASSUME NEW w \in Workers, Acknowledge(w) PROVE Goal
  <2>1. \A j \in Jobs \ (succeeded' \cup cleared') : rows'[j] = rows[j]
    BY <1>7 DEF Acknowledge, TicketInv
  <2> QED BY <1>7, <1>b, <2>1, NoLossFrame DEF Acknowledge, Exists, TypeOK
<1>8. ASSUME NEW w \in Workers, Release(w) PROVE Goal
  <2>1. \A j \in Jobs : Exists(j) => Unreserve(rows[j], Backoff) # NoRow
    BY RowTypes, ConstantsAssumption DEF Exists, TypeOK
  <2>2. \A j \in Jobs : Exists(j) => Exists(j)'
    BY <1>8, <2>1 DEF Release, Exists
  <2> QED BY <1>8, <1>b, <2>2, NoLossFrame DEF Release, TypeOK
<1>9. ASSUME NEW w \in Workers, FailInsert(w) PROVE Goal
  <2>1. PICK t \in ticket[w] : t.id \notin failedRows /\ failedRows' = failedRows \cup {t.id}
    BY <1>9 DEF FailInsert
  <2>2. UNCHANGED <<rows, ticket, retry, history>> /\ t.id \in Jobs
    BY <1>9 DEF FailInsert, TypeOK, Ticket
  <2>3. NoJobLost'
    BY <2>1, <2>2 DEF NoJobLost, Exists
  <2>4. ticket[w] = {t}
    BY <1>9, <2>1 DEF FailInsert, TicketInv, Busy
  <2>5. \A v \in Workers, j \in Jobs : pc'[v] = "delete" /\ Holds(v, j)' =>
            (pc[v] = "delete" /\ Holds(v, j)) \/ j = t.id
    BY <1>9, <2>2, <2>4 DEF FailInsert, Holds, TypeOK
  <2>6. t.id \notin succeeded \cup cleared =>
            \A o \in Operators : retry[o] # <<"delete", t.id>>
    BY <2>1, <2>2 DEF RetryInv
  <2>7. RetryInv'
    BY <2>1, <2>2, <2>5, <2>6 DEF RetryInv, Exists
  <2> QED BY <2>3, <2>7
<1>10. ASSUME NEW w \in Workers, FailRefused(w) PROVE Goal
  BY <1>10, <1>b, NoLossFrame DEF FailRefused, Exists, TypeOK
<1>11. ASSUME NEW w \in Workers, FailDelete(w) PROVE Goal
  <2>1. UNCHANGED <<failedRows, retry, history>> /\ Drop(w)
    BY <1>11 DEF FailDelete
  <2>2. \A j \in Jobs : ~Holds(w, j) => rows'[j] = rows[j]
    BY <1>11 DEF FailDelete, Holds, Busy
  <2>3. \A j \in Jobs \ (succeeded \cup cleared) : Holds(w, j) =>
            j \in failedRows /\ \A o \in Operators : retry[o] # <<"delete", j>>
    BY <1>11 DEF FailDelete, RetryInv
  <2>4. NoJobLost'
    BY <2>1, <2>2, <2>3 DEF NoJobLost, Exists, TypeOK
  <2>5. RetryInv'
    BY <1>b, <2>1, <2>2, <2>3 DEF RetryInv, Exists
  <2> QED BY <2>4, <2>5
<1>12. ASSUME NEW r \in Reclaimers, ReclaimSelect(r) PROVE Goal
  BY <1>12, NoLossFrame DEF ReclaimSelect, Exists, Holds, TypeOK
<1>13. ASSUME NEW r \in Reclaimers, NEW k \in Jobs, ReclaimUpdate(r, k) PROVE Goal
  <2>1. stale[r][k] \in Row /\ stale[r][k].availableIn \in Nat
    BY <1>13 DEF ReclaimUpdate, Row, TypeOK
  <2>2. Unreserve(stale[r][k], stale[r][k].availableIn) # NoRow
    BY <2>1, RowTypes, ConstantsAssumption
  <2>3. \A j \in Jobs : Exists(j) => Exists(j)'
    BY <1>13, <2>2 DEF ReclaimUpdate, Exists, TypeOK
  <2> QED BY <1>13, <2>3, NoLossFrame DEF ReclaimUpdate, Holds, TypeOK
<1>14. ASSUME NEW o \in Operators, NEW k \in Jobs, RetryFind(o, k) PROVE Goal
  <2>1. \A p \in Operators, j \in Jobs :
            retry'[p] = <<"delete", j>> => retry[p] = <<"delete", j>>
    BY <1>14 DEF RetryFind, TypeOK
  <2> QED BY <1>14, <2>1, NoLossFrame DEF RetryFind, Exists, Holds, TypeOK
<1>15. ASSUME NEW o \in Operators, NEW k \in Jobs, RetryCreate(o, k) PROVE Goal
  <2>1. UNCHANGED <<failedRows, pc, ticket, history>>
    BY <1>15 DEF RetryCreate
  <2>2. NewRow(1, 0) # NoRow
    BY RowTypes, ConstantsAssumption
  <2>3. \A j \in Jobs : (Exists(j) => Exists(j)') /\ (j # k => rows'[j] = rows[j])
    BY <1>15, <2>2 DEF RetryCreate, Exists, TypeOK
  <2>4. NoJobLost'
    BY <2>1, <2>3 DEF NoJobLost, TypeOK
  <2>5. CASE Exists(k)
    <3>1. \A p \in Operators, j \in Jobs :
              retry'[p] = <<"delete", j>> => retry[p] = <<"delete", j>>
      BY <1>15, <2>5 DEF RetryCreate, Idle, TypeOK
    <3> QED BY <2>1, <2>3, <3>1, NoLossFrame DEF Holds, TypeOK
  <2>6. CASE ~Exists(k)
    <3>1. retry' = [retry EXCEPT ![o] = <<"delete", k>>] /\ Exists(k)'
      BY <1>15, <2>2, <2>6 DEF RetryCreate, Exists, TypeOK
    <3>2. \A p \in Operators, j \in Jobs : retry'[p] = <<"delete", j>> =>
              retry[p] = <<"delete", j>> \/ (p = o /\ j = k)
      BY <3>1 DEF TypeOK
    <3>3. k \in pushed
      BY <1>15 DEF RetryCreate, KnownInv
    <3>4. k \notin succeeded \cup cleared =>
              /\ k \in failedRows
              /\ \A p \in Operators : retry[p] # <<"delete", k>>
              /\ \A w \in Workers : ~Holds(w, k)
      BY <1>a, <2>6, <3>3 DEF NoJobLost, RetryInv
    <3>5. RetryInv'
      BY <2>1, <2>3, <3>1, <3>2, <3>4 DEF RetryInv, Holds
    <3> QED BY <2>4, <3>5
  <2> QED BY <2>5, <2>6
<1>16. ASSUME NEW o \in Operators, NEW k \in Jobs, RetryDelete(o, k) PROVE Goal
  <2>1. UNCHANGED <<rows, pc, ticket, history>> /\ failedRows' = failedRows \ {k}
    BY <1>16 DEF RetryDelete
  <2>2. \A p \in Operators, j \in Jobs : retry'[p] = <<"delete", j>> =>
            retry[p] = <<"delete", j>> /\ p # o
    BY <1>16 DEF RetryDelete, Idle, TypeOK
  <2>3. k \notin succeeded \cup cleared =>
            /\ Exists(k)
            /\ \A p \in Operators : retry[p] = <<"delete", k>> => p = o
            /\ \A w \in Workers : ~(pc[w] = "delete" /\ Holds(w, k))
    BY <1>16 DEF RetryDelete, RetryInv
  <2>4. NoJobLost'
    BY <2>1, <2>3 DEF NoJobLost, Exists
  <2>5. RetryInv'
    BY <2>1, <2>2, <2>3 DEF RetryInv, Exists, Holds
  <2> QED BY <2>4, <2>5
<1>17. ASSUME Clear PROVE Goal
  <2>1. \A j \in Jobs \ (succeeded' \cup cleared') : ~Exists(j)
    BY <1>17 DEF Clear
  <2> QED BY <1>17, <2>1, NoLossFrame DEF Clear, Holds, TypeOK
<1>18. ASSUME NEW w \in Workers, CrashWorker(w) PROVE Goal
  BY <1>18, <1>b, NoLossFrame DEF CrashWorker, Crash, Exists, TypeOK
<1>19. ASSUME NEW r \in Reclaimers, CrashReclaimer(r) PROVE Goal
  BY <1>19, NoLossFrame DEF CrashReclaimer, Crash, Exists, Holds, TypeOK
<1>20. ASSUME NEW o \in Operators, CrashOperator(o) PROVE Goal
  <2>1. \A p \in Operators, j \in Jobs :
            retry'[p] = <<"delete", j>> => retry[p] = <<"delete", j>>
    BY <1>20 DEF CrashOperator, Idle, TypeOK
  <2> QED BY <1>20, <2>1, NoLossFrame DEF CrashOperator, Crash, Exists, Holds, TypeOK
<1>21. ASSUME Tick PROVE Goal
  <2>1. \A j \in Jobs : Exists(j) => Exists(j)'
    BY <1>21, AgedType DEF Tick, Exists, TypeOK
  <2> QED BY <1>21, <2>1, NoLossFrame DEF Tick, Holds, TypeOK
<1>22. ASSUME UNCHANGED vars PROVE Goal
  BY <1>22, NoLossFrame DEF vars, Exists, Holds, TypeOK
<1> QED
  BY <1>1, <1>2, <1>3, <1>4, <1>5, <1>6, <1>7, <1>8, <1>9, <1>10, <1>11,
     <1>12, <1>13, <1>14, <1>15, <1>16, <1>17, <1>18, <1>19, <1>20, <1>21, <1>22
  DEF Next, WorkerStep, ReclaimStep, RetryStep

-----------------------------------------------------------------------------
(* In a well configured deployment the inductive invariant always holds:   *)
(* tickets, reservations, stale rows, both tables and the two-statement    *)
(* fail and retry_failed stay consistent.                                  *)
THEOREM SafetyCorrect == WellConfigured => (Spec => []SafetyInv)
<1> SUFFICES ASSUME WellConfigured PROVE Spec => []SafetyInv
  OBVIOUS
<1> DEFINE I == TypeOK /\ SafetyInv
<1>1. Init => SafetyInv
  BY DEF Init, SafetyInv, TicketInv, HolderInv, StaleInv, KnownInv, RetryInv, OneRunner,
         NoJobLost, Exists, Holds, NoStale, Idle, Busy
<1>2. I /\ [Next]_vars => I'
  BY TypeStep, TicketStep, KnownStep, ReservationStep, NoLossStep DEF SafetyInv
<1>3. Init => TypeOK
  BY DEF Init, TypeOK, NoStale, Idle, Busy
<1> QED BY <1>1, <1>2, <1>3, PTL DEF Spec

(* In a well configured deployment no two workers work on the same job at  *)
(* the same time: the optimistic claim and the reservation deadline do     *)
(* what the module doc of database.rs says.                                *)
THEOREM OneRunnerCorrect == WellConfigured => (Spec => []OneRunner)
<1>1. SafetyInv => OneRunner
  BY DEF SafetyInv
<1> QED BY <1>1, SafetyCorrect, PTL

(* In a well configured deployment no crash between the statements of      *)
(* fail, release, acknowledge or retry_failed loses a job.                 *)
THEOREM NoJobLostCorrect == WellConfigured => (Spec => []NoJobLost)
<1>1. SafetyInv => NoJobLost
  BY DEF SafetyInv
<1> QED BY <1>1, SafetyCorrect, PTL

(* In a well configured deployment the attempt a worker decides by is the  *)
(* one its row counts.                                                     *)
THEOREM AttemptMatchesRowCorrect == WellConfigured => (Spec => []AttemptMatchesRow)
<1>1. SafetyInv => AttemptMatchesRow
  BY DEF SafetyInv, HolderInv, AttemptMatchesRow
<1> QED BY <1>1, SafetyCorrect, PTL

(* A step takes a live reservation away only if it is its holder's own.    *)
LEMMA GiveUpStep ==
    ASSUME TypeOK, SafetyInv, WellConfigured, [Next]_vars
    PROVE  OnlyHolderGivesUp
<1> SUFFICES ASSUME NEW j \in Jobs \ cleared',
                    Exists(j), rows[j].reserved, ~Lapsed(rows[j]),
                    \A w \in Workers : ~(Holds(w, j) /\ pc'[w] = "idle")
             PROVE  Exists(j)' /\ rows'[j].reserved
  BY DEF OnlyHolderGivesUp
<1> USE DEF tables, work, history, bounds
<1> DEFINE Goal == Exists(j)' /\ rows'[j].reserved
<1>0. ASSUME rows'[j] = rows[j] PROVE Goal
  BY <1>0 DEF Exists
<1>1. ASSUME NEW k \in Jobs, NEW delay \in Delays, Push(k, delay) PROVE Goal
  BY <1>0, <1>1 DEF Push, SafetyInv, KnownInv, TypeOK
<1>2. ASSUME NEW w \in Workers, NEW c \in candidates[w], ClaimWins(w, c) PROVE Goal
  <2>1. c.id # j /\ c.id \in Jobs
    BY <1>2 DEF ClaimWins, TypeOK, Ticket
  <2> QED BY <1>0, <1>2, <2>1 DEF ClaimWins, TypeOK
<1>3. ASSUME NEW w \in Workers, Acknowledge(w) \/ Release(w) \/ FailDelete(w) PROVE Goal
  <2>1. pc[w] \in Busy /\ pc'[w] = "idle"
    BY <1>3 DEF Acknowledge, Release, FailDelete, Drop, Busy, TypeOK
  <2>2. \A t \in ticket[w] : t.id # j
    BY <2>1 DEF Holds
  <2>3. rows'[j] = rows[j]
    BY <1>3, <2>2 DEF Acknowledge, Release, FailDelete
  <2> QED BY <1>0, <2>3
<1>4. ASSUME NEW r \in Reclaimers, NEW k \in Jobs, ReclaimUpdate(r, k) PROVE Goal
  <2>1. k # j
    BY <1>4 DEF ReclaimUpdate, SafetyInv, StaleInv
  <2> QED BY <1>0, <1>4, <2>1 DEF ReclaimUpdate, TypeOK
<1>5. ASSUME NEW o \in Operators, NEW k \in Jobs, RetryCreate(o, k) PROVE Goal
  BY <1>0, <1>5 DEF RetryCreate, TypeOK
<1>6. ASSUME Clear PROVE Goal
  BY <1>6 DEF Clear
<1>7. ASSUME Tick PROVE Goal
  BY <1>7, AgedType DEF Tick, Exists, TypeOK
<1>8. ASSUME UNCHANGED rows PROVE Goal
  BY <1>0, <1>8
<1> QED
  BY <1>1, <1>2, <1>3, <1>4, <1>5, <1>6, <1>7, <1>8
  DEF Next, vars, WorkerStep, ReclaimStep, RetryStep, Select, ClaimLoses, HandlerOk, HandlerErr,
      FailInsert, FailRefused, ReclaimSelect, RetryFind, RetryDelete, Crash, CrashWorker,
      CrashReclaimer, CrashOperator

(* In a well configured deployment nobody takes a reservation that has not *)
(* lapsed away from its holder, reclaim_expired included.                  *)
THEOREM LiveReservationCorrect == WellConfigured => (Spec => LiveReservationKept)
<1> SUFFICES ASSUME WellConfigured PROVE Spec => LiveReservationKept
  OBVIOUS
<1>1. TypeOK /\ SafetyInv /\ [Next]_vars => OnlyHolderGivesUp
  BY GiveUpStep
<1>2. Spec => []SafetyInv
  BY SafetyCorrect
<1> QED BY <1>1, <1>2, TypeCorrect, PTL DEF Spec, LiveReservationKept
-----------------------------------------------------------------------------
(* One worker, with one slot, serves the queue.                            *)
OneWorker == \A v, w \in Workers : v = w

(* Whoever has a job in view has seen it available: a reserved row, a row  *)
(* about to be written back and a candidate's row, if it is still there.   *)
AvailableInv ==
    /\ \A j \in Jobs : Exists(j) /\ rows[j].reserved => rows[j].availableIn = 0
    /\ \A r \in Reclaimers, j \in Jobs : stale[r][j] # NoRow => stale[r][j].availableIn = 0
    /\ \A w \in Workers : \A c \in candidates[w] :
         /\ pc[w] = "claiming"
         /\ c.id \in pushed
         /\ Exists(c.id) => rows[c.id].availableIn = 0

(* A row that is available stays so as it ages.                            *)
LEMMA AgedAvailable ==
    ASSUME NEW row \in Row, row.availableIn = 0
    PROVE  Aged(row).availableIn = 0
<1>1. row # NoRow
  BY ConstantsAssumption
<1> QED BY <1>1 DEF Aged, Row

(* Every step but a claim keeps what has been seen available so, when no   *)
(* worker can give a job back that another is about to claim.              *)
LEMMA AvailableStep ==
    ASSUME TypeOK, TypeOK', KnownInv, AvailableInv, OneWorker, [Next]_vars
    PROVE  AvailableInv'
<1> USE DEF AvailableInv, TypeOK, Exists, Ticket, tables, work, history, bounds
<1>1. ASSUME NEW k \in Jobs, NEW delay \in Delays, Push(k, delay) PROVE AvailableInv'
  <2>1. \A j \in Jobs : j # k => rows'[j] = rows[j]
    BY <1>1 DEF Push
  <2>2. ~rows'[k].reserved
    BY <1>1 DEF Push, NewRow
  <2>3. UNCHANGED <<stale, pc, candidates>> /\ k \notin pushed /\ pushed \subseteq pushed'
    BY <1>1 DEF Push
  <2> QED BY <2>1, <2>2, <2>3
<1>2. ASSUME NEW w \in Workers, Select(w) PROVE AvailableInv'
  <2>1. PICK ids \in SUBSET {j \in Jobs : Available(j)} :
            candidates' = [candidates EXCEPT ![w] =
               {[id |-> j, attempts |-> rows[j].attempts, max |-> rows[j].max] :
                   j \in ids}]
    BY <1>2 DEF Select
  <2>2. UNCHANGED <<rows, stale, pushed>> /\ pc' = [pc EXCEPT ![w] = "claiming"]
    BY <1>2 DEF Select
  <2>3. ASSUME NEW v \in Workers, NEW c \in candidates'[v]
        PROVE  /\ pc'[v] = "claiming"
               /\ c.id \in pushed
               /\ Exists(c.id) => rows[c.id].availableIn = 0
    <3>1. CASE v = w
      <4>1. c.id \in ids
        BY <2>1, <2>3, <3>1
      <4> QED BY <2>2, <3>1, <4>1 DEF Available, KnownInv
    <3>2. CASE v # w
      BY <2>1, <2>2, <2>3, <3>2
    <3> QED BY <3>1, <3>2
  <2> QED BY <2>2, <2>3
<1>3. ASSUME NEW w \in Workers, NEW c \in candidates[w], ClaimWins(w, c) PROVE AvailableInv'
  <2>1. /\ candidates' = [candidates EXCEPT ![w] = {}]
        /\ UNCHANGED <<stale, pushed>>
        /\ c.id \in Jobs /\ rows[c.id].availableIn = 0
    BY <1>3 DEF ClaimWins
  <2>2. \A v \in Workers : candidates'[v] = {}
    BY <2>1 DEF OneWorker
  <2>3. rows'[c.id].availableIn = 0
    BY <1>3, <2>1 DEF ClaimWins, Reserve
  <2>4. \A j \in Jobs : j # c.id => rows'[j] = rows[j]
    BY <1>3 DEF ClaimWins
  <2> QED BY <2>1, <2>2, <2>3, <2>4
<1>4. ASSUME NEW w \in Workers, NEW c \in candidates[w], ClaimLoses(w, c) PROVE AvailableInv'
  <2>1. \A v \in Workers : \A d \in candidates'[v] : d \in candidates[v] /\ pc'[v] = "claiming"
    BY <1>4 DEF ClaimLoses
  <2> QED BY <1>4, <2>1 DEF ClaimLoses
<1>5. ASSUME NEW w \in Workers, pc[w] # "claiming", UNCHANGED <<rows, candidates, stale, pushed>>,
             \A v \in Workers : v # w => pc'[v] = pc[v]
      PROVE  AvailableInv'
  BY <1>5
<1>6. ASSUME NEW w \in Workers, Drop(w), UNCHANGED <<stale, pushed>>,
             \A j \in Jobs : Exists(j)' /\ rows'[j].reserved => rows'[j] = rows[j]
      PROVE  AvailableInv'
  <2>1. \A v \in Workers : candidates'[v] = {}
    BY <1>6 DEF Drop, OneWorker
  <2> QED BY <1>6, <2>1
<1>7. ASSUME NEW w \in Workers, HandlerOk(w) \/ HandlerErr(w) \/ FailInsert(w) PROVE AvailableInv'
  BY <1>5, <1>7 DEF HandlerOk, HandlerErr, FailInsert
<1>8. ASSUME NEW w \in Workers, Acknowledge(w) \/ FailDelete(w) PROVE AvailableInv'
  BY <1>6, <1>8 DEF Acknowledge, FailDelete
<1>9. ASSUME NEW w \in Workers, Release(w) PROVE AvailableInv'
  <2>1. \A j \in Jobs : Exists(j)' /\ rows'[j].reserved => rows'[j] = rows[j]
    BY <1>9 DEF Release, Unreserve
  <2> QED BY <1>6, <1>9, <2>1 DEF Release
<1>10. ASSUME NEW w \in Workers, FailRefused(w) \/ CrashWorker(w) PROVE AvailableInv'
  BY <1>6, <1>10 DEF FailRefused, CrashWorker, Crash
<1>11. ASSUME NEW r \in Reclaimers, ReclaimSelect(r) PROVE AvailableInv'
  <2>1. \A s \in Reclaimers, j \in Jobs : stale'[s][j] # NoRow =>
            stale'[s][j] = stale[s][j] \/ (Exists(j) /\ rows[j].reserved /\ stale'[s][j] = rows[j])
    BY <1>11 DEF ReclaimSelect, Lapsed
  <2> QED BY <1>11, <2>1 DEF ReclaimSelect
<1>12. ASSUME NEW r \in Reclaimers, NEW k \in Jobs, ReclaimUpdate(r, k) PROVE AvailableInv'
  <2>1. \A j \in Jobs : j # k => rows'[j] = rows[j]
    BY <1>12 DEF ReclaimUpdate
  <2>2. rows'[k] # NoRow => Exists(k) /\ rows'[k].availableIn = 0
    BY <1>12 DEF ReclaimUpdate, Unreserve
  <2>3. \A s \in Reclaimers, j \in Jobs : stale'[s][j] # NoRow => stale'[s][j] = stale[s][j]
    BY <1>12 DEF ReclaimUpdate
  <2>4. UNCHANGED <<pc, candidates, pushed>>
    BY <1>12 DEF ReclaimUpdate
  <2>5. \A j \in Jobs : Exists(j)' => rows'[j] = rows[j] \/ rows'[j].availableIn = 0
    BY <2>1, <2>2
  <2>6. \A j \in Jobs : Exists(j)' => Exists(j)
    BY <2>1, <2>2
  <2>7. \A w \in Workers : \A c \in candidates'[w] :
           /\ pc'[w] = "claiming"
           /\ c.id \in pushed'
           /\ Exists(c.id)' => rows'[c.id].availableIn = 0
    BY <2>4, <2>5, <2>6
  <2>8. \A j \in Jobs : Exists(j)' /\ rows'[j].reserved => rows'[j].availableIn = 0
    BY <2>5, <2>6
  <2>9. \A s \in Reclaimers, j \in Jobs : stale'[s][j] # NoRow => stale'[s][j].availableIn = 0
    BY <2>3
  <2> QED BY <2>7, <2>8, <2>9
<1>13. ASSUME NEW o \in Operators, NEW k \in Jobs, RetryCreate(o, k) PROVE AvailableInv'
  <2>1. \A j \in Jobs : rows'[j] = rows[j] \/ rows'[j].availableIn = 0
    BY <1>13 DEF RetryCreate, NewRow
  <2> QED BY <1>13, <2>1 DEF RetryCreate
<1>14. ASSUME Clear PROVE AvailableInv'
  BY <1>14 DEF Clear
<1>15. ASSUME NEW r \in Reclaimers, CrashReclaimer(r) PROVE AvailableInv'
  BY <1>15 DEF CrashReclaimer, Crash, NoStale
<1>16. ASSUME Tick PROVE AvailableInv'
  <2>1. UNCHANGED <<pc, candidates, pushed>>
    BY <1>16 DEF Tick
  <2>2. \A j \in Jobs : Exists(j)' =>
            /\ Exists(j)
            /\ rows'[j].reserved = rows[j].reserved
            /\ rows[j].availableIn = 0 => rows'[j].availableIn = 0
    BY <1>16, AgedType, AgedAvailable DEF Tick
  <2>3. \A r \in Reclaimers, j \in Jobs : stale'[r][j] # NoRow =>
            /\ stale[r][j] # NoRow
            /\ stale[r][j].availableIn = 0 => stale'[r][j].availableIn = 0
    BY <1>16, AgedType, AgedAvailable DEF Tick
  <2> QED BY <2>1, <2>2, <2>3
<1>17. ASSUME UNCHANGED <<rows, pc, candidates, stale, pushed>> PROVE AvailableInv'
  BY <1>17
<1> QED
  BY <1>1, <1>2, <1>3, <1>4, <1>7, <1>8, <1>9, <1>10, <1>11, <1>12, <1>13, <1>14, <1>15,
     <1>16, <1>17
  DEF Next, vars, WorkerStep, ReclaimStep, RetryStep, RetryFind, RetryDelete, Crash, CrashOperator

(* With one worker no step reserves a row whose delay is not over.         *)
LEMMA DelayStep ==
    ASSUME TypeOK, AvailableInv, [Next]_vars,
           NEW j \in Jobs, Exists(j), ~rows[j].reserved, rows[j].availableIn > 0, Exists(j)'
    PROVE  ~rows'[j].reserved
<1> USE DEF TypeOK, Exists, Ticket, tables, work, history, bounds
<1>0. ASSUME rows'[j] = rows[j] PROVE ~rows'[j].reserved
  BY <1>0
<1>1. ASSUME NEW k \in Jobs, NEW delay \in Delays, Push(k, delay) PROVE ~rows'[j].reserved
  BY <1>1 DEF Push, NewRow
<1>2. ASSUME NEW w \in Workers, NEW c \in candidates[w], ClaimWins(w, c) PROVE ~rows'[j].reserved
  <2>1. c.id # j /\ c.id \in Jobs
    BY <1>2 DEF ClaimWins, AvailableInv
  <2> QED BY <1>0, <1>2, <2>1 DEF ClaimWins
<1>3. ASSUME NEW w \in Workers, Acknowledge(w) \/ Release(w) \/ FailDelete(w)
      PROVE  ~rows'[j].reserved
  BY <1>3 DEF Acknowledge, Release, FailDelete, Unreserve
<1>4. ASSUME NEW r \in Reclaimers, NEW k \in Jobs, ReclaimUpdate(r, k) PROVE ~rows'[j].reserved
  BY <1>4 DEF ReclaimUpdate, Unreserve
<1>5. ASSUME NEW o \in Operators, NEW k \in Jobs, RetryCreate(o, k) PROVE ~rows'[j].reserved
  BY <1>5 DEF RetryCreate, NewRow
<1>6. ASSUME Clear PROVE ~rows'[j].reserved
  BY <1>6 DEF Clear
<1>7. ASSUME Tick PROVE ~rows'[j].reserved
  BY <1>7, AgedType DEF Tick
<1>8. ASSUME UNCHANGED rows PROVE ~rows'[j].reserved
  BY <1>0, <1>8
<1> QED
  BY <1>1, <1>2, <1>3, <1>4, <1>5, <1>6, <1>7, <1>8
  DEF Next, vars, WorkerStep, ReclaimStep, RetryStep, Select, ClaimLoses, HandlerOk, HandlerErr,
      FailInsert, FailRefused, ReclaimSelect, RetryFind, RetryDelete, Crash, CrashWorker,
      CrashReclaimer, CrashOperator

(* With one worker no claim takes a row before its delay is over, however  *)
(* reclaim_expired calls overlap and whatever the timeouts: the claim that *)
(* does not look at available_at again goes wrong between workers only.    *)
THEOREM BackoffCorrect == OneWorker => (Spec => BackoffKept)
<1> SUFFICES ASSUME OneWorker PROVE Spec => BackoffKept
  OBVIOUS
<1> DEFINE I == TypeOK /\ KnownInv /\ AvailableInv
           Kept == \A j \in Jobs :
               Exists(j) /\ ~rows[j].reserved /\ rows[j].availableIn > 0 /\ Exists(j)'
                  => ~rows'[j].reserved
<1>1. Init => I
  BY DEF Init, TypeOK, KnownInv, AvailableInv, Exists, NoStale, Idle, Busy
<1>2. I /\ [Next]_vars => I'
  BY TypeStep, KnownStep, AvailableStep
<1>3. I /\ [Next]_vars => Kept
  BY DelayStep
<1>4. BackoffKept <=> [][Kept]_vars
  BY DEF BackoffKept
<1> HIDE DEF I, Kept
<1> QED BY <1>1, <1>2, <1>3, <1>4, PTL DEF Spec
-----------------------------------------------------------------------------
(* Whoever has a job in view knows the count of its row: a reclaimer that  *)
(* is about to write the row back, and a worker about to claim it.         *)
CountInv ==
    /\ cleared = {}
    /\ \A j \in Jobs : Exists(j) => rows[j].attempts <= AttemptsCap
    /\ \A r \in Reclaimers, j \in Jobs :
         stale[r][j] # NoRow => stale[r][j].attempts = rows[j].attempts
    /\ \A w \in Workers : \A c \in candidates[w] :
         /\ pc[w] = "claiming"
         /\ Exists(c.id) /\ ~rows[c.id].reserved /\ rows[c.id].attempts = c.attempts

(* What a step does to the counts, when it is not the step of the worker's *)
(* own reserve: it keeps them for every row that somebody has in view.     *)
LEMMA CountFrame ==
    ASSUME TypeOK, CountInv, UNCHANGED cleared,
           \A j \in Jobs : Exists(j)' => rows'[j].attempts <= AttemptsCap,
           \A r \in Reclaimers, j \in Jobs : stale'[r][j] # NoRow =>
               stale'[r][j].attempts = rows'[j].attempts,
           \A w \in Workers : candidates'[w] # {} =>
               /\ pc'[w] = pc[w] /\ candidates'[w] = candidates[w]
               /\ \A c \in candidates[w] :
                    Exists(c.id)' /\ ~rows'[c.id].reserved /\ rows'[c.id].attempts = rows[c.id].attempts
    PROVE  CountInv'
BY DEF CountInv

(* One more attempt is not fewer, up to the cap, and stays within it.      *)
LEMMA CountedUp ==
    ASSUME NEW n \in Nat, n <= AttemptsCap
    PROVE  Counted(n) >= n /\ Counted(n) <= AttemptsCap
BY ConstantsAssumption DEF Counted

(* The counts in view stay true, and no step lowers one: with one worker,  *)
(* nobody else claims what is selected, and what a reclaimer selected is   *)
(* still lapsed.                                                           *)
LEMMA CountStep ==
    ASSUME TypeOK, TypeOK', SafetyInv, CountInv, OneWorker, WellConfigured, MaxClears = 0, [Next]_vars
    PROVE  /\ CountInv'
           /\ \A j \in Jobs : Exists(j) /\ Exists(j)' => rows'[j].attempts >= rows[j].attempts
<1> DEFINE Goal == /\ CountInv'
                   /\ \A j \in Jobs : Exists(j) /\ Exists(j)' => rows'[j].attempts >= rows[j].attempts
<1> USE DEF tables, work, history, bounds
<1>a. \A j \in Jobs : Exists(j) => rows[j].attempts \in Nat /\ rows[j].attempts <= AttemptsCap
  BY DEF CountInv, TypeOK, Exists, Row
<1>b. \A r \in Reclaimers, j \in Jobs : stale[r][j] # NoRow =>
         Exists(j) /\ rows[j].reserved /\ stale[r][j].attempts = rows[j].attempts
  BY DEF CountInv, SafetyInv, StaleInv, Lapsed
<1>c. \A w \in Workers : \A c \in candidates[w] :
         c.id \in Jobs /\ Exists(c.id) /\ ~rows[c.id].reserved
  BY DEF CountInv, TypeOK, Ticket
<1>d. \A w \in Workers, j \in Jobs : Holds(w, j) => \A r \in Reclaimers : stale[r][j] = NoRow
  BY HeldNotStale DEF CountInv, SafetyInv
<1>e. \A n \in Nat : n >= n
  OBVIOUS
<1>0. ASSUME UNCHANGED <<rows, cleared>>,
             \A r \in Reclaimers, j \in Jobs : stale'[r][j] # NoRow => stale'[r][j] = stale[r][j],
             \A w \in Workers : candidates'[w] # {} =>
                 pc'[w] = pc[w] /\ candidates'[w] = candidates[w]
      PROVE  Goal
  <2>1. CountInv'
    BY <1>0, <1>a, <1>b, <1>c, CountFrame DEF Exists
  <2>2. \A j \in Jobs : Exists(j) => rows'[j].attempts >= rows[j].attempts
    BY <1>0, <1>a, <1>e
  <2> QED BY <2>1, <2>2
<1>1. ASSUME NEW k \in Jobs, NEW delay \in Delays, Push(k, delay) PROVE Goal
  <2>1. ~Exists(k)
    BY <1>1 DEF Push, SafetyInv, KnownInv
  <2>2. \A j \in Jobs : j # k => rows'[j] = rows[j]
    BY <1>1 DEF Push, TypeOK
  <2>3. UNCHANGED <<pc, candidates, stale, cleared>>
    BY <1>1 DEF Push
  <2>4. rows'[k].attempts = 0
    BY <1>1 DEF Push, NewRow, TypeOK
  <2>5. \A j \in Jobs : Exists(j)' => rows'[j].attempts <= AttemptsCap
    BY <1>a, <2>2, <2>4, ConstantsAssumption DEF Exists
  <2>6. CountInv'
    BY <1>b, <1>c, <2>1, <2>2, <2>3, <2>5, CountFrame DEF Exists
  <2>7. \A j \in Jobs : Exists(j) => rows'[j].attempts >= rows[j].attempts
    BY <1>a, <1>e, <2>1, <2>2
  <2> QED BY <2>6, <2>7
<1>2. ASSUME NEW w \in Workers, Select(w) PROVE Goal
  <2>1. PICK ids \in SUBSET {j \in Jobs : Available(j)} :
            candidates' = [candidates EXCEPT ![w] =
               {[id |-> j, attempts |-> rows[j].attempts, max |-> rows[j].max] :
                   j \in ids}]
    BY <1>2 DEF Select
  <2>2. UNCHANGED <<rows, stale, cleared>> /\ pc' = [pc EXCEPT ![w] = "claiming"]
    BY <1>2 DEF Select
  <2>3. ASSUME NEW v \in Workers, NEW c \in candidates'[v]
        PROVE  /\ pc'[v] = "claiming"
               /\ Exists(c.id) /\ ~rows[c.id].reserved /\ rows[c.id].attempts = c.attempts
    <3>1. v = w /\ pc'[v] = "claiming"
      BY <2>2 DEF OneWorker, TypeOK
    <3>2. c.id \in ids /\ c.attempts = rows[c.id].attempts
      BY <2>1, <2>3, <3>1 DEF TypeOK
    <3> QED BY <3>1, <3>2 DEF Available
  <2>4. CountInv'
    BY <2>2, <2>3 DEF CountInv, Exists
  <2>5. \A j \in Jobs : Exists(j) => rows'[j].attempts >= rows[j].attempts
    BY <1>a, <1>e, <2>2
  <2> QED BY <2>4, <2>5
<1>3. ASSUME NEW w \in Workers, NEW c \in candidates[w], ClaimWins(w, c) PROVE Goal
  <2> DEFINE k == c.id
             n == Counted(rows[k].attempts)
  <2>1. k \in Jobs /\ Exists(k) /\ ~rows[k].reserved /\ c.attempts = rows[k].attempts
    BY <1>c DEF CountInv
  <2>2. n >= rows[k].attempts /\ n <= AttemptsCap
    BY <1>a, <2>1, CountedUp
  <2>3. rows'[k].attempts = n
    BY <1>3, <2>1 DEF ClaimWins, Reserve, TypeOK
  <2>4. \A j \in Jobs : j # k => rows'[j] = rows[j]
    BY <1>3 DEF ClaimWins, TypeOK
  <2>5. UNCHANGED <<stale, cleared>> /\ \A v \in Workers : candidates'[v] = {}
    BY <1>3 DEF ClaimWins, OneWorker, TypeOK
  <2> HIDE DEF k, n
  <2>6. \A j \in Jobs : Exists(j)' => rows'[j].attempts <= AttemptsCap
    BY <1>a, <2>2, <2>3, <2>4 DEF Exists
  <2>7. \A r \in Reclaimers, j \in Jobs : stale'[r][j] # NoRow =>
            stale'[r][j].attempts = rows'[j].attempts
    BY <1>b, <2>1, <2>4, <2>5
  <2>8. CountInv'
    BY <2>5, <2>6, <2>7, CountFrame
  <2>9. \A j \in Jobs : Exists(j) => rows'[j].attempts >= rows[j].attempts
    BY <1>a, <1>e, <2>2, <2>3, <2>4
  <2> QED BY <2>8, <2>9
<1>4. ASSUME NEW w \in Workers, NEW c \in candidates[w], ClaimLoses(w, c) PROVE Goal
  <2>1. FALSE
    BY <1>4, <1>c DEF ClaimLoses
  <2> QED BY <2>1
<1>5. ASSUME NEW w \in Workers, HandlerOk(w) \/ HandlerErr(w) \/ FailInsert(w) PROVE Goal
  <2>1. candidates[w] = {} /\ UNCHANGED candidates
    BY <1>5 DEF HandlerOk, HandlerErr, FailInsert, CountInv
  <2>2. \A v \in Workers : v # w => pc'[v] = pc[v]
    BY <1>5 DEF HandlerOk, HandlerErr, FailInsert, TypeOK
  <2> QED BY <1>0, <1>5, <2>1, <2>2 DEF HandlerOk, HandlerErr, FailInsert
<1>6. ASSUME NEW w \in Workers, Drop(w), UNCHANGED <<stale, cleared>>,
             \A j \in Jobs : Exists(j)' => Exists(j) /\ rows'[j].attempts = rows[j].attempts,
             \A j \in Jobs : Holds(w, j) \/ rows'[j] = rows[j]
      PROVE  Goal
  <2>1. \A v \in Workers : candidates'[v] = {}
    BY <1>6 DEF Drop, OneWorker, TypeOK
  <2>2. \A j \in Jobs : Exists(j)' => rows'[j].attempts <= AttemptsCap
    BY <1>6, <1>a
  <2>3. \A r \in Reclaimers, j \in Jobs : stale'[r][j] # NoRow =>
            stale'[r][j].attempts = rows'[j].attempts
    BY <1>6, <1>b, <1>d
  <2>4. CountInv'
    BY <1>6, <2>1, <2>2, <2>3, CountFrame
  <2>5. \A j \in Jobs : Exists(j)' => rows'[j].attempts >= rows[j].attempts
    BY <1>6, <1>a, <1>e
  <2> QED BY <2>4, <2>5
<1>7. ASSUME NEW w \in Workers, Acknowledge(w) \/ FailDelete(w) PROVE Goal
  <2>1. \A j \in Jobs : rows'[j] = IF \E t \in ticket[w] : t.id = j THEN NoRow ELSE rows[j]
    BY <1>7 DEF Acknowledge, FailDelete
  <2>2. pc[w] \in Busy /\ Drop(w) /\ UNCHANGED <<stale, cleared>>
    BY <1>7 DEF Acknowledge, FailDelete, Busy
  <2> QED BY <1>6, <2>1, <2>2 DEF Exists, Holds
<1>8. ASSUME NEW w \in Workers, Release(w) PROVE Goal
  <2>1. \A j \in Jobs : rows'[j] = IF Exists(j) /\ \E t \in ticket[w] : t.id = j
                                     THEN Unreserve(rows[j], Backoff) ELSE rows[j]
    BY <1>8 DEF Release
  <2>2. pc[w] \in Busy /\ Drop(w) /\ UNCHANGED <<stale, cleared>>
    BY <1>8 DEF Release, Busy
  <2>3. \A j \in Jobs : Exists(j)' => Exists(j) /\ rows'[j].attempts = rows[j].attempts
    <3>1. \A j \in Jobs : Unreserve(rows[j], Backoff).attempts = rows[j].attempts
      BY DEF Unreserve
    <3>2. \A j \in Jobs : rows'[j] = rows[j] \/ (Exists(j) /\ rows'[j] = Unreserve(rows[j], Backoff))
      BY <2>1
    <3> QED BY <3>1, <3>2 DEF Exists
  <2> QED BY <1>6, <2>1, <2>2, <2>3 DEF Holds
<1>9. ASSUME NEW w \in Workers, FailRefused(w) \/ CrashWorker(w) PROVE Goal
  BY <1>6, <1>9 DEF FailRefused, CrashWorker, Crash, Exists
<1>10. ASSUME NEW r \in Reclaimers, ReclaimSelect(r) PROVE Goal
  <2>1. UNCHANGED <<rows, pc, candidates, cleared>>
    BY <1>10 DEF ReclaimSelect
  <2>2. \A s \in Reclaimers, j \in Jobs : stale'[s][j] # NoRow =>
            stale'[s][j] = stale[s][j] \/ stale'[s][j] = rows[j]
    BY <1>10 DEF ReclaimSelect, TypeOK
  <2>3. CountInv'
    BY <1>a, <1>b, <1>c, <2>1, <2>2, CountFrame DEF Exists
  <2>4. \A j \in Jobs : Exists(j) => rows'[j].attempts >= rows[j].attempts
    BY <1>a, <1>e, <2>1
  <2> QED BY <2>3, <2>4
<1>11. ASSUME NEW r \in Reclaimers, NEW k \in Jobs, ReclaimUpdate(r, k) PROVE Goal
  <2>1. Exists(k) /\ rows[k].reserved /\ stale[r][k].attempts = rows[k].attempts
    BY <1>11, <1>b DEF ReclaimUpdate
  <2>2. rows'[k].attempts = rows[k].attempts
    BY <1>11, <2>1 DEF ReclaimUpdate, Unreserve, TypeOK
  <2>3. \A j \in Jobs : j # k => rows'[j] = rows[j]
    BY <1>11 DEF ReclaimUpdate, TypeOK
  <2>4. \A s \in Reclaimers, j \in Jobs : stale'[s][j] # NoRow => stale'[s][j] = stale[s][j]
    BY <1>11 DEF ReclaimUpdate, TypeOK
  <2>5. UNCHANGED <<pc, candidates, cleared>>
    BY <1>11 DEF ReclaimUpdate
  <2>6. \A j \in Jobs : Exists(j)' => Exists(j) /\ rows'[j].attempts = rows[j].attempts
    BY <2>1, <2>2, <2>3 DEF Exists
  <2>7. \A j \in Jobs : Exists(j)' => rows'[j].attempts <= AttemptsCap
    BY <1>a, <2>6
  <2>8. \A s \in Reclaimers, j \in Jobs : stale'[s][j] # NoRow =>
            stale'[s][j].attempts = rows'[j].attempts
    BY <1>b, <2>2, <2>3, <2>4
  <2>9. \A w \in Workers : \A c \in candidates[w] : rows'[c.id] = rows[c.id]
    BY <1>c, <2>1, <2>3
  <2>10. CountInv'
    BY <1>c, <2>5, <2>7, <2>8, <2>9, CountFrame DEF Exists
  <2>11. \A j \in Jobs : Exists(j)' => rows'[j].attempts >= rows[j].attempts
    BY <1>a, <1>e, <2>6
  <2> QED BY <2>10, <2>11
<1>12. ASSUME NEW o \in Operators, NEW k \in Jobs, RetryCreate(o, k) PROVE Goal
  <2>1. UNCHANGED <<pc, candidates, stale, cleared>>
    BY <1>12 DEF RetryCreate
  <2>2. \A j \in Jobs : rows'[j] = rows[j] \/ (~Exists(j) /\ rows'[j].attempts = 0)
    BY <1>12 DEF RetryCreate, NewRow, TypeOK
  <2>3. \A j \in Jobs : Exists(j)' => rows'[j].attempts <= AttemptsCap
    BY <1>a, <2>2, ConstantsAssumption DEF Exists
  <2>4. CountInv'
    BY <1>b, <1>c, <2>1, <2>2, <2>3, CountFrame DEF Exists
  <2>5. \A j \in Jobs : Exists(j) => rows'[j].attempts >= rows[j].attempts
    BY <1>a, <1>e, <2>2
  <2> QED BY <2>4, <2>5
<1>13. ASSUME Clear PROVE Goal
  BY <1>13 DEF Clear, TypeOK
<1>14. ASSUME NEW r \in Reclaimers, CrashReclaimer(r) PROVE Goal
  <2>1. \A s \in Reclaimers, j \in Jobs : stale'[s][j] # NoRow => stale'[s][j] = stale[s][j]
    BY <1>14 DEF CrashReclaimer, NoStale, TypeOK
  <2> QED BY <1>0, <1>14, <2>1 DEF CrashReclaimer, Crash
<1>15. ASSUME Tick PROVE Goal
  <2>1. UNCHANGED <<pc, candidates, cleared>>
    BY <1>15 DEF Tick
  <2>2. \A j \in Jobs : /\ Exists(j)' <=> Exists(j)
                        /\ Exists(j) => /\ rows'[j].attempts = rows[j].attempts
                                        /\ rows'[j].reserved = rows[j].reserved
    BY <1>15, AgedType DEF Tick, TypeOK, Exists
  <2>3. \A r \in Reclaimers, j \in Jobs : stale'[r][j] # NoRow =>
            stale[r][j] # NoRow /\ stale'[r][j].attempts = stale[r][j].attempts
    BY <1>15, AgedType DEF Tick, TypeOK
  <2>4. \A j \in Jobs : Exists(j)' => rows'[j].attempts <= AttemptsCap
    BY <1>a, <2>2
  <2>5. \A r \in Reclaimers, j \in Jobs : stale'[r][j] # NoRow =>
            stale'[r][j].attempts = rows'[j].attempts
    BY <1>b, <2>2, <2>3
  <2>6. CountInv'
    BY <1>c, <2>1, <2>2, <2>4, <2>5, CountFrame
  <2>7. \A j \in Jobs : Exists(j) => rows'[j].attempts >= rows[j].attempts
    BY <1>a, <1>e, <2>2
  <2> QED BY <2>6, <2>7
<1>16. ASSUME UNCHANGED <<rows, pc, candidates, stale, cleared>> PROVE Goal
  BY <1>0, <1>16
<1> QED
  BY <1>1, <1>2, <1>3, <1>4, <1>5, <1>7, <1>8, <1>9, <1>10, <1>11, <1>12, <1>13, <1>14,
     <1>15, <1>16
  DEF Next, vars, WorkerStep, ReclaimStep, RetryStep, RetryFind, RetryDelete, Crash, CrashOperator

(* In a well configured deployment with one worker, where nobody clears    *)
(* the queue, no step takes an attempt back: what claim and                *)
(* reclaim_expired write from rows they read earlier is never out of date. *)
THEOREM AttemptsKeptCorrect ==
    WellConfigured /\ OneWorker /\ MaxClears = 0 => (Spec => AttemptsNeverForgotten)
<1> SUFFICES ASSUME WellConfigured, OneWorker, MaxClears = 0
             PROVE  Spec => AttemptsNeverForgotten
  OBVIOUS
<1> DEFINE Kept == \A j \in Jobs :
               Exists(j) /\ Exists(j)' => rows'[j].attempts >= rows[j].attempts
<1>1. Init => CountInv
  BY DEF Init, CountInv, Exists, NoStale
<1>2. TypeOK /\ TypeOK' /\ SafetyInv /\ CountInv /\ [Next]_vars => CountInv' /\ Kept
  BY CountStep
<1>3. Spec => []SafetyInv
  BY SafetyCorrect
<1>4. AttemptsNeverForgotten <=> [][Kept]_vars
  BY DEF AttemptsNeverForgotten
<1> HIDE DEF Kept
<1> QED BY <1>1, <1>2, <1>3, <1>4, TypeCorrect, PTL DEF Spec
=============================================================================
