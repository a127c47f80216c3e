--------------------------- MODULE MigratorProofs ---------------------------
(* Proofs about the migrator, for any number of steps, statements,         *)
(* machines and commands cut short: what the ledger says is applied, and   *)
(* in order.                                                               *)
EXTENDS Migrator, WellFoundedInduction, FiniteSetTheorems, TLAPS

-----------------------------------------------------------------------------
(* A set of numbers has a least one, and a greatest if it is bounded.      *)
LEMMA NatLeast ==
    ASSUME NEW T \in SUBSET Nat, T # {}
    PROVE  \E x \in T : \A y \in T : x <= y
<1> DEFINE Less == {ss \in Nat \X Nat : ss[1] < ss[2]}
<1>1. IsWellFoundedOn(Less, Nat)
  BY NatLessThanWellFounded DEF OpToRel
<1>2. PICK x \in T : \A y \in T : ~(<<y, x>> \in Less)
  <2> HIDE DEF Less
  <2> QED BY <1>1, WFMin
<1>3. \A y \in T : ~(y < x)
  BY <1>2
<1> QED BY <1>3

LEMMA NatGreatest ==
    ASSUME NEW T \in SUBSET Nat, T # {}, NEW b \in Nat, \A y \in T : y <= b
    PROVE  \E x \in T : \A y \in T : y <= x
<1> DEFINE B == {x \in Nat : \A y \in T : y <= x}
<1>1. B # {}
  OBVIOUS
<1>2. PICK x \in B : \A y \in B : x <= y
  BY <1>1, NatLeast
<1>3. CASE x \in T
  BY <1>3
<1>4. CASE x \notin T
  <2>1. \A y \in T : y < x
    BY <1>4
  <2>2. PICK y \in T : TRUE
    OBVIOUS
  <2>3. x - 1 \in Nat
    BY <2>1, <2>2
  <2>4. \A z \in T : z <= x - 1
    BY <2>1, <2>3
  <2> QED BY <2>3, <2>4, <1>2
<1> QED BY <1>3, <1>4

-----------------------------------------------------------------------------
Bounded(rows) == \E b \in Nat : \A n \in Names : rows[n] <= b

(* The next batch is above every batch of the ledger it was read from.     *)
LEMMA NextBatchAbove ==
    ASSUME NEW rows \in [Names -> Nat], Bounded(rows)
    PROVE  /\ NextBatch(rows) \in Nat /\ NextBatch(rows) > 0
           /\ \A n \in Names : rows[n] < NextBatch(rows)
<1> DEFINE T == {0} \cup {rows[n] : n \in Names}
<1>1. PICK b \in Nat : \A n \in Names : rows[n] <= b
  BY DEF Bounded
<1>2. T \in SUBSET Nat /\ T # {} /\ \A y \in T : y <= b
  BY <1>1
<1>3. PICK x \in T : \A y \in T : y <= x
  BY <1>2, NatGreatest
<1>4. \A n \in Names : rows[n] <= x
  BY <1>3
<1> DEFINE largest == CHOOSE y \in T : \A n \in Names : rows[n] <= y
<1>5. largest \in T /\ \A n \in Names : rows[n] <= largest
  BY <1>4
<1>6. NextBatch(rows) = 1 + largest
  BY DEF NextBatch
<1> HIDE DEF largest
<1> QED BY <1>2, <1>5, <1>6

(* run comes to the least of the steps it has left.                        *)
LEMMA InHandOfRun ==
    ASSUME NEW c \in Command, c.kind = "run", c.todo # {}
    PROVE  InHand(c) \in c.todo /\ \A k \in c.todo : InHand(c) <= k
<1>1. c.todo \in SUBSET Nat
  BY ConstantsAssumption DEF Command, Steps
<1>2. PICK n \in c.todo : \A k \in c.todo : n <= k
  BY <1>1, NatLeast
<1> QED BY <1>2 DEF InHand

(* rollback comes to the last step of the last batch it has left.          *)
LEMMA InHandOfRollback ==
    ASSUME NEW c \in Command, c.kind = "rollback", c.todo # {}, Bounded(c.seen)
    PROVE  /\ InHand(c) \in c.todo
           /\ \A k \in c.todo :
                 \/ c.seen[k] < c.seen[InHand(c)]
                 \/ c.seen[k] = c.seen[InHand(c)] /\ k <= InHand(c)
<1>1. c.todo \in SUBSET Nat /\ StepCount \in Nat /\ (\A k \in c.todo : k <= StepCount)
      /\ c.todo \subseteq Names /\ c.seen \in [Names -> Nat]
  BY ConstantsAssumption DEF Command, Steps, Names
<1> DEFINE T == {c.seen[k] : k \in c.todo}
<1>2. PICK b \in Nat : \A n \in Names : c.seen[n] <= b
  BY DEF Bounded
<1>3. T \in SUBSET Nat /\ T # {} /\ \A y \in T : y <= b
  BY <1>1, <1>2
<1>4. PICK x \in T : \A y \in T : y <= x
  BY <1>3, NatGreatest
<1> DEFINE U == {k \in c.todo : c.seen[k] = x}
<1>5. U \in SUBSET Nat /\ U # {} /\ \A y \in U : y <= StepCount
  BY <1>1, <1>4
<1>6. PICK n \in U : \A k \in U : k <= n
  BY <1>1, <1>5, NatGreatest
<1>7. \A k \in c.todo : c.seen[k] < c.seen[n] \/ (c.seen[k] = c.seen[n] /\ k <= n)
  BY <1>1, <1>4, <1>6
<1>8. n \in c.todo
  BY <1>6
<1> HIDE DEF T, U
<1> QED BY <1>7, <1>8 DEF InHand

(* Whatever a command is, its step in hand is one it has left.             *)
LEMMA InHandLeft ==
    ASSUME NEW c \in Command, c.todo # {}, Bounded(c.seen)
    PROVE  InHand(c) \in c.todo /\ InHand(c) \in Steps
<1>1. c.kind \in {"run", "rollback"} /\ c.todo \subseteq Steps
  BY DEF Command
<1> QED BY <1>1, InHandOfRun, InHandOfRollback

(* On to the next step: the same command with one step less.               *)
LEMMA OnwardCommand ==
    ASSUME NEW c \in Command, InHand(c) \in c.todo, Onward(c) # Idle
    PROVE  /\ Onward(c) \in Command
           /\ Onward(c).kind = c.kind /\ Onward(c).seen = c.seen
           /\ Onward(c).todo = c.todo \ {InHand(c)} /\ Onward(c).todo # {}
           /\ Onward(c).done = 0
<1>1. Onward(c) = [c EXCEPT !.todo = @ \ {InHand(c)}, !.done = 0] /\ c.todo # {InHand(c)}
  BY DEF Onward
<1>2. StatementCount \in Nat
  BY ConstantsAssumption
<1>3. c.todo \ {InHand(c)} # {}
  BY <1>1
<1> DEFINE d == [c EXCEPT !.todo = @ \ {InHand(c)}, !.done = 0]
<1>4. /\ d \in Command /\ d.kind = c.kind /\ d.seen = c.seen
      /\ d.todo = c.todo \ {InHand(c)} /\ d.done = 0
  <2>1. c.todo \ {InHand(c)} \in SUBSET Steps /\ 0 \in 0 .. StatementCount
    BY <1>2 DEF Command
  <2> QED BY <2>1 DEF Command
<1> HIDE DEF d
<1>5. Onward(c) = d
  BY <1>1 DEF d
<1> QED BY <1>3, <1>4, <1>5

-----------------------------------------------------------------------------
(* Types, and what keeps the step in hand and the next batch defined.      *)
TypeInv ==
    /\ TypeOK
    /\ Bounded(ledger)
    /\ \A m \in Machines : command[m] # Idle => command[m].todo # {} /\ Bounded(command[m].seen)

(* A command that goes on keeps its type.                                  *)
LEMMA TypeStep == TypeInv /\ [Next]_vars => TypeInv'
<1> SUFFICES ASSUME TypeInv, [Next]_vars PROVE TypeInv'
  OBVIOUS
<1>0. /\ StepCount \in Nat /\ StatementCount \in Nat /\ StatementCount > 0
      /\ MaxCuts \in Nat /\ MaxRollbacks \in Nat /\ Steps \subseteq Names /\ Idle \notin Command
  BY ConstantsAssumption DEF Names
<1>1. \A m \in Machines : command[m] # Idle => command[m] \in Command
  BY DEF TypeInv, TypeOK
<1>2. \A m \in Machines : command[m] # Idle =>
          InHand(command[m]) \in command[m].todo /\ InHand(command[m]) \in Steps
  BY <1>1, InHandLeft DEF TypeInv
<1>3. ASSUME NEW m \in Machines, NEW c, c = Idle \/ (c \in Command /\ c.todo # {} /\ Bounded(c.seen)),
             command' = [command EXCEPT ![m] = c]
      PROVE  /\ command' \in [Machines -> Command \cup {Idle}]
             /\ \A o \in Machines : command'[o] # Idle => command'[o].todo # {} /\ Bounded(command'[o].seen)
  BY <1>3 DEF TypeInv, TypeOK
<1>4. ASSUME NEW m \in Machines, Run(m) PROVE TypeInv'
  <2> DEFINE c == [kind |-> "run", seen |-> ledger, todo |-> Steps \ Recorded, done |-> 0]
  <2>1. c \in Command /\ c.todo # {} /\ Bounded(c.seen)
    BY <1>0, <1>4 DEF Run, Command, TypeInv, TypeOK
  <2> QED BY <1>3, <1>4, <2>1 DEF Run, TypeInv, TypeOK
<1>5. ASSUME NEW m \in Machines, NEW batches \in Batches, Rollback(m, batches) PROVE TypeInv'
  <2> DEFINE c == [kind |-> "rollback", seen |-> ledger, todo |-> RollbackTargets(batches), done |-> 0]
  <2>1. c \in Command /\ c.todo # {} /\ Bounded(c.seen)
    BY <1>0, <1>5 DEF Rollback, Command, TypeInv, TypeOK
  <2>2. rollbacks' \in 0 .. MaxRollbacks
    BY <1>0, <1>5 DEF Rollback, TypeInv, TypeOK
  <2>3. UNCHANGED <<schema, ledger, cuts, torn>> /\ command' = [command EXCEPT ![m] = c]
    BY <1>5 DEF Rollback
  <2> QED BY <1>3, <2>1, <2>2, <2>3 DEF TypeInv, TypeOK
<1>6. ASSUME NEW m \in Machines, command[m] # Idle, Ended(m), UNCHANGED <<schema, ledger, rollbacks>>, cuts' \in 0 .. MaxCuts
      PROVE  TypeInv'
  <2>1. torn' \in BOOLEAN
    BY <1>6 DEF Ended
  <2> QED BY <1>3, <1>6, <2>1 DEF Ended, TypeInv, TypeOK
<1>7. ASSUME NEW m \in Machines, command[m] # Idle, NEW i \in 0 .. StatementCount,
             command' = [command EXCEPT ![m].done = i], schema' \subseteq UNION {Effects(n) : n \in Steps},
             UNCHANGED <<ledger, cuts, rollbacks, torn>>
      PROVE  TypeInv'
  <2> DEFINE c == [command[m] EXCEPT !.done = i]
  <2>1. c \in Command /\ c.todo # {} /\ Bounded(c.seen)
    BY <1>1, <1>7 DEF Command, TypeInv
  <2>2. command' = [command EXCEPT ![m] = c]
    BY <1>7 DEF TypeInv, TypeOK
  <2> QED BY <1>3, <1>7, <2>1, <2>2 DEF TypeInv, TypeOK
<1>8. ASSUME NEW m \in Machines, Up(m) PROVE TypeInv'
  <2> DEFINE n == InHand(command[m])
             i == command[m].done + 1
  <2>1. command[m] # Idle /\ command[m].done < StatementCount
    BY <1>8 DEF Up, Doing
  <2>2. i \in 1 .. StatementCount
    BY <1>0, <1>1, <2>1 DEF Command
  <2>3. n \in Steps /\ <<n, i>> \in Effects(n)
    BY <1>2, <2>1, <2>2 DEF Effects
  <2>4. CASE schema' = schema \cup {<<n, i>>} /\ command' = [command EXCEPT ![m].done = i] /\ UNCHANGED torn
    <3>1. schema' \subseteq UNION {Effects(k) : k \in Steps}
      BY <2>3, <2>4 DEF TypeInv, TypeOK
    <3>2. i \in 0 .. StatementCount /\ UNCHANGED <<ledger, cuts, rollbacks, torn>>
      BY <1>0, <1>8, <2>2, <2>4 DEF Up
    <3> HIDE DEF i, n
    <3> QED BY <1>7, <2>1, <2>4, <3>1, <3>2
  <2>5. CASE Ended(m) /\ UNCHANGED schema
    BY <1>6, <1>8, <2>1, <2>5 DEF Up, TypeInv, TypeOK
  <2> QED BY <1>8, <2>4, <2>5 DEF Up
<1>9. ASSUME NEW m \in Machines, NEW rows, rows \in [Names -> Nat], Bounded(rows), command[m] # Idle,
             NEW c, c \in {Idle, Onward(command[m])}, command' = [command EXCEPT ![m] = c],
             ledger' = rows, UNCHANGED <<schema, cuts, rollbacks, torn>>
      PROVE  TypeInv'
  <2>1. c = Idle \/ (c \in Command /\ c.todo # {} /\ Bounded(c.seen))
    BY <1>1, <1>2, <1>9, OnwardCommand DEF TypeInv
  <2> QED BY <1>3, <1>9, <2>1 DEF TypeInv, TypeOK
<1>10. ASSUME NEW n \in Steps, NEW b \in Nat
       PROVE  [ledger EXCEPT ![n] = b] \in [Names -> Nat] /\ Bounded([ledger EXCEPT ![n] = b])
  <2>1. ledger \in [Names -> Nat] /\ n \in Names
    BY <1>0 DEF TypeInv, TypeOK
  <2>2. PICK d \in Nat : \A k \in Names : ledger[k] <= d
    BY DEF TypeInv, Bounded
  <2>3. \A k \in Names : [ledger EXCEPT ![n] = b][k] <= d + b
    BY <2>1, <2>2
  <2> QED BY <2>1, <2>3 DEF Bounded
<1>11. ASSUME NEW m \in Machines, Record(m) PROVE TypeInv'
  <2> DEFINE n == InHand(command[m])
  <2>1. command[m] # Idle /\ n \in Steps
    BY <1>2, <1>11 DEF Record, Doing
  <2>2. NextBatch(command[m].seen) \in Nat
    BY <1>1, <2>1, NextBatchAbove DEF TypeInv, Command
  <2>3. UNCHANGED <<schema, cuts, rollbacks, torn>>
    BY <1>11 DEF Record
  <2>4. CASE ledger' = [ledger EXCEPT ![n] = NextBatch(command[m].seen)]
             /\ command' = [command EXCEPT ![m] = Onward(command[m])]
    BY <1>9, <1>10, <2>1, <2>2, <2>3, <2>4
  <2>5. CASE command' = [command EXCEPT ![m] = Idle] /\ UNCHANGED ledger
    BY <1>9, <2>1, <2>3, <2>5 DEF TypeInv, TypeOK
  <2> QED BY <1>11, <2>4, <2>5 DEF Record
<1>12. ASSUME NEW m \in Machines, Down(m) PROVE TypeInv'
  <2> DEFINE n == InHand(command[m])
             i == StatementCount - command[m].done
  <2>1. command[m] # Idle /\ command[m].done < StatementCount
    BY <1>12 DEF Down, Doing
  <2>2. command[m].done + 1 \in 0 .. StatementCount
    BY <1>0, <1>1, <2>1 DEF Command
  <2>3. CASE schema' = schema \ {<<n, i>>} /\ command' = [command EXCEPT ![m].done = @ + 1] /\ UNCHANGED torn
    <3>1. command' = [command EXCEPT ![m].done = command[m].done + 1]
      BY <2>3 DEF TypeInv, TypeOK
    <3> QED BY <1>7, <1>12, <2>1, <2>2, <2>3, <3>1 DEF Down, TypeInv, TypeOK
  <2>4. CASE Ended(m) /\ UNCHANGED schema
    BY <1>6, <1>12, <2>1, <2>4 DEF Down, TypeInv, TypeOK
  <2> QED BY <1>12, <2>3, <2>4 DEF Down
<1>13. ASSUME NEW m \in Machines, Forget(m) PROVE TypeInv'
  <2>1. command[m] # Idle /\ InHand(command[m]) \in Steps
    BY <1>2, <1>13 DEF Forget, Doing
  <2> QED BY <1>9, <1>10, <1>13, <2>1 DEF Forget
<1>14. ASSUME NEW m \in Machines, Cut(m) PROVE TypeInv'
  <2>1. cuts' \in 0 .. MaxCuts
    BY <1>0, <1>14 DEF Cut, TypeInv, TypeOK
  <2> QED BY <1>6, <1>14, <2>1 DEF Cut
<1>15. CASE UNCHANGED vars
  BY <1>15 DEF vars, TypeInv, TypeOK, Bounded
<1> QED
  BY <1>4, <1>5, <1>8, <1>11, <1>12, <1>13, <1>14, <1>15 DEF Next, CommandStep

(* ... which they have at first: the ledger holds only names of old steps. *)
LEMMA TypeAtFirst == Init => TypeInv
<1> SUFFICES ASSUME Init PROVE TypeInv
  OBVIOUS
<1>1. ledger \in [Names -> Nat] /\ \A n \in Names : ledger[n] <= 1
  BY DEF Init
<1>2. Bounded(ledger)
  BY <1>1 DEF Bounded
<1>3. cuts \in 0 .. MaxCuts /\ rollbacks \in 0 .. MaxRollbacks
  BY ConstantsAssumption DEF Init
<1>4. torn \in BOOLEAN
  BY Zenon DEF Init
<1> QED BY <1>1, <1>2, <1>3, <1>4 DEF Init, TypeInv, TypeOK

(* The ledger, the schema and the commands under way keep their types, and *)
(* a command always has a step in hand.                                    *)
THEOREM TypeCorrect == Spec => []TypeInv
BY TypeAtFirst, TypeStep, PTL DEF Spec

-----------------------------------------------------------------------------
(* A statement more leaves the step in hand as it is.                      *)
LEMMA InHandKept ==
    ASSUME NEW c \in Command, NEW i \in 0 .. StatementCount, c.todo # {}, Bounded(c.seen)
    PROVE  InHand([c EXCEPT !.done = i]) = InHand(c)
<1> DEFINE d == [c EXCEPT !.done = i]
<1>1. d \in Command /\ d.kind = c.kind /\ d.todo = c.todo /\ d.seen = c.seen
  BY DEF Command
<1>2. c.kind \in {"run", "rollback"} /\ c.todo \subseteq Steps /\ c.todo \subseteq Names /\ c.seen \in [Names -> Nat]
  BY DEF Command, Names
<1>3. Steps \subseteq Int
  BY ConstantsAssumption DEF Steps
<1> HIDE DEF d
<1>4. CASE c.kind = "run"
  <2>1. InHand(c) \in c.todo /\ \A k \in c.todo : InHand(c) <= k
    BY <1>4, InHandOfRun
  <2>2. InHand(d) \in d.todo /\ \A k \in d.todo : InHand(d) <= k
    BY <1>1, <1>4, InHandOfRun
  <2>3. InHand(c) \in Int /\ InHand(d) \in Int /\ InHand(c) <= InHand(d) /\ InHand(d) <= InHand(c)
    BY <1>1, <1>2, <1>3, <2>1, <2>2
  <2>4. InHand(d) = InHand(c)
    BY <2>3
  <2> QED BY <2>4 DEF d
<1>5. CASE c.kind = "rollback"
  <2>1. /\ InHand(c) \in c.todo
        /\ \A k \in c.todo : \/ c.seen[k] < c.seen[InHand(c)]
                             \/ c.seen[k] = c.seen[InHand(c)] /\ k <= InHand(c)
    BY <1>5, InHandOfRollback
  <2>2. /\ InHand(d) \in d.todo
        /\ \A k \in d.todo : \/ d.seen[k] < d.seen[InHand(d)]
                             \/ d.seen[k] = d.seen[InHand(d)] /\ k <= InHand(d)
    BY <1>1, <1>5, InHandOfRollback
  <2>3. c.seen[InHand(c)] \in Nat /\ c.seen[InHand(d)] \in Nat
    BY <1>1, <1>2, <2>1, <2>2
  <2>4. c.seen[InHand(c)] = c.seen[InHand(d)] /\ InHand(c) <= InHand(d) /\ InHand(d) <= InHand(c)
    BY <1>1, <2>1, <2>2, <2>3
  <2>5. InHand(c) \in Int /\ InHand(d) \in Int
    BY <1>1, <1>2, <1>3, <2>1, <2>2
  <2>6. InHand(d) = InHand(c)
    BY <2>4, <2>5
  <2> QED BY <2>6 DEF d
<1> QED BY <1>2, <1>4, <1>5

(* The last batches are closed upwards: what was recorded in the batch of  *)
(* a target, or in a later one, is a target too.                           *)
LEMMA TargetsUpward ==
    ASSUME ledger \in [Names -> Nat], Bounded(ledger), NEW batches \in Batches,
           NEW n \in RollbackTargets(batches), NEW k \in Recorded, ledger[n] <= ledger[k]
    PROVE  k \in RollbackTargets(batches)
<1> DEFINE Above(j) == {ledger[i] : i \in {i \in Recorded : ledger[i] > ledger[j]}}
<1>1. n \in Names /\ k \in Names /\ Recorded \subseteq Names /\ batches \in Nat
  BY ConstantsAssumption DEF RollbackTargets, Recorded
<1>2. PICK b \in Nat : \A i \in Names : ledger[i] <= b
  BY DEF Bounded
<1>3. Above(n) \in SUBSET Nat /\ \A x \in Above(n) : x <= b
  BY <1>1, <1>2
<1>4. IsFiniteSet(Above(n))
  BY <1>2, <1>3, FS_BoundedSetOfNaturals
<1>5. Above(k) \subseteq Above(n)
  BY <1>1
<1>6. IsFiniteSet(Above(k)) /\ Cardinality(Above(k)) <= Cardinality(Above(n))
  BY <1>4, <1>5, FS_Subset
<1>7. Cardinality(Above(k)) \in Nat /\ Cardinality(Above(n)) \in Nat
  BY <1>4, <1>6, FS_CardinalityType
<1>8. Cardinality(Above(n)) < batches
  BY DEF RollbackTargets
<1>9. Cardinality(Above(k)) < batches
  BY <1>1, <1>6, <1>7, <1>8
<1> QED BY <1>9 DEF RollbackTargets

-----------------------------------------------------------------------------
(* A run that is under way: every step it no longer has to do is recorded, *)
(* in a batch up to its own, and the statements it has done are in the     *)
(* schema, whoever did them first.                                         *)
RunGood(c, rows, made) ==
    /\ \A k \in Steps \ c.todo : 0 < rows[k] /\ rows[k] <= NextBatch(c.seen)
    /\ \A i \in 1 .. c.done : <<InHand(c), i>> \in made

(* A rollback that is under way: what it has to undo is still as it read   *)
(* it, and nothing recorded after that is missing from its list; it has    *)
(* not begun a step that is not whole.                                     *)
RollGood(c, rows, made, broken) ==
    /\ \A n \in c.todo : c.seen[n] = rows[n] /\ rows[n] # 0
    /\ \A n \in c.todo : \A k \in Steps : rows[k] # 0 /\ k > n => k \in c.todo
    /\ ~broken /\ c.done = 0 => Effects(InHand(c)) \subseteq made

Alone == \A m, o \in Machines : Doing(m, "rollback") /\ o # m => command[o] = Idle

LedgerInv ==
    /\ TypeInv
    /\ Alone
    /\ \A m \in Machines : Doing(m, "run") => RunGood(command[m], ledger, schema)
    /\ \A m \in Machines : Doing(m, "rollback") => RollGood(command[m], ledger, schema, torn)
    /\ LedgerInOrder
    /\ RecordedIsApplied

(* No action of a machine that boots breaks the ledger.                    *)
LEMMA RunSteps ==
    ASSUME RollbackAlone, LedgerInv, TypeInv', NEW m \in Machines,
           Run(m) \/ (Doing(m, "run") /\ (Up(m) \/ Record(m) \/ Cut(m)))
    PROVE  LedgerInv'
<1>0. /\ StepCount \in Nat /\ StatementCount \in Nat /\ StatementCount > 0
      /\ Steps \subseteq Names /\ Steps \subseteq Nat /\ Idle \notin Command
  BY ConstantsAssumption DEF Names, Steps
<1>1. ledger \in [Names -> Nat] /\ command \in [Machines -> Command \cup {Idle}] /\ torn \in BOOLEAN
  BY DEF LedgerInv, TypeInv, TypeOK
<1>2. \A o \in Machines : ~Doing(o, "rollback")
  <2>1. CASE Run(m)
    BY <2>1 DEF Run
  <2>2. CASE Doing(m, "run")
    BY <2>2 DEF LedgerInv, Alone, Doing
  <2> QED BY <2>1, <2>2
<1>3. \A o \in Machines : o # m => command'[o] = command[o]
  BY <1>1 DEF Run, Up, Record, Cut, Ended
<1>4. \A o \in Machines : ~Doing(o, "rollback")'
  <2>1. ~Doing(m, "rollback")'
    <3>1. CASE Run(m)
      BY <1>1, <3>1 DEF Run, Doing
    <3>2. CASE Doing(m, "run") /\ (Up(m) \/ Cut(m))
      BY <1>1, <3>2 DEF Up, Cut, Ended, Doing, Command
    <3>3. CASE Doing(m, "run") /\ Record(m)
      <4>1. command[m] \in Command /\ InHand(command[m]) \in command[m].todo
        BY <1>1, <3>3, InHandLeft DEF Doing, LedgerInv, TypeInv
      <4>2. command'[m] = Idle \/ command'[m] = Onward(command[m])
        BY <1>1, <3>3 DEF Record
      <4> QED BY <3>3, <4>1, <4>2, OnwardCommand DEF Doing
    <3> QED BY <3>1, <3>2, <3>3
  <2> QED BY <1>2, <1>3, <2>1 DEF Doing
<1>5. Alone'
  BY <1>4 DEF Alone
<1>6. ASSUME LedgerInOrder', RecordedIsApplied',
             \A o \in Machines : Doing(o, "run")' => RunGood(command'[o], ledger', schema')
      PROVE  LedgerInv'
  BY <1>4, <1>5, <1>6 DEF LedgerInv
<1>7. ASSUME ~torn PROVE \A n \in Steps : ledger[n] # 0 => Effects(n) \subseteq schema
  BY <1>0, <1>2, <1>7 DEF LedgerInv, RecordedIsApplied, Recorded
<1>8. ASSUME NEW o \in Machines, Doing(o, "run")
      PROVE  RunGood(command[o], ledger, schema)
  BY <1>8 DEF LedgerInv
<1>9. CASE Run(m)
  <2>1. UNCHANGED <<schema, ledger, torn>>
    BY <1>9 DEF Run
  <2>2. LedgerInOrder' /\ RecordedIsApplied'
    BY <1>2, <1>4, <2>1 DEF LedgerInv, LedgerInOrder, RecordedIsApplied, Recorded, Effects
  <2>3. command'[m].seen = ledger /\ command'[m].todo = Steps \ Recorded /\ command'[m].done = 0
    BY <1>1, <1>9 DEF Run
  <2>4. \A k \in Names : ledger[k] < NextBatch(ledger)
    BY <1>1, NextBatchAbove DEF LedgerInv, TypeInv
  <2>5. NextBatch(ledger) \in Nat
    BY <1>1, NextBatchAbove DEF LedgerInv, TypeInv
  <2>6. RunGood(command'[m], ledger, schema)
    <3>1. \A k \in Steps \ command'[m].todo : 0 < ledger[k] /\ ledger[k] <= NextBatch(command'[m].seen)
      BY <1>0, <1>1, <2>3, <2>4, <2>5 DEF Recorded
    <3>2. 1 .. command'[m].done = {}
      BY <2>3
    <3> QED BY <3>1, <3>2 DEF RunGood
  <2>7. ASSUME NEW o \in Machines, Doing(o, "run")' PROVE RunGood(command'[o], ledger', schema')
    BY <1>3, <1>8, <2>1, <2>6, <2>7 DEF Doing
  <2> QED BY <1>6, <2>2, <2>7
<1>10. ASSUME Doing(m, "run"), Ended(m), UNCHANGED <<schema, ledger>> PROVE LedgerInv'
  <2>1. command'[m] = Idle
    BY <1>1, <1>10 DEF Ended
  <2>2. ~torn' => ~torn
    BY <1>10 DEF Ended
  <2>3. LedgerInOrder'
    BY <1>10 DEF LedgerInv, LedgerInOrder, Recorded
  <2>4. RecordedIsApplied'
    BY <1>7, <1>10, <2>2 DEF RecordedIsApplied, Recorded, Effects
  <2>5. ASSUME NEW o \in Machines, Doing(o, "run")' PROVE RunGood(command'[o], ledger', schema')
    BY <1>3, <1>8, <1>10, <2>1, <2>5 DEF Doing
  <2> QED BY <1>6, <2>3, <2>4, <2>5
<1>11. CASE Doing(m, "run") /\ Up(m)
  <2> DEFINE n == InHand(command[m])
             i == command[m].done + 1
  <2>1. CASE Ended(m) /\ UNCHANGED schema
    BY <1>10, <1>11, <2>1 DEF Up
  <2>2. CASE schema' = schema \cup {<<n, i>>} /\ command' = [command EXCEPT ![m].done = i] /\ UNCHANGED torn
    <3>1. command[m] \in Command /\ command[m].todo # {} /\ Bounded(command[m].seen) /\ i \in 1 .. StatementCount
      BY <1>0, <1>1, <1>11 DEF Doing, LedgerInv, TypeInv, Up, Command
    <3>2. i \in 0 .. StatementCount
      BY <1>0, <3>1
    <3> DEFINE d == [command[m] EXCEPT !.done = i]
    <3>3. command'[m] = d /\ d.seen = command[m].seen /\ d.todo = command[m].todo /\ d.done = i
      BY <1>1, <2>2, <3>1 DEF Command
    <3>4. InHand(d) = n
      BY <3>1, <3>2, InHandKept
    <3>5. UNCHANGED ledger
      BY <1>11 DEF Up
    <3>6. LedgerInOrder'
      BY <3>5 DEF LedgerInv, LedgerInOrder, Recorded
    <3>7. RecordedIsApplied'
      BY <1>7, <2>2, <3>5 DEF RecordedIsApplied, Recorded, Effects
    <3>8. RunGood(command[m], ledger, schema)
      BY <1>8, <1>11
    <3> HIDE DEF d
    <3>9. RunGood(d, ledger, schema')
      <4>1. \A k \in Steps \ d.todo : 0 < ledger[k] /\ ledger[k] <= NextBatch(d.seen)
        BY <3>3, <3>8 DEF RunGood
      <4>2. \A j \in 1 .. i : j = i \/ j \in 1 .. command[m].done
        BY <3>1 DEF Command
      <4>3. \A j \in 1 .. i : <<n, j>> \in schema'
        BY <2>2, <3>8, <4>2 DEF RunGood
      <4> QED BY <3>3, <3>4, <4>1, <4>3 DEF RunGood
    <3>10. ASSUME NEW o \in Machines, Doing(o, "run")' PROVE RunGood(command'[o], ledger', schema')
      <4>1. CASE o = m
        BY <3>3, <3>5, <3>9, <4>1
      <4>2. CASE o # m
        <5>1. RunGood(command[o], ledger, schema)
          BY <1>3, <1>8, <3>10, <4>2 DEF Doing
        <5> QED BY <1>3, <2>2, <3>5, <4>2, <5>1 DEF RunGood
      <4> QED BY <4>1, <4>2
    <3> QED BY <1>6, <3>6, <3>7, <3>10
  <2> QED BY <1>11, <2>1, <2>2 DEF Up
<1>12. CASE Doing(m, "run") /\ Record(m)
  <2> DEFINE n == InHand(command[m])
             b == NextBatch(command[m].seen)
  <2>1. /\ command[m] \in Command /\ command[m].todo # {} /\ command[m].kind = "run"
        /\ Bounded(command[m].seen) /\ command[m].done = StatementCount
        /\ UNCHANGED <<schema, torn>>
    BY <1>0, <1>1, <1>12 DEF Doing, LedgerInv, TypeInv, Record
  <2>2. n \in command[m].todo /\ n \in Steps /\ \A k \in command[m].todo : n <= k
    BY <2>1, InHandOfRun, InHandLeft
  <2>3. b \in Nat /\ b > 0
    BY <2>1, NextBatchAbove DEF Command
  <2>4. RunGood(command[m], ledger, schema)
    BY <1>8, <1>12
  <2>5. CASE command' = [command EXCEPT ![m] = Idle] /\ UNCHANGED ledger
    <3>1. LedgerInOrder'
      BY <2>5 DEF LedgerInv, LedgerInOrder, Recorded
    <3>2. RecordedIsApplied'
      BY <1>7, <2>1, <2>5 DEF RecordedIsApplied, Recorded, Effects
    <3>3. ASSUME NEW o \in Machines, Doing(o, "run")' PROVE RunGood(command'[o], ledger', schema')
      BY <1>1, <1>3, <1>8, <2>1, <2>5, <3>3 DEF Doing
    <3> QED BY <1>6, <3>1, <3>2, <3>3
  <2>6. CASE ledger[n] = 0 /\ ledger' = [ledger EXCEPT ![n] = b] /\ command' = [command EXCEPT ![m] = Onward(command[m])]
    <3> HIDE DEF n, b
    <3>0. n \in Int /\ \A k \in Steps : k \in Int
      BY <1>0, <2>2
    <3>1. n \in Names /\ ledger'[n] = b /\ \A k \in Names : k # n => ledger'[k] = ledger[k]
      BY <1>0, <1>1, <2>2, <2>6
    <3>2. \A k \in Steps : k < n => 0 < ledger[k] /\ ledger[k] <= b
      <4>1. \A k \in Steps : k < n => ~(n <= k)
        BY <3>0
      <4>2. \A k \in Steps : k < n => k \in Steps \ command[m].todo
        BY <2>2, <4>1
      <4> QED BY <2>4, <4>2 DEF RunGood, b
    <3>3. \A k \in Steps : ledger[k] # 0 => k < n
      <4>1. \A k \in Steps : ledger[k] # 0 /\ n < k => 0 < ledger[n]
        BY <1>0, <2>2 DEF LedgerInv, LedgerInOrder, Recorded
      <4>2. \A k \in Steps : ledger[k] # 0 => ~(n < k) /\ k # n
        BY <2>6, <4>1
      <4>3. \A k \in Steps : ~(n < k) /\ k # n => k < n
        BY <3>0
      <4> QED BY <4>2, <4>3
    <3>4. LedgerInOrder'
      <4>1. ASSUME NEW j \in Steps, ledger'[j] # 0, NEW k \in Steps, k < j
            PROVE  0 < ledger'[k] /\ ledger'[k] <= ledger'[j]
        <5>1. CASE j = n
          <6>1. k < n /\ n \in Int /\ k \in Int
            BY <3>0, <4>1, <5>1
          <6>2. k # n /\ k \in Names
            BY <1>0, <6>1
          <6>3. ledger'[k] = ledger[k] /\ ledger'[j] = b
            BY <3>1, <5>1, <6>2
          <6> QED BY <3>2, <6>1, <6>3
        <5>2. CASE j # n
          <6>1. ledger[j] # 0 /\ j < n /\ j \in Recorded
            BY <1>0, <3>1, <3>3, <4>1, <5>2 DEF Recorded
          <6>2. 0 < ledger[k] /\ ledger[k] <= ledger[j]
            BY <4>1, <6>1 DEF LedgerInv, LedgerInOrder
          <6>3. k # n
            <7>1. k \in Int /\ j \in Int /\ n \in Int
              BY <1>0, <2>2
            <7> QED BY <4>1, <6>1, <7>1
          <6> QED BY <1>0, <3>1, <5>2, <6>2, <6>3
        <5> QED BY <5>1, <5>2
      <4> QED BY <4>1 DEF LedgerInOrder, Recorded
    <3>5. RecordedIsApplied'
      <4>1. ASSUME ~torn, NEW j \in Steps, ledger'[j] # 0 PROVE Effects(j) \subseteq schema
        <5>1. CASE j = n
          <6>1. \A i \in 1 .. StatementCount : <<n, i>> \in schema
            BY <2>1, <2>4 DEF RunGood, n
          <6> QED BY <5>1, <6>1 DEF Effects
        <5>2. CASE j # n
          BY <1>0, <1>7, <3>1, <4>1, <5>2
        <5> QED BY <5>1, <5>2
      <4> QED BY <2>1, <4>1 DEF RecordedIsApplied, Recorded, Effects
    <3>6. ASSUME NEW o \in Machines, Doing(o, "run")' PROVE RunGood(command'[o], ledger', schema')
      <4>1. CASE o = m
        <5>1. command'[m] = Onward(command[m]) /\ command'[m] # Idle
          BY <1>1, <2>6, <3>6, <4>1 DEF Doing
        <5>2. /\ command'[m].seen = command[m].seen /\ command'[m].todo = command[m].todo \ {n}
              /\ command'[m].done = 0
          BY <2>1, <2>2, <5>1, OnwardCommand DEF n
        <5>3. \A k \in Steps \ command'[m].todo : 0 < ledger'[k] /\ ledger'[k] <= NextBatch(command'[m].seen)
          <6>1. ASSUME NEW k \in Steps, k \notin command'[m].todo PROVE 0 < ledger'[k] /\ ledger'[k] <= b
            <7>1. CASE k = n
              BY <2>3, <3>1, <7>1
            <7>2. CASE k # n
              <8>1. k \in Steps \ command[m].todo
                BY <5>2, <6>1, <7>2
              <8> QED BY <1>0, <2>4, <3>1, <7>2, <8>1 DEF RunGood, b
            <7> QED BY <7>1, <7>2
          <6> QED BY <5>2, <6>1 DEF b
        <5>4. 1 .. command'[m].done = {}
          BY <5>2
        <5> QED BY <4>1, <5>3, <5>4 DEF RunGood
      <4>2. CASE o # m
        <5>1. command'[o] = command[o] /\ RunGood(command[o], ledger, schema)
          BY <1>3, <1>8, <3>6, <4>2 DEF Doing
        <5>2. \A k \in Steps \ command[o].todo : k # n
          BY <2>6, <5>1 DEF RunGood
        <5> QED BY <1>0, <2>1, <3>1, <5>1, <5>2 DEF RunGood
      <4> QED BY <4>1, <4>2
    <3> QED BY <1>6, <3>4, <3>5, <3>6
  <2> QED BY <1>12, <2>5, <2>6 DEF Record
<1>13. CASE Doing(m, "run") /\ Cut(m)
  BY <1>10, <1>13 DEF Cut
<1> QED BY <1>9, <1>11, <1>12, <1>13

(* No action of an operator who rolls back breaks the ledger.              *)
LEMMA RollbackSteps ==
    ASSUME RollbackAlone, LedgerInv, TypeInv', NEW m \in Machines,
           \/ \E batches \in Batches : Rollback(m, batches)
           \/ Doing(m, "rollback") /\ (Down(m) \/ Forget(m) \/ Cut(m))
    PROVE  LedgerInv'
<1>0. /\ StepCount \in Nat /\ StatementCount \in Nat /\ StatementCount > 0
      /\ Steps \subseteq Names /\ Steps \subseteq Nat /\ Idle \notin Command
  BY ConstantsAssumption DEF Names, Steps
<1>1. ledger \in [Names -> Nat] /\ command \in [Machines -> Command \cup {Idle}] /\ torn \in BOOLEAN
  BY DEF LedgerInv, TypeInv, TypeOK
<1>2. \A o \in Machines : o # m => command[o] = Idle
  <2>1. CASE \E batches \in Batches : Rollback(m, batches)
    BY <2>1 DEF Rollback
  <2>2. CASE Doing(m, "rollback")
    BY <2>2 DEF LedgerInv, Alone
  <2> QED BY <2>1, <2>2
<1>3. \A o \in Machines : o # m => command'[o] = Idle
  BY <1>1, <1>2 DEF Rollback, Down, Forget, Cut, Ended
<1>4. Alone'
  BY <1>3 DEF Alone, Doing
<1>5. \A o \in Machines : ~Doing(o, "run")'
  <2>1. ~Doing(m, "run")'
    <3>1. CASE \E batches \in Batches : Rollback(m, batches)
      BY <1>1, <3>1 DEF Rollback, Doing
    <3>2. CASE Doing(m, "rollback") /\ (Down(m) \/ Cut(m))
      BY <1>1, <3>2 DEF Down, Cut, Ended, Doing, Command
    <3>3. CASE Doing(m, "rollback") /\ Forget(m)
      <4>1. command[m] \in Command /\ InHand(command[m]) \in command[m].todo
        BY <1>1, <3>3, InHandLeft DEF Doing, LedgerInv, TypeInv
      <4>2. command'[m] = Onward(command[m])
        BY <1>1, <3>3 DEF Forget
      <4> QED BY <3>3, <4>1, <4>2, OnwardCommand DEF Doing
    <3> QED BY <3>1, <3>2, <3>3
  <2> QED BY <1>3, <2>1 DEF Doing
<1>6. ASSUME LedgerInOrder', RecordedIsApplied',
             Doing(m, "rollback")' => RollGood(command'[m], ledger', schema', torn')
      PROVE  LedgerInv'
  <2>1. \A o \in Machines : Doing(o, "rollback")' => RollGood(command'[o], ledger', schema', torn')
    BY <1>3, <1>6 DEF Doing
  <2> QED BY <1>4, <1>5, <1>6, <2>1 DEF LedgerInv
<1>7. ASSUME NEW batches \in Batches, Rollback(m, batches) PROVE LedgerInv'
  <2> DEFINE c == [kind |-> "rollback", seen |-> ledger, todo |-> RollbackTargets(batches), done |-> 0]
  <2>1. /\ UNCHANGED <<schema, ledger, torn>> /\ command'[m] = c
        /\ RollbackTargets(batches) \subseteq Steps /\ RollbackTargets(batches) # {}
    BY <1>1, <1>7 DEF Rollback
  <2>2. \A o \in Machines : command[o] = Idle
    BY <1>2, <1>7 DEF Rollback
  <2>3. ~torn => \A n \in Steps : ledger[n] # 0 => Effects(n) \subseteq schema
    BY <1>0, <2>2 DEF LedgerInv, RecordedIsApplied, Recorded, Doing
  <2>4. LedgerInOrder' /\ RecordedIsApplied'
    BY <2>1, <2>3 DEF LedgerInv, LedgerInOrder, RecordedIsApplied, Recorded, Effects
  <2>5. \A n \in RollbackTargets(batches) : ledger[n] # 0
    BY DEF RollbackTargets, Recorded
  <2>6. \A n \in RollbackTargets(batches) : \A k \in Steps : ledger[k] # 0 /\ k > n => k \in RollbackTargets(batches)
    <3> SUFFICES ASSUME NEW n \in RollbackTargets(batches), NEW k \in Steps, ledger[k] # 0, k > n
                 PROVE  k \in RollbackTargets(batches)
      OBVIOUS
    <3>1. k \in Recorded /\ n \in Steps
      BY <1>0, <2>1 DEF Recorded
    <3>2. n < k
      BY <1>0, <3>1
    <3>3. ledger[n] <= ledger[k]
      BY <3>1, <3>2 DEF LedgerInv, LedgerInOrder
    <3> QED BY <1>1, <3>1, <3>3, TargetsUpward DEF LedgerInv, TypeInv
  <2>7. c \in Command /\ c.todo = RollbackTargets(batches) /\ c.seen = ledger /\ c.done = 0
    BY <1>0, <1>1, <2>1 DEF Command
  <2> HIDE DEF c
  <2>8. InHand(c) \in c.todo
    BY <2>1, <2>7, InHandLeft DEF LedgerInv, TypeInv
  <2>9. ~torn => Effects(InHand(c)) \subseteq schema
    BY <2>1, <2>3, <2>5, <2>7, <2>8
  <2>10. RollGood(c, ledger, schema, torn)
    BY <2>5, <2>6, <2>7, <2>9 DEF RollGood
  <2> QED BY <1>6, <2>1, <2>4, <2>10
<1>8. ASSUME Doing(m, "rollback")
      PROVE  /\ command[m] \in Command /\ command[m].kind = "rollback" /\ command[m].todo # {}
             /\ Bounded(command[m].seen)
             /\ InHand(command[m]) \in command[m].todo /\ InHand(command[m]) \in Steps
             /\ RollGood(command[m], ledger, schema, torn)
             /\ ~torn => \A n \in Steps : ledger[n] # 0 /\ n # InHand(command[m]) => Effects(n) \subseteq schema
  <2>1. /\ command[m] \in Command /\ command[m].kind = "rollback" /\ command[m].todo # {}
        /\ Bounded(command[m].seen) /\ RollGood(command[m], ledger, schema, torn)
    BY <1>1, <1>8 DEF Doing, LedgerInv, TypeInv
  <2>2. InHand(command[m]) \in command[m].todo /\ InHand(command[m]) \in Steps
    BY <2>1, InHandLeft
  <2>3. \A o \in Machines : Doing(o, "rollback") => o = m
    BY <1>2 DEF Doing
  <2>4. ~torn => \A n \in Steps : ledger[n] # 0 /\ n # InHand(command[m]) => Effects(n) \subseteq schema
    BY <1>0, <2>3 DEF LedgerInv, RecordedIsApplied, Recorded
  <2> QED BY <2>1, <2>2, <2>4
<1>9. ASSUME Doing(m, "rollback"), Ended(m), UNCHANGED <<schema, ledger>> PROVE LedgerInv'
  <2>1. command'[m] = Idle
    BY <1>1, <1>9 DEF Ended
  <2>2. ~torn' => ~torn /\ ~(command[m].done > 0)
    BY <1>9 DEF Ended, Doing
  <2>3. ~torn' => command[m].done = 0
    BY <1>0, <1>8, <1>9, <2>2 DEF Command
  <2>4. ~torn' => \A n \in Steps : ledger[n] # 0 => Effects(n) \subseteq schema
    BY <1>8, <1>9, <2>2, <2>3 DEF RollGood
  <2>5. LedgerInOrder'
    BY <1>9 DEF LedgerInv, LedgerInOrder, Recorded
  <2>6. RecordedIsApplied'
    BY <1>9, <2>4 DEF RecordedIsApplied, Recorded, Effects
  <2> QED BY <1>6, <2>1, <2>5, <2>6 DEF Doing
<1>10. CASE Doing(m, "rollback") /\ Down(m)
  <2> DEFINE n == InHand(command[m])
             i == StatementCount - command[m].done
             j == command[m].done + 1
             d == [command[m] EXCEPT !.done = j]
  <2>1. CASE Ended(m) /\ UNCHANGED schema
    BY <1>9, <1>10, <2>1 DEF Down
  <2>2. CASE schema' = schema \ {<<n, i>>} /\ command' = [command EXCEPT ![m].done = @ + 1] /\ UNCHANGED torn
    <3>1. j \in 0 .. StatementCount /\ j # 0 /\ UNCHANGED ledger
      BY <1>0, <1>8, <1>10 DEF Down, Command
    <3>2. command'[m] = d /\ d.seen = command[m].seen /\ d.todo = command[m].todo /\ d.done = j /\ d.kind = "rollback"
      BY <1>1, <1>8, <1>10, <2>2 DEF Command
    <3>3. InHand(d) = n
      BY <1>8, <1>10, <3>1, InHandKept
    <3>4. d # Idle
      BY <1>0, <1>8, <1>10, <3>1 DEF Command
    <3>5. Doing(m, "rollback")'
      BY <3>2, <3>4 DEF Doing
    <3>6. LedgerInOrder'
      BY <3>1 DEF LedgerInv, LedgerInOrder, Recorded
    <3> HIDE DEF d, j, n
    <3>7. RecordedIsApplied'
      <4>1. ASSUME ~torn, NEW k \in Steps, ledger[k] # 0, k # n PROVE Effects(k) \subseteq schema'
        BY <1>8, <1>10, <2>2, <4>1 DEF n, Effects
      <4>2. \E o \in Machines : Doing(o, "rollback")' /\ InHand(command'[o]) = n
        BY <3>2, <3>3, <3>5
      <4> QED BY <2>2, <3>1, <4>1, <4>2 DEF RecordedIsApplied, Recorded, Effects
    <3>8. RollGood(d, ledger, schema', torn)
      BY <1>8, <1>10, <3>1, <3>2 DEF RollGood
    <3> QED BY <1>6, <2>2, <3>1, <3>2, <3>6, <3>7, <3>8
  <2> QED BY <1>10, <2>1, <2>2 DEF Down
<1>11. CASE Doing(m, "rollback") /\ Forget(m)
  <2> DEFINE n == InHand(command[m])
  <2>1. ledger' = [ledger EXCEPT ![n] = 0] /\ command'[m] = Onward(command[m]) /\ UNCHANGED <<schema, torn>>
    BY <1>1, <1>11 DEF Forget
  <2>2. /\ n \in command[m].todo /\ n \in Steps /\ command[m] \in Command
        /\ RollGood(command[m], ledger, schema, torn)
    BY <1>8, <1>11
  <2>3. \A k \in command[m].todo : \/ command[m].seen[k] < command[m].seen[n]
                                   \/ command[m].seen[k] = command[m].seen[n] /\ k <= n
    BY <1>8, <1>11, InHandOfRollback
  <2>4. ~torn => \A k \in Steps : ledger[k] # 0 /\ k # n => Effects(k) \subseteq schema
    BY <1>8, <1>11
  <2>5. command'[m] # Idle =>
            /\ command'[m] \in Command /\ command'[m].seen = command[m].seen
            /\ command'[m].todo = command[m].todo \ {n} /\ command'[m].todo # {}
    BY <2>1, <2>2, OnwardCommand
  <2> HIDE DEF n
  <2>6. n \in Int /\ \A k \in Steps : k \in Int
    BY <1>0, <2>2
  <2>7. ledger'[n] = 0 /\ \A k \in Names : k # n => ledger'[k] = ledger[k]
    BY <1>0, <1>1, <2>1, <2>2
  <2>8. ASSUME NEW k \in Steps, ledger[k] # 0 PROVE ~(k > n)
    <3> SUFFICES ASSUME k > n PROVE FALSE
      OBVIOUS
    <3>1. k \in command[m].todo
      BY <2>2, <2>8 DEF RollGood
    <3>2. command[m].seen[k] = ledger[k] /\ command[m].seen[n] = ledger[n]
      BY <2>2, <3>1 DEF RollGood
    <3>3. ledger[n] <= ledger[k]
      <4>1. n < k /\ k \in Steps \cap Recorded
        BY <1>0, <2>6, <2>8 DEF Recorded
      <4> QED BY <2>2, <4>1 DEF LedgerInv, LedgerInOrder
    <3>4. ledger[n] \in Nat /\ ledger[k] \in Nat
      BY <1>0, <1>1, <2>2
    <3>5. k <= n
      BY <2>3, <3>1, <3>2, <3>3, <3>4
    <3> QED BY <2>6, <3>5
  <2>9. LedgerInOrder'
    <3>1. ASSUME NEW j \in Steps, ledger'[j] # 0, NEW k \in Steps, k < j
          PROVE  0 < ledger'[k] /\ ledger'[k] <= ledger'[j]
      <4>1. j # n /\ ledger'[j] = ledger[j] /\ ledger[j] # 0
        BY <1>0, <2>7, <3>1
      <4>2. 0 < ledger[k] /\ ledger[k] <= ledger[j]
        BY <1>0, <3>1, <4>1 DEF LedgerInv, LedgerInOrder, Recorded
      <4>3. k # n
        <5>1. ~(j > n)
          BY <2>8, <4>1
        <5> QED BY <2>6, <3>1, <5>1
      <4> QED BY <1>0, <2>7, <4>1, <4>2, <4>3
    <3> QED BY <3>1 DEF LedgerInOrder, Recorded
  <2>10. ~torn' => \A k \in Steps : ledger'[k] # 0 => Effects(k) \subseteq schema
    BY <1>0, <2>1, <2>4, <2>7
  <2>11. RecordedIsApplied'
    BY <2>1, <2>10 DEF RecordedIsApplied, Recorded, Effects
  <2>12. ASSUME Doing(m, "rollback")' PROVE RollGood(command'[m], ledger', schema', torn')
    <3> DEFINE d == command'[m]
    <3>1. d \in Command /\ d.seen = command[m].seen /\ d.todo = command[m].todo \ {n} /\ d.todo # {}
      BY <2>5, <2>12 DEF Doing
    <3> HIDE DEF d
    <3>2. \A k \in d.todo : k \in Steps /\ k # n /\ k \in command[m].todo
      BY <2>2, <3>1 DEF Command
    <3>3. \A k \in d.todo : d.seen[k] = ledger'[k] /\ ledger'[k] # 0
      BY <1>0, <2>2, <2>7, <3>1, <3>2 DEF RollGood
    <3>4. \A l \in d.todo : \A k \in Steps : ledger'[k] # 0 /\ k > l => k \in d.todo
      BY <1>0, <2>2, <2>7, <3>1, <3>2 DEF RollGood
    <3>5. InHand(d) \in d.todo
      <4>1. Bounded(command[m].seen)
        BY <1>8, <1>11
      <4> QED BY <3>1, <4>1, InHandLeft
    <3>6. ~torn' => Effects(InHand(d)) \subseteq schema'
      BY <2>1, <2>10, <3>2, <3>3, <3>5
    <3>7. RollGood(d, ledger', schema', torn')
      BY <3>3, <3>4, <3>6 DEF RollGood
    <3> QED BY <3>7 DEF d
  <2> QED BY <1>6, <2>9, <2>11, <2>12
<1>12. CASE Doing(m, "rollback") /\ Cut(m)
  BY <1>9, <1>12 DEF Cut
<1> QED BY <1>7, <1>10, <1>11, <1>12

-----------------------------------------------------------------------------
(* When the operator rolls back with no machine booting, the ledger is     *)
(* right in every reachable state, however many machines boot together and *)
(* wherever commands stop.                                                 *)
THEOREM LedgerCorrect == RollbackAlone => (Spec => []LedgerInv)
<1>0. SUFFICES ASSUME RollbackAlone PROVE Spec => []LedgerInv
  OBVIOUS
<1>1. Init => LedgerInv
  <2> SUFFICES ASSUME Init, TypeInv PROVE LedgerInv
    BY TypeAtFirst
  <2>1. \A m \in Machines : command[m] = Idle
    BY DEF Init
  <2>2. \A n \in Steps : ledger[n] = 0
    BY DEF Init
  <2> QED BY <2>1, <2>2 DEF LedgerInv, Alone, Doing, LedgerInOrder, RecordedIsApplied, Recorded
<1>2. LedgerInv /\ [Next]_vars => LedgerInv'
  <2> SUFFICES ASSUME LedgerInv, [Next]_vars PROVE LedgerInv'
    OBVIOUS
  <2>1. TypeInv'
    BY TypeStep DEF LedgerInv
  <2>2. CASE UNCHANGED vars
    <3>1. UNCHANGED <<schema, ledger, command, torn>>
      BY <2>2 DEF vars
    <3> QED BY <2>1, <3>1 DEF LedgerInv, Alone, Doing, LedgerInOrder, RecordedIsApplied, Recorded, RunGood, RollGood, Effects
  <2>3. ASSUME NEW m \in Machines, command[m] # Idle PROVE Doing(m, "run") \/ Doing(m, "rollback")
    BY <2>3 DEF LedgerInv, TypeInv, TypeOK, Command, Doing
  <2>4. ASSUME NEW m \in Machines, Run(m) \/ Up(m) \/ Record(m) PROVE LedgerInv'
    <3>1. Run(m) \/ (Doing(m, "run") /\ (Up(m) \/ Record(m) \/ Cut(m)))
      BY <2>4 DEF Up, Record
    <3> QED BY <1>0, <2>1, <3>1, RunSteps
  <2>5. ASSUME NEW m \in Machines, (\E batches \in Batches : Rollback(m, batches)) \/ Down(m) \/ Forget(m)
        PROVE  LedgerInv'
    <3>1. \/ \E batches \in Batches : Rollback(m, batches)
          \/ Doing(m, "rollback") /\ (Down(m) \/ Forget(m) \/ Cut(m))
      BY <2>5 DEF Down, Forget
    <3> QED BY <1>0, <2>1, <3>1, RollbackSteps
  <2>6. ASSUME NEW m \in Machines, Cut(m) PROVE LedgerInv'
    <3>1. command[m] # Idle
      BY <2>6 DEF Cut
    <3> QED BY <1>0, <2>1, <2>3, <2>6, <3>1, RunSteps, RollbackSteps
  <2> QED BY <2>2, <2>4, <2>5, <2>6 DEF Next, CommandStep
<1> QED BY <1>1, <1>2, PTL DEF Spec

(* What the ledger says is there: a recorded step that no rollback has in  *)
(* hand has all its effects, unless a command stopped where no later one   *)
(* makes it good.                                                          *)
THEOREM AppliedCorrect == RollbackAlone => (Spec => []RecordedIsApplied)
<1>1. LedgerInv => RecordedIsApplied
  BY DEF LedgerInv
<1> QED BY <1>1, LedgerCorrect, PTL

(* The ledger grows and shrinks at its end, and its batches with it.       *)
THEOREM OrderCorrect == RollbackAlone => (Spec => []LedgerInOrder)
<1>1. LedgerInv => LedgerInOrder
  BY DEF LedgerInv
<1> QED BY <1>1, LedgerCorrect, PTL
-----------------------------------------------------------------------------
(* The command c, a run, has the step n in hand and has done statement i.  *)
Covers(c, n, i) == c # Idle /\ c.kind = "run" /\ InHand(c) = n /\ i <= c.done

(* Every effect of a step that the ledger does not know is the work of a   *)
(* run that still has the step in hand.                                    *)
Covered ==
    \A n \in Steps, i \in 1 .. StatementCount :
        ledger[n] = 0 /\ <<n, i>> \in schema => \E o \in Machines : Covers(command[o], n, i)

(* One run alone has begun a step whose statements cannot be repeated, and *)
(* has done whatever there is of it.                                       *)
RawSole ==
    \A o \in Machines, n \in Raw : Covers(command[o], n, 1) =>
        /\ ledger[n] = 0
        /\ \A i \in 1 .. StatementCount : <<n, i>> \in schema => Covers(command[o], n, i)
        /\ \A p \in Machines : Covers(command[p], n, 1) => p = o

(* A rollback has undone as many statements as it has counted, and no      *)
(* others.                                                                 *)
Undone ==
    \A m \in Machines : Doing(m, "rollback") => \A i \in 1 .. StatementCount :
        <<InHand(command[m]), i>> \in schema <=> i <= StatementCount - command[m].done

(* All three, and nothing torn, until a command is cut short.              *)
CleanInv == cuts = 0 => ~torn /\ Covered /\ RawSole /\ Undone

(* While a rollback is under way nothing above its step in hand is         *)
(* recorded, and so nothing above it is there.                             *)
LEMMA NothingAbove ==
    ASSUME LedgerInv, Covered, NEW m \in Machines, Doing(m, "rollback"),
           NEW k \in Steps, k > InHand(command[m])
    PROVE  ledger[k] = 0 /\ Effects(k) \cap schema = {}
<1> DEFINE n == InHand(command[m])
<1>0. Steps \subseteq Names /\ Steps \subseteq Nat /\ ledger \in [Names -> Nat]
  BY ConstantsAssumption DEF Names, Steps, LedgerInv, TypeInv, TypeOK
<1>1. /\ command[m] \in Command /\ command[m].kind = "rollback" /\ command[m].todo # {}
      /\ Bounded(command[m].seen) /\ RollGood(command[m], ledger, schema, torn)
  BY DEF LedgerInv, TypeInv, TypeOK, Doing
<1>2. n \in command[m].todo /\ n \in Steps
  BY <1>1, InHandLeft
<1>3. ledger[k] = 0
  <2> SUFFICES ASSUME ledger[k] # 0 PROVE FALSE
    OBVIOUS
  <2>1. k \in command[m].todo
    BY <1>1, <1>2 DEF RollGood
  <2>2. command[m].seen[k] = ledger[k] /\ command[m].seen[n] = ledger[n]
    BY <1>1, <1>2, <2>1 DEF RollGood
  <2>3. ledger[n] <= ledger[k]
    <3>1. n < k /\ k \in Steps \cap Recorded
      BY <1>0, <1>2 DEF Recorded
    <3> QED BY <1>2, <3>1 DEF LedgerInv, LedgerInOrder
  <2>4. \/ command[m].seen[k] < command[m].seen[n]
        \/ command[m].seen[k] = command[m].seen[n] /\ k <= n
    BY <1>1, <2>1, InHandOfRollback
  <2>5. ledger[n] \in Nat /\ ledger[k] \in Nat /\ n \in Nat /\ k \in Nat
    BY <1>0, <1>2
  <2> HIDE DEF n
  <2>6. k <= n
    BY <2>2, <2>3, <2>4, <2>5
  <2>7. k > n
    BY DEF n
  <2> QED BY <2>5, <2>6, <2>7
<1>4. \A i \in 1 .. StatementCount : <<k, i>> \notin schema
  <2> SUFFICES ASSUME NEW i \in 1 .. StatementCount, <<k, i>> \in schema PROVE FALSE
    OBVIOUS
  <2>1. PICK o \in Machines : Covers(command[o], k, i)
    BY <1>3 DEF Covered
  <2>2. o = m
    BY <2>1 DEF LedgerInv, Alone, Covers
  <2> QED BY <1>1, <2>1, <2>2 DEF Covers
<1> QED BY <1>3, <1>4 DEF Effects

(* A statement of a run is refused only because it has been run before: it *)
(* finds what it builds on.                                                *)
LEMMA BuildsOnWhatIsThere ==
    ASSUME LedgerInv, ~torn, NEW m \in Machines, Doing(m, "run")
    PROVE  /\ \A k \in Steps : k < InHand(command[m]) => Effects(k) \subseteq schema
           /\ \A k \in Steps : ledger[k] # 0 => Effects(k) \subseteq schema
<1> DEFINE n == InHand(command[m])
<1>0. Steps \subseteq Names /\ Steps \subseteq Nat /\ ledger \in [Names -> Nat]
  BY ConstantsAssumption DEF Names, Steps, LedgerInv, TypeInv, TypeOK
<1>1. /\ command[m] \in Command /\ command[m].kind = "run" /\ command[m].todo # {}
      /\ RunGood(command[m], ledger, schema)
  BY DEF LedgerInv, TypeInv, TypeOK, Doing
<1>2. n \in command[m].todo /\ \A k \in command[m].todo : n <= k
  BY <1>1, InHandOfRun
<1>3. n \in Steps
  BY <1>1, <1>2 DEF Command
<1>4. \A o \in Machines : ~Doing(o, "rollback")
  BY DEF LedgerInv, Alone, Doing
<1>5. \A k \in Steps : ledger[k] # 0 => Effects(k) \subseteq schema
  BY <1>0, <1>4 DEF LedgerInv, RecordedIsApplied, Recorded
<1> HIDE DEF n
<1>6. ASSUME NEW k \in Steps, k < n PROVE ledger[k] # 0
  <2>1. ~(n <= k)
    BY <1>0, <1>3, <1>6
  <2>2. k \in Steps \ command[m].todo
    BY <1>2, <2>1
  <2>3. 0 < ledger[k]
    BY <1>1, <2>2 DEF RunGood
  <2> QED BY <2>3
<1> QED BY <1>5, <1>6 DEF n

(* No action of a machine that boots, short of being cut, leaves an effect *)
(* nobody answers for.                                                     *)
LEMMA CleanRunSteps ==
    ASSUME LedgerInv, ~torn, Covered, RawSole, RollbackAlone,
           NEW m \in Machines, Run(m) \/ Up(m) \/ Record(m)
    PROVE  ~torn' /\ Covered' /\ RawSole'
<1>0. /\ StatementCount \in Nat /\ StatementCount > 0 /\ Idle \notin Command
      /\ Steps \subseteq Names /\ Raw \subseteq Steps
  BY ConstantsAssumption DEF Names
<1>1. ledger \in [Names -> Nat] /\ command \in [Machines -> Command \cup {Idle}]
  BY DEF LedgerInv, TypeInv, TypeOK
<1>2. \A o \in Machines : o # m => command'[o] = command[o]
  BY <1>1 DEF Run, Up, Record, Ended
<1>3. ASSUME UNCHANGED <<schema, ledger>>, ~torn',
             \A n \in Steps, i \in 1 .. StatementCount :
                 ~Covers(command'[m], n, i) /\ (Covers(command[m], n, i) => ledger[n] # 0)
      PROVE  ~torn' /\ Covered' /\ RawSole'
  <2>1. Covered'
    BY <1>2, <1>3 DEF Covered
  <2>2. 1 \in 1 .. StatementCount
    BY <1>0
  <2>3. \A o \in Machines, n \in Raw : Covers(command'[o], n, 1) =>
            o # m /\ Covers(command[o], n, 1) /\ command'[o] = command[o]
    BY <1>0, <1>2, <1>3, <2>2
  <2>4. RawSole'
    BY <1>3, <2>3 DEF RawSole
  <2> QED BY <1>3, <2>1, <2>4
<1>4. CASE Run(m)
  <2>1. command[m] = Idle /\ command'[m].done = 0 /\ UNCHANGED <<schema, ledger, torn>>
    BY <1>1, <1>4 DEF Run
  <2>2. \A n \in Steps, i \in 1 .. StatementCount :
            ~Covers(command'[m], n, i) /\ ~Covers(command[m], n, i)
    BY <2>1 DEF Covers
  <2> QED BY <1>3, <2>1, <2>2
<1>5. ASSUME Doing(m, "run")
      PROVE  /\ command[m] \in Command /\ command[m].kind = "run" /\ command[m].todo # {}
             /\ Bounded(command[m].seen) /\ command[m] # Idle
             /\ InHand(command[m]) \in command[m].todo /\ InHand(command[m]) \in Steps
             /\ command[m].done \in 0 .. StatementCount
             /\ \A n \in Steps, i \in 1 .. StatementCount :
                   Covers(command[m], n, i) <=> n = InHand(command[m]) /\ i <= command[m].done
  <2>1. /\ command[m] \in Command /\ command[m].kind = "run" /\ command[m].todo # {}
        /\ Bounded(command[m].seen) /\ command[m] # Idle
    BY <1>1, <1>5 DEF Doing, LedgerInv, TypeInv
  <2>2. InHand(command[m]) \in command[m].todo /\ InHand(command[m]) \in Steps
    BY <2>1, InHandLeft
  <2>3. command[m].done \in 0 .. StatementCount
    BY <2>1 DEF Command
  <2> QED BY <2>1, <2>2, <2>3 DEF Covers
<1>6. CASE Up(m)
  <2> DEFINE n == InHand(command[m])
             i == command[m].done + 1
  <2>1. Doing(m, "run") /\ command[m].done < StatementCount /\ UNCHANGED ledger
    BY <1>6 DEF Up
  <2>2. /\ command[m] \in Command /\ n \in Steps /\ command[m].done \in 0 .. StatementCount
        /\ command[m].todo # {} /\ Bounded(command[m].seen)
        /\ \A k \in Steps, j \in 1 .. StatementCount :
              Covers(command[m], k, j) <=> k = n /\ j <= command[m].done
    BY <1>5, <2>1
  <2>3. i \in 1 .. StatementCount /\ i \in 0 .. StatementCount /\ 1 \in 1 .. StatementCount
    BY <1>0, <2>1, <2>2
  <2>4. /\ \A k \in Steps : k < n => Effects(k) \subseteq schema
        /\ \A k \in Steps : ledger[k] # 0 => Effects(k) \subseteq schema
    BY <2>1, BuildsOnWhatIsThere
  <2>5. CASE ~UpAccepted(n, i) /\ Ended(m) /\ UNCHANGED schema
    <3>1. n \in Raw /\ <<n, i>> \in schema
      BY <2>4, <2>5 DEF UpAccepted
    <3>2. ~Covers(command[m], n, 1)
      <4>1. SUFFICES ASSUME Covers(command[m], n, 1) PROVE FALSE
        OBVIOUS
      <4>2. Covers(command[m], n, i)
        BY <2>3, <3>1, <4>1 DEF RawSole
      <4>3. i <= command[m].done
        BY <4>2 DEF Covers
      <4> QED BY <2>2, <4>3
    <3>3. command[m].done = 0
      BY <2>2, <2>3, <3>2
    <3>4. command'[m] = Idle /\ ~torn'
      <4>1. ~(command[m].done > 0)
        BY <3>3
      <4>2. command'[m] = Idle
        BY <1>1, <2>5 DEF Ended
      <4>3. ~torn'
        BY <2>5, <4>1, Zenon DEF Ended
      <4> QED BY <4>2, <4>3
    <3>5. \A k \in Steps, j \in 1 .. StatementCount :
              ~Covers(command'[m], k, j) /\ ~Covers(command[m], k, j)
      BY <2>2, <3>3, <3>4 DEF Covers
    <3> QED BY <1>3, <2>1, <2>5, <3>4, <3>5
  <2>6. CASE /\ UpAccepted(n, i)
             /\ schema' = schema \cup {<<n, i>>}
             /\ command' = [command EXCEPT ![m].done = i]
             /\ UNCHANGED torn
    <3> DEFINE d == [command[m] EXCEPT !.done = i]
    <3>1. command'[m] = d /\ d.kind = "run" /\ d.done = i /\ d \in Command
      BY <1>1, <1>5, <2>1, <2>2, <2>3, <2>6 DEF Command
    <3>2. InHand(d) = n
      BY <2>2, <2>3, InHandKept
    <3>3. \A k \in Steps, j \in 1 .. StatementCount :
              Covers(command'[m], k, j) <=> k = n /\ j <= i
      BY <1>0, <3>1, <3>2 DEF Covers
    <3> HIDE DEF d
    <3>4. \A k \in Steps, j \in 1 .. StatementCount : Covers(command[m], k, j) => Covers(command'[m], k, j)
      BY <2>2, <2>3, <3>3
    <3>5. \A k \in Steps, j \in 1 .. StatementCount :
              <<k, j>> \in schema' => <<k, j>> \in schema \/ (k = n /\ j = i)
      BY <2>6
    <3>6. \A o \in Machines, k \in Steps, j \in 1 .. StatementCount :
              Covers(command[o], k, j) => Covers(command'[o], k, j)
      BY <1>2, <3>4
    <3>7. Covers(command'[m], n, i)
      BY <2>2, <2>3, <3>3
    <3> HIDE DEF n, i
    <3>8. Covered'
      <4> SUFFICES ASSUME NEW k \in Steps, NEW j \in 1 .. StatementCount,
                          ledger[k] = 0, <<k, j>> \in schema'
                   PROVE  \E o \in Machines : Covers(command'[o], k, j)
        BY <2>1 DEF Covered
      <4>1. CASE <<k, j>> \in schema
        BY <3>6, <4>1 DEF Covered
      <4>2. CASE k = n /\ j = i
        BY <3>7, <4>2
      <4> QED BY <3>5, <4>1, <4>2
    <3>9. ASSUME n \in Raw
          PROVE  /\ ledger[n] = 0
                 /\ \A p \in Machines : Covers(command[p], n, 1) => p = m
      <4>1. <<n, i>> \notin schema
        BY <2>6, <3>9 DEF UpAccepted
      <4>2. ledger[n] = 0
        BY <2>2, <2>3, <2>4, <4>1 DEF Effects
      <4>3. ASSUME NEW p \in Machines, Covers(command[p], n, 1), p # m PROVE FALSE
        <5>1. ~Covers(command[m], n, 1)
          BY <3>9, <4>3 DEF RawSole
        <5>2. command[m].done = 0
          BY <2>2, <2>3, <5>1
        <5>3. i = 1
          BY <5>2 DEF i
        <5>4. Doing(p, "run") /\ InHand(command[p]) = n /\ 1 <= command[p].done
          BY <4>3 DEF Covers, Doing
        <5>5. command[p].done \in Nat
          BY <1>0, <1>1, <5>4 DEF Doing, Command
        <5>6. 1 \in 1 .. command[p].done
          BY <5>4, <5>5
        <5>7. <<n, 1>> \in schema
          BY <5>4, <5>6 DEF LedgerInv, RunGood
        <5> QED BY <4>1, <5>3, <5>7
      <4> QED BY <4>2, <4>3
    <3>10. RawSole'
      <4> SUFFICES ASSUME NEW o \in Machines, NEW k \in Raw, Covers(command'[o], k, 1)
                   PROVE  /\ ledger[k] = 0
                          /\ \A j \in 1 .. StatementCount : <<k, j>> \in schema' => Covers(command'[o], k, j)
                          /\ \A p \in Machines : Covers(command'[p], k, 1) => p = o
        BY <2>1 DEF RawSole
      <4>0. k \in Steps
        BY <1>0
      <4>1. CASE k # n
        <5>1. o # m /\ Covers(command[o], k, 1)
          BY <1>2, <2>3, <3>3, <4>0, <4>1
        <5>2. \A p \in Machines : Covers(command'[p], k, 1) => Covers(command[p], k, 1)
          BY <1>2, <2>3, <3>3, <4>0, <4>1
        <5>3. \A j \in 1 .. StatementCount : <<k, j>> \in schema' => <<k, j>> \in schema
          BY <3>5, <4>0, <4>1
        <5> QED BY <1>2, <5>1, <5>2, <5>3 DEF RawSole
      <4>2. CASE k = n
        <5>1. \A p \in Machines : Covers(command'[p], n, 1) => p = m
          BY <1>2, <3>9, <4>2
        <5>2. o = m
          BY <4>2, <5>1
        <5>3. ASSUME NEW j \in 1 .. StatementCount, <<n, j>> \in schema' PROVE Covers(command'[m], n, j)
          <6>1. CASE j = i
            BY <3>7, <6>1
          <6>2. CASE j # i
            <7>1. <<n, j>> \in schema /\ ledger[n] = 0
              BY <2>2, <3>5, <3>9, <4>2, <5>3, <6>2
            <7>2. PICK p \in Machines : Covers(command[p], n, j)
              BY <2>2, <7>1 DEF Covered
            <7>3. command[p].done \in Int
              BY <1>0, <1>1, <7>2 DEF Covers, Command
            <7>4. Covers(command[p], n, 1)
              BY <7>2, <7>3 DEF Covers
            <7>5. p = m
              BY <3>9, <4>2, <7>4
            <7> QED BY <2>2, <3>4, <7>2, <7>5
          <6> QED BY <6>1, <6>2
        <5> QED BY <3>9, <4>2, <5>1, <5>2, <5>3
      <4> QED BY <4>1, <4>2
    <3> QED BY <2>6, <3>8, <3>10
  <2> QED BY <1>6, <2>5, <2>6 DEF Up
<1>7. CASE Record(m)
  <2> DEFINE n == InHand(command[m])
  <2>1. Doing(m, "run") /\ command[m].done = StatementCount /\ UNCHANGED <<schema, torn>>
    BY <1>7 DEF Record
  <2>2. /\ command[m] \in Command /\ n \in Steps /\ n \in command[m].todo
        /\ \A k \in Steps, j \in 1 .. StatementCount : Covers(command[m], k, j) <=> k = n
    BY <1>0, <1>5, <2>1
  <2>3. CASE ledger[n] # 0 /\ command' = [command EXCEPT ![m] = Idle] /\ UNCHANGED ledger
    <3>1. \A k \in Steps, j \in 1 .. StatementCount :
              ~Covers(command'[m], k, j) /\ (Covers(command[m], k, j) => ledger[k] # 0)
      BY <1>1, <2>2, <2>3 DEF Covers
    <3> QED BY <1>3, <2>1, <2>3, <3>1
  <2>4. CASE /\ ledger[n] = 0
             /\ ledger' = [ledger EXCEPT ![n] = NextBatch(command[m].seen)]
             /\ command' = [command EXCEPT ![m] = Onward(command[m])]
    <3>1. command'[m] # Idle => command'[m].done = 0
      BY <1>1, <2>2, <2>4, OnwardCommand
    <3>2. \A k \in Steps, j \in 1 .. StatementCount : ~Covers(command'[m], k, j)
      BY <3>1 DEF Covers
    <3>3. ledger'[n] # 0
      <4>1. NextBatch(command[m].seen) > 0
        BY <1>5, <2>1, NextBatchAbove DEF Command
      <4> QED BY <1>0, <1>1, <2>2, <2>4, <4>1
    <3> HIDE DEF n
    <3>4. \A k \in Steps : k # n => ledger'[k] = ledger[k]
      BY <1>0, <1>1, <2>4
    <3>5. Covered'
      <4> SUFFICES ASSUME NEW k \in Steps, NEW j \in 1 .. StatementCount,
                          ledger'[k] = 0, <<k, j>> \in schema
                   PROVE  \E o \in Machines : Covers(command'[o], k, j)
        BY <2>1 DEF Covered
      <4>1. k # n /\ ledger[k] = 0
        BY <3>3, <3>4
      <4>2. PICK o \in Machines : Covers(command[o], k, j)
        BY <4>1 DEF Covered
      <4>3. o # m
        BY <2>2, <4>1, <4>2
      <4> QED BY <1>2, <4>2, <4>3
    <3>6. RawSole'
      <4>1. 1 \in 1 .. StatementCount /\ Covers(command[m], n, 1)
        BY <1>0, <2>2
      <4>2. \A o \in Machines, k \in Raw : Covers(command'[o], k, 1) =>
                o # m /\ Covers(command[o], k, 1) /\ command'[o] = command[o] /\ k # n
        BY <1>0, <1>2, <3>2, <4>1 DEF RawSole
      <4> QED BY <1>0, <2>1, <3>4, <4>2 DEF RawSole
    <3> QED BY <2>1, <3>5, <3>6
  <2> QED BY <1>7, <2>3, <2>4 DEF Record
<1> QED BY <1>4, <1>6, <1>7

(* A rollback that is not cut meets no refusal, and undoes whole steps.    *)
LEMMA CleanRollbackSteps ==
    ASSUME LedgerInv, LedgerInv', ~torn, Covered, Undone, RollbackAlone, NEW m \in Machines,
           (\E batches \in Batches : Rollback(m, batches)) \/ Down(m) \/ Forget(m)
    PROVE  ~torn' /\ Covered' /\ RawSole' /\ Undone'
<1>0. /\ StatementCount \in Nat /\ StatementCount > 0 /\ Idle \notin Command /\ Steps \subseteq Names
  BY ConstantsAssumption DEF Names
<1>1. ledger \in [Names -> Nat] /\ command \in [Machines -> Command \cup {Idle}]
  BY DEF LedgerInv, TypeInv, TypeOK
<1>2. \A o \in Machines : o # m => command[o] = Idle /\ command'[o] = Idle
  <2>1. \A o \in Machines : o # m => command[o] = Idle
    BY DEF Rollback, Down, Forget, LedgerInv, Alone
  <2>2. \A o \in Machines : o # m => command'[o] = command[o]
    BY <1>1 DEF Rollback, Down, Forget, Ended
  <2> QED BY <2>1, <2>2
<1>3. ASSUME Doing(m, "rollback")
      PROVE  /\ command[m] \in Command /\ command[m].kind = "rollback" /\ command[m].todo # {}
             /\ Bounded(command[m].seen) /\ command[m].done \in 0 .. StatementCount
             /\ InHand(command[m]) \in command[m].todo /\ InHand(command[m]) \in Steps
  <2>1. /\ command[m] \in Command /\ command[m].kind = "rollback" /\ command[m].todo # {}
        /\ Bounded(command[m].seen)
    BY <1>1, <1>3 DEF Doing, LedgerInv, TypeInv
  <2> QED BY <2>1, InHandLeft DEF Command
<1>4. ASSUME command'[m] = Idle \/ command'[m].kind = "rollback",
             \A n \in Steps, i \in 1 .. StatementCount : ledger'[n] = 0 => <<n, i>> \notin schema'
      PROVE  Covered' /\ RawSole'
  <2>1. \A o \in Machines, n \in Raw : ~Covers(command'[o], n, 1)
    BY <1>2, <1>4 DEF Covers
  <2> QED BY <1>4, <2>1 DEF Covered, RawSole
<1>5. ASSUME command'[m] = Idle \/ command'[m].done = 0, ~torn'
      PROVE  Undone'
  <2> SUFFICES ASSUME NEW o \in Machines, Doing(o, "rollback")', NEW i \in 1 .. StatementCount
               PROVE  <<InHand(command'[o]), i>> \in schema' <=> i <= StatementCount - command'[o].done
    BY DEF Undone
  <2>1. o = m /\ command'[m].done = 0
    BY <1>2, <1>5 DEF Doing
  <2>2. Effects(InHand(command'[m])) \subseteq schema'
    BY <1>5, <2>1 DEF LedgerInv, RollGood
  <2>3. <<InHand(command'[m]), i>> \in schema'
    BY <2>2 DEF Effects
  <2>4. i <= StatementCount - 0
    BY <1>0
  <2> QED BY <2>1, <2>3, <2>4
<1>6. ASSUME command[m] = Idle \/ command[m].kind = "rollback"
      PROVE  \A n \in Steps, i \in 1 .. StatementCount : ledger[n] = 0 => <<n, i>> \notin schema
  <2>1. \A o \in Machines, n \in Steps, i \in 1 .. StatementCount : ~Covers(command[o], n, i)
    BY <1>2, <1>6 DEF Covers
  <2> QED BY <2>1 DEF Covered
<1>7. ASSUME NEW batches \in Batches, Rollback(m, batches) PROVE ~torn' /\ Covered' /\ RawSole' /\ Undone'
  <2>1. /\ command[m] = Idle /\ UNCHANGED <<schema, ledger, torn>>
        /\ command'[m].kind = "rollback" /\ command'[m].done = 0
    BY <1>1, <1>7 DEF Rollback
  <2> QED BY <1>4, <1>5, <1>6, <2>1
<1>8. CASE Down(m)
  <2> DEFINE n == InHand(command[m])
             i == StatementCount - command[m].done
             j == command[m].done + 1
             d == [command[m] EXCEPT !.done = j]
  <2>1. Doing(m, "rollback") /\ command[m].done < StatementCount /\ UNCHANGED ledger
    BY <1>8 DEF Down
  <2>2. /\ command[m] \in Command /\ command[m].kind = "rollback" /\ command[m].todo # {}
        /\ Bounded(command[m].seen) /\ command[m].done \in 0 .. StatementCount /\ n \in Steps
    BY <1>3, <2>1
  <2>3. i \in 1 .. StatementCount /\ j \in 0 .. StatementCount
    BY <1>0, <2>1, <2>2
  <2>4. DownAccepted(n, i)
    <3>1. <<n, i>> \in schema
      <4>1. i <= StatementCount - command[m].done
        BY <2>3
      <4> QED BY <2>1, <2>3, <4>1 DEF Undone
    <3>2. \A k \in Steps : k > n => Effects(k) \cap schema = {}
      BY <2>1, NothingAbove
    <3> QED BY <3>1, <3>2 DEF DownAccepted
  <2>5. /\ schema' = schema \ {<<n, i>>} /\ command' = [command EXCEPT ![m].done = @ + 1]
        /\ UNCHANGED torn
    BY <1>8, <2>4 DEF Down
  <2>6. command'[m] = d /\ d.kind = "rollback" /\ d.done = j
    BY <1>1, <2>2, <2>5 DEF Command
  <2>7. InHand(d) = n
    BY <2>2, <2>3, InHandKept
  <2>8. Covered' /\ RawSole'
    BY <1>4, <1>6, <2>1, <2>2, <2>5, <2>6
  <2>9. Undone'
    <3> SUFFICES ASSUME NEW o \in Machines, Doing(o, "rollback")', NEW l \in 1 .. StatementCount
                 PROVE  <<InHand(command'[o]), l>> \in schema' <=> l <= StatementCount - command'[o].done
      BY DEF Undone
    <3>1. o = m
      BY <1>2 DEF Doing
    <3>2. <<n, l>> \in schema <=> l <= StatementCount - command[m].done
      BY <2>1 DEF Undone
    <3> HIDE DEF n, d
    <3>3. <<n, l>> \in schema' <=> <<n, l>> \in schema /\ l # i
      BY <2>5
    <3>4. l <= StatementCount - j <=> l <= StatementCount - command[m].done /\ l # i
      BY <1>0, <2>2
    <3> QED BY <2>6, <2>7, <3>1, <3>2, <3>3, <3>4
  <2> QED BY <2>5, <2>8, <2>9
<1>9. CASE Forget(m)
  <2> DEFINE n == InHand(command[m])
  <2>1. /\ Doing(m, "rollback") /\ command[m].done = StatementCount
        /\ ledger' = [ledger EXCEPT ![n] = 0] /\ command'[m] = Onward(command[m])
        /\ UNCHANGED <<schema, torn>>
    BY <1>1, <1>9 DEF Forget
  <2>2. command[m] \in Command /\ command[m].kind = "rollback" /\ n \in Steps /\ n \in command[m].todo
    BY <1>3, <2>1
  <2>3. command'[m] # Idle => command'[m].kind = "rollback" /\ command'[m].done = 0
    BY <2>1, <2>2, OnwardCommand
  <2>4. \A i \in 1 .. StatementCount : <<n, i>> \notin schema
    <3>1. \A i \in 1 .. StatementCount : ~(i <= StatementCount - StatementCount)
      BY <1>0
    <3> QED BY <2>1, <3>1 DEF Undone
  <2> HIDE DEF n
  <2>5. \A k \in Steps, i \in 1 .. StatementCount : ledger'[k] = 0 => <<k, i>> \notin schema'
    BY <1>0, <1>1, <1>6, <2>1, <2>2, <2>4
  <2> QED BY <1>4, <1>5, <2>1, <2>3, <2>5
<1> QED BY <1>7, <1>8, <1>9
(* The invariant holds as long as no command is cut short.                 *)
LEMMA CleanStep ==
    ASSUME RollbackAlone, LedgerInv, LedgerInv', CleanInv, [Next]_vars
    PROVE  CleanInv'
<1> SUFFICES ASSUME cuts' = 0 PROVE (~torn /\ Covered /\ RawSole /\ Undone)'
  BY DEF CleanInv
<1>0. cuts \in Nat
  BY ConstantsAssumption DEF LedgerInv, TypeInv, TypeOK
<1>1. CASE UNCHANGED vars
  <2>1. UNCHANGED <<schema, ledger, command, cuts, torn>>
    BY <1>1 DEF vars
  <2> QED BY <2>1 DEF CleanInv, Covered, RawSole, Undone, Doing
<1>2. ASSUME NEW m \in Machines, Cut(m) PROVE FALSE
  BY <1>0, <1>2 DEF Cut
<1>3. ASSUME NEW m \in Machines, Run(m) \/ Up(m) \/ Record(m)
      PROVE  (~torn /\ Covered /\ RawSole /\ Undone)'
  <2>1. ~torn /\ Covered /\ RawSole
    BY <1>3 DEF Run, Up, Record, CleanInv
  <2>2. ~torn' /\ Covered' /\ RawSole'
    BY <1>3, <2>1, CleanRunSteps
  <2>3. command \in [Machines -> Command \cup {Idle}]
    BY DEF LedgerInv, TypeInv, TypeOK
  <2>4. \A o \in Machines : ~Doing(o, "rollback")
    <3>1. CASE Run(m)
      BY <3>1 DEF Run
    <3>2. CASE Doing(m, "run")
      BY <3>2 DEF LedgerInv, Alone, Doing
    <3> QED BY <1>3, <3>1, <3>2 DEF Up, Record
  <2>5. \A o \in Machines : ~Doing(o, "rollback")'
    <3>1. \A o \in Machines : o # m => command'[o] = command[o]
      BY <1>3, <2>3 DEF Run, Up, Record, Ended
    <3>2. ~Doing(m, "rollback")'
      <4>1. CASE Run(m)
        BY <2>3, <4>1 DEF Run, Doing
      <4>2. CASE Up(m)
        BY <2>3, <4>2 DEF Up, Ended, Doing, Command
      <4>3. CASE Record(m)
        <5>1. /\ command[m] \in Command /\ command[m].kind = "run"
              /\ InHand(command[m]) \in command[m].todo
          BY <2>3, <4>3, InHandLeft DEF Record, Doing, LedgerInv, TypeInv
        <5>2. command'[m] = Idle \/ command'[m] = Onward(command[m])
          BY <2>3, <4>3 DEF Record
        <5> QED BY <5>1, <5>2, OnwardCommand DEF Doing
      <4> QED BY <1>3, <4>1, <4>2, <4>3
    <3> QED BY <2>4, <3>1, <3>2 DEF Doing
  <2>6. Undone'
    BY <2>5 DEF Undone
  <2> QED BY <2>2, <2>6
<1>4. ASSUME NEW m \in Machines,
             (\E batches \in Batches : Rollback(m, batches)) \/ Down(m) \/ Forget(m)
      PROVE  (~torn /\ Covered /\ RawSole /\ Undone)'
  <2>1. ~torn /\ Covered /\ Undone
    BY <1>4 DEF Rollback, Down, Forget, CleanInv
  <2> QED BY <1>4, <2>1, CleanRollbackSteps
<1> QED BY <1>1, <1>2, <1>3, <1>4 DEF Next, CommandStep

(* Until a command is cut short, every effect in the schema is recorded or *)
(* the work of a run that goes on with it, however many machines boot      *)
(* together; none of them tears a step by getting in another's way.        *)
THEOREM CleanCorrect == RollbackAlone => (Spec => []CleanInv)
<1> SUFFICES ASSUME RollbackAlone PROVE Spec => []CleanInv
  OBVIOUS
<1>1. Init => CleanInv
  BY DEF Init, CleanInv, Covered, RawSole, Undone, Covers, Doing
<1>2. LedgerInv /\ LedgerInv' /\ CleanInv /\ [Next]_vars => CleanInv'
  BY CleanStep
<1>3. Spec => []LedgerInv
  BY LedgerCorrect
<1> QED BY <1>1, <1>2, <1>3, PTL DEF Spec

(* "Dependants are dropped before what they depend on": until a command is *)
(* cut short, a rollback never comes to a step that another builds on,     *)
(* whatever machines booted before it, together and one after the other.   *)
THEOREM DependantsCorrect == RollbackAlone => (Spec => []DependantsFirst)
<1> SUFFICES ASSUME RollbackAlone PROVE Spec => []DependantsFirst
  OBVIOUS
<1>1. LedgerInv /\ CleanInv => DependantsFirst
  BY NothingAbove DEF CleanInv, DependantsFirst
<1>2. Spec => []LedgerInv
  BY LedgerCorrect
<1>3. Spec => []CleanInv
  BY CleanCorrect
<1> QED BY <1>1, <1>2, <1>3, PTL

-----------------------------------------------------------------------------
(* One machine boots and rolls back.                                       *)
OneMachine == \A m, o \in Machines : m = o

(* What a run has left to do is not recorded.                              *)
LeftUnrecorded ==
    \A m \in Machines : Doing(m, "run") => \A n \in command[m].todo : ledger[n] = 0

(* With one machine, nobody records what a run has left but the run.       *)
LEMMA LeftStep ==
    ASSUME OneMachine, TypeInv, LeftUnrecorded, [Next]_vars
    PROVE  LeftUnrecorded'
<1> SUFFICES ASSUME NEW m \in Machines, Doing(m, "run")', NEW k \in command'[m].todo
             PROVE  ledger'[k] = 0
  BY DEF LeftUnrecorded
<1>0. Steps \subseteq Names /\ Idle \notin Command
  BY ConstantsAssumption DEF Names
<1>1. ledger \in [Names -> Nat] /\ command \in [Machines -> Command \cup {Idle}]
  BY DEF TypeInv, TypeOK
<1>2. \A o \in Machines : o = m
  BY DEF OneMachine
<1>3. ASSUME Doing(m, "run"), k \in command[m].todo, UNCHANGED ledger PROVE ledger'[k] = 0
  BY <1>3 DEF LeftUnrecorded
<1>4. CASE Run(m)
  <2>1. UNCHANGED ledger /\ command'[m].todo = Steps \ Recorded
    BY <1>1, <1>4 DEF Run
  <2> QED BY <1>0, <2>1 DEF Recorded
<1>5. CASE \E batches \in Batches : Rollback(m, batches)
  BY <1>1, <1>5 DEF Rollback, Doing
<1>6. CASE Up(m)
  <2>1. CASE Ended(m)
    BY <1>1, <2>1 DEF Ended, Doing
  <2>2. CASE command' = [command EXCEPT ![m].done = command[m].done + 1]
    <3>1. Doing(m, "run") /\ command'[m].todo = command[m].todo
      BY <1>1, <1>6, <2>2 DEF Up, Doing, Command
    <3> QED BY <1>3, <1>6, <3>1 DEF Up
  <2> QED BY <1>6, <2>1, <2>2 DEF Up
<1>7. ASSUME NEW kind, Doing(m, kind), command'[m] = Onward(command[m])
      PROVE  kind = "run" /\ k \in command[m].todo /\ k # InHand(command[m]) /\ k \in Steps
  <2>1. command[m] \in Command /\ command[m].todo # {} /\ Bounded(command[m].seen)
    BY <1>1, <1>7 DEF Doing, TypeInv
  <2>2. InHand(command[m]) \in command[m].todo
    BY <2>1, InHandLeft
  <2>3. /\ command'[m].kind = command[m].kind /\ command'[m].todo = command[m].todo \ {InHand(command[m])}
    BY <1>7, <2>1, <2>2, OnwardCommand DEF Doing
  <2> QED BY <1>7, <2>1, <2>3 DEF Doing, Command
<1>8. CASE Record(m)
  <2>1. CASE command' = [command EXCEPT ![m] = Idle]
    BY <1>1, <2>1 DEF Doing
  <2>2. CASE /\ ledger' = [ledger EXCEPT ![InHand(command[m])] = NextBatch(command[m].seen)]
             /\ command' = [command EXCEPT ![m] = Onward(command[m])]
    <3>1. Doing(m, "run") /\ command'[m] = Onward(command[m])
      BY <1>1, <1>8, <2>2 DEF Record
    <3>2. k \in command[m].todo /\ k # InHand(command[m]) /\ k \in Steps
      BY <1>7, <3>1
    <3>3. ledger'[k] = ledger[k]
      BY <1>0, <1>1, <2>2, <3>2
    <3> QED BY <3>1, <3>2, <3>3 DEF LeftUnrecorded
  <2> QED BY <1>8, <2>1, <2>2 DEF Record
<1>9. CASE Down(m)
  BY <1>1, <1>9 DEF Down, Ended, Doing, Command
<1>10. CASE Forget(m)
  <2>1. Doing(m, "rollback") /\ command'[m] = Onward(command[m])
    BY <1>1, <1>10 DEF Forget
  <2> QED BY <1>7, <2>1
<1>11. CASE Cut(m)
  BY <1>1, <1>11 DEF Cut, Ended, Doing
<1>12. CASE UNCHANGED vars
  BY <1>3, <1>12 DEF vars, Doing
<1> QED BY <1>2, <1>4, <1>5, <1>6, <1>8, <1>9, <1>10, <1>11, <1>12 DEF Next, CommandStep

(* "Each runs at most once": one machine whose commands are not cut short  *)
(* never runs a statement whose effect is there, through any number of     *)
(* boots and rollbacks.                                                    *)
THEOREM OnceCorrect ==
    RollbackAlone /\ OneMachine /\ MaxCuts = 0 => (Spec => RunsAtMostOnce)
<1> SUFFICES ASSUME RollbackAlone, OneMachine, MaxCuts = 0 PROVE Spec => RunsAtMostOnce
  OBVIOUS
<1> DEFINE Once == \A m \in Machines :
               Doing(m, "run") /\ command'[m] # Idle /\ command'[m].done > command[m].done =>
                   <<InHand(command[m]), command[m].done + 1>> \notin schema
<1>1. Init => LeftUnrecorded
  BY DEF Init, LeftUnrecorded, Doing
<1>2. TypeInv /\ LeftUnrecorded /\ [Next]_vars => LeftUnrecorded'
  BY LeftStep
<1>3. LedgerInv /\ LedgerInv' /\ CleanInv /\ LeftUnrecorded => Once
  <2> SUFFICES ASSUME LedgerInv, LedgerInv', CleanInv, LeftUnrecorded,
                      NEW m \in Machines, Doing(m, "run"), command'[m] # Idle,
                      command'[m].done > command[m].done,
                      <<InHand(command[m]), command[m].done + 1>> \in schema
               PROVE  FALSE
    OBVIOUS
  <2> DEFINE n == InHand(command[m])
             i == command[m].done + 1
  <2>1. /\ command[m] \in Command /\ command[m].todo # {} /\ Bounded(command[m].seen)
        /\ command'[m] \in Command
    BY DEF LedgerInv, TypeInv, TypeOK, Doing
  <2>2. n \in command[m].todo /\ n \in Steps /\ StatementCount \in Nat
    BY <2>1, InHandLeft, ConstantsAssumption
  <2>3. i \in 1 .. StatementCount
    BY <2>1, <2>2 DEF Command
  <2>4. ledger[n] = 0
    BY <2>2 DEF LeftUnrecorded
  <2>5. cuts = 0
    BY DEF LedgerInv, TypeInv, TypeOK
  <2>6. PICK o \in Machines : Covers(command[o], n, i)
    BY <2>2, <2>3, <2>4, <2>5 DEF CleanInv, Covered
  <2>7. o = m
    BY DEF OneMachine
  <2>8. i <= command[m].done
    BY <2>6, <2>7 DEF Covers
  <2> QED BY <2>1, <2>8 DEF Command
<1>4. Spec => []LedgerInv
  BY LedgerCorrect
<1>5. Spec => []CleanInv
  BY CleanCorrect
<1>6. RunsAtMostOnce <=> [][Once]_vars
  BY DEF RunsAtMostOnce
<1> HIDE DEF Once
<1> QED BY <1>1, <1>2, <1>3, <1>4, <1>5, <1>6, TypeCorrect, PTL DEF Spec
=============================================================================
