------------------------------ MODULE Migrator ------------------------------
(***************************************************************************)
(* Schema migrations (crates/rainier-database/src/migrator.rs): machines   *)
(* that run the pending steps when they boot, and an operator who rolls    *)
(* batches back, with one ledger between them and no lock.                 *)
(*                                                                         *)
(* A step is its place in the order of declaration, and may depend on all  *)
(* the steps before it; the list does not change, so no step is declared   *)
(* between two that were.  The schema is what the statements have made of  *)
(* it: <<n, i>> is the effect of statement i of step n.  A statement       *)
(* commits by itself, and a machine may stop between any two.              *)
(***************************************************************************)
EXTENDS Integers, FiniteSets

CONSTANTS
    Machines,
    Idle,               \* "no command under way"
    StepCount,          \* steps declared
    StatementCount,     \* statements of a step
    Raw,                \* steps whose statements fail when there is nothing to do
    Irreversible,       \* steps whose down refuses
    Lax,                \* steps whose down the database accepts although others build on them
    Retired,            \* ledger names that are no longer in the code
    Batches,            \* the values of --batches considered
    RollbackAlone,      \* whether the operator rolls back with no machine booting
    MaxCuts,            \* bound: commands that stop half-way
    MaxRollbacks        \* bound: rollbacks started

Steps == 1 .. StepCount
Names == Steps \cup Retired
Command == [kind: {"run", "rollback"}, seen: [Names -> Nat], todo: SUBSET Steps, done: 0 .. StatementCount]

ASSUME ConstantsAssumption ==
    /\ {StepCount, StatementCount} \subseteq Nat \ {0}
    /\ Raw \subseteq Steps /\ Irreversible \subseteq Steps /\ Lax \subseteq Steps /\ Retired \cap Steps = {}
    /\ Batches \subseteq Nat /\ RollbackAlone \in BOOLEAN
    /\ {MaxCuts, MaxRollbacks} \subseteq Nat
    /\ Idle \notin Command

VARIABLES
    schema,             \* the effects that are present
    ledger,             \* rainier_migrations: the batch of each name, 0 for no row
    command,            \* what each machine is in the middle of
    cuts, rollbacks,
    torn                \* a command stopped where no later one makes it good

vars == <<schema, ledger, command, cuts, rollbacks, torn>>

Recorded == {n \in Names : ledger[n] # 0}
Effects(n) == {n} \X (1 .. StatementCount)
Doing(m, kind) == command[m] # Idle /\ command[m].kind = kind

Init ==
    /\ schema = {}
    /\ ledger \in {rows \in [Names -> {0, 1}] : \A n \in Steps : rows[n] = 0}
    /\ command = [m \in Machines |-> Idle]
    /\ cuts = 0 /\ rollbacks = 0
    /\ torn = FALSE

-----------------------------------------------------------------------------
(* One more than the largest batch of the ledger that was read.            *)
NextBatch(rows) ==
    1 + CHOOSE b \in {0} \cup {rows[n] : n \in Names} : \A n \in Names : rows[n] <= b

(* The step in hand: run goes through what is pending in order; rollback   *)
(* through the highest batch first, and each batch backwards.              *)
InHand(c) ==
    CHOOSE n \in c.todo : \A k \in c.todo :
        IF c.kind = "run" THEN n <= k
        ELSE c.seen[k] < c.seen[n] \/ (c.seen[k] = c.seen[n] /\ k <= n)

(* On to the next step, or done.                                           *)
Onward(c) ==
    IF c.todo = {InHand(c)} THEN Idle ELSE [c EXCEPT !.todo = @ \ {InHand(c)}, !.done = 0]

(* run reads the ledger once, and goes by what it read.                    *)
Run(m) ==
    /\ command[m] = Idle
    /\ RollbackAlone => \A o \in Machines : ~Doing(o, "rollback")
    /\ Steps \ Recorded # {}
    /\ command' = [command EXCEPT ![m] =
          [kind |-> "run", seen |-> ledger, todo |-> Steps \ Recorded, done |-> 0]]
    /\ UNCHANGED <<schema, ledger, cuts, rollbacks, torn>>

(* The rows of the last so many batches, which need not be contiguous.     *)
RollbackTargets(batches) ==
    {n \in Recorded : Cardinality({ledger[k] : k \in {k \in Recorded : ledger[k] > ledger[n]}}) < batches}

(* rollback refuses before it does anything when a step in range cannot be *)
(* undone, or is not in the code.                                          *)
Rollback(m, batches) ==
    /\ command[m] = Idle
    /\ RollbackAlone => \A o \in Machines : command[o] = Idle
    /\ rollbacks < MaxRollbacks
    /\ LET targets == RollbackTargets(batches)
       IN  /\ targets # {} /\ targets \subseteq Steps \ Irreversible
           /\ command' = [command EXCEPT ![m] =
                 [kind |-> "rollback", seen |-> ledger, todo |-> targets, done |-> 0]]
    /\ rollbacks' = rollbacks + 1
    /\ UNCHANGED <<schema, ledger, cuts, torn>>

-----------------------------------------------------------------------------
(* Mutant: no statement may find its work done.                            *)
UpAcceptedOnce(n, i) ==
    /\ \A k \in Steps : k < n => Effects(k) \subseteq schema
    /\ <<n, i>> \notin schema

(* The database's answer to the next up statement: what it builds on must  *)
(* be there, and what it makes may only if the statement says so (IF NOT   *)
(* EXISTS, or the index that execute takes for applied).                   *)
UpAccepted(n, i) ==
    /\ \A k \in Steps : k < n => Effects(k) \subseteq schema
    /\ n \in Raw => <<n, i>> \notin schema

(* ... and to the next down statement: nothing may build on it any more,   *)
(* where the database looks (a DROP TABLE IF EXISTS passes where foreign   *)
(* keys are not enforced).                                                 *)
DownAccepted(n, i) ==
    /\ n \notin Lax => \A k \in Steps : k > n => Effects(k) \cap schema = {}
    /\ n \in Raw => <<n, i>> \in schema

(* A command ends in the middle of a step: by an error, by a crash.  What  *)
(* is half undone stays recorded, and run passes over it; what is half     *)
(* done is done again, unless its statements will not have that.           *)
Ended(m) ==
    LET c == command[m]
    IN  /\ command' = [command EXCEPT ![m] = Idle]
        /\ torn' = (torn \/ (c.done > 0 /\ (c.kind = "rollback" \/ InHand(c) \in Raw)))

Up(m) ==
    /\ Doing(m, "run") /\ command[m].done < StatementCount
    /\ LET n == InHand(command[m])
           i == command[m].done + 1
       IN  \/ /\ UpAccepted(n, i)
              /\ schema' = schema \cup {<<n, i>>}
              /\ command' = [command EXCEPT ![m].done = i]
              /\ UNCHANGED torn
           \/ /\ ~UpAccepted(n, i)
              /\ Ended(m)
              /\ UNCHANGED schema
    /\ UNCHANGED <<ledger, cuts, rollbacks>>

(* Mutant: the row is written before the last statement.                   *)
RecordEarly(m) ==
    /\ Doing(m, "run") /\ command[m].done >= StatementCount - 1
    /\ LET n == InHand(command[m])
       IN  \/ /\ ledger[n] = 0
              /\ ledger' = [ledger EXCEPT ![n] = NextBatch(command[m].seen)]
              /\ command' = [command EXCEPT ![m] = Onward(command[m])]
           \/ /\ ledger[n] # 0
              /\ command' = [command EXCEPT ![m] = Idle]
              /\ UNCHANGED ledger
    /\ UNCHANGED <<schema, cuts, rollbacks, torn>>

(* Mutant: a row that is already there is replaced.                        *)
RecordOver(m) ==
    /\ Doing(m, "run") /\ command[m].done = StatementCount
    /\ ledger' = [ledger EXCEPT ![InHand(command[m])] = NextBatch(command[m].seen)]
    /\ command' = [command EXCEPT ![m] = Onward(command[m])]
    /\ UNCHANGED <<schema, cuts, rollbacks, torn>>

(* record: the name is the ledger's key, so the second insert fails, and   *)
(* the run with it.                                                        *)
Record(m) ==
    /\ Doing(m, "run") /\ command[m].done = StatementCount
    /\ LET n == InHand(command[m])
       IN  \/ /\ ledger[n] = 0
              /\ ledger' = [ledger EXCEPT ![n] = NextBatch(command[m].seen)]
              /\ command' = [command EXCEPT ![m] = Onward(command[m])]
           \/ /\ ledger[n] # 0
              /\ command' = [command EXCEPT ![m] = Idle]
              /\ UNCHANGED ledger
    /\ UNCHANGED <<schema, cuts, rollbacks, torn>>

(* A step's down undoes its statements backwards.                          *)
Down(m) ==
    /\ Doing(m, "rollback") /\ command[m].done < StatementCount
    /\ LET n == InHand(command[m])
           i == StatementCount - command[m].done
       IN  \/ /\ DownAccepted(n, i)
              /\ schema' = schema \ {<<n, i>>}
              /\ command' = [command EXCEPT ![m].done = @ + 1]
              /\ UNCHANGED torn
           \/ /\ ~DownAccepted(n, i)
              /\ Ended(m)
              /\ UNCHANGED schema
    /\ UNCHANGED <<ledger, cuts, rollbacks>>

(* forget.                                                                 *)
Forget(m) ==
    /\ Doing(m, "rollback") /\ command[m].done = StatementCount
    /\ ledger' = [ledger EXCEPT ![InHand(command[m])] = 0]
    /\ command' = [command EXCEPT ![m] = Onward(command[m])]
    /\ UNCHANGED <<schema, cuts, rollbacks, torn>>

(* The machine dies, or a statement fails for reasons of the database.     *)
Cut(m) ==
    /\ command[m] # Idle
    /\ cuts < MaxCuts
    /\ cuts' = cuts + 1
    /\ Ended(m)
    /\ UNCHANGED <<schema, ledger, rollbacks>>

CommandStep(m) == Up(m) \/ Record(m) \/ Down(m) \/ Forget(m)

Next ==
    \E m \in Machines :
        \/ Run(m)
        \/ \E batches \in Batches : Rollback(m, batches)
        \/ CommandStep(m)
        \/ Cut(m)

(* A command goes on; a machine that has pending steps boots again.        *)
Fairness == \A m \in Machines : WF_vars(CommandStep(m)) /\ WF_vars(Run(m))

Spec == Init /\ [][Next]_vars /\ Fairness

-----------------------------------------------------------------------------
(* Type correctness.                                                       *)
TypeOK ==
    /\ schema \subseteq UNION {Effects(n) : n \in Steps}
    /\ ledger \in [Names -> Nat]
    /\ command \in [Machines -> Command \cup {Idle}]
    /\ cuts \in 0 .. MaxCuts /\ rollbacks \in 0 .. MaxRollbacks
    /\ torn \in BOOLEAN

(* What the ledger says is there: a step that is recorded, and that no     *)
(* rollback has in hand, has all its effects, whoever ran which of its     *)
(* statements.                                                             *)
RecordedIsApplied ==
    ~torn => \A n \in Steps \cap Recorded :
        \/ Effects(n) \subseteq schema
        \/ \E m \in Machines : Doing(m, "rollback") /\ InHand(command[m]) = n

(* The ledger grows and shrinks at its end, and so do its batches, however *)
(* many machines race to apply the same steps: the order in which rollback *)
(* undoes them depends on it.                                              *)
LedgerInOrder ==
    \A n \in Steps \cap Recorded : \A k \in Steps : k < n => 0 < ledger[k] /\ ledger[k] <= ledger[n]

(* "Dependants are dropped before what they depend on": a rollback never   *)
(* comes to a step another one still builds on, unless a run stopped       *)
(* half-way and left the schema with what the ledger does not know.        *)
DependantsFirst ==
    cuts = 0 => \A m \in Machines : Doing(m, "rollback") =>
        \A k \in Steps : k > InHand(command[m]) => Effects(k) \cap schema = {}

(* "A failure part-way leaves it unrecorded and it is retried next boot":  *)
(* in the end every step is applied, and stays so when nobody rolls back.  *)
EventuallyMigrated == <>[](torn \/ (Steps \subseteq Recorded /\ UNION {Effects(n) : n \in Steps} = schema))

(* "Each runs at most once": no statement is run when its effect is there. *)
RunsAtMostOnce ==
    [][\A m \in Machines : Doing(m, "run") /\ command'[m] # Idle /\ command'[m].done > command[m].done =>
          <<InHand(command[m]), command[m].done + 1>> \notin schema]_vars
=============================================================================
