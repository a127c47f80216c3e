------------------------ MODULE ScheduledTaskBuilder ------------------------
(***************************************************************************)
(* A scheduled task from its builder (crates/rainier-scheduler/src/task.rs)*)
(* to its next run: a chain of calls that each set the expression or, when *)
(* it does not parse, keep the one before and note the error; the boot     *)
(* check, which refuses a schedule with an error; and the search of        *)
(* CronExpression.                                                         *)
(***************************************************************************)
EXTENDS CronExpression

CONSTANTS
    Expressions,    \* what cron, daily, monthly_on and the like write; not all of it parses
    DayFields,      \* what on_days is given
    Starts,         \* the midnights next_run is asked for
    MaxCalls        \* bound: the length of a chain

ASSUME BuilderAssumption ==
    /\ Expressions \subseteq Expression /\ DayFields \subseteq Field
    /\ Starts \subseteq Dates
    /\ MaxCalls \in Nat

VARIABLES
    error,
    wanted,         \* the expression that the calls so far ask for
    failed,         \* what of it went wrong, and no later call has made good
    calls

vars == <<expression, fields, from, day, tried, pc, error, wanted, failed, calls>>

EveryMinute == [midnight |-> FALSE, shorthand |-> FALSE, dom |-> Wildcard, month |-> Wildcard, dow |-> Wildcard]

Date(y, m, d, dow) == [year |-> y, month |-> m, day |-> d, dow |-> dow]
NoDay == Date(2000, 1, 1, 6)

Init ==
    /\ expression = EveryMinute
    /\ fields = ParseFields(EveryMinute)
    /\ from = NoDay /\ day = NoDay /\ tried = 0
    /\ pc = "building"
    /\ error = FALSE
    /\ wanted = EveryMinute
    /\ failed = {}
    /\ calls = 0

-----------------------------------------------------------------------------
Call ==
    /\ pc = "building"
    /\ calls < MaxCalls
    /\ calls' = calls + 1
    /\ UNCHANGED <<from, day, tried, pc>>

(* ScheduledTask::with: what does not parse leaves the expression as it was*)
(* and an error, what does parse takes the error away.                     *)
With(e) ==
    \/ /\ AcceptableFields(e)
       /\ expression' = e
       /\ fields' = ParseFields(e)
       /\ error' = FALSE
    \/ /\ ~AcceptableFields(e)
       /\ error' = TRUE
       /\ UNCHANGED <<expression, fields>>

(* cron, and the builders that write a whole expression.                   *)
Cron(e) ==
    /\ Call
    /\ With(e)
    /\ IF AcceptableFields(e)
       THEN wanted' = e /\ failed' = {}
       ELSE UNCHANGED wanted /\ failed' = failed \cup {"expression"}

(* daily_at with a time that is none: parse_time makes midnight of it.     *)
DailyAtMalformed ==
    /\ Call
    /\ With([EveryMinute EXCEPT !.midnight = TRUE])
    /\ failed' = {"time"}
    /\ UNCHANGED wanted

(* Mutant: new days start from the default expression.                     *)
OnDaysAfresh(days) ==
    /\ Call
    /\ With([EveryMinute EXCEPT !.dow = days])
    /\ IF AcceptableFields([EveryMinute EXCEPT !.dow = days])
       THEN wanted' = [wanted EXCEPT !.dow = days] /\ failed' = failed \ {"days"}
       ELSE UNCHANGED wanted /\ failed' = failed \cup {"days"}

(* on_days, weekdays and weekends put the days into the fifth field, of an *)
(* expression that has five; a shorthand is left alone.                    *)
OnDays(days) ==
    /\ Call
    /\ \/ /\ ~expression.shorthand
          /\ With([expression EXCEPT !.dow = days])
          /\ IF AcceptableFields([expression EXCEPT !.dow = days])
             THEN wanted' = [wanted EXCEPT !.dow = days] /\ failed' = failed \ {"days"}
             ELSE UNCHANGED wanted /\ failed' = failed \cup {"days"}
       \/ /\ expression.shorthand
          /\ failed' = failed \cup {"shorthand"}
          /\ UNCHANGED <<expression, fields, error, wanted>>

(* refuse_a_broken_schedule, when schedule:run or schedule:work starts; a  *)
(* task that is accepted is asked for its next run.                        *)
Boot(start) ==
    /\ pc = "building"
    /\ \/ /\ error
          /\ pc' = "refused"
          /\ UNCHANGED <<from, day, tried>>
       \/ /\ ~error
          /\ Search(start)
    /\ calls' = 0
    /\ UNCHANGED <<expression, fields, error, wanted, failed>>

Next ==
    \/ \E e \in Expressions : Cron(e)
    \/ DailyAtMalformed
    \/ \E days \in DayFields : OnDays(days)
    \/ \E start \in Starts : Boot(start)
    \/ SearchStep /\ UNCHANGED <<error, wanted, failed, calls>>

Spec == Init /\ [][Next]_vars

-----------------------------------------------------------------------------
(* Type correctness: what is parsed is a day, a month, a day of the week,  *)
(* and there is one of each.                                               *)
TypeOK ==
    /\ pc \in {"building", "refused", "searching", "found", "none"}
    /\ tried \in 0 .. HorizonDays
    /\ fields.dom.values \in (SUBSET (1 .. 31)) \ {{}}
    /\ fields.month.values \in (SUBSET (1 .. 12)) \ {{}}
    /\ fields.dow.values \in (SUBSET (0 .. 6)) \ {{}}
    /\ day.month \in 1 .. 12 /\ day.day \in 1 .. DaysIn(day.month, day.year) /\ day.dow \in 0 .. 6
    /\ error \in BOOLEAN
    /\ failed \subseteq {"expression", "time", "days", "shorthand"}
    /\ calls \in 0 .. MaxCalls

(* A task that was given nothing wrong next runs on the first day that the *)
(* last whole expression, with the days last asked for, makes due: through *)
(* every order of the calls, every failed one that was made good, and every*)
(* end of month and leap day on the way.                                   *)
NextIsEarliest ==
    [][failed = {} =>
         /\ pc' = "found" => Due(wanted, day)
         /\ pc = "searching" /\ day' # day => ~Due(wanted, day)]_vars

(* "A schedule with a task silently on the wrong expression is worse than  *)
(* one that will not boot": a text that did not parse is refused.          *)
WrongExpressionRefused == pc = "searching" => failed \cap {"expression", "days"} = {}

(* on_days: "Replace the day-of-week field", of any expression.            *)
DaysAsAsked == pc = "searching" => "shorthand" \notin failed

(* "A time that does not parse leaves the task on its previous schedule    *)
(* rather than panicking; Schedule::errors reports it."                    *)
MalformedTimeRefused == pc = "searching" => "time" \notin failed
=============================================================================
