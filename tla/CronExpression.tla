--------------------------- MODULE CronExpression ---------------------------
(***************************************************************************)
(* Cron expressions (crates/rainier-scheduler/src/cron.rs): what a field's *)
(* text is parsed into, when an expression fires, and the search for the   *)
(* next time it does.                                                      *)
(*                                                                         *)
(* A field is the set of its comma-separated parts; a part is its numbers  *)
(* (names are numbers already) before they are checked.  The text `*/1`,   *)
(* every value but no wildcard, is written as the range it stands for.  Of *)
(* the time of day an expression keeps whether it is midnight alone or     *)
(* every minute: the search that tries every minute is taken a day at a    *)
(* time.                                                                   *)
(***************************************************************************)
EXTENDS Integers, FiniteSets

CONSTANTS
    HorizonDays     \* days tried before the search gives up; 4 * 366 in the code

ASSUME HorizonAssumption == HorizonDays \in Nat

VARIABLES
    expression,     \* the text
    fields,         \* what it was parsed into
    from, day,      \* where the search began; its candidate
    tried,          \* candidates before this one
    pc              \* building, refused, searching, found, none

searched == <<expression, fields, from>>

-----------------------------------------------------------------------------
Star(step) == [kind |-> "star", from |-> 0, to |-> 0, step |-> step]
Value(n, step) == [kind |-> "value", from |-> n, to |-> n, step |-> step]
Between(a, b, step) == [kind |-> "range", from |-> a, to |-> b, step |-> step]

Wildcard == {Star(1)}

Part == [kind: {"star", "value", "range"}, from: Nat, to: Nat, step: Nat]
Field == (SUBSET Part) \ {{}}
Expression == [midnight: BOOLEAN, shorthand: BOOLEAN, dom: Field, month: Field, dow: Field]

(* The range a part stands for, in a field of min .. max.                  *)
Span(part, min, max) ==
    [from |-> IF part.kind = "star" THEN min ELSE part.from,
     to   |-> IF part.kind = "star" \/ (part.kind = "value" /\ part.step > 1) THEN max
              ELSE IF part.kind = "range" THEN part.to ELSE part.from]

Acceptable(part, min, max) ==
    LET span == Span(part, min, max)
    IN  part.step # 0 /\ span.from <= span.to /\ min <= span.from /\ span.to <= max

Stepped(part, min, max) ==
    LET span == Span(part, min, max)
    IN  {n \in span.from .. span.to : (n - span.from) % part.step = 0}

ParseField(field, min, max) ==
    [values |-> UNION {Stepped(part, min, max) : part \in field}, wildcard |-> field = Wildcard]

(* Day of week is 0 .. 7, and 7 is Sunday again.                           *)
ParseDayOfWeek(field) ==
    LET parsed == ParseField(field, 0, 7)
    IN  [parsed EXCEPT !.values = {n % 7 : n \in @}]

ParseFields(e) ==
    [dom |-> ParseField(e.dom, 1, 31), month |-> ParseField(e.month, 1, 12), dow |-> ParseDayOfWeek(e.dow)]

AcceptableFields(e) ==
    /\ \A part \in e.dom : Acceptable(part, 1, 31)
    /\ \A part \in e.month : Acceptable(part, 1, 12)
    /\ \A part \in e.dow : Acceptable(part, 0, 7)

(* CronExpression::matches, at midnight.                                   *)
Matches(f, d) ==
    /\ d.month \in f.month.values
    /\ IF f.dom.wildcard \/ f.dow.wildcard
       THEN d.day \in f.dom.values /\ d.dow \in f.dow.values
       ELSE d.day \in f.dom.values \/ d.dow \in f.dow.values

-----------------------------------------------------------------------------
(* The calendar of chrono.                                                 *)
LeapYear(year) == year % 4 = 0 /\ (year % 100 = 0 => year % 400 = 0)

DaysIn(month, year) ==
    IF month = 2 THEN IF LeapYear(year) THEN 29 ELSE 28
    ELSE IF month \in {4, 6, 9, 11} THEN 30 ELSE 31

Dates ==
    {d \in [year: Nat, month: 1 .. 12, day: 1 .. 31, dow: 0 .. 6] : d.day <= DaysIn(d.month, d.year)}

NextDay(d) ==
    LET lastOfMonth == d.day = DaysIn(d.month, d.year)
        lastOfYear == lastOfMonth /\ d.month = 12
    IN  [year |-> IF lastOfYear THEN d.year + 1 ELSE d.year,
         month |-> IF lastOfMonth THEN (d.month % 12) + 1 ELSE d.month,
         day |-> IF lastOfMonth THEN 1 ELSE d.day + 1,
         dow |-> (d.dow + 1) % 7]

-----------------------------------------------------------------------------
(* next_after starts past the minute it is given, which is a midnight.     *)
Search(start) ==
    /\ from' = start
    /\ day' = IF expression.midnight THEN NextDay(start) ELSE start
    /\ tried' = 0
    /\ pc' = "searching"

Found ==
    /\ pc = "searching"
    /\ tried < HorizonDays
    /\ Matches(fields, day)
    /\ pc' = "found"
    /\ UNCHANGED <<searched, day, tried>>

(* Mutant: the search tries half of the candidates it says.                *)
TryNextTwice ==
    /\ pc = "searching"
    /\ tried < HorizonDays
    /\ ~Matches(fields, day)
    /\ day' = NextDay(day)
    /\ tried' = tried + 2
    /\ UNCHANGED <<searched, pc>>

TryNext ==
    /\ pc = "searching"
    /\ tried < HorizonDays
    /\ ~Matches(fields, day)
    /\ day' = NextDay(day)
    /\ tried' = tried + 1
    /\ UNCHANGED <<searched, pc>>

GiveUp ==
    /\ pc = "searching"
    /\ tried = HorizonDays
    /\ pc' = "none"
    /\ UNCHANGED <<searched, day, tried>>

SearchStep == Found \/ TryNext \/ GiveUp

-----------------------------------------------------------------------------
(* The reference: what the module doc says of a field, read off its text:  *)
(* "`*`, a number, a `a-b` range" and "a `/n` step on any of those", where  *)
(* "a bare value with a step is a range to the end of the field".          *)
Listed(field, n, min, max) ==
    \E part \in field :
        \/ part.kind = "value" /\ part.step <= 1 /\ n = part.from
        \/ \E i \in 0 .. max - min :
              \/ part.kind = "star" /\ n = min + i * part.step
              \/ part.kind = "value" /\ part.step > 1 /\ n = part.from + i * part.step /\ n <= max
              \/ part.kind = "range" /\ n = part.from + i * part.step /\ n <= part.to

(* "`0 0 13 * 5` is the 13th, and also every Friday.  The rule only        *)
(* applies when both are restricted.  If either is `*`, the other decides  *)
(* alone."  "7 is also Sunday."                                            *)
Due(e, d) ==
    LET dom == Listed(e.dom, d.day, 1, 31)
        dow == Listed(e.dow, d.dow, 0, 7) \/ (d.dow = 0 /\ Listed(e.dow, 7, 0, 7))
    IN  /\ Listed(e.month, d.month, 1, 12)
        /\ IF e.dom = Wildcard THEN dow
           ELSE IF e.dow = Wildcard THEN dom
           ELSE dom \/ dow

(* "The next time at or after `from` that this fires."                     *)
AtOrAfter == pc = "found" => day = from \/ ~Due(expression, from)

(* "Four covers a leap year in every position": the search gives up only   *)
(* on a day no year has.                                                   *)
GivesUpOnlyOnNever ==
    pc = "none" =>
        \A month \in 1 .. 12 : Listed(expression.month, month, 1, 12) =>
            \A n \in 1 .. DaysIn(month, 2000) : ~Listed(expression.dom, n, 1, 31)

(* "A bare value with a step is a range to the end of the field, not one   *)
(* value", and the last day of a week is Saturday.                         *)
BareStepIsRange ==
    pc \in {"searching", "found", "none"} =>
        \A part \in expression.dow : part.kind = "value" /\ part.step > 1 /\ expression.dow = {part} =>
            fields.dow.values = {n \in part.from .. 6 : (n - part.from) % part.step = 0}
=============================================================================
