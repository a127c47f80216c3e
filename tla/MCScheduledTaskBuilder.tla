----------------------- MODULE MCScheduledTaskBuilder -----------------------
(* Instances of ScheduledTaskBuilder for TLC.                              *)
EXTENDS ScheduledTaskBuilder

(* The end of a leap February and the day after it, the turn of a year, a  *)
(* Sunday in summer.                                                       *)
MCStarts == {Date(2024, 2, 27, 2), Date(2024, 3, 1, 5), Date(2026, 12, 30, 3), Date(2026, 7, 12, 0)}

(* The 1st of March before a century that has no leap day.                 *)
CenturyStarts == {Date(2096, 3, 1, 4)}

DomFields == {Wildcard, {Value(13, 1)}, {Value(29, 1)}, {Value(30, 1)}, {Between(1, 31, 15)}, {Star(10)},
              {Value(1, 1), Between(28, 30, 1)}, {Value(32, 1)}}
MonthFields == {Wildcard, {Value(2, 1)}, {Between(11, 12, 1), Value(6, 1)}, {Between(5, 2, 1)}}
DowFields == {Wildcard, {Value(5, 1)}, {Value(7, 1)}, {Between(5, 7, 1)}, {Star(2)}, {Star(0)}, {Value(0, 1), Value(6, 1)}}

Midnights(doms, months, dows) ==
    [midnight: {TRUE}, shorthand: {FALSE}, dom: doms, month: months, dow: dows]

(* "@daily".                                                               *)
Daily == [EveryMinute EXCEPT !.midnight = TRUE, !.shorthand = TRUE]

MCExpressions == {Daily, EveryMinute} \cup Midnights(DomFields, MonthFields, {Wildcard, {Value(5, 1)}})

(* The 29th of February, and days that are not.                            *)
LeapDays == Midnights({{Value(29, 1)}, {Value(31, 1)}}, {{Value(2, 1)}, {Between(2, 3, 1)}}, {Wildcard})

SteppedDays == Midnights({Wildcard}, {Wildcard}, {{Value(n, step)} : n \in 0 .. 6, step \in 1 .. 4})
=============================================================================
