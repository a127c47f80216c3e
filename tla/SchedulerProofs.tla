--------------------------- MODULE SchedulerProofs ---------------------------
(* Proofs about rainier-scheduler: what a task's expression is parsed into,*)
(* when it is next due and when the search gives up, for every expression  *)
(* and every start; and the one-server claim and the overlap lock, for any *)
(* number of machines.                                                     *)
EXTENDS ScheduledTaskBuilder, Scheduler, TLAPS

(* The multiples of a step are what leaves no remainder.                   *)
LEMMA Multiples ==
    ASSUME NEW n \in Nat, NEW step \in Nat, step > 0
    PROVE  n % step = 0 <=> \E i \in 0 .. n : n = i * step
<1>1. ASSUME n % step = 0 PROVE \E i \in 0 .. n : n = i * step
  <2>1. n = (n \div step) * step /\ n \div step \in Int
    BY <1>1
  <2>2. n \div step \in 0 .. n
    BY <2>1
  <2> QED BY <2>1, <2>2
<1>2. ASSUME NEW i \in 0 .. n, n = i * step PROVE n % step = 0
  BY <1>2
<1> QED BY <1>1, <1>2

(* What a part is parsed into lies in its field's range, and is something. *)
LEMMA PartParsed ==
    ASSUME NEW min \in Nat, NEW max \in Nat, NEW part \in Part, Acceptable(part, min, max)
    PROVE  Stepped(part, min, max) \subseteq min .. max /\ Stepped(part, min, max) # {}
<1> DEFINE a == Span(part, min, max).from
           b == Span(part, min, max).to
<1>1. a \in Nat /\ b \in Nat /\ min <= a /\ a <= b /\ b <= max /\ part.step \in Nat /\ part.step > 0
  BY DEF Acceptable, Part, Span
<1>2. Stepped(part, min, max) = {n \in a .. b : (n - a) % part.step = 0}
  BY DEF Stepped
<1> HIDE DEF a, b
<1>3. (a - a) % part.step = 0
  <2>1. \E i \in 0 .. 0 : 0 = i * part.step
    BY <1>1
  <2>2. 0 % part.step = 0
    BY <1>1, <2>1, Multiples
  <2> QED BY <1>1, <2>2
<1>4. a \in Stepped(part, min, max)
  BY <1>1, <1>2, <1>3
<1>5. Stepped(part, min, max) \subseteq min .. max
  BY <1>1, <1>2
<1> QED BY <1>4, <1>5

(* A number of the field's range is one of a part's parsed values exactly  *)
(* when the text of the part lists it.                                     *)
LEMMA PartListed ==
    ASSUME NEW min \in Nat, NEW max \in Nat, NEW part \in Part, Acceptable(part, min, max),
           NEW n \in min .. max
    PROVE  n \in Stepped(part, min, max) <=> Listed({part}, n, min, max)
<1> DEFINE a == Span(part, min, max).from
           b == Span(part, min, max).to
           s == part.step
<1>1. a \in Nat /\ b \in Nat /\ min <= a /\ a <= b /\ b <= max /\ s \in Nat /\ s > 0
  BY DEF Acceptable, Part, Span
<1>2. n \in Stepped(part, min, max) <=> n \in a .. b /\ (n - a) % s = 0
  BY DEF Stepped
<1>3. n \in Stepped(part, min, max) <=> n \in a .. b /\ \E i \in 0 .. max - min : n = a + i * s
  <2>1. ASSUME n \in a .. b
        PROVE  (n - a) % s = 0 <=> \E i \in 0 .. n - a : n - a = i * s
    <3> HIDE DEF a, b, s
    <3>1. n - a \in Nat /\ s \in Nat /\ s > 0
      BY <1>1, <2>1
    <3> QED BY <3>1, Multiples, Zenon
  <2>2. ASSUME n \in a .. b
        PROVE  (\E i \in 0 .. n - a : n - a = i * s) <=> (\E i \in 0 .. max - min : n = a + i * s)
    <3> HIDE DEF a, b, s
    <3>1. ASSUME NEW i \in 0 .. n - a, n - a = i * s PROVE i \in 0 .. max - min /\ n = a + i * s
      BY <1>1, <2>2, <3>1
    <3>2. ASSUME NEW i \in 0 .. max - min, n = a + i * s PROVE i \in 0 .. n - a /\ n - a = i * s
      BY <1>1, <2>2, <3>2
    <3> QED BY <3>1, <3>2
  <2> QED BY <1>2, <2>1, <2>2
<1>4. CASE part.kind = "star"
  <2>1. a = min /\ b = max
    BY <1>4 DEF Span
  <2>2. Listed({part}, n, min, max) <=> \E i \in 0 .. max - min : n = min + i * s
    BY <1>4 DEF Listed
  <2> HIDE DEF a, b, s
  <2> QED BY <1>3, <2>1, <2>2
<1>5. CASE part.kind = "range"
  <2>1. a = part.from /\ b = part.to
    BY <1>5 DEF Span
  <2>2. Listed({part}, n, min, max) <=> \E i \in 0 .. max - min : n = part.from + i * s /\ n <= part.to
    BY <1>5 DEF Listed
  <2> HIDE DEF a, b, s
  <2>3. ASSUME NEW i \in 0 .. max - min, n = a + i * s PROVE n >= a
    BY <1>1, <2>3
  <2>4. (\E i \in 0 .. max - min : n = a + i * s /\ n <= b)
           <=> (\E i \in 0 .. max - min : n = a + i * s) /\ n <= b
    OBVIOUS
  <2>5. (\E i \in 0 .. max - min : n = a + i * s) => n >= a
    BY <2>3
  <2>6. n \in a .. b <=> n >= a /\ n <= b
    BY <1>1
  <2> QED BY <1>3, <2>1, <2>2, <2>4, <2>5, <2>6, Zenon
<1>6. CASE part.kind = "value" /\ s > 1
  <2>1. a = part.from /\ b = max
    BY <1>6 DEF Span
  <2>2. Listed({part}, n, min, max) <=> \E i \in 0 .. max - min : n = part.from + i * s /\ n <= max
    <3>1. ~(part.step <= 1)
      BY <1>1, <1>6
    <3> QED BY <1>6, <3>1 DEF Listed
  <2> HIDE DEF a, b, s
  <2>3. ASSUME NEW i \in 0 .. max - min, n = a + i * s PROVE n >= a
    BY <1>1, <2>3
  <2>4. (\E i \in 0 .. max - min : n = a + i * s /\ n <= b)
           <=> (\E i \in 0 .. max - min : n = a + i * s) /\ n <= b
    OBVIOUS
  <2>5. (\E i \in 0 .. max - min : n = a + i * s) => n >= a
    BY <2>3
  <2>6. n \in a .. b <=> n >= a /\ n <= b
    BY <1>1
  <2> QED BY <1>3, <2>1, <2>2, <2>4, <2>5, <2>6, Zenon
<1>7. CASE part.kind = "value" /\ ~(s > 1)
  <2>1. a = part.from /\ b = part.from /\ s = 1
    BY <1>1, <1>7 DEF Span
  <2>2. Listed({part}, n, min, max) <=> n = part.from
    BY <1>1, <1>7 DEF Listed
  <2> HIDE DEF a, b, s
  <2>3. 0 \in 0 .. max - min /\ (n = a => n = a + 0 * s)
    BY <1>1
  <2> QED BY <1>1, <1>3, <2>1, <2>2, <2>3
<1> QED BY <1>4, <1>5, <1>6, <1>7 DEF Part

(* The same of a whole field.                                              *)
LEMMA FieldListed ==
    ASSUME NEW min \in Nat, NEW max \in Nat, NEW field \in Field,
           \A part \in field : Acceptable(part, min, max)
    PROVE  /\ ParseField(field, min, max).values \subseteq min .. max
           /\ ParseField(field, min, max).values # {}
           /\ \A n \in min .. max :
                 n \in ParseField(field, min, max).values <=> Listed(field, n, min, max)
           /\ ParseField(field, min, max).wildcard = (field = Wildcard)
<1> DEFINE V == UNION {Stepped(part, min, max) : part \in field}
<1>1. ParseField(field, min, max).values = V /\ ParseField(field, min, max).wildcard = (field = Wildcard)
  BY DEF ParseField
<1>2. \A part \in field : /\ part \in Part
                             /\ Stepped(part, min, max) \subseteq min .. max
                             /\ Stepped(part, min, max) # {}
  BY PartParsed DEF Field
<1>3. field # {}
  BY DEF Field
<1>4. V \subseteq min .. max
  BY <1>2
<1>6. V # {}
  <2>1. PICK part \in field : TRUE
    BY <1>3
  <2>2. PICK n \in Stepped(part, min, max) : TRUE
    BY <1>2
  <2>3. n \in V
    OBVIOUS
  <2> QED BY <2>3
<1>5. ASSUME NEW n \in min .. max
      PROVE  n \in V <=> Listed(field, n, min, max)
  <2>1. \A part \in field : n \in Stepped(part, min, max) <=> Listed({part}, n, min, max)
    BY <1>2, PartListed
  <2>2. n \in V <=> \E part \in field : n \in Stepped(part, min, max)
    OBVIOUS
  <2>3. Listed(field, n, min, max) <=> \E part \in field : Listed({part}, n, min, max)
    BY DEF Listed
  <2> QED BY <2>1, <2>2, <2>3
<1> HIDE DEF V
<1> QED BY <1>1, <1>4, <1>5, <1>6

(* The parsed days of the week are 0 .. 6, and are what the text lists,    *)
(* Sunday under either of its numbers.                                     *)
LEMMA DayOfWeekListed ==
    ASSUME NEW field \in Field, \A part \in field : Acceptable(part, 0, 7)
    PROVE  /\ ParseDayOfWeek(field).values \subseteq 0 .. 6
           /\ ParseDayOfWeek(field).values # {}
           /\ \A w \in 0 .. 6 :
                 w \in ParseDayOfWeek(field).values
                    <=> Listed(field, w, 0, 7) \/ (w = 0 /\ Listed(field, 7, 0, 7))
           /\ ParseDayOfWeek(field).wildcard = (field = Wildcard)
<1> DEFINE P == ParseField(field, 0, 7)
           V == P.values
<1>1. /\ V \subseteq 0 .. 7 /\ V # {}
      /\ \A n \in 0 .. 7 : n \in V <=> Listed(field, n, 0, 7)
      /\ P.wildcard = (field = Wildcard)
  <2>1. V \subseteq 0 .. 7 /\ V # {}
    BY FieldListed
  <2>2. \A n \in 0 .. 7 : n \in V <=> Listed(field, n, 0, 7)
    BY FieldListed
  <2>3. P.wildcard = (field = Wildcard)
    BY DEF ParseField
  <2> QED BY <2>1, <2>2, <2>3
<1>2. /\ ParseDayOfWeek(field).values = {n % 7 : n \in V}
      /\ ParseDayOfWeek(field).wildcard = P.wildcard
  BY DEF ParseDayOfWeek, ParseField
<1> HIDE DEF V, P
<1>3. \A n \in 0 .. 7 : n % 7 \in 0 .. 6 /\ (n = 7 => n % 7 = 0) /\ (n # 7 => n % 7 = n)
  OBVIOUS
<1>4. {n % 7 : n \in V} \subseteq 0 .. 6 /\ {n % 7 : n \in V} # {}
  <2>1. PICK n \in V : TRUE
    BY <1>1
  <2>2. n % 7 \in {k % 7 : k \in V}
    OBVIOUS
  <2> QED BY <1>1, <1>3, <2>2
<1>5. ASSUME NEW w \in 0 .. 6
      PROVE  w \in {n % 7 : n \in V} <=> w \in V \/ (w = 0 /\ 7 \in V)
  <2>1. w \in {n % 7 : n \in V} <=> \E n \in V : w = n % 7
    OBVIOUS
  <2> QED BY <1>1, <1>3, <2>1
<1> QED BY <1>1, <1>2, <1>4, <1>5

(* What an expression that parses is parsed into: days, months and days of *)
(* the week, at least one of each.                                         *)
FieldsOK(f) ==
    /\ f.dom.values \in (SUBSET (1 .. 31)) \ {{}}
    /\ f.month.values \in (SUBSET (1 .. 12)) \ {{}}
    /\ f.dow.values \in (SUBSET (0 .. 6)) \ {{}}

(* Parsing what parses gives such fields.                                  *)
LEMMA ParsedOK ==
    ASSUME NEW e \in Expression, AcceptableFields(e)
    PROVE  FieldsOK(ParseFields(e))
<1> DEFINE f == ParseFields(e)
<1>1. e.dom \in Field /\ e.month \in Field /\ e.dow \in Field
  BY DEF Expression
<1>2. /\ f.dom = ParseField(e.dom, 1, 31) /\ f.month = ParseField(e.month, 1, 12)
      /\ f.dow = ParseDayOfWeek(e.dow)
  BY DEF ParseFields
<1>3. f.dom.values \subseteq 1 .. 31 /\ f.dom.values # {}
  <2>1. \A part \in e.dom : Acceptable(part, 1, 31)
    BY DEF AcceptableFields
  <2>2. /\ ParseField(e.dom, 1, 31).values \subseteq 1 .. 31
        /\ ParseField(e.dom, 1, 31).values # {}
    BY <1>1, <2>1, FieldListed
  <2> QED BY <1>2, <2>2
<1>4. f.month.values \subseteq 1 .. 12 /\ f.month.values # {}
  <2>1. \A part \in e.month : Acceptable(part, 1, 12)
    BY DEF AcceptableFields
  <2>2. /\ ParseField(e.month, 1, 12).values \subseteq 1 .. 12
        /\ ParseField(e.month, 1, 12).values # {}
    BY <1>1, <2>1, FieldListed
  <2> QED BY <1>2, <2>2
<1>5. f.dow.values \subseteq 0 .. 6 /\ f.dow.values # {}
  BY <1>1, <1>2, DayOfWeekListed DEF AcceptableFields
<1> HIDE DEF f
<1> QED BY <1>3, <1>4, <1>5 DEF FieldsOK, f

(* An expression that parses matches a day exactly when its text makes the *)
(* day due.                                                                *)
LEMMA MatchesIsDue ==
    ASSUME NEW e \in Expression, AcceptableFields(e),
           NEW d, d.month \in 1 .. 12, d.day \in 1 .. 31, d.dow \in 0 .. 6
    PROVE  Matches(ParseFields(e), d) <=> Due(e, d)
<1> DEFINE f == ParseFields(e)
           dom == Listed(e.dom, d.day, 1, 31)
           dow == Listed(e.dow, d.dow, 0, 7) \/ (d.dow = 0 /\ Listed(e.dow, 7, 0, 7))
           month == Listed(e.month, d.month, 1, 12)
<1>1. e.dom \in Field /\ e.month \in Field /\ e.dow \in Field
  BY DEF Expression
<1>2. /\ f.dom = ParseField(e.dom, 1, 31) /\ f.month = ParseField(e.month, 1, 12)
      /\ f.dow = ParseDayOfWeek(e.dow)
  BY DEF ParseFields
<1>3. d.day \in f.dom.values <=> dom
  <2>1. \A part \in e.dom : Acceptable(part, 1, 31)
    BY DEF AcceptableFields
  <2>2. \A n \in 1 .. 31 : n \in ParseField(e.dom, 1, 31).values <=> Listed(e.dom, n, 1, 31)
    BY <1>1, <2>1, FieldListed
  <2> QED BY <1>2, <2>2
<1>4. d.month \in f.month.values <=> month
  <2>1. \A part \in e.month : Acceptable(part, 1, 12)
    BY DEF AcceptableFields
  <2>2. \A n \in 1 .. 12 : n \in ParseField(e.month, 1, 12).values <=> Listed(e.month, n, 1, 12)
    BY <1>1, <2>1, FieldListed
  <2> QED BY <1>2, <2>2
<1>5. d.dow \in f.dow.values <=> dow
  BY <1>1, <1>2, DayOfWeekListed DEF AcceptableFields
<1>6. f.dom.wildcard = (e.dom = Wildcard)
  BY <1>2 DEF ParseField
<1>7. f.dow.wildcard = (e.dow = Wildcard)
  BY <1>1, <1>2, DayOfWeekListed DEF AcceptableFields
<1>8. e.dom = Wildcard => dom
  <2>1. d.day = 1 + (d.day - 1) * 1 /\ d.day - 1 \in 0 .. 31 - 1
    OBVIOUS
  <2> QED BY <2>1 DEF Wildcard, Star, Listed
<1>9. e.dow = Wildcard => dow
  <2>1. d.dow = 0 + d.dow * 1 /\ d.dow \in 0 .. 7 - 0
    OBVIOUS
  <2> QED BY <2>1 DEF Wildcard, Star, Listed
<1>10. Due(e, d) <=> /\ month
                     /\ IF e.dom = Wildcard THEN dow ELSE IF e.dow = Wildcard THEN dom ELSE dom \/ dow
  BY DEF Due
<1>11. Matches(f, d) <=> /\ d.month \in f.month.values
                         /\ IF f.dom.wildcard \/ f.dow.wildcard
                            THEN d.day \in f.dom.values /\ d.dow \in f.dow.values
                            ELSE d.day \in f.dom.values \/ d.dow \in f.dow.values
  BY DEF Matches
<1> HIDE DEF f, dom, dow, month
<1> QED BY <1>3, <1>4, <1>5, <1>6, <1>7, <1>8, <1>9, <1>10, <1>11 DEF f

-----------------------------------------------------------------------------
(* A month has 28 to 31 days.                                              *)
LEMMA MonthLength ==
    ASSUME NEW month \in 1 .. 12, NEW year \in Nat
    PROVE  DaysIn(month, year) \in 28 .. 31
BY DEF DaysIn

(* The day after a day of the calendar is one.                             *)
LEMMA NextDayOK ==
    ASSUME NEW d \in Dates
    PROVE  NextDay(d) \in Dates
<1> DEFINE monthEnds == d.day = DaysIn(d.month, d.year)
<1>1. /\ d.year \in Nat /\ d.month \in 1 .. 12 /\ d.day \in 1 .. 31 /\ d.dow \in 0 .. 6
      /\ d.day <= DaysIn(d.month, d.year)
  BY DEF Dates
<1>2. DaysIn(d.month, d.year) \in 28 .. 31
  BY <1>1, MonthLength
<1>3. (d.dow + 1) % 7 \in 0 .. 6
  BY <1>1
<1>4. CASE ~monthEnds
  <2>1. d.day + 1 \in 1 .. 31 /\ d.day + 1 <= DaysIn(d.month, d.year)
    BY <1>1, <1>2, <1>4
  <2>2. NextDay(d) = [year |-> d.year, month |-> d.month, day |-> d.day + 1, dow |-> (d.dow + 1) % 7]
    BY <1>4 DEF NextDay
  <2> QED BY <1>1, <1>3, <2>1, <2>2 DEF Dates
<1>5. CASE monthEnds
  <2> DEFINE y == IF d.month = 12 THEN d.year + 1 ELSE d.year
             m == (d.month % 12) + 1
  <2>1. y \in Nat /\ m \in 1 .. 12
    BY <1>1
  <2>2. 1 <= DaysIn(m, y)
    <3> HIDE DEF y, m
    <3> QED BY <2>1, MonthLength
  <2>3. NextDay(d) = [year |-> y, month |-> m, day |-> 1, dow |-> (d.dow + 1) % 7]
    BY <1>5 DEF NextDay
  <2> HIDE DEF y, m
  <2> QED BY <1>3, <2>1, <2>2, <2>3 DEF Dates
<1> QED BY <1>4, <1>5

(* The default expression parses.                                          *)
LEMMA EveryMinuteOK == EveryMinute \in Expression /\ AcceptableFields(EveryMinute)
<1>1. Wildcard \in Field
  <2>1. Star(1) \in Part
    BY DEF Star, Part
  <2> QED BY <2>1 DEF Wildcard, Field
<1>2. EveryMinute \in Expression
  BY <1>1 DEF EveryMinute, Expression
<1>3. \A min, max \in Nat : min <= max => \A part \in Wildcard : Acceptable(part, min, max)
  BY DEF Wildcard, Star, Acceptable, Span
<1> QED BY <1>2, <1>3 DEF EveryMinute, AcceptableFields

(* The inductive invariant of the builder: the expression in force is one  *)
(* that parses, the fields are what it parses into, and it is the one asked*)
(* for unless something other than a list of days went wrong.              *)
BuildInv ==
    /\ TypeOK
    /\ expression \in Expression /\ AcceptableFields(expression)
    /\ fields = ParseFields(expression)
    /\ wanted \in Expression
    /\ failed \subseteq {"days"} => wanted = expression
    /\ from \in Dates /\ day \in Dates

(* It holds of a new task.                                                 *)
LEMMA BuildInit == Init => BuildInv
<1> SUFFICES ASSUME Init PROVE BuildInv
  OBVIOUS
<1>1. NoDay \in Dates
  BY DEF NoDay, Date, Dates, DaysIn
<1>2. FieldsOK(ParseFields(EveryMinute))
  BY EveryMinuteOK, ParsedOK
<1>3. day.month \in 1 .. 12 /\ day.day \in 1 .. DaysIn(day.month, day.year) /\ day.dow \in 0 .. 6
  BY DEF Init, NoDay, Date, DaysIn
<1>4. TypeOK
  <2>1. tried \in 0 .. HorizonDays /\ calls \in 0 .. MaxCalls
    BY HorizonAssumption, BuilderAssumption DEF Init
  <2>2. error \in BOOLEAN /\ failed \subseteq {"expression", "time", "days", "shorthand"}
    BY DEF Init
  <2>3. pc \in {"building", "refused", "searching", "found", "none"} /\ FieldsOK(fields)
    BY <1>2 DEF Init
  <2> QED BY <1>3, <2>1, <2>2, <2>3, Zenon DEF TypeOK, FieldsOK
<1> QED BY <1>1, <1>4, EveryMinuteOK DEF Init, BuildInv

(* A call that sets the expression leaves one that parses.                 *)
LEMMA WithStep ==
    ASSUME BuildInv, NEW e \in Expression, With(e)
    PROVE  /\ expression' \in Expression /\ AcceptableFields(expression')
           /\ fields' = ParseFields(expression') /\ FieldsOK(fields')
           /\ error' \in BOOLEAN
<1>1. CASE AcceptableFields(e)
  <2>1. expression' = e /\ fields' = ParseFields(e) /\ error' = FALSE
    BY <1>1 DEF With
  <2>2. FieldsOK(ParseFields(e))
    BY <1>1, ParsedOK
  <2> QED BY <1>1, <2>1, <2>2
<1>2. CASE ~AcceptableFields(e)
  <2>1. expression' = expression /\ fields' = fields /\ error' = TRUE
    BY <1>2 DEF With
  <2> QED BY <2>1 DEF BuildInv, TypeOK, FieldsOK
<1> QED BY <1>1, <1>2

(* Every step keeps it.                                                    *)
LEMMA BuildStep == BuildInv /\ [Next]_vars => BuildInv'
<1> SUFFICES ASSUME BuildInv, [Next]_vars PROVE BuildInv'
  OBVIOUS
<1> DEFINE Dated == /\ day.month \in 1 .. 12 /\ day.day \in 1 .. DaysIn(day.month, day.year)
                    /\ day.dow \in 0 .. 6
           Rest == /\ tried \in 0 .. HorizonDays
                   /\ failed \subseteq {"expression", "time", "days", "shorthand"}
                   /\ calls \in 0 .. MaxCalls
                   /\ pc \in {"building", "refused", "searching", "found", "none"}
           Parsed == /\ expression \in Expression /\ AcceptableFields(expression)
                     /\ fields = ParseFields(expression) /\ FieldsOK(fields)
                     /\ error \in BOOLEAN
           Asked == wanted \in Expression /\ (failed \subseteq {"days"} => wanted = expression)
<1>1. Rest /\ Parsed /\ Asked /\ from \in Dates /\ day \in Dates
  BY DEF BuildInv, TypeOK, FieldsOK
<1>2. SUFFICES Rest' /\ Parsed' /\ Asked' /\ from' \in Dates /\ day' \in Dates
  <2>1. ASSUME day' \in Dates PROVE Dated'
    <3>1. \A d \in Dates : /\ d.month \in 1 .. 12 /\ d.day \in 1 .. DaysIn(d.month, d.year)
                           /\ d.dow \in 0 .. 6
      <4> TAKE d \in Dates
      <4>1. /\ d.month \in 1 .. 12 /\ d.year \in Nat /\ d.day \in 1 .. 31 /\ d.dow \in 0 .. 6
            /\ d.day <= DaysIn(d.month, d.year)
        BY DEF Dates
      <4> QED BY <4>1, MonthLength
    <3> QED BY <2>1, <3>1
  <2> QED BY <2>1, Zenon DEF BuildInv, TypeOK, FieldsOK
<1>3. ASSUME NEW e \in Expressions, Cron(e)
      PROVE  Rest' /\ Parsed' /\ Asked' /\ from' \in Dates /\ day' \in Dates
  <2>1. e \in Expression /\ With(e)
    BY <1>3, BuilderAssumption DEF Cron
  <2>2. Parsed'
    BY <2>1, WithStep
  <2>3. calls \in Nat /\ calls < MaxCalls /\ calls' = calls + 1 /\ MaxCalls \in Nat
    BY <1>1, <1>3, BuilderAssumption DEF Cron, Call
  <2>4. Rest'
    <3>1. failed' \subseteq {"expression", "time", "days", "shorthand"}
      BY <1>1, <1>3 DEF Cron
    <3> QED BY <1>1, <1>3, <2>3, <3>1 DEF Cron, Call
  <2>5. Asked'
    <3>1. CASE AcceptableFields(e)
      BY <1>3, <2>1, <3>1 DEF Cron, With
    <3>2. CASE ~AcceptableFields(e)
      BY <1>1, <1>3, <3>2 DEF Cron, With
    <3> QED BY <3>1, <3>2
  <2> QED BY <1>1, <1>3, <2>2, <2>4, <2>5 DEF Cron, Call
<1>4. ASSUME DailyAtMalformed
      PROVE  Rest' /\ Parsed' /\ Asked' /\ from' \in Dates /\ day' \in Dates
  <2> DEFINE e == [EveryMinute EXCEPT !.midnight = TRUE]
  <2>1. e \in Expression
    BY EveryMinuteOK DEF Expression
  <2>2. With(e) /\ Call /\ failed' = {"time"} /\ wanted' = wanted
    BY <1>4 DEF DailyAtMalformed
  <2> HIDE DEF e
  <2>3. Parsed'
    BY <2>1, <2>2, WithStep
  <2>4. calls \in Nat /\ calls < MaxCalls /\ calls' = calls + 1 /\ MaxCalls \in Nat
    BY <1>1, <2>2, BuilderAssumption DEF Call
  <2>5. Rest'
    BY <1>1, <2>2, <2>4 DEF Call
  <2>6. Asked'
    BY <1>1, <2>2
  <2> QED BY <1>1, <2>2, <2>3, <2>5, <2>6 DEF Call
<1>5. ASSUME NEW days \in DayFields, OnDays(days)
      PROVE  Rest' /\ Parsed' /\ Asked' /\ from' \in Dates /\ day' \in Dates
  <2> DEFINE e == [expression EXCEPT !.dow = days]
  <2>1. e \in Expression /\ [wanted EXCEPT !.dow = days] \in Expression
    BY <1>1, BuilderAssumption DEF Expression
  <2>2. Call
    BY <1>5 DEF OnDays
  <2>3. calls \in Nat /\ calls < MaxCalls /\ calls' = calls + 1 /\ MaxCalls \in Nat
    BY <1>1, <2>2, BuilderAssumption DEF Call
  <2>4. Rest'
    <3>1. failed' \subseteq {"expression", "time", "days", "shorthand"}
      BY <1>1, <1>5 DEF OnDays
    <3> QED BY <1>1, <2>2, <2>3, <3>1 DEF Call
  <2>5. Parsed' /\ Asked'
    <3>1. CASE /\ ~expression.shorthand /\ With(e) /\ AcceptableFields(e)
               /\ wanted' = [wanted EXCEPT !.dow = days] /\ failed' = failed \ {"days"}
      <4>1. expression' = e
        BY <3>1 DEF With
      <4>2. failed' \subseteq {"days"} => failed \subseteq {"days"}
        BY <3>1
      <4>3. Asked'
        BY <1>1, <2>1, <3>1, <4>1, <4>2
      <4> QED BY <2>1, <3>1, <4>3, WithStep
    <3>2. CASE /\ ~expression.shorthand /\ With(e) /\ ~AcceptableFields(e)
               /\ wanted' = wanted /\ failed' = failed \cup {"days"}
      <4>1. expression' = expression
        BY <3>2 DEF With
      <4>2. Asked'
        BY <1>1, <3>2, <4>1
      <4> QED BY <2>1, <3>2, <4>2, WithStep
    <3>3. CASE failed' = failed \cup {"shorthand"} /\ UNCHANGED <<expression, fields, error, wanted>>
      <4>1. Parsed'
        BY <1>1, <3>3
      <4>2. Asked'
        BY <1>1, <3>3
      <4> QED BY <4>1, <4>2
    <3> QED BY <1>5, <3>1, <3>2, <3>3 DEF OnDays
  <2> QED BY <1>1, <2>2, <2>4, <2>5 DEF Call
<1>6. ASSUME NEW start \in Starts, Boot(start)
      PROVE  Rest' /\ Parsed' /\ Asked' /\ from' \in Dates /\ day' \in Dates
  <2>1. UNCHANGED <<expression, fields, error, wanted, failed>> /\ calls' = 0
    BY <1>6 DEF Boot
  <2>2. Parsed'
    BY <1>1, <2>1
  <2>3. Asked'
    BY <1>1, <2>1
  <2>4. start \in Dates /\ NextDay(start) \in Dates
    BY BuilderAssumption, NextDayOK
  <2>5. from' \in Dates /\ day' \in Dates
    BY <1>1, <1>6, <2>4 DEF Boot, Search
  <2>6. Rest'
    BY <1>1, <1>6, <2>1, HorizonAssumption, BuilderAssumption DEF Boot, Search
  <2> QED BY <2>2, <2>3, <2>5, <2>6
<1>7. ASSUME SearchStep, UNCHANGED <<error, wanted, failed, calls>>
      PROVE  Rest' /\ Parsed' /\ Asked' /\ from' \in Dates /\ day' \in Dates
  <2>1. UNCHANGED <<expression, fields, from>>
    BY <1>7 DEF SearchStep, Found, TryNext, GiveUp, searched
  <2>2. Parsed'
    BY <1>1, <1>7, <2>1
  <2>3. Asked'
    BY <1>1, <1>7, <2>1
  <2>4. day' \in Dates
    BY <1>1, <1>7, NextDayOK DEF SearchStep, Found, TryNext, GiveUp
  <2>5. Rest'
    BY <1>1, <1>7, HorizonAssumption DEF SearchStep, Found, TryNext, GiveUp
  <2> QED BY <1>1, <2>1, <2>2, <2>3, <2>4, <2>5
<1>8. ASSUME UNCHANGED vars
      PROVE  Rest' /\ Parsed' /\ Asked' /\ from' \in Dates /\ day' \in Dates
  <2>1. Parsed'
    BY <1>1, <1>8 DEF vars
  <2> QED BY <1>1, <1>8, <2>1 DEF vars
<1> HIDE DEF Rest, Parsed, Asked
<1> QED BY <1>3, <1>4, <1>5, <1>6, <1>7, <1>8 DEF Next

(* The task keeps its types: what is parsed is a day, a month and a day of *)
(* the week, and the candidate is a day of the calendar.                   *)
THEOREM TypeCorrect == Spec => []TypeOK
<1>1. BuildInv => TypeOK
  BY DEF BuildInv
<1> QED BY <1>1, BuildInit, BuildStep, PTL DEF Spec

(* A task that was given nothing wrong next runs on the first day that what*)
(* was asked for makes due, whatever the calls and wherever the search     *)
(* begins.                                                                 *)
THEOREM NextRunCorrect == Spec => NextIsEarliest
<1>1. ASSUME BuildInv, [Next]_vars
      PROVE  [failed = {} => /\ pc' = "found" => Due(wanted, day)
                             /\ pc = "searching" /\ day' # day => ~Due(wanted, day)]_vars
  <2>1. SUFFICES ASSUME Next, failed = {}
                 PROVE  /\ pc' = "found" => Due(wanted, day)
                        /\ pc = "searching" /\ day' # day => ~Due(wanted, day)
    BY <1>1, Zenon
  <2>2. Matches(fields, day) <=> Due(wanted, day)
    <3>1. /\ expression \in Expression /\ AcceptableFields(expression) /\ fields = ParseFields(expression)
          /\ wanted = expression
      BY <1>1, <2>1 DEF BuildInv
    <3>2. day.month \in 1 .. 12 /\ day.day \in 1 .. 31 /\ day.dow \in 0 .. 6
      BY <1>1 DEF BuildInv, Dates
    <3> QED BY <3>1, <3>2, MatchesIsDue
  <2>3. pc' = "found" => Matches(fields, day)
    BY <2>1 DEF Next, Cron, DailyAtMalformed, OnDays, Call, Boot, Search, SearchStep, Found, TryNext, GiveUp
  <2>4. pc = "searching" /\ day' # day => ~Matches(fields, day)
    BY <2>1 DEF Next, Cron, DailyAtMalformed, OnDays, Call, Boot, SearchStep, Found, TryNext, GiveUp
  <2> QED BY <2>2, <2>3, <2>4
<1> QED BY <1>1, BuildInit, BuildStep, PTL DEF Spec, NextIsEarliest

-----------------------------------------------------------------------------
(* The days before a year, the days before a month of a year, and a day's  *)
(* number on the calendar.                                                 *)
Before(y) == 365 * y + ((y - 1) \div 4) - ((y - 1) \div 100) + ((y - 1) \div 400)
LeapDay(y) == IF LeapYear(y) THEN 1 ELSE 0
Past(m, y) == IF m <= 2 THEN 31 * (m - 1) ELSE 59 + LeapDay(y) + ((153 * (m - 3) + 2) \div 5)
Ord(d) == Before(d.year) + Past(d.month, d.year) + d.day

(* A year has 365 days, and one more when it is a leap year.               *)
LEMMA YearLength ==
    ASSUME NEW y \in Nat
    PROVE  Before(y) \in Int /\ LeapDay(y) \in 0 .. 1 /\ Before(y + 1) = Before(y) + 365 + LeapDay(y)
<1>1. (y \div 4) = ((y - 1) \div 4) + IF y % 4 = 0 THEN 1 ELSE 0
  OBVIOUS
<1>2. (y \div 100) = ((y - 1) \div 100) + IF y % 100 = 0 THEN 1 ELSE 0
  OBVIOUS
<1>3. (y \div 400) = ((y - 1) \div 400) + IF y % 400 = 0 THEN 1 ELSE 0
  OBVIOUS
<1>4. (y % 400 = 0 => y % 100 = 0) /\ (y % 100 = 0 => y % 4 = 0)
  OBVIOUS
<1>5. LeapDay(y) = IF y % 4 = 0 /\ (y % 100 = 0 => y % 400 = 0) THEN 1 ELSE 0
  BY DEF LeapDay, LeapYear
<1>6. Before(y) = 365 * y + ((y - 1) \div 4) - ((y - 1) \div 100) + ((y - 1) \div 400)
  BY DEF Before
<1>7. Before(y + 1) = 365 * (y + 1) + (y \div 4) - (y \div 100) + (y \div 400)
  BY DEF Before
<1> QED BY <1>1, <1>2, <1>3, <1>4, <1>5, <1>6, <1>7

(* A later year begins later.                                              *)
LEMMA YearsInOrder ==
    ASSUME NEW y \in Nat, NEW z \in Nat, y < z
    PROVE  Before(y) + 365 + LeapDay(y) <= Before(z)
<1>1. Before(y + 1) = Before(y) + 365 + LeapDay(y)
  BY YearLength
<1> DEFINE a == y \div 4
           b == (z - 1) \div 4
<1>2. a \in Nat /\ b \in Nat /\ a <= b
  OBVIOUS
<1>3. y \div 100 = a \div 25 /\ (z - 1) \div 100 = b \div 25
  OBVIOUS
<1>4. y \div 400 <= (z - 1) \div 400
  OBVIOUS
<1>5. a - (a \div 25) <= b - (b \div 25)
  <2> HIDE DEF a, b
  <2> QED BY <1>2
<1>6. Before(y + 1) = 365 * (y + 1) + a - (y \div 100) + (y \div 400)
  BY DEF Before
<1>7. Before(z) = 365 * z + b - ((z - 1) \div 100) + ((z - 1) \div 400)
  BY DEF Before
<1> HIDE DEF a, b
<1>8. Before(y + 1) <= Before(z)
  BY <1>2, <1>3, <1>4, <1>5, <1>6, <1>7
<1> QED BY <1>1, <1>8

(* Where a month begins in its year.                                       *)
LEMMA MonthBegins ==
    ASSUME NEW m \in 1 .. 12, NEW y \in Nat
    PROVE  /\ Past(m, y) \in 0 .. 335
           /\ m < 12 => Past(m + 1, y) = Past(m, y) + DaysIn(m, y)
           /\ m = 12 => Past(m, y) + DaysIn(m, y) = 365 + LeapDay(y)
           /\ m = 1 => Past(m, y) = 0
<1> DEFINE l == LeapDay(y)
<1>1. l \in 0 .. 1 /\ (l = 1 <=> LeapYear(y))
  BY DEF LeapDay
<1>2. DaysIn(m, y) = IF m = 2 THEN 28 + l ELSE IF m \in {4, 6, 9, 11} THEN 30 ELSE 31
  BY <1>1 DEF DaysIn
<1>3. \A k \in 1 .. 12 : Past(k, y) = IF k <= 2 THEN 31 * (k - 1) ELSE 59 + l + ((153 * (k - 3) + 2) \div 5)
  BY DEF Past
<1> HIDE DEF l
<1>4. \/ m = 1 \/ m = 2 \/ m = 3 \/ m = 4 \/ m = 5 \/ m = 6
      \/ m = 7 \/ m = 8 \/ m = 9 \/ m = 10 \/ m = 11 \/ m = 12
  OBVIOUS
<1> QED BY <1>1, <1>2, <1>3, <1>4 DEF l

(* It begins in the year.                                                  *)
LEMMA PastType ==
    ASSUME NEW m \in 1 .. 12, NEW y \in Nat
    PROVE  Past(m, y) \in Int /\ 0 <= Past(m, y)
<1>1. LeapDay(y) \in 0 .. 1
  BY DEF LeapDay
<1> QED BY <1>1 DEF Past

(* A later month begins later.                                             *)
LEMMA MonthsInOrder ==
    ASSUME NEW m \in 1 .. 12, NEW k \in 1 .. 12, NEW y \in Nat, m < k
    PROVE  Past(m, y) + DaysIn(m, y) <= Past(k, y)
<1>1. Past(m + 1, y) = Past(m, y) + DaysIn(m, y)
  BY MonthBegins
<1> DEFINE l == LeapDay(y)
<1>2. l \in 0 .. 1
  BY DEF LeapDay
<1>3. /\ Past(m + 1, y) = IF m + 1 <= 2 THEN 31 * m ELSE 59 + l + ((153 * (m - 2) + 2) \div 5)
      /\ Past(k, y) = IF k <= 2 THEN 31 * (k - 1) ELSE 59 + l + ((153 * (k - 3) + 2) \div 5)
  BY DEF Past
<1> HIDE DEF l
<1>4. Past(m + 1, y) <= Past(k, y)
  <2>1. m + 1 <= k
    OBVIOUS
  <2>2. CASE m + 1 = k
    BY <1>2, <1>3, <2>2
  <2>3. CASE m + 1 < k
    BY <1>2, <1>3, <2>3
  <2> QED BY <2>1, <2>2, <2>3
<1> QED BY <1>1, <1>4, MonthBegins, MonthLength

(* The number of a day on the calendar, from its parts.                    *)
LEMMA OrdOf ==
    ASSUME NEW d \in Dates
    PROVE  /\ d.year \in Nat /\ d.month \in 1 .. 12 /\ d.day \in 1 .. 31 /\ d.dow \in 0 .. 6
           /\ d.day <= DaysIn(d.month, d.year)
           /\ Past(d.month, d.year) + d.day \in 1 .. 365 + LeapDay(d.year)
           /\ Ord(d) = Before(d.year) + Past(d.month, d.year) + d.day
           /\ Ord(d) \in Int /\ Before(d.year) \in Int
           /\ Past(d.month, d.year) \in Int /\ DaysIn(d.month, d.year) \in Int
<1>1. /\ d.year \in Nat /\ d.month \in 1 .. 12 /\ d.day \in 1 .. 31 /\ d.dow \in 0 .. 6
      /\ d.day <= DaysIn(d.month, d.year)
  BY DEF Dates
<1>2. Before(d.year) \in Int /\ LeapDay(d.year) \in 0 .. 1
  BY <1>1, YearLength
<1>3. Past(d.month, d.year) \in 0 .. 335 /\ DaysIn(d.month, d.year) \in 28 .. 31
  BY <1>1, MonthBegins, MonthLength
<1>4. Past(12, d.year) + DaysIn(12, d.year) = 365 + LeapDay(d.year)
  BY <1>1, MonthBegins
<1>5. Past(d.month, d.year) + DaysIn(d.month, d.year) <= 365 + LeapDay(d.year)
  <2>1. CASE d.month = 12
    BY <1>1, <1>2, <1>4, <2>1
  <2>2. CASE d.month < 12
    <3>1. Past(d.month, d.year) + DaysIn(d.month, d.year) <= Past(12, d.year)
      BY <1>1, <2>2, MonthsInOrder
    <3>2. Past(12, d.year) \in Int /\ DaysIn(12, d.year) \in 28 .. 31
      <4>1. 12 \in 1 .. 12
        OBVIOUS
      <4> QED BY <1>1, <4>1, PastType, MonthLength
    <3> QED BY <1>2, <1>3, <1>4, <3>1, <3>2
  <2> QED BY <1>1, <2>1, <2>2
<1>6. Ord(d) = Before(d.year) + Past(d.month, d.year) + d.day
  BY DEF Ord
<1> DEFINE p == Past(d.month, d.year)
<1>7. p \in Int /\ p >= 0 /\ p + DaysIn(d.month, d.year) <= 365 + LeapDay(d.year)
  BY <1>3, <1>5
<1> HIDE DEF p
<1>8. p + d.day \in 1 .. 365 + LeapDay(d.year) /\ Before(d.year) + p + d.day \in Int
  BY <1>1, <1>2, <1>3, <1>7
<1> QED BY <1>1, <1>2, <1>3, <1>6, <1>7, <1>8 DEF p

(* Every day is the one after the day before it.                           *)
LEMMA NextDayOrd ==
    ASSUME NEW d \in Dates
    PROVE  Ord(NextDay(d)) = Ord(d) + 1 /\ NextDay(d).dow = (d.dow + 1) % 7
<1> DEFINE monthEnds == d.day = DaysIn(d.month, d.year)
<1>1. /\ d.year \in Nat /\ d.month \in 1 .. 12 /\ d.day \in 1 .. 31
      /\ d.day <= DaysIn(d.month, d.year)
      /\ Ord(d) = Before(d.year) + Past(d.month, d.year) + d.day
      /\ Before(d.year) \in Int /\ Past(d.month, d.year) \in Int
  BY OrdOf
<1>2. NextDay(d).dow = (d.dow + 1) % 7
  BY DEF NextDay
<1>3. Ord(NextDay(d)) = Before(NextDay(d).year) + Past(NextDay(d).month, NextDay(d).year) + NextDay(d).day
  BY DEF Ord
<1>4. CASE ~monthEnds
  <2>1. NextDay(d).year = d.year /\ NextDay(d).month = d.month /\ NextDay(d).day = d.day + 1
    BY <1>4 DEF NextDay
  <2> QED BY <1>1, <1>2, <1>3, <2>1
<1>5. CASE monthEnds /\ d.month < 12
  <2>1. NextDay(d).year = d.year /\ NextDay(d).month = d.month + 1 /\ NextDay(d).day = 1
    BY <1>1, <1>5 DEF NextDay
  <2>2. Past(d.month + 1, d.year) = Past(d.month, d.year) + d.day
    BY <1>1, <1>5, MonthBegins
  <2> QED BY <1>1, <1>2, <1>3, <2>1, <2>2
<1>6. CASE monthEnds /\ d.month = 12
  <2>1. NextDay(d).year = d.year + 1 /\ NextDay(d).month = 1 /\ NextDay(d).day = 1
    BY <1>1, <1>6 DEF NextDay
  <2>2. Past(d.month, d.year) + d.day = 365 + LeapDay(d.year)
    BY <1>1, <1>6, MonthBegins
  <2>3. Past(1, d.year + 1) = 0
    BY <1>1, MonthBegins
  <2>4. Before(d.year + 1) = Before(d.year) + 365 + LeapDay(d.year) /\ LeapDay(d.year) \in 0 .. 1
    BY <1>1, YearLength
  <2> QED BY <1>1, <1>2, <1>3, <2>1, <2>2, <2>3, <2>4
<1> QED BY <1>1, <1>4, <1>5, <1>6

(* Two days of the calendar with one number and one weekday are one day.   *)
LEMMA OrdInjective ==
    ASSUME NEW d \in Dates, NEW t \in Dates, Ord(d) = Ord(t), d.dow = t.dow
    PROVE  d = t
<1>1. \A a, b \in Dates : a.year < b.year => Ord(a) < Ord(b)
  <2> SUFFICES ASSUME NEW a \in Dates, NEW b \in Dates, a.year < b.year PROVE Ord(a) < Ord(b)
    OBVIOUS
  <2>1. Before(a.year) + 365 + LeapDay(a.year) <= Before(b.year) /\ LeapDay(a.year) \in 0 .. 1
    BY OrdOf, YearsInOrder, YearLength
  <2>2. /\ Past(a.month, a.year) + a.day \in 1 .. 365 + LeapDay(a.year)
        /\ Ord(a) = Before(a.year) + Past(a.month, a.year) + a.day
        /\ Past(a.month, a.year) \in Int /\ a.day \in Int /\ Before(a.year) \in Int
    BY OrdOf
  <2>3. /\ Past(b.month, b.year) + b.day >= 1
        /\ Ord(b) = Before(b.year) + Past(b.month, b.year) + b.day
        /\ Past(b.month, b.year) \in Int /\ b.day \in Int /\ Before(b.year) \in Int
    BY OrdOf
  <2> QED BY <2>1, <2>2, <2>3
<1>2. \A a, b \in Dates : a.year = b.year /\ a.month < b.month => Ord(a) < Ord(b)
  <2> SUFFICES ASSUME NEW a \in Dates, NEW b \in Dates, a.year = b.year, a.month < b.month
               PROVE  Ord(a) < Ord(b)
    OBVIOUS
  <2>1. Past(a.month, a.year) + DaysIn(a.month, a.year) <= Past(b.month, a.year)
    BY OrdOf, MonthsInOrder
  <2>2. /\ a.day <= DaysIn(a.month, a.year) /\ DaysIn(a.month, a.year) \in Int
        /\ Ord(a) = Before(a.year) + Past(a.month, a.year) + a.day
        /\ Past(a.month, a.year) \in Int /\ a.day \in Int /\ Before(a.year) \in Int
    BY OrdOf
  <2>3. /\ b.day >= 1
        /\ Ord(b) = Before(a.year) + Past(b.month, a.year) + b.day
        /\ Past(b.month, a.year) \in Int /\ b.day \in Int
    BY OrdOf
  <2> QED BY <2>1, <2>2, <2>3
<1>3. /\ d.year \in Nat /\ t.year \in Nat /\ d.month \in Int /\ t.month \in Int
      /\ Ord(d) \in Int /\ Ord(t) \in Int
  BY OrdOf
<1>4. d.year = t.year
  BY <1>1, <1>3
<1>5. d.month = t.month
  BY <1>2, <1>3, <1>4
<1>6. d.day = t.day
  <2>1. /\ Ord(d) = Before(d.year) + Past(d.month, d.year) + d.day
        /\ Ord(t) = Before(d.year) + Past(d.month, d.year) + t.day
        /\ Past(d.month, d.year) \in Int /\ d.day \in Int /\ t.day \in Int /\ Before(d.year) \in Int
    BY <1>4, <1>5, OrdOf
  <2> DEFINE first == Before(d.year) + Past(d.month, d.year)
  <2>2. first \in Int
    BY <2>1
  <2>3. first + d.day = first + t.day
    BY <2>1, Zenon
  <2> HIDE DEF first
  <2> QED BY <2>1, <2>2, <2>3
<1> QED BY <1>4, <1>5, <1>6 DEF Dates

(* Whether a day's weekday is the one it has, counted from a.              *)
InStep(a, t) == t.dow = (Ord(t) - Ord(a) + a.dow) % 7

(* A day given by its parts, with the weekday it has counted from a.      *)
Counted(a, y, m, n) ==
    [year |-> y, month |-> m, day |-> n, dow |-> ((Before(y) + Past(m, y) + n) - Ord(a) + a.dow) % 7]

(* It is a day of the calendar.                                            *)
LEMMA DayCounted ==
    ASSUME NEW a \in Dates, NEW y \in Nat, NEW m \in 1 .. 12, NEW n \in 1 .. 31, n <= DaysIn(m, y)
    PROVE  /\ Counted(a, y, m, n) \in Dates
           /\ Ord(Counted(a, y, m, n)) = Before(y) + Past(m, y) + n
           /\ InStep(a, Counted(a, y, m, n))
<1> DEFINE o == Before(y) + Past(m, y) + n
           w == (o - Ord(a) + a.dow) % 7
           t == [year |-> y, month |-> m, day |-> n, dow |-> w]
<1>6. Counted(a, y, m, n) = t
  BY Zenon DEF Counted
<1>1. o \in Int /\ Ord(a) \in Int /\ a.dow \in Int
  <2>1. Before(y) \in Int /\ Past(m, y) \in Int
    BY YearLength, PastType
  <2>2. Ord(a) \in Int /\ a.dow \in Int
    BY OrdOf
  <2> QED BY <2>1, <2>2
<1>2. w \in 0 .. 6
  <2> HIDE DEF o
  <2> QED BY <1>1
<1>3. Ord(t) = o
  BY DEF Ord
<1>4. t.dow = (Ord(t) - Ord(a) + a.dow) % 7
  BY <1>3
<1>5. t \in Dates
  <2> HIDE DEF w
  <2> QED BY <1>2 DEF Dates
<1> HIDE DEF w, t, o
<1> QED BY <1>3, <1>4, <1>5, <1>6, Zenon DEF InStep, o

(* The years from which the next leap day is at most four years away, and  *)
(* the one that ends them: 2100 has none.                                  *)
Modern == 1901 .. 2095
Reached == 1901 .. 2096

(* A date that some year has.                                              *)
SomeYearHas(m, n) == n <= DaysIn(m, 2000)

(* The n-th of a month, and a weekday of it.                               *)
OnDate(t, m, n) == t.month = m /\ t.day = n
OnWeekday(t, m, w) == t.month = m /\ t.dow = w

(* A day after a that is among the next four years' days.                  *)
Ahead(a, t) == Ord(a) < Ord(t) /\ Ord(t) < Ord(a) + 1464

(* In those years every fourth is a leap year.                             *)
LEMMA LeapYears ==
    ASSUME NEW y \in Reached
    PROVE  LeapYear(y) <=> y % 4 = 0
<1>1. y \in 1901 .. 2096
  BY DEF Reached
<1>2. y % 100 = 0 => y = 2000
  BY <1>1
<1> QED BY <1>1, <1>2 DEF LeapYear

(* A day of the next year is ahead.                                        *)
LEMMA NextYear ==
    ASSUME NEW a \in Dates, NEW t \in Dates, t.year = a.year + 1
    PROVE  Ahead(a, t)
<1> DEFINE y == a.year
           b == Before(y)
           p == Past(a.month, y) + a.day
           q == Past(t.month, y + 1) + t.day
<1>1. y \in Nat /\ b \in Int /\ LeapDay(y) \in 0 .. 1 /\ LeapDay(y + 1) \in 0 .. 1
  BY OrdOf, YearLength
<1>2. Before(y + 1) = b + 365 + LeapDay(y)
  BY <1>1, YearLength
<1>3. p \in 1 .. 365 + LeapDay(y) /\ q \in 1 .. 365 + LeapDay(y + 1)
  BY OrdOf
<1>4. Ord(a) = b + p
  BY OrdOf
<1>5. Ord(t) = Before(y + 1) + q
  <2>1. Before(y + 1) \in Int /\ Past(t.month, y + 1) \in Int /\ t.day \in Int
    BY OrdOf
  <2>2. Ord(t) = Before(y + 1) + Past(t.month, y + 1) + t.day
    BY OrdOf
  <2> QED BY <2>1, <2>2
<1> HIDE DEF p, q, b, y
<1> QED BY <1>1, <1>2, <1>3, <1>4, <1>5 DEF Ahead

(* The 29th of February of a leap year in those years.                     *)
LEMMA LeapDayCounted ==
    ASSUME NEW a \in Dates, NEW y \in Reached, y % 4 = 0
    PROVE  /\ Counted(a, y, 2, 29) \in Dates
           /\ Counted(a, y, 2, 29).month = 2 /\ Counted(a, y, 2, 29).day = 29
           /\ InStep(a, Counted(a, y, 2, 29))
           /\ Ord(Counted(a, y, 2, 29)) = Before(y) + 60
<1>1. DaysIn(2, y) = 29
  BY LeapYears DEF DaysIn
<1>2. y \in Nat
  BY DEF Reached
<1>3. Past(2, y) = 31 /\ Before(y) \in Int
  BY <1>2, YearLength DEF Past
<1>4. 2 \in 1 .. 12 /\ 29 \in 1 .. 31 /\ 29 <= DaysIn(2, y)
  BY <1>1
<1> DEFINE t == Counted(a, y, 2, 29)
<1>5. t \in Dates /\ Ord(t) = Before(y) + Past(2, y) + 29 /\ InStep(a, t)
  BY <1>2, <1>4, DayCounted
<1>6. t.month = 2 /\ t.day = 29
  BY DEF Counted
<1>7. Before(y) + Past(2, y) + 29 = Before(y) + 60
  BY <1>3
<1> QED BY <1>5, <1>6, <1>7

(* How long those years are.                                               *)
LEMMA ReachedYears ==
    ASSUME NEW y \in Reached
    PROVE  /\ Before(y) \in Int
           /\ y % 4 # 0 => LeapDay(y) = 0 /\ Before(y + 1) = Before(y) + 365
           /\ y % 4 = 0 => LeapDay(y) = 1 /\ Before(y + 1) = Before(y) + 366
<1>1. y \in Nat
  BY DEF Reached
<1>2. Before(y) \in Int /\ Before(y + 1) = Before(y) + 365 + LeapDay(y)
  BY <1>1, YearLength
<1>3. y % 4 # 0 => LeapDay(y) = 0
  BY LeapYears DEF LeapDay
<1>4. y % 4 = 0 => LeapDay(y) = 1
  BY LeapYears DEF LeapDay
<1> QED BY <1>2, <1>3, <1>4

(* From any day of them the next 29th of February is ahead.                *)
LEMMA LeapDayAhead ==
    ASSUME NEW a \in Dates, a.year \in Modern
    PROVE  \E y \in Reached : y % 4 = 0 /\ Ord(a) < Before(y) + 60 /\ Before(y) + 60 < Ord(a) + 1464
<1> DEFINE Y == a.year
           p == Past(a.month, Y) + a.day
<1>1. /\ Y \in Nat /\ Before(Y) \in Int /\ LeapDay(Y) \in 0 .. 1 /\ p \in 1 .. 365 + LeapDay(Y)
      /\ Ord(a) = Before(Y) + p
  <2>1. /\ Y \in Nat /\ Past(a.month, Y) \in Int /\ a.day \in Int /\ Before(Y) \in Int
        /\ p \in 1 .. 365 + LeapDay(Y)
        /\ Ord(a) = Before(Y) + Past(a.month, Y) + a.day
    BY OrdOf
  <2>2. LeapDay(Y) \in 0 .. 1
    BY <2>1, YearLength
  <2> QED BY <2>1, <2>2
<1>2. Y \in 1901 .. 2095
  BY DEF Modern
<1> HIDE DEF Y, p
<1>3. CASE Y % 4 = 0 /\ p < 60
  BY <1>1, <1>2, <1>3 DEF Reached
<1>4. CASE Y % 4 = 0 /\ ~(p < 60)
  <2>1. /\ Y \in 1901 .. 2092 /\ (Y + 1) % 4 # 0 /\ (Y + 2) % 4 # 0 /\ (Y + 3) % 4 # 0 /\ (Y + 4) % 4 = 0
    BY <1>2, <1>4
  <2>2. Y \in Reached /\ Y + 1 \in Reached /\ Y + 2 \in Reached /\ Y + 3 \in Reached /\ Y + 4 \in Reached
    BY <2>1 DEF Reached
  <2>3. Before(Y + 1) = Before(Y) + 366
    BY <1>4, <2>2, ReachedYears
  <2>4. Before(Y + 2) = Before(Y + 1) + 365
    BY <2>1, <2>2, ReachedYears
  <2>5. Before(Y + 3) = Before(Y + 2) + 365
    BY <2>1, <2>2, ReachedYears
  <2>6. Before(Y + 4) = Before(Y + 3) + 365
    BY <2>1, <2>2, ReachedYears
  <2>7. Ord(a) < Before(Y + 4) + 60 /\ Before(Y + 4) + 60 < Ord(a) + 1464
    BY <1>1, <1>4, <2>3, <2>4, <2>5, <2>6
  <2> QED BY <2>1, <2>2, <2>7
<1>5. CASE Y % 4 = 3
  <2>1. (Y + 1) % 4 = 0 /\ Y \in Reached /\ Y + 1 \in Reached
    BY <1>2, <1>5 DEF Reached
  <2>2. Before(Y + 1) = Before(Y) + 365 /\ LeapDay(Y) = 0
    BY <1>5, <2>1, ReachedYears
  <2>3. Ord(a) < Before(Y + 1) + 60 /\ Before(Y + 1) + 60 < Ord(a) + 1464
    BY <1>1, <2>2
  <2> QED BY <2>1, <2>3
<1>6. CASE Y % 4 = 2
  <2>1. /\ (Y + 1) % 4 # 0 /\ (Y + 2) % 4 = 0
        /\ Y \in Reached /\ Y + 1 \in Reached /\ Y + 2 \in Reached
    BY <1>2, <1>6 DEF Reached
  <2>2. Before(Y + 1) = Before(Y) + 365 /\ LeapDay(Y) = 0
    BY <1>6, <2>1, ReachedYears
  <2>3. Before(Y + 2) = Before(Y + 1) + 365
    BY <1>2, <2>1, ReachedYears
  <2>4. Ord(a) < Before(Y + 2) + 60 /\ Before(Y + 2) + 60 < Ord(a) + 1464
    BY <1>1, <2>2, <2>3
  <2> QED BY <2>1, <2>4
<1>7. CASE Y % 4 = 1
  <2>1. /\ (Y + 1) % 4 # 0 /\ (Y + 2) % 4 # 0 /\ (Y + 3) % 4 = 0
        /\ Y \in Reached /\ Y + 1 \in Reached /\ Y + 2 \in Reached /\ Y + 3 \in Reached
    BY <1>2, <1>7 DEF Reached
  <2>2. Before(Y + 1) = Before(Y) + 365 /\ LeapDay(Y) = 0
    BY <1>7, <2>1, ReachedYears
  <2>3. Before(Y + 2) = Before(Y + 1) + 365
    BY <1>2, <2>1, ReachedYears
  <2>4. Before(Y + 3) = Before(Y + 2) + 365
    BY <1>2, <2>1, ReachedYears
  <2>5. Ord(a) < Before(Y + 3) + 60 /\ Before(Y + 3) + 60 < Ord(a) + 1464
    BY <1>1, <2>2, <2>3, <2>4
  <2> QED BY <2>1, <2>5
<1> QED BY <1>2, <1>3, <1>4, <1>5, <1>6, <1>7

(* From any day of these years, every date that some year has is ahead: the*)
(* next 29th of February within four years, any other date next year.      *)
LEMMA DateReached ==
    ASSUME NEW a \in Dates, a.year \in Modern,
           NEW m \in 1 .. 12, NEW n \in 1 .. 31, SomeYearHas(m, n)
    PROVE  \E t \in Dates : OnDate(t, m, n) /\ InStep(a, t) /\ Ahead(a, t)
<1>1. CASE ~(m = 2 /\ n = 29)
  <2> DEFINE y == a.year + 1
             t == Counted(a, y, m, n)
  <2>1. y \in Nat
    BY OrdOf
  <2>2. n <= DaysIn(m, y)
    BY <1>1 DEF DaysIn, SomeYearHas
  <2>3. t \in Dates /\ InStep(a, t)
    <3> HIDE DEF y
    <3> QED BY <2>1, <2>2, DayCounted, Zenon
  <2>4. t.year = y /\ t.month = m /\ t.day = n
    BY DEF Counted
  <2> HIDE DEF t
  <2>5. Ahead(a, t)
    BY <2>3, <2>4, NextYear, Zenon
  <2> QED BY <2>3, <2>4, <2>5 DEF OnDate
<1>2. CASE m = 2 /\ n = 29
  <2>1. PICK y \in Reached : y % 4 = 0 /\ Ord(a) < Before(y) + 60 /\ Before(y) + 60 < Ord(a) + 1464
    BY LeapDayAhead
  <2> DEFINE t == Counted(a, y, 2, 29)
  <2>2. t \in Dates /\ t.month = 2 /\ t.day = 29 /\ InStep(a, t) /\ Ord(t) = Before(y) + 60
    BY <2>1, LeapDayCounted
  <2> HIDE DEF t
  <2>3. Ahead(a, t)
    BY <2>1, <2>2 DEF Ahead
  <2> QED BY <1>2, <2>2, <2>3 DEF OnDate
<1> QED BY <1>1, <1>2

(* In the first week of a month of the next year, every weekday.           *)
LEMMA WeekdayReached ==
    ASSUME NEW a \in Dates, NEW m \in 1 .. 12, NEW w \in 0 .. 6
    PROVE  \E t \in Dates : OnWeekday(t, m, w) /\ InStep(a, t) /\ Ahead(a, t)
<1> DEFINE y == a.year + 1
           b == Before(y) + Past(m, y) - Ord(a) + a.dow
           n == 1 + ((w - 1 - b) % 7)
<1>1. y \in Nat /\ b \in Int /\ Before(y) \in Int /\ Past(m, y) \in Int /\ Ord(a) \in Int /\ a.dow \in Int
  <2>1. y \in Nat /\ Ord(a) \in Int /\ a.dow \in Int
    BY OrdOf
  <2>2. Before(y) \in Int /\ Past(m, y) \in Int
    <3> HIDE DEF y
    <3> QED BY <2>1, YearLength, PastType
  <2> QED BY <2>1, <2>2
<1>2. n \in 1 .. 7 /\ (b + n) % 7 = w
  <2> HIDE DEF b
  <2> QED BY <1>1
<1>3. n <= DaysIn(m, y)
  <2>1. DaysIn(m, y) \in 28 .. 31
    BY <1>1, MonthLength
  <2> HIDE DEF n
  <2> QED BY <1>2, <2>1
<1> DEFINE t == Counted(a, y, m, n)
<1>4. /\ t \in Dates /\ t.year = y /\ t.month = m /\ t.day = n
      /\ Ord(t) = Before(y) + Past(m, y) + n
      /\ InStep(a, t)
  <2> HIDE DEF n, y
  <2>1. n \in 1 .. 31
    BY <1>2
  <2>2. t \in Dates /\ Ord(t) = Before(y) + Past(m, y) + n /\ InStep(a, t)
    BY <1>1, <1>3, <2>1, DayCounted
  <2>3. t.year = y /\ t.month = m /\ t.day = n
    BY DEF Counted
  <2> QED BY <2>2, <2>3
<1> HIDE DEF t
<1>5. t.dow = w
  <2>1. Ord(t) - Ord(a) + a.dow = b + n
    <3> HIDE DEF n, y
    <3> QED BY <1>1, <1>2, <1>4
  <2> QED BY <1>2, <1>4, <2>1 DEF InStep
<1>6. Ahead(a, t)
  BY <1>4, NextYear
<1> QED BY <1>4, <1>5, <1>6 DEF OnWeekday

-----------------------------------------------------------------------------
(* What the schedule's clock and the code's horizon give: 4 * 366 days, and*)
(* searches that begin in those years.                                     *)
FourYears == HorizonDays >= 1464 /\ \A start \in Starts : start.year \in Modern

(* The inductive invariant of the search: it has gone through the calendar *)
(* day by day and nothing it passed matches.                               *)
SearchInv ==
    pc \in {"searching", "found", "none"} =>
        /\ from.year \in Modern
        /\ Ord(day) >= Ord(from) + tried
        /\ InStep(from, day)
        /\ \A t \in Dates : Ord(from) < Ord(t) /\ Ord(t) < Ord(day) /\ InStep(from, t) => ~Matches(fields, t)
        /\ pc = "none" => tried = HorizonDays

(* The next candidate is in step too, and only the one before it has newly *)
(* been passed.                                                            *)
LEMMA StepCounted ==
    ASSUME NEW a \in Dates, NEW d \in Dates, InStep(a, d)
    PROVE  /\ InStep(a, NextDay(d)) /\ Ord(NextDay(d)) = Ord(d) + 1
           /\ \A t \in Dates : Ord(t) < Ord(NextDay(d)) /\ InStep(a, t) => Ord(t) < Ord(d) \/ t = d
<1>1. Ord(NextDay(d)) = Ord(d) + 1 /\ NextDay(d).dow = (d.dow + 1) % 7
  BY NextDayOrd
<1>2. Ord(d) \in Int /\ Ord(a) \in Int /\ a.dow \in Int /\ d.dow \in Int
  BY OrdOf
<1>3. d.dow = (Ord(d) - Ord(a) + a.dow) % 7
  BY DEF InStep
<1>4. \A o, b, w \in Int : (((o - b + w) % 7) + 1) % 7 = ((o + 1) - b + w) % 7
  OBVIOUS
<1>5. InStep(a, NextDay(d))
  BY <1>1, <1>2, <1>3, <1>4 DEF InStep
<1>6. ASSUME NEW t \in Dates, Ord(t) < Ord(NextDay(d)), InStep(a, t), ~(Ord(t) < Ord(d))
      PROVE  t = d
  <2>1. Ord(t) \in Int
    BY OrdOf
  <2>2. Ord(t) = Ord(d)
    BY <1>1, <1>2, <1>6, <2>1
  <2>3. t.dow = d.dow
    BY <1>3, <1>6, <2>2 DEF InStep
  <2> QED BY <2>2, <2>3, OrdInjective
<1> QED BY <1>1, <1>5, <1>6

(* Every step keeps the search's invariant.                                *)
LEMMA SearchStepKept ==
    ASSUME FourYears, BuildInv, SearchInv, [Next]_vars
    PROVE  SearchInv'
<1>1. from \in Dates /\ day \in Dates /\ tried \in Nat
  BY DEF BuildInv, TypeOK
<1>2. ASSUME NEW start \in Starts, Boot(start) PROVE SearchInv'
  <2>1. CASE pc' = "refused"
    BY <2>1 DEF SearchInv
  <2>2. CASE Search(start)
    <3>1. start \in Dates /\ start.year \in Modern
      BY BuilderAssumption DEF FourYears
    <3>2. from' = start /\ tried' = 0 /\ pc' = "searching" /\ (day' = start \/ day' = NextDay(start))
      BY <2>2 DEF Search
    <3>3. Ord(start) \in Int /\ start.dow \in 0 .. 6
      BY <3>1, OrdOf
    <3>4. InStep(start, start)
      BY <3>3 DEF InStep
    <3>5. /\ InStep(start, NextDay(start)) /\ Ord(NextDay(start)) = Ord(start) + 1
          /\ \A t \in Dates : Ord(t) < Ord(NextDay(start)) /\ InStep(start, t) => Ord(t) < Ord(start) \/ t = start
      BY <3>1, <3>4, StepCounted
    <3>6. \A t \in Dates : Ord(t) \in Int
      BY OrdOf
    <3>7. Ord(day') >= Ord(start) + 0 /\ InStep(start, day')
      BY <3>2, <3>3, <3>4, <3>5
    <3>8. \A t \in Dates : ~(Ord(start) < Ord(t) /\ Ord(t) < Ord(day') /\ InStep(start, t))
      <4> TAKE t \in Dates
      <4>1. CASE day' = start
        BY <3>3, <3>6, <4>1
      <4>2. CASE day' = NextDay(start)
        BY <3>3, <3>5, <3>6, <4>2
      <4> QED BY <3>2, <4>1, <4>2
    <3> QED BY <3>1, <3>2, <3>7, <3>8 DEF SearchInv
  <2> QED BY <1>2, <2>1, <2>2 DEF Boot
<1>3. ASSUME TryNext PROVE SearchInv'
  <2>1. /\ pc = "searching" /\ pc' = "searching" /\ ~Matches(fields, day) /\ day' = NextDay(day)
        /\ tried' = tried + 1 /\ from' = from /\ fields' = fields
    BY <1>3 DEF TryNext, searched
  <2>2. /\ from.year \in Modern /\ Ord(day) >= Ord(from) + tried /\ InStep(from, day)
        /\ \A t \in Dates : Ord(from) < Ord(t) /\ Ord(t) < Ord(day) /\ InStep(from, t) => ~Matches(fields, t)
    BY <2>1 DEF SearchInv
  <2>3. /\ InStep(from, day') /\ Ord(day') = Ord(day) + 1
        /\ \A t \in Dates : Ord(t) < Ord(day') /\ InStep(from, t) => Ord(t) < Ord(day) \/ t = day
    BY <1>1, <2>1, <2>2, StepCounted
  <2>4. Ord(day) \in Int /\ Ord(from) \in Int
    BY <1>1, OrdOf
  <2>5. Ord(day') >= Ord(from) + tried'
    <3>1. \A o, b, n \in Int : o >= b + n => o + 1 >= b + (n + 1)
      OBVIOUS
    <3> QED BY <1>1, <2>1, <2>2, <2>3, <2>4, <3>1
  <2>6. \A t \in Dates : Ord(from) < Ord(t) /\ Ord(t) < Ord(day') /\ InStep(from, t) => ~Matches(fields, t)
    BY <2>1, <2>2, <2>3
  <2> QED BY <2>1, <2>2, <2>3, <2>5, <2>6 DEF SearchInv
<1>4. ASSUME Found \/ GiveUp PROVE SearchInv'
  <2>1. /\ pc = "searching" /\ UNCHANGED <<fields, from, day, tried>>
        /\ pc' = "found" \/ (pc' = "none" /\ tried = HorizonDays)
    BY <1>4 DEF Found, GiveUp, searched
  <2>2. /\ from.year \in Modern /\ Ord(day) >= Ord(from) + tried /\ InStep(from, day)
        /\ \A t \in Dates : Ord(from) < Ord(t) /\ Ord(t) < Ord(day) /\ InStep(from, t) => ~Matches(fields, t)
    BY <2>1 DEF SearchInv
  <2> QED BY <2>1, <2>2 DEF SearchInv
<1>5. ASSUME pc' = "building" PROVE SearchInv'
  BY <1>5 DEF SearchInv
<1>6. ASSUME UNCHANGED vars PROVE SearchInv'
  BY <1>6 DEF SearchInv, vars
<1>7. ASSUME NEW e \in Expressions, Cron(e) PROVE pc' = "building"
  BY <1>7 DEF Cron, Call
<1>8. ASSUME DailyAtMalformed PROVE pc' = "building"
  BY <1>8 DEF DailyAtMalformed, Call
<1>9. ASSUME NEW days \in DayFields, OnDays(days) PROVE pc' = "building"
  BY <1>9 DEF OnDays, Call
<1> QED BY <1>2, <1>3, <1>4, <1>5, <1>6, <1>7, <1>8, <1>9 DEF Next, SearchStep

(* A search that has given up has passed a day that matches, if the text   *)
(* names a month and a day of it that some year has.                       *)
LEMMA GivesUp ==
    ASSUME FourYears, BuildInv, SearchInv
    PROVE  GivesUpOnlyOnNever
<1> SUFFICES ASSUME pc = "none",
                    NEW month \in 1 .. 12, Listed(expression.month, month, 1, 12),
                    NEW n \in 1 .. 31, SomeYearHas(month, n), Listed(expression.dom, n, 1, 31)
             PROVE  FALSE
  <2>1. \A month \in 1 .. 12 : \A n \in 1 .. DaysIn(month, 2000) : n \in 1 .. 31 /\ SomeYearHas(month, n)
    BY MonthLength DEF SomeYearHas
  <2> QED BY <2>1 DEF GivesUpOnlyOnNever
<1>1. /\ expression \in Expression /\ AcceptableFields(expression) /\ fields = ParseFields(expression)
      /\ from \in Dates /\ day \in Dates
  BY DEF BuildInv
<1>2. /\ from.year \in Modern /\ Ord(day) >= Ord(from) + HorizonDays
      /\ \A t \in Dates : Ord(from) < Ord(t) /\ Ord(t) < Ord(day) /\ InStep(from, t) => ~Matches(fields, t)
  BY DEF SearchInv
<1>3. ASSUME NEW t \in Dates, Ahead(from, t), InStep(from, t) PROVE ~Matches(fields, t)
  <2>1. Ord(from) \in Int /\ Ord(t) \in Int /\ Ord(day) \in Int
    BY <1>1, OrdOf
  <2>2. Ord(from) < Ord(t) /\ Ord(t) < Ord(day)
    BY <1>2, <1>3, <2>1, HorizonAssumption DEF Ahead, FourYears
  <2> QED BY <1>2, <1>3, <2>2
<1>5. expression.dom \in Field /\ expression.month \in Field /\ expression.dow \in Field
  BY <1>1 DEF Expression
<1>6. month \in fields.month.values
  <2>1. \A part \in expression.month : Acceptable(part, 1, 12)
    BY <1>1 DEF AcceptableFields
  <2>2. month \in ParseField(expression.month, 1, 12).values
    BY <1>5, <2>1, FieldListed
  <2> QED BY <1>1, <2>2 DEF ParseFields
<1>7. /\ fields.dom = ParseField(expression.dom, 1, 31)
      /\ fields.dow = ParseDayOfWeek(expression.dow)
  BY <1>1 DEF ParseFields
<1>8. \A k \in 1 .. 31 : k \in fields.dom.values <=> Listed(expression.dom, k, 1, 31)
  <2>1. \A part \in expression.dom : Acceptable(part, 1, 31)
    BY <1>1 DEF AcceptableFields
  <2>2. \A k \in 1 .. 31 : k \in ParseField(expression.dom, 1, 31).values <=> Listed(expression.dom, k, 1, 31)
    BY <1>5, <2>1, FieldListed
  <2> QED BY <1>7, <2>2
<1>9. /\ fields.dow.values \subseteq 0 .. 6 /\ fields.dow.values # {}
      /\ \A w \in 0 .. 6 : w \in fields.dow.values
                              <=> Listed(expression.dow, w, 0, 7) \/ (w = 0 /\ Listed(expression.dow, 7, 0, 7))
      /\ fields.dow.wildcard = (expression.dow = Wildcard)
  BY <1>1, <1>5, <1>7, DayOfWeekListed DEF AcceptableFields
<1>10. fields.dom.wildcard = (expression.dom = Wildcard)
  BY <1>7 DEF ParseField
<1>11. CASE expression.dom = Wildcard
  <2>1. PICK w \in 0 .. 6 : w \in fields.dow.values
    BY <1>9
  <2>2. PICK t \in Dates : OnWeekday(t, month, w) /\ InStep(from, t) /\ Ahead(from, t)
    BY <1>1, WeekdayReached
  <2>3. t.day \in fields.dom.values
    <3>1. t.day \in 1 .. 31 /\ t.day = 1 + (t.day - 1) * 1 /\ t.day - 1 \in 0 .. 31 - 1
      BY OrdOf
    <3>2. Listed(expression.dom, t.day, 1, 31)
      BY <1>11, <3>1 DEF Wildcard, Star, Listed
    <3> QED BY <1>8, <3>1, <3>2
  <2>4. Matches(fields, t)
    BY <1>6, <2>1, <2>2, <2>3 DEF Matches, OnWeekday
  <2> QED BY <1>3, <2>2, <2>4
<1>12. CASE expression.dom # Wildcard
  <2>1. PICK t \in Dates : OnDate(t, month, n) /\ InStep(from, t) /\ Ahead(from, t)
    BY <1>1, <1>2, DateReached
  <2>2. t.day \in fields.dom.values
    BY <1>8, <2>1 DEF OnDate
  <2>3. expression.dow = Wildcard => t.dow \in fields.dow.values
    <3>1. t.dow \in 0 .. 6 /\ t.dow = 0 + t.dow * 1 /\ t.dow \in 0 .. 7 - 0
      BY OrdOf
    <3>2. expression.dow = Wildcard => Listed(expression.dow, t.dow, 0, 7)
      BY <3>1 DEF Wildcard, Star, Listed
    <3> QED BY <1>9, <3>1, <3>2
  <2>4. Matches(fields, t)
    <3>1. ~fields.dom.wildcard
      BY <1>10, <1>12
    <3>2. CASE expression.dow = Wildcard
      BY <1>6, <2>1, <2>2, <2>3, <3>2 DEF Matches, OnDate
    <3>3. CASE expression.dow # Wildcard
      <4>1. ~fields.dow.wildcard
        BY <1>9, <3>3
      <4> QED BY <1>6, <2>1, <2>2, <3>1, <4>1 DEF Matches, OnDate
    <3> QED BY <3>2, <3>3
  <2> QED BY <1>3, <2>1, <2>4
<1> QED BY <1>11, <1>12

(* "Four covers a leap year in every position": with the code's horizon, a *)
(* search that begins in 1901 .. 2095 gives up only on a day no year has.  *)
THEOREM FourYearsSuffice == FourYears => (Spec => []GivesUpOnlyOnNever)
<1> SUFFICES ASSUME FourYears PROVE Spec => []GivesUpOnlyOnNever
  OBVIOUS
<1>1. Init => SearchInv
  BY DEF Init, SearchInv
<1>2. BuildInv /\ SearchInv /\ [Next]_vars => SearchInv'
  BY SearchStepKept
<1>3. BuildInv /\ SearchInv => GivesUpOnlyOnNever
  BY GivesUp
<1> QED BY <1>1, <1>2, <1>3, BuildInit, BuildStep, PTL DEF Spec

-----------------------------------------------------------------------------
(* What the scheduler's constants are, one by one.                         *)
LEMMA SchedulerNumbers ==
    /\ MinuteTicks \in Nat /\ MinuteTicks > 0 /\ OverlapTtl \in Nat /\ OverlapTtl > 0
    /\ LastMinute \in Nat /\ MaxLate \in Nat /\ MaxFaults \in Nat
    /\ \A e \in [value: Machines, left: Int] : e # NoEntry
    /\ \A minute \in Nat : Started(minute) \in Nat
    /\ Minutes \subseteq Nat
<1>1. MinuteTicks \in Nat /\ LastMinute \in Nat
  BY SchedulerAssumption
<1>2. \A minute \in Nat : Started(minute) \in Nat
  BY <1>1 DEF Started
<1> QED BY <1>1, <1>2, SchedulerAssumption DEF Minutes

(* What the cache's commands make of an entry is an entry.                 *)
LEMMA SchedulerEntries ==
    ASSUME NEW ttl \in Nat, ttl > 0
    PROVE  /\ NoEntry \in Entries(ttl)
           /\ \A e \in Entries(ttl), m \in Machines : Add(e, m, ttl) \in Entries(ttl) /\ ForgetIf(e, m) \in Entries(ttl)
           /\ \A e \in Entries(ttl) : AgeEntry(e) \in Entries(ttl)
           /\ \A e \in Entries(ttl) : e # NoEntry => e.left \in 0 .. ttl /\ e.value \in Machines
           /\ \A e \in Entries(ttl), m \in Machines : ~Live(e) =>
                 Live(Add(e, m, ttl)) /\ Add(e, m, ttl).value = m /\ Add(e, m, ttl).left = ttl
           /\ \A e \in Entries(ttl) : Live(e) =>
                 AgeEntry(e) # NoEntry /\ AgeEntry(e).left = e.left - 1 /\ AgeEntry(e).value = e.value
<1> USE DEF Entries, Live, Entry
<1>0. \A m \in Machines, n \in Int : [value |-> m, left |-> n] # NoEntry
  BY SchedulerNumbers
<1>1. \A e \in Entries(ttl), m \in Machines : Add(e, m, ttl) \in Entries(ttl) /\ ForgetIf(e, m) \in Entries(ttl)
  BY DEF Add, ForgetIf
<1>2. \A e \in Entries(ttl) : AgeEntry(e) \in Entries(ttl)
  BY DEF AgeEntry
<1>3. \A e \in Entries(ttl) : e # NoEntry => e.left \in 0 .. ttl /\ e.value \in Machines
  OBVIOUS
<1>4. \A e \in Entries(ttl), m \in Machines : ~Live(e) =>
          Live(Add(e, m, ttl)) /\ Add(e, m, ttl).value = m /\ Add(e, m, ttl).left = ttl
  BY <1>0 DEF Add
<1>5. ASSUME NEW e \in Entries(ttl), Live(e)
      PROVE  AgeEntry(e) # NoEntry /\ AgeEntry(e).left = e.left - 1 /\ AgeEntry(e).value = e.value
  <2>1. e.left \in 1 .. ttl /\ e.value \in Machines /\ e = [value |-> e.value, left |-> e.left]
    BY <1>5
  <2>2. AgeEntry(e) = [value |-> e.value, left |-> e.left - 1]
    BY <1>5, <2>1 DEF AgeEntry
  <2> QED BY <1>0, <2>1, <2>2
<1> QED BY <1>1, <1>2, <1>3, <1>4, <1>5

(* Every step of the scheduler keeps the types.                            *)
LEMMA SchedulerTypeStep ==
    ASSUME SchedulerTypeOK, [SchedulerNext]_schedulerVars PROVE SchedulerTypeOK'
<1> USE DEF SchedulerTypeOK, Idle, ClaimTtl
<1>c. /\ MinuteTicks \in Nat /\ MinuteTicks > 0 /\ OverlapTtl \in Nat /\ OverlapTtl > 0
      /\ LastMinute \in Nat /\ MaxFaults \in Nat /\ Minutes \subseteq Nat
      /\ Started(LastMinute + 1) \in Nat
  BY SchedulerNumbers
<1>1. ASSUME NEW m \in Machines, NEW minute \in Minutes, Pass(m, minute) PROVE SchedulerTypeOK'
  BY <1>1 DEF Pass
<1>2. ASSUME NEW m \in Machines,
             ConditionFalse(m) \/ AnotherServer(m) \/ StillRunning(m)
      PROVE  SchedulerTypeOK'
  BY <1>2 DEF ConditionFalse, AnotherServer, StillRunning
<1>3. ASSUME NEW m \in Machines, Claim(m) PROVE SchedulerTypeOK'
  <2>1. claims' \in [Minutes -> Entries(MinuteTicks)]
    BY <1>c, <1>3, SchedulerEntries DEF Claim
  <2> QED BY <1>3, <2>1 DEF Claim
<1>4. ASSUME NEW m \in Machines, Start(m) PROVE SchedulerTypeOK'
  <2>1. overlap' \in Entries(OverlapTtl)
    BY <1>c, <1>4, SchedulerEntries DEF Start
  <2> QED BY <1>4, <2>1 DEF Start
<1>5. ASSUME NEW m \in Machines, Finish(m) PROVE SchedulerTypeOK'
  <2>1. overlap' \in Entries(OverlapTtl)
    BY <1>c, <1>5, SchedulerEntries DEF Finish
  <2> QED BY <1>5, <2>1 DEF Finish
<1>6. ASSUME NEW m \in Machines, Interrupt(m) PROVE SchedulerTypeOK'
  BY <1>c, <1>6 DEF Interrupt
<1>7. CASE Tick
  <2>1. overlap' \in Entries(OverlapTtl)
    BY <1>c, <1>7, SchedulerEntries DEF Tick
  <2>2. claims' \in [Minutes -> Entries(MinuteTicks)]
    BY <1>c, <1>7, SchedulerEntries DEF Tick
  <2>3. now' \in 0 .. Started(LastMinute + 1) - 1
    BY <1>c, <1>7 DEF Tick
  <2> QED BY <1>7, <2>1, <2>2, <2>3 DEF Tick
<1>8. CASE UNCHANGED schedulerVars
  BY <1>8 DEF schedulerVars
<1> QED BY <1>1, <1>2, <1>3, <1>4, <1>5, <1>6, <1>7, <1>8 DEF SchedulerNext

(* The scheduler's clock, claims, lock and machines keep their types.      *)
THEOREM SchedulerTypeCorrect == SchedulerSpec => []SchedulerTypeOK
<1>1. SchedulerInit => SchedulerTypeOK
  <2> SUFFICES ASSUME SchedulerInit PROVE SchedulerTypeOK
    OBVIOUS
  <2>1. NoEntry \in Entries(ClaimTtl) /\ NoEntry \in Entries(OverlapTtl)
    BY DEF Entries
  <2>2. 0 \in Minutes /\ MaxFaults \in Nat
    BY SchedulerNumbers DEF Minutes
  <2>3. 0 \in 0 .. Started(LastMinute + 1) - 1
    <3>1. MinuteTicks \in Nat /\ MinuteTicks > 0 /\ LastMinute \in Nat
      BY SchedulerNumbers
    <3>2. (LastMinute + 1) * MinuteTicks > 0
      BY <3>1
    <3> QED BY <3>1, <3>2 DEF Started
  <2> QED BY <2>1, <2>2, <2>3 DEF SchedulerInit, SchedulerTypeOK
<1>2. SchedulerTypeOK /\ [SchedulerNext]_schedulerVars => SchedulerTypeOK'
  BY SchedulerTypeStep
<1> QED BY <1>1, <1>2, PTL DEF SchedulerSpec

-----------------------------------------------------------------------------
(* Every step keeps the claim of a minute as long as a machine may be due  *)
(* in it, and with it the one claimant and the one run.                    *)
LEMMA SchedulerClaimStep ==
    ASSUME Punctual, OneServer, SchedulerTypeOK, ClaimInv, [SchedulerNext]_schedulerVars PROVE ClaimInv'
<1>c. /\ MinuteTicks \in Nat /\ MinuteTicks > 0 /\ MaxLate \in Nat /\ MaxLate < MinuteTicks
      /\ now \in Int
      /\ \A minute \in Minutes : Started(minute) \in Nat
      /\ \A m \in Machines : at[m] \in Minutes
      /\ \A minute \in Minutes : runs[minute] \in Nat
      /\ \A minute \in Minutes : claims[minute] \in Entries(MinuteTicks)
  BY SchedulerNumbers DEF SchedulerTypeOK, Punctual, ClaimTtl
<1>i. DueInTime /\ ClaimLasts /\ OneClaimant /\ \A minute \in Minutes : runs[minute] <= 1
  BY DEF ClaimInv, OncePerMinute
<1> DEFINE Goal == DueInTime' /\ ClaimLasts' /\ OneClaimant' /\ \A minute \in Minutes : runs'[minute] <= 1
<1>g. Goal => ClaimInv'
  BY DEF ClaimInv, OncePerMinute
<1> USE DEF Idle
<1>1. ASSUME NEW m \in Machines, NEW minute \in Minutes, Pass(m, minute) PROVE Goal
  <2>1. /\ phase'[m] = "due" /\ at'[m] = minute
        /\ \A n \in Machines \ {m} : phase'[n] = phase[n] /\ at'[n] = at[n]
        /\ Started(minute) <= now /\ now <= Started(minute) + MaxLate
    BY <1>1 DEF Pass, SchedulerTypeOK
  <2>2. now' = now /\ claims' = claims /\ runs' = runs
    BY <1>1 DEF Pass
  <2>3. \A n \in Machines : phase'[n] = "claimed" => phase[n] = "claimed" /\ at'[n] = at[n]
    BY <2>1
  <2>4. DueInTime'
    <3> SUFFICES ASSUME NEW n \in Machines, phase'[n] = "due"
                 PROVE  Started(at'[n]) <= now /\ now <= Started(at'[n]) + MaxLate
      BY <2>2 DEF DueInTime
    <3>1. CASE n = m
      BY <2>1, <3>1
    <3>2. CASE n # m
      BY <1>i, <2>1, <3>2 DEF DueInTime
    <3> QED BY <3>1, <3>2
  <2> QED BY <1>i, <2>2, <2>3, <2>4 DEF ClaimLasts, Taken, OneClaimant
<1>2. ASSUME NEW m \in Machines,
             ConditionFalse(m) \/ AnotherServer(m) \/ StillRunning(m) \/ Finish(m) \/ Interrupt(m)
      PROVE  Goal
  <2>1. \A n \in Machines : phase'[n] \in {"due", "claimed"} => phase'[n] = phase[n]
    BY <1>2 DEF ConditionFalse, AnotherServer, StillRunning, Finish, Interrupt, SchedulerTypeOK
  <2>2. now' = now /\ claims' = claims /\ runs' = runs /\ at' = at
    BY <1>2 DEF ConditionFalse, AnotherServer, StillRunning, Finish, Interrupt
  <2> QED BY <1>i, <2>1, <2>2 DEF DueInTime, ClaimLasts, Taken, OneClaimant
<1>3. ASSUME NEW m \in Machines, Claim(m) PROVE Goal
  <2>1. /\ phase[m] = "due" /\ phase'[m] = "claimed" /\ \A n \in Machines \ {m} : phase'[n] = phase[n]
        /\ now' = now /\ runs' = runs /\ at' = at
    BY <1>3 DEF Claim, SchedulerTypeOK
  <2>2. /\ ~Live(claims[at[m]])
        /\ claims'[at[m]] = Add(claims[at[m]], m, MinuteTicks)
        /\ \A minute \in Minutes \ {at[m]} : claims'[minute] = claims[minute]
    BY <1>3, <1>c DEF Claim, ClaimTtl, SchedulerTypeOK
  <2>3. Live(claims'[at[m]]) /\ claims'[at[m]].left = MinuteTicks
    BY <1>c, <2>2, SchedulerEntries
  <2>4. Started(at[m]) <= now /\ now <= Started(at[m]) + MaxLate
    BY <1>i, <2>1 DEF DueInTime
  <2>5. ~Taken(at[m])
    BY <1>c, <1>i, <2>2, <2>4 DEF ClaimLasts
  <2>6. runs[at[m]] = 0 /\ \A n \in Machines : phase[n] = "claimed" => at[n] # at[m]
    BY <1>c, <2>5 DEF Taken
  <2>7. DueInTime'
    BY <1>i, <2>1 DEF DueInTime
  <2>8. OneClaimant'
    BY <1>i, <2>1, <2>6 DEF OneClaimant
  <2>9. ClaimLasts'
    <3> SUFFICES ASSUME NEW minute \in Minutes, Taken(minute)'
                 PROVE  \/ Started(minute) + MinuteTicks <= now'
                        \/ Live(claims'[minute]) /\ Started(minute) + MinuteTicks <= now' + claims'[minute].left
      BY DEF ClaimLasts, Live, Started
    <3>1. CASE minute = at[m]
      BY <1>c, <2>1, <2>3, <2>4, <3>1
    <3>2. CASE minute # at[m]
      <4>1. Taken(minute) /\ claims'[minute] = claims[minute]
        BY <2>1, <2>2, <3>2 DEF Taken
      <4> QED BY <1>i, <2>1, <4>1 DEF ClaimLasts
    <3> QED BY <3>1, <3>2
  <2> QED BY <1>i, <2>1, <2>7, <2>8, <2>9
<1>4. ASSUME NEW m \in Machines, Start(m) PROVE Goal
  <2>1. /\ phase[m] = "claimed" /\ phase'[m] = "working" /\ \A n \in Machines \ {m} : phase'[n] = phase[n]
        /\ now' = now /\ claims' = claims /\ at' = at
        /\ runs'[at[m]] = runs[at[m]] + 1 /\ \A minute \in Minutes \ {at[m]} : runs'[minute] = runs[minute]
    BY <1>4, <1>c DEF Start, SchedulerTypeOK
  <2>2. runs[at[m]] = 0 /\ \A n \in Machines : phase[n] = "claimed" /\ at[n] = at[m] => n = m
    BY <1>i, <2>1 DEF OneClaimant
  <2>3. \A n \in Machines : phase'[n] \in {"due", "claimed"} => n # m /\ phase[n] = phase'[n]
    BY <2>1
  <2>4. DueInTime'
    BY <1>i, <2>1, <2>3 DEF DueInTime
  <2>5. OneClaimant'
    BY <1>c, <1>i, <2>1, <2>2, <2>3 DEF OneClaimant
  <2>6. \A minute \in Minutes : Taken(minute)' => Taken(minute)
    BY <2>1, <2>3 DEF Taken
  <2>7. ClaimLasts'
    BY <1>i, <2>1, <2>6 DEF ClaimLasts, Live
  <2>8. \A minute \in Minutes : runs'[minute] <= 1
    BY <1>i, <2>1, <2>2
  <2> QED BY <2>4, <2>5, <2>7, <2>8
<1>5. ASSUME Tick PROVE Goal
  <2>1. phase' = phase /\ at' = at /\ runs' = runs /\ now' = now + 1
        /\ \A minute \in Minutes : claims'[minute] = AgeEntry(claims[minute])
    BY <1>5 DEF Tick
  <2>2. DueInTime'
    <3> SUFFICES ASSUME NEW m \in Machines, phase[m] = "due"
                 PROVE  Started(at[m]) <= now + 1 /\ now + 1 <= Started(at[m]) + MaxLate
      BY <2>1 DEF DueInTime
    <3> QED BY <1>5, <1>c, <1>i DEF Tick, DueInTime
  <2>3. OneClaimant'
    BY <1>i, <2>1 DEF OneClaimant
  <2>4. ClaimLasts'
    <3> SUFFICES ASSUME NEW minute \in Minutes, Taken(minute)
                 PROVE  \/ Started(minute) + MinuteTicks <= now + 1
                        \/ Live(claims'[minute]) /\ Started(minute) + MinuteTicks <= now + 1 + claims'[minute].left
      BY <2>1 DEF ClaimLasts, Taken, Live, Started
    <3>1. CASE Started(minute) + MinuteTicks <= now
      BY <1>c, <3>1
    <3>2. CASE Live(claims[minute]) /\ Started(minute) + MinuteTicks <= now + claims[minute].left
      <4>1. claims[minute].left \in Nat /\ claims'[minute] # NoEntry /\ claims'[minute].left = claims[minute].left - 1
        BY <1>c, <2>1, <3>2, SchedulerEntries DEF Live
      <4>2. CASE claims[minute].left = 1
        BY <1>c, <3>2, <4>2
      <4>3. CASE claims[minute].left # 1
        BY <1>c, <3>2, <4>1, <4>3 DEF Live
      <4> QED BY <4>2, <4>3
    <3> QED BY <1>i, <3>1, <3>2 DEF ClaimLasts
  <2> QED BY <1>i, <2>1, <2>2, <2>3, <2>4
<1>6. ASSUME UNCHANGED schedulerVars PROVE Goal
  <2>1. phase' = phase /\ at' = at /\ runs' = runs /\ now' = now /\ claims' = claims
    BY <1>6 DEF schedulerVars
  <2> QED BY <1>i, <2>1 DEF DueInTime, ClaimLasts, Taken, OneClaimant
<1> HIDE DEF Goal
<1> QED BY <1>g, <1>1, <1>2, <1>3, <1>4, <1>5, <1>6 DEF SchedulerNext

(* on_one_server: as long as a pass comes to the task within its minute,   *)
(* the task is started once at most for each minute, on any number of      *)
(* machines and with any crashes.                                          *)
THEOREM OncePerMinuteCorrect == Punctual => (SchedulerSpec => []OncePerMinute)
<1> SUFFICES ASSUME Punctual PROVE SchedulerSpec => []OncePerMinute
  OBVIOUS
<1>1. CASE OneServer
  <2>1. SchedulerInit => ClaimInv
    BY DEF SchedulerInit, ClaimInv, DueInTime, ClaimLasts, Taken, OneClaimant, OncePerMinute
  <2>2. SchedulerTypeOK /\ ClaimInv /\ [SchedulerNext]_schedulerVars => ClaimInv'
    BY <1>1, SchedulerClaimStep
  <2>3. ClaimInv => OncePerMinute
    BY DEF ClaimInv
  <2>4. SchedulerSpec => []SchedulerTypeOK
    BY SchedulerTypeCorrect
  <2> QED BY <2>1, <2>2, <2>3, <2>4, PTL DEF SchedulerSpec
<1>2. CASE ~OneServer
  <2>1. OncePerMinute
    BY <1>2 DEF OncePerMinute
  <2> QED BY <2>1, PTL
<1> QED BY <1>1, <1>2

(* Every step leaves the overlap lock with whoever works.                  *)
LEMMA SchedulerLockStep ==
    ASSUME SchedulerTypeOK, LockedWork, [SchedulerNext]_schedulerVars PROVE LockedWork'
<1> SUFFICES ASSUME WithoutOverlapping, NEW m \in Machines, phase'[m] = "working"
             PROVE  Live(overlap') /\ overlap'.value = m
  BY DEF LockedWork, Live
<1>c. OverlapTtl \in Nat /\ OverlapTtl > 0 /\ overlap \in Entries(OverlapTtl)
  BY SchedulerNumbers DEF SchedulerTypeOK
<1>i. \A n \in Machines : phase[n] = "working" => Live(overlap) /\ overlap.value = n
  BY DEF LockedWork
<1> USE DEF Idle
<1>1. ASSUME NEW n \in Machines, NEW minute \in Minutes, Pass(n, minute) PROVE Live(overlap') /\ overlap'.value = m
  BY <1>i, <1>1 DEF Pass, SchedulerTypeOK
<1>2. ASSUME NEW n \in Machines,
             ConditionFalse(n) \/ AnotherServer(n) \/ StillRunning(n) \/ Interrupt(n) \/ Claim(n)
      PROVE  Live(overlap') /\ overlap'.value = m
  BY <1>i, <1>2 DEF ConditionFalse, AnotherServer, StillRunning, Interrupt, Claim, SchedulerTypeOK
<1>3. ASSUME NEW n \in Machines, Start(n) PROVE Live(overlap') /\ overlap'.value = m
  <2>1. ~Live(overlap) /\ overlap' = Add(overlap, n, OverlapTtl) /\ phase'[n] = "working"
        /\ \A k \in Machines \ {n} : phase'[k] = phase[k]
    BY <1>3 DEF Start, SchedulerTypeOK
  <2>2. m = n
    BY <1>i, <2>1
  <2> QED BY <1>c, <2>1, <2>2, SchedulerEntries
<1>4. ASSUME NEW n \in Machines, Finish(n) PROVE Live(overlap') /\ overlap'.value = m
  <2>1. phase[n] = "working" /\ phase'[n] = "idle" /\ \A k \in Machines \ {n} : phase'[k] = phase[k]
    BY <1>4 DEF Finish, SchedulerTypeOK
  <2>2. m # n /\ phase[m] = "working"
    BY <2>1
  <2> QED BY <1>i, <2>1, <2>2
<1>5. CASE Tick
  <2>1. phase[m] = "working" /\ overlap.left > 1 /\ overlap' = AgeEntry(overlap)
    BY <1>5 DEF Tick
  <2>2. Live(overlap) /\ overlap.value = m
    BY <1>i, <2>1
  <2>3. overlap.left \in Nat /\ overlap' # NoEntry /\ overlap'.left = overlap.left - 1 /\ overlap'.value = m
    BY <1>c, <2>1, <2>2, SchedulerEntries DEF Live
  <2>4. overlap'.left # 0
    BY <2>1, <2>3
  <2> QED BY <2>3, <2>4 DEF Live
<1>6. CASE UNCHANGED schedulerVars
  BY <1>i, <1>6 DEF schedulerVars
<1> QED BY <1>1, <1>2, <1>3, <1>4, <1>5, <1>6 DEF SchedulerNext

(* without_overlapping: no two machines work on the task at once, whatever *)
(* the minutes and the crashes, if its TTL is longer than the work.        *)
THEOREM NoOverlapCorrect == SchedulerSpec => []NoOverlap
<1>1. SchedulerInit => LockedWork
  BY DEF SchedulerInit, LockedWork
<1>2. SchedulerTypeOK /\ LockedWork /\ [SchedulerNext]_schedulerVars => LockedWork'
  BY SchedulerLockStep
<1>3. LockedWork => NoOverlap
  BY DEF LockedWork, NoOverlap
<1>4. SchedulerSpec => []SchedulerTypeOK
  BY SchedulerTypeCorrect
<1> QED BY <1>1, <1>2, <1>3, <1>4, PTL DEF SchedulerSpec
-----------------------------------------------------------------------------
(* A minute whose claim stands is served: its task has been started, or    *)
(* the machine that claimed it is about to start it.                       *)
ServedInv == \A minute \in Minutes : Live(claims[minute]) => Taken(minute)

(* A claim is given up by nothing but the start of the task, where there   *)
(* is no overlap lock to be refused and nothing fails.                     *)
LEMMA ServedStep ==
    ASSUME ~WithoutOverlapping, MaxFaults = 0, SchedulerTypeOK, ServedInv,
           [SchedulerNext]_schedulerVars
    PROVE  ServedInv'
<1> SUFFICES ASSUME NEW k \in Minutes, Live(claims'[k]) PROVE Taken(k)'
  BY DEF ServedInv, Live
<1>i. Live(claims[k]) => runs[k] > 0 \/ \E n \in Machines : phase[n] = "claimed" /\ at[n] = k
  BY DEF ServedInv, Taken
<1>k. ASSUME Live(claims[k]), runs'[k] = runs[k],
             \A n \in Machines : phase[n] = "claimed" => phase'[n] = "claimed" /\ at'[n] = at[n]
      PROVE  Taken(k)'
  BY <1>i, <1>k DEF Taken
<1> USE DEF Idle, SchedulerTypeOK
<1>1. ASSUME NEW m \in Machines, NEW minute \in Minutes, Pass(m, minute) PROVE Taken(k)'
  BY <1>k, <1>1 DEF Pass
<1>2. ASSUME NEW m \in Machines, ConditionFalse(m) \/ AnotherServer(m) PROVE Taken(k)'
  BY <1>k, <1>2 DEF ConditionFalse, AnotherServer
<1>3. ASSUME NEW m \in Machines, Claim(m) PROVE Taken(k)'
  <2>1. phase[m] = "due" /\ phase' = [phase EXCEPT ![m] = "claimed"] /\ UNCHANGED <<at, runs>>
    BY <1>3 DEF Claim
  <2>2. CASE k = at[m]
    BY <2>1, <2>2 DEF Taken
  <2>3. CASE k # at[m]
    <3>1. claims'[k] = claims[k]
      BY <1>3, <2>3 DEF Claim
    <3>2. \A n \in Machines : phase[n] = "claimed" => phase'[n] = "claimed"
      BY <2>1
    <3> QED BY <1>k, <2>1, <3>1, <3>2
  <2> QED BY <2>2, <2>3
<1>4. ASSUME NEW m \in Machines, Start(m) PROVE Taken(k)'
  <2>1. /\ phase' = [phase EXCEPT ![m] = "working"] /\ UNCHANGED <<claims, at>>
        /\ runs' = [runs EXCEPT ![at[m]] = @ + 1]
    BY <1>4 DEF Start
  <2>2. CASE k = at[m]
    <3>1. runs'[k] = runs[k] + 1 /\ runs[k] \in Nat
      BY <2>1, <2>2
    <3>2. runs'[k] > 0
      BY <3>1
    <3> QED BY <3>2 DEF Taken
  <2>3. CASE k # at[m]
    <3>1. runs'[k] = runs[k]
      BY <2>1, <2>3
    <3>2. \A n \in Machines : phase[n] = "claimed" /\ at[n] = k => phase'[n] = "claimed"
      BY <2>1, <2>3
    <3> QED BY <1>i, <2>1, <3>1, <3>2 DEF Taken
  <2> QED BY <2>2, <2>3
<1>5. ASSUME NEW m \in Machines, Finish(m) PROVE Taken(k)'
  BY <1>k, <1>5 DEF Finish
<1>6. ASSUME NEW m \in Machines, StillRunning(m) \/ Interrupt(m) PROVE Taken(k)'
  BY <1>6 DEF StillRunning, Interrupt
<1>7. CASE Tick
  <2>1. Live(claims[k])
    BY <1>7 DEF Tick, AgeEntry, Live
  <2> QED BY <1>k, <1>7, <2>1 DEF Tick
<1>8. CASE UNCHANGED schedulerVars
  BY <1>k, <1>8 DEF schedulerVars
<1> QED BY <1>1, <1>2, <1>3, <1>4, <1>5, <1>6, <1>7, <1>8 DEF SchedulerNext

(* Where without_overlapping is not asked for and nothing fails, a machine *)
(* that finds the minute claimed leaves it to one that has run the task or *)
(* is about to: what the order of the two locks is said to be for is lost  *)
(* only when the claimant itself skips or fails.                           *)
THEOREM SkipCorrect ==
    ~WithoutOverlapping /\ MaxFaults = 0 => (SchedulerSpec => SkipMeansServed)
<1> SUFFICES ASSUME ~WithoutOverlapping, MaxFaults = 0 PROVE SchedulerSpec => SkipMeansServed
  OBVIOUS
<1> DEFINE Served == \A m \in Machines :
               phase[m] = "due" /\ phase'[m] = "idle" /\ OneServer /\ Live(claims[at[m]]) /\ faults' = faults =>
                   \/ runs[at[m]] > 0
                   \/ \E n \in Machines \ {m} : phase[n] = "claimed" /\ at[n] = at[m]
<1>1. SchedulerInit => ServedInv
  BY DEF SchedulerInit, ServedInv, Live
<1>2. SchedulerTypeOK /\ ServedInv /\ [SchedulerNext]_schedulerVars => ServedInv'
  BY ServedStep
<1>3. SchedulerTypeOK /\ ServedInv => Served
  BY DEF SchedulerTypeOK, ServedInv, Taken
<1>4. SchedulerSpec => []SchedulerTypeOK
  BY SchedulerTypeCorrect
<1>5. SkipMeansServed <=> [][Served]_schedulerVars
  BY DEF SkipMeansServed
<1> HIDE DEF Served
<1> QED BY <1>1, <1>2, <1>3, <1>4, <1>5, PTL DEF SchedulerSpec
=============================================================================
