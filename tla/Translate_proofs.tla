-------------------------- MODULE Translate_proofs --------------------------
(***************************************************************************)
(* Proofs about Translate: a translated rule applies to exactly the        *)
(* requests its editor rule is for, as far as its source is written the    *)
(* way the engine compares it.  The ranges of the dates are the heart of   *)
(* it: whole days, of any length, become half-open ranges of ticks, which  *)
(* are written in whole seconds.  No day is cut by that, and an instant by *)
(* less than a second.                                                     *)
(***************************************************************************)
EXTENDS Translate, TLAPS

USE DEF Instant, Day

----------------------------------------------------------------------------
(* Days and ticks.                                                         *)

LEMMA TickOfDay ==
  ASSUME NEW t \in Int
  PROVE  /\ DayOf(t) \in Int
         /\ Midnight(DayOf(t)) <= t
         /\ t < Midnight(DayOf(t)) + TicksPerDay
BY EngineAssumption, Z3 DEF DayOf, Midnight

LEMMA MidnightIsInt == \A d \in Int : Midnight(d) \in Int
BY EngineAssumption DEF Midnight

LEMMA MidnightsGrow ==
  ASSUME NEW c \in Int, NEW d \in Int, c < d
  PROVE  Midnight(c) + TicksPerDay <= Midnight(d)
BY EngineAssumption, Z3 DEF Midnight

(* A tick is before a midnight iff its day is before that day.             *)
LEMMA BeforeMidnight ==
  ASSUME NEW t \in Int, NEW d \in Int
  PROVE  t < Midnight(d) <=> DayOf(t) < d
<1>1. DayOf(t) \in Int /\ Midnight(DayOf(t)) <= t
      /\ t < Midnight(DayOf(t)) + TicksPerDay
  BY TickOfDay
<1>2. Midnight(d) \in Int /\ Midnight(DayOf(t)) \in Int /\ TicksPerDay \in Int
  BY <1>1, MidnightIsInt, EngineAssumption
<1>3. CASE DayOf(t) < d
  BY <1>1, <1>2, <1>3, MidnightsGrow
<1>4. CASE DayOf(t) = d
  BY <1>1, <1>2, <1>4
<1>5. CASE d < DayOf(t)
  <2>1. Midnight(d) + TicksPerDay <= Midnight(DayOf(t))
    BY <1>1, <1>5, MidnightsGrow
  <2>2. TicksPerDay > 0
    BY EngineAssumption
  <2> QED
    BY <1>1, <1>2, <1>5, <2>1, <2>2
<1> QED
  BY <1>1, <1>3, <1>4, <1>5

(* A whole second, and the one that is left of an instant.                 *)
LEMMA SecondOfTick ==
  ASSUME NEW t \in Int
  PROVE  /\ WholeSecond(t) \in Int
         /\ WholeSecond(t) <= t
         /\ t < WholeSecond(t) + TicksPerSecond
         /\ t \div TicksPerSecond \in Int
BY TranslateAssumption, Z3 DEF WholeSecond

LEMMA SecondsGrow ==
  ASSUME NEW c \in Int, NEW d \in Int, c < d
  PROVE  TicksPerSecond * c + TicksPerSecond <= TicksPerSecond * d
BY TranslateAssumption, Z3

LEMMA LaterSecond ==
  ASSUME NEW s \in Int, NEW t \in Int, WholeSecond(s) < WholeSecond(t)
  PROVE  WholeSecond(s) + TicksPerSecond <= WholeSecond(t)
<1> DEFINE c == s \div TicksPerSecond
           d == t \div TicksPerSecond
<1>1. /\ c \in Int /\ d \in Int
      /\ WholeSecond(s) = TicksPerSecond * c /\ WholeSecond(t) = TicksPerSecond * d
  BY SecondOfTick DEF WholeSecond
<1>2. TicksPerSecond \in Nat
  BY TranslateAssumption
<1> HIDE DEF c, d
<1>3. CASE c < d
  BY <1>1, <1>3, SecondsGrow
<1>4. CASE c = d
  BY <1>1, <1>2, <1>4
<1>5. CASE d < c
  <2>1. TicksPerSecond * d + TicksPerSecond <= TicksPerSecond * c
    BY <1>1, <1>5, SecondsGrow
  <2> QED
    BY <1>1, <1>2, <2>1, SecondOfTick
<1> QED
  BY <1>1, <1>3, <1>4, <1>5

LEMMA SecondAgain ==
  ASSUME NEW c \in Int
  PROVE  WholeSecond(TicksPerSecond * c) = TicksPerSecond * c
<1> DEFINE t == TicksPerSecond * c
           d == t \div TicksPerSecond
<1>1. TicksPerSecond \in Nat /\ t \in Int
  BY TranslateAssumption, Z3
<1>2. d \in Int /\ WholeSecond(t) = TicksPerSecond * d /\ WholeSecond(t) \in Int
      /\ WholeSecond(t) <= t /\ t < WholeSecond(t) + TicksPerSecond
  BY <1>1, SecondOfTick DEF WholeSecond
<1>3. t = TicksPerSecond * c
  OBVIOUS
<1> HIDE DEF t, d
<1>4. CASE c < d
  <2>1. TicksPerSecond * c + TicksPerSecond <= TicksPerSecond * d
    BY <1>2, <1>4, SecondsGrow
  <2>2. TicksPerSecond > 0
    BY TranslateAssumption
  <2> QED
    BY <1>1, <1>2, <1>3, <2>1, <2>2
<1>5. CASE d < c
  <2>1. TicksPerSecond * d + TicksPerSecond <= TicksPerSecond * c
    BY <1>2, <1>5, SecondsGrow
  <2> QED
    BY <1>1, <1>2, <1>3, <2>1
<1>6. CASE c = d
  BY <1>2, <1>3, <1>6
<1> QED
  BY <1>2, <1>3, <1>4, <1>5, <1>6

(* A day begins with a second.                                             *)
LEMMA MidnightIsWhole ==
  ASSUME NEW d \in Int
  PROVE  WholeSecond(Midnight(d)) = Midnight(d)
<1> DEFINE k == TicksPerDay \div TicksPerSecond
<1>1. k \in Int /\ TicksPerDay = TicksPerSecond * k
  BY EngineAssumption, TranslateAssumption, Z3
<1> HIDE DEF k
<1>2. d * k \in Int /\ Midnight(d) = TicksPerSecond * (d * k)
  <2>1. d * k \in Int
    BY <1>1, Z3
  <2>2. d * (TicksPerSecond * k) = TicksPerSecond * (d * k)
    BY <1>1, TranslateAssumption, Z3
  <2> QED
    BY <1>1, <2>1, <2>2 DEF Midnight
<1> QED
  BY <1>2, SecondAgain

LEMMA ReadableLength ==
  ASSUME NEW c \in Condition, Readable(c)
  PROVE  /\ 1 \in DOMAIN c.values /\ Len(c.values) \in DOMAIN c.values
         /\ ~ TwoOperands(c) => Len(c.values) = 1
<1>1. c.values \in Seq(Nat \cup {Unreadable})
  BY DEF Condition
<1>2. DOMAIN c.values = 1..Len(c.values)
  BY <1>1
<1>3. Len(c.values) = IF TwoOperands(c) THEN 2 ELSE 1
  BY DEF Readable
<1> QED
  BY <1>2, <1>3

LEMMA DateOperands ==
  ASSUME NEW c \in Condition, ReadableDate(c), c.operator # "weekdays"
  PROVE  /\ c.values[1] \in Day /\ LastOperand(c) \in Day
         /\ ~ TwoOperands(c) => LastOperand(c) = c.values[1]
         /\ c.operator \in DateOperator
<1>1. /\ Readable(c) /\ c.operator \in DateOperator
      /\ \A k \in DOMAIN c.values : c.values[k] \in Day
  BY DEF ReadableDate
<1> QED
  BY <1>1, ReadableLength DEF LastOperand

LEMMA DatetimeOperands ==
  ASSUME NEW c \in Condition, ReadableDatetime(c)
  PROVE  /\ c.values[1] \in Nat /\ LastOperand(c) \in Nat
         /\ ~ TwoOperands(c) => LastOperand(c) = c.values[1]
         /\ c.operator \in DatetimeOperator
<1>1. Readable(c) /\ c.operator \in DatetimeOperator
  BY DEF ReadableDatetime
<1>2. c.values \in Seq(Nat \cup {Unreadable})
  BY DEF Condition
<1>3. \A k \in DOMAIN c.values : c.values[k] \in Nat \cup {Unreadable}
  BY <1>2
<1>4. \A k \in DOMAIN c.values : c.values[k] \in Nat
  BY <1>1, <1>3 DEF Readable
<1> QED
  BY <1>1, <1>4, ReadableLength DEF LastOperand

----------------------------------------------------------------------------
(* The ranges are exact.                                                   *)

LEMMA DatesExact ==
  ASSUME NEW c \in Condition, ReadableDate(c), c.operator # "weekdays",
         NEW t \in Instant
  PROVE  (\E g \in DateRanges(c) : InRange(g, t)) <=> DateHolds(c, t)
<1> DEFINE first == c.values[1]
           last  == LastOperand(c)
           day   == DayOf(t)
<1>1. first \in Int /\ last \in Int /\ c.operator \in DateOperator
  BY DateOperands, EngineAssumption
<1>2. day \in Int /\ first + 1 \in Int /\ last + 1 \in Int
  BY <1>1, TickOfDay
<1>3. /\ t < Midnight(first) <=> day < first
      /\ t < Midnight(first + 1) <=> day < first + 1
      /\ t < Midnight(last + 1) <=> day < last + 1
  BY <1>1, <1>2, BeforeMidnight
<1>4. Midnight(first) \in Int /\ Midnight(first + 1) \in Int
      /\ Midnight(last + 1) \in Int
  BY <1>1, <1>2, MidnightIsInt
<1>5. /\ t >= Midnight(first) <=> ~ (t < Midnight(first))
      /\ t >= Midnight(first + 1) <=> ~ (t < Midnight(first + 1))
      /\ t >= Midnight(last + 1) <=> ~ (t < Midnight(last + 1))
  BY <1>4
<1> HIDE DEF first, last, day
<1>6. CASE c.operator = "equals"
  <2>1. DateRanges(c) = {<<{Midnight(first)}, {Midnight(first + 1)}>>}
    BY <1>6 DEF DateRanges, Start, End, first
  <2>2. DateHolds(c, t) <=> day = first
    BY <1>6 DEF DateHolds, first, day
  <2> QED
    BY <1>1, <1>2, <1>3, <1>5, <2>1, <2>2 DEF InRange
<1>7. CASE c.operator = "notEquals"
  <2>1. DateRanges(c) = {<<{}, {Midnight(first)}>>, <<{Midnight(first + 1)}, {}>>}
    BY <1>7 DEF DateRanges, Start, End, first
  <2>2. DateHolds(c, t) <=> day # first
    BY <1>7 DEF DateHolds, first, day
  <2> QED
    BY <1>1, <1>2, <1>3, <1>5, <2>1, <2>2 DEF InRange
<1>8. CASE c.operator = "before"
  <2>1. DateRanges(c) = {<<{}, {Midnight(first)}>>}
    BY <1>8 DEF DateRanges, Start, End, first
  <2>2. DateHolds(c, t) <=> day < first
    BY <1>8 DEF DateHolds, first, day
  <2> QED
    BY <1>1, <1>2, <1>3, <1>5, <2>1, <2>2 DEF InRange
<1>9. CASE c.operator = "after"
  <2>1. DateRanges(c) = {<<{Midnight(first + 1)}, {}>>}
    BY <1>9 DEF DateRanges, Start, End, first
  <2>2. DateHolds(c, t) <=> day > first
    BY <1>9 DEF DateHolds, first, day
  <2> QED
    BY <1>1, <1>2, <1>3, <1>5, <2>1, <2>2 DEF InRange
<1>10. CASE c.operator = "between"
  <2>1. DateRanges(c) = {<<{Midnight(first)}, {Midnight(last + 1)}>>}
    BY <1>10 DEF DateRanges, Start, End, first, last
  <2>2. DateHolds(c, t) <=> first <= day /\ day <= last
    BY <1>10 DEF DateHolds, first, last, day
  <2> QED
    BY <1>1, <1>2, <1>3, <1>5, <2>1, <2>2 DEF InRange
<1>11. CASE c.operator = "notBetween"
  <2>1. DateRanges(c) = {<<{}, {Midnight(first)}>>, <<{Midnight(last + 1)}, {}>>}
    BY <1>11 DEF DateRanges, Start, End, first, last
  <2>2. DateHolds(c, t) <=> ~ (first <= day /\ day <= last)
    BY <1>11 DEF DateHolds, first, last, day
  <2> QED
    BY <1>1, <1>2, <1>3, <1>5, <2>1, <2>2 DEF InRange
<1> QED
  BY <1>1, <1>6, <1>7, <1>8, <1>9, <1>10, <1>11 DEF DateOperator

LEMMA DatesWritten ==
  ASSUME NEW c \in Condition, ReadableDate(c), c.operator # "weekdays"
  PROVE  Written(DateRanges(c)) = DateRanges(c)
<1> DEFINE first == c.values[1]
           last  == LastOperand(c)
           Bounds == {{}, Start(first), End(first), End(last)}
<1>1. first \in Int /\ last \in Int /\ c.operator \in DateOperator
  BY DateOperands, EngineAssumption
<1>2. \A b \in Bounds : Rfc3339(b) = b
  <2>1. \A d \in Int : Rfc3339({Midnight(d)}) = {Midnight(d)}
    BY MidnightIsWhole DEF Rfc3339
  <2>2. first + 1 \in Int /\ last + 1 \in Int
    BY <1>1
  <2>3. Rfc3339({}) = {}
    BY DEF Rfc3339
  <2> QED
    BY <1>1, <2>1, <2>2, <2>3 DEF Start, End
<1>3. DateRanges(c) \subseteq
        {<<Start(first), End(first)>>, <<{}, Start(first)>>, <<End(first), {}>>,
         <<Start(first), End(last)>>, <<End(last), {}>>}
  BY <1>1, Zenon DEF DateRanges, DateOperator
<1>4. DateRanges(c) \subseteq Bounds \X Bounds
  <2>1. {<<Start(first), End(first)>>, <<{}, Start(first)>>, <<End(first), {}>>,
         <<Start(first), End(last)>>, <<End(last), {}>>} \subseteq Bounds \X Bounds
    OBVIOUS
  <2> QED
    BY <1>3, <2>1
<1> HIDE DEF Bounds
<1>5. \A g \in DateRanges(c) : <<Rfc3339(g[1]), Rfc3339(g[2])>> = g
  BY <1>2, <1>4
<1> QED
  BY <1>5 DEF Written

(* A datetime with the fraction of its second cut off.                     *)
Slack(c) ==
  IF \A k \in DOMAIN c.values : c.values[k] = WholeSecond(c.values[k])
  THEN 0 ELSE TicksPerSecond - 1

LEMMA OperandsCut ==
  ASSUME NEW c \in Condition, ReadableDatetime(c)
  PROVE  /\ Slack(c) \in Nat
         /\ \A t \in Int : Unsure(c, t) = t .. (t + Slack(c))
         /\ c.values[1] <= WholeSecond(c.values[1]) + Slack(c)
         /\ LastOperand(c) <= WholeSecond(LastOperand(c)) + Slack(c)
<1>1. /\ c.values[1] \in Int /\ LastOperand(c) \in Int
      /\ 1 \in DOMAIN c.values /\ Len(c.values) \in DOMAIN c.values
      /\ TicksPerSecond \in Nat \ {0}
  BY DatetimeOperands, ReadableLength, TranslateAssumption DEF ReadableDatetime
<1>2. CASE \A k \in DOMAIN c.values : c.values[k] = WholeSecond(c.values[k])
  <2>1. Slack(c) = 0 /\ \A t : Unsure(c, t) = {t}
    BY <1>2 DEF Slack, Unsure
  <2>2. c.values[1] = WholeSecond(c.values[1]) /\ LastOperand(c) = WholeSecond(LastOperand(c))
    BY <1>1, <1>2 DEF LastOperand
  <2> QED
    BY <1>1, <2>1, <2>2
<1>3. CASE ~ \A k \in DOMAIN c.values : c.values[k] = WholeSecond(c.values[k])
  <2>1. Slack(c) = TicksPerSecond - 1 /\ \A t : Unsure(c, t) = t .. (t + TicksPerSecond - 1)
    BY <1>3 DEF Slack, Unsure
  <2>2. \A t \in Int : t .. (t + TicksPerSecond - 1) = t .. (t + Slack(c))
    BY <1>1, <2>1
  <2>3. \A t \in Int : /\ WholeSecond(t) \in Int
                       /\ t < WholeSecond(t) + TicksPerSecond
    BY SecondOfTick
  <2>4. ASSUME NEW t \in Int
        PROVE  t <= WholeSecond(t) + (TicksPerSecond - 1)
    BY <1>1, <2>3
  <2>5. /\ c.values[1] <= WholeSecond(c.values[1]) + Slack(c)
        /\ LastOperand(c) <= WholeSecond(LastOperand(c)) + Slack(c)
    BY <1>1, <2>1, <2>4
  <2>6. \A t \in Int : Unsure(c, t) = t .. (t + Slack(c))
    BY <2>1, <2>2
  <2>7. Slack(c) \in Nat
    BY <1>1, <2>1
  <2> QED
    BY <2>5, <2>6, <2>7
<1> QED
  BY <1>2, <1>3

LEMMA WrittenPair ==
  ASSUME NEW x, NEW y
  PROVE  /\ Written({<<{}, {x}>>}) = {<<{}, {WholeSecond(x)}>>}
         /\ Written({<<{x}, {}>>}) = {<<{WholeSecond(x)}, {}>>}
         /\ Written({<<{x}, {y}>>}) = {<<{WholeSecond(x)}, {WholeSecond(y)}>>}
         /\ Written({<<{}, {x}>>, <<{y}, {}>>})
              = {<<{}, {WholeSecond(x)}>>, <<{WholeSecond(y)}, {}>>}
<1>1. Rfc3339({x}) = {WholeSecond(x)} /\ Rfc3339({y}) = {WholeSecond(y)} /\ Rfc3339({}) = {}
  BY DEF Rfc3339
<1>2. ASSUME NEW f1, NEW f2
      PROVE  Written({<<f1, f2>>}) = {<<Rfc3339(f1), Rfc3339(f2)>>}
  BY DEF Written
<1>4. /\ Written({<<{}, {x}>>}) = {<<Rfc3339({}), Rfc3339({x})>>}
      /\ Written({<<{x}, {}>>}) = {<<Rfc3339({x}), Rfc3339({})>>}
      /\ Written({<<{x}, {y}>>}) = {<<Rfc3339({x}), Rfc3339({y})>>}
  BY <1>2
<1>5. Written({<<{}, {x}>>, <<{y}, {}>>})
        = {<<Rfc3339({}), Rfc3339({x})>>, <<Rfc3339({y}), Rfc3339({})>>}
  <2>1. {<<{}, {x}>>, <<{y}, {}>>} = {<<{}, {x}>>} \cup {<<{y}, {}>>}
    OBVIOUS
  <2>2. \A R, S : Written(R \cup S) = Written(R) \cup Written(S)
    BY DEF Written
  <2>3. Written({<<{}, {x}>>, <<{y}, {}>>})
          = Written({<<{}, {x}>>}) \cup Written({<<{y}, {}>>})
    BY <2>1, <2>2
  <2>4. Written({<<{y}, {}>>}) = {<<Rfc3339({y}), Rfc3339({})>>}
    BY <1>2
  <2> QED
    BY <1>4, <2>3, <2>4
<1> QED
  BY <1>1, <1>4, <1>5

LEMMA InOne ==
  ASSUME NEW x, NEW y, NEW t
  PROVE  /\ (\E g \in {<<{}, {x}>>} : InRange(g, t)) <=> t < x
         /\ (\E g \in {<<{x}, {}>>} : InRange(g, t)) <=> t >= x
         /\ (\E g \in {<<{x}, {y}>>} : InRange(g, t)) <=> t >= x /\ t < y
         /\ (\E g \in {<<{}, {x}>>, <<{y}, {}>>} : InRange(g, t)) <=> t < x \/ t >= y
BY DEF InRange

(* The ranges of a datetime are those of the instants its fraction may be  *)
(* about, and no less than those it is surely about.                       *)
LEMMA DatetimesAbout ==
  ASSUME NEW c \in Condition, ReadableDatetime(c), NEW t \in Instant
  PROVE  /\ (\E g \in Written(DatetimeRanges(c)) : InRange(g, t))
              => \E u \in Unsure(c, t) : DatetimeHolds(c, u)
         /\ (\A u \in Unsure(c, t) : DatetimeHolds(c, u))
              => \E g \in Written(DatetimeRanges(c)) : InRange(g, t)
<1> DEFINE first == c.values[1]
           last  == LastOperand(c)
           a == WholeSecond(first)
           b == WholeSecond(last)
           s == Slack(c)
           Told == \E g \in Written(DatetimeRanges(c)) : InRange(g, t)
           Holds(u) == DatetimeHolds(c, u)
<1>1. first \in Int /\ last \in Int /\ c.operator \in DatetimeOperator
  BY DatetimeOperands
<1>2. /\ a \in Int /\ a <= first /\ first <= a + s
      /\ b \in Int /\ b <= last /\ last <= b + s
      /\ s \in Nat /\ s < TicksPerSecond /\ TicksPerSecond \in Nat
      /\ a < b => a + TicksPerSecond <= b
  <2>1. s \in Nat /\ s < TicksPerSecond /\ TicksPerSecond \in Nat
    BY OperandsCut, TranslateAssumption DEF Slack
  <2> QED
    BY <1>1, <2>1, OperandsCut, SecondOfTick, LaterSecond
<1>3. Unsure(c, t) = t .. (t + s)
  BY OperandsCut
<1>4. t \in t .. (t + s) /\ t + s \in t .. (t + s) /\ t .. (t + s) \subseteq Int
  BY <1>2
<1>5. /\ DatetimeRanges(c) = {<<{}, {first}>>}
        => Written(DatetimeRanges(c)) = {<<{}, {a}>>}
      /\ DatetimeRanges(c) = {<<{first}, {}>>}
        => Written(DatetimeRanges(c)) = {<<{a}, {}>>}
      /\ DatetimeRanges(c) = {<<{first}, {last}>>}
        => Written(DatetimeRanges(c)) = {<<{a}, {b}>>}
      /\ DatetimeRanges(c) = {<<{}, {first}>>, <<{last}, {}>>}
        => Written(DatetimeRanges(c)) = {<<{}, {a}>>, <<{b}, {}>>}
  <2>1. /\ Written({<<{}, {first}>>}) = {<<{}, {WholeSecond(first)}>>}
        /\ Written({<<{first}, {}>>}) = {<<{WholeSecond(first)}, {}>>}
        /\ Written({<<{first}, {last}>>}) = {<<{WholeSecond(first)}, {WholeSecond(last)}>>}
        /\ Written({<<{}, {first}>>, <<{last}, {}>>})
             = {<<{}, {WholeSecond(first)}>>, <<{WholeSecond(last)}, {}>>}
    BY WrittenPair, Zenon
  <2> QED
    BY <2>1, Zenon
<1>6. CASE c.operator = "before"
  <2>1. DatetimeRanges(c) = {<<{}, {first}>>}
    BY <1>6 DEF DatetimeRanges
  <2>2. \A u : Holds(u) <=> u < first
    BY <1>6 DEF DatetimeHolds
  <2>3. Told <=> t < a
    <3>1. Written(DatetimeRanges(c)) = {<<{}, {a}>>}
      BY <1>5, <2>1
    <3> QED
      BY <3>1, InOne, Zenon
  <2> HIDE DEF first, last, a, b, s, Told, Holds
  <2>4. Told => Holds(t)
    BY <1>1, <1>2, <2>2, <2>3
  <2>5. Holds(t + s) => Told
    BY <1>1, <1>2, <2>2, <2>3
  <2> QED
    BY <1>3, <1>4, <2>4, <2>5 DEF Told, Holds
<1>7. CASE c.operator = "after"
  <2>1. DatetimeRanges(c) = {<<{first}, {}>>}
    BY <1>7 DEF DatetimeRanges
  <2>2. \A u : Holds(u) <=> u >= first
    BY <1>7 DEF DatetimeHolds
  <2>3. Told <=> t >= a
    <3>1. Written(DatetimeRanges(c)) = {<<{a}, {}>>}
      BY <1>5, <2>1
    <3> QED
      BY <3>1, InOne, Zenon
  <2> HIDE DEF first, last, a, b, s, Told, Holds
  <2>4. Told => Holds(t + s)
    BY <1>1, <1>2, <2>2, <2>3
  <2>5. Holds(t) => Told
    BY <1>1, <1>2, <2>2, <2>3
  <2> QED
    BY <1>3, <1>4, <2>4, <2>5 DEF Told, Holds
<1>8. CASE c.operator = "between"
  <2>1. DatetimeRanges(c) = {<<{first}, {last}>>}
    BY <1>8 DEF DatetimeRanges
  <2>2. \A u : Holds(u) <=> first <= u /\ u < last
    BY <1>8 DEF DatetimeHolds
  <2>3. Told <=> t >= a /\ t < b
    <3>1. Written(DatetimeRanges(c)) = {<<{a}, {b}>>}
      BY <1>5, <2>1
    <3> QED
      BY <3>1, InOne, Zenon
  <2> HIDE DEF first, last, a, b, s, Told, Holds
  <2>4. Told => \E u \in t .. (t + s) : Holds(u)
    <3>1. SUFFICES ASSUME Told PROVE \E u \in t .. (t + s) : Holds(u)
      OBVIOUS
    <3>2. t >= a /\ t < b
      BY <2>3, <3>1
    <3>3. CASE first <= t
      BY <1>1, <1>2, <1>4, <2>2, <3>2, <3>3
    <3>4. CASE t < first
      <4>1. first \in t .. (t + s) /\ first < last
        BY <1>1, <1>2, <3>2, <3>4
      <4> QED
        BY <1>1, <2>2, <4>1
    <3> QED
      BY <1>1, <3>3, <3>4
  <2>5. Holds(t) /\ Holds(t + s) => Told
    BY <1>1, <1>2, <2>2, <2>3
  <2> QED
    BY <1>3, <1>4, <2>4, <2>5 DEF Told, Holds
<1>9. CASE c.operator = "notBetween"
  <2>1. DatetimeRanges(c) = {<<{}, {first}>>, <<{last}, {}>>}
    BY <1>9 DEF DatetimeRanges
  <2>2. \A u : Holds(u) <=> ~ (first <= u /\ u < last)
    BY <1>9 DEF DatetimeHolds
  <2>3. Told <=> t < a \/ t >= b
    <3>1. Written(DatetimeRanges(c)) = {<<{}, {a}>>, <<{b}, {}>>}
      BY <1>5, <2>1
    <3> QED
      BY <3>1, InOne, Zenon
  <2> HIDE DEF first, last, a, b, s, Told, Holds
  <2>4. Told => Holds(t) \/ Holds(t + s)
    BY <1>1, <1>2, <2>2, <2>3
  <2>5. (\A u \in t .. (t + s) : Holds(u)) => Told
    <3>1. SUFFICES ASSUME \A u \in t .. (t + s) : Holds(u), t >= a, t < b PROVE FALSE
      BY <1>2, <2>3
    <3>2. Holds(t)
      BY <1>4, <3>1
    <3>3. t < first
      BY <1>1, <1>2, <2>2, <3>1, <3>2
    <3>4. first \in t .. (t + s) /\ first < last
      BY <1>1, <1>2, <3>1, <3>3
    <3>5. Holds(first)
      BY <3>1, <3>4
    <3> QED
      BY <1>1, <2>2, <3>4, <3>5
  <2> QED
    BY <1>3, <1>4, <2>4, <2>5 DEF Told, Holds
<1> QED
  BY <1>1, <1>6, <1>7, <1>8, <1>9 DEF DatetimeOperator

----------------------------------------------------------------------------
(* A rule that is translated applies to the requests of its editor rule.   *)

Translatable(er) == Redirects(er) /\ DatesAccepted(er) /\ ~ DatesPanic(er)

LEMMA OptionIsOne ==
  ASSUME NEW S, NEW o \in Option(S), NEW x \in o
  PROVE  o = {x} /\ x \in S
BY DEF Option

LEMMA DatetimeTold ==
  ASSUME NEW er \in EditorRule, Translatable(er), NEW q \in Request
  PROVE  /\ InDatetime(TranslatedRule(er), q) =>
              /\ \A c \in DayConditions(er) : \E t \in q.time : DateHolds(c, t)
              /\ \A c \in er.datetime : \E t \in q.time : \E u \in Unsure(c, t) : DatetimeHolds(c, u)
         /\ (/\ \A c \in DayConditions(er) : \E t \in q.time : DateHolds(c, t)
             /\ \A c \in er.datetime :
                  \E t \in q.time : \A u \in Unsure(c, t) : DatetimeHolds(c, u))
              => InDatetime(TranslatedRule(er), q)
<1>1. \A t \in q.time : t \in Instant
  BY DEF Request, Option
<1>2. ASSUME NEW c \in DayConditions(er)
      PROVE  (\E t \in q.time : \E g \in Written(DateRanges(c)) : InRange(g, t)) <=>
             (\E t \in q.time : DateHolds(c, t))
  <2>1. c \in Condition /\ c.operator # "weekdays" /\ ReadableDate(c)
    BY DEF DayConditions, Translatable, DatesAccepted, EditorRule, Option
  <2>2. \A t \in q.time :
          (\E g \in DateRanges(c) : InRange(g, t)) <=> DateHolds(c, t)
    BY <1>1, <2>1, DatesExact
  <2>3. Written(DateRanges(c)) = DateRanges(c)
    BY <2>1, DatesWritten
  <2> QED
    BY <2>2, <2>3
<1>3. ASSUME NEW c \in er.datetime, NEW t \in q.time
      PROVE  /\ (\E g \in Written(DatetimeRanges(c)) : InRange(g, t))
                  => \E u \in Unsure(c, t) : DatetimeHolds(c, u)
             /\ (\A u \in Unsure(c, t) : DatetimeHolds(c, u))
                  => \E g \in Written(DatetimeRanges(c)) : InRange(g, t)
  <2>1. c \in Condition /\ ReadableDatetime(c)
    BY DEF Translatable, DatesAccepted, EditorRule, Option
  <2> QED
    BY <1>1, <2>1, DatetimesAbout
<1>4. TranslatedRule(er).datetime = TranslatedDatetime(er)
  BY DEF TranslatedRule
<1>5. InDatetime(TranslatedRule(er), q) <=>
        /\ \A c \in DayConditions(er) : \E t \in q.time : \E g \in Written(DateRanges(c)) : InRange(g, t)
        /\ \A c \in er.datetime : \E t \in q.time : \E g \in Written(DatetimeRanges(c)) : InRange(g, t)
  BY <1>4, Zenon DEF InDatetime, TranslatedDatetime
<1> QED
  BY <1>2, <1>3, <1>5, Zenon

LEMMA WeekdaysExact ==
  ASSUME NEW er \in EditorRule, NEW q \in Request
  PROVE  InWeekdays(TranslatedRule(er), q) <=>
           \A c \in er.date \ DayConditions(er) :
             \E t \in q.time : DateHolds(c, t)
<1>1. TranslatedRule(er).weekdays
        = {Weekdays(c) : c \in er.date \ DayConditions(er)}
  BY DEF TranslatedRule
<1>2. ASSUME NEW c \in er.date \ DayConditions(er), NEW t
      PROVE  DateHolds(c, t) <=> WeekdayOf(t) \in Weekdays(c)
  <2>1. c.operator = "weekdays"
    BY DEF DayConditions
  <2> QED
    BY <2>1 DEF DateHolds
<1> QED
  BY <1>1, <1>2 DEF InWeekdays

LEMMA MethodsExact ==
  ASSUME NEW er \in EditorRule, NEW q
  PROVE  MethodMatches(TranslatedRule(er), q) <=> EditorMethods(er, q)
<1>1. /\ TranslatedRule(er).methods = {ms \in er.methods : ms # {}}
      /\ TranslatedRule(er).exclude_methods
           = {x \in er.exclude_methods : x /\ TranslatedMethods(er) # {}}
  BY DEF TranslatedRule, TranslatedMethods, TranslatedExclude
<1>2. er.exclude_methods \subseteq BOOLEAN
  BY DEF EditorRule, Option
<1>3. ASSUME NEW ms \in er.methods, ms # {}
      PROVE  TranslatedRule(er).exclude_methods = {}
               <=> TRUE \notin er.exclude_methods
  <2>1. TranslatedMethods(er) # {}
    BY <1>3 DEF TranslatedMethods
  <2> QED
    BY <1>1, <1>2, <2>1, Zenon
<1> QED
  BY <1>1, <1>3 DEF MethodMatches, EditorMethods

LEMMA SamplingExact ==
  ASSUME NEW er \in EditorRule, NEW q \in Request
  PROVE  Sampled(TranslatedRule(er), q) <=>
           \A rate \in er.sampling : q.draw <= rate
<1>1. TranslatedRule(er).sampling = {rate \in er.sampling : rate # 100}
  BY DEF TranslatedRule, TranslatedSampling
<1>2. q.draw <= 100
  BY DEF Request
<1> QED
  BY <1>1, <1>2 DEF Sampled

LEMMA SourceExact ==
  ASSUME NEW er \in EditorRule, NEW q \in Request
  PROVE  LET r == TranslatedRule(er) IN
         /\ HostMatches(r, q) =>
              \A host \in er.source.host : Canon[q.host] = Canon[host]
         /\ PathMatches(r, q) => Canon[q.path] = Canon[er.source.path]
         /\ Canonical(er) =>
              /\ (\A host \in er.source.host : Canon[q.host] = Canon[host])
                   => HostMatches(r, q)
              /\ Canon[q.path] = Canon[er.source.path] => PathMatches(r, q)
<1>1. q.host \in Name /\ q.path \in Name
  BY DEF Request
<1>2. /\ TranslatedRule(er).host = er.source.host
      /\ TranslatedRule(er).path = er.source.path
  BY DEF TranslatedRule
<1> QED
  BY <1>1, <1>2, EngineAssumption DEF HostMatches, PathMatches, Canonical

LEMMA RuleExact ==
  ASSUME NEW er \in EditorRule, Translatable(er), NEW q \in Request
  PROVE  /\ RuleApplies(TranslatedRule(er), q) => EditorAboutApplies(er, q)
         /\ Canonical(er) /\ EditorSurelyApplies(er, q)
              => RuleApplies(TranslatedRule(er), q)
<1>1. er.enabled /\ er.features = {}
  BY DEF Translatable, Redirects, Supported
<1>2. (\A c \in er.date : \E t \in q.time : DateHolds(c, t)) <=>
        /\ \A c \in DayConditions(er) : \E t \in q.time : DateHolds(c, t)
        /\ \A c \in er.date \ DayConditions(er) :
             \E t \in q.time : DateHolds(c, t)
  BY DEF DayConditions
<1> QED
  BY <1>1, <1>2, DatetimeTold, WeekdaysExact, MethodsExact, SamplingExact,
     SourceExact, Zenon
     DEF RuleApplies, EditorAsks, EditorAboutApplies, EditorSurelyApplies

----------------------------------------------------------------------------
(* Types.                                                                  *)

LEMMA RangesType ==
  ASSUME NEW c \in Condition
  PROVE  /\ ReadableDate(c) /\ c.operator # "weekdays"
              => DateRanges(c) \subseteq Range
         /\ ReadableDatetime(c) => DatetimeRanges(c) \subseteq Range
         /\ c.operator = "weekdays" /\ ReadableDate(c)
              => Weekdays(c) \subseteq 0..6
<1>1. /\ {} \in Option(Instant)
      /\ \A i \in Int : {i} \in Option(Instant)
  BY DEF Option
<1>2. \A a, b \in Option(Instant) : <<a, b>> \in Range
  BY DEF Range
<1>3. ASSUME ReadableDate(c), c.operator # "weekdays"
      PROVE  DateRanges(c) \subseteq Range
  <2>1. /\ c.values[1] \in Int /\ LastOperand(c) \in Int
        /\ c.operator \in DateOperator
    BY <1>3, DateOperands, EngineAssumption
  <2>2. /\ Start(c.values[1]) \in Option(Instant)
        /\ End(c.values[1]) \in Option(Instant)
        /\ End(LastOperand(c)) \in Option(Instant)
    BY <1>1, <2>1, MidnightIsInt DEF Start, End
  <2>3. DateRanges(c) \subseteq
          {<<Start(c.values[1]), End(c.values[1])>>,
           <<{}, Start(c.values[1])>>, <<End(c.values[1]), {}>>,
           <<Start(c.values[1]), End(LastOperand(c))>>,
           <<End(LastOperand(c)), {}>>}
    BY <2>1, Zenon DEF DateRanges, DateOperator
  <2> QED
    BY <1>1, <1>2, <2>2, <2>3
<1>4. ASSUME ReadableDatetime(c)
      PROVE  DatetimeRanges(c) \subseteq Range
  <2>1. /\ c.values[1] \in Int /\ LastOperand(c) \in Int
        /\ c.operator \in DatetimeOperator
    BY <1>4, DatetimeOperands
  <2>2. DatetimeRanges(c) \subseteq
          {<<{}, {c.values[1]}>>, <<{c.values[1]}, {}>>,
           <<{c.values[1]}, {LastOperand(c)}>>, <<{LastOperand(c)}, {}>>}
    BY <2>1, Zenon DEF DatetimeRanges, DatetimeOperator
  <2>3. {c.values[1]} \in Option(Instant) /\ {LastOperand(c)} \in Option(Instant)
    BY <1>1, <2>1
  <2> QED
    BY <1>1, <1>2, <2>2, <2>3
<1>5. ASSUME c.operator = "weekdays", ReadableDate(c)
      PROVE  Weekdays(c) \subseteq 0..6
  BY <1>5 DEF Weekdays, ReadableDate, ReadableWeekdays
<1> QED
  BY <1>3, <1>4, <1>5

LEMMA WrittenType ==
  ASSUME NEW ranges, ranges \subseteq Range
  PROVE  Written(ranges) \subseteq Range
<1>1. ASSUME NEW o \in Option(Instant) PROVE Rfc3339(o) \in Option(Instant)
  <2>1. \A t \in o : WholeSecond(t) \in Int
    BY SecondOfTick DEF Option
  <2> QED
    BY <2>1 DEF Rfc3339, Option
<1>2. \A g \in ranges : g[1] \in Option(Instant) /\ g[2] \in Option(Instant)
  BY DEF Range
<1> QED
  BY <1>1, <1>2 DEF Written, Range

LEMMA RedirectType ==
  ASSUME NEW er \in EditorRule, Translatable(er)
  PROVE  Redirect(er) \in Action /\ \E l \in Location : l \in Redirect(er).location
<1>1. er.actions \in Seq(Action) /\ Redirections(er) = DOMAIN er.actions
      /\ Redirections(er) # {}
  BY DEF EditorRule, Translatable, Redirects, Supported
<1>2. DOMAIN er.actions = 1..Len(er.actions) /\ Len(er.actions) \in Nat
  BY <1>1
<1>3. 1 \in Redirections(er) /\ \A j \in Redirections(er) : 1 <= j
  BY <1>1, <1>2
<1> DEFINE first == CHOOSE k \in Redirections(er) :
                      \A j \in Redirections(er) : k <= j
<1>4. Redirect(er) = er.actions[first]
  BY DEF Redirect
<1>5. first \in 1..Len(er.actions)
  BY <1>1, <1>2, <1>3
<1> HIDE DEF first
<1>6. Redirect(er) \in Action
  BY <1>1, <1>4, <1>5
<1>7. /\ Redirect(er).location \in Option(Location \cup {NoLocation})
      /\ Redirect(er).location \notin {{}, {NoLocation}}
  BY <1>6 DEF Action, Translatable, Redirects
<1>8. PICK l \in Redirect(er).location : TRUE
  BY <1>7
<1>9. Redirect(er).location = {l} /\ l \in Location \cup {NoLocation}
  BY <1>7, <1>8, OptionIsOne
<1> QED
  BY <1>6, <1>7, <1>9

LEMMA TranslatedRuleType ==
  ASSUME NEW er \in EditorRule, Translatable(er)
  PROVE  TranslatedRule(er) \in Rule
<1>1. Redirect(er) \in Action /\ \E l \in Location : l \in Redirect(er).location
  BY RedirectType
<1>2. (CHOOSE l \in Location : l \in Redirect(er).location) \in Location
  BY <1>1
<1>3. (IF Redirect(er).status = {} THEN 301
       ELSE CHOOSE s \in Redirect(er).status : TRUE) \in Nat
  <2>1. Redirect(er).status \in SUBSET Nat
    BY <1>1 DEF Action, Option
  <2> QED
    BY <2>1
<1>4. TranslatedMethods(er) \in Option(SUBSET Method)
  BY DEF TranslatedMethods, EditorRule, Option
<1>5. TranslatedExclude(er) \in Option(BOOLEAN)
  <2>1. TranslatedExclude(er) \subseteq er.exclude_methods
    BY DEF TranslatedExclude
  <2>2. er.exclude_methods \in Option(BOOLEAN)
    BY DEF EditorRule
  <2> QED
    BY <2>1, <2>2, Zenon DEF Option
<1>6. TranslatedSampling(er) \in Option(0..99)
  <2>1. er.sampling \in Option(Nat) /\ \A rate \in er.sampling : rate <= 100
    BY DEF EditorRule, Translatable, Redirects
  <2> QED
    BY <2>1 DEF TranslatedSampling, Option
<1>7. er.date \in Option(Condition) /\ er.datetime \in Option(Condition)
  BY DEF EditorRule
<1>8. TranslatedDatetime(er) \in Option(SUBSET Range)
  <2>1. \A c \in DayConditions(er) : Written(DateRanges(c)) \in SUBSET Range
    <3>1. \A c \in DayConditions(er) : DateRanges(c) \subseteq Range
      BY <1>7, RangesType DEF DayConditions, Translatable, DatesAccepted, Option
    <3> QED
      BY <3>1, WrittenType
  <2>2. \A c \in er.datetime : Written(DatetimeRanges(c)) \in SUBSET Range
    <3>1. \A c \in er.datetime : DatetimeRanges(c) \subseteq Range
      BY <1>7, RangesType DEF Translatable, DatesAccepted, Option
    <3> QED
      BY <3>1, WrittenType
  <2>3. DayConditions(er) = {} \/ er.datetime = {}
    BY DEF Translatable, DatesAccepted
  <2>4. \A c, e \in DayConditions(er) : c = e
    BY <1>7 DEF DayConditions, Option
  <2>5. \A c, e \in er.datetime : c = e
    BY <1>7 DEF Option
  <2> QED
    BY <2>1, <2>2, <2>3, <2>4, <2>5 DEF TranslatedDatetime, Option
<1>9. {Weekdays(c) : c \in er.date \ DayConditions(er)} \in Option(SUBSET (0..6))
  <2>1. \A c \in er.date \ DayConditions(er) : Weekdays(c) \in SUBSET (0..6)
    BY <1>7, RangesType DEF DayConditions, Translatable, DatesAccepted, Option
  <2> QED
    BY <1>7, <2>1 DEF Option
<1>10. er.id \in Id /\ er.source.host \in Option(Name) /\ er.source.path \in Name
  BY DEF EditorRule, Source
<1> QED
  BY <1>2, <1>3, <1>4, <1>5, <1>6, <1>8, <1>9, <1>10 DEF TranslatedRule, Rule

----------------------------------------------------------------------------
(* The specification.                                                      *)

(* Every translated rule is the translation of a rule of the input that    *)
(* was passed and could be translated.                                     *)
Translations ==
  \A k \in DOMAIN engine : \E j \in 1..(next - 1) :
    /\ Translatable(input[j])
    /\ engine[k] = TranslatedRule(input[j])

TranslateInv == TranslateTypeOK /\ Translations

LEMMA InputRule ==
  ASSUME TranslateTypeOK
  PROVE  /\ input \in Seq(EditorRule)
         /\ \A j \in 1..Len(input) : input[j] \in EditorRule
BY TranslateAssumption DEF TranslateTypeOK

LEMMA TranslateInvInit == Init => TranslateInv
<1> SUFFICES ASSUME Init PROVE TranslateInv
  OBVIOUS
<1>1. input \in Seq(EditorRule)
  BY TranslateAssumption DEF Init
<1>2. Len(input) \in Nat
  BY <1>1
<1>3. TranslateTypeOK
  <2>1. next \in 1..Len(input) + 1
    BY <1>2 DEF Init
  <2>2. engine \in Seq(Rule) /\ skipped \in Seq(Id)
    BY DEF Init
  <2>3. input \in Inputs /\ panicked \in BOOLEAN
    BY DEF Init
  <2> QED
    BY <2>1, <2>2, <2>3 DEF TranslateTypeOK
<1>4. Translations
  BY DEF Init, Translations
<1> QED
  BY <1>3, <1>4 DEF TranslateInv

LEMMA TranslateInvNext == TranslateInv /\ [Next]_vars => TranslateInv'
<1> SUFFICES ASSUME TranslateInv, [Next]_vars PROVE TranslateInv'
  OBVIOUS
<1>1. TranslateTypeOK /\ Translations
  BY DEF TranslateInv
<1>2. input \in Seq(EditorRule) /\ \A j \in 1..Len(input) : input[j] \in EditorRule
  BY <1>1, InputRule
<1>3. Len(input) \in Nat
  BY <1>2
<1>4. CASE Accept
  <2>1. next \in 1..Len(input) /\ Translatable(input[next])
        /\ engine' = Append(engine, TranslatedRule(input[next]))
        /\ next' = next + 1 /\ input' = input /\ skipped' = skipped
        /\ panicked' = panicked
    BY <1>1, <1>3, <1>4 DEF Accept, Running, Translatable, TranslateTypeOK
  <2>2. TranslatedRule(input[next]) \in Rule
    BY <1>2, <2>1, TranslatedRuleType
  <2>3. TranslateTypeOK'
    BY <1>1, <1>3, <2>1, <2>2 DEF TranslateTypeOK
  <2>4. Translations'
    <3> SUFFICES ASSUME NEW k \in DOMAIN engine'
                 PROVE  \E j \in 1..next :
                          /\ Translatable(input[j])
                          /\ engine'[k] = TranslatedRule(input[j])
      BY <1>3, <2>1 DEF Translations, Translatable
    <3>1. engine \in Seq(Rule)
      BY <1>1 DEF TranslateTypeOK
    <3>2. CASE k \in DOMAIN engine
      <4>1. PICK j \in 1..(next - 1) :
              Translatable(input[j]) /\ engine[k] = TranslatedRule(input[j])
        BY <1>1, <3>2 DEF Translations
      <4>2. engine'[k] = engine[k]
        BY <2>1, <2>2, <3>1, <3>2
      <4>3. j \in 1..next
        BY <2>1, <4>1
      <4> QED
        BY <4>1, <4>2, <4>3
    <3>3. CASE k \notin DOMAIN engine
      <4>1. engine'[k] = TranslatedRule(input[next])
        BY <2>1, <2>2, <3>1, <3>3
      <4>2. next \in 1..next
        BY <2>1
      <4> QED
        BY <2>1, <4>1, <4>2
    <3> QED
      BY <3>2, <3>3
  <2> QED
    BY <2>3, <2>4 DEF TranslateInv
<1>5. CASE Skip
  <2>1. next \in 1..Len(input) /\ engine' = engine
        /\ skipped' = Append(skipped, input[next].id)
        /\ next' = next + 1 /\ input' = input /\ panicked' = panicked
    BY <1>1, <1>3, <1>5 DEF Skip, Running, TranslateTypeOK
  <2>2. input[next].id \in Id
    BY <1>2, <2>1 DEF EditorRule
  <2>3. TranslateTypeOK'
    BY <1>1, <1>3, <2>1, <2>2 DEF TranslateTypeOK
  <2>4. 1..(next - 1) \subseteq 1..(next' - 1)
    BY <2>1
  <2>5. Translations'
    BY <1>1, <2>1, <2>4 DEF Translations, Translatable
  <2> QED
    BY <2>3, <2>5 DEF TranslateInv
<1>6. CASE Panic
  <2>1. TranslateTypeOK'
    BY <1>1, <1>6 DEF Panic, TranslateTypeOK
  <2>2. Translations'
    BY <1>1, <1>6 DEF Panic, Translations, Translatable
  <2> QED
    BY <2>1, <2>2 DEF TranslateInv
<1>7. CASE UNCHANGED vars
  BY <1>1, <1>7 DEF vars, TranslateInv, TranslateTypeOK, Translations, Translatable
<1> QED
  BY <1>4, <1>5, <1>6, <1>7 DEF Next

(* Every rule the translator emits is an engine rule: one list of ranges,  *)
(* a rate below 100, a target (translate_rule).                            *)
THEOREM TranslateTypeCorrect == Spec => []TranslateTypeOK
<1>1. TranslateInv => TranslateTypeOK
  BY DEF TranslateInv
<1> QED
  BY <1>1, TranslateInvInit, TranslateInvNext, PTL DEF Spec

LEMMA OriginIsExact ==
  ASSUME TranslateInv, NEW k \in DOMAIN engine
  PROVE  \E er \in Origins(engine[k]) : \A q \in Asked :
           /\ RuleApplies(engine[k], q) => EditorAboutApplies(er, q)
           /\ Canonical(er) /\ EditorSurelyApplies(er, q) => RuleApplies(engine[k], q)
<1>1. TranslateTypeOK /\ Translations
  BY DEF TranslateInv
<1>2. PICK j \in 1..(next - 1) :
        Translatable(input[j]) /\ engine[k] = TranslatedRule(input[j])
  BY <1>1 DEF Translations
<1>3. j \in 1..Len(input)
  <2>1. Len(input) \in Nat /\ next \in 1..Len(input) + 1
    BY <1>1, InputRule DEF TranslateTypeOK
  <2> QED
    BY <1>2, <2>1
<1>4. input[j] \in EditorRule
  BY <1>1, <1>3, InputRule
<1>5. input[j] \in Origins(engine[k])
  <2>1. engine[k].id = input[j].id
    BY <1>2 DEF TranslatedRule
  <2> QED
    BY <1>2, <2>1 DEF Origins
<1>6. \A q \in Asked : q \in Request
  BY EngineAssumption
<1> QED
  BY <1>2, <1>4, <1>5, <1>6, RuleExact

(* No translated rule is wider than its editor rule, but by the fraction   *)
(* of a second in which a datetime was given: whatever the dates, the      *)
(* length of a day, the methods, the rates and the requests.               *)
THEOREM TranslationIsNeverWider == Spec => []NeverWider
<1>1. TranslateInv => NeverWider
  BY OriginIsExact DEF NeverWider
<1> QED
  BY <1>1, TranslateInvInit, TranslateInvNext, PTL DEF Spec

(* And none is narrower, if its source is written the way the engine       *)
(* compares it, but again by the fraction of a second.                     *)
THEOREM TranslationIsFull == Spec => []HonouredInFull
<1>1. TranslateInv => HonouredInFull
  BY OriginIsExact DEF HonouredInFull
<1> QED
  BY <1>1, TranslateInvInit, TranslateInvNext, PTL DEF Spec

============================================================================
