----------------------------- MODULE Translate ------------------------------
(***************************************************************************)
(* translate_ruleset of src/src/translate.rs: it turns the editor rules of *)
(* the project, one by one, into engine rules, and skips a rule that the   *)
(* plugin could not honour rather than translating it into a wider one.    *)
(*                                                                         *)
(* A rule is what its conditions tell: which requests it applies to.  The  *)
(* reason of a skip is only logged, so a skip is one action; what happens  *)
(* before the dates are read matters only to a panic.                      *)
(***************************************************************************)
EXTENDS EngineRule, Sequences

CONSTANTS
  Id,          \* ids of rules
  Location,    \* targets of redirections
  NoLocation,  \* the empty target
  TicksPerSecond, \* length of a second, the unit in which instants are written
  Feature,     \* the triggers, markers and variables check_supported refuses
  Unreadable,  \* an operand that does not parse
  Inputs       \* the bodies of GET /rules that are looked at

(* The dates of an editor rule (EditorCondition): one value, or a list.    *)
Operator == {"equals", "notEquals", "before", "after", "between",
             "notBetween", "weekdays", "other"}
Condition == [operator : Operator, list : BOOLEAN,
              values : Seq(Nat \cup {Unreadable})]

Action == [type : {"redirection", "other"},
           location : Option(Location \cup {NoLocation}),
           status : Option(Nat)]

(* An absolute source has a scheme and a host.                             *)
Source == [scheme : Option({"http", "https"}), host : Option(Name), path : Name]

EditorRule ==
  [id : Id, enabled : BOOLEAN, source : Source, actions : Seq(Action),
   methods : Option(SUBSET Method), exclude_methods : Option(BOOLEAN),
   features : SUBSET Feature, sampling : Option(Nat),
   date : Option(Condition), datetime : Option(Condition)]

Rule ==
  [id : Id, host : Option(Name), path : Name,
   methods : Option(SUBSET Method), exclude_methods : Option(BOOLEAN),
   sampling : Option(0..99), datetime : Option(SUBSET Range),
   weekdays : Option(SUBSET (0..6)), target : Location, status : Nat]

ASSUME TranslateAssumption ==
  /\ TicksPerSecond \in Nat \ {0}
  /\ TicksPerDay % TicksPerSecond = 0
  /\ NoLocation \notin Location
  /\ Unreadable \notin Nat
  /\ Inputs \subseteq Seq(EditorRule)

VARIABLES
  input,    \* the editor rules
  next,     \* the one that is translated next
  engine,   \* the translated rules
  skipped,  \* the ids of the rules that were skipped
  panicked  \* the process has ended in a panic

vars == <<input, next, engine, skipped, panicked>>

TranslateTypeOK ==
  /\ input \in Inputs
  /\ next \in 1..Len(input) + 1
  /\ engine \in Seq(Rule)
  /\ skipped \in Seq(Id)
  /\ panicked \in BOOLEAN

Init ==
  /\ input \in Inputs
  /\ next = 1
  /\ engine = <<>> /\ skipped = <<>>
  /\ panicked = FALSE

----------------------------------------------------------------------------
(* check_supported, and what translate_rule refuses besides the dates.     *)

Redirections(er) ==
  {k \in DOMAIN er.actions : er.actions[k].type = "redirection"}

(* The first redirection of a rule that has one.                           *)
Redirect(er) ==
  er.actions[CHOOSE k \in Redirections(er) : \A j \in Redirections(er) : k <= j]

Supported(er) == er.features = {} /\ Redirections(er) = DOMAIN er.actions

Redirects(er) ==
  /\ er.enabled
  /\ Redirections(er) # {}
  /\ Supported(er)
  /\ Redirect(er).location \notin {{}, {NoLocation}}
  /\ \A rate \in er.sampling : rate <= 100

----------------------------------------------------------------------------
(* translate_dates                                                         *)

TwoOperands(c) == c.operator \in {"between", "notBetween"}

(* operands() and the parsing of each of them.                             *)
Readable(c) ==
  /\ c.list = TwoOperands(c)
  /\ Len(c.values) = IF TwoOperands(c) THEN 2 ELSE 1
  /\ \A k \in DOMAIN c.values : c.values[k] # Unreadable

DateOperator == {"equals", "notEquals", "before", "after", "between",
                 "notBetween"}
DatetimeOperator == {"before", "after", "between", "notBetween"}

(* translate_weekdays                                                      *)
ReadableWeekdays(c) ==
  /\ c.list /\ c.values # <<>>
  /\ \A k \in DOMAIN c.values : c.values[k] \in 0..6

Weekdays(c) == {c.values[k] : k \in DOMAIN c.values}

ReadableDate(c) ==
  IF c.operator = "weekdays"
  THEN ReadableWeekdays(c)
  ELSE /\ Readable(c) /\ c.operator \in DateOperator
       /\ \A k \in DOMAIN c.values : c.values[k] \in Day

ReadableDatetime(c) == Readable(c) /\ c.operator \in DatetimeOperator

(* The day whose end date_ranges computes, by adding a day to it.          *)
LastOperand(c) == c.values[Len(c.values)]

(* "`NaiveDate + TimeDelta` overflowed"                                    *)
DatePanics(c) ==
  /\ c.operator \notin {"weekdays", "before"}
  /\ ReadableDate(c)
  /\ LastOperand(c) = LastDay

Start(d) == {Midnight(d)}

(* A mutant: the end of a range of days is the start of its last one.      *)
EndAtStart(d) == {Midnight(d)}

End(d) == {Midnight(d + 1)}

(* date_ranges: a day covers [d 00:00, d+1 00:00).                         *)
DateRanges(c) ==
  LET first == c.values[1]
      last  == LastOperand(c)
  IN CASE c.operator = "equals"     -> {<<Start(first), End(first)>>}
       [] c.operator = "notEquals"  -> {<<{}, Start(first)>>, <<End(first), {}>>}
       [] c.operator = "before"     -> {<<{}, Start(first)>>}
       [] c.operator = "after"      -> {<<End(first), {}>>}
       [] c.operator = "between"    -> {<<Start(first), End(last)>>}
       [] c.operator = "notBetween" -> {<<{}, Start(first)>>, <<End(last), {}>>}

(* datetime_ranges                                                         *)
DatetimeRanges(c) ==
  LET first == c.values[1]
      last  == LastOperand(c)
  IN CASE c.operator = "before"     -> {<<{}, {first}>>}
       [] c.operator = "after"      -> {<<{first}, {}>>}
       [] c.operator = "between"    -> {<<{first}, {last}>>}
       [] c.operator = "notBetween" -> {<<{}, {first}>>, <<{last}, {}>>}

(* rfc3339: an instant is written, and read by the engine, in whole        *)
(* seconds, although parse_datetime takes one with a fraction.             *)
WholeSecond(t) == TicksPerSecond * (t \div TicksPerSecond)

Rfc3339(bound) == {WholeSecond(t) : t \in bound}

Written(ranges) == {<<Rfc3339(g[1]), Rfc3339(g[2])>> : g \in ranges}

(* The date conditions that become ranges; the others become weekdays.     *)
DayConditions(er) == {c \in er.date : c.operator # "weekdays"}

(* The engine takes any range of the one list it has: a date and a         *)
(* datetime, both required, cannot be told there.                          *)
DatesAccepted(er) ==
  /\ \A c \in er.date : ReadableDate(c)
  /\ \A c \in er.datetime : ReadableDatetime(c)
  /\ DayConditions(er) = {} \/ er.datetime = {}

DatesPanic(er) == \E c \in er.date : DatePanics(c)

----------------------------------------------------------------------------

(* Absent or empty methods are no condition, exclude_methods none unless   *)
(* it is true, and neither is a sampling of 100%.                          *)
TranslatedMethods(er) == {methods \in er.methods : methods # {}}

(* A mutant: a false exclude_methods is kept, and excludes the methods.    *)
TranslatedExcludeKept(er) ==
  {x \in er.exclude_methods : TranslatedMethods(er) # {}}

TranslatedExclude(er) ==
  {x \in er.exclude_methods : x /\ TranslatedMethods(er) # {}}

TranslatedSampling(er) == {rate \in er.sampling : rate # 100}

TranslatedDatetime(er) ==
  {Written(DateRanges(c)) : c \in DayConditions(er)}
    \cup {Written(DatetimeRanges(c)) : c \in er.datetime}

(* translate_rule of a rule that is not refused; split_source drops the    *)
(* scheme.                                                                 *)
TranslatedRule(er) ==
  [id       |-> er.id,
   host     |-> er.source.host,
   path     |-> er.source.path,
   methods  |-> TranslatedMethods(er),
   exclude_methods |-> TranslatedExclude(er),
   sampling |-> TranslatedSampling(er),
   datetime |-> TranslatedDatetime(er),
   weekdays |-> {Weekdays(c) : c \in er.date \ DayConditions(er)},
   target   |-> CHOOSE l \in Location : l \in Redirect(er).location,
   status   |-> IF Redirect(er).status = {} THEN 301
                ELSE CHOOSE s \in Redirect(er).status : TRUE]

Running == ~ panicked /\ next <= Len(input)

Accept ==
  /\ Running
  /\ Redirects(input[next]) /\ DatesAccepted(input[next])
  /\ ~ DatesPanic(input[next])
  /\ engine' = Append(engine, TranslatedRule(input[next]))
  /\ next' = next + 1
  /\ UNCHANGED <<input, skipped, panicked>>

Skip ==
  /\ Running
  /\ ~ (Redirects(input[next]) /\ (DatesAccepted(input[next])
                                     \/ DatesPanic(input[next])))
  /\ skipped' = Append(skipped, input[next].id)
  /\ next' = next + 1
  /\ UNCHANGED <<input, engine, panicked>>

(* A date is translated before the datetime is looked at.                  *)
Panic ==
  /\ Running
  /\ Redirects(input[next]) /\ DatesPanic(input[next])
  /\ panicked' = TRUE
  /\ UNCHANGED <<input, next, engine, skipped>>

Next == Accept \/ Skip \/ Panic

Spec == Init /\ [][Next]_vars

----------------------------------------------------------------------------
(* What an editor rule means.                                              *)

(* A date is about whole days, in UTC.                                     *)
DateHolds(c, t) ==
  LET day   == DayOf(t)
      first == c.values[1]
      last  == LastOperand(c)
  IN CASE c.operator = "weekdays"   -> WeekdayOf(t) \in Weekdays(c)
       [] c.operator = "equals"     -> day = first
       [] c.operator = "notEquals"  -> day # first
       [] c.operator = "before"     -> day < first
       [] c.operator = "after"      -> day > first
       [] c.operator = "between"    -> first <= day /\ day <= last
       [] c.operator = "notBetween" -> ~ (first <= day /\ day <= last)

(* A datetime is about instants: the first is inside, the last outside.    *)
DatetimeHolds(c, t) ==
  LET first == c.values[1]
      last  == LastOperand(c)
  IN CASE c.operator = "before"     -> t < first
       [] c.operator = "after"      -> t >= first
       [] c.operator = "between"    -> first <= t /\ t < last
       [] c.operator = "notBetween" -> ~ (first <= t /\ t < last)

EditorMethods(er, q) ==
  \A methods \in er.methods :
    methods # {} => (q.method \in methods <=> TRUE \notin er.exclude_methods)

(* How long after an instant its condition is not sure to be told: for the *)
(* rest of a second, if it was not given in whole ones.                    *)
Unsure(c, t) ==
  IF \A k \in DOMAIN c.values : c.values[k] = WholeSecond(c.values[k])
  THEN {t} ELSE t .. (t + TicksPerSecond - 1)

(* What an editor rule asks besides a datetime.  A feature the plugin does *)
(* not know is a condition that the requests of the model do not meet; the *)
(* scheme is the business of SchemeHonoured.                               *)
EditorAsks(er, q) ==
  /\ er.enabled
  /\ er.features = {}
  /\ \A host \in er.source.host : Canon[q.host] = Canon[host]
  /\ Canon[q.path] = Canon[er.source.path]
  /\ EditorMethods(er, q)
  /\ \A rate \in er.sampling : q.draw <= rate
  /\ \A c \in er.date : \E t \in q.time : DateHolds(c, t)

(* The requests an editor rule is for, but for less than a second: those   *)
(* it may be for, and those it is for without a doubt.                     *)
EditorAboutApplies(er, q) ==
  /\ EditorAsks(er, q)
  /\ \A c \in er.datetime : \E t \in q.time : \E u \in Unsure(c, t) : DatetimeHolds(c, u)

EditorSurelyApplies(er, q) ==
  /\ EditorAsks(er, q)
  /\ \A c \in er.datetime : \E t \in q.time : \A u \in Unsure(c, t) : DatetimeHolds(c, u)

(* The source is written the way the engine writes a request: no default   *)
(* port, the query sorted and without marketing parameters.                *)
Canonical(er) ==
  /\ \A host \in er.source.host : Canon[host] = host
  /\ Canon[er.source.path] = er.source.path

(* The editor rules a translated rule can come from.                       *)
Origins(r) == {input[k] : k \in {j \in 1..(next - 1) : input[j].id = r.id}}

----------------------------------------------------------------------------
(* Properties.                                                             *)

(* A translated rule applies to no request that its editor rule is not     *)
(* for: "never translated without it: dropping a condition would widen     *)
(* the rule" (src/src/translate.rs).  The fraction of a second in which a  *)
(* datetime was given is dropped, so it may apply less than a second too   *)
(* early or too late; where there is none, it is exact.                    *)
NeverWider ==
  \A k \in DOMAIN engine : \E er \in Origins(engine[k]) : \A q \in Asked :
    RuleApplies(engine[k], q) => EditorAboutApplies(er, q)

(* A translated rule applies to every request its editor rule is for, if   *)
(* the source is written the way the engine compares it; again, but for    *)
(* less than a second around a datetime that is not a whole one.           *)
HonouredInFull ==
  \A k \in DOMAIN engine : \E er \in Origins(engine[k]) :
    Canonical(er) => \A q \in Asked :
                       EditorSurelyApplies(er, q) => RuleApplies(engine[k], q)

(* Whatever the plugin cannot honour is skipped, and a rule that is not    *)
(* skipped applies to the requests its editor rule is for.                 *)
HonouredOrSkipped ==
  \A k \in DOMAIN engine : \E er \in Origins(engine[k]) : \A q \in Asked :
    EditorSurelyApplies(er, q) => RuleApplies(engine[k], q)

(* The plugin's requests are https (scheme() of lib.rs), so a rule for     *)
(* http only applies to none of them.                                      *)
SchemeHonoured ==
  \A k \in DOMAIN engine : \E er \in Origins(engine[k]) :
    (\E q \in Asked : RuleApplies(engine[k], q)) => "http" \notin er.source.scheme

============================================================================
