----------------------------- MODULE EngineRule -----------------------------
(***************************************************************************)
(* What one engine rule asks of a request: the conditions the plugin's     *)
(* engine evaluates for the rules that the translator produces             *)
(* (patches/redirectionio/src/router: route_datetime.rs, route_weekday.rs, *)
(* request_matcher/*.rs; action/mod.rs for the sampling).                  *)
(*                                                                         *)
(* An Option is a set: {} for None, {x} for Some(x).  Time is counted in   *)
(* ticks, the nanoseconds of the clocks, TicksPerDay of them in each of    *)
(* the days 0..LastDay of chrono's calendar.                               *)
(***************************************************************************)
EXTENDS Integers

CONSTANTS
  Name,        \* hosts, and paths with their query string
  Canon,       \* the form the engine brings the name in a request to
  Method,      \* the methods of requests and rules
  Asked,       \* the requests a property looks at
  TicksPerDay, \* length of a day
  LastDay      \* NaiveDate::MAX

Option(S) == {o \in SUBSET S : \A x, y \in o : x = y}

Instant == Int

(* What the plugin can be asked: the scheme is not part of it, for         *)
(* scheme() of lib.rs always says https.                                   *)
Request ==
  [time : Option(Instant), method : Method, host : Name, path : Name,
   draw : 1..100]

ASSUME EngineAssumption ==
  /\ Canon \in [Name -> Name]
  /\ \A n \in Name : Canon[Canon[n]] = Canon[n]
  /\ TicksPerDay \in Nat \ {0}
  /\ LastDay \in Nat
  /\ Asked \subseteq Request

Day == 0..LastDay

(* The first tick of a day, and the day of a tick.                         *)
Midnight(d) == d * TicksPerDay
DayOf(t) == t \div TicksPerDay

(* 0 = Sunday, as in NAMES of translate_weekdays: day 0 is a Sunday.       *)
WeekdayOf(t) == DayOf(t) % 7

(* RouteDateTime: a half-open range, an absent bound being no bound.       *)
Range == Option(Instant) \X Option(Instant)

----------------------------------------------------------------------------

(* RouteDateTime::match_datetime                                           *)
InRange(g, t) ==
  /\ \A start \in g[1] : t >= start
  /\ \A end \in g[2] : t < end

(* DateTimeCondition::match_value for the ranges of the rule: any of them  *)
(* will do; a request without a time matches none.                         *)
InDatetime(r, q) ==
  \A ranges \in r.datetime : \E t \in q.time : \E g \in ranges : InRange(g, t)

(* The same for its weekdays.                                              *)
InWeekdays(r, q) ==
  \A days \in r.weekdays : \E t \in q.time : WeekdayOf(t) \in days

(* MethodMatcher: exclude_methods counts by its presence, not its value.   *)
MethodMatches(r, q) ==
  \A methods \in r.methods :
    \/ methods = {}
    \/ IF r.exclude_methods = {} THEN q.method \in methods
                                 ELSE q.method \notin methods

(* HostMatcher: rules without a host match any.  The letter case, which    *)
(* both sides lose, is left out.                                           *)
HostMatches(r, q) == \A host \in r.host : Canon[q.host] = host

(* PathAndQueryMatcher                                                     *)
PathMatches(r, q) == Canon[q.path] = r.path

(* Action::from_route_rule: a draw between 1 and 100.                      *)
Sampled(r, q) == \A rate \in r.sampling : q.draw <= rate

(* The rule takes part in the answer to the request.                       *)
RuleApplies(r, q) ==
  /\ InDatetime(r, q) /\ InWeekdays(r, q)
  /\ MethodMatches(r, q)
  /\ HostMatches(r, q) /\ PathMatches(r, q)
  /\ Sampled(r, q)

============================================================================
