----------------------------- MODULE Conditions -----------------------------
(***************************************************************************)
(* The conditions of a rule on the headers of a request and on its time:   *)
(* what a rule becomes as a route (api/rule.rs), the groups that           *)
(* HeaderMatcher and DateTimeMatcher make of the routes, and the two loops *)
(* over the groups, match_request and trace, that evaluate a condition     *)
(* once for all groups it is in (request_matcher/header.rs, datetime.rs).  *)
(*                                                                         *)
(* An Option is a set: {} for None, {x} for Some(x).  Names of headers are *)
(* texts too.  The regex of a condition is the set of texts it is found in.*)
(* A BTreeSet is visited in some order of its elements: the loops do not   *)
(* rely on which.                                                          *)
(***************************************************************************)
EXTENDS Texts, Integers, FiniteSets, SequencesExt

CONSTANTS
  Constrained,  \* the rules: their constraints on headers, times, weekdays
  Watched,      \* the requests: their headers and their time
  DayLength,    \* ticks of a day
  Unreadable,   \* a bound that is no time
  Language      \* the texts in which the regex of a marked value is found

ASSUME ConditionsAssumption ==
  /\ DayLength \in Nat \ {0}
  /\ IsFiniteSet(Constrained)
  /\ \A r \in Constrained :
       IsFiniteSet(r.headers) /\ \A c \in r.headers : c.value \subseteq Seq(Char)
  /\ Watched \subseteq [headers : SUBSET [name : Seq(Char), value : Seq(Char)],
                        created : SUBSET Nat]

----------------------------------------------------------------------------
(* From a rule to its route.                                               *)

Positive == {"is_equals", "contains", "starts_with", "ends_with", "match_regex"}
Negative == {"is_not_equal_to", "does_not_contain"}

(* A constraint of an unknown kind, one that lacks its value and a regex   *)
(* without a marker are left out.                                          *)
IsKept(c) ==
  \/ c.kind \in {"is_defined", "is_not_defined"}
  \/ /\ c.kind \in Positive \cup Negative
     /\ c.value # {}
     /\ c.kind = "match_regex" => c.value \subseteq DOMAIN Language

Headers(r, ignoreCase) ==
  {[kind |-> c.kind, name |-> Lower(c.name), ignoreCase |-> ignoreCase,
    value |-> IF c.kind = "match_regex" THEN c.value
              ELSE {Folded(v, ignoreCase) : v \in c.value}] :
     c \in {d \in r.headers : IsKept(d)}}

(* A bound that cannot be read is none.                                    *)
FromRange(w) == [start |-> w.start \ {Unreadable}, end |-> w.end \ {Unreadable}]

RouteTimes(r) == {FromRange(w) : w \in r.times}

(* The groups of DateTimeMatcher; a list without an element is no          *)
(* condition.  The datetimes of EngineRule are one more, of the same kind. *)
Dates(r) ==
  (IF r.times = {} THEN {} ELSE {[kind |-> "time", ranges |-> RouteTimes(r)]})
    \cup (IF r.weekdays = {} THEN {}
          ELSE {[kind |-> "weekdays", days |-> r.weekdays]})

----------------------------------------------------------------------------
(* One condition and one request.                                          *)

HeaderValues(q, name) == {h.value : h \in {g \in q.headers : Lower(g.name) = name}}

Says(c, v) ==
  CASE c.kind \in {"is_equals", "is_not_equal_to"}  -> v \in c.value
    [] c.kind \in {"contains", "does_not_contain"}  -> \E s \in c.value : s \in SubSeqs(v)
    [] c.kind = "starts_with"                       -> \E s \in c.value : IsPrefix(s, v)
    [] c.kind = "ends_with"                         -> \E s \in c.value : IsSuffix(s, v)
    [] c.kind = "match_regex" ->
         \E w \in UNION {Language[s] : s \in c.value} :
            Folded(w, c.ignoreCase) = Folded(v, c.ignoreCase)

(* ValueCondition::match_value: a header may come more than once.          *)
MatchHeader(c, q) ==
  LET values == HeaderValues(q, c.name)
  IN \/ c.kind = "is_defined" /\ values # {}
     \/ c.kind = "is_not_defined" /\ values = {}
     \/ c.kind \in Positive /\ \E v \in values : Says(c, v)
     \/ c.kind \in Negative /\ \A v \in values : ~ Says(c, v)

(* RouteTime::match_datetime                                               *)
InTime(w, t) ==
  /\ \A s \in w.start : t % DayLength >= s
  /\ \A e \in w.end : t % DayLength < e

OnWeekday(days, t) == (t \div DayLength) % 7 \in days

(* DateTimeCondition::match_value                                          *)
MatchDate(c, q) ==
  \E t \in q.created :
    \/ c.kind = "time" /\ \E w \in c.ranges : InTime(w, t)
    \/ c.kind = "weekdays" /\ OnWeekday(c.days, t)

Holds(c, q) ==
  IF c.kind \in {"time", "weekdays"} THEN MatchDate(c, q) ELSE MatchHeader(c, q)

----------------------------------------------------------------------------
(* match_request.  The memo holds the conditions that were evaluated.        *)

(* A mutant: the result of the group is kept for all of its conditions.    *)
AskGroupAtOnce(group, memo, q) ==
  LET met == \A c \in group : IF c \in DOMAIN memo THEN memo[c] ELSE Holds(c, q)
  IN [met |-> met, memo |-> [c \in DOMAIN memo \cup group |->
                               IF c \in DOMAIN memo THEN memo[c] ELSE met]]

Result(c, memo, q) == IF c \in DOMAIN memo THEN memo[c] ELSE Holds(c, q)

Keep(memo, c, result) ==
  [d \in DOMAIN memo \cup {c} |-> IF d \in DOMAIN memo THEN memo[d] ELSE result]

(* The first condition that is not met ends the group.                     *)
Ask(s, c, q) ==
  LET result == Result(c, s.memo, q)
  IN IF s.met THEN [met |-> result, memo |-> Keep(s.memo, c, result)] ELSE s

AskGroup(group, memo, q) ==
  LET conditions == SetToSeq(group)
      after[n \in 0..Len(conditions)] ==
        IF n = 0 THEN [met |-> TRUE, memo |-> memo] ELSE Ask(after[n - 1], conditions[n], q)
  IN after[Len(conditions)]

AskNext(s, group, q) ==
  LET asked == AskGroup(group, s.memo, q)
  IN [memo |-> asked.memo, met |-> s.met \cup (IF asked.met THEN {group} ELSE {})]

MetGroups(groups, q) ==
  LET given == SetToSeq(groups \ {{}})
      after[n \in 0..Len(given)] ==
        IF n = 0 THEN [memo |-> <<>>, met |-> {}] ELSE AskNext(after[n - 1], given[n], q)
  IN after[Len(given)].met

(* Of the rules rs, whose header conditions are met, those whose dates are.*)
MatchDates(rs, q) ==
  {r \in rs : Dates(r) = {} \/ Dates(r) \in MetGroups({Dates(s) : s \in rs}, q)}

MatchRequest(rs, q, ignoreCase) ==
  LET met == MetGroups({Headers(r, ignoreCase) : r \in rs}, q)
  IN UNION {MatchDates({r \in rs : Headers(r, ignoreCase) = g}, q) : g \in met \cup {{}}}

----------------------------------------------------------------------------
(* trace.  All conditions of a group are looked at, those after the first  *)
(* that is not met are not "executed", and their result is neither told    *)
(* nor kept.                                                               *)

(* A condition is looked at: its result is told while the ones before it   *)
(* are met.                                                                *)
Told(s, c, q) ==
  [condition |-> c, cached |-> c \in DOMAIN s.memo,
   result |-> IF s.met THEN {Result(c, s.memo, q)} ELSE {}]

(* A mutant: what is kept does not depend on it.                           *)
LookKeepsAll(s, c, q) ==
  LET met == s.met /\ Result(c, s.memo, q)
  IN [met |-> met, told |-> s.told \cup {Told(s, c, q)}, memo |-> Keep(s.memo, c, met)]

Look(s, c, q) ==
  LET met == s.met /\ Result(c, s.memo, q)
  IN [met |-> met, told |-> s.told \cup {Told(s, c, q)},
      memo |-> IF s.met THEN Keep(s.memo, c, met) ELSE s.memo]

TraceGroup(group, memo, q) ==
  LET conditions == SetToSeq(group)
      after[n \in 0..Len(conditions)] ==
        IF n = 0 THEN [met |-> TRUE, told |-> {}, memo |-> memo]
        ELSE Look(after[n - 1], conditions[n], q)
  IN after[Len(conditions)]

LookNext(s, group, q) ==
  LET traced == TraceGroup(group, s.memo, q)
  IN [memo |-> traced.memo,
      nodes |-> s.nodes \cup {[group |-> group, met |-> traced.met, told |-> traced.told]}]

(* The nodes of the trace: each group, whether it is met, and its          *)
(* conditions.                                                             *)
TraceGroups(groups, q) ==
  LET given == SetToSeq(groups \ {{}})
      after[n \in 0..Len(given)] ==
        IF n = 0 THEN [memo |-> <<>>, nodes |-> {}] ELSE LookNext(after[n - 1], given[n], q)
  IN after[Len(given)].nodes

TraceDates(rs, q) ==
  LET nodes == TraceGroups({Dates(r) : r \in rs}, q)
  IN [nodes |-> nodes,
      found |-> {r \in rs : Dates(r) = {}
                            \/ \E n \in nodes : n.met /\ n.group = Dates(r)}]

TraceRequest(rs, q, ignoreCase) ==
  LET nodes == TraceGroups({Headers(r, ignoreCase) : r \in rs}, q)
      below(g) == TraceDates({r \in rs : Headers(r, ignoreCase) = g}, q)
      asked == {{}} \cup {n.group : n \in {m \in nodes : m.met}}
  IN [nodes |-> nodes \cup UNION {below(g).nodes : g \in asked},
      found |-> UNION {below(g).found : g \in asked}]

----------------------------------------------------------------------------
(* A Router with some rules is asked, and asked for its trace.             *)

VARIABLES
  listed,     \* the rules in the matcher
  foldCase,   \* ignore_header_case
  watched,    \* the request, as it was received
  matching,   \* what match_request found: none, or one set of rules
  explained   \* what trace told: none, or one trace

conditionsVars == <<listed, foldCase, watched, matching, explained>>

ConditionsInit ==
  /\ listed \in SUBSET Constrained
  /\ foldCase \in BOOLEAN
  /\ watched \in Watched
  /\ matching = {} /\ explained = {}

(* add_header brings the values, not the names, to lower case.             *)
AsAdded(q) ==
  [q EXCEPT !.headers = {[h EXCEPT !.value = Folded(h.value, foldCase)] : h \in q.headers}]

AskMatch ==
  /\ matching = {}
  /\ matching' = {MatchRequest(listed, AsAdded(watched), foldCase)}
  /\ UNCHANGED <<listed, foldCase, watched, explained>>

AskTrace ==
  /\ matching # {} /\ explained = {}
  /\ explained' = {TraceRequest(listed, AsAdded(watched), foldCase)}
  /\ UNCHANGED <<listed, foldCase, watched, matching>>

ConditionsNext == AskMatch \/ AskTrace

ConditionsSpec == ConditionsInit /\ [][ConditionsNext]_conditionsVars

----------------------------------------------------------------------------
(* Properties.                                                             *)

(* What a constraint with a value says of the headers of a request, as     *)
(* they were sent: names without case, values without case on demand.      *)
ConstraintMet(c, q) ==
  LET sent == {h.value : h \in {g \in q.headers : Lower(g.name) = Lower(c.name)}}
      eq(v, w) == Folded(v, foldCase) = Folded(w, foldCase)
      says(v, s, kind) ==
        CASE kind = "is_equals"   -> eq(v, s)
          [] kind = "contains"    -> \E u \in SubSeqs(v) : eq(u, s)
          [] kind = "starts_with" -> \E n \in 0..Len(v) : eq(SubSeq(v, 1, n), s)
          [] kind = "ends_with"   -> \E n \in 1..Len(v) + 1 : eq(SubSeq(v, n, Len(v)), s)
          [] kind = "match_regex" -> \E u \in Language[s] : eq(u, v)
      some(kind) == \E v \in sent, s \in c.value : says(v, s, kind)
  IN CASE c.kind = "is_defined"      -> sent # {}
       [] c.kind = "is_not_defined"  -> sent = {}
       [] c.kind = "is_not_equal_to" -> ~ some("is_equals")
       [] c.kind = "does_not_contain" -> ~ some("contains")
       [] OTHER                      -> some(c.kind)

(* Sharing the results of conditions between the groups, in both levels    *)
(* and with conditions that are evaluated for one group and skipped for    *)
(* another, changes nothing: a request finds the rules all of whose        *)
(* readable conditions hold for its headers, sent once or several times,   *)
(* and for its time, and no other rule.                                    *)
FindsByConjunction ==
  \A found \in matching :
    found = {r \in listed :
              /\ \A c \in r.headers : IsKept(c) => ConstraintMet(c, watched)
              /\ r.times # {} =>
                   \E t \in watched.created, w \in r.times :
                      /\ \A s \in w.start \ {Unreadable} : t % DayLength >= s
                      /\ \A e \in w.end \ {Unreadable} : t % DayLength < e
              /\ r.weekdays # {} =>
                   \E t \in watched.created : OnWeekday(r.weekdays, t)}

(* trace, which keeps its results in its own way, finds what match_request *)
(* finds, and every result that it tells is the one of the condition.      *)
TraceTellsTheConditions ==
  \A trace \in explained :
    /\ {trace.found} = matching
    /\ \A n \in trace.nodes :
         /\ n.met <=> \A t \in n.told : t.result = {TRUE}
         /\ \A t \in n.told : \A result \in t.result :
              result = Holds(t.condition, AsAdded(watched))

============================================================================
