----------------------------- MODULE Redirects ------------------------------
(***************************************************************************)
(* What the rules that match one request amount to, told at once: the      *)
(* order the engine applies them in (Ord of api/rule.rs) and the answer    *)
(* that the last of them decide.  Answer does it rule by rule, as the code *)
(* does.                                                                   *)
(***************************************************************************)
EXTENDS Integers

CONSTANTS
  Id,      \* ids of rules, numbers in the order of the strings
  Rank,    \* ranks of rules
  Status,  \* status codes, 0 for none
  Target   \* targets of redirections

ASSUME RedirectsAssumption ==
  Id \subseteq Nat /\ Rank \subseteq Nat /\ Status \subseteq Nat /\ 0 \in Status

(* An Option is a set: {} for None, {x} for Some(x).                       *)
Option(S) == {o \in SUBSET S : \A x, y \in o : x = y}

(* codes: the status codes of the backend's response that the rule is      *)
(* about; {} is no condition.  exclude_codes counts by its presence.       *)
Rule ==
  [id : Id, rank : Rank, status : Status, target : Option(Target),
   sampling : Option(Nat), codes : SUBSET Status, exclude_codes : BOOLEAN,
   reset : BOOLEAN, stop : BOOLEAN]

(* Rule::cmp: the rules with a high rank, and the high ids of a rank, come *)
(* first, so that the others override them.                                *)
Before(r, s) ==
  \/ r.rank > s.rank
  \/ r.rank = s.rank /\ r.id > s.id

Distinct(rules) == \A r, s \in rules : r = s \/ Before(r, s) \/ Before(s, r)

(* The draw of Action::from_route_rule is between 1 and 100, and a rate    *)
(* above 100 counts as 100.                                                *)
Passes(r, draw) == \A rate \in r.sampling : draw <= rate \/ rate > 100

(* The sets of rules that can get through their draws.                     *)
Drawn(rules) ==
  {lucky \in SUBSET rules :
     \A r \in rules : \E draw \in 1..100 : (r \in lucky) <=> Passes(r, draw)}

(* What a rule does is for a response of this status: 0 while there is no  *)
(* response yet.                                                           *)
ForResponse(r, status) ==
  r.codes = {} \/ (r.exclude_codes <=> status \notin r.codes)

----------------------------------------------------------------------------

Forward == [status |-> 0, location |-> {}]

AnswerType == [status : Status, location : Option(Target)]

(* The rules whose effects are left: none after one that stops, none       *)
(* before one that resets.                                                 *)
Heard(rules) ==
  LET reached == {r \in rules : \A s \in rules : s.stop => ~ Before(s, r)}
  IN {r \in reached : \A s \in reached : s.reset => ~ Before(r, s)}

(* The one that overrides the others, as an Option.                        *)
LastOf(rules) == {r \in rules : \A s \in rules : s = r \/ Before(s, r)}

StatusRule(rules) == LastOf({r \in rules : r.status # 0})

LocationRule(rules, status) ==
  LastOf({r \in rules : r.target # {} /\ ForResponse(r, status)})

(* The value of an Option that has one.                                    *)
The(o) == CHOOSE x \in o : TRUE

DecidedStatus(rules) ==
  {r.status : r \in {s \in StatusRule(rules) : ForResponse(s, 0)}}

DecidedLocation(rules, status) ==
  UNION {r.target : r \in LocationRule(rules, status)}

(* The answer of the plugin if these rules got through their draws:        *)
(* forward without a status, else redirect.                                *)
Decision(rules) ==
  LET heard  == Heard(rules)
      status == DecidedStatus(heard)
  IN IF status = {} THEN Forward
     ELSE [status |-> The(status), location |-> DecidedLocation(heard, The(status))]

============================================================================
