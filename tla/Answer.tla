------------------------------- MODULE Answer -------------------------------
(***************************************************************************)
(* How the rules that match one request become its answer: route_request   *)
(* of src/src/lib.rs and, in the engine, Action::from_routes_rule, which   *)
(* takes the rules in their order, draws for each that is sampled, and     *)
(* merges what they do.                                                    *)
(*                                                                         *)
(* Of an action only the status and the Location filters are kept: a       *)
(* plugin that answers before the backend is asked uses nothing else, and  *)
(* no fallback of a status, which is for a response that has one.          *)
(***************************************************************************)
EXTENDS Redirects, Sequences

CONSTANT Matched  \* the sets of rules that a request can match

ASSUME AnswerAssumption ==
  \A rules \in Matched : rules \subseteq Rule /\ Distinct(rules)

VARIABLES
  matched,  \* the rules that match the request
  lucky,    \* those that get through their draws
  left,     \* those that are still to be taken
  update,   \* status_code_update: the rule it comes from
  filters,  \* header_filters: the rules whose Location they override
  answer    \* the answers given: none, or one

answerVars == <<matched, lucky, left, update, filters, answer>>

AnswerTypeOK ==
  /\ matched \subseteq Rule
  /\ lucky \subseteq matched /\ left \subseteq matched
  /\ update \in Option(matched)
  /\ filters \in Seq(matched)
  /\ answer \in Option(AnswerType)

AnswerInit ==
  /\ matched \in Matched
  /\ lucky \in Drawn(matched)
  /\ left = matched
  /\ update = {} /\ filters = <<>>
  /\ answer = {}

----------------------------------------------------------------------------

(* A mutant: the rules are sorted the other way round.                     *)
IsNextReversed(r) == r \in left /\ \A s \in left : s = r \/ Before(s, r)

(* The rule the loop over the sorted routes comes to.                      *)
IsNext(r) == r \in left /\ \A s \in left : s = r \/ Before(r, s)

(* A rule that does not get through its draw is passed over, with its      *)
(* reset and its stop.                                                     *)
PassOver(r) ==
  /\ IsNext(r) /\ r \notin lucky
  /\ left' = left \ {r}
  /\ UNCHANGED <<matched, lucky, update, filters, answer>>

(* A mutant: a reset forgets the status only.                              *)
ApplyKeepsFilters(r) ==
  /\ IsNext(r) /\ r \in lucky
  /\ update' = IF r.status # 0 THEN {r} ELSE IF r.reset THEN {} ELSE update
  /\ filters' = filters \o (IF r.target # {} THEN <<r>> ELSE <<>>)
  /\ left' = IF r.stop THEN {} ELSE left \ {r}
  /\ UNCHANGED <<matched, lucky, answer>>

(* Action::merge, or a fresh action if the rule resets.  A status update   *)
(* of the rule replaces the one there is.                                  *)
Apply(r) ==
  /\ IsNext(r) /\ r \in lucky
  /\ update' = IF r.status # 0 THEN {r} ELSE IF r.reset THEN {} ELSE update
  /\ filters' = (IF r.reset THEN <<>> ELSE filters)
                  \o (IF r.target # {} THEN <<r>> ELSE <<>>)
  /\ left' = IF r.stop THEN {} ELSE left \ {r}
  /\ UNCHANGED <<matched, lucky, answer>>

(* get_status_code(0), as an Option.                                       *)
StatusCode == {r.status : r \in {s \in update : ForResponse(s, 0)}}

(* filter_headers: of the overrides that are for this status the last one  *)
(* replaces the Location of those before it.                               *)
Location(status) ==
  LET overrides == {k \in DOMAIN filters : ForResponse(filters[k], status)}
  IN UNION {filters[k].target : k \in {m \in overrides : \A j \in overrides : j <= m}}

(* The end of route_request: forward without a status, else redirect.      *)
Respond ==
  /\ left = {} /\ answer = {}
  /\ answer' = {IF StatusCode = {} THEN Forward
                 ELSE [status |-> The(StatusCode),
                       location |-> Location(The(StatusCode))]}
  /\ UNCHANGED <<matched, lucky, left, update, filters>>

AnswerNext == (\E r \in matched : PassOver(r) \/ Apply(r)) \/ Respond

AnswerSpec == AnswerInit /\ [][AnswerNext]_answerVars

----------------------------------------------------------------------------
(* Properties.                                                             *)

(* Taking the rules one by one, with resets, stops and draws, gives the    *)
(* answer that the rules of the lowest ranks decide: from_routes_rule      *)
(* loses no override and lets none through that a stop or a reset ends.    *)
DecidesAsWhole == \A a \in answer : a = Decision(lucky)

(* What the sync writes: redirections with a status and a target that do   *)
(* not look at a response, reset or stop (translate_rule).                 *)
Plain(r) ==
  r.status # 0 /\ r.target # {} /\ r.codes = {} /\ ~ r.reset /\ ~ r.stop

(* Among such rules the status and the Location of a redirection are those *)
(* of one rule, and it has the lowest rank, and the lowest id of that      *)
(* rank, of the rules that got through their draws.                        *)
OneRuleRedirects ==
  (\A r \in matched : Plain(r)) =>
    \A a \in answer :
      \/ a = Forward /\ lucky = {}
      \/ \E r \in lucky :
           /\ a = [status |-> r.status, location |-> r.target]
           /\ \A s \in lucky : s.rank >= r.rank
           /\ \A s \in lucky : s.rank = r.rank => s.id >= r.id

============================================================================
