------------------------------- MODULE Guest --------------------------------
(***************************************************************************)
(* The plugin in the host: src/src/lib.rs in a pool of guest instances.    *)
(* An instance handles one request at a time; the host gives it the        *)
(* requests of any route, and keeps it afterwards, with its memory, or     *)
(* drops it.  What survives a request is the Router it built and a hash of *)
(* the configuration it built it from.                                     *)
(*                                                                         *)
(* The host (Sozune) is external: it is modelled from what lib.rs and the  *)
(* README ask of it.  A route's configuration is replaced at any moment,   *)
(* also between the two calls that read it.                                *)
(***************************************************************************)
EXTENDS Redirects

CONSTANTS
  Route,      \* routes of the host that use the plugin
  Instance,   \* guest instances
  Request,    \* what a request asks for
  Matches,    \* the rules that match each of them (the engine's matchers)
  Config,     \* configurations
  Length,     \* the length of each
  Entries,    \* the entries of its "rules"
  Malformed,  \* an entry that is no rule
  First,      \* the size of the first buffer, 64 KiB
  Key,        \* config_key, a hash of the text
  MaxReloads  \* bound: reloads of the configuration

(* What is read of a configuration: so many bytes of it, cut off or padded *)
(* with zeros if that is not its length.                                   *)
Text == Config \X {Length[c] : c \in Config}

ASSUME GuestAssumption ==
  /\ Length \in [Config -> Nat] /\ First \in Nat
  /\ Malformed \notin Rule
  /\ Entries \in [Config -> SUBSET (Rule \cup {Malformed})]
  /\ Matches \in [Request -> SUBSET Rule]
  /\ MaxReloads \in Nat

(* The hash tells the texts apart that the plugin meets.                   *)
ASSUME KeyAssumption ==
  \A t, u \in Text : Key[t] = Key[u] => t = u

Step == {"free", "length", "whole", "handle", "done"}

VARIABLES
  config,  \* the configuration of each route
  cache,   \* ROUTER of each instance: none, or a key and a router
  step,    \* what each instance is about to do
  route,   \* the route of its request
  request, \* the request
  text,    \* what it has read of the configuration
  answer,  \* its answer
  given,   \* the configurations its route has had since the request began
  reloads  \* the number of reloads so far

vars == <<config, cache, step, route, request, text, answer, given, reloads>>

jobVars == <<route, request>>

GuestTypeOK ==
  /\ config \in [Route -> Config]
  /\ cache \in [Instance -> Option([key : {Key[t] : t \in Text},
                                    router : SUBSET Rule])]
  /\ step \in [Instance -> Step]
  /\ route \in [Instance -> Route]
  /\ request \in [Instance -> Request]
  /\ text \in [Instance -> Option(Text)]
  /\ answer \in [Instance -> Option(AnswerType)]
  /\ given \in [Instance -> SUBSET Config]
  /\ reloads \in 0..MaxReloads

Init ==
  /\ config \in [Route -> Config]
  /\ cache = [i \in Instance |-> {}]
  /\ step = [i \in Instance |-> "free"]
  /\ route \in [Instance -> Route] /\ request \in [Instance -> Request]
  /\ text = [i \in Instance |-> {}] /\ answer = [i \in Instance |-> {}]
  /\ given = [i \in Instance |-> {}]
  /\ reloads = 0

----------------------------------------------------------------------------
(* The host.                                                               *)

Reload(r, c) ==
  /\ reloads < MaxReloads
  /\ config' = [config EXCEPT ![r] = c]
  /\ given' = [i \in Instance |->
                 IF step[i] # "free" /\ route[i] = r THEN given[i] \cup {c}
                 ELSE given[i]]
  /\ reloads' = reloads + 1
  /\ UNCHANGED <<cache, step, route, request, text, answer>>

Dispatch(i, r, q) ==
  /\ step[i] = "free"
  /\ step' = [step EXCEPT ![i] = "length"]
  /\ route' = [route EXCEPT ![i] = r]
  /\ request' = [request EXCEPT ![i] = q]
  /\ given' = [given EXCEPT ![i] = {config[r]}]
  /\ UNCHANGED <<config, cache, text, answer, reloads>>

(* The instance is ready for another request.                              *)
Release(i) ==
  /\ step' = [step EXCEPT ![i] = "free"]
  /\ text' = [text EXCEPT ![i] = {}]
  /\ answer' = [answer EXCEPT ![i] = {}]
  /\ given' = [given EXCEPT ![i] = {}]
  /\ UNCHANGED <<config, route, request, reloads>>

(* The answer is sent, and the instance is kept (reuse_instances) or not.  *)
Finish(i) ==
  /\ step[i] = "done"
  /\ Release(i)
  /\ cache' \in {cache, [cache EXCEPT ![i] = {}]}

(* A trap in the guest: the request fails, and so does the instance, whose *)
(* ROUTER would be left borrowed.                                          *)
Trap(i) ==
  /\ step[i] \notin {"free", "done"}
  /\ Release(i)
  /\ cache' = [cache EXCEPT ![i] = {}]

----------------------------------------------------------------------------
(* The plugin.                                                             *)

(* The first get_config of read_config: it reads the configuration if that *)
(* is not longer than the buffer, else only learns its length.             *)
ReadLength(i) ==
  /\ step[i] = "length"
  /\ LET c == config[route[i]] IN
       /\ text' = [text EXCEPT ![i] = {<<c, Length[c]>>}]
       /\ step' = [step EXCEPT ![i] = IF Length[c] > First THEN "whole"
                                      ELSE "handle"]
  /\ UNCHANGED <<config, cache, jobVars, answer, given, reloads>>

(* The second, into a buffer of that length.                               *)
ReadWhole(i) ==
  /\ step[i] = "whole"
  /\ text' = [text EXCEPT ![i] = {<<config[route[i]], t[2]>> : t \in text[i]}]
  /\ step' = [step EXCEPT ![i] = "handle"]
  /\ UNCHANGED <<config, cache, jobVars, answer, given, reloads>>

(* parse_ruleset: the entries that are rules; none if the text is not JSON *)
(* because it is cut off or padded.                                        *)
ParseRuleset(t) ==
  IF t[2] = Length[t[1]] THEN Entries[t[1]] \ {Malformed} ELSE {}

(* A mutant: the cache is not keyed.                                       *)
WithAnyCachedRouter(i, t) ==
  IF cache[i] # {} THEN cache[i]
  ELSE {[key |-> Key[t], router |-> ParseRuleset(t)]}

(* A mutant: a text without rules leaves the Router of the one before.     *)
WithLastGoodRouter(i, t) ==
  IF ParseRuleset(t) # {} THEN {[key |-> Key[t], router |-> ParseRuleset(t)]}
  ELSE {[key |-> Key[t], router |-> UNION {c.router : c \in cache[i]}]}

(* with_cached_router: the Router in the cache, of another text replaced   *)
(* first.  {} is the None of build_router.                                 *)
WithCachedRouter(i, t) ==
  IF \E c \in cache[i] : c.key = Key[t] THEN cache[i]
  ELSE {[key |-> Key[t], router |-> ParseRuleset(t)]}

(* The answers to a request under a set of rules, which depend on draws.   *)
Answers(rules, q) == {Decision(lucky) : lucky \in Drawn(rules \cap Matches[q])}

(* handle_request after read_config, and route_request.                    *)
HandleRequest(i) ==
  /\ step[i] = "handle"
  /\ \E t \in text[i] : cache' = [cache EXCEPT ![i] = WithCachedRouter(i, t)]
  /\ \E c \in cache'[i] : \E a \in Answers(c.router, request[i]) :
       answer' = [answer EXCEPT ![i] = {a}]
  /\ step' = [step EXCEPT ![i] = "done"]
  /\ UNCHANGED <<config, jobVars, text, given, reloads>>

Guests(i) ==
  \/ ReadLength(i) \/ ReadWhole(i) \/ HandleRequest(i)

Next ==
  \/ \E r \in Route, c \in Config : Reload(r, c)
  \/ \E i \in Instance :
       \/ \E r \in Route, q \in Request : Dispatch(i, r, q)
       \/ Finish(i) \/ Trap(i)
       \/ Guests(i)

Spec == Init /\ [][Next]_vars

----------------------------------------------------------------------------
(* Properties.                                                             *)

RulesOf(c) == Entries[c] \ {Malformed}

(* A Router in a cache is the one of every text that its key stands for.   *)
CacheIsFaithful ==
  \A i \in Instance : \A c \in cache[i] : \A t \in Text :
    Key[t] = c.key => c.router = ParseRuleset(t)

(* The configuration can change in length between the two reads.           *)
CanTear(configs) ==
  \E c, d \in configs : Length[c] > First /\ Length[c] # Length[d]

(* A request is answered under the rules of one configuration that its     *)
(* route had while it was handled, never under those of another route or   *)
(* of an earlier request, whatever the instance cached; only a reload      *)
(* between the two reads can make the plugin forward instead.              *)
AnswersOwnRules ==
  \A i \in Instance : \A a \in answer[i] :
    \/ \E c \in given[i] : a \in Answers(RulesOf(c), request[i])
    \/ a = Forward /\ CanTear(given[i])

============================================================================
