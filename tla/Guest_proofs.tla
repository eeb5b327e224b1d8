---------------------------- MODULE Guest_proofs ----------------------------
(***************************************************************************)
(* Proofs about Guest, for every number of routes, instances, reloads and  *)
(* rules: what an instance has cached never shows in an answer.            *)
(***************************************************************************)
EXTENDS Guest, TLAPS

(* What an instance has read: some bytes of a configuration that its route *)
(* has had, all of them unless it changed in length between the reads.     *)
ReadInv(i) ==
  /\ step[i] # "free" => config[route[i]] \in given[i]
  /\ step[i] = "whole" =>
       \E c \in given[i] : Length[c] > First /\ text[i] = {<<c, Length[c]>>}
  /\ step[i] = "handle" =>
       \E c \in given[i] : \E l \in {Length[d] : d \in Config} :
         /\ text[i] = {<<c, l>>}
         /\ l = Length[c] \/ CanTear(given[i])

GuestInv ==
  /\ GuestTypeOK
  /\ CacheIsFaithful
  /\ AnswersOwnRules
  /\ \A i \in Instance : ReadInv(i)
  /\ \A i \in Instance : step[i] # "done" => answer[i] = {}

----------------------------------------------------------------------------

(* Every decision is an answer.                                            *)
LEMMA DecisionType ==
  ASSUME NEW rules \in SUBSET Rule
  PROVE  Decision(rules) \in AnswerType
<1> DEFINE heard == Heard(rules)
           status == DecidedStatus(heard)
           here == {r \in heard : r.target # {} /\ ForResponse(r, The(status))}
<1>1. heard \subseteq rules
  BY DEF Heard
<1>2. status \subseteq Status
  BY <1>1 DEF DecidedStatus, StatusRule, LastOf, Rule
<1>3. DecidedLocation(heard, The(status)) \in Option(Target)
  <2>1. LastOf(here) \in Option(here)
    <3>1. ASSUME NEW r \in LastOf(here), NEW s \in LastOf(here), r # s PROVE FALSE
      <4>1. Before(r, s) /\ Before(s, r) /\ r \in Rule /\ s \in Rule
        BY <1>1, <3>1 DEF LastOf
      <4>2. r.rank \in Nat /\ s.rank \in Nat /\ r.id \in Nat /\ s.id \in Nat
        BY <4>1, RedirectsAssumption DEF Rule
      <4> QED
        BY <4>1, <4>2 DEF Before
    <3> QED
      BY <3>1 DEF LastOf, Option
  <2>2. \A r \in here : r.target \in Option(Target)
    BY <1>1 DEF Rule
  <2>3. DecidedLocation(heard, The(status)) = UNION {r.target : r \in LastOf(here)}
    BY DEF DecidedLocation, LocationRule
  <2> HIDE DEF here
  <2> QED
    BY <2>1, <2>2, <2>3 DEF Option
<1>4. Forward \in AnswerType
  BY RedirectsAssumption DEF Forward, AnswerType, Option
<1>5. Decision(rules) = IF status = {} THEN Forward
        ELSE [status |-> The(status), location |-> DecidedLocation(heard, The(status))]
  BY DEF Decision
<1>6. status # {} => The(status) \in Status
  BY <1>2 DEF The
<1> HIDE DEF status, heard
<1> QED
  BY <1>3, <1>4, <1>5, <1>6 DEF AnswerType

LEMMA AnswersType ==
  ASSUME NEW rules \in SUBSET Rule, NEW q \in Request
  PROVE  Answers(rules, q) \subseteq AnswerType
BY DecisionType DEF Answers, Drawn

(* Without a rule there is nothing but to forward.                         *)
LEMMA NoRulesForward ==
  ASSUME NEW q, NEW a \in Answers({}, q)
  PROVE  a = Forward
<1>1. Drawn({} \cap Matches[q]) \subseteq {{}}
  BY DEF Drawn
<1>2. a = Decision({})
  BY <1>1 DEF Answers
<1>3. DecidedStatus(Heard({})) = {}
  BY DEF Heard, DecidedStatus, StatusRule, LastOf
<1> QED
  BY <1>2, <1>3 DEF Decision

LEMMA ParseRulesetType ==
  ASSUME NEW t \in Text
  PROVE  ParseRuleset(t) \in SUBSET Rule
BY GuestAssumption DEF ParseRuleset, Text

----------------------------------------------------------------------------

LEMMA GuestInvInit == Init => GuestInv
<1> SUFFICES ASSUME Init PROVE GuestInv
  OBVIOUS
<1>1. GuestTypeOK
  BY GuestAssumption DEF Init, GuestTypeOK, Option, Step
<1>2. CacheIsFaithful /\ AnswersOwnRules
  BY DEF Init, CacheIsFaithful, AnswersOwnRules
<1>3. \A i \in Instance : ReadInv(i) /\ (step[i] # "done" => answer[i] = {})
  BY DEF Init, ReadInv
<1> QED
  BY <1>1, <1>2, <1>3 DEF GuestInv

(* More configurations may tear, and answer, all that fewer may.           *)
LEMMA TearsGrow ==
  ASSUME NEW S, NEW T, S \subseteq T, CanTear(S)
  PROVE  CanTear(T)
BY DEF CanTear

LEMMA ReloadKeeps ==
  ASSUME GuestInv, NEW r \in Route, NEW c \in Config, Reload(r, c)
  PROVE  GuestInv'
<1>1. /\ GuestTypeOK /\ CacheIsFaithful /\ AnswersOwnRules
      /\ \A i \in Instance : ReadInv(i)
      /\ \A i \in Instance : step[i] # "done" => answer[i] = {}
  BY DEF GuestInv
<1>2. \A i \in Instance : given[i] \subseteq given'[i]
  BY DEF Reload
<1>3. GuestTypeOK'
  BY <1>1, GuestAssumption DEF Reload, GuestTypeOK
<1>4. CacheIsFaithful'
  BY <1>1 DEF Reload, CacheIsFaithful, ParseRuleset
<1>5. AnswersOwnRules'
  <2> SUFFICES ASSUME NEW i \in Instance, NEW a \in answer[i]
               PROVE  \/ \E d \in given'[i] : a \in Answers(RulesOf(d), request[i])
                      \/ a = Forward /\ CanTear(given'[i])
    BY DEF Reload, AnswersOwnRules, Answers, RulesOf, CanTear
  <2> QED
    BY <1>1, <1>2, TearsGrow DEF AnswersOwnRules
<1>6. ASSUME NEW i \in Instance
      PROVE  ReadInv(i)'
  <2>1. ReadInv(i) /\ step'[i] = step[i] /\ text'[i] = text[i]
        /\ route'[i] = route[i] /\ given[i] \subseteq given'[i]
    BY <1>1, <1>2 DEF Reload
  <2>2. step[i] # "free" => config'[route[i]] \in given'[i]
    <3>1. CASE route[i] = r
      BY <1>1, <3>1 DEF Reload, GuestTypeOK
    <3>2. CASE route[i] # r
      BY <1>1, <2>1, <3>2 DEF Reload, GuestTypeOK, ReadInv
    <3> QED
      BY <3>1, <3>2
  <2>3. CanTear(given[i]) => CanTear(given'[i])
    BY <2>1, TearsGrow
  <2> QED
    BY <2>1, <2>2, <2>3 DEF ReadInv, CanTear
<1>7. \A i \in Instance : step'[i] # "done" => answer'[i] = {}
  BY <1>1 DEF Reload
<1> QED
  BY <1>3, <1>4, <1>5, <1>6, <1>7 DEF GuestInv

(* A step of one instance, or of the host on it, is of no concern to the   *)
(* others.                                                                 *)
LEMMA OthersKeep ==
  ASSUME GuestInv, NEW i \in Instance, NEW j \in Instance, i # j,
         config' = config,
         step'[j] = step[j], route'[j] = route[j], request'[j] = request[j],
         text'[j] = text[j], answer'[j] = answer[j], given'[j] = given[j]
  PROVE  /\ ReadInv(j)' /\ (step'[j] # "done" => answer'[j] = {})
         /\ \A a \in answer'[j] :
              \/ \E c \in given'[j] : a \in Answers(RulesOf(c), request'[j])
              \/ a = Forward /\ CanTear(given'[j])
<1>1. ReadInv(j) /\ (step[j] # "done" => answer[j] = {})
      /\ \A a \in answer[j] :
           \/ \E c \in given[j] : a \in Answers(RulesOf(c), request[j])
           \/ a = Forward /\ CanTear(given[j])
  BY DEF GuestInv, AnswersOwnRules
<1>2. ReadInv(j)'
  BY <1>1 DEF ReadInv, CanTear
<1> QED
  BY <1>1, <1>2

LEMMA DispatchKeeps ==
  ASSUME GuestInv, NEW i \in Instance, NEW r \in Route, NEW q \in Request,
         Dispatch(i, r, q)
  PROVE  GuestInv'
<1>1. GuestTypeOK /\ CacheIsFaithful /\ answer[i] = {} /\ step[i] = "free"
  BY DEF GuestInv, Dispatch
<1>2. GuestTypeOK'
  BY <1>1 DEF Dispatch, GuestTypeOK, Step
<1>3. CacheIsFaithful'
  BY <1>1 DEF Dispatch, CacheIsFaithful, ParseRuleset
<1>4. /\ step'[i] = "length" /\ answer'[i] = {} /\ config' = config
      /\ route'[i] = r /\ given'[i] = {config[r]}
  BY <1>1 DEF Dispatch, GuestTypeOK
<1>5. ReadInv(i)'
  BY <1>4 DEF ReadInv
<1>6. ASSUME NEW j \in Instance, i # j
      PROVE  /\ step'[j] = step[j] /\ route'[j] = route[j]
             /\ request'[j] = request[j] /\ text'[j] = text[j]
             /\ answer'[j] = answer[j] /\ given'[j] = given[j]
  BY <1>1, <1>6 DEF Dispatch, GuestTypeOK
<1>7. \A j \in Instance : /\ ReadInv(j)' /\ (step'[j] # "done" => answer'[j] = {})
                          /\ \A a \in answer'[j] :
                               \/ \E c \in given'[j] : a \in Answers(RulesOf(c), request'[j])
                               \/ a = Forward /\ CanTear(given'[j])
  BY <1>4, <1>5, <1>6, OthersKeep
<1>8. AnswersOwnRules'
  BY <1>7 DEF AnswersOwnRules, Answers, RulesOf, CanTear
<1> QED
  BY <1>2, <1>3, <1>7, <1>8 DEF GuestInv

LEMMA ReleaseKeeps ==
  ASSUME GuestInv, NEW i \in Instance, Release(i),
         cache' \in {cache, [cache EXCEPT ![i] = {}]}
  PROVE  GuestInv'
<1>1. GuestTypeOK /\ CacheIsFaithful
  BY DEF GuestInv
<1>2. GuestTypeOK'
  BY <1>1 DEF Release, GuestTypeOK, Step, Option
<1>3. \A j \in Instance : cache'[j] \subseteq cache[j]
  BY <1>1 DEF GuestTypeOK
<1>4. CacheIsFaithful'
  BY <1>1, <1>3 DEF CacheIsFaithful, ParseRuleset
<1>5. /\ step'[i] = "free" /\ answer'[i] = {} /\ config' = config
  BY <1>1 DEF Release, GuestTypeOK
<1>6. ReadInv(i)'
  BY <1>5 DEF ReadInv
<1>7. ASSUME NEW j \in Instance, i # j
      PROVE  /\ step'[j] = step[j] /\ route'[j] = route[j]
             /\ request'[j] = request[j] /\ text'[j] = text[j]
             /\ answer'[j] = answer[j] /\ given'[j] = given[j]
  BY <1>1, <1>7 DEF Release, GuestTypeOK
<1>8. \A j \in Instance : /\ ReadInv(j)' /\ (step'[j] # "done" => answer'[j] = {})
                          /\ \A a \in answer'[j] :
                               \/ \E c \in given'[j] : a \in Answers(RulesOf(c), request'[j])
                               \/ a = Forward /\ CanTear(given'[j])
  BY <1>5, <1>6, <1>7, OthersKeep
<1>9. AnswersOwnRules'
  BY <1>8 DEF AnswersOwnRules, Answers, RulesOf, CanTear
<1> QED
  BY <1>2, <1>4, <1>8, <1>9 DEF GuestInv

LEMMA ReadLengthKeeps ==
  ASSUME GuestInv, NEW i \in Instance, ReadLength(i)
  PROVE  GuestInv'
<1> DEFINE c == config[route[i]]
<1>1. GuestTypeOK /\ CacheIsFaithful /\ answer[i] = {} /\ step[i] = "length"
      /\ c \in given[i]
  BY DEF GuestInv, ReadLength, ReadInv
<1>2. c \in Config /\ <<c, Length[c]>> \in Text
  BY <1>1 DEF GuestTypeOK, Text
<1>3. /\ text' = [text EXCEPT ![i] = {<<c, Length[c]>>}]
      /\ step' = [step EXCEPT ![i] = IF Length[c] > First THEN "whole"
                                     ELSE "handle"]
      /\ config' = config /\ cache' = cache /\ route' = route
      /\ request' = request /\ answer' = answer /\ given' = given
      /\ reloads' = reloads
  BY DEF ReadLength, jobVars
<1>4. ReadInv(i)'
  <2>1. text'[i] = {<<c, Length[c]>>} /\ config'[route'[i]] \in given'[i]
        /\ c \in given'[i] /\ Length[c] \in {Length[d] : d \in Config}
        /\ step'[i] = IF Length[c] > First THEN "whole" ELSE "handle"
    BY <1>1, <1>2, <1>3 DEF GuestTypeOK
  <2> HIDE DEF c
  <2> QED
    BY <2>1 DEF ReadInv
<1> HIDE DEF c
<1>5. GuestTypeOK'
  <2>1. text' \in [Instance -> Option(Text)]
    BY <1>1, <1>2, <1>3 DEF GuestTypeOK, Option
  <2>2. step' \in [Instance -> Step]
    BY <1>1, <1>3 DEF GuestTypeOK, Step
  <2> QED
    BY <1>1, <1>3, <2>1, <2>2 DEF GuestTypeOK
<1>6. CacheIsFaithful'
  BY <1>1, <1>3 DEF CacheIsFaithful, ParseRuleset
<1>7. ASSUME NEW j \in Instance, i # j
      PROVE  step'[j] = step[j] /\ text'[j] = text[j]
  BY <1>1, <1>3, <1>7 DEF GuestTypeOK
<1>8. \A j \in Instance : /\ ReadInv(j)' /\ (step'[j] # "done" => answer'[j] = {})
                          /\ \A a \in answer'[j] :
                               \/ \E d \in given'[j] : a \in Answers(RulesOf(d), request'[j])
                               \/ a = Forward /\ CanTear(given'[j])
  BY <1>1, <1>3, <1>4, <1>7, OthersKeep
<1>9. AnswersOwnRules'
  BY <1>8 DEF AnswersOwnRules, Answers, RulesOf, CanTear
<1> QED
  BY <1>5, <1>6, <1>8, <1>9 DEF GuestInv

LEMMA ReadWholeKeeps ==
  ASSUME GuestInv, NEW i \in Instance, ReadWhole(i)
  PROVE  GuestInv'
<1> DEFINE d == config[route[i]]
<1>1. GuestTypeOK /\ CacheIsFaithful /\ answer[i] = {} /\ step[i] = "whole"
      /\ d \in given[i]
  BY DEF GuestInv, ReadWhole, ReadInv
<1>2. PICK c \in given[i] : Length[c] > First /\ text[i] = {<<c, Length[c]>>}
  BY <1>1 DEF GuestInv, ReadInv
<1>3. c \in Config /\ d \in Config
  BY <1>1, <1>2 DEF GuestTypeOK
<1>4. /\ text' = [text EXCEPT ![i] = {<<d, Length[c]>>}]
      /\ step' = [step EXCEPT ![i] = "handle"]
      /\ config' = config /\ cache' = cache /\ route' = route
      /\ request' = request /\ answer' = answer /\ given' = given
      /\ reloads' = reloads
  <2>1. {<<d, t[2]>> : t \in text[i]} = {<<d, Length[c]>>}
    BY <1>2
  <2> QED
    BY <2>1 DEF ReadWhole, jobVars
<1>5. ReadInv(i)'
  <2>1. text'[i] = {<<d, Length[c]>>} /\ d \in given'[i] /\ step'[i] = "handle"
        /\ config'[route'[i]] \in given'[i]
    BY <1>1, <1>4 DEF GuestTypeOK
  <2>2. Length[c] = Length[d] \/ CanTear(given'[i])
    BY <1>1, <1>2, <1>4 DEF CanTear
  <2>3. Length[c] \in {Length[e] : e \in Config}
    BY <1>3
  <2> HIDE DEF d
  <2> QED
    BY <2>1, <2>2, <2>3 DEF ReadInv, CanTear
<1> HIDE DEF d
<1>6. GuestTypeOK'
  <2>1. <<d, Length[c]>> \in Text
    BY <1>3 DEF Text
  <2>2. text' \in [Instance -> Option(Text)]
    BY <1>1, <1>4, <2>1 DEF GuestTypeOK, Option
  <2>3. step' \in [Instance -> Step]
    BY <1>1, <1>4 DEF GuestTypeOK, Step
  <2> QED
    BY <1>1, <1>4, <2>2, <2>3 DEF GuestTypeOK
<1>7. CacheIsFaithful'
  BY <1>1, <1>4 DEF CacheIsFaithful, ParseRuleset
<1>8. ASSUME NEW j \in Instance, i # j
      PROVE  step'[j] = step[j] /\ text'[j] = text[j]
  BY <1>1, <1>4, <1>8 DEF GuestTypeOK
<1>9. \A j \in Instance : /\ ReadInv(j)' /\ (step'[j] # "done" => answer'[j] = {})
                          /\ \A a \in answer'[j] :
                               \/ \E e \in given'[j] : a \in Answers(RulesOf(e), request'[j])
                               \/ a = Forward /\ CanTear(given'[j])
  BY <1>1, <1>4, <1>5, <1>8, OthersKeep
<1>10. AnswersOwnRules'
  BY <1>9 DEF AnswersOwnRules, Answers, RulesOf, CanTear
<1> QED
  BY <1>6, <1>7, <1>9, <1>10 DEF GuestInv

(* Hit or miss, the Router in the cache is then the one of the text.       *)
LEMMA CachedRouterIsOfText ==
  ASSUME GuestInv, NEW i \in Instance, NEW t \in Text
  PROVE  WithCachedRouter(i, t) = {[key |-> Key[t], router |-> ParseRuleset(t)]}
<1>1. GuestTypeOK /\ CacheIsFaithful
  BY DEF GuestInv
<1>2. CASE \E c \in cache[i] : c.key = Key[t]
  <2>1. PICK c \in cache[i] : c.key = Key[t]
    BY <1>2
  <2>2. c.router = ParseRuleset(t)
    BY <1>1, <2>1 DEF CacheIsFaithful
  <2>3. cache[i] = {c} /\ c = [key |-> c.key, router |-> c.router]
    BY <1>1, <2>1 DEF GuestTypeOK, Option
  <2> QED
    BY <1>2, <2>1, <2>2, <2>3 DEF WithCachedRouter
<1>3. CASE ~ \E c \in cache[i] : c.key = Key[t]
  BY <1>3 DEF WithCachedRouter
<1> QED
  BY <1>2, <1>3

LEMMA HandleRequestKeeps ==
  ASSUME GuestInv, NEW i \in Instance, HandleRequest(i)
  PROVE  GuestInv'
<1>1. GuestTypeOK /\ CacheIsFaithful /\ AnswersOwnRules /\ step[i] = "handle"
      /\ config[route[i]] \in given[i]
  BY DEF GuestInv, HandleRequest, ReadInv
<1>2. PICK c \in given[i] : \E l \in {Length[d] : d \in Config} :
         /\ text[i] = {<<c, l>>}
         /\ l = Length[c] \/ CanTear(given[i])
  BY <1>1 DEF GuestInv, ReadInv
<1>3. PICK l \in {Length[d] : d \in Config} :
         /\ text[i] = {<<c, l>>}
         /\ l = Length[c] \/ CanTear(given[i])
  BY <1>2
<1> DEFINE t == <<c, l>>
           filled == [key |-> Key[t], router |-> ParseRuleset(t)]
<1>4. t \in Text
  BY <1>1 DEF GuestTypeOK, Text
<1>5. ParseRuleset(t) \in SUBSET Rule
  BY <1>4, ParseRulesetType
<1>6. cache' = [cache EXCEPT ![i] = {filled}]
  BY <1>3, <1>4, CachedRouterIsOfText DEF HandleRequest
<1>7. cache'[i] = {filled} /\ filled.router = ParseRuleset(t)
  BY <1>1, <1>6 DEF GuestTypeOK
<1>8. PICK a \in Answers(ParseRuleset(t), request[i]) :
        answer' = [answer EXCEPT ![i] = {a}]
  BY <1>7 DEF HandleRequest
<1>9. /\ step' = [step EXCEPT ![i] = "done"]
      /\ config' = config /\ text' = text /\ route' = route
      /\ request' = request /\ given' = given /\ reloads' = reloads
  BY DEF HandleRequest, jobVars
<1>10. \/ a \in Answers(RulesOf(c), request[i])
       \/ a = Forward /\ CanTear(given[i])
  <2>1. CASE l = Length[c]
    <3>1. ParseRuleset(t) = RulesOf(c)
      BY <2>1 DEF ParseRuleset, RulesOf
    <3> QED
      BY <1>8, <3>1
  <2>2. CASE l # Length[c]
    <3>1. ParseRuleset(t) = {}
      BY <2>2 DEF ParseRuleset
    <3>2. a = Forward
      BY <1>8, <3>1, NoRulesForward
    <3> QED
      BY <1>3, <2>2, <3>2
  <2> QED
    BY <2>1, <2>2
<1>11. GuestTypeOK'
  <2>1. filled \in [key : {Key[u] : u \in Text}, router : SUBSET Rule]
    BY <1>4, <1>5
  <2>2. cache' \in [Instance -> Option([key : {Key[u] : u \in Text},
                                        router : SUBSET Rule])]
    <3> HIDE DEF filled
    <3> QED
      BY <1>1, <1>6, <2>1 DEF GuestTypeOK, Option
  <2>3. a \in AnswerType
    BY <1>1, <1>5, <1>8, AnswersType DEF GuestTypeOK
  <2>4. answer' \in [Instance -> Option(AnswerType)]
    BY <1>1, <1>8, <2>3 DEF GuestTypeOK, Option
  <2>5. step' \in [Instance -> Step]
    BY <1>1, <1>9 DEF GuestTypeOK, Step
  <2> QED
    BY <1>1, <1>9, <2>2, <2>4, <2>5 DEF GuestTypeOK
<1>12. CacheIsFaithful'
  <2> SUFFICES ASSUME NEW j \in Instance, NEW e \in cache'[j], NEW u \in Text,
                      Key[u] = e.key
               PROVE  e.router = ParseRuleset(u)
    BY DEF CacheIsFaithful, ParseRuleset
  <2>1. CASE j = i
    <3>1. e = filled /\ u = t
      BY <1>4, <1>7, <2>1, KeyAssumption
    <3> QED
      BY <3>1
  <2>2. CASE j # i
    <3>1. cache'[j] = cache[j]
      BY <1>1, <1>6, <2>2 DEF GuestTypeOK
    <3> QED
      BY <1>1, <3>1 DEF CacheIsFaithful
  <2> QED
    BY <2>1, <2>2
<1> HIDE DEF t, filled
<1>13. step'[i] = "done" /\ answer'[i] = {a}
       /\ config'[route'[i]] \in given'[i]
       /\ given'[i] = given[i] /\ request'[i] = request[i]
  BY <1>1, <1>8, <1>9 DEF GuestTypeOK
<1>14. ReadInv(i)'
  BY <1>13 DEF ReadInv
<1>15. ASSUME NEW j \in Instance, i # j
       PROVE  step'[j] = step[j] /\ answer'[j] = answer[j]
  BY <1>1, <1>8, <1>9, <1>15 DEF GuestTypeOK
<1>16. ASSUME NEW j \in Instance
       PROVE  /\ ReadInv(j)' /\ (step'[j] # "done" => answer'[j] = {})
              /\ \A b \in answer'[j] :
                   \/ \E d \in given'[j] : b \in Answers(RulesOf(d), request'[j])
                   \/ b = Forward /\ CanTear(given'[j])
  <2>1. CASE j = i
    BY <1>1, <1>10, <1>13, <1>14, <2>1 DEF GuestTypeOK
  <2>2. CASE j # i
    BY <1>9, <1>15, <2>2, OthersKeep
  <2> QED
    BY <2>1, <2>2
<1>17. AnswersOwnRules'
  BY <1>16 DEF AnswersOwnRules, Answers, RulesOf, CanTear
<1> QED
  BY <1>11, <1>12, <1>16, <1>17 DEF GuestInv

LEMMA GuestInvNext == GuestInv /\ [Next]_vars => GuestInv'
<1> SUFFICES ASSUME GuestInv, [Next]_vars PROVE GuestInv'
  OBVIOUS
<1>1. CASE \E r \in Route, c \in Config : Reload(r, c)
  BY <1>1, ReloadKeeps
<1>2. ASSUME NEW i \in Instance, NEW r \in Route, NEW q \in Request,
             Dispatch(i, r, q)
      PROVE  GuestInv'
  BY <1>2, DispatchKeeps
<1>3. ASSUME NEW i \in Instance, Finish(i) \/ Trap(i)
      PROVE  GuestInv'
  BY <1>3, ReleaseKeeps DEF Finish, Trap
<1>4. ASSUME NEW i \in Instance, Guests(i)
      PROVE  GuestInv'
  BY <1>4, ReadLengthKeeps, ReadWholeKeeps, HandleRequestKeeps DEF Guests
<1>5. CASE UNCHANGED vars
  <2>1. GuestTypeOK'
    BY <1>5 DEF vars, GuestInv, GuestTypeOK
  <2>2. CacheIsFaithful'
    BY <1>5 DEF vars, GuestInv, CacheIsFaithful, ParseRuleset
  <2>3. AnswersOwnRules'
    BY <1>5 DEF vars, GuestInv, AnswersOwnRules, Answers, RulesOf, CanTear
  <2>4. \A i \in Instance : ReadInv(i)' /\ (step'[i] # "done" => answer'[i] = {})
    BY <1>5 DEF vars, GuestInv, ReadInv, CanTear
  <2> QED
    BY <2>1, <2>2, <2>3, <2>4 DEF GuestInv
<1> QED
  BY <1>1, <1>2, <1>3, <1>4, <1>5 DEF Next

(* Every answer is one that the engine can give, and every cached Router   *)
(* holds rules only: the malformed entries are gone.                       *)
THEOREM GuestTypeCorrect == Spec => []GuestTypeOK
<1>1. GuestInv => GuestTypeOK
  BY DEF GuestInv
<1> QED
  BY <1>1, GuestInvInit, GuestInvNext, PTL DEF Spec

(* The Router in the cache of an instance is the one of the text that its  *)
(* key stands for, through hits, misses, traps and changes of route.       *)
THEOREM CacheStaysFaithful == Spec => []CacheIsFaithful
<1>1. GuestInv => CacheIsFaithful
  BY DEF GuestInv
<1> QED
  BY <1>1, GuestInvInit, GuestInvNext, PTL DEF Spec

(* No request is answered under the rules of another route, of an earlier  *)
(* request or of a configuration its route no longer had.                  *)
THEOREM RequestsGetTheirOwnRules == Spec => []AnswersOwnRules
<1>1. GuestInv => AnswersOwnRules
  BY DEF GuestInv
<1> QED
  BY <1>1, GuestInvInit, GuestInvNext, PTL DEF Spec

============================================================================
