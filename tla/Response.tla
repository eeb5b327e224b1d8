------------------------------ MODULE Response ------------------------------
(***************************************************************************)
(* An Action (action/mod.rs) from the rules it is merged of to the end of  *)
(* the response: the backend's choice, the headers of the request, the     *)
(* status, the headers and the body of the response, the log.  The calls   *)
(* are made in the order of RunExample::new (action/run.rs); a proxy makes *)
(* them through action/ffi.rs, with what its backend answers.              *)
(*                                                                         *)
(* The rules are those that got through their draws, in the order in which *)
(* from_routes_rule takes them: Answer has the draws and the order.        *)
(***************************************************************************)
EXTENDS BodyFilter

CONSTANTS
  Chosen,     \* sequences of rules, with what their markers captured
  Request,    \* the request: its headers, fields, and the skipped query
  Protected,  \* the headers of a request that no rule may change
  Backend(_), \* what the backend may answer where the rules are these:
              \* code, headers and body
  ContentType, ContentEncoding, Location  \* names of headers

(* What a body filter of a rule can be.                                    *)
OfBody(f) ==
  /\ f.type \in {"text", "html", "markdown", "other"}
  /\ f.type \in {"text", "html"} => {"type", "do", "content"} \subseteq DOMAIN f /\ IsText(f.content)
  /\ f.type = "text" => f.do \in {"replace", "append", "prepend"}
  /\ f.type = "html" => f.do \in {"after", "before", "prepend", "replace", "remove", "append"}

(* What a rule has of texts and of names.                                  *)
OfTexts(r) ==
  /\ \A t \in r.target : IsText(t)
  /\ \A f \in Range(r.headers) : "value" \in DOMAIN f /\ IsText(f.value)
  /\ \A f \in Range(r.bodies) : OfBody(f)
  /\ \A m \in DOMAIN r.captured : IsSequence(m) /\ IsText(r.captured[m])
  /\ \A v \in Range(r.variables) :
       /\ v.kind \in {"html", "header", "marker", "request"} /\ IsSequence(v.name)
       /\ \A t \in v.default : IsText(t)
       /\ v.kind = "request" => \A t \in Request[v.from] : IsText(t)

ASSUME RequestAssumption ==
  IsSequence(Request.headers) /\ \A t \in Request.skipped : IsText(t)

ASSUME RulesAssumption ==
  \A rs \in Chosen :
    /\ rs = [k \in 1..Len(rs) |-> rs[k]] /\ Len(rs) \in Nat
    /\ \A k \in 1..Len(rs) :
         /\ rs[k].variables \in Seq(Range(rs[k].variables)) /\ IsFiniteSet(DOMAIN rs[k].captured)
         /\ rs[k].status \in Nat /\ rs[k].log \in {{}, {TRUE}, {FALSE}}
         /\ rs[k].headers \in Seq(Range(rs[k].headers))
         /\ rs[k].bodies \in Seq(Range(rs[k].bodies))
         /\ rs[k].requestHeaders \in Seq(Range(rs[k].requestHeaders))
         /\ \A f \in Range(rs[k].requestHeaders) : "header" \in DOMAIN f
         /\ OfTexts(rs[k])

(* What the filters of a rule have, whatever they do.                      *)
ASSUME FiltersAssumption ==
  \A rs \in Chosen : \A k \in 1..Len(rs) :
    /\ \A f \in Range(rs[k].headers) \cup Range(rs[k].requestHeaders) :
         {"action", "header", "target", "unit"} \subseteq DOMAIN f
    /\ \A f \in Range(rs[k].bodies) : f.type # "other" => "unit" \in DOMAIN f

(* A backend answers with a code; 0 stands for no answer yet.              *)
ASSUME BackendAssumption ==
  \A rs \in Chosen : \A b \in Backend(rs) :
    /\ b.code \in Nat \ {0} /\ IsText(b.body)
    /\ \A t \in Range(b.body) : t[1] = "zip" => IsText(<<t[2]>>)
    /\ IsSequence(b.headers) /\ \A h \in Range(b.headers) : IsText(h.value)

VARIABLES
  rules,      \* those that are taken, one by one
  at,         \* the next of them
  action,     \* what they are merged to
  stage,      \* the call that comes next
  peer,       \* the backend that is asked instead
  forwarded,  \* the headers of the request the backend gets
  asked,      \* the code that the status was decided for
  status,     \* the status code the action gives, or 0
  backend,    \* what the backend answered
  headers,    \* the headers of the response
  given,      \* the headers that create_filter_body was told
  applied,    \* rules_applied
  logged,     \* should_log_request
  tags        \* get_log_tags

responseVars == <<rules, at, action, stage, peer, forwarded, asked, status, backend,
                  headers, given, applied, logged, tags>>

----------------------------------------------------------------------------
(* The parts of an action, each with the trigger of its rule.              *)

On(r) == [id |-> r.id, codes |-> r.codes, exclude |-> r.exclude]

(* How header filters, body filters, tags and rule traces look at a code.  *)
Accepts(on, code) == on.codes = {} \/ (on.exclude <=> code \notin on.codes)

NoAction == [update |-> {}, headerFilters |-> <<>>, bodyFilters |-> <<>>, traces |-> {},
             log |-> {}, peer |-> {}, tags |-> <<>>, requestFilters |-> <<>>, variables |-> <<>>]

(* A mutant: no text waits for the response.                               *)
IsDeferredNever(vs) == FALSE

IsDeferred(vs) == \E k \in DOMAIN vs : vs[k][2].kind = "header"

(* The query parameters that were skipped come back at the target's end.   *)
WithSkipped(target) ==
  IF Request.skipped = {} THEN target
  ELSE target \o <<Word(IF Contains(target, Word("?")) THEN "&" ELSE "?")>> \o OrEmpty(Request.skipped)

(* The filter that a target is, and those of the rule.                     *)
LocationFilter(target, unit) ==
  [action |-> "override", header |-> Location, value |-> WithSkipped(target),
   target |-> "location", unit |-> unit]

TargetFilters(r, vs) ==
  IF OrEmpty(r.target) = <<>> THEN <<>>
  ELSE <<LocationFilter(Replace(OrEmpty(r.target), vs, TRUE), r.units.redirect)>>

HeaderFiltersOf(r, vs) ==
  TargetFilters(r, vs)
    \o [k \in DOMAIN r.headers |-> [r.headers[k] EXCEPT !.value = Replace(@, vs, TRUE)]]

(* BodyFilter::clone_with_variables_replaced, as an Option.                *)
BodyReplaced(f, vs) ==
  CASE f.type = "text" -> {[f EXCEPT !.content = Replace(@, vs, TRUE)]}
    [] f.type = "html" -> {[f EXCEPT !.content = Replace(@, vs, FALSE)]}
    [] f.type = "markdown" -> {f}
    [] f.type = "other" -> {}

BodiesReplaced(fs, vs) ==
  FlattenSeq([k \in DOMAIN fs |-> SetToSeq(BodyReplaced(fs[k], vs))])

(* A rule for some codes of the response says nothing of the request, and  *)
(* a response header is not there yet.                                     *)
RequestFiltersOf(r, vs) ==
  IF r.codes # {} THEN <<>>
  ELSE LET now == ResolveResponseHeaders(vs, <<>>)
       IN FlattenSeq([k \in DOMAIN r.requestHeaders |->
            LET f == r.requestHeaders[k]
            IN IF f.header[1] \in Protected THEN <<>>
               ELSE <<[f EXCEPT !.value = Replace(@, now, TRUE)]>>])

Decided(value, on, unit) == [value |-> value, on |-> on, fallback |-> {}, unit |-> unit]

(* What the filters of the body may need of the variables.                 *)
WithoutHeaders(vs) ==
  FlattenSeq([k \in DOMAIN vs |-> IF vs[k][2].kind = "header" THEN <<>> ELSE <<vs[k]>>])

(* Action::from_route_rule.  If a variable is a header of the response all *)
(* texts wait for it, but those of the request.                            *)
FromRouteRule(r) ==
  LET vs == RuleVariables(r, r.captured, Request)
      deferred == IF IsDeferred(vs) THEN vs ELSE <<>>
      part(f) == [filter |-> f, on |-> On(r), variables |-> deferred]
      headerFilters == HeaderFiltersOf(r, IF deferred = <<>> THEN vs ELSE <<>>)
      bodyFilters == IF deferred = <<>> THEN BodiesReplaced(r.bodies, vs) ELSE r.bodies
  IN [update |-> IF r.status = 0 THEN {} ELSE {Decided(r.status, On(r), r.units.redirect)},
      headerFilters |-> [k \in DOMAIN headerFilters |-> part(headerFilters[k])],
      bodyFilters |-> [k \in DOMAIN bodyFilters |-> part(bodyFilters[k])],
      traces |-> {On(r)},
      log |-> {Decided(l, On(r), r.units.log) : l \in r.log},
      peer |-> IF r.codes = {} THEN {[peer |-> p, id |-> r.id, unit |-> r.units.peer] : p \in r.peer} ELSE {},
      tags |-> IF r.tags = {} THEN <<>>
               ELSE <<[tags |-> IF deferred = <<>> THEN ResolveTags(r.tags, vs) ELSE r.tags,
                       on |-> On(r), unit |-> r.units.tags, variables |-> deferred]>>,
      requestFilters |-> [k \in DOMAIN RequestFiltersOf(r, vs) |->
                            [filter |-> RequestFiltersOf(r, vs)[k], id |-> r.id]],
      variables |-> WithoutHeaders(vs)]

----------------------------------------------------------------------------
(* Action::merge                                                           *)

(* A mutant: what is for any code gives way to what is for some codes.     *)
OverForgets(old, new, unit) == IF new = {} THEN old ELSE new

(* What gives way but is kept as a fallback: it is for any code, and what  *)
(* is said later only for some.                                            *)
KeptBy(n, old) == {o \in old : o.on.codes = {} /\ n.on.codes # {}}

(* The later one stands, if there is one.                                  *)
Over(old, new, unit) ==
  IF new = {} THEN old
  ELSE {[value |-> n.value, on |-> n.on,
         fallback |-> {<<o.value, o.on.id>> : o \in KeptBy(n, old)},
         unit |-> IF unit = "new" \/ KeptBy(n, old) = {} THEN n.unit
                  ELSE (CHOOSE o \in old : TRUE).unit] : n \in new}

Merge(a, b) ==
  [update |-> Over(a.update, b.update, "new"),
   headerFilters |-> a.headerFilters \o b.headerFilters,
   bodyFilters |-> a.bodyFilters \o b.bodyFilters,
   traces |-> a.traces \cup b.traces,
   log |-> Over(a.log, b.log, "old"),
   peer |-> IF b.peer # {} THEN b.peer ELSE a.peer,
   tags |-> a.tags \o b.tags,
   requestFilters |-> a.requestFilters \o b.requestFilters,
   variables |-> a.variables \o b.variables]

----------------------------------------------------------------------------
(* What an action says.                                                    *)

Nothing == [value |-> {}, ids |-> {}, units |-> {}]

Says(d) == [value |-> {d.value}, ids |-> {d.on.id}, units |-> {d.unit}]

(* The unit is that of the rule that gave way, too.                        *)
SaysFallback(d) == [value |-> {f[1] : f \in d.fallback}, ids |-> {f[2] : f \in d.fallback},
                    units |-> IF d.fallback = {} THEN {} ELSE {d.unit}]

(* StatusCodeUpdate::get_status_code: what is for any code is asked once,  *)
(* before there is one, and what excludes codes may speak then too.        *)
GetStatusCode(update, code) ==
  CASE update = {} -> Nothing
    [] \E d \in update : \/ code = 0 /\ d.on.codes = {}
                         \/ d.on.exclude <=> code \notin d.on.codes ->
         Says(CHOOSE d \in update : TRUE)
    [] OTHER -> IF code = 0 THEN Nothing ELSE SaysFallback(CHOOSE d \in update : TRUE)

(* A mutant: there is no fallback.                                         *)
GetLogOverrideAlone(log, code) ==
  IF \E d \in log : Accepts(d.on, code) THEN Says(CHOOSE d \in log : TRUE) ELSE Nothing

(* LogOverride::get_log_override                                           *)
GetLogOverride(log, code) ==
  CASE log = {} -> Nothing
    [] \E d \in log : Accepts(d.on, code) -> Says(CHOOSE d \in log : TRUE)
    [] OTHER -> [SaysFallback(CHOOSE d \in log : TRUE) EXCEPT !.units = {}]

(* add_unit_id_with_target, for each of the units.                         *)
TracedFor(target, units, t) ==
  [applied |-> t.applied \cup {<<target, u>> : u \in units}, seen |-> t.seen \cup units]

(* A mutant: also the parts that are for other codes.                      *)
IdsOfAll(parts, code) == {parts[k].on.id : k \in DOMAIN parts}

Ids(parts, code) == {parts[k].on.id : k \in {j \in DOMAIN parts : Accepts(parts[j].on, code)}}

(* A mutant: also the parts that are for other codes.                      *)
HeardAll(parts, code) == parts

Heard(parts, code) ==
  FlattenSeq([k \in DOMAIN parts |-> IF Accepts(parts[k].on, code) THEN <<parts[k]>> ELSE <<>>])

(* LogTags::resolve_response_headers                                       *)
TagsResolved(t, hs) ==
  IF t.variables = <<>> THEN t
  ELSE [t EXCEPT !.tags = ResolveTags(@, ResolveResponseHeaders(t.variables, hs)), !.variables = <<>>]

(* A mutant: only what is for some codes needs the proxy.                  *)
NeedProxificationForCodes ==
  (\E d \in action.update : d.on.codes # {}) \/ (\E d \in action.log : d.on.codes # {})

(* need_proxification                                                      *)
NeedProxification ==
  \/ (\E d \in action.update : d.on.codes # {}) \/ (\E d \in action.log : d.on.codes # {})
  \/ action.headerFilters # <<>> \/ action.bodyFilters # <<>>

----------------------------------------------------------------------------

ResponseInit ==
  /\ BodyInit
  /\ rules \in Chosen /\ at = 1 /\ action = NoAction /\ stage = "rules"
  /\ peer = {} /\ forwarded = Request.headers /\ asked = 0 /\ status = 0
  /\ backend = [code |-> 0, headers |-> <<>>, body |-> <<>>]
  /\ headers = <<>> /\ given = <<>> /\ applied = {} /\ logged = TRUE /\ tags = {}

unitVars == <<body, chain, inError, registry, taken, out, failed, phase, promise>>

(* One turn of the loop of from_routes_rule.                               *)
TakeRule ==
  LET r == rules[at]
      reset == IF r.reset THEN AddUnit(trace, "configuration::reset", r.units.configuration) ELSE trace
  IN
  /\ stage = "rules" /\ at <= Len(rules)
  /\ action' = IF r.reset THEN FromRouteRule(r) ELSE Merge(action, FromRouteRule(r))
  /\ at' = IF r.stop THEN Len(rules) + 1 ELSE at + 1
  /\ trace' = IF r.stop THEN AddUnit(reset, "configuration::stop", r.units.configuration) ELSE reset
  /\ UNCHANGED <<rules, stage, peer, forwarded, asked, status, backend, headers, given,
                 applied, logged, tags, unitVars>>

(* get_peer                                                                *)
GetPeer ==
  /\ stage = "rules" /\ at > Len(rules) /\ stage' = "request"
  /\ peer' = {p.peer : p \in action.peer}
  /\ applied' = applied \cup {p.id : p \in action.peer}
  /\ trace' = TracedFor("peer_override", {p.unit : p \in action.peer}, trace)
  /\ UNCHANGED <<rules, at, action, forwarded, asked, status, backend, headers, given,
                 logged, tags, unitVars>>

(* filter_request_headers                                                  *)
FilterRequestHeaders ==
  LET fs == action.requestFilters
      result == FilterAll([k \in DOMAIN fs |-> fs[k].filter], forwarded, trace)
  IN
  /\ stage = "request" /\ stage' = "status"
  /\ forwarded' = result.headers /\ trace' = result.trace
  /\ applied' = applied \cup {fs[k].id : k \in DOMAIN fs}
  /\ UNCHANGED <<rules, at, action, peer, asked, status, backend, headers, given,
                 logged, tags, unitVars>>

Give(said) ==
  /\ stage' = "headers"
  /\ status' = IF said.value = {} THEN 0 ELSE CHOOSE v \in said.value : TRUE
  /\ applied' = applied \cup said.ids
  /\ trace' = TracedFor("status_code", said.units, trace)
  /\ UNCHANGED <<rules, at, action, peer, forwarded, headers, given, logged, tags, unitVars>>

(* The action gives a status before there is a response: the backend is    *)
(* not asked, and the status stands for its code.                          *)
AnswerAtOnce ==
  LET said == GetStatusCode(action.update, 0) IN
  /\ stage = "status" /\ said.value # {}
  /\ Give(said)
  /\ asked' = 0
  /\ backend' = [code |-> CHOOSE v \in said.value : TRUE, headers |-> <<>>, body |-> <<>>]

(* Otherwise the backend answers and the action is asked again.            *)
AnswerBackend ==
  /\ stage = "status" /\ GetStatusCode(action.update, 0).value = {}
  /\ \E b \in Backend(rules) :
       /\ backend' = b /\ asked' = b.code
       /\ Give(GetStatusCode(action.update, b.code))

(* A mutant: the tags are resolved from the headers as they are left.      *)
FilterHeadersFirst ==
  LET heard == Heard(action.headerFilters, backend.code)
      now(p) == IF p.variables = <<>> THEN p.filter
                ELSE [p.filter EXCEPT !.value =
                        Replace(@, ResolveResponseHeaders(p.variables, backend.headers), TRUE)]
      result == FilterAll([k \in DOMAIN heard |-> now(heard[k])], backend.headers, trace)
  IN
  /\ stage = "headers" /\ stage' = "create"
  /\ headers' = result.headers /\ trace' = result.trace
  /\ action' = [action EXCEPT !.tags = [k \in DOMAIN @ |-> TagsResolved(@[k], result.headers)]]
  /\ applied' = applied \cup {t.id : t \in {u \in action.traces : Accepts(u, backend.code)}}
                       \cup Ids(action.headerFilters, backend.code)
  /\ UNCHANGED <<rules, at, peer, forwarded, asked, status, backend, given, logged, tags, unitVars>>

(* filter_headers: every rule that hears of the code is applied by now.    *)
FilterHeaders ==
  LET heard == Heard(action.headerFilters, backend.code)
      now(p) == IF p.variables = <<>> THEN p.filter
                ELSE [p.filter EXCEPT !.value =
                        Replace(@, ResolveResponseHeaders(p.variables, backend.headers), TRUE)]
      result == FilterAll([k \in DOMAIN heard |-> now(heard[k])], backend.headers, trace)
  IN
  /\ stage = "headers" /\ stage' = "create"
  /\ headers' = result.headers /\ trace' = result.trace
  /\ action' = [action EXCEPT !.tags = [k \in DOMAIN @ |-> TagsResolved(@[k], backend.headers)]]
  /\ applied' = applied \cup {t.id : t \in {u \in action.traces : Accepts(u, backend.code)}}
                       \cup Ids(action.headerFilters, backend.code)
  /\ UNCHANGED <<rules, at, peer, forwarded, asked, status, backend, given, logged, tags, unitVars>>

(* The last header of a name, of which a word is looked at.                *)
LastOf(hs, name) ==
  LET same == {k \in DOMAIN hs : SameHeader(hs[k].name, name)}
  IN {Last(hs[k].value)[2] : k \in {j \in same : \A i \in same : i <= j}}

RegistryOf(vs) ==
  [n \in {vs[k][1] : k \in DOMAIN vs} |->
     vs[CHOOSE k \in DOMAIN vs : vs[k][1] = n /\ \A j \in DOMAIN vs : vs[j][1] = n => j <= k][2]]

BodyOfResponse(fs, hs) ==
  [filters |-> fs, contentType |-> LastOf(hs, ContentType), encoding |-> LastOf(hs, ContentEncoding),
   input |-> backend.body, registry |-> RegistryOf(action.variables)]

(* create_filter_body: RunExample gives it no headers, a proxy those of    *)
(* the response.                                                           *)
CreateFilterBody(hs) ==
  LET heard == Heard(action.bodyFilters, backend.code)
      now(p) == IF p.variables = <<>> THEN <<p.filter>>
                ELSE BodiesReplaced(<<p.filter>>, ResolveResponseHeaders(p.variables, hs))
  IN
  /\ stage = "create" /\ stage' = "body"
  /\ given' = hs
  /\ applied' = applied \cup Ids(action.bodyFilters, backend.code)
  /\ Begin(BodyOfResponse(FlattenSeq([k \in DOMAIN heard |-> now(heard[k])]), hs))
  /\ UNCHANGED <<rules, at, action, peer, forwarded, asked, status, backend, headers, logged, tags>>

(* The body goes through the filters, in chunks.                           *)
FilterBody ==
  /\ stage = "body"
  /\ (\E n \in 1..Len(body.input) : Filter(n)) \/ End \/ Panic
  /\ UNCHANGED responseVars

(* should_log_request, told the status of the action and not that of the   *)
(* response.                                                               *)
ShouldLogRequest ==
  LET said == GetLogOverride(action.log, status) IN
  /\ stage = "body" /\ phase = "end" /\ stage' = "tags"
  /\ logged' = IF said.value = {} THEN TRUE ELSE CHOOSE v \in said.value : TRUE
  /\ applied' = applied \cup said.ids
  /\ trace' = TracedFor("configuration::log", said.units, trace)
  /\ UNCHANGED <<rules, at, action, peer, forwarded, asked, status, backend, headers, given,
                 tags, unitVars>>

ResponseCode == IF status # 0 THEN status ELSE backend.code

(* get_log_tags                                                            *)
GetLogTags ==
  LET heard == {t \in Range(action.tags) : Accepts(t.on, ResponseCode)} IN
  /\ stage = "tags" /\ stage' = "done"
  /\ tags' = UNION {t.tags : t \in heard}
  /\ trace' = TracedFor("log_tags", {t.unit : t \in heard}, trace)
  /\ UNCHANGED <<rules, at, action, peer, forwarded, asked, status, backend, headers, given,
                 applied, logged, unitVars>>

ResponseNext ==
  \/ TakeRule \/ GetPeer \/ FilterRequestHeaders \/ AnswerAtOnce \/ AnswerBackend
  \/ FilterHeaders \/ (\E hs \in {<<>>, headers} : CreateFilterBody(hs)) \/ FilterBody
  \/ ShouldLogRequest \/ GetLogTags

ResponseSpec == ResponseInit /\ [][ResponseNext]_<<responseVars, bodyVars>>

----------------------------------------------------------------------------
(* Properties.                                                             *)

ResponseTypeOK ==
  /\ BodyTypeOK
  /\ at \in 1..(Len(rules) + 1)
  /\ stage \in {"rules", "request", "status", "headers", "create", "body", "tags", "done"}
  /\ applied \subseteq {rules[k].id : k \in DOMAIN rules}
  /\ stage \in {"rules", "request", "status"} => backend.code = 0 /\ status = 0
  /\ asked = 0 \/ asked = backend.code
  /\ logged \in BOOLEAN
  /\ phase = "headers" <=> stage \notin {"body", "tags", "done"}
  /\ stage = "done" => \A k \in DOMAIN action.tags : action.tags[k].variables = <<>>

(* The rules that count: from the last reset on, up to the first stop.     *)
Kept ==
  LET taken_ == {k \in DOMAIN rules : \A j \in 1..(k - 1) : ~ rules[j].stop}
  IN {k \in taken_ : \A j \in taken_ : rules[j].reset => j <= k}

Accepting(code) == {k \in Kept : Accepts(On(rules[k]), code)}

Latest(S) == {k \in S : \A j \in S : j <= k}

(* Of the rules that say something, the one that is obeyed for the code:   *)
(* the last, if it is for the code, or else the one before, if it is for   *)
(* any.                                                                    *)
Obeyed(saying, code) ==
  LET last == Latest(saying)
      before == {k \in Latest(saying \ last) : rules[k].codes = {}}
  IN IF last \subseteq Accepting(code) THEN last ELSE before

(* The status is that of the rule that is to be obeyed for the code that   *)
(* was asked, the rule is reported as applied, and without such a rule     *)
(* nothing is changed: merging rule by rule, with one fallback, loses no   *)
(* status and takes none of a rule that a reset or a stop has ended.       *)
StatusHasItsRule ==
  stage \notin {"rules", "request", "status"} =>
    LET obeyed == Obeyed({k \in Kept : rules[k].status # 0}, asked)
    IN IF obeyed = {} THEN status = 0
       ELSE \E k \in obeyed : status = rules[k].status /\ rules[k].id \in applied

(* The same of the log; without a rule the request is logged.              *)
LogHasItsRule ==
  stage \in {"tags", "done"} =>
    LET obeyed == Obeyed({k \in Kept : rules[k].log # {}}, status)
    IN IF obeyed = {} THEN logged
       ELSE \E k \in obeyed : rules[k].log = {logged} /\ rules[k].id \in applied

(* A rule is reported as applied only if it counts and is for the code of  *)
(* the response, or for the status that is logged; and every one is that   *)
(* is for the code of the response.                                        *)
AppliedWereHeard ==
  /\ applied \subseteq {rules[k].id : k \in Accepting(0) \cup Accepting(backend.code)
                                             \cup Accepting(status)}
  /\ stage = "done" => {rules[k].id : k \in Accepting(backend.code)} \subseteq applied

(* The filters of the rules that are for the code, one after the other,    *)
(* with all variables of the rule in place.                                *)
VariablesOf(k, hs) == ResolveResponseHeaders(RuleVariables(rules[k], rules[k].captured, Request), hs)

SaidHeaders ==
  FlattenSeq([k \in DOMAIN rules |->
    IF k \in Accepting(backend.code) THEN HeaderFiltersOf(rules[k], VariablesOf(k, backend.headers))
                                     ELSE <<>>])

TwoQuestionMarks(text) ==
  \E i, j \in DOMAIN text : i # j /\ text[i] = Word("?") /\ text[j] = Word("?")

SecondQuestionMark == \E k \in DOMAIN headers : TwoQuestionMarks(headers[k].value)

SkippedRefers == \E t \in Request.skipped : \E k \in DOMAIN t : t[k][1] = "ref"

(* What the rules say of the request, those for some codes of the response *)
(* left out.                                                               *)
SaidOfRequest ==
  FlattenSeq([k \in DOMAIN rules |->
    IF k \in Kept /\ rules[k].codes = {}
    THEN RequestFiltersOf(rules[k], RuleVariables(rules[k], rules[k].captured, Request)) ELSE <<>>])

Frame(hs) ==
  FlattenSeq([k \in DOMAIN hs |-> IF hs[k].name[1] \in Protected THEN <<hs[k]>> ELSE <<>>])

(* The backend gets the request with what the rules say of it, as if those *)
(* for some codes of the response were not there, and the headers that     *)
(* frame the request as they came.                                         *)
RequestKeepsItsFrame ==
  /\ forwarded = FilterAll(SaidOfRequest, Request.headers, NoTrace).headers
  /\ Frame(forwarded) = Frame(Request.headers)

(* That the texts of a rule wait for the response when one of its          *)
(* variables is a header of it changes nothing of the headers: they are    *)
(* what the rules say of the backend's, variables replaced.  But a target  *)
(* that waits does not see a question mark that a variable brings, and     *)
(* gets a second; and the skipped parameters wait with it, also where they *)
(* have the name of a variable.  The request keeps its frame meanwhile.    *)
HeadersAsRulesSay ==
  stage = "create" =>
    /\ \/ headers = FilterAll(SaidHeaders, backend.headers, NoTrace).headers
       \/ SecondQuestionMark \/ SkippedRefers
    /\ RequestKeepsItsFrame

(* Nor of the body: the filters are those of the rules for the code, with  *)
(* the headers that were given.                                            *)
BodyAsRulesSay ==
  stage = "body" /\ phase = "body" /\ taken = 0 =>
    body.filters =
      FlattenSeq([k \in DOMAIN rules |->
        IF k \in Accepting(backend.code) THEN BodiesReplaced(rules[k].bodies, VariablesOf(k, given))
                                         ELSE <<>>])

(* When a value is known by the unit in it: the filters that set a header, *)
(* and what has nothing of the unit of one, neither as a word nor as a     *)
(* letter of a name.                                                       *)
Setters(rs) == {f \in UNION {Range(rs[k].headers) : k \in DOMAIN rs} : f.action # "remove"}

Spells(text, u) ==
  \A k \in DOMAIN text : text[k][1] = "ref" => \A i \in DOMAIN text[k][2] : text[k][2][i] # u

Without(text, u) == ~ Contains(text, Word(u)) /\ Spells(text, u)

(* The value of g has its unit, which is a word of nothing else.           *)
IsLabelled(g) ==
  /\ Contains(g.value, Word(g.unit)) /\ Spells(g.value, g.unit)
  /\ g.unit \notin {"T", ",", "?", "&"} /\ g.target # "text"
  /\ g.target = "location" <=> SameHeader(Location, g.header)
  /\ \A t \in Request.skipped : Without(t, g.unit)

(* A rule says it of g alone, and g's target in the trace is its header.   *)
LeavesLabel(r, g) ==
  /\ g.unit \notin {r.units.redirect, r.units.log, r.units.peer, r.units.configuration, r.units.tags}
  /\ \A t \in r.target : Without(t, g.unit)
  /\ \A m \in DOMAIN r.captured : Without(r.captured[m], g.unit)
  /\ \A v \in Range(r.variables) :
       /\ \A t \in v.default : Without(t, g.unit)
       /\ v.kind = "request" => \A t \in Request[v.from] : Without(t, g.unit)
  /\ \A f \in Range(r.requestHeaders) : f.unit # g.unit
  /\ \A f \in Range(r.bodies) :
       /\ f.type \in {"text", "markdown"} => f.unit # g.unit
       /\ f.type = "html" => g.unit \notin f.unit
  /\ \A f \in Range(r.headers) :
       /\ f.target = g.target <=> SameHeader(f.header, g.header)
       /\ f = g \/ (f.unit # g.unit /\ Without(f.value, g.unit))

UnitsAreLabels(rs) ==
  \A g \in Setters(rs) :
    /\ IsLabelled(g) /\ \A k \in DOMAIN rs : LeavesLabel(rs[k], g)
    /\ \A b \in Backend(rs) : \A k \in DOMAIN b.headers : Without(b.headers[k].value, g.unit)

(* The units of the trace tell of the headers: a value that a filter has   *)
(* set stands if, and only if, the filter's unit is there as applied.  A   *)
(* value is known by the unit in it.                                       *)
TraceTellsTheHeaders ==
  stage = "done" =>
    \A k \in Kept : \A f \in Range(rules[k].headers) :
      f.action # "remove" =>
        (f.unit \in UnitsApplied(trace)
           <=> \E i \in DOMAIN headers : Contains(headers[i].value, Word(f.unit)))

(* A proxy that is told that it need not look at the response may leave it *)
(* as it is: its headers and its body would come out as they were, and the *)
(* status was known before.  Only if a rule has a variable of the body the *)
(* body is decoded and read for it, filter or no filter: one that is       *)
(* damaged or cut off comes out otherwise, and so does one with markup     *)
(* that the rewriter refuses, if there is an answer at all.                *)
ReadInVain == BodyVariables(body.registry) # {} /\ ~ (Intact(body) /\ Clear(body))

NoProxyNoChange ==
  ~ NeedProxification =>
    /\ stage = "done" =>
         /\ headers = backend.headers
         /\ out = backend.body \/ ReadInVain
         /\ asked = 0 \/ status = 0
    /\ phase = "panicked" => ReadInVain

(* "so the tags see the backend headers before a rule drops them"          *)
TagsSeeTheBackend ==
  stage = "done" =>
    tags = UNION {ResolveTags(rules[k].tags, VariablesOf(k, backend.headers)) :
                    k \in Accepting(ResponseCode)}
=============================================================================
