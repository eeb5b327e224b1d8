------------------------------ MODULE MCParts ------------------------------
(* Small instances of seven parts that do not touch each other: the walk   *)
(* over the pages of the API, the ruleset file, the answer to one request, *)
(* the conditions of rules on headers and time, the rewriting of requests, *)
(* the report on chains of redirections, and the markers of a rule.  A     *)
(* behaviour is one of one part, the others stay as they begin.            *)
EXTENDS Fetch, RulesetFile, Answer, Conditions, Requests, Loops, Markers

VARIABLE part

partsVars ==
  <<part, fetchVars, fileVars, answerVars, conditionsVars, requestVars, loopsVars, markersVars>>

----------------------------------------------------------------------------
(* Three rules, so that a page can hold one, two or three of them.         *)

MCRuleId == 1..3

(* Up to three rules, each a plain redirection but for one thing.          *)

Redirection(id, rank) ==
  [id |-> id, rank |-> rank, status |-> 301, target |-> {id}, sampling |-> {},
   codes |-> {}, exclude_codes |-> FALSE, reset |-> FALSE, stop |-> FALSE]

Variants(r) ==
  {r, [r EXCEPT !.status = 0], [r EXCEPT !.status = 302], [r EXCEPT !.target = {}],
   [r EXCEPT !.sampling = {0}], [r EXCEPT !.sampling = {50}],
   [r EXCEPT !.sampling = {200}], [r EXCEPT !.reset = TRUE],
   [r EXCEPT !.sampling = {50}, !.stop = TRUE], [r EXCEPT !.stop = TRUE],
   [r EXCEPT !.reset = TRUE, !.status = 0], [r EXCEPT !.reset = TRUE, !.target = {}],
   [r EXCEPT !.codes = {301}], [r EXCEPT !.codes = {301}, !.exclude_codes = TRUE]}

Somes(S) == {{}} \cup {{x} : x \in S}

MCMatched ==
  UNION {{a \cup b \cup c : a \in Somes(Variants(Redirection(1, ranks[1]))),
                            b \in Somes(Variants(Redirection(2, ranks[2]))),
                            c \in Somes(Variants(Redirection(3, ranks[3])))} :
         ranks \in {<<0, 0, 0>>, <<1, 0, 1>>}}

----------------------------------------------------------------------------
(* Ten constraints, in both cases of the letters, some of them in several  *)
(* rules; the regex @ is found in the text v only.                         *)

Constraint(k) ==
  CASE k = 1 -> [kind |-> "is_defined", name |-> <<"N">>, value |-> {}]
    [] k = 2 -> [kind |-> "is_not_equal_to", name |-> <<"n">>, value |-> {<<"v">>}]
    [] k = 3 -> [kind |-> "contains", name |-> <<"n">>, value |-> {<<"w">>}]
    [] k = 4 -> [kind |-> "does_not_contain", name |-> <<"n">>, value |-> {<<"W">>}]
    [] k = 5 -> [kind |-> "starts_with", name |-> <<"n">>, value |-> {<<"v">>}]
    [] k = 6 -> [kind |-> "match_regex", name |-> <<"m">>, value |-> {<<"@">>}]
    [] k = 7 -> [kind |-> "is_equals", name |-> <<"n">>, value |-> {}]
    [] k = 8 -> [kind |-> "is_not_defined", name |-> <<"m">>, value |-> {}]
    [] k = 9 -> [kind |-> "ends_with", name |-> <<"n">>, value |-> {<<"w">>}]
    [] k = 10 -> [kind |-> "is_equals", name |-> <<"M">>, value |-> {<<"V">>}]

ConstrainedRule(id, constraints, times, weekdays) ==
  [id |-> id, headers |-> {Constraint(k) : k \in constraints},
   times |-> times, weekdays |-> weekdays]

Window(start, end) == [start |-> start, end |-> end]

MCConstrained ==
  {ConstrainedRule(1, {1, 2}, {}, {}),
   ConstrainedRule(2, {2, 3, 5}, {Window({1}, {2})}, {}),
   ConstrainedRule(3, {4, 6}, {}, {1}),
   ConstrainedRule(4, {3, 4}, {Window({}, {2}), Window({2}, {1})}, {1}),
   ConstrainedRule(5, {7, 9}, {Window({Unreadable}, {2})}, {}),
   ConstrainedRule(6, {2, 8, 10}, {}, {}),
   ConstrainedRule(7, {}, {Window({1}, {2})}, {2})}

Sent(name, value) == [name |-> name, value |-> value]

MCWatched ==
  [headers : {{}, {Sent(<<"n">>, <<"v">>)}, {Sent(<<"N">>, <<"v", "w">>)},
              {Sent(<<"n">>, <<"V", "W">>), Sent(<<"N">>, <<"v">>)},
              {Sent(<<"n">>, <<"w">>), Sent(<<"m">>, <<"V">>)},
              {Sent(<<"n">>, <<"W">>), Sent(<<"M">>, <<"v">>)}},
   created : {{}, {0}, {4}, {5}, {7}}]

MCLanguage == [regex \in {<<"@">>} |-> {<<"v">>}]

----------------------------------------------------------------------------
(* Requests and rules with no, one and two parameters, in both orders,     *)
(* with a marketing parameter u, escapes, and a path that is refused.      *)

MCMarketing == {<<"u">>}

MCKeyOrder ==
  << <<>>, <<" ">>, <<"&">>, <<"+">>, <<"B">>, <<"a">>, <<"a", " ">>,
     <<"a", "&", "b">>, <<"a", "+">>, <<"b">>, <<"u">> >>

Home(query) == <<"/", "?">> \o query

MCReceived ==
  {<<"/">>, <<"/", "P">>, <<"/", "?">>, <<"/", "grave", "?", "b", "&", "a", "&", "u">>,
   Home(<<"b", "&", "a", "=", "v">>), Home(<<"a", "=", "v", "&", "b">>),
   Home(<<"u", "=", "v", "&", "a">>), Home(<<"a", "&", "u", "=", "v", "&", "u">>),
   Home(<<"a", "=", "v", "&", "b", "&", "a", "=", "b">>),
   Home(<<"a", "+", "=", "b", "%2B">>), Home(<<"a", "%20", "=", "b", "+">>),
   Home(<<"a", " ", "=", "+">>), Home(<<"b", "=", "v", "%26", "a">>),
   Home(<<"B", "&", "a">>), Home(<<"&", "=", "&", "=", "v">>), Home(<<"a", "&", "=">>), Home(<<"=", "&", "a">>)}

MCWritten ==
  [path : {<<"/">>, <<"/", "P">>, <<"/", "grave">>},
   query : {{}, {<<>>}, {<<"a">>}, {<<"a", "&", "=">>}, {<<"=", "&", "a">>}, {<<"a", "&", "B">>}, {<<"u", "=", "v">>},
            {<<"b", "&", "a", "=", "v">>}, {<<"a", "=", "v", "&", "b">>},
            {<<"b", "&", "a", "=", "b">>}, {<<"a", "%20", "=", "%20">>},
            {<<"a", "+", "=", "b", "%2B">>}, {<<"a", " ", "=", "b", "+">>}}]

MCConfig ==
  {c \in [marketing : BOOLEAN, all : BOOLEAN, order : BOOLEAN, case : BOOLEAN,
          pass : BOOLEAN, hostCase : BOOLEAN] : c.hostCase = c.case}

MCNamed == {[name |-> <<"A">>, port |-> {"443"}], [name |-> <<"a">>, port |-> {"v"}]}

MCLowerOf ==
  [c \in {"A", "B", "M", "N", "P", "V", "W"} |->
     CASE c = "A" -> "a" [] c = "B" -> "b" [] c = "M" -> "m" [] c = "N" -> "n"
       [] c = "P" -> "p" [] c = "V" -> "v" [] c = "W" -> "w"]

----------------------------------------------------------------------------
(* Two paths that redirect each other in every way, and to another site x, *)
(* by rules for any host; or one path of the host p has a rule of its own. *)

Url(host, path) == [host |-> host, path |-> path]

To(status, host, path) == [status |-> status, location |-> {Url(host, path)}]

MCReply ==
  {[status |-> 200, location |-> {}], [status |-> 301, location |-> {}],
   To(301, {}, "a"), To(301, {}, "b"), To(301, {"p"}, "b"), To(301, {"x"}, "a"),
   To(307, {}, "a"), To(307, {"p"}, "b")}

MCAny == [Page -> [{"GET", "POST"} -> MCReply]]

SiteOf(any, own) ==
  [url \in Link |-> IF url = Url({"p"}, "a") THEN own ELSE any[url.path]]

MCSite ==
  {SiteOf(any, any["a"]) : any \in MCAny}
    \cup {SiteOf(any, [method \in {"GET", "POST"} |-> own]) :
            any \in {a \in MCAny : \A page \in Page : a[page]["GET"] = a[page]["POST"]},
            own \in {[status |-> 200, location |-> {}], To(301, {}, "a")}}

(* Followed only where x is the host of the example, without a project.    *)
MCRefused == {Url({"x"}, "b")}

MCExample ==
  {[url |-> Url({}, "a"), method |-> "POST"],
   [url |-> Url({"p"}, "a"), method |-> "GET"],
   [url |-> Url({"x"}, "a"), method |-> "GET"]}

----------------------------------------------------------------------------
(* Markers m, ma and h, of which m is the beginning of ma, in a path, a    *)
(* host and a header.  The regex of ma may be "@m", and has that of m in   *)
(* it then; so has that of h, but m is done with when h is put in.         *)

Letters(t) == [k \in DOMAIN t |-> <<"text", t[k]>>]
Name(name) == << <<"ref", name>> >>

MarkersWith(transformers) ==
  << [name |-> <<"m">>, words |-> <<Letters(<<"A">>), Letters(<<"A", "v">>), Letters(<<"eacute">>)>>,
      transformers |-> transformers],
     [name |-> <<"m", "a">>, words |-> <<Letters(<<"v">>), Name(<<"m">>)>>, transformers |-> <<>>],
     [name |-> <<"h">>, words |-> <<Letters(<<"w">>), Letters(<<"a">>), Name(<<"m">>)>>, transformers |-> <<>>] >>

Slash == Letters(<<"/">>)

MarkedWith(path, host, headers, transformers) ==
  [path |-> path, host |-> host, headers |-> headers, markers |-> MarkersWith(transformers),
   variables |-> <<>>, target |-> path]

Slicing(from, to) == [type |-> "slice", from |-> from, to |-> to]

Transforming ==
  {<<[type |-> "lowercase"], [type |-> "replace", something |-> <<"text", "a">>, with |-> Letters(<<"v", "v">>)]>>,
   <<[type |-> "unknown"], [type |-> "uppercase"]>>, <<Slicing(0, {1})>>, <<Slicing(1, {})>>,
   <<Slicing(2, {})>>, <<Slicing(2, {1})>>, <<Slicing(3, {9})>>}

MCMarked ==
  {MarkedWith(Slash \o path, host, headers, <<>>) :
     path \in {<<>>, Name(<<"m">>), Name(<<"m", "v">>), Name(<<"m", "a">>), Name(<<"m">>) \o Name(<<"m">>),
               Name(<<"m", "a">>) \o Slash \o Name(<<"m">>), Name(<<"m">>) \o Name(<<"m", "a">>),
               Name(<<"h">>) \o Slash \o Name(<<"m">>)},
     host \in {{}, {Name(<<"h">>)}, {Name(<<"m">>)}, {Letters(<<"A">>)}},
     headers \in {<<>>, <<[name |-> <<"N">>, value |-> Letters(<<"v">>) \o Name(<<"h">>)]>>,
                  <<[name |-> <<"n">>, value |-> Letters(<<"v">>)], [name |-> <<"N">>, value |-> Name(<<"m", "a">>)]>>}}
    \cup {[MarkedWith(Slash \o Name(<<"m">>), {}, <<>>, transformers) EXCEPT !.variables = variables] :
            transformers \in Transforming,
            variables \in {<<>>, <<[kind |-> "marker", name |-> <<"m">>, from |-> <<"h">>, default |-> {},
                                   transformers |-> TRUE]>>}}

With(name, text) == [name |-> name, value |-> Letters(text)]

MCCalling ==
  {[path |-> Slash \o path, host |-> rest[1], headers |-> rest[2]] :
     path \in {<<>>, Name(<<"m">>), Name(<<"m">>) \o Slash \o Letters(<<"A">>),
               Letters(<<"w", "/", "A">>)}
              \cup {Letters(t) : t \in {<<"A">>, <<"a">>, <<"A", "v">>, <<"A", "v", "v">>, <<"v">>,
                                         <<"V", "/", "A">>, <<"A", "a">>, <<"eacute">>}},
     rest \in {<<{}, <<>> >>, <<{Letters(<<"w">>)}, <<With(<<"N">>, <<"v", "w">>)>> >>,
               <<{Letters(<<"A">>)}, <<With(<<"n">>, <<"v", "W">>), With(<<"n">>, <<"w", "v">>)>> >>,
               <<{Letters(<<"a">>)}, <<With(<<"N">>, <<"w", "v", "w">>), With(<<"N">>, <<"v", "a">>)>> >>}}

----------------------------------------------------------------------------

NoRules == \A i \in RuleId : rules[i] = NoRule

NoAnswer ==
  /\ matched = {} /\ lucky = {} /\ left = {} /\ update = {}
  /\ filters = <<>> /\ answer = {}

NoMatching ==
  /\ listed = {} /\ foldCase = FALSE /\ matching = {} /\ explained = {}
  /\ watched = [headers |-> {}, created |-> {}]

NoRequest ==
  /\ received = [text |-> <<>>, host |-> <<>>] /\ config = {}
  /\ built = [url |-> <<>>, text |-> <<>>, host |-> <<>>]

NoMarked ==
  /\ marked = <<>> /\ calling = <<>> /\ ignoring = FALSE
  /\ marking = "none" /\ captured = <<>> /\ target = {}

NoReport ==
  /\ project = {} /\ site = <<>> /\ budget = 0 /\ hops = <<>> /\ error = {}
  /\ compute = "hop"
  /\ example = [url |-> Url({}, "a"), method |-> "GET"]

PartsInit ==
  /\ FileInit /\ FetchInit
  /\ \/ part = "fetch" /\ NoAnswer /\ NoMatching /\ NoRequest /\ NoReport /\ NoMarked
     \/ /\ NoRules
        /\ \/ part = "file" /\ NoAnswer /\ NoMatching /\ NoRequest /\ NoReport /\ NoMarked
           \/ part = "answer" /\ AnswerInit /\ NoMatching /\ NoRequest /\ NoReport /\ NoMarked
           \/ part = "conditions" /\ NoAnswer /\ ConditionsInit /\ NoRequest /\ NoReport /\ NoMarked
           \/ part = "requests" /\ NoAnswer /\ NoMatching /\ RequestsInit /\ NoReport /\ NoMarked
           \/ part = "loops" /\ NoAnswer /\ NoMatching /\ NoRequest /\ LoopsInit /\ NoMarked
           \/ part = "markers" /\ NoAnswer /\ NoMatching /\ NoRequest /\ NoReport /\ MarkersInit

(* The request is answered, the Router asked, the report written, the      *)
(* markers replaced: nothing is left to do.                                *)
Answered ==
  /\ \/ answer # {} \/ explained # {} \/ compute = "done"
     \/ marking \in {"missed", "written", "panicked"}
  /\ UNCHANGED <<answerVars, conditionsVars, loopsVars, markersVars>>

PartsNext ==
  /\ UNCHANGED part
  /\ \/ /\ part = "fetch" /\ FetchNext
        /\ UNCHANGED <<fileVars, answerVars, conditionsVars, requestVars, loopsVars, markersVars>>
     \/ /\ part = "file" /\ FileNext
        /\ UNCHANGED <<fetchVars, answerVars, conditionsVars, requestVars, loopsVars, markersVars>>
     \/ /\ part = "answer" /\ AnswerNext
        /\ UNCHANGED <<fetchVars, fileVars, conditionsVars, requestVars, loopsVars, markersVars>>
     \/ /\ part = "conditions" /\ ConditionsNext
        /\ UNCHANGED <<fetchVars, fileVars, answerVars, requestVars, loopsVars, markersVars>>
     \/ /\ part = "requests" /\ RequestsNext
        /\ UNCHANGED <<fetchVars, fileVars, answerVars, conditionsVars, loopsVars, markersVars>>
     \/ /\ part = "loops" /\ LoopsNext
        /\ UNCHANGED <<fetchVars, fileVars, answerVars, conditionsVars, requestVars, markersVars>>
     \/ /\ part = "markers" /\ MarkersNext
        /\ UNCHANGED <<fetchVars, fileVars, answerVars, conditionsVars, requestVars, loopsVars>>
     \/ Answered /\ UNCHANGED <<fetchVars, fileVars, requestVars>>

(* FetchFairness, which nothing outside of the part "fetch" can enable.    *)
PartsSpec == PartsInit /\ [][PartsNext]_partsVars /\ FetchFairness
============================================================================
