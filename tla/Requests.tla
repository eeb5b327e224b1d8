------------------------------ MODULE Requests ------------------------------
(***************************************************************************)
(* How a request is rewritten before it is matched: from_config of         *)
(* http/query.rs takes the marketing parameters out of the query and sorts *)
(* the others, http/host.rs drops a default port, http/request.rs does     *)
(* both again whenever a request meets a Router with another               *)
(* configuration; and how api/rule.rs writes the path and query of a rule, *)
(* which is compared with the result, as a text.                           *)
(*                                                                         *)
(* An Option is a set: {} for None, {x} for Some(x).  Of a configuration:  *)
(* ignore_marketing_query_params, ignore_all_query_parameters,             *)
(* ignore_query_param_order, ignore_path_and_query_case,                   *)
(* pass_marketing_query_params_to_target, ignore_host_case.                *)
(***************************************************************************)
EXTENDS Texts, Integers, SequencesExt

CONSTANTS
  Config,     \* the configurations of Routers
  Marketing,  \* marketing_query_params
  KeyOrder,   \* all keys of parameters, in the order of their bytes
  Received,   \* the texts of requests: a path, with or without a query
  Named,      \* the hosts of requests: a name, with or without a port
  Written     \* the sources of rules: a path and a query, an Option

ASSUME RequestsAssumption ==
  /\ Config \subseteq [marketing : BOOLEAN, all : BOOLEAN, order : BOOLEAN, case : BOOLEAN,
                        pass : BOOLEAN, hostCase : BOOLEAN]
  /\ Named \subseteq [name : Seq(Char), port : SUBSET STRING]
  /\ Received \subseteq Seq(Char)
  /\ \A s \in Written :
       /\ s.path \in Seq(Char \ {"?"})
       /\ s.query = {} \/ \E t \in s.query : s.query = {t} /\ t \in Seq(Char)

(* to_lowercase changes no separator and no escape: %2b is the character   *)
(* %2B here.                                                               *)
Separators == {"?", "&", "=", " ", "+", "%20", "%2B", "%26", "%3D"}

ASSUME SeparatorsAssumption ==
  Separators \subseteq Char /\ \A c \in DOMAIN LowerOf : {c, LowerOf[c]} \cap Separators = {}

OrEmpty(o) == IF o = {} THEN <<>> ELSE CHOOSE t \in o : TRUE

(* The characters that are escaped, and what they are unescaped to.        *)
EscapeOf == [c \in {" ", "+"} |-> IF c = " " THEN "%20" ELSE "%2B"]
UnescapeOf ==
  [c \in {"%20", "%2B", "%26", "%3D", "+"} |->
     CASE c \in {"%20", "+"} -> " " [] c = "%2B" -> "+" [] c = "%26" -> "&" [] c = "%3D" -> "="]

(* A mutant: a plus sign stays as it is.                                   *)
InQueryPlusStays == {" "}

(* URL_ENCODE_SET and QUERY_ENCODE_SET of query.rs and rule.rs, and the    *)
(* QUERY_ENCODE_SET of request.rs, which is like the first.                *)
InUrl == {" "}
InQuery == {" ", "+"}
InSortedQuery == {" "}

Escaped(t, chars) == [k \in DOMAIN t |-> IF t[k] \in chars THEN EscapeOf[t[k]] ELSE t[k]]
SanitizeUrl(t) == Escaped(t, InUrl)

----------------------------------------------------------------------------
(* form_urlencoded::parse                                                  *)

Unescaped(t) ==
  [k \in DOMAIN t |-> IF t[k] \in DOMAIN UnescapeOf THEN UnescapeOf[t[k]] ELSE t[k]]

(* The text before and after the first c.                                  *)
CutAt(t, c) ==
  LET at == {k \in DOMAIN t : t[k] = c}
  IN IF at = {} THEN <<t, <<>>>>
     ELSE <<SubSeq(t, 1, Min(at) - 1), SubSeq(t, Min(at) + 1, Len(t))>>

(* A sequence is gone through by a recursive function, here and below, for *)
(* SelectSeq and FoldLeft take operators, of which nothing can be proved.  *)
Among(s, S) ==
  LET upTo[n \in 0..Len(s)] ==
        IF n = 0 THEN <<>> ELSE IF s[n] \in S THEN Append(upTo[n - 1], s[n]) ELSE upTo[n - 1]
  IN upTo[Len(s)]

PutLast(s, x) == [s EXCEPT ![Len(s)] = Append(@, x)]

Split(t, c) ==
  LET upTo[n \in 0..Len(t)] ==
        IF n = 0 THEN << <<>> >>
        ELSE IF t[n] = c THEN Append(upTo[n - 1], <<>>) ELSE PutLast(upTo[n - 1], t[n])
  IN upTo[Len(t)]

Pieces(t, c) == Among(Split(t, c), ToSet(Split(t, c)) \ {<<>>})

ParseQuery(t) ==
  LET pieces == Pieces(t, "&")
  IN [k \in DOMAIN pieces |-> [n \in 1..2 |-> Unescaped(CutAt(pieces[k], "=")[n])]]

(* No key is missing in the order, and none comes before that without a    *)
(* character.                                                              *)
KeysOf(pairs) == {p[1] : p \in ToSet(pairs)}

ASSUME KeyOrderAssumption ==
  /\ KeyOrder \in Seq(Seq(Char))
  /\ \A m, n \in DOMAIN KeyOrder : KeyOrder[m] = KeyOrder[n] => m = n
  /\ \A n \in DOMAIN KeyOrder : KeyOrder[n] = <<>> => n = 1
  /\ \A t \in Received : KeysOf(ParseQuery(CutAt(t, "?")[2])) \subseteq ToSet(KeyOrder)
  /\ \A s \in Written : \A t \in s.query : KeysOf(ParseQuery(t)) \subseteq ToSet(KeyOrder)

(* A LinkedHashMap: a key that comes again takes its new value and goes to *)
(* the end.                                                                *)
Collect(s, p) == Append(Among(s, {o \in ToSet(s) : o[1] # p[1]}), p)

Collected(pairs) ==
  LET upTo[n \in 0..Len(pairs)] == IF n = 0 THEN <<>> ELSE Collect(upTo[n - 1], pairs[n])
  IN upTo[Len(pairs)]

ValueOf(pairs, key) == (CHOOSE p \in ToSet(pairs) : p[1] = key)[2]

Sorted(pairs) ==
  LET keys == Among(KeyOrder, KeysOf(pairs))
  IN [n \in DOMAIN keys |-> <<keys[n], ValueOf(pairs, keys[n])>>]

Pair(p, chars) ==
  Escaped(p[1], chars) \o (IF p[2] = <<>> THEN <<>> ELSE <<"=">> \o Escaped(p[2], chars))

(* A separator is put after what is there, and not before the first, which *)
(* may be without a character.                                             *)
Joined(query, pair) == query \o (IF query = <<>> THEN <<>> ELSE <<"&">>) \o pair

(* The query of these parameters, with these characters escaped.           *)
QueryOf(pairs, chars) ==
  LET upTo[n \in 0..Len(pairs)] ==
        IF n = 0 THEN <<>> ELSE Joined(upTo[n - 1], Pair(pairs[n], chars))
  IN upTo[Len(pairs)]

WithQuery(path, query) == path \o (IF query = <<>> THEN <<>> ELSE <<"?">> \o query)

----------------------------------------------------------------------------
(* PathAndQueryWithSkipped                                                 *)

FromStatic(t) ==
  [path_and_query |-> SanitizeUrl(t), matching |-> t, skipped |-> {}, original |-> t]

(* The http crate refuses some characters in a path, of which the grave   *)
(* accent is one.                                                          *)
Parses(path) == "grave" \notin ToSet(path)

Parameters(config, query) ==
  LET params == Collected(ParseQuery(query))
  IN IF config.order THEN Sorted(params) ELSE params

(* A mutant: what is skipped is passed on with ignore_all only.            *)
SkippedOfAll(config, query) ==
  IF config.all /\ config.pass /\ query # <<>> THEN {query} ELSE {}

OfMarketing(pairs) == {p \in ToSet(pairs) : p[1] \in Marketing}
Ours(pairs) == Among(pairs, ToSet(pairs) \ OfMarketing(pairs))

(* skipped_query_params                                                    *)
Skipped(config, query) ==
  LET params == Parameters(config, query)
      skipped == IF config.all THEN query
                 ELSE QueryOf(Among(params, OfMarketing(params)), InQuery)
  IN IF config.pass /\ skipped # <<>> THEN {skipped} ELSE {}

(* A mutant: the parameters are sorted although their order counts.        *)
KeptAlwaysSorted(config, query) ==
  IF config.all THEN <<>>
  ELSE QueryOf(Ours(Sorted(Collected(ParseQuery(query)))), InQuery)

Kept(config, query) ==
  IF config.all THEN <<>> ELSE QueryOf(Ours(Parameters(config, query)), InQuery)

FromConfig(config, t) ==
  LET url == SanitizeUrl(t)
      path == CutAt(url, "?")[1]
      query == CutAt(url, "?")[2]
      rewritten == IF (config.marketing \/ config.all) /\ Parses(path)
                   THEN WithQuery(path, Kept(config, query)) ELSE url
  IN [path_and_query |-> rewritten,
      matching |-> Folded(rewritten, config.case),
      skipped |-> IF (config.marketing \/ config.all) /\ Parses(path)
                  THEN Skipped(config, query) ELSE {},
      original |-> t]

(* without_default_port; what does not read as a name and a port is a name *)
(* without one.                                                            *)
WithoutDefaultPort(host) ==
  IF host.port \in {{"80"}, {"443"}} THEN [host EXCEPT !.port = {}] ELSE host

HostOf(config, host) ==
  WithoutDefaultPort([host EXCEPT !.name = Folded(@, config.hostCase)])

----------------------------------------------------------------------------
(* Rule::path_and_query, without markers                                   *)

(* Here a separator is put after every parameter, and the last taken off   *)
(* again: a first parameter with neither a name nor a value leaves one.    *)
Closed(pairs) ==
  LET upTo[n \in 0..Len(pairs)] ==
        IF n = 0 THEN <<>> ELSE upTo[n - 1] \o Pair(pairs[n], InSortedQuery) \o <<"&">>
  IN upTo[Len(pairs)]

(* build_sorted_query                                                      *)
SortedQuery(query) == Front(Closed(Sorted(Collected(ParseQuery(query)))))

RulePathAndQuery(config, source) ==
  LET text == OrEmpty(source.query)
      query == IF config.all THEN <<>>
               ELSE IF config.order THEN SortedQuery(text) ELSE text
  IN Folded(WithQuery(SanitizeUrl(source.path), Escaped(query, InQuery)), config.case)

----------------------------------------------------------------------------
(* One request, built and rebuilt.                                         *)

VARIABLES
  received,  \* its text and its host, as they came
  built,     \* the Request: path_and_query_skipped, path_and_query, host
  config     \* the configuration it was last rebuilt with: none, or one

requestVars == <<received, built, config>>

(* build_rio_request of the plugin; a Request that an older version has    *)
(* written has no path_and_query of its own.                               *)
RequestsInit ==
  /\ received \in [text : Received, host : Named]
  /\ \E text \in {{}, {received.text}} :
       built = [url |-> FromStatic(received.text), text |-> text, host |-> received.host]
  /\ config = {}

(* A mutant: the request is rebuilt from what it was rewritten to.         *)
RebuildFromRewritten(c) ==
  /\ built' = [url |-> FromConfig(c, built.url.path_and_query),
               text |-> built.text, host |-> HostOf(c, built.host)]
  /\ config' = {c}
  /\ UNCHANGED received

(* Request::rebuild_with_config                                            *)
Rebuild(c) ==
  /\ LET text == IF built.text = {} THEN built.url.original
                 ELSE OrEmpty(built.text)
     IN built' = [url |-> FromConfig(c, text), text |-> {text},
                  host |-> HostOf(c, built.host)]
  /\ config' = {c}
  /\ UNCHANGED received

RequestsNext == \E c \in Config : Rebuild(c)

RequestsSpec == RequestsInit /\ [][RequestsNext]_requestVars

----------------------------------------------------------------------------
(* Properties.                                                             *)

(* The parameters of a query: a function, for the order does not count.    *)
ParametersOf(query) ==
  LET pairs == Collected(ParseQuery(query))
  IN [k \in {p[1] : p \in ToSet(pairs)} |-> ValueOf(pairs, k)]

Without(params, keys) == [k \in DOMAIN params \ keys |-> params[k]]

(* But the one with neither a name nor a value, as in a&=, which is written *)
(* as nothing, or as the separator before it.                              *)
Said(params) == [k \in {k \in DOMAIN params : k # <<>> \/ params[k] # <<>>} |-> params[k]]

Together(some, others) ==
  [k \in DOMAIN some \cup DOMAIN others |-> IF k \in DOMAIN some THEN some[k] ELSE others[k]]

AllSaid(query) == Said(ParametersOf(query)) = ParametersOf(query)

(* A query that holds no escaped separator: a=x%26b is rewritten as the    *)
(* text a=x&b, which reads as two parameters.                              *)
NothingEscaped(t) == ToSet(t) \cap {"%26", "%3D"} = {}

(* Rewriting a request for a configuration and then for another, any       *)
(* number of times, is rewriting it for the last one: whatever the         *)
(* Router before has skipped, sorted or changed the case of, is there      *)
(* again.  (The case of the host is not: it is kept nowhere else.)         *)
RebuiltAsIfFirst ==
  \A c \in config :
    /\ built.url = FromConfig(c, received.text)
    /\ Lower(built.host.name) = Lower(received.host.name)
    /\ built.host.port = WithoutDefaultPort(received.host).port

(* No parameter of a request is lost when skipped parameters are passed on *)
(* to the target: it is in the rewritten query or in the skipped one, and  *)
(* with the value it had, if it had a name or a value.                     *)
NoParameterIsLost ==
  \A c \in config :
    c.pass /\ NothingEscaped(received.text) =>
      LET was == ParametersOf(CutAt(received.text, "?")[2])
          kept == ParametersOf(CutAt(built.url.path_and_query, "?")[2])
          skipped == ParametersOf(OrEmpty(built.url.skipped))
      IN Said(was) = Said(Together(kept, skipped))

(* What rewriting gives, rewritten again, stays: EngineRule takes it for   *)
(* granted of Canon, under the configuration of the plugin (the default    *)
(* one, which respects case and sorts the parameters).  Where they are not *)
(* sorted, each must have a name or a value.                               *)
RewritingIsIdempotent ==
  \A c \in config :
    ~ c.case /\ NothingEscaped(received.text)
      /\ (c.order \/ AllSaid(CutAt(received.text, "?")[2])) =>
      FromConfig(c, built.url.matching).matching = built.url.matching

(* With the marketing parameters ignored, the texts of a rule and of a     *)
(* request are equal exactly if the paths are and the parameters, without  *)
(* the marketing ones, are the same: in any order, or in the same order    *)
(* where it counts.  Left out are the sources and requests for which it is *)
(* not so: rules with a marketing parameter, which match nothing, paths    *)
(* that the http crate refuses, escaped separators, upper case in queries  *)
(* that are sorted before their case is folded, rules with a parameter     *)
(* that has neither a name nor a value (/?a&= is written /?&a, which no    *)
(* request is), and, where the order counts, requests with such a one, and *)
(* a rule's query that is not written as a request's is.                   *)
SameParametersMeet ==
  \A c \in config, s \in Written :
    LET ruleQuery == OrEmpty(s.query)
        path == CutAt(SanitizeUrl(received.text), "?")[1]
        params(q) == Said(Without(ParametersOf(q), Marketing))
        folded(t) == Folded(t, c.case)
        requestQuery == CutAt(received.text, "?")[2]
        keptPairs(q) == Ours(Collected(ParseQuery(q)))
    IN /\ c.marketing \/ c.all
       /\ Parses(path)
       /\ NothingEscaped(received.text) /\ NothingEscaped(ruleQuery)
       /\ Marketing \cap DOMAIN ParametersOf(ruleQuery) = {}
       /\ c.case => /\ Lower(ruleQuery) = ruleQuery
                    /\ Lower(requestQuery) = requestQuery
       /\ c.all \/ AllSaid(ruleQuery)
       /\ c.order \/ /\ QueryOf(Collected(ParseQuery(ruleQuery)), InQuery) = ruleQuery
                     /\ AllSaid(requestQuery)
       => (built.url.matching = RulePathAndQuery(c, s) <=>
             /\ folded(path) = folded(SanitizeUrl(s.path))
             /\ \/ c.all
                \/ c.order /\ params(requestQuery) = params(ruleQuery)
                \/ ~ c.order /\ keptPairs(requestQuery) = keptPairs(ruleQuery))

============================================================================
