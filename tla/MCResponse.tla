----------------------------- MODULE MCResponse -----------------------------
(* Up to three rules of a palette, each with a word or a name of its own,  *)
(* for a request whose backend answers well, not at all well, or coded;    *)
(* and one rule with each list of body filters, for bodies of each kind.   *)
EXTENDS Response

X == Word("x")
Y == Word("y")
C == Word("c")

Tagged(e, inner) == <<Lt(e), Gt(e)>> \o inner \o <<Close(e)>>

Whole1 == Tagged("i", <<X, X>>) \o Tagged("b", <<Y>>)
Nested == Tagged("b", <<Y>> \o Tagged("i", <<X>>))
Cut    == <<Lt("b"), Gt("b"), X, Lt("i")>>
Raw == <<"raw", "">>
Unclear == {<<Lt("i"), Gt("i"), X, Odd(o), Close("i"), Y>> : o \in {"out", "lost"}}
             \cup {<<X, Lt("b"), Odd("out")>>, <<X, Raw>>}
Docs == {<<>>, <<X>>, Whole1, Nested, Cut} \cup Unclear

TextFilter(do, u) == [type |-> "text", do |-> do, content |-> <<C, Word(u)>>, unit |-> u]
HtmlFilter(do, selector, ignore, content, u) ==
  [type |-> "html", legacy |-> FALSE, do |-> do, selector |-> {selector}, ignore |-> ignore,
   content |-> content, unit |-> {u}]
Legacy(do, tree, selector, u) ==
  [type |-> "html", legacy |-> TRUE, do |-> do, tree |-> tree, selector |-> selector,
   content |-> <<C, Ref(<<"v">>)>>, unit |-> {u}]
Markdown == [type |-> "markdown", unit |-> "m"]
Other == [type |-> "other"]

OnB(do, u) == HtmlFilter(do, <<"b">>, {}, <<C, Ref(<<"v">>), Ref(<<"v", "a">>)>>, u)

Texts == {TextFilter(do, u) : do \in {"append", "prepend", "replace"}, u \in {"t"}}
Htmls == {OnB(do, "h") : do \in {"append", "prepend", "replace", "remove", "before", "after"}}
           \cup {HtmlFilter("append", <<"b">>, {<<"b", "i">>}, <<C>>, "h"),
                 HtmlFilter("append", <<"b">>, {<<"i">>}, <<C, Ref(<<"v">>)>>, "h"),
                 HtmlFilter("prepend", <<"b">>, {}, Tagged("i", <<C>>), "h")}
Legacies == {Legacy("append", <<"b">>, {<<"i">>}, "h"), Legacy("append", <<"b", "i">>, {}, "h"),
             Legacy("append", <<"b">>, {<<"b">>}, "h"),
             Legacy("prepend", <<"b", "i">>, {<<"i">>}, "h"), Legacy("replace", <<"b">>, {<<"b">>}, "h"),
             Legacy("replace", <<>>, {<<"i">>}, "h"), Legacy("prepend", <<>>, {}, "h")}

Pairs == {<<f, g>> : f \in Texts \cup {OnB("append", "h"), OnB("remove", "h"), Markdown},
                     g \in {TextFilter(do, "s") : do \in {"append", "prepend", "replace"}}
                             \cup {OnB("prepend", "k"), OnB("replace", "k"), Markdown}}
Lists == {<<>>, <<Other>>} \cup {<<f>> : f \in Texts \cup Htmls \cup Legacies \cup {Markdown}} \cup Pairs

Ok(doc) == Append(Coded(doc), Trailer)

----------------------------------------------------------------------------

Name(n) == <<n, n>>
XA == Name("x-a")
Type == Name("content-type")
Encoding == Name("content-encoding")
Loc == Name("location")
Header(name, value) == [name |-> name, value |-> value]

MCRequest == [headers |-> <<Header(Name("host"), <<X>>), Header(XA, <<X>>)>>,
              agent |-> {<<Word("agent")>>}, skipped |-> {<<Word("utm")>>}]

FilterOf(do, name, value, u) ==
  [action |-> do, header |-> name, value |-> <<Word(u)>> \o value, target |-> name[1], unit |-> u]

RequestFilter(do, name, u) ==
  [action |-> do, header |-> name, value |-> <<Word(u), Ref(<<"r">>)>>,
   target |-> "request " \o name[1], unit |-> u]

U(id, u) == ToString(id) \o u

UnitsOf(id) ==
  [redirect |-> U(id, "redirect"), log |-> U(id, "log"), peer |-> U(id, "peer"),
   configuration |-> U(id, "configuration"), tags |-> U(id, "tags")]

Silent(id) ==
  [id |-> id, codes |-> {}, exclude |-> FALSE, reset |-> FALSE, stop |-> FALSE, status |-> 0,
   target |-> {}, units |-> UnitsOf(id), headers |-> <<>>, requestHeaders |-> <<>>,
   bodies |-> <<>>, log |-> {}, peer |-> {}, tags |-> {}, variables |-> <<>>,
   captured |-> [n \in {<<"m">>} |-> <<Word("M"), Word("?")>>]]

Variable(kind, name, from, default) ==
  [kind |-> kind, name |-> name, from |-> from, default |-> default, transformers |-> TRUE]

(* Variables of the request and of the backend's header.                   *)
Waits == <<Variable("header", <<"v">>, XA, {}), Variable("header", <<"r">>, XA, {<<Y>>}),
           Variable("marker", <<"v", "m">>, <<"m">>, {}), Variable("html", <<"b">>, <<"b">>, {})>>
Now == <<Variable("request", <<"v">>, "agent", {}), Variable("marker", <<"r">>, <<"m">>, {})>>

On404(r) == [r EXCEPT !.codes = {404}]
Not404(r) == [On404(r) EXCEPT !.exclude = TRUE]

Redirects(r) == {[r EXCEPT !.status = 302, !.target = {<<Ref(<<"v", "m">>), Ref(<<"m">>)>>}, !.variables = vs] :
                   vs \in {<<>>, Waits, Now}}

Sets(r) ==
  {[r EXCEPT !.headers = <<FilterOf(a, XA, <<Ref(<<"v">>)>>, U(r.id, a))>>, !.variables = vs,
             !.tags = {<<Word(U(r.id, "tag")), Ref(<<"v">>)>>},
             !.bodies = <<TextFilter(IF a = "add" THEN "replace" ELSE "append", U(r.id, "t")),
                          [OnB("prepend", "h") EXCEPT !.content = <<Ref(<<"v">>), Ref(<<"b">>)>>], Other>>,
             !.requestHeaders = <<RequestFilter("override", XA, U(r.id, "req")),
                                  RequestFilter("add", Name("host"), U(r.id, "host"))>>] :
     a \in {"add", "override", "replace", "default", "remove"}, vs \in {Now, Waits}}

Logs(r) == {[r EXCEPT !.log = {l}, !.peer = {r.id}] : l \in BOOLEAN}

Plainly(r) == Redirects(r) \cup {[r EXCEPT !.status = 200]} \cup Logs(r)

Many(id) ==
  LET r == Silent(id) IN
  Sets(r) \cup Plainly(r)
    \cup UNION {{On404(x), Not404(x)} : x \in Logs(r) \cup {[r EXCEPT !.status = 200]}}
    \cup {Not404(x) : x \in Redirects(r)} \cup {On404(x) : x \in Sets(r)}
    \cup {[r EXCEPT !.reset = TRUE], [[r EXCEPT !.status = 410] EXCEPT !.stop = TRUE]}

(* In the middle, and at the end of three, fewer.                          *)
Some(id) ==
  LET r == Silent(id) IN
  {[r EXCEPT !.status = 201], On404([r EXCEPT !.status = 201]), Not404([r EXCEPT !.log = {TRUE}]),
   On404([r EXCEPT !.log = {FALSE}]), [r EXCEPT !.reset = TRUE], [r EXCEPT !.stop = TRUE]}
    \cup {x \in Sets(r) : x.headers[1].action \in {"add", "remove", "override"}}

----------------------------------------------------------------------------
(* One rule, for its body filters: the variables are of the body, or have  *)
(* the word that the marker captured.                                      *)

V == <<"v">>
VA == <<"v", "a">>
BodyVariablesOf ==
  {<<[Variable("html", V, <<"i">>, {<<Word("d")>>}) EXCEPT !.transformers = TRUE],
     [Variable("marker", VA, <<"m">>, {}) EXCEPT !.transformers = FALSE]>>,
   <<[Variable("marker", V, <<"m">>, {}) EXCEPT !.transformers = FALSE],
     [Variable("html", VA, <<"b">>, {}) EXCEPT !.transformers = FALSE]>>,
   <<[Variable("request", <<"a">>, "agent", {}) EXCEPT !.transformers = FALSE]>>}

BodyRule(fs, vs) ==
  [Silent(0) EXCEPT !.bodies = fs, !.variables = vs, !.captured = [n \in {<<"m">>} |-> <<Y>>]]

Coding(fs) == fs = <<>> \/ (Len(fs) = 1 /\ fs[1] \in Texts \cup {Markdown, OnB("after", "h")})

Answering(body_, type, encoding) ==
  [code |-> 200, body |-> body_,
   headers |-> [k \in DOMAIN type |-> Header(Name("content-type"), <<Word(type[k])>>)]
                \o [k \in DOMAIN encoding |-> Header(Name("content-encoding"), <<Word(encoding[k])>>)]]

HtmlType == <<"text/html">>

BodiesFor(fs) ==
  {Answering(doc, HtmlType, <<>>) : doc \in Docs}
  \cup {Answering(Whole1, t, <<>>) : t \in {<<>>, <<"text/plain">>, <<"image/png">>}}
  \cup (IF ~ Coding(fs) THEN {}
        ELSE {Answering(i, HtmlType, <<e>>) :
                e \in {"gzip", "br", "deflate", "zstd"},
                i \in {Ok(Nested), Coded(Nested), Ok(<<X, Odd("out"), Y>>), Coded(<<X, Odd("out"), Y>>), <<Zipped(X), <<"bad", "">>, Zipped(Y), Trailer>>,
                       <<X, Y>>, Ok(<<X>>) \o <<Zipped(Y)>>, <<>>}})

----------------------------------------------------------------------------

MCChosen ==
  {<<BodyRule(fs, vs)>> : fs \in Lists, vs \in BodyVariablesOf} \cup
  {<<>>} \cup {<<a>> : a \in Many(1)} \cup {<<a, b>> : a \in Many(1), b \in Many(2)}
    \cup {<<a, b, c>> : a \in Some(1), b \in Some(2), c \in Some(3)}

MCBackend(rs) ==
  IF rs # <<>> /\ rs[1].id = 0 THEN BodiesFor(rs[1].bodies) ELSE
  {[code |-> 200, headers |-> <<Header(XA, <<Word("one")>>), Header(XA, <<Word("two")>>),
                                Header(Type, <<Word("text/html")>>)>>, body |-> Tagged("b", <<Y>>)],
   [code |-> 404, headers |-> <<>>, body |-> <<X>>],
   [code |-> 200, headers |-> <<Header(Type, <<Word("text/html")>>), Header(Encoding, <<Word("gzip")>>)>>,
    body |-> Ok(Tagged("b", <<>>))]}

(* Each unit is a word of its own, so that a value is known by it.         *)
ASSUME LabelsAssumption == \A rs \in Chosen : UnitsAreLabels(rs)

MCLocation == Loc
MCType == Type
MCEncoding == Encoding
=============================================================================
