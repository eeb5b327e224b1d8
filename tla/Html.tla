-------------------------------- MODULE Html --------------------------------
(***************************************************************************)
(* The visitors of an HTML body (filter/html_body_action), run by the      *)
(* streaming rewriter of lol_html, which is external: it calls a visitor   *)
(* at the start tags that its selector matches, at end tags, and for text. *)
(*                                                                         *)
(* A start tag comes in two tokens, lt and gt, for a chunk may end within  *)
(* it.  A selector is the name of an element.  Elements are well nested,   *)
(* and none that a visitor matches is within one that it removes.          *)
(*                                                                         *)
(* Markup that could be read in two ways is <<"odd", what>>: a rewriter    *)
(* that is strict refuses it, and is broken from then on.  Of the chunk    *)
(* with it, what comes before has been let out already, or is lost too.    *)
(***************************************************************************)
EXTENDS Variables

Lt(e) == <<"lt", e>>
Gt(e) == <<"gt", e>>
Close(e) == <<"close", e>>
Odd(what) == <<"odd", what>>  \* what: what comes before is "out", or "lost"

(* A visitor and where its rewriter is: the part of a tag that is held     *)
(* back, the elements that are open, whether the ignored element was seen, *)
(* for BodyCapture the text of each variable, and whether it is broken.  A *)
(* selector that does not parse is {}: into_handlers then sets no handler. *)
Visitor(do, selector, ignore, content, unit) ==
  [kind |-> "html", do |-> do, selector |-> selector, ignore |-> ignore,
   content |-> content, unit |-> unit, captures |-> {},
   held |-> <<>>, open |-> <<>>, seen |-> FALSE, text |-> <<>>, inText |-> FALSE,
   broken |-> FALSE]

(* CaptureRegistry::selectors, of the variables that are of the body.      *)
BodyVariables(registry) == {n \in DOMAIN registry : registry[n].kind = "html"}

Capture(registry) ==
  [Visitor("capture", {}, {}, <<>>, {}) EXCEPT
     !.captures = {<<registry[n].from, n>> : n \in BodyVariables(registry)},
     !.text = [n \in BodyVariables(registry) |-> <<>>]]

(* build_css_selector of a tree of elements and an Option of a selector,   *)
(* which the tree's last element may begin.  Without a tree left to put    *)
(* before it, "> selector" does not parse.                                 *)
WithoutLast(tree, css) ==
  IF css # {} /\ tree # <<>> /\ IsPrefix(<<Last(tree)>>, OrEmpty(css)) THEN Front(tree) ELSE tree

Joining(tree, css) == IF tree = <<>> THEN {} ELSE {tree \o css}

LegacySelector(tree, css) ==
  IF css = {} \/ tree = <<>> THEN (IF css = {} THEN Joining(tree, <<>>) ELSE css)
  ELSE Joining(WithoutLast(tree, css), OrEmpty(css))

(* build_append_css_selector: the element, and what it must not hold.      *)
LegacyIgnore(tree, css) ==
  IF css = {} THEN {} ELSE Joining(WithoutLast(tree, css), OrEmpty(css))

LegacyBase(tree, css) ==
  IF css # {} /\ LegacyIgnore(tree, css) = {} THEN {} ELSE Joining(WithoutLast(tree, css), <<>>)

(* HtmlBodyVisitor::new                                                    *)
FilterVisitor(f) ==
  IF ~ f.legacy THEN Visitor(f.do, f.selector, f.ignore, f.content, f.unit)
  ELSE IF f.do = "append"
       THEN Visitor(f.do, LegacyBase(f.tree, f.selector), LegacyIgnore(f.tree, f.selector),
                    f.content, f.unit)
       ELSE Visitor(f.do, LegacySelector(f.tree, f.selector), {}, f.content, f.unit)

(* CaptureRegistry::replace                                                *)
Substituted(text, registry) ==
  Replace(text, ByLength(SetToSeq({<<n, registry[n]>> : n \in DOMAIN registry})), TRUE)

Dropping(h) == \E k \in DOMAIN h.open : h.open[k].drop

(* The names of the open elements, from the root down.                     *)
Path(h) == [k \in DOMAIN h.open |-> h.open[k].element]

(* The selector matches the element e that is opened now.                  *)
Matches(selector, h, e) == \E s \in selector : IsSuffix(s, Append(Path(h), e))

Within(h, n) ==
  \E c \in h.captures : c[2] = n /\ \E k \in DOMAIN h.open : IsSuffix(c[1], SubSeq(Path(h), 1, k))

----------------------------------------------------------------------------
(* One token: the visitor after it, what the rewriter lets out, the        *)
(* registry and the units that were applied.                               *)

Step(h, out, registry, units) == [item |-> h, out |-> out, registry |-> registry, units |-> units]

(* BodyCapture: the text node is over, set_variable.                       *)
EndOfText(h, registry) ==
  [n \in DOMAIN registry |->
     IF h.inText /\ n \in DOMAIN h.text /\ Within(h, n)
     THEN ToStatic(registry[n], h.text[n]) ELSE registry[n]]

NoText(h) == [h EXCEPT !.inText = FALSE, !.text = [n \in DOMAIN h.text |-> <<>>]]

(* What an element handler asks of the rewriter: content around the start  *)
(* tag, at the end tag and after it, and the element to be dropped.        *)
AsksNothing == [before |-> <<>>, inside |-> <<>>, drop |-> FALSE,
                last |-> <<>>, unless |-> <<>>, after |-> <<>>, units |-> {}]

BodyAfter(h, registry) ==
  [AsksNothing EXCEPT !.after = Substituted(h.content, registry), !.units = h.unit]

BodyBefore(h, registry) ==
  [AsksNothing EXCEPT !.before = Substituted(h.content, registry), !.units = h.unit]

BodyPrepend(h, registry) ==
  [AsksNothing EXCEPT !.inside = Substituted(h.content, registry), !.units = h.unit]

BodyReplace(h, registry) ==
  [AsksNothing EXCEPT !.before = Substituted(h.content, registry), !.drop = TRUE, !.units = h.unit]

BodyRemove(h) == [AsksNothing EXCEPT !.drop = TRUE, !.units = h.unit]

(* An append that is to be ignored looks for the other element only at the *)
(* end tag, and its content is not substituted.                            *)
BodyAppend(h, registry) ==
  IF h.ignore = {}
  THEN [AsksNothing EXCEPT !.last = Substituted(h.content, registry), !.units = h.unit]
  ELSE [AsksNothing EXCEPT !.unless = h.content]

(* HtmlBodyVisitor::into_handlers                                          *)
Handler(h, registry) ==
  CASE h.do = "after"   -> BodyAfter(h, registry)
    [] h.do = "before"  -> BodyBefore(h, registry)
    [] h.do = "prepend" -> BodyPrepend(h, registry)
    [] h.do = "replace" -> BodyReplace(h, registry)
    [] h.do = "remove"  -> BodyRemove(h)
    [] h.do = "append"  -> BodyAppend(h, registry)
    [] h.do = "capture" -> AsksNothing

Opened(h, e, tag, registry, asked) ==
  LET element == [element |-> e, drop |-> asked.drop, last |-> asked.last,
                  unless |-> asked.unless, after |-> asked.after]
  IN Step([h EXCEPT !.open = Append(@, element), !.seen = @ \/ Matches(h.ignore, h, e)],
          asked.before \o (IF Dropping(h) \/ asked.drop THEN <<>> ELSE tag) \o asked.inside,
          registry, asked.units)

(* A start tag calls the handler of the visitor whose selector matches.    *)
StartTag(h, e, tag, registry) ==
  Opened(h, e, tag, registry,
         IF Matches(h.selector, h, e) /\ ~ Dropping(h) THEN Handler(h, registry) ELSE AsksNothing)

(* The end tag handler of BodyAppend, and what was asked of the rewriter.  *)
EndTag(h, tag, registry) ==
  LET top == Last(h.open)
      late == IF h.seen THEN <<>> ELSE top.unless
  IN Step([h EXCEPT !.open = Front(@)],
          IF Dropping(h) THEN top.after ELSE top.last \o late \o tag \o top.after,
          registry,
          IF late # <<>> THEN h.unit ELSE {})

(* Text, and any other token that is no tag.                               *)
TextToken(h, token, registry) ==
  Step([h EXCEPT !.inText = TRUE,
                 !.text = [n \in DOMAIN @ |-> IF Within(h, n) THEN Append(@[n], token) ELSE @[n]]],
       IF Dropping(h) THEN <<>> ELSE <<token>>, registry, {})

(* What follows the beginning of a tag is of the tag until that ends.      *)
RewriteToken(h, token, registry) ==
  CASE h.held # <<>> /\ token[1] # "gt" ->
         Step([h EXCEPT !.held = Append(@, token)], <<>>, registry, {})
    [] h.held = <<>> /\ token[1] = "lt" ->
         Step([NoText(h) EXCEPT !.held = <<token>>], <<>>, EndOfText(h, registry), {})
    [] token[1] = "gt" -> StartTag([h EXCEPT !.held = <<>>], token[2], h.held \o <<token>>, registry)
    [] h.held = <<>> /\ token[1] = "close" /\ h.open # <<>> ->
         EndTag(NoText(h), <<token>>, EndOfText(h, registry))
    [] OTHER -> TextToken(h, token, registry)

----------------------------------------------------------------------------

IsOdd(token) == token[1] = "odd"

(* The write returns an error: filter logs it and goes on with what the    *)
(* rewriter let out, so that the rest of the chunk is lost.                *)
Broken(s, token) ==
  [s EXCEPT !.item = [@ EXCEPT !.broken = TRUE],
            !.out = IF token[2] = "lost" THEN <<>> ELSE @]

RewriteNext(s, token) ==
  LET next == RewriteToken(s.item, token, s.registry) IN
  IF s.item.broken THEN s
  ELSE IF s.item.held = <<>> /\ IsOdd(token) THEN Broken(s, token)
  ELSE [next EXCEPT !.out = s.out \o @, !.units = s.units \cup @]

(* HtmlFilterBodyAction::filter.  A rewriter that is broken panics instead *)
(* when it is asked again, here and at the end.                            *)
Rewrite(h, data, registry) ==
  LET after[n \in 0..Len(data)] ==
        IF n = 0 THEN Step(h, <<>>, registry, {}) ELSE RewriteNext(after[n - 1], data[n])
  IN after[Len(data)]

Panics(h) == h.broken

RefusesHeld(h) == \E k \in DOMAIN h.held : IsOdd(h.held[k])

(* HtmlFilterBodyAction::end: the last text node ends, a tag that was held *)
(* back comes out as it is.  If the rewriter refuses to end, the error is  *)
(* logged and what it held is lost.                                        *)
EndRewrite(h, registry) ==
  Step(h, IF Dropping(h) \/ RefusesHeld(h) THEN <<>> ELSE h.held, EndOfText(h, registry), {})

============================================================================
