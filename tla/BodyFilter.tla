----------------------------- MODULE BodyFilter -----------------------------
(***************************************************************************)
(* FilterBodyAction (filter/filter_body.rs): the body of a response goes,  *)
(* in chunks, through a chain of filters, each of which may hold back what *)
(* it was given until the body ends.                                       *)
(*                                                                         *)
(* The codecs are external: a coded body has a token for each token, and   *)
(* one for its trailer.  Markdown is the words without the tags; bytes     *)
(* that are no UTF-8, or that are not converted, are of the kind "raw".    *)
(***************************************************************************)
EXTENDS Html, HeaderFilters, FiniteSetsExt

CONSTANT Binary  \* content types that text cannot be spliced into

Zipped(token) == <<"zip", token>>
Trailer == <<"tail", "">>

Coded(text) == [k \in DOMAIN text |-> Zipped(text[k])]

VARIABLES
  body,     \* what is filtered: filters, contentType, encoding, input, registry
  chain,    \* the items of the chain
  inError,  \* in_error
  registry, \* the captured variables
  trace,    \* the unit trace
  taken,    \* how much of the input has been given to filter
  out,      \* what has come out
  failed,   \* history: what had been taken, and come out, when it failed
  phase,    \* headers, body or end: how far the response is; or panicked
  promise   \* history: what the body is to become

bodyVars == <<body, chain, inError, registry, trace, taken, out, failed, phase, promise>>

----------------------------------------------------------------------------
(* FilterBodyActionItem                                                    *)

IsHtml(contentType) == contentType \subseteq {"text/html"}

(* HtmlBodyVisitor::new: no visitor without a selector.                    *)
NoSelector(f) == f.legacy /\ f.do # "append" /\ f.tree = <<>> /\ f.selector = {}

(* FilterBodyActionItem::new: none for a content it is not for.            *)
Item(f, contentType) ==
  CASE f.type = "text" ->
         IF f.do # "replace" /\ contentType \cap Binary # {} THEN {}
         ELSE {[kind |-> "text", do |-> f.do, content |-> f.content, unit |-> f.unit,
                executed |-> FALSE]}
    [] f.type = "html" ->
         IF IsHtml(contentType) /\ ~ NoSelector(f) THEN {FilterVisitor(f)} ELSE {}
    [] f.type = "markdown" ->
         IF IsHtml(contentType) THEN {[kind |-> "markdown", unit |-> f.unit, data |-> <<>>]} ELSE {}
    [] f.type = "other" -> {}

Items(b) == FlattenSeq([k \in DOMAIN b.filters |-> SetToSeq(Item(b.filters[k], b.contentType))])

Buffer == [kind |-> "buffer", data |-> <<>>]

(* A mutant: the capture without the buffer.                               *)
CapturingAtOnce(b, items) ==
  IF BodyVariables(b.registry) # {} /\ IsHtml(b.contentType)
  THEN <<Capture(b.registry)>> \o items ELSE items

(* Variables of the body are captured, and the body kept, before the rest. *)
Capturing(b, items) ==
  IF BodyVariables(b.registry) # {} /\ IsHtml(b.contentType)
  THEN <<Capture(b.registry), Buffer>> \o items ELSE items

(* FilterBodyAction::new: an unknown encoding empties the chain.           *)
NewChain(b) ==
  LET items == Capturing(b, Items(b)) IN
  IF items = <<>> \/ b.encoding = {} THEN items
  ELSE IF b.encoding \cap {"gzip", "br", "deflate"} # {}
       THEN <<[kind |-> "decode", encoding |-> b.encoding, closed |-> FALSE]>>
              \o items \o <<[kind |-> "encode"]>>
       ELSE <<>>

----------------------------------------------------------------------------
(* One item                                                                *)

(* An item that panics when it is asked again.                             *)
Poisoned(item) == item.kind = "html" /\ Panics(item)

(* The decoder refuses the data, or the end: gzip alone checks its trailer.*)
Refuses(item, data) ==
  /\ item.kind = "decode"
  /\ \/ item.closed
     \/ \E k \in DOMAIN data : data[k][1] # "zip" /\ ~ (data[k] = Trailer /\ k = Len(data))

RefusesEnd(item) ==
  item.kind = "decode" /\ item.encoding = {"gzip"} /\ ~ item.closed

(* HtmlToMarkdownFilter::end: what cannot be converted is given back as it *)
(* is, and the error is logged.                                            *)
Words(text) ==
  IF \E k \in DOMAIN text : text[k][1] = "raw" THEN text
  ELSE FlattenSeq([k \in DOMAIN text |-> IF text[k][1] = "text" THEN <<text[k]>> ELSE <<>>])

Decoded(data) ==
  FlattenSeq([k \in DOMAIN data |-> IF data[k][1] = "zip" THEN <<data[k][2]>> ELSE <<>>])

TextTrace(item, t) ==
  IF item.do = "replace" THEN OverrideUnit(t, "text", item.unit) ELSE AddUnit(t, "text", item.unit)

(* TextFilterBodyAction::filter                                            *)
TextOut(item, data) ==
  CASE item.do = "replace" -> IF item.executed THEN <<>> ELSE item.content
    [] item.do = "append" -> data
    [] item.do = "prepend" -> IF item.executed THEN data ELSE item.content \o data

Traced(units, t) == [applied |-> t.applied \cup {<<u, u>> : u \in units}, seen |-> t.seen \cup units]

Went(item, o, r, t) == [item |-> item, out |-> o, registry |-> r, trace |-> t]

Rewritten(s, t) == Went(s.item, s.out, s.registry, Traced(s.units, t))

(* FilterBodyActionItem::filter                                            *)
Feed(item, data, r, t) ==
  CASE item.kind = "html" -> Rewritten(Rewrite(item, data, r), t)
    [] item.kind = "text" ->
         Went([item EXCEPT !.executed = @ \/ item.do # "append"], TextOut(item, data), r,
              TextTrace(item, t))
    [] item.kind \in {"buffer", "markdown"} ->
         Went([item EXCEPT !.data = @ \o data], <<>>, r, t)
    [] item.kind = "decode" ->
         Went([item EXCEPT !.closed = @ \/ Contains(data, Trailer)], Decoded(data), r, t)
    [] item.kind = "encode" -> Went(item, Coded(data), r, t)

(* FilterBodyActionItem::end                                               *)
Flush(item, r, t) ==
  CASE item.kind = "html" ->
         LET s == EndRewrite(item, r) IN Went(item, s.out, s.registry, t)
    [] item.kind = "text" -> Went(item, IF item.executed THEN <<>> ELSE item.content, r, t)
    [] item.kind = "buffer" -> Went(item, item.data, r, t)
    [] item.kind = "markdown" -> Went(item, Words(item.data), r, OverrideUnit(t, "text", item.unit))
    [] item.kind = "decode" -> Went(item, <<>>, r, t)
    [] item.kind = "encode" -> Went(item, <<Trailer>>, r, t)

----------------------------------------------------------------------------
(* What a chain is for, said of a whole body and without a stream.         *)

(* Where the element that starts at i ends, if it does.                    *)
Ends(doc, i) ==
  {j \in (i + 1)..Len(doc) :
     /\ doc[j][1] = "close"
     /\ \A k \in i..(j - 1) :
          Cardinality({m \in (i + 1)..k : doc[m][1] = "close"})
            <= Cardinality({m \in (i + 1)..k : doc[m][1] = "gt"})
     /\ Cardinality({m \in (i + 1)..j : doc[m][1] = "close"})
          = Cardinality({m \in (i + 1)..j : doc[m][1] = "gt"}) + 1}

Open(doc, k) ==
  LET around == {i \in 1..k : doc[i][1] = "gt" /\ \A j \in Ends(doc, i) : j > k}
  IN [n \in 1..Cardinality(around) |->
        doc[CHOOSE i \in around : Cardinality({j \in around : j <= i}) = n][2]]

Selected(doc, selector) ==
  {i \in DOMAIN doc : doc[i][1] = "gt" /\ \E s \in selector : IsSuffix(s, Open(doc, i))}

IsTag(token) == token[1] \in {"lt", "gt", "close"}

(* The text nodes in the elements of a selector, by their last token.      *)
Nodes(doc, s) ==
  {k \in DOMAIN doc :
     /\ ~ IsTag(doc[k]) /\ (k < Len(doc) => IsTag(doc[k + 1]))
     /\ \E n \in 1..Len(Open(doc, k)) : IsSuffix(s, SubSeq(Open(doc, k), 1, n))}

NodeText(doc, k) ==
  SubSeq(doc, 1 + Max({0} \cup {j \in 1..k : IsTag(doc[j])}), k)

(* Each variable of the body has the text of the last node that its        *)
(* selector meets.                                                         *)
Captured(doc, r) ==
  [n \in DOMAIN r |->
     IF r[n].kind = "html" /\ Nodes(doc, r[n].from) # {}
     THEN ToStatic(r[n], NodeText(doc, Max(Nodes(doc, r[n].from)))) ELSE r[n]]

(* A visitor at each of its elements, from the tag to the end tag.         *)
Visited(h, doc, r) ==
  LET hits == Selected(doc, h.selector)
      last(i) == IF Ends(doc, i) = {} THEN Len(doc) ELSE CHOOSE j \in Ends(doc, i) : TRUE
      dropped == IF h.do \in {"replace", "remove"} THEN UNION {(i - 1)..last(i) : i \in hits} ELSE {}
      at(do, k, S) == IF h.do = do /\ k \in S THEN Substituted(h.content, r) ELSE <<>>
      ends == UNION {Ends(doc, i) : i \in hits}
      ignored(k) == \E i \in Selected(doc, h.ignore) : i < k
  IN FlattenSeq([k \in DOMAIN doc |->
       at("before", k, {i - 1 : i \in hits}) \o at("replace", k, {i - 1 : i \in hits})
         \o (IF h.ignore = {} THEN at("append", k, ends)
             ELSE IF h.do = "append" /\ k \in ends /\ ~ ignored(k) THEN h.content ELSE <<>>)
         \o (IF k \in dropped THEN <<>> ELSE <<doc[k]>>)
         \o at("prepend", k, hits) \o at("after", k, ends)])

(* One filter on the whole of a text.                                      *)
Applied(item, doc, r) ==
  CASE item.kind = "html" -> Visited(item, doc, r)
    [] item.kind = "markdown" -> Words(doc)
    [] item.kind = "text" ->
         CASE item.do = "append" -> doc \o item.content
           [] item.do = "prepend" -> item.content \o doc
           [] item.do = "replace" -> item.content

Whole(b) ==
  LET plain == IF b.encoding = {} THEN b.input ELSE Decoded(b.input)
      r == IF IsHtml(b.contentType) THEN Captured(plain, b.registry) ELSE b.registry
      result == FoldLeft(LAMBDA doc, item : Applied(item, doc, r), plain, Items(b))
  IN IF NewChain(b) = <<>> THEN b.input
     ELSE IF b.encoding = {} THEN result ELSE Append(Coded(result), Trailer)

(* No markup that a rewriter refuses.                                      *)
Clear(b) ==
  \A k \in DOMAIN b.input :
    ~ IsOdd(b.input[k]) /\ (b.input[k][1] = "zip" => ~ IsOdd(b.input[k][2]))

(* The body is what an encoder made of a text, from its beginning to its   *)
(* trailer, or is not encoded.                                             *)
Intact(b) == b.encoding = {} \/ b.input = Append(Coded(Decoded(b.input)), Trailer)

----------------------------------------------------------------------------
(* The chain                                                               *)

Through(items, data, r, t, refused) ==
  [chain |-> items, data |-> data, registry |-> r, trace |-> t, refused |-> refused,
   panicked |-> FALSE]

Passed(s, w) == Through(Append(s.chain, w.item), w.out, w.registry, w.trace, FALSE)

(* do_filter, one item: once an item lets nothing out, those after it are  *)
(* not asked; one that refuses, or panics, ends it.                        *)
FilterItem(s, item) ==
  IF s.panicked \/ s.refused \/ (s.chain # <<>> /\ s.data = <<>>)
  THEN [s EXCEPT !.chain = Append(@, item)]
  ELSE IF Poisoned(item) THEN [s EXCEPT !.chain = Append(@, item), !.panicked = TRUE]
  ELSE IF Refuses(item, s.data) THEN [s EXCEPT !.chain = Append(@, item), !.refused = TRUE]
  ELSE Passed(s, Feed(item, s.data, s.registry, s.trace))

FilterChain(data) ==
  LET after[n \in 0..Len(chain)] ==
        IF n = 0 THEN Through(<<>>, data, registry, trace, FALSE) ELSE FilterItem(after[n - 1], chain[n])
  IN after[Len(chain)]

Ended(s, item, o, last) ==
  Through(<<>>, o \o last.out, last.registry, last.trace, s.refused \/ RefusesEnd(item))

(* An item that is broken, or breaks now, panics at its end, unless one    *)
(* before it has refused.                                                  *)
EndAfter(s, item, w) ==
  [Ended(s, item, w.out, Flush(w.item, w.registry, w.trace)) EXCEPT
     !.panicked = s.panicked \/ (~ s.refused /\ Poisoned(w.item))]

(* do_end, one item: what the items before it let out at their end goes    *)
(* through it before its own end.                                          *)
EndItem(s, item) ==
  EndAfter(s, item, IF s.data = <<>> THEN Went(item, <<>>, s.registry, s.trace)
                    ELSE Feed(item, s.data, s.registry, s.trace))

EndChain ==
  LET after[n \in 0..Len(chain)] ==
        IF n = 0 THEN Through(<<>>, <<>>, registry, trace, FALSE) ELSE EndItem(after[n - 1], chain[n])
  IN after[Len(chain)]

----------------------------------------------------------------------------

NoBody == [filters |-> <<>>, contentType |-> {}, encoding |-> {}, input |-> <<>>,
           registry |-> [n \in {} |-> Value(<<>>)]]

BodyInit ==
  /\ body = NoBody /\ registry = NoBody.registry /\ chain = <<>>
  /\ inError = FALSE /\ trace = NoTrace
  /\ taken = 0 /\ out = <<>> /\ failed = {}
  /\ phase = "headers" /\ promise = <<>>

(* FilterBodyAction::new, once the headers are known.                      *)
Begin(b) ==
  /\ phase = "headers" /\ phase' = "body"
  /\ body' = b /\ registry' = b.registry
  /\ chain' = NewChain(b) /\ promise' = Whole(b)
  /\ UNCHANGED <<inError, trace, taken, out, failed>>

Chunk(n) == SubSeq(body.input, taken + 1, taken + n)

(* A mutant: after an error the filters are tried again.                   *)
FilterRetries(n) ==
  /\ phase = "body" /\ taken + n <= Len(body.input)
  /\ taken' = taken + n
  /\ \E s \in {FilterChain(Chunk(n))} :
       /\ inError' = (inError \/ s.refused)
       /\ out' = out \o (IF s.refused THEN Chunk(n) ELSE s.data)
       /\ chain' = s.chain /\ registry' = s.registry /\ trace' = s.trace
       /\ failed' = IF s.refused /\ ~ inError THEN {<<taken, out>>} ELSE failed
  /\ UNCHANGED <<body, phase, promise>>

(* FilterBodyAction::filter, of a chunk of n bytes: once in error the body *)
(* goes through as it is, from the chunk on that was refused.              *)
Filter(n) ==
  /\ phase = "body" /\ taken + n <= Len(body.input)
  /\ taken' = taken + n
  /\ IF inError
     THEN out' = out \o Chunk(n) /\ UNCHANGED <<chain, registry, trace, inError, failed>>
     ELSE \E s \in {FilterChain(Chunk(n))} :
          /\ ~ s.panicked
          /\ inError' = s.refused
          /\ out' = out \o (IF s.refused THEN Chunk(n) ELSE s.data)
          /\ chain' = s.chain /\ registry' = s.registry /\ trace' = s.trace
          /\ failed' = IF s.refused THEN {<<taken, out>>} ELSE {}
  /\ UNCHANGED <<body, phase, promise>>

(* FilterBodyAction::end: in error, or if an item fails now, nothing more. *)
End ==
  /\ phase = "body" /\ taken = Len(body.input) /\ phase' = "end"
  /\ \E s \in {EndChain} :
       /\ inError \/ ~ s.panicked
       /\ IF inError \/ s.refused
          THEN /\ failed' = IF inError THEN failed ELSE {<<taken, out>>}
               /\ UNCHANGED <<out, registry, trace>>
          ELSE /\ out' = out \o s.data
               /\ registry' = s.registry /\ trace' = s.trace
               /\ UNCHANGED failed
  /\ UNCHANGED <<body, chain, inError, taken, promise>>

(* Either call panics when it comes to an item that is broken: nothing     *)
(* more comes out, and there is no answer.                                 *)
Panic ==
  /\ phase = "body" /\ ~ inError /\ phase' = "panicked"
  /\ \/ \E n \in 1..(Len(body.input) - taken) : FilterChain(Chunk(n)).panicked
     \/ taken = Len(body.input) /\ EndChain.panicked
  /\ UNCHANGED <<body, chain, inError, registry, trace, taken, out, failed, promise>>

----------------------------------------------------------------------------
(* Properties.                                                             *)

BodyTypeOK ==
  /\ inError \in BOOLEAN
  /\ taken \in 0..Len(body.input)
  /\ phase \in {"headers", "body", "end", "panicked"}
  /\ \A k \in DOMAIN chain :
       /\ chain[k].kind \in {"html", "text", "buffer", "markdown", "decode", "encode"}
       /\ chain[k].kind = "decode" <=> k = 1 /\ chain[Len(chain)].kind = "encode"
  /\ DOMAIN registry = DOMAIN body.registry
  /\ UnitsApplied(trace) \subseteq trace.seen

(* However the body is cut into chunks, what comes out is the body with    *)
(* the filters applied to the whole of it, one after the other, with the   *)
(* captured variables in the place of their names; and nothing is let out  *)
(* too early, or held back for good.  A body with markup that a rewriter   *)
(* refuses comes to its end cut off, or never.                             *)
StreamsTheWhole ==
  /\ failed = {} => IF phase = "end" THEN out = promise \/ ~ Clear(body) ELSE IsPrefix(out, promise)
  /\ phase = "panicked" => ~ Clear(body)

(* If the body cannot be decoded, it goes through as it is from the chunk  *)
(* on at which this is noticed, and the filters add nothing to it any more.*)
FailsOpen ==
  \A f \in failed : out = f[2] \o SubSeq(body.input, f[1] + 1, taken)
============================================================================
