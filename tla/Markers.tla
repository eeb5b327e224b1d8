------------------------------ MODULE Markers ------------------------------
(***************************************************************************)
(* The markers of a rule, from the @name in its source to the @name in its *)
(* target: MarkerString makes two regexes of a source (marker/mod.rs), one *)
(* to find and one to capture; Route::capture collects what the markers    *)
(* matched (router/route.rs); Rule::variables transforms it (api/rule.rs,  *)
(* marker/transformer), and Variables puts it into the target.             *)
(*                                                                         *)
(* Texts are those of Variables.  A marker has the words of its regex, in  *)
(* the order in which the regex tries them; the regex crate is external.   *)
(* A regex is not percent-encoded here, and the three flags for the case   *)
(* of hosts, paths and headers are one, ignoring.                          *)
(***************************************************************************)
EXTENDS Texts, Naturals, FiniteSets
LOCAL INSTANCE Variables
LOCAL INSTANCE FiniteSetsExt
LOCAL INSTANCE TLC

CONSTANTS
  Marked,   \* the rules: path, host, headers, markers, variables, target
  Calling,  \* the requests: path, host, headers
  WideChar  \* the characters of two bytes; all others have one

VARIABLES
  marked,    \* the rule
  calling,   \* the request, as rebuild_with_config has left it
  ignoring,  \* whether the configuration ignores the case
  marking,   \* what is done: asked, met, missed, captured, written, panicked
  captured,  \* what Route::capture has returned
  target     \* the target with its variables in place

markersVars == <<marked, calling, ignoring, marking, captured, target>>

----------------------------------------------------------------------------
(* Two regexes of a source                                                 *)

LowerToken(t) == IF t[1] = "text" THEN Word(LowerChar(t[2])) ELSE t

LowerText(text) == [k \in DOMAIN text |-> LowerToken(text[k])]

FoldedText(text, ignoreCase) == IF ignoreCase THEN LowerText(text) ELSE text

Alike(a, b, ignoreCase) == FoldedText(a, ignoreCase) = FoldedText(b, ignoreCase)

Group(m) == <<"group", m>>

(* The name of a marker is replaced in the whole of the regex, those of    *)
(* the markers that are in it already included.                            *)
RECURSIVE ReplaceName(_, _)
ReplaceName(pattern, m) ==
  LET inside == [k \in DOMAIN pattern |->
                   IF pattern[k][1] # "group" THEN pattern[k]
                   ELSE Group([pattern[k][2] EXCEPT
                                 !.words = [j \in DOMAIN @ |-> ReplaceName(@[j], m)]])]
  IN ReplaceOne(inside, m.name, <<Group(m)>>)

(* A mutant: the markers in the order of the rule.                         *)
PatternUnsorted(source, markers) == FoldLeft(ReplaceName, source, markers)

(* MarkerString::new: longer names first.  Where no group has come in,     *)
(* there is no MarkerString.                                               *)
Pattern(source, markers) ==
  FoldLeft(ReplaceName, source, SortSeq(markers, LAMBDA a, b : Len(a.name) > Len(b.name)))

IsDynamic(pattern) == \E k \in DOMAIN pattern : pattern[k][1] = "group"

(* The names of its groups and of the groups in their regexes.             *)
RECURSIVE GroupNames(_)
GroupNames(pattern) ==
  FlattenSeq([k \in DOMAIN pattern |->
    IF pattern[k][1] # "group" THEN <<>>
    ELSE <<pattern[k][2].name>>
           \o FlattenSeq([j \in DOMAIN pattern[k][2].words |-> GroupNames(pattern[k][2].words[j])])])

(* The capturing regex names its groups, and no two may have one name: it  *)
(* does not compile, and the error is only logged.                         *)
NamesOnce(pattern) == IsInjective(GroupNames(pattern))

(* Where a group ends that began where text was left to be matched.        *)
End(m, text) == <<"end", m.name, text>>

(* The first way in which the regex matches all of the text: an Option of  *)
(* the groups that take part, with what they take.                         *)
RECURSIVE Way(_, _, _)
Way(pattern, text, ignoreCase) ==
  LET token == Head(pattern)
      rest(left) == Way(Tail(pattern), left, ignoreCase)
      taken == [name |-> token[2], text |-> SubSeq(token[3], 1, Len(token[3]) - Len(text))]
      trying(word) == Way(word \o <<End(token[2], text)>> \o Tail(pattern), text, ignoreCase)
      words == token[2].words
      fits == {k \in DOMAIN words : trying(words[k]) # {}}
  IN CASE pattern = <<>> -> IF text = <<>> THEN { <<>> } ELSE {}
       [] pattern # <<>> /\ token[1] = "group" ->
            IF fits = {} THEN {} ELSE trying(words[Min(fits)])
       [] pattern # <<>> /\ token[1] = "end" -> {<<taken>> \o w : w \in rest(text)}
       [] OTHER -> IF text # <<>> /\ Alike(<<token>>, <<Head(text)>>, ignoreCase)
                   THEN rest(Tail(text)) ELSE {}

(* StaticOrDynamic in the matchers of hosts and paths.                     *)
IsMet(source, markers, text, ignoreCase) ==
  LET pattern == Pattern(source, markers)
  IN IF IsDynamic(pattern) THEN Way(pattern, text, ignoreCase) # {}
     ELSE Alike(pattern, text, ignoreCase)

(* ValueCondition::MatchRegex: the regex is looked for in the value, under *)
(* any spelling of the header's name.  A value without a marker makes no   *)
(* condition.                                                              *)
IsHeaderMet(h, markers, q, ignoreCase) ==
  LET pattern == Pattern(h.value, markers)
  IN IsDynamic(pattern) =>
       \E g \in Range(q.headers) :
          /\ Lower(g.name) = Lower(h.name)
          /\ \E text \in SubSeqs(g.value) : Way(pattern, text, ignoreCase) # {}

(* The Router finds the rule, as far as its markers decide.                *)
IsFound(r, q, ignoreCase) ==
  /\ IsMet(r.path, r.markers, q.path, ignoreCase)
  /\ \A source \in r.host :
       \E name \in q.host : IsMet(source, r.markers, name, ignoreCase)
  /\ \A h \in Range(r.headers) : IsHeaderMet(h, r.markers, q, ignoreCase)

----------------------------------------------------------------------------
(* What the markers have matched                                           *)

NoCaptures == [n \in {} |-> <<>>]

(* MarkerString::capture: by name, the groups that have taken part.        *)
Captures(source, markers, text, ignoreCase) ==
  LET pattern == Pattern(source, markers)
      ways == IF NamesOnce(pattern) THEN Way(pattern, text, ignoreCase) ELSE {}
      taken == UNION {Range(w) : w \in ways}
  IN [n \in {g.name : g \in taken} |-> (CHOOSE g \in taken : g.name = n).text]

(* HashMap::extend: the new value of a key replaces the old.               *)
Extended(old, new) == new @@ old

(* The headers whose name is spelled as the rule spells it, the whole of   *)
(* their values.                                                           *)
HeaderCaptures(r, q, ignoreCase) ==
  FoldLeft(LAMBDA s, h :
             FoldLeft(LAMBDA t, g :
                        IF g.name # h.name THEN t
                        ELSE Extended(t, Captures(h.value, r.markers, g.value, ignoreCase)),
                      s, q.headers),
           NoCaptures, r.headers)

HostCaptures(r, q, ignoreCase) ==
  IF r.host = {} \/ q.host = {} THEN NoCaptures
  ELSE Captures(OrEmpty(r.host), r.markers, OrEmpty(q.host), ignoreCase)

(* Route::capture                                                          *)
RouteCaptures(r, q, ignoreCase) ==
  Extended(Extended(Captures(r.path, r.markers, q.path, ignoreCase),
                    HostCaptures(r, q, ignoreCase)),
           HeaderCaptures(r, q, ignoreCase))

----------------------------------------------------------------------------
(* The transformers, each with an Option of a text: {} is a panic.         *)

(* No text that is sliced has a reference in it.                           *)
Bytes(text) == Len(text) + Cardinality({k \in DOMAIN text : text[k][2] \in WideChar})

(* Slice: bytes, which have to be whole characters.                        *)
Sliced(t, text) ==
  LET to == IF t.to = {} THEN Bytes(text) ELSE Min(t.to \cup {Bytes(text)})
      before(n) == {k \in 0..Len(text) : Bytes(SubSeq(text, 1, k)) = n}
  IN IF t.from > Bytes(text) THEN { <<>> }
     ELSE {SubSeq(text, i + 1, j) : <<i, j>> \in {p \in before(t.from) \X before(to) : p[1] <= p[2]}}

UpperChar(c) ==
  IF \E d \in DOMAIN LowerOf : LowerOf[d] = c THEN CHOOSE d \in DOMAIN LowerOf : LowerOf[d] = c
  ELSE c

(* Transformer::to_transform; those of the heck crate are left out.  One   *)
(* that is unknown or lacks its options changes nothing.                   *)
TransformedBy(t, text) ==
  CASE t.type = "slice" -> Sliced(t, text)
    [] t.type = "replace" ->
         {FlattenSeq([k \in DOMAIN text |-> IF text[k] = t.something THEN t.with ELSE <<text[k]>>])}
    [] t.type = "lowercase" -> {LowerText(text)}
    [] t.type = "uppercase" ->
         {[k \in DOMAIN text |-> IF text[k][1] = "text" THEN Word(UpperChar(text[k][2])) ELSE text[k]]}
    [] t.type = "unknown" -> {text}

(* Marker::transform                                                       *)
MarkerTransform(m, text) ==
  FoldLeft(LAMBDA s, t : UNION {TransformedBy(t, x) : x \in s}, {text}, m.transformers)

(* The input of Rule::variables: for each marker an Option of its text.    *)
Inputs(r, captures) ==
  [n \in DOMAIN captures |->
     MarkerTransform(CHOOSE m \in Range(r.markers) : m.name = n, captures[n])]

----------------------------------------------------------------------------

MarkersInit ==
  /\ marked \in Marked /\ ignoring \in BOOLEAN
  /\ \E q \in Calling :
       calling = [q EXCEPT !.host = {FoldedText(t, ignoring) : t \in @},
                           !.headers = [k \in DOMAIN @ |->
                              [@[k] EXCEPT !.value = FoldedText(@, ignoring)]]]
  /\ marking = "asked" /\ captured = NoCaptures /\ target = {}

FindMarked ==
  /\ marking = "asked"
  /\ marking' = IF IsFound(marked, calling, ignoring) THEN "met" ELSE "missed"
  /\ UNCHANGED <<marked, calling, ignoring, captured, target>>

CaptureMarkers ==
  /\ marking = "met" /\ marking' = "captured"
  /\ captured' = RouteCaptures(marked, calling, ignoring)
  /\ UNCHANGED <<marked, calling, ignoring, target>>

(* Action::from_route_rule, of which the target is looked at here.         *)
WriteTarget ==
  /\ marking = "captured"
  /\ \E inputs \in {Inputs(marked, captured)} :
       IF \E n \in DOMAIN inputs : inputs[n] = {}
       THEN marking' = "panicked" /\ target' = {}
       ELSE /\ marking' = "written"
            /\ target' = {Replace(marked.target,
                                  RuleVariables(marked, [n \in DOMAIN inputs |-> OrEmpty(inputs[n])],
                                                calling), TRUE)}
  /\ UNCHANGED <<marked, calling, ignoring, captured>>

MarkersNext == FindMarked \/ CaptureMarkers \/ WriteTarget

MarkersSpec == MarkersInit /\ [][MarkersNext]_markersVars

----------------------------------------------------------------------------
(* Properties.                                                             *)

(* The names of markers in a text: of two that begin it, the longer.       *)
NamesIn(text, markers) ==
  {Head(SortSeq(SelectSeq(markers, LAMBDA m : IsPrefix(m.name, t[2])),
                LAMBDA a, b : Len(a.name) > Len(b.name))).name :
     t \in {u \in Range(text) :
              u[1] = "ref" /\ \E m \in Range(markers) : IsPrefix(m.name, u[2])}}

Sources(r) == {r.path} \cup r.host \cup {h.value : h \in Range(r.headers)}

(* A source that has a marker twice, be it in the regex of another.        *)
Repeats(r) == \E s \in Sources(r) : ~ NamesOnce(Pattern(s, r.markers))

(* A marker of the path that another source has, too, and may have matched *)
(* something else.                                                         *)
IsShared(r) ==
  \E s \in r.host \cup {h.value : h \in Range(r.headers)} :
     Range(GroupNames(Pattern(s, r.markers)))
       \cap Range(GroupNames(Pattern(r.path, r.markers))) # {}

(* What was captured has itself an "@name" in it.                          *)
Speaks == \E n \in DOMAIN captured : \E t \in Range(captured[n]) : t[1] = "ref"

(* A header is looked for in any spelling of its name and anywhere in its  *)
(* value, but captured only as the rule spells it, and as a whole.         *)
HeaderFits(h) ==
  \E g \in Range(calling.headers) :
     g.name = h.name /\ Way(Pattern(h.value, marked.markers), g.value, ignoring) # {}

Fitting(r) == {r.path} \cup r.host \cup {h.value : h \in {g \in Range(r.headers) : HeaderFits(g)}}

IsPlain(r) ==
  /\ r.target = r.path /\ r.variables = <<>>
  /\ \A m \in Range(r.markers) : m.transformers = <<>>

(* What a rule is found by is captured, though with another regex, unless  *)
(* that has a name twice: each marker of its path, its host and its        *)
(* headers, as far as these fit, has a text; and a target that reads like  *)
(* the path of the rule leads to the path that was asked, however the      *)
(* names of markers begin one another or their regexes hold one another.   *)
FoundLeadsBack ==
  marking \in {"captured", "written"} /\ ~ Repeats(marked) =>
    /\ \A s \in Fitting(marked) : NamesIn(s, marked.markers) \subseteq DOMAIN captured
    /\ IsPlain(marked) /\ ~ IsShared(marked) /\ ~ Speaks =>
         \A t \in target : Alike(t, calling.path, ignoring)
============================================================================
