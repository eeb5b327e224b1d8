------------------------------ MODULE Variables ------------------------------
(***************************************************************************)
(* The variables of engine rules and how texts refer to them: api/         *)
(* variable.rs, StaticOrDynamic of marker/mod.rs, LogTags.                 *)
(*                                                                         *)
(* A text is a sequence of tokens <<kind, what>>: words, and references    *)
(* "@name".  A name is a sequence of letters, for one may be the beginning *)
(* of another.  An Option is a set: {} for None, {x} for Some(x).          *)
(***************************************************************************)
EXTENDS Naturals, SequencesExt

Word(w) == <<"text", w>>
Ref(name) == <<"ref", name>>

IsSequence(s) == s \in Seq(Range(s))

IsText(t) == IsSequence(t) /\ \A k \in DOMAIN t : t[k][1] = "ref" => IsSequence(t[k][2])

(* What the transformers of a variable leave on its value, each time they  *)
(* are applied.                                                            *)
Transformed(transformers, text) ==
  IF transformers THEN <<Word("T")>> \o text ELSE text

----------------------------------------------------------------------------
(* VariableValue                                                           *)

Value(text) == [kind |-> "value", text |-> text]

(* HtmlFilter and ResponseHeader, told apart by kind.                      *)
Deferred(kind, from, default, transformers) ==
  [kind |-> kind, from |-> from, default |-> default, transformers |-> transformers]

ToStatic(v, text) ==
  Value(IF v.kind = "value" THEN text ELSE Transformed(v.transformers, text))

OrEmpty(option) == IF option = {} THEN <<>> ELSE CHOOSE text \in option : TRUE

(* Variable::get_value for a variable of a marker, of the request, of a    *)
(* response header or of the body.                                         *)
GetValue(variable, captured, request) ==
  CASE variable.kind \in {"html", "header"} ->
         Deferred(variable.kind, variable.from, variable.default, variable.transformers)
    [] variable.kind = "marker" ->
         Value(Transformed(variable.transformers,
                 IF variable.from \in DOMAIN captured THEN captured[variable.from]
                                                      ELSE <<>>))
    [] variable.kind = "request" ->
         Value(Transformed(variable.transformers,
                 OrEmpty(IF request[variable.from] = {} THEN variable.default
                                                        ELSE request[variable.from])))

(* Among variables with longer names first, behind those of its length.    *)
InsertByLength(variables, v) ==
  InsertAt(variables, Cardinality({k \in DOMAIN variables : Len(variables[k][1]) >= Len(v[1])}) + 1, v)

(* Longer names first; the sort is stable.                                 *)
ByLength(variables) ==
  LET sorted[n \in 0..Len(variables)] ==
        IF n = 0 THEN <<>> ELSE InsertByLength(sorted[n - 1], variables[n])
  IN sorted[Len(variables)]

(* Rule::variables; without any the markers are variables.                 *)
RuleVariables(rule, captured, request) ==
  ByLength(IF rule.variables = <<>>
           THEN SetToSeq({<<m, Value(captured[m])>> : m \in DOMAIN captured})
           ELSE [k \in DOMAIN rule.variables |->
                   <<rule.variables[k].name,
                     GetValue(rule.variables[k], captured, request)>>])

----------------------------------------------------------------------------

(* Names of headers are pairs of the name in lower case and its spelling.  *)
SameHeader(name, other) == name[1] = other[1]

(* The values of a header, joined by commas.                               *)
Joined(headers, name) ==
  FlattenSeq([k \in DOMAIN headers |->
    IF ~ SameHeader(headers[k].name, name) THEN <<>>
    ELSE IF \A j \in 1..(k - 1) : ~ SameHeader(headers[j].name, name) THEN headers[k].value
    ELSE <<Word(",")>> \o headers[k].value])

(* VariableValue::resolve_response_headers                                 *)
ResolveResponseHeaders(variables, headers) ==
  [k \in DOMAIN variables |->
     LET v == variables[k][2] IN
       <<variables[k][1],
         IF v.kind # "header" THEN v
         ELSE ToStatic(v, IF \E j \in DOMAIN headers : SameHeader(headers[j].name, v.from)
                          THEN Joined(headers, v.from) ELSE OrEmpty(v.default))>>]

----------------------------------------------------------------------------
(* StaticOrDynamic::replace                                                *)

(* What stands for the variable, if anything does yet.                     *)
Replacement(v, useDefault) ==
  IF v.kind = "value" THEN {v.text}
  ELSE IF v.kind = "html" /\ useDefault THEN v.default ELSE {}

(* The token, once "@name" has been replaced in it by the text: also where *)
(* a longer name begins with this one.                                     *)
ReplacedIn(token, name, text) ==
  IF token[1] = "ref" /\ IsPrefix(name, token[2])
  THEN text \o [k \in 1..(Len(token[2]) - Len(name)) |-> Word(token[2][Len(name) + k])]
  ELSE <<token>>

ReplaceOne(text, name, by) ==
  FlattenSeq([k \in DOMAIN text |-> ReplacedIn(text[k], name, by)])

ReplaceVariable(text, variable, useDefault) ==
  LET by == Replacement(variable[2], useDefault)
  IN IF by = {} THEN text ELSE ReplaceOne(text, variable[1], OrEmpty(by))

Replace(text, variables, useDefault) ==
  LET after[n \in 0..Len(variables)] ==
        IF n = 0 THEN text ELSE ReplaceVariable(after[n - 1], variables[n], useDefault)
  IN after[Len(variables)]

----------------------------------------------------------------------------
(* LogTags                                                                 *)

RefersTo(text, name) ==
  \E k \in DOMAIN text : text[k][1] = "ref" /\ IsPrefix(name, text[k][2])

(* replace_variables: none for a tag with a variable without a value.      *)
ReplaceInTag(tag, variables) ==
  FoldLeft(LAMBDA t, variable :
             LET v == variable[2]
                 by == IF v.kind = "value" THEN v.text ELSE OrEmpty(v.default)
             IN {ReplaceOne(x, variable[1], by) :
                   x \in {x \in t : RefersTo(x, variable[1]) => by # <<>>}}
                \cup {x \in t : ~ RefersTo(x, variable[1])},
           {tag}, variables)

(* LogTags::resolve, of which the normalisation is left out.               *)
ResolveTags(tags, variables) ==
  {tag \in UNION {ReplaceInTag(t, variables) : t \in tags} :
     tag # <<>> /\ \A k \in DOMAIN tag : tag[k][1] # "ref"}

============================================================================
