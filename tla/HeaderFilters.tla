---------------------------- MODULE HeaderFilters ----------------------------
(***************************************************************************)
(* The filters of headers (filter_header.rs, header_action), and what they *)
(* tell the unit trace (action/unit_trace.rs).                             *)
(*                                                                         *)
(* A trace has the units applied on each target, as pairs <<target, unit>>,*)
(* and those that were ever seen.                                          *)
(***************************************************************************)
EXTENDS Variables

NoTrace == [applied |-> {}, seen |-> {}]

AddUnit(trace, target, unit) ==
  [applied |-> trace.applied \cup {<<target, unit>>}, seen |-> trace.seen \cup {unit}]

(* A mutant: nothing is taken off the target.                              *)
OverrideUnitAdds(trace, target, unit) == AddUnit(trace, target, unit)

OverrideUnit(trace, target, unit) ==
  AddUnit([trace EXCEPT !.applied = {p \in @ : p[1] # target}], target, unit)

(* get_unit_ids_applied, once the targets have been squashed.              *)
UnitsApplied(trace) == {p[2] : p \in trace.applied}

----------------------------------------------------------------------------

Has(headers, name) == \E k \in DOMAIN headers : SameHeader(headers[k].name, name)

Set(f) == [name |-> f.header, value |-> f.value]

Replaced(f, headers) ==
  [k \in DOMAIN headers |->
     IF SameHeader(headers[k].name, f.header) THEN Set(f) ELSE headers[k]]

(* A filter takes the headers and the trace.  Its unit is told when it has *)
(* something to do, and replaces those of its target if it overwrites.     *)
HeaderAdd(f, s) ==
  [headers |-> Append(s.headers, Set(f)), trace |-> AddUnit(s.trace, f.target, f.unit)]

HeaderDefault(f, s) == IF Has(s.headers, f.header) THEN s ELSE HeaderAdd(f, s)

HeaderOverride(f, s) ==
  [headers |-> IF Has(s.headers, f.header) THEN Replaced(f, s.headers)
                                           ELSE Append(s.headers, Set(f)),
   trace   |-> OverrideUnit(s.trace, f.target, f.unit)]

HeaderReplace(f, s) ==
  [headers |-> Replaced(f, s.headers),
   trace   |-> IF Has(s.headers, f.header) THEN OverrideUnit(s.trace, f.target, f.unit)
                                           ELSE s.trace]

HeaderRemove(f, s) ==
  [headers |-> FlattenSeq([k \in DOMAIN s.headers |->
                 IF SameHeader(s.headers[k].name, f.header) THEN <<>> ELSE <<s.headers[k]>>]),
   trace   |-> OverrideUnit(s.trace, f.target, f.unit)]

(* create_header_action                                                    *)
FilterOne(f, s) ==
  CASE f.action = "add"      -> HeaderAdd(f, s)
    [] f.action = "default"  -> HeaderDefault(f, s)
    [] f.action = "override" -> HeaderOverride(f, s)
    [] f.action = "replace"  -> HeaderReplace(f, s)
    [] f.action = "remove"   -> HeaderRemove(f, s)

(* FilterHeaderAction::new drops the filters of unknown actions.           *)
Known(filters) ==
  FlattenSeq([k \in DOMAIN filters |->
    IF filters[k].action \in {"add", "remove", "replace", "override", "default"}
    THEN <<filters[k]>> ELSE <<>>])

(* FilterHeaderAction::filter, of headers and trace.                       *)
FilterAll(filters, headers, trace) ==
  LET known == Known(filters)
      after[n \in 0..Len(known)] ==
        IF n = 0 THEN [headers |-> headers, trace |-> trace] ELSE FilterOne(known[n], after[n - 1])
  IN after[Len(known)]

============================================================================
