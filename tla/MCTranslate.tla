---------------------------- MODULE MCTranslate ----------------------------
(* Editor rules that differ from a plain redirection in one or two of the  *)
(* things the translation looks at, and the requests that tell them apart: *)
(* every tick of nine days, a draw on both sides of each rate, hosts and   *)
(* paths in and out of the form the engine compares.                       *)
EXTENDS Translate

(* A day of two seconds, of three ticks each.                              *)
MCTicksPerSecond == 3
MCTicksPerDay == 6
MCLastDay == 8
MCName == {"h", "h:443", "g", "/x", "/y", "/z?a&b", "/z?b&a"}
MCCanon == [n \in MCName |-> CASE n = "h:443" -> "h"
                               [] n = "/z?b&a" -> "/z?a&b"
                               [] OTHER -> n]
MCMethod == {"GET", "POST"}
MCAsked ==
  [time : {{}} \cup {{t} : t \in 0..(MCTicksPerDay * (MCLastDay + 1))},
   method : MCMethod, host : {"h", "g"}, path : {"/x"}, draw : {1, 60}]
  \cup [time : {{}, {5}}, method : MCMethod, host : {"h", "h:443", "g"},
        path : {"/x", "/y", "/z?a&b", "/z?b&a"}, draw : {1, 60, 61, 100}]

Plain ==
  [id |-> 1, enabled |-> TRUE,
   source |-> [scheme |-> {}, host |-> {}, path |-> "/x"],
   actions |-> << [type |-> "redirection", location |-> {"/new"}, status |-> {}] >>,
   methods |-> {}, exclude_methods |-> {}, features |-> {}, sampling |-> {},
   date |-> {}, datetime |-> {}]

Conditions(values) ==
  [operator : Operator, list : BOOLEAN, values : values]

Dates == Conditions({<<2>>, <<3, 5>>, <<5, 3>>, <<MCLastDay>>, <<3, MCLastDay>>,
                     <<Unreadable>>, <<>>, <<0, 6>>, <<7>>})
(* In whole seconds (9, 12), and with fractions of one.                    *)
Datetimes == Conditions({<<5>>, <<9>>, <<4, 9>>, <<9, 4>>, <<4, 5>>, <<5, 7>>, <<9, 12>>,
                         <<4, Unreadable>>})

SomeDates == {c \in Dates : c.values \in {<<2>>, <<3, 5>>}}
SomeDatetimes == {c \in Datetimes : c.values \in {<<5>>, <<4, 9>>}}

Redirecting(location, status) ==
  [type |-> "redirection", location |-> location, status |-> status]

ActionLists ==
  {<<>>, <<Redirecting({}, {})>>, <<Redirecting({"none"}, {302})>>,
   <<Redirecting({"/new"}, {302})>>,
   <<Redirecting({"/new"}, {0}), Redirecting({"/newer"}, {})>>,
   <<Redirecting({"/new"}, {}), [type |-> "other", location |-> {}, status |-> {}]>>}

Varied ==
  {[Plain EXCEPT !.date = {c}] : c \in Dates}
  \cup {[Plain EXCEPT !.datetime = {c}] : c \in Datetimes}
  \cup {[Plain EXCEPT !.date = {c}, !.datetime = {e}] :
          c \in SomeDates, e \in SomeDatetimes}
  \cup {[Plain EXCEPT !.methods = ms, !.exclude_methods = x, !.sampling = s] :
          ms \in {{}, {{}}, {{"GET"}}, {MCMethod}}, x \in {{}, {TRUE}, {FALSE}},
          s \in {{}, {0}, {60}, {100}, {101}}}
  \cup {[Plain EXCEPT !.source = [scheme |-> s, host |-> h, path |-> p]] :
          s \in {{"http"}, {"https"}}, h \in {{"h"}, {"g"}, {"h:443"}},
          p \in {"/x", "/z?a&b", "/z?b&a"}}
  \cup {[Plain EXCEPT !.source.path = p, !.actions = a] :
          p \in {"/x", "/y", "/z?b&a"}, a \in ActionLists}
  \cup {[Plain EXCEPT !.features = f, !.enabled = e] :
          f \in SUBSET {"markers", "ipAddress"}, e \in BOOLEAN}

(* One rule, or one after a plain one.                                     *)
MCInputs == {<<r>> : r \in Varied}
            \cup {<<[Plain EXCEPT !.id = 2, !.date = {c}], r>> :
                    c \in SomeDates, r \in {v \in Varied : v.enabled /\ v.sampling = {60}}}
============================================================================
