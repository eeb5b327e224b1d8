------------------------------ MODULE MCGuest ------------------------------
(* A short configuration, two long ones of different lengths, and one that *)
(* has no rule left once the malformed entry is dropped.                   *)
EXTENDS Guest, TLC

Redirection(id, target, sampling) ==
  [id |-> id, rank |-> 0, status |-> 301, target |-> {target},
   sampling |-> sampling, codes |-> {}, exclude_codes |-> FALSE,
   reset |-> FALSE, stop |-> FALSE]

R1 == Redirection(1, "a", {})
R2 == Redirection(1, "b", {})
R3 == Redirection(2, "c", {50})

MCConfig == {"short", "long", "longer", "broken"}
MCLength == [c \in MCConfig |-> CASE c = "short" -> 1 [] c = "broken" -> 1
                                  [] c = "long" -> 3 [] c = "longer" -> 4]
MCEntries == [c \in MCConfig |-> CASE c = "short" -> {R1}
                                   [] c = "broken" -> {Malformed}
                                   [] c = "long" -> {R2, Malformed}
                                   [] c = "longer" -> {R1, R3}]
MCMatches == [q \in {"q"} |-> {R1, R2, R3}]
MCKey == [t \in Text |-> t]
Symmetry == Permutations(Instance)
============================================================================
