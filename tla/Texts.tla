------------------------------- MODULE Texts -------------------------------
(* Texts of requests and rules: sequences of characters, an escape like    *)
(* %20 being one of them.                                                  *)
EXTENDS Sequences

CONSTANTS
  Char,
  LowerOf  \* the characters that to_lowercase changes, and into what

ASSUME TextAssumption ==
  /\ DOMAIN LowerOf \subseteq Char
  /\ \A c \in DOMAIN LowerOf : LowerOf[c] \in Char \ DOMAIN LowerOf

LowerChar(c) == IF c \in DOMAIN LowerOf THEN LowerOf[c] ELSE c

Lower(t) == [k \in DOMAIN t |-> LowerChar(t[k])]

Folded(t, ignoreCase) == IF ignoreCase THEN Lower(t) ELSE t
============================================================================
