---------------------------- MODULE MCRegexTree ----------------------------
(* Small instances of RegexTree: literals, groups, escapes, a class, and a *)
(* character of two bytes, each in two regexes that begin with it.         *)
EXTENDS RegexTree

Plain == {<<"a">>, <<"a", "(", "b", ")">>, <<"a", "(", "b", "a", ")">>,
          <<"b", "\\", "(">>, <<"b", "\\", ")">>,
          <<"(", "[", "\\", ")", "b", "]", ")", "a">>,
          <<"(", "[", "\\", ")", "b", "]", ")", "b">>,
          <<"e">>, <<"e", "a">>}

(* Two regexes of one marker, a class that holds a parenthesis.            *)
ClassOfParenthesis == {<<"(", "[", ")", "]", ")", "a">>, <<"(", "[", ")", "]", ")", "b">>}

(* The theorem that every route is found is about the first regexes, and   *)
(* not about these two.                                                    *)
ASSUME PlainAssumption ==
  /\ \A r \in Plain : ClassesArePlain(r)
  /\ \A r \in ClassOfParenthesis : ~ ClassesArePlain(r)

Words == {<<>>, <<"a">>, <<"A">>, <<"a", "b">>, <<"A", "B">>, <<"a", "b", "a">>,
          <<"b", "(">>, <<"b", ")">>, <<")", "a">>, <<"b", "b">>, <<"b", "a">>,
          <<"e">>, <<"e", "a">>, <<"b">>}

LowerOf == [c \in {"a", "b", "A", "B", "(", ")", "e"} |->
              CASE c = "A" -> "a" [] c = "B" -> "b" [] OTHER -> c]
============================================================================
