\* A marker whose class holds an unescaped parenthesis, used by two rules.
SPECIFICATION TreeSpec
CONSTANTS
  Regex <- ClassOfParenthesis
  RouteId = {"r1", "r2"}
  Word <- Words
  Lower <- LowerOf
  WideChar = {"e"}
  Limit = {1, 3}
  MaxChange = 3
INVARIANT
  FindsAll
CHECK_DEADLOCK FALSE
