SPECIFICATION TreeSpec
CONSTANTS
  Regex <- Plain
  RouteId = {"r1", "r2"}
  Word <- Words
  Lower <- LowerOf
  WideChar = {"e"}
  Limit = {2}
  MaxChange = 4
INVARIANTS
  FindsAll
  TreeIsWellFormed
PROPERTIES
  RemovesOne
  CacheWithinLimit
CHECK_DEADLOCK FALSE
