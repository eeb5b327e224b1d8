SPECIFICATION Spec
CONSTANTS
  Id = {1, 2}
  Rank = {0}
  Status = {0, 301}
  Target = {"a", "b", "c"}
  Route = {r1, r2}
  Instance = {i1, i2}
  Request = {"q"}
  Matches <- MCMatches
  Config <- MCConfig
  Length <- MCLength
  Entries <- MCEntries
  Malformed = Malformed
  First = 2
  Key <- MCKey
  MaxReloads = 2
SYMMETRY Symmetry
INVARIANTS
  CacheIsFaithful
  AnswersOwnRules
