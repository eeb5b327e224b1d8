SPECIFICATION Spec
CONSTANTS
  Proc = {p1, p2}
  RuleId = {1, 2}
  RuleBody = {redirect, malformed}
  NoRule = NoRule
  Redirect = {redirect}
  Malformed = {malformed}
  Ruleset <- MCRuleset
  OneShot = {p1, p2}
  MaxRetries = 1
  MaxEdits = 2
  MaxFaults = 1
  MaxLimits = 1
  Inode = {i1, i2, i3}
  NoInode = NoInode
  NoData <- MCNoData
  Blocks = 1
  MaxIOFaults = 1
  Overlap = FALSE
SYMMETRY Symmetry
VIEW View
PROPERTIES
  PublishesTheWalk
  FailureKeepsTheFile
