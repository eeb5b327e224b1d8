\* Convergence of a daemon, and of the plugin's configuration, once the
\* faults and the edits of the run are used up.
SPECIFICATION FairSpec
CONSTANTS
  Proc = {p1}
  RuleId = {1, 2}
  RuleBody = {redirect, malformed}
  NoRule = NoRule
  Redirect = {redirect}
  Malformed = {malformed}
  Ruleset <- MCRuleset
  OneShot = {}
  MaxRetries = 1
  MaxEdits = 1
  MaxFaults = 1
  MaxLimits = 1
  Inode = {i1, i2, i3}
  NoInode = {i1, i2, i3}
  NoData <- MCNoData
  Blocks = 1
  MaxIOFaults = 1
  Overlap = FALSE
VIEW View
PROPERTY
  Converges
