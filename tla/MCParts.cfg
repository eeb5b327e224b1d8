\* One walk over at most three rules, edited twice while it is on its way,
\* with two retries for each page and one answer that fails it; one process
\* at a time that writes a file, crashing or failing anywhere, and a loader;
\* up to three rules for one request; any of seven rules with conditions, and
\* a trace; one request that meets any Routers one after the other; the
\* redirections between two pages; one request that meets a rule with markers.
SPECIFICATION PartsSpec
CONSTANTS
  Proc = {p1}
  RuleId <- MCRuleId
  RuleBody = {v1, v2}
  NoRule = NoRule
  MaxRetries = 2
  MaxEdits = 2
  MaxFaults = 1
  Ruleset = {r1, r2}
  Inode = {i1, i2, i3}
  NoInode = NoInode
  NoData = NoData
  Blocks = 2
  MaxIOFaults = 2
  Overlap = FALSE
  Id = {1, 2, 3}
  Rank = {0, 1}
  Status = {0, 301, 302}
  Target = {1, 2, 3}
  Matched <- MCMatched
  Char = {"A", "B", "M", "N", "P", "V", "W", "a", "b", "m", "n", "p", "u", "v", "w",
          "@", "/", "?", "&", "=", "+", " ", "%20", "%2B", "%26", "%3D", "grave", "eacute"}
  LowerOf <- MCLowerOf
  Constrained <- MCConstrained
  Watched <- MCWatched
  DayLength = 3
  Unreadable = Unreadable
  Language <- MCLanguage
  Config <- MCConfig
  Marketing <- MCMarketing
  KeyOrder <- MCKeyOrder
  Received <- MCReceived
  Named <- MCNamed
  Written <- MCWritten
  Host = {"p", "x"}
  Page = {"a", "b"}
  Site <- MCSite
  Refused <- MCRefused
  Example <- MCExample
  Domains = {{}, {"p"}}
  MaxHops = {1, 12}
  Marked <- MCMarked
  Calling <- MCCalling
  WideChar = {"eacute"}
INVARIANTS
  CompleteWalk
  OneVersion
  GivesUpWhenExhausted
  DecidesAsWhole
  OneRuleRedirects
  FindsByConjunction
  TraceTellsTheConditions
  SameParametersMeet
  NoParameterIsLost
  RewritingIsIdempotent
  RebuiltAsIfFirst
  ReportsWhatAClientSees
  FoundLeadsBack
PROPERTIES
  WalkEnds
  ImplementsRegister
CHECK_DEADLOCK TRUE
