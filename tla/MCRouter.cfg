CONSTANTS
  a = a
  b = b
  c = c
  Id = {a, b, c}
  Key <- MCKey
  Any = "any"
  Depth <- MCDepth
  Host <- MCHost
  Traced <- MCTraced
  IpLevel <- MCIpLevel
  NamesAll <- MCNamesAll
  AskedAlways <- MCAskedAlways
  Lacking <- MCLacking
  Begun <- MCBegun
  Tried <- MCTried
  RegexHost <- MCRegexHost
  Path <- MCPath
  RegexPath <- MCRegexPath
  Route <- MCRoute
  Request <- MCRequest
  Meets <- MCMeets
  Changes <- MCChanges
  MaxOps = 3

SPECIFICATION Spec
INVARIANTS FindsTheRoutes NeverLost CountsCover TraceTellsTheRoutes
CHECK_DEADLOCK FALSE
