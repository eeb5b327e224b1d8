SPECIFICATION Spec
CONSTANTS
  Name <- MCName
  Canon <- MCCanon
  Method <- MCMethod
  Asked <- MCAsked
  TicksPerDay <- MCTicksPerDay
  TicksPerSecond <- MCTicksPerSecond
  LastDay <- MCLastDay
  Id = {1, 2}
  Location = {"/new", "/newer"}
  NoLocation = "none"
  Feature = {"markers", "ipAddress"}
  Unreadable = Unreadable
  Inputs <- MCInputs
INVARIANTS NeverWider HonouredInFull
\* Every rule has been translated or skipped.
CHECK_DEADLOCK FALSE
