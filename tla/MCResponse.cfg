SPECIFICATION ResponseSpec
CONSTANTS
  Binary = {"image/png"}
  Chosen <- MCChosen
  Request <- MCRequest
  Protected = {"host"}
  Backend <- MCBackend
  ContentType <- MCType
  ContentEncoding <- MCEncoding
  Location <- MCLocation
INVARIANTS
  StreamsTheWhole
  FailsOpen
  StatusHasItsRule
  LogHasItsRule
  AppliedWereHeard
  HeadersAsRulesSay
  BodyAsRulesSay
  TraceTellsTheHeaders
  NoProxyNoChange
  TagsSeeTheBackend
CHECK_DEADLOCK FALSE
