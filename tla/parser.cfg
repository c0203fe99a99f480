SPECIFICATION RequestSpec
CONSTANTS
  Texts <- MCTexts
INVARIANTS
  AcceptsExactlyRequests
  RequestIsItsText
  ParamsAreTheQuery
CHECK_DEADLOCK FALSE
