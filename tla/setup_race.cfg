\* A client that is faster than the setup of its connection.
CONSTANTS
  NumBackends = 2
  MaxRequests = 1
  RequestLen = 2
  ResponseLen = 1
  Conditions <- QuietConditions
SPECIFICATION Spec
INVARIANTS
  EarlyRequestSurvives
