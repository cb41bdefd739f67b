\* A backend may answer with a reset.
CONSTANTS
  NumBackends = 2
  MaxRequests = 1
  RequestLen = 1
  ResponseLen = 1
  Conditions <- ResetConditions
SPECIFICATION Spec
INVARIANTS
  FinsWereCounted
