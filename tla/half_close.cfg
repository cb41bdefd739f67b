\* Any timing, with backends that reset and calls that fail or without, and a
\* backlog worker that is faster than the timer.
CONSTANTS
  NumBackends = 2
  MaxRequests = 2
  RequestLen = 2
  ResponseLen = 1
  Conditions <- EveryCondition
SPECIFICATION FairSpec
INVARIANTS
  TypeOK
  IncompleteIsIncomplete
  DrainedMeansForwarded
  DrainedMeansDelivered
PROPERTIES
  HalfClosedIsReaped
  CompleteRequestIsHandled
