\* Two CPUs; requests may be under way when the counters are read, and anything
\* may fail.
CONSTANTS
  NumCPUs = 2
  Elapsed = {2}
  MaxRequests = 2
  MaxTries = 1
  Disturbed = {"read"}
  Failures <- AllFailures
SPECIFICATION Spec
INVARIANTS
  TypeOK
  ReadIsBracketed
