\* A run of the parser that outlives the deletion of its connection's keys.
CONSTANTS
  MAX_CONNECTION_SETS = 1
  SOCKS_PER_CONNECTION = 2
  MaxAccepts = 1
  FallibleCalls = {}
SPECIFICATION Spec
INVARIANTS
  RecycledMeansGone
