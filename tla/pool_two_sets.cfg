\* Two blocks in use at once: redirects, slot arithmetic and the free list, with
\* calls that fail.
CONSTANTS
  MAX_CONNECTION_SETS = 2
  SOCKS_PER_CONNECTION = 2
  MaxAccepts = 2
  FallibleCalls = { "slots", "reap_slots", "retry_slot" }
SPECIFICATION Spec
INVARIANTS
  NoCrossTalk
  LoopIsSettled
PROPERTIES
  ImplementsPool
