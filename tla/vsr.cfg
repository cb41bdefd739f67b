\* Requests may fail, the second capture races with the last observations, and
\* the VSR may be restarted at any point.
CONSTANTS
  Workers = {w1, w2}
  Elapsed = {1, 3}
  Paths <- AllPaths
  MaxRequests = 3
  MaxRestarts = 1
  MaxTries = 1
  Settled = {"before"}
SYMMETRY WorkerSymmetry
SPECIFICATION Spec
INVARIANTS
  TypeOK
  SummaryIsExact
  ExpectedIsExact
  AcceptedMeansAllStages
  SnapshotCoversCounts
