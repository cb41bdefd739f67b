\* Segments of any size, evictions and failing maps.
CONSTANTS
  Streams <- SomeStreams
  MaxHeader = 12
  MaxRequest = 14
  MapMayFail = TRUE
SPECIFICATION Spec
INVARIANTS
  TypeOK
  RouterAndBackendAgree
  ScanIsResumable
  HeaderEndsAgree
  LeftoverIsReported
  NoCompleteRequestWaits
