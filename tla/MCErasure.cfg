SPECIFICATION ESpec
CONSTANTS
  a = a
  e1 = e1
  e2 = e2
  i1 = i1
  Subjects = {a}
  Armers = {e1, e2}
  Ingesters = {i1}
  IngestOps = {"file", "watch"}
  MaxSeals = 2
  MaxMarkers = 2
  MaxCrashes = 1
  MaxExecutes = 2
CONSTRAINT Bound
SYMMETRY Symmetry
CHECK_DEADLOCK FALSE
INVARIANTS
  NoErasureIsDropped
  OneMarkerPerErasure
  EveryErasureIsOnRecord
  EmptyErasureIsRecordedOnce
  MirrorsLeftAreKnown
PROPERTY
  CleanReportIsTrue
