SPECIFICATION ESpec
CONSTANTS
  a = a
  e1 = e1
  e2 = e2
  i1 = i1
  Subjects = {a}
  Armers = {e1, e2}
  Ingesters = {i1}
  IngestOps = {"watch"}
  MaxSeals = 2
  MaxMarkers = 2
  MaxCrashes = 1
  MaxExecutes = 2
SYMMETRY Symmetry
CHECK_DEADLOCK FALSE
PROPERTY
  ReingestionIsBlocked
