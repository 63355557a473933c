SPECIFICATION SealedSpec
VIEW AnchorAside
CONSTANTS
  p1 = p1
  p2 = p2
  x = x
  y = y
  Nobody = Nobody
  NoPair = NoPair
  Procs = {p1, p2}
  Pairs = {x, y}
  OpsOf <- EitherSeals
  LongLived = {}
  Pinning = FALSE
  DiskMayFill = TRUE
  TornWrites = TRUE
  PurgesUndisturbed = FALSE
  MaxEvents = 3
  MaxInodes = 3
  MaxCrashes = 1
INVARIANTS
  IntactEventsAreLinked
  StoredChainIsLinked
