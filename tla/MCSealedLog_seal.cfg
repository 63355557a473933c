SPECIFICATION SealedSpec
VIEW AnchorAside
CONSTANTS
  p1 = p1
  p2 = p2
  x = x
  y = y
  Nobody = Nobody
  NoPair = NoPair
  Procs = {p1, p2}
  Pairs = {x, y}
  OpsOf <- WriteBesideSeal
  LongLived = {}
  Pinning = FALSE
  DiskMayFill = TRUE
  TornWrites = FALSE
  PurgesUndisturbed = TRUE
  MaxEvents = 4
  MaxInodes = 4
  MaxCrashes = 2
INVARIANTS
  SealKeepsEveryEvent
  ErasedStaysErased
PROPERTIES
  SealingIsInvisible
