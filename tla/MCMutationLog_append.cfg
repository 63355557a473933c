SPECIFICATION Spec
CONSTANTS
  p1 = p1
  p2 = p2
  p3 = p3
  x = x
  y = y
  Nobody = Nobody
  NoPair = NoPair
  Procs = {p1, p2, p3}
  Pairs = {x}
  OpsOf <- BothAppend
  LongLived = {p1, p2}
  Pinning = TRUE
  DiskMayFill = FALSE
  TornWrites = FALSE
  PurgesUndisturbed = FALSE
  MaxEvents = 5
  MaxInodes = 1
  MaxCrashes = 1
INVARIANTS
  HonestLogVerifies
  RegistrationComesFirst
PROPERTIES
  ImplementsAuditLog
