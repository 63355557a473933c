SPECIFICATION Spec
CONSTANTS
  w1 = w1
  w2 = w2
  c1 = c1
  c2 = c2
  jobA = jobA
  jobB = jobB
  Nobody = Nobody
  Workers = {w1}
  Clients = {c1}
  ClientOps = {"enqueue", "take", "renew", "mark", "markStrict", "cancel", "resume"}
  MaxRuns = 3
  Jobs = {jobA, jobB}
  JobOf <- JobsAAB
  Scope <- OnlyA
  MaxCrashes = 1
  StateLoss = FALSE
INVARIANTS
  OneActiveRunPerJob
  EffectsAgreeWithQueue
  LiveLeaseNamesTheLessee
PROPERTIES
  LiveLeaseIsRespected
