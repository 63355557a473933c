SPECIFICATION FairSpec
CONSTANTS
  w1 = w1
  w2 = w2
  c1 = c1
  c2 = c2
  jobA = jobA
  jobB = jobB
  Nobody = Nobody
  Workers = {w1, w2}
  Clients = {c1}
  ClientOps = {"enqueue", "cancel", "resume", "mark"}
  MaxRuns = 2
  Jobs = {jobA, jobB}
  JobOf <- JobsAA
  Scope <- AllJobs
  MaxCrashes = 1
  StateLoss = TRUE
PROPERTIES
  RunsAreNeverRevived
  EveryRunEnds
