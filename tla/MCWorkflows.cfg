SPECIFICATION WorkflowSpec
CONSTANTS
  w1 = w1
  w2 = w2
  q1 = q1
  c1 = c1
  ann = ann
  ben = ben
  pub = pub
  law = law
  Callers = {c1}
  Requests = {1, 2, 3}
  Parties = {ann, ben}
  Competences = {pub, law}
  RequestSpecs = {}
  FirstParties <- Roster
  Registrations = {}
  NoRequest = NoRequest
  MaxChanges = 0
  MaxEvents = 1
  Horizon = 2
  CallerOps <- Decide
  Runners = {w1, w2}
  Actor <- ForAnn
  Runs = {q1}
  Plan <- Publish
  Rationales <- Signs
  AncestorPacks <- Above
  Declarations <- Stacks
  ApprovalTimeout = 1
  MaxExecutions = 2
  MaxDeclared = 1
INVARIANTS
  DispatchedOnApproval
  SignOffIsPerStep
  EndsAsItsSteps
PROPERTIES
  ExecutionsEnd
CHECK_DEADLOCK FALSE
