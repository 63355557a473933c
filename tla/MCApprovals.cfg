SPECIFICATION ApprovalSpec
CONSTANTS
  c1 = c1
  c2 = c2
  r1 = r1
  bot = bot
  ann = ann
  ben = ben
  law = law
  Callers = {c1, c2}
  Requests = {r1}
  Parties = {bot, ann, ben}
  Competences = {law}
  RequestSpecs <- Asked
  FirstParties <- Roster
  Registrations <- Later
  NoRequest = NoRequest
  MaxChanges = 1
  Horizon = 2
  MaxEvents = 3
  CallerOps <- Split
INVARIANTS
  TypeOK
  ApprovalsAreRooted
  ElapsedIsOnRecord
  DenialAbsorbs
PROPERTIES
  DeadlineIsFinal
CHECK_DEADLOCK FALSE
