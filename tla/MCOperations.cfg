SPECIFICATION OperationSpec
CONSTANTS
  c1 = c1
  g1 = g1
  g2 = g2
  bot = bot
  pii = pii
  t1 = t1
  t2 = t2
  Parties = {bot}
  Competences = {}
  Operators = {c1}
  Writers = {g1, g2}
  WriterOps = {"revoke", "lane", "pause"}
  Agents = {bot}
  Tags = {pii}
  Terms = {t1, t2}
  UseCases <- SomeCases
  IssueLists <- SomeLists
  Budgets = {1, NoCap, Unreadable}
  Costs = {1}
  NoLane = NoLane
  NoUseCase = NoUseCase
  NoCap = NoCap
  Unreadable = Unreadable
  AutoGradeMin = 3
  TTL = 1
  Skew = 0
  MaxTokens = 1
  MaxRuns = 1
  MaxVersion = 2
  MaxChanges = 2
  Horizon = 2
SYMMETRY Symmetry
INVARIANTS
  WhatStoodBeforeTheCallBinds
  JournalTellsTheRun
PROPERTIES
  StopsAreLiftedByPeople
  LanesNeverGoBack
  UnattendedIsEarned
CHECK_DEADLOCK FALSE
