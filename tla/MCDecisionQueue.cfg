SPECIFICATION Spec
CONSTANTS
  c1 = c1
  c2 = c2
  bot = bot
  p1 = p1
  p2 = p2
  p3 = p3
  erase = erase
  keep = keep
  Callers = {c1}
  Parties = {bot, p1, p2, p3}
  Raiser = bot
  Options = {erase, keep}
  Panels <- SomePanels
  NoPanel = NoPanel
  Nobody = Nobody
  NoOption = NoOption
  Ttl = 1
  EscalateAt = 1
  Horizon = 2
  MaxLinks = 1
  MaxCrashes = 1
SYMMETRY Symmetry
INVARIANTS
  OneChoicePerDecision
  PanelChoosesByItsRule
  PanelIsNeverStuck
  LinkWritesOnce
PROPERTIES
  SplitsOnlyWhenHopeless
