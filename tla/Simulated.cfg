CONSTANTS
  None = None
  TpCash = 2
  BeTrigger = 1
  BeLock = 0
  ProfitTarget = 5
  MaxLoss <- MCMaxLoss
  MaxConsecLosses = 2
  MaxTrades = 2
  CooldownTp = 2
  CooldownBe = 1
  CooldownSl = 2
  Quantity = 1
  Prices = {0, 1, 2, 3}
  Cost = 1
  Drift = 1
  OldJournals <- MCOldJournals
  MaxDay = 1
  MaxRestarts = 1
  MaxFaults = 2
SPECIFICATION Spec
INVARIANTS
  BookIsMirrored EntriesWithinLimit SimulationNeverLoses MetricsMatchJournal
PROPERTIES
  TotalIsTheSessions
CHECK_DEADLOCK FALSE
