SPECIFICATION Spec
CONSTANTS
  None = None
  Corrupt = Corrupt
  TpCash = 2
  BeTrigger = 1
  BeLock = 1
  ProfitTarget = 4
  MaxLoss <- MCMaxLoss
  MaxConsecLosses = 3
  MaxTrades = 2
  CooldownTp = 1
  CooldownBe = 2
  CooldownSl = 2
  Quantity = 1
  Faults <- AllButJournal
  Swallowed <- NoCalls
  LostReplies = FALSE
  StopAnytime = TRUE
  MaxErrors = 2
  MaxPositions = 3
  MaxDay = 1
  MaxMinute = 1
  MaxFaults = 1
  MaxStops = 0
INVARIANTS RecordedOnceOrTracked EntriesWithinDailyLimit
PROPERTIES EntryWithinLossLimit EveryCloseRecorded ImplementsDesk
CHECK_DEADLOCK FALSE
