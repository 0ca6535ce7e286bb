SPECIFICATION Spec
CONSTANTS
  None = None
  Corrupt = Corrupt
  TpCash = 2
  BeTrigger = 1
  BeLock = 1
  ProfitTarget = 4
  MaxLoss <- MCMaxLoss
  MaxConsecLosses = 3
  MaxTrades = 2
  CooldownTp = 1
  CooldownBe = 2
  CooldownSl = 2
  Quantity = 1
  Faults <- NoCalls
  Swallowed <- OnlyPositions
  LostReplies = FALSE
  StopAnytime = FALSE
  MaxErrors = 2
  MaxPositions = 3
  MaxDay = 0
  MaxMinute = 0
  MaxFaults = 1
  MaxStops = 0
INVARIANT RecordedIsClosed
CHECK_DEADLOCK FALSE
