SPECIFICATION Spec
CONSTANTS
  None = None
  Corrupt = Corrupt
  TpCash = 2
  BeTrigger = 1
  BeLock = 1
  ProfitTarget = 4
  MaxLoss <- MCMaxLoss
  MaxConsecLosses = 3
  MaxTrades = 2
  CooldownTp = 1
  CooldownBe = 2
  CooldownSl = 2
  Quantity = 1
  Faults <- AllCalls
  Swallowed <- BarsAndPnl
  LostReplies = TRUE
  StopAnytime = TRUE
  MaxErrors = 2
  MaxPositions = 3
  MaxDay = 0
  MaxMinute = 0
  MaxFaults = 2
  MaxStops = 1
INVARIANTS NeverScansWithPosition
PROPERTIES TrackedUntilRecorded RestartForgetsAtMostOne OpenIsEventuallyTracked
CHECK_DEADLOCK FALSE
