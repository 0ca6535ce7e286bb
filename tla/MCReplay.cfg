SPECIFICATION Spec
CONSTANTS
  TpCash = 8
  BeTrigger = 4
  BeLock = 1
  ProfitTarget = 10
  MaxLoss <- MCMaxLoss
  MaxConsecLosses = 2
  MaxTrades = 3
  CooldownTp = 1
  CooldownBe = 2
  CooldownSl = 2
  Quantity = 1
  Prices <- MCPrices
  Bars <- MCBars
  Stops <- MCStops
  FeeOf <- MCFeeOf
  HalfSpread = 1
  Slippage = 0
  NumBars = 13
  MaxDay = 1
  None = None
INVARIANTS TypeOK EveryCloseCountedOnce StreakIsBrokers EntriesWithinDailyLimit VanishedPnlIsTrades BreakevenLocksProfit
PROPERTIES ImplementsDesk NoEntryPastGuard CooldownHonoured StopNeverRegresses
CHECK_DEADLOCK FALSE
