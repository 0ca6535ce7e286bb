SPECIFICATION Spec
CONSTANTS
  None = None
  BtcUsdt = BtcUsdt
  BtcUsdtUsdt = BtcUsdtUsdt
  Namings <- AnyNaming
  Faults <- AnyRequest
  AcceptsIdleStops = TRUE
  StopAnytime = TRUE
  Crashes = TRUE
  MaxLevel = 2
  MaxPositions = 2
  MaxOrders = 5
  MaxFaults = 3
  MaxRestarts = 1
INVARIANTS Protected CacheNeverOverstates
PROPERTY StopNeverLoosens
CHECK_DEADLOCK FALSE
