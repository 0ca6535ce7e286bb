SPECIFICATION Spec
CONSTANTS
  None = None
  BtcUsdt = BtcUsdt
  BtcUsdtUsdt = BtcUsdtUsdt
  Namings <- FuturesOnly
  Faults <- CloseOnly
  AcceptsIdleStops = FALSE
  StopAnytime = FALSE
  Crashes = FALSE
  MaxLevel = 2
  MaxPositions = 2
  MaxOrders = 5
  MaxFaults = 1
  MaxRestarts = 0
INVARIANT NeverExposed
CHECK_DEADLOCK FALSE
