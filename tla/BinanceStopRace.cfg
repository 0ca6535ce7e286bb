SPECIFICATION Spec
CONSTANTS
  None = None
  BtcUsdt = BtcUsdt
  BtcUsdtUsdt = BtcUsdtUsdt
  Namings <- FuturesOnly
  Faults <- NoRequests
  AcceptsIdleStops = FALSE
  StopAnytime = TRUE
  Crashes = FALSE
  MaxLevel = 2
  MaxPositions = 2
  MaxOrders = 5
  MaxFaults = 0
  MaxRestarts = 0
INVARIANT NoStaleStop
CHECK_DEADLOCK FALSE
