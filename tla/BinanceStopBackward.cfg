SPECIFICATION Spec
CONSTANTS
  None = None
  BtcUsdt = BtcUsdt
  BtcUsdtUsdt = BtcUsdtUsdt
  Namings <- FuturesOnly
  Faults <- NoRequests
  AcceptsIdleStops = FALSE
  StopAnytime = FALSE
  Crashes = FALSE
  MaxLevel = 2
  MaxPositions = 2
  MaxOrders = 5
  MaxFaults = 0
  MaxRestarts = 0
PROPERTY NeverBackward
CHECK_DEADLOCK FALSE
