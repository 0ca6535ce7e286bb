CONSTANTS
  NaN = NaN
  EmaFast = 2
  EmaSlow = 3
  MacdFast = 1
  MacdSlow = 2
  MacdSignal = 2
  AtrPeriod = 2
  PullbackTolerance = 3
  AbnormalMultiple = 5
  SlAtrBuffer = 2
  MinAtrSpread = 1
  SwingLookback = 2
  DayLength = 8
  M5Length = 2
  M15Length = 4
  BarLookback = 3
  VwapBarLookback = 4
  StartDate = 0
  EndDate = 1
  Cost <- MCCost
  NumRows = 5
  LeadIn = 2
  Steps = {1, 2, 4}
  Candles <- MCCandles
SPECIFICATION Spec
INVARIANTS
  BarsMatchFile NoLookahead IndicatorsMatchReference
  MirrorImage StopBehindSignal
PROPERTIES
  ShownBarsAreFinal
CHECK_DEADLOCK FALSE
