\* A symbol sold on a bar and bought at its open.
CONSTANTS
  NSymbols = 2
  Bars <- MCBars
  ATRs = {1, 2}
  StopATRMult = 2
  TakeATRMult = 3
  MinBars = 1
  DisableTrendExit = FALSE
  StartEquity = 100
  RiskPerTradePct = 10
  MaxPositionPct = 60
  MaxPositions = 2
  DailyLossLimitPct = 5
  MaxDates = 4
  MaxDays = 2
SPECIFICATION Spec
INVARIANTS
  OneFillPerBar
CHECK_DEADLOCK FALSE
