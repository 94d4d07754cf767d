\* Two symbols over four timestamps of two days.
CONSTANTS
  NSymbols = 2
  Bars <- MCBars
  ATRs = {1, 2}
  StopATRMult = 2
  TakeATRMult = 3
  MinBars = 1
  DisableTrendExit = FALSE
  StartEquity = 100
  RiskPerTradePct = 10
  MaxPositionPct = 60
  MaxPositions = 2
  DailyLossLimitPct = 5
  MaxDates = 4
  MaxDays = 2
SPECIFICATION Spec
INVARIANTS
  TypeOK
  BooksBalance
  ReportExplained
  StopsCostTheirRisk
  DrawdownIsWorst
  TradesInTurn
PROPERTIES
  HaltLastsTheDay
CHECK_DEADLOCK FALSE
