\* A restart on the day of the halt.
CONSTANTS
  A = A
  B = B
  C = C
  D = D
  Symbols = {A}
  MaxLots = 1
  RiskPerTradePct = 10
  MaxPositionPct = 50
  MaxPositions = 1
  DailyLossLimitPct = 10
  PollMs = 30000
  Watchlist <- OneSymbol
  EnableRotation = FALSE
  RotationMargin = 1
  Unrated = {}
  Strengths = {1}
  Prices = {10}
  StopDistances = {1}
  Equities = {100, 80}
  BuyingPowers = {100}
  InitialEquity = 100
  HostOnExchangeTime = TRUE
  EntriesFillFirst = FALSE
  LostReplies = FALSE
  MaxFaults = 0
  MaxMeddles = 0
  MaxRestarts = 1
  MaxDay = 1
SPECIFICATION Spec
PROPERTIES
  HaltHoldsForTheDay
