\* The cap when a market buy may still be pending at the next poll.
CONSTANTS
  A = A
  B = B
  C = C
  D = D
  Symbols = {A, B}
  MaxLots = 1
  RiskPerTradePct = 10
  MaxPositionPct = 50
  MaxPositions = 1
  DailyLossLimitPct = 10
  PollMs = 30000
  Watchlist <- TwoSymbols
  EnableRotation = FALSE
  RotationMargin = 1
  Unrated = {}
  Strengths = {1}
  Prices = {10}
  StopDistances = {1}
  Equities = {100}
  BuyingPowers = {100}
  InitialEquity = 100
  HostOnExchangeTime = TRUE
  EntriesFillFirst = FALSE
  LostReplies = FALSE
  MaxFaults = 0
  MaxMeddles = 0
  MaxRestarts = 0
  MaxDay = 1
SPECIFICATION Spec
INVARIANTS
  CapHolds
