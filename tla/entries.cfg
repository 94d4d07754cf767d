\* Entries: a budget of 12 calls scans two candidates of four, money for none,
\* one or two of them, market buys that fill late, rotation, and a failed call.
CONSTANTS
  A = A
  B = B
  C = C
  D = D
  Symbols = {A, B, C, D}
  MaxLots = 1
  RiskPerTradePct = 10
  MaxPositionPct = 50
  MaxPositions = 2
  DailyLossLimitPct = 10
  PollMs = 5000
  Watchlist <- FourSymbols
  EnableRotation = TRUE
  RotationMargin = 1
  Unrated = {}
  Strengths = {1, 2}
  Prices = {10, 30}
  StopDistances = {1}
  Equities = {100}
  BuyingPowers = {5, 95}
  InitialEquity = 100
  HostOnExchangeTime = TRUE
  EntriesFillFirst = FALSE
  LostReplies = FALSE
  MaxFaults = 1
  MaxMeddles = 0
  MaxRestarts = 0
  MaxDay = 1
SPECIFICATION Spec
INVARIANTS
  OneEntryPerSymbol
  OneDecisionPerSymbol
  NeverOverdrawn
PROPERTIES
  KeepsOrder
