\* Nothing stays naked: rotation on, one slot, the kill switch, C held by hand
\* only, one act of the owner, one failed call that may have taken effect, one
\* restart.
CONSTANTS
  A = A
  B = B
  C = C
  D = D
  Symbols = {A, B, C}
  MaxLots = 1
  RiskPerTradePct = 10
  MaxPositionPct = 50
  MaxPositions = 1
  DailyLossLimitPct = 10
  PollMs = 30000
  Watchlist <- TwoSymbols
  EnableRotation = TRUE
  RotationMargin = 1
  Unrated = {}
  Strengths = {1, 2}
  Prices = {10}
  StopDistances = {1}
  Equities = {100, 80}
  BuyingPowers = {100}
  InitialEquity = 100
  HostOnExchangeTime = TRUE
  EntriesFillFirst = FALSE
  LostReplies = TRUE
  MaxFaults = 1
  MaxMeddles = 1
  MaxRestarts = 1
  MaxDay = 1
SPECIFICATION FairSpec
PROPERTIES
  NakedIsTemporary
