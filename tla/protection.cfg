\* The protection pass and the kill switch: equity may fall by 20% and come back,
\* the day may end, two calls may fail and have taken effect all the same, the
\* owner may act twice and hold two lots.  B is not on the watchlist.
CONSTANTS
  A = A
  B = B
  C = C
  D = D
  Symbols = {A, B}
  MaxLots = 2
  RiskPerTradePct = 10
  MaxPositionPct = 50
  MaxPositions = 1
  DailyLossLimitPct = 10
  PollMs = 30000
  Watchlist <- OneSymbol
  EnableRotation = FALSE
  RotationMargin = 1
  Unrated = {}
  Strengths = {1}
  Prices = {10}
  StopDistances = {1}
  Equities = {100, 80}
  BuyingPowers = {100}
  InitialEquity = 100
  HostOnExchangeTime = TRUE
  EntriesFillFirst = FALSE
  LostReplies = TRUE
  MaxFaults = 2
  MaxMeddles = 2
  MaxRestarts = 0
  MaxDay = 2
SPECIFICATION Spec
INVARIANTS
  TypeOK
  GuardianCovers
  HaltLeavesNoEntry
PROPERTIES
  HaltHoldsForTheDay
