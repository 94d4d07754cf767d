\* The cap and the desk with rotation, a kill switch, a restart and two days, when
\* market buys fill before the next poll.
CONSTANTS
  A = A
  B = B
  C = C
  D = D
  Symbols = {A, B, C}
  MaxLots = 1
  RiskPerTradePct = 10
  MaxPositionPct = 50
  MaxPositions = 2
  DailyLossLimitPct = 10
  PollMs = 30000
  Watchlist <- ThreeSymbols
  EnableRotation = TRUE
  RotationMargin = 1
  Unrated = {}
  Strengths = {1, 2}
  Prices = {10}
  StopDistances = {1}
  Equities = {100, 80}
  BuyingPowers = {100}
  InitialEquity = 100
  HostOnExchangeTime = TRUE
  EntriesFillFirst = TRUE
  LostReplies = FALSE
  MaxFaults = 1
  MaxMeddles = 0
  MaxRestarts = 1
  MaxDay = 2
SPECIFICATION Spec
INVARIANTS
  CapHolds
  NakedOnlyInBetween
PROPERTIES
  ImplementsDesk
