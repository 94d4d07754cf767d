\* Rankings of two and four symbols and a static list of three, three days,
\* a failure and a restart; any slot may open or close between two ticks, and
\* a tick scans up to three of them.
CONSTANTS
  DynamicUniverse = TRUE
  WatchlistSize = 3
  RankingSizes = {2, 4}
  MaxDay = 3
  MaxFaults = 1
  MaxRestarts = 1
  MaxWindow = 3
SPECIFICATION Spec
INVARIANTS
  TypeOK
  FullCoverage
  NoRepeats
  ListIsFresh
  RankedOnce
