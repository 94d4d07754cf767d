\* Every fault at once, and a first look back that may miss a fill: nothing is
\* told twice.  The run stops when its bounds are spent and every fill is logged.
CONSTANTS
  PageSize = 2
  Overlaps = {0, 1}
  FirstLookback = 2
  PromptLedger = FALSE
  WriteFaults = TRUE
  TornWrites = TRUE
  MaxFills = 3
  MaxTime = 4
  MaxFaults = 2
  MaxRestarts = 2
SPECIFICATION Spec
INVARIANTS
  TypeOK
  NoDoubleLog
CHECK_DEADLOCK FALSE
