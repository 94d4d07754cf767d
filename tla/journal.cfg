\* The trade log keeps the journal's promise: two failed calls, two crashes,
\* overlapping answers of two fills at most.  The run stops when its bounds are
\* spent and every fill is logged.
CONSTANTS
  PageSize = 2
  Overlaps = {0, 1}
  FirstLookback = 9
  PromptLedger = TRUE
  WriteFaults = FALSE
  TornWrites = FALSE
  MaxFills = 3
  MaxTime = 4
  MaxFaults = 2
  MaxRestarts = 2
SPECIFICATION FairSpec
INVARIANTS
  NoGap
  NoneForgotten
PROPERTIES
  KeepsPromise
  EventuallyLogged
CHECK_DEADLOCK FALSE
