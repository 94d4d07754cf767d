\* Two runs at once over ten instants; 1 is before the listing, 4, 5 and 9 are
\* closed.
CONSTANTS
  Runs = {r1, r2}
  Traded = {2, 3, 6, 7, 8, 10}
  Slack = 1
  MinWindow = 2
  LastInstant = 10
SPECIFICATION Spec
INVARIANTS
  TypeOK
  AnswerIsUnbroken
  AnswerCoversWindow
  NoNeedlessFetch
