CONSTANTS
  Keys = {1, 2, 3}
  NumRuns = 3
SPECIFICATION Spec
INVARIANTS TypeOK OutputAscending NewestWins NothingLost
PROPERTIES ImplementsMerge Terminates
CHECK_DEADLOCK FALSE
