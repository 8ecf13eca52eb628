CONSTANTS
  Keys = {1}
  Values = {a}
  Tomb = Tomb
  Broken = Broken
  Torn = Torn
  NoCall = NoCall
  l0_trigger_count = 2
  Threshold = 1
  KeysPerBlock = 4
  Crashes = FALSE
  TornWrites = FALSE
  Errors = {}
  CallsOverL1 = TRUE
  MaxWal = 1
  MaxId = 3
SPECIFICATION Spec
INVARIANT NewestWins
CHECK_DEADLOCK FALSE
