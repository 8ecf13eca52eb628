CONSTANTS
  Keys = {1}
  Values = {a}
  Tomb = Tomb
  Broken = Broken
  Torn = Torn
  NoCall = NoCall
  l0_trigger_count = 9
  Threshold = 2
  KeysPerBlock = 4
  Crashes = TRUE
  TornWrites = TRUE
  Errors = {}
  CallsOverL1 = TRUE
  MaxWal = 3
  MaxId = 2
SPECIFICATION Spec
INVARIANT AckedWritesSurvive
