CONSTANTS
  Keys = {1, 2}
  Values = {a}
  Tomb = Tomb
  Broken = Broken
  Torn = Torn
  NoCall = NoCall
  l0_trigger_count = 2
  Threshold = 1
  KeysPerBlock = 4
  Crashes = TRUE
  TornWrites = FALSE
  Errors = {}
  CallsOverL1 = TRUE
  MaxWal = 1
  MaxId = 3
SPECIFICATION Spec
PROPERTY CompactionKeepsData
