CONSTANTS
  Keys = {1, 2}
  Values = {a}
  Tomb = Tomb
  Broken = Broken
  Torn = Torn
  NoCall = NoCall
  l0_trigger_count = 2
  Threshold = 2
  KeysPerBlock = 4
  Crashes = TRUE
  TornWrites = FALSE
  Errors = {"build", "merge", "footer"}
  CallsOverL1 = FALSE
  MaxWal = 2
  MaxId = 3
SPECIFICATION FairSpec
PROPERTIES Durable CompactionRestores OpenReturns
