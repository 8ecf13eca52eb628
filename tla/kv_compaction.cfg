CONSTANTS
  Keys = {1, 2}
  Values = {a}
  Tomb = Tomb
  Broken = Broken
  Torn = Torn
  NoCall = NoCall
  l0_trigger_count = 2
  Threshold = 2
  KeysPerBlock = 4
  Crashes = TRUE
  TornWrites = TRUE
  Errors = {"append", "build", "footer"}
  CallsOverL1 = TRUE
  MaxWal = 3
  MaxId = 2
SPECIFICATION Spec
INVARIANTS TypeOK MemtableIsReplay SizeIsReplay ReadersMatchDisk RestartKeepsReads
PROPERTIES L0Immutable FlushInvisible CompactionInvisible CompactionDurable RemoveDurable
