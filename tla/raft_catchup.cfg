CONSTANTS
  Nodes = {n1, n2, n3}
  Leader = n1
  Peer = n2
  Nobody = Nobody
  MaxUint64 = 1000
  AddPeers = TRUE
  MaxTerm = 3
  MaxLog = 3
  MaxMessages = 3
  MaxVotes = 0
  MaxLoad = 5
SPECIFICATION CatchUpSpec
PROPERTIES CatchesUp EntriesOfTermKept CommitsLeadersEntries
CHECK_DEADLOCK FALSE
