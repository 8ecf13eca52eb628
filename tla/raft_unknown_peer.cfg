CONSTANTS
  Nodes = {n1, n2, n3}
  Nobody = Nobody
  MaxUint64 = 1000
  AddPeers = FALSE
  MaxTerm = 2
  MaxLog = 1
  MaxVotes = 1
  MaxMessages = 2
  MaxLoad = 3
SPECIFICATION Spec
SYMMETRY Symmetry
PROPERTY CommitsLeadersEntries
CHECK_DEADLOCK FALSE
