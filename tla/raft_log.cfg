CONSTANTS
  Nodes = {n1, n2, n3}
  Nobody = Nobody
  MaxUint64 = 1000
  AddPeers = TRUE
  MaxTerm = 2
  MaxLog = 2
  MaxVotes = 1
  MaxMessages = 2
  MaxLoad = 3
SPECIFICATION Spec
SYMMETRY Symmetry
INVARIANTS TypeOK ElectionSafety LogMatching IndexIsPosition MatchIsReplicated RefusalGoesBack
PROPERTIES LeaderAppendOnly VoteKept
CHECK_DEADLOCK FALSE
