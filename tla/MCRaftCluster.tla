--------------------------- MODULE MCRaftCluster ----------------------------
(* RaftCluster for TLC: the nodes are interchangeable. *)
EXTENDS RaftCluster, TLC

Symmetry == Permutations(Nodes)
=============================================================================
