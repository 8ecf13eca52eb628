---------------------------- MODULE RaftCatchUp ----------------------------
(***************************************************************************)
(* A leader that has just been elected and one of its peers, with logs     *)
(* that earlier terms have left different: the back-off of next_index_     *)
(* after a refusal, the repair of the peer's log and the return of         *)
(* match_index_, over messages that are lost, late and sent again.         *)
(*                                                                         *)
(* The steps are those of RaftCluster between these two nodes; nobody      *)
(* starts another election, and the other nodes, which have elected the    *)
(* leader, are cut off.                                                    *)
(***************************************************************************)
EXTENDS RaftCluster

CONSTANTS Leader, Peer

ASSUME PairAssumption == Leader \in Nodes /\ Peer \in Nodes /\ Leader # Peer
ASSUME TermAssumption == MaxTerm > 0

-----------------------------------------------------------------------------
(* What the terms before may have left *)

\* Logs of terms that never fall
Logs ==
  LET Terms == UNION {[1 .. n -> 1 .. MaxTerm - 1] : n \in 0 .. MaxLog}
  IN  {[i \in DOMAIN t |-> [term |-> t[i], index |-> i]] :
         t \in {u \in Terms : \A i, j \in DOMAIN u : i <= j => u[i] <= u[j]}}

\* A term has one leader: logs with entries of it agree up to the shorter one's.
FromSameLeaders(a, b) ==
  \A i \in DOMAIN a, j \in DOMAIN b :
    a[i].term = b[j].term => SameUpTo(a, b, AtMost(i, j))

\* The peer follows, in the term of its last entry or in the leader's, or has
\* stood for election in the leader's term.
Peers(log) ==
  LET Follower(t) == [New(Peer) EXCEPT !.current_term = t, !.log = log]
  IN  {Follower(last_log_term(log)), Follower(MaxTerm), become_candidate(Follower(MaxTerm - 1))}

Elected(log) ==
  become_leader(become_candidate([New(Leader) EXCEPT !.current_term = MaxTerm - 1, !.log = log]))

CatchUpInit ==
  \E a, b \in Logs :
    /\ FromSameLeaders(a, b)
    /\ \E s \in Peers(b) :
         /\ node = [n \in Nodes |-> IF n = Leader THEN Elected(a) ELSE IF n = Peer THEN s ELSE New(n)]
         /\ voters = [n \in Nodes |-> IF n = Peer /\ s.state = "candidate" THEN {Peer} ELSE {}]
    /\ net = {}

-----------------------------------------------------------------------------
Replicate == SendAppend(Leader, Peer)
Deliver == \E m \in net : HandleAppend(m)
Answer == \E m \in net : HandleAppendReply(m)
CatchUpNext == Propose(Leader) \/ Replicate \/ Deliver \/ Answer \/ \E m \in net : Lose(m)

\* The leader sends on at every heartbeat interval (should_send_heartbeat), the
\* transport does not lose everything for ever.
CatchUpSpec ==
  /\ CatchUpInit
  /\ [][CatchUpNext]_vars
  /\ WF_vars(Replicate) /\ SF_vars(Deliver) /\ SF_vars(Answer)

-----------------------------------------------------------------------------
\* The peer gets the whole log of the leader, and the leader comes to know it:
\* whatever the logs were, the refusals lead back to a common prefix, and a
\* response that arrives late, which lowers match_index_, is made good.
CatchesUp ==
  <>[](LET s == node[Leader]
       IN  /\ SameUpTo(s.log, node[Peer].log, Len(s.log))
           /\ Peer \in DOMAIN s.match_index /\ s.match_index[Peer] = Len(s.log))
=============================================================================
