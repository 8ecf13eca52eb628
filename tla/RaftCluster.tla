----------------------------- MODULE RaftCluster ----------------------------
(***************************************************************************)
(* A cluster of Raft nodes and the program that drives them.               *)
(*                                                                         *)
(* The repository has the node (RaftNode) and the messages (election.h,    *)
(* append_entries.h) and no driver: no timer, no transport, no handler of  *)
(* RequestVote.  The driver here calls the node's methods the way the      *)
(* guide of weeks 7 and 8 describes: it steps down at a higher term,       *)
(* grants a vote if can_vote_for allows it and the candidate's log is at   *)
(* least as new, counts every voter once, and gives each response to       *)
(* handle_append_entries_response together with its request.  Messages     *)
(* may be lost, overtake each other and be sent again.                     *)
(*                                                                         *)
(* One action is one call of the driver into one node: the class has no    *)
(* lock around its state, so its calls must not overlap.                   *)
(***************************************************************************)
EXTENDS RaftNode

CONSTANTS
  AddPeers,         \* whether the driver calls add_peer before a leader's first
                    \* request to a peer; otherwise it never does
  MaxTerm,          \* bound: no election above this term
  MaxLog,           \* bound: no proposal beyond this length
  MaxMessages,      \* bound: messages on the way
  MaxVotes,         \* bound: messages of elections among them
  MaxLoad           \* bound: a leader's entries and the messages of replication
                    \* on the way, together

ASSUME DriverAssumption == AddPeers \in BOOLEAN
ASSUME BoundAssumption ==
  /\ MaxTerm \in Nat /\ MaxLog \in Nat /\ MaxMessages \in Nat /\ MaxVotes \in Nat
  /\ MaxLoad \in Nat

VARIABLES
  node,     \* the state of every node
  voters,   \* the driver's record of whose votes a candidate has
  net       \* the messages on the way

vars == <<node, voters, net>>

VoteRequest(n, p) ==
  [type |-> "vote", from |-> n, to |-> p, term |-> node[n].current_term,
   last_log_index |-> last_log_index(node[n].log),
   last_log_term |-> last_log_term(node[n].log)]
VoteReply(m, term, granted) ==
  [type |-> "vote reply", from |-> m.to, to |-> m.from, asked |-> m.term,
   term |-> term, vote_granted |-> granted]
AppendRequest(s, p) ==
  [type |-> "append", from |-> s.node_id, to |-> p,
   req |-> build_append_entries_request(s, p)]
AppendReply(m, resp) ==
  [type |-> "append reply", from |-> m.to, to |-> m.from, req |-> m.req, resp |-> resp]

Votes == {m \in net : m.type \in {"vote", "vote reply"}}
Appends == net \ Votes
Send(m) == m \notin net /\ Cardinality(net) < MaxMessages /\ net' = net \cup {m}
Forget(n, s) ==
  voters' = IF s.state = "candidate" THEN voters ELSE [voters EXCEPT ![n] = {}]
Reply(m, reply) == net' = (net \ {m}) \cup {reply}

Init ==
  /\ node = [n \in Nodes |-> New(n)]
  /\ voters = [n \in Nodes |-> {}]
  /\ net = {}

-----------------------------------------------------------------------------
(* Elections *)

\* check_election_timeout has answered true.
Timeout(n) ==
  /\ node[n].state # "leader"
  /\ node[n].current_term < MaxTerm
  /\ node' = [node EXCEPT ![n] = become_candidate(@)]
  /\ voters' = [voters EXCEPT ![n] = {n}]
  /\ UNCHANGED net

RequestVote(n, p) ==
  /\ p # n
  /\ node[n].state = "candidate"
  /\ p \notin voters[n]
  /\ Cardinality(Votes) < MaxVotes
  /\ Send(VoteRequest(n, p))
  /\ UNCHANGED <<node, voters>>

UpToDate(log, m) ==
  \/ m.last_log_term > last_log_term(log)
  \/ m.last_log_term = last_log_term(log) /\ m.last_log_index >= last_log_index(log)

HandleVoteRequest(m) ==
  LET s == IF m.term > node[m.to].current_term
           THEN become_follower(node[m.to], m.term) ELSE node[m.to]
      granted == can_vote_for(s, m.from, m.term) /\ UpToDate(s.log, m)
  IN  /\ m.type = "vote"
      /\ node' = [node EXCEPT ![m.to] = IF granted THEN vote_for(s, m.from, m.term) ELSE s]
      /\ Reply(m, VoteReply(m, s.current_term, granted))
      /\ Forget(m.to, node'[m.to])

\* A vote counts once, for the term it was asked for; a majority elects.
CountVote(m) ==
  LET s == [node[m.to] EXCEPT !.voted_count = @ + 1]
      elected == s.voted_count > Cardinality(Nodes) \div 2
  IN  /\ m.type = "vote reply"
      /\ m.vote_granted
      /\ s.state = "candidate" /\ s.current_term = m.asked
      /\ m.from \notin voters[m.to]
      /\ node' = [node EXCEPT ![m.to] = IF elected THEN become_leader(s) ELSE s]
      /\ voters' = [voters EXCEPT ![m.to] = IF elected THEN {} ELSE @ \cup {m.from}]
      /\ net' = net \ {m}

StepDown(m) ==
  /\ m.type = "vote reply"
  /\ m.term > node[m.to].current_term
  /\ node' = [node EXCEPT ![m.to] = become_follower(@, m.term)]
  /\ net' = net \ {m}
  /\ Forget(m.to, node'[m.to])

-----------------------------------------------------------------------------
(* Replication *)

Propose(n) ==
  /\ node[n].state = "leader"
  /\ Len(node[n].log) < MaxLog
  /\ Len(node[n].log) + Cardinality(Appends) < MaxLoad
  /\ node' = [node EXCEPT ![n] = propose(@)]
  /\ UNCHANGED <<voters, net>>

\* A heartbeat and a replication request are the same call.
SendAppend(n, p) ==
  LET s == IF AddPeers THEN add_peer(node[n], p) ELSE node[n]
  IN  /\ p # n
      /\ s.state = "leader"
      /\ Len(s.log) + Cardinality(Appends) < MaxLoad
      /\ Send(AppendRequest(s, p))
      /\ node' = [node EXCEPT ![n] = s]
      /\ UNCHANGED voters

HandleAppend(m) ==
  LET result == handle_append_entries(node[m.to], m.req)
  IN  /\ m.type = "append"
      /\ node' = [node EXCEPT ![m.to] = result.node]
      /\ Reply(m, AppendReply(m, result.resp))
      /\ Forget(m.to, result.node)

\* The driver drops a response to a request of an earlier term, for which
\* handle_append_entries_response itself does not look.
HandleAppendReply(m) ==
  /\ m.type = "append reply"
  /\ m.req.term = node[m.to].current_term
  /\ node' = [node EXCEPT ![m.to] =
                handle_append_entries_response(@, m.from, m.req, m.resp)]
  /\ net' = net \ {m}
  /\ Forget(m.to, node'[m.to])

\* The transport loses a message, or the driver ignores it.
Lose(m) ==
  /\ net' = net \ {m}
  /\ UNCHANGED <<node, voters>>

-----------------------------------------------------------------------------
Next ==
  \/ \E n \in Nodes : Timeout(n)
  \/ \E n, p \in Nodes : RequestVote(n, p)
  \/ \E m \in net : HandleVoteRequest(m)
  \/ \E m \in net : CountVote(m)
  \/ \E m \in net : StepDown(m)
  \/ \E n \in Nodes : Propose(n)
  \/ \E n, p \in Nodes : SendAppend(n, p)
  \/ \E m \in net : HandleAppend(m)
  \/ \E m \in net : HandleAppendReply(m)
  \/ \E m \in net : Lose(m)

Spec == Init /\ [][Next]_vars

-----------------------------------------------------------------------------
(* Invariants *)

VoteMessage ==
  [type : {"vote"}, from : Nodes, to : Nodes, term : Nat,
   last_log_index : Nat, last_log_term : Nat]
VoteReplyMessage ==
  [type : {"vote reply"}, from : Nodes, to : Nodes, asked : Nat, term : Nat,
   vote_granted : BOOLEAN]
AppendMessage ==
  [type : {"append"}, from : Nodes, to : Nodes, req : AppendEntriesRequest]
AppendReplyMessage ==
  [type : {"append reply"}, from : Nodes, to : Nodes, req : AppendEntriesRequest,
   resp : AppendEntriesResponse]

\* Nodes and messages are what RaftNode says they are; in particular next_index_
\* never reaches the dummy entry 0, from which a request would have no previous
\* entry, and no index that nodes tell each other falls below 0.
TypeOK ==
  /\ DOMAIN node = Nodes
  /\ \A n \in Nodes : IsNode(node[n]) /\ node[n].node_id = n
  /\ voters \in [Nodes -> SUBSET Nodes]
  /\ net \subseteq VoteMessage \cup VoteReplyMessage \cup AppendMessage \cup AppendReplyMessage

\* No two nodes are leaders of the same term: a node gives its vote of a term
\* away once, however requests, replies and elections of several terms mix.
ElectionSafety ==
  \A n, p \in Nodes :
    /\ node[n].state = "leader" /\ node[p].state = "leader"
    /\ node[n].current_term = node[p].current_term
    => n = p

\* Two logs with an entry of the same index and term agree up to there: the
\* check of the previous entry and the cut at the first conflict keep it so
\* through requests that are late, repeated or overtaken.
LogMatching ==
  \A n, p \in Nodes : \A i \in DOMAIN node[n].log \cap DOMAIN node[p].log :
    node[n].log[i].term = node[p].log[i].term
    => SubSeq(node[n].log, 1, i) = SubSeq(node[p].log, 1, i)

\* An entry's index is its position, so that get and last_log_index agree:
\* append pushes an entry whatever its index is.
IndexIsPosition ==
  \A n \in Nodes : \A i \in DOMAIN node[n].log : node[n].log[i].index = i

\* Agree up to index k
SameUpTo(a, b, k) == k <= Len(a) /\ k <= Len(b) /\ SubSeq(a, 1, k) = SubSeq(b, 1, k)

\* What a leader takes for replicated on a peer is there: match_index_ of a
\* peer that has seen no later term is the length of a common prefix.
MatchIsReplicated ==
  \A n, p \in Nodes :
    /\ node[n].state = "leader"
    /\ p \in DOMAIN node[n].match_index
    /\ node[p].current_term <= node[n].current_term
    => SameUpTo(node[n].log, node[p].log, node[n].match_index[p])

\* A refused request makes the leader go back: the response names an entry at
\* or before the one that was missing, unless its term deposes the leader.
RefusalGoesBack ==
  \A m \in net :
    /\ m.type = "append reply"
    /\ ~m.resp.success /\ m.resp.term <= m.req.term
    => m.resp.conflict_index \in 1 .. m.req.prev_log_index

-----------------------------------------------------------------------------
(* Action properties *)

\* A leader never cuts or changes its own log while it stays leader.
LeaderAppendOnly ==
  [][\A n \in Nodes :
       node[n].state = "leader" /\ node'[n].state = "leader"
       => SameUpTo(node[n].log, node'[n].log, Len(node[n].log))]_vars

\* Terms never fall, and a vote given in a term is never given to another.
VoteKept ==
  [][\A n \in Nodes :
       /\ node'[n].current_term >= node[n].current_term
       /\ node'[n].current_term = node[n].current_term /\ node[n].voted_for # Nobody
          => node'[n].voted_for = node[n].voted_for]_vars

\* An entry of a node's current term stays in its log as long as the term
\* lasts: a request that a longer one has overtaken cuts nothing off.
EntriesOfTermKept ==
  [][\A n \in Nodes : \A i \in DOMAIN node[n].log :
       node[n].log[i].term = node'[n].current_term
       => i \in DOMAIN node'[n].log /\ node'[n].log[i] = node[n].log[i]]_vars

-----------------------------------------------------------------------------
(* What the documents say, for the runs that refute it *)

\* An entry is committed once a majority of the nodes has it ("多数派
\* match_index[peer] >= N").
MajorityCommits ==
  [][\A n \in Nodes :
       node'[n].state = "leader" /\ node'[n].commit_index > node[n].commit_index
       => 2 * Cardinality({p \in Nodes :
                SameUpTo(node[n].log, node'[p].log, node'[n].commit_index)})
          > Cardinality(Nodes)]_vars

\* A request names the entry before its own, heartbeats too ("仍然包含
\* prev_log_index、prev_log_term、leader_commit"), so a node that is not a leader
\* commits only entries that the leader of its term has in the same place.
CommitsLeadersEntries ==
  [][\A n, p \in Nodes :
       /\ node'[n].commit_index > node[n].commit_index
       /\ node'[n].state # "leader"
       /\ node'[p].state = "leader"
       /\ node'[p].current_term = node'[n].current_term
       => SameUpTo(node'[n].log, node'[p].log, node'[n].commit_index)]_vars
=============================================================================
