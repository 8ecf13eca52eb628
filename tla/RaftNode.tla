------------------------------ MODULE RaftNode -----------------------------
(***************************************************************************)
(* One Raft node: the methods of RaftNode (src/raft/raft_node.h) over the  *)
(* LogManager of log_entry.h, as operators from the node's state to its    *)
(* next state.  The class is passive: it keeps no thread, sends nothing    *)
(* and persists nothing; RaftCluster calls it.                             *)
(*                                                                         *)
(* A log entry is its term and its index; the command plays no part in any *)
(* decision.  The log is the vector without its dummy entry 0.  The clock  *)
(* is left out: whether a timeout has expired is up to the caller.         *)
(***************************************************************************)
EXTENDS Naturals, Sequences, FiniteSets

CONSTANTS
  Nodes,       \* the ids of the cluster's nodes; cluster_size_ is their number
  Nobody,      \* std::nullopt in voted_for_
  MaxUint64    \* what 0 - 1 gives in uint64_t

ASSUME NobodyAssumption == Nobody \notin Nodes
ASSUME NodesAssumption == IsFiniteSet(Nodes) /\ Nodes # {}
ASSUME MaxAssumption == MaxUint64 \in Nat \ {0}

State == {"follower", "candidate", "leader"}
LogEntry == [term : Nat, index : Nat]
\* An unordered_map from peers to indexes
IndexMap(f) == DOMAIN f \subseteq Nodes /\ f \in [DOMAIN f -> Nat]
\* next_index_ starts behind the dummy entry 0: entry 0 is never to be sent.
NextMap(f) == IndexMap(f) /\ \A p \in DOMAIN f : f[p] > 0
IsNode(s) ==
  /\ s \in [node_id : Nodes, current_term : Nat, voted_for : Nodes \cup {Nobody},
            state : State, voted_count : Nat, log : Seq(LogEntry), commit_index : Nat,
            next_index : {s.next_index}, match_index : {s.match_index}]
  /\ NextMap(s.next_index) /\ IndexMap(s.match_index)

AppendEntriesRequest ==
  [term : Nat, leader_id : Nodes, prev_log_index : Nat, prev_log_term : Nat,
   entries : Seq(LogEntry), leader_commit : Nat]
AppendEntriesResponse == [term : Nat, success : BOOLEAN, conflict_index : Nat]

Least(S) == CHOOSE i \in S : \A j \in S : i <= j
Greatest(S) == CHOOSE i \in S : \A j \in S : j <= i
AtMost(i, j) == IF i <= j THEN i ELSE j
NoIndexes == [p \in {} |-> 0]
Store(f, p, i) == [q \in DOMAIN f \cup {p} |-> IF q = p THEN i ELSE f[q]]

\* The constructor
New(n) ==
  [node_id |-> n, current_term |-> 0, voted_for |-> Nobody, state |-> "follower",
   voted_count |-> 0, log |-> <<>>, commit_index |-> 0,
   next_index |-> NoIndexes, match_index |-> NoIndexes]

-----------------------------------------------------------------------------
(* LogManager *)

last_log_index(log) == IF log = <<>> THEN 0 ELSE log[Len(log)].index
last_log_term(log) == IF log = <<>> THEN 0 ELSE log[Len(log)].term
get_entries_from(log, i) == IF i \in DOMAIN log THEN SubSeq(log, i, Len(log)) ELSE <<>>

-----------------------------------------------------------------------------
(* Terms and votes *)

become_follower(s, new_term) ==
  [s EXCEPT !.state = "follower",
            !.voted_count = 0,
            !.current_term = IF new_term > @ THEN new_term ELSE @,
            !.voted_for = IF new_term > s.current_term THEN Nobody ELSE @,
            !.next_index = NoIndexes,
            !.match_index = NoIndexes]

become_candidate(s) ==
  [s EXCEPT !.state = "candidate",
            !.current_term = @ + 1,
            !.voted_for = s.node_id,
            !.voted_count = 1,
            !.next_index = NoIndexes,
            !.match_index = NoIndexes]

\* initialize_leader_state sets the entries that are there and adds none.
become_leader(s) ==
  [s EXCEPT !.state = "leader",
            !.voted_count = 0,
            !.next_index = [p \in DOMAIN @ |-> last_log_index(s.log) + 1],
            !.match_index = [p \in DOMAIN @ |-> 0]]

can_vote_for_AnyTime(s, candidate, term) == term >= s.current_term \* mutant: votes again
can_vote_for(s, candidate, term) ==
  \/ term > s.current_term
  \/ term = s.current_term /\ s.voted_for \in {Nobody, candidate}

vote_for(s, candidate, term) ==
  [s EXCEPT !.voted_for = candidate,
            !.current_term = IF term > @ THEN term ELSE @]

add_peer(s, p) ==
  IF p \in DOMAIN s.next_index THEN s
  ELSE [s EXCEPT !.next_index = Store(@, p, last_log_index(s.log) + 1),
                 !.match_index = Store(@, p, 0)]

-----------------------------------------------------------------------------
(* The leader *)

propose(s) ==
  LET i == last_log_index(s.log) + 1
  IN  [s EXCEPT !.log = Append(@, [term |-> s.current_term, index |-> i]),
                !.match_index = Store(@, s.node_id, i),
                !.next_index = Store(@, s.node_id, i + 1)]

\* A peer without an entry in next_index_ gets no entries and prev_log_index 0.
build_append_entries_request(s, p) ==
  LET known == p \in DOMAIN s.next_index
      prev == IF known /\ s.next_index[p] > 0 THEN s.next_index[p] - 1 ELSE 0
  IN  [term |-> s.current_term, leader_id |-> s.node_id,
       prev_log_index |-> prev,
       prev_log_term |-> IF prev \in DOMAIN s.log THEN s.log[prev].term ELSE 0,
       entries |-> IF known THEN get_entries_from(s.log, s.next_index[p]) ELSE <<>>,
       leader_commit |-> s.commit_index]

\* The largest entry of the leader's term above commit_index_ that the count
\* takes for replicated on a majority: the count starts at 1 for the leader
\* and then goes through match_index_, where propose has put the leader too.
Count(s, n) == 1 + Cardinality({p \in DOMAIN s.match_index : s.match_index[p] >= n})
Commitable(s) ==
  {n \in s.commit_index + 1 .. last_log_index(s.log) :
     /\ n \in DOMAIN s.log /\ s.log[n].term = s.current_term
     /\ Count(s, n) > Cardinality(Nodes) \div 2}
update_commit_index(s) ==
  IF s.state = "leader" /\ Commitable(s) # {}
  THEN [s EXCEPT !.commit_index = Greatest(Commitable(s))]
  ELSE s

\* operator[] of next_index_ gives 0 for an absent peer, and 0 - 1 wraps.
StepBack(s, p) ==
  LET next == IF p \in DOMAIN s.next_index THEN s.next_index[p] ELSE 0
  IN  IF next = 0 THEN MaxUint64 ELSE IF next = 1 THEN 1 ELSE next - 1

Matched(req) == req.prev_log_index + Len(req.entries)

handle_append_entries_response(s, p, req, resp) ==
  IF resp.term > s.current_term THEN become_follower(s, resp.term)
  ELSE IF s.state # "leader" THEN s
  ELSE IF resp.success
  THEN update_commit_index(
         [s EXCEPT !.match_index = Store(@, p, Matched(req)),
                   !.next_index = Store(@, p, Matched(req) + 1)])
  ELSE [s EXCEPT !.next_index =
          Store(@, p, IF resp.conflict_index > 0 THEN resp.conflict_index ELSE StepBack(s, p))]

-----------------------------------------------------------------------------
(* The follower *)

\* The loop over the entries: an entry the log has is skipped; from the first
\* one that is missing or has another term on, the log is cut and appended to.
Unmatched(log, entries) ==
  {i \in DOMAIN entries :
     \/ entries[i].index \notin DOMAIN log
     \/ log[entries[i].index].term # entries[i].term}
MergedUncut(log, entries) == \* mutant: truncate_from is left out
  IF Unmatched(log, entries) = {} THEN log
  ELSE log \o SubSeq(entries, Least(Unmatched(log, entries)), Len(entries))
MergedAtOnce(log, entries) == \* mutant: cuts whether or not there is a conflict
  IF entries = <<>> THEN log ELSE SubSeq(log, 1, entries[1].index - 1) \o entries
Merged(log, entries) ==
  IF Unmatched(log, entries) = {} THEN log
  ELSE LET first == Least(Unmatched(log, entries))
       IN  SubSeq(log, 1, entries[first].index - 1) \o SubSeq(entries, first, Len(entries))

FirstOfTerm(log, term) == Least({i \in DOMAIN log : log[i].term = term})

\* The request's previous entry is in the log.
PrevFoundNoTerm(log, req) == req.prev_log_index \in DOMAIN log \cup {0} \* mutant
PrevFound(log, req) ==
  \/ req.prev_log_index = 0
  \/ /\ req.prev_log_index \in DOMAIN log
     /\ log[req.prev_log_index].term = req.prev_log_term

\* Where the leader is told to go on: behind the end of the log, or at the
\* first entry of the term that stands in the way.
ConflictIndexLast(log, req) == last_log_index(log) \* mutant: not behind the end
ConflictIndexLess(log, req) == last_log_index(log) - 1 \* mutant: below the first entry
ConflictIndexBehind(log, req) == \* mutant: behind the term that stands in the way
  IF req.prev_log_index \notin DOMAIN log THEN last_log_index(log) + 1
  ELSE Greatest({i \in DOMAIN log : log[i].term = log[req.prev_log_index].term}) + 1
ConflictIndex(log, req) ==
  IF req.prev_log_index \notin DOMAIN log THEN last_log_index(log) + 1
  ELSE FirstOfTerm(log, log[req.prev_log_index].term)

\* The node as it is once it has seen the request's term.
HeardInAnyState(s, req) == \* mutant: a leader or candidate does not step down
  [s EXCEPT !.current_term = IF req.term > @ THEN req.term ELSE @,
            !.voted_for = IF req.term > s.current_term THEN Nobody ELSE @]
Heard(s, req) ==
  LET t == [s EXCEPT !.current_term = IF req.term > @ THEN req.term ELSE @,
                     !.voted_for = IF req.term > s.current_term THEN Nobody ELSE @]
  IN  IF s.state = "follower" THEN t ELSE become_follower(t, t.current_term)

\* The node and its response; resp.term is the term before the request.
handle_append_entries(s, req) ==
  LET resp == [term |-> s.current_term, success |-> FALSE, conflict_index |-> 0]
      t == Heard(s, req)
      log == Merged(t.log, req.entries)
  IN  IF req.term < s.current_term THEN [node |-> s, resp |-> resp]
      ELSE IF ~PrevFound(t.log, req)
      THEN [node |-> t,
            resp |-> [resp EXCEPT !.conflict_index = ConflictIndex(t.log, req)]]
      ELSE [node |-> [t EXCEPT !.log = log,
                               !.commit_index = IF req.leader_commit > @
                                 THEN AtMost(req.leader_commit, last_log_index(log)) ELSE @],
            resp |-> [resp EXCEPT !.success = TRUE]]
=============================================================================
