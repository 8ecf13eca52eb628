----------------------------- MODULE RaftProofs -----------------------------
(***************************************************************************)
(* Theorems about RaftCluster, for every number of nodes and every value   *)
(* of the bounds: the elections, in which the replicated log plays no part *)
(* and what the methods do to it stays opaque; then the types, the indexes *)
(* and what the methods do to a log.                                       *)
(***************************************************************************)
EXTENDS RaftCluster, FiniteSetTheorems, SequenceTheorems, WellFoundedInduction, TLAPS

-----------------------------------------------------------------------------
(* One node *)

\* The fields that elections are about have their types.
Shape(s) ==
  s \in [node_id : Nodes, current_term : Nat, voted_for : Nodes \cup {Nobody},
         state : State, voted_count : Nat, log : {s.log}, commit_index : {s.commit_index},
         next_index : {s.next_index}, match_index : {s.match_index}]

\* What every call that grants no vote and starts or wins no election does.
Quiet(s, t) ==
  /\ t.node_id = s.node_id
  /\ \/ t.current_term = s.current_term /\ t.voted_for = s.voted_for
     \/ t.current_term > s.current_term /\ t.voted_for = Nobody
  /\ \/ t.state = "follower"
     \/ /\ t.state = s.state /\ t.current_term = s.current_term
        /\ t.voted_count = s.voted_count

\* A vote survives the step, as VoteKept says, and a candidacy takes a new term.
Keeps(s, t) ==
  /\ t.current_term >= s.current_term
  /\ t.current_term = s.current_term /\ s.voted_for # Nobody => t.voted_for = s.voted_for
  /\ t.state = "candidate" => s.state = "candidate" \/ t.current_term > s.current_term

\* Nothing happens: the simplest quiet call.
LEMMA QuietSelf ==
  ASSUME NEW s, Shape(s)
  PROVE  Quiet(s, s)
  BY DEF Quiet, Shape

\* Quiet calls keep votes.
LEMMA QuietKeeps ==
  ASSUME NEW s, Shape(s), NEW t, Shape(t), Quiet(s, t)
  PROVE  Keeps(s, t)
  BY DEF Quiet, Keeps, Shape

\* become_follower is quiet, and takes the later of the two terms.
LEMMA BecomeFollowerQuiet ==
  ASSUME NEW s, Shape(s), NEW term \in Nat
  PROVE  LET t == become_follower(s, term)
         IN  /\ Shape(t) /\ Quiet(s, t)
             /\ t.state = "follower"
             /\ t.current_term = IF term > s.current_term THEN term ELSE s.current_term
  BY DEF become_follower, Shape, Quiet, State

\* become_candidate starts a term of its own with the node's own vote.
LEMMA BecomeCandidateFacts ==
  ASSUME NEW s, Shape(s)
  PROVE  LET t == become_candidate(s)
         IN  /\ Shape(t) /\ t.node_id = s.node_id /\ t.state = "candidate"
             /\ t.current_term = s.current_term + 1 /\ t.voted_for = s.node_id
             /\ t.voted_count = 1
<1>. DEFINE t == become_candidate(s)
<1>1. t.node_id = s.node_id /\ t.state = "candidate" /\ t.voted_count = 1
  BY DEF become_candidate, Shape
<1>2. t.current_term = s.current_term + 1
  BY DEF become_candidate, Shape
<1>3. t.voted_for = s.node_id
  BY DEF become_candidate, Shape
<1>4. Shape(t)
  <2>. DEFINE term == s.current_term + 1
              me == s.node_id
              u == [s EXCEPT !.state = "candidate", !.current_term = term,
                             !.voted_for = me, !.voted_count = 1]
  <2>1. Shape(u)
    <3>1. term \in Nat /\ me \in Nodes
      BY DEF Shape
    <3>. HIDE DEF term, me
    <3>. QED
      BY <3>1 DEF Shape, State
  <2>2. t = [u EXCEPT !.next_index = NoIndexes, !.match_index = NoIndexes]
    BY DEF become_candidate
  <2>. HIDE DEF t, u
  <2>. QED
    BY <2>1, <2>2 DEF Shape
<1>. QED
  BY <1>1, <1>2, <1>3, <1>4

\* add_peer, propose and update_commit_index touch the log's bookkeeping only.
LEMMA LogCallsQuiet ==
  ASSUME NEW s, Shape(s), NEW p
  PROVE  /\ Shape(add_peer(s, p)) /\ Quiet(s, add_peer(s, p))
         /\ Shape(propose(s)) /\ Quiet(s, propose(s))
         /\ Shape(update_commit_index(s)) /\ Quiet(s, update_commit_index(s))
<1>1. Shape(add_peer(s, p)) /\ Quiet(s, add_peer(s, p))
  BY DEF add_peer, Shape, Quiet
<1>2. Shape(propose(s)) /\ Quiet(s, propose(s))
  BY DEF propose, Shape, Quiet
<1>3. Shape(update_commit_index(s)) /\ Quiet(s, update_commit_index(s))
  BY DEF update_commit_index, Shape, Quiet
<1>. QED
  BY <1>1, <1>2, <1>3

\* handle_append_entries_response is quiet.
LEMMA ResponseQuiet ==
  ASSUME NEW s, Shape(s), NEW p, NEW req, NEW resp, resp.term \in Nat
  PROVE  LET t == handle_append_entries_response(s, p, req, resp)
         IN  Shape(t) /\ Quiet(s, t)
<1>. DEFINE t == handle_append_entries_response(s, p, req, resp)
<1>. SUFFICES Shape(t) /\ Quiet(s, t)
  OBVIOUS
<1>1. CASE resp.term > s.current_term
  BY <1>1, BecomeFollowerQuiet DEF handle_append_entries_response
<1>2. CASE resp.term <= s.current_term /\ s.state # "leader"
  <2>1. t = s
    BY <1>2 DEF handle_append_entries_response, Shape
  <2>. QED
    BY <2>1, QuietSelf
<1>3. CASE resp.term <= s.current_term /\ s.state = "leader" /\ resp.success
  <2>. DEFINE u == [s EXCEPT !.match_index = Store(@, p, Matched(req)),
                             !.next_index = Store(@, p, Matched(req) + 1)]
  <2>1. Shape(u) /\ Quiet(s, u) /\ u.state = s.state /\ u.current_term = s.current_term
          /\ u.voted_for = s.voted_for /\ u.voted_count = s.voted_count
    BY DEF Shape, Quiet
  <2>2. t = update_commit_index(u)
    BY <1>3 DEF handle_append_entries_response, Shape
  <2>3. Shape(t) /\ Quiet(u, t)
    BY <2>1, <2>2, LogCallsQuiet
  <2>. QED
    BY <2>1, <2>3 DEF Quiet
<1>4. CASE resp.term <= s.current_term /\ s.state = "leader" /\ ~resp.success
  <2>. DEFINE i == IF resp.conflict_index > 0 THEN resp.conflict_index ELSE StepBack(s, p)
  <2>1. t = [s EXCEPT !.next_index = Store(@, p, i)]
    BY <1>4 DEF handle_append_entries_response, Shape
  <2>. HIDE DEF i, t
  <2>. QED
    BY <2>1 DEF Shape, Quiet
<1>. QED
  BY <1>1, <1>2, <1>3, <1>4 DEF Shape

\* handle_append_entries is quiet and answers with a term.
LEMMA AppendQuiet ==
  ASSUME NEW s, Shape(s), NEW req, req.term \in Nat
  PROVE  LET r == handle_append_entries(s, req)
         IN  Shape(r.node) /\ Quiet(s, r.node) /\ r.resp.term \in Nat
<1>. DEFINE t == Heard(s, req)
            u == [s EXCEPT !.current_term = IF req.term > @ THEN req.term ELSE @,
                           !.voted_for = IF req.term > s.current_term THEN Nobody ELSE @]
            log == Merged(t.log, req.entries)
            r == handle_append_entries(s, req)
            resp == [term |-> s.current_term, success |-> FALSE, conflict_index |-> 0]
<1>. SUFFICES Shape(r.node) /\ Quiet(s, r.node) /\ r.resp.term \in Nat
  OBVIOUS
<1>1. /\ Shape(u) /\ u.node_id = s.node_id /\ u.state = s.state
      /\ \/ u.current_term = s.current_term /\ u.voted_for = s.voted_for
         \/ u.current_term > s.current_term /\ u.voted_for = Nobody
  <2>1. CASE req.term > s.current_term
    <3>1. u = [s EXCEPT !.current_term = req.term, !.voted_for = Nobody]
      BY <2>1 DEF Shape
    <3>. HIDE DEF u
    <3>. QED
      BY <2>1, <3>1 DEF Shape
  <2>2. CASE ~(req.term > s.current_term)
    <3>1. u = s
      BY <2>2 DEF Shape
    <3>. HIDE DEF u
    <3>2. s.current_term \in Nat
      BY DEF Shape
    <3>. QED
      BY <3>1, <3>2
  <2>. QED
    BY <2>1, <2>2
<1>2. Shape(t) /\ Quiet(s, t)
  <2>1. CASE s.state = "follower"
    BY <1>1, <2>1 DEF Heard, Quiet
  <2>2. CASE s.state # "follower"
    <3>1. t = become_follower(u, u.current_term)
      BY <2>2 DEF Heard
    <3>. HIDE DEF u, t
    <3>2. u.current_term \in Nat
      BY <1>1 DEF Shape
    <3>3. Shape(t) /\ Quiet(u, t) /\ t.state = "follower" /\ t.current_term = u.current_term
      BY <1>1, <3>1, <3>2, BecomeFollowerQuiet
    <3>. QED
      BY <1>1, <3>3 DEF Quiet, Shape
  <2>. QED
    BY <2>1, <2>2
<1>3. CASE req.term < s.current_term
  <2>1. r = [node |-> s, resp |-> resp]
    BY <1>3 DEF handle_append_entries
  <2>. QED
    BY <2>1, QuietSelf DEF Shape
<1>4. CASE ~(req.term < s.current_term) /\ ~PrevFound(t.log, req)
  <2>1. r = [node |-> t,
             resp |-> [resp EXCEPT !.conflict_index = ConflictIndex(t.log, req)]]
    BY <1>4 DEF handle_append_entries
  <2>. HIDE DEF t, r
  <2>. QED
    BY <1>2, <2>1 DEF Shape
<1>5. CASE ~(req.term < s.current_term) /\ PrevFound(t.log, req)
  <2>. DEFINE c == IF req.leader_commit > t.commit_index
                   THEN AtMost(req.leader_commit, last_log_index(log)) ELSE t.commit_index
  <2>1. r = [node |-> [t EXCEPT !.log = log, !.commit_index = c],
             resp |-> [resp EXCEPT !.success = TRUE]]
    BY <1>2, <1>5 DEF handle_append_entries, Shape
  <2>. HIDE DEF t, r, c, log
  <2>. QED
    BY <1>2, <2>1 DEF Shape, Quiet
<1>. QED
  BY <1>3, <1>4, <1>5
-----------------------------------------------------------------------------
(* Who has whose vote *)

MessageOK(m) ==
  /\ m.from \in Nodes /\ m.to \in Nodes
  /\ m.type \in {"vote", "vote reply", "append", "append reply"}
  /\ m.type = "vote" => m.term \in Nat
  /\ m.type = "vote reply" => m.asked \in Nat /\ m.term \in Nat
  /\ m.type = "append" => m.req.term \in Nat
  /\ m.type = "append reply" => m.resp.term \in Nat

Shapes ==
  /\ DOMAIN node = Nodes
  /\ \A n \in Nodes : Shape(node[n]) /\ node[n].node_id = n
  /\ voters \in [Nodes -> SUBSET Nodes]
  /\ \A m \in net : MessageOK(m)

\* There is a sign of q's vote for n in a term: q still says so, its reply is
\* on the way, or the candidate n has counted it.
Counted(q, n, term) ==
  node[n].state = "candidate" /\ node[n].current_term = term /\ q \in voters[n]
Granted(q, n, term) ==
  \E m \in net : /\ m.type = "vote reply" /\ m.vote_granted
                 /\ m.from = q /\ m.to = n /\ m.asked = term
VotedFor(q, n, term) == node[q].current_term = term /\ node[q].voted_for = n
Signed(q, n, term) == Counted(q, n, term) \/ Granted(q, n, term) \/ VotedFor(q, n, term)

\* q cannot vote for another node in this term any more.
Bound(q, n, term) ==
  /\ node[q].current_term >= term
  /\ node[q].current_term = term => node[q].voted_for = n
Exclusive(q, n, term) == \A p \in Nodes : Signed(q, p, term) => p = n
Sealed(q, n, term) == Bound(q, n, term) /\ Exclusive(q, n, term)

\* The inductive invariant: votes are signed for one node per term, a candidate
\* counts right, and a majority stands exclusively behind a leader.
SignaturesBind == \A q, n \in Nodes : \A term \in Nat : Signed(q, n, term) => Bound(q, n, term)
OneSignature == \A q, n \in Nodes : \A term \in Nat : Signed(q, n, term) => Exclusive(q, n, term)
CountIsRight ==
  \A n \in Nodes : node[n].state = "candidate" => node[n].voted_count = Cardinality(voters[n])
Majority(n, term) ==
  \E Q \in SUBSET Nodes :
    /\ Cardinality(Q) > Cardinality(Nodes) \div 2
    /\ \A q \in Q : Sealed(q, n, term)
Backed(n) == Majority(n, node[n].current_term)
LeadersAreBacked == \A n \in Nodes : node[n].state = "leader" => Backed(n)
Elections ==
  /\ Shapes
  /\ SignaturesBind
  /\ OneSignature
  /\ CountIsRight
  /\ LeadersAreBacked
  /\ ElectionSafety
-----------------------------------------------------------------------------
(* Steps *)

\* A vote that binds a node before a step binds it afterwards.
LEMMA BoundKept ==
  ASSUME Shapes, Shapes', NEW q \in Nodes, NEW n \in Nodes, NEW term \in Nat,
         Keeps(node[q], node'[q]), Bound(q, n, term)
  PROVE  Bound(q, n, term)'
<1>1. /\ node[q].current_term \in Nat /\ node'[q].current_term \in Nat
      /\ n # Nobody
  BY NobodyAssumption DEF Shapes, Shape
<1>. QED
  BY <1>1 DEF Bound, Keeps

\* What every step does: votes are kept, and so are the majorities.
AllKeep ==
  /\ \A q \in Nodes : Keeps(node[q], node'[q])
  /\ \A n \in Nodes : \A term \in Nat : Majority(n, term) => Majority(n, term)'

\* q is free to vote for p in a term: it is bound to no other node.
Free(q, p, term) == \A n \in Nodes : Bound(q, n, term) => n = p

\* The invariant survives a step if every vote is kept and every new sign comes
\* from a node that was free to give it and says so afterwards.
LEMMA SignsStep ==
  ASSUME Elections, Shapes', CountIsRight', ElectionSafety',
         \A q \in Nodes : Keeps(node[q], node'[q]),
         \A q, p \in Nodes : \A term \in Nat :
           Signed(q, p, term)' =>
             \/ Signed(q, p, term)
             \/ VotedFor(q, p, term)' /\ Free(q, p, term),
         \A n \in Nodes : node'[n].state = "leader" =>
           Backed(n) /\ node'[n].current_term = node[n].current_term
  PROVE  Elections' /\ AllKeep
<1>1. SignaturesBind'
  <2>. SUFFICES ASSUME NEW q \in Nodes, NEW n \in Nodes, NEW term \in Nat, Signed(q, n, term)'
                PROVE  Bound(q, n, term)'
    BY DEF SignaturesBind
  <2>1. CASE Signed(q, n, term)
    <3>1. Bound(q, n, term)
      BY <2>1 DEF Elections, SignaturesBind
    <3>. QED
      BY <3>1, BoundKept DEF Elections
  <2>2. CASE VotedFor(q, n, term)'
    BY <2>2 DEF VotedFor, Bound, Shapes, Shape
  <2>. QED
    BY <2>1, <2>2
<1>2. ASSUME NEW q \in Nodes, NEW n \in Nodes, NEW term \in Nat,
             Bound(q, n, term), Exclusive(q, n, term)
      PROVE  Exclusive(q, n, term)'
  <2>. SUFFICES ASSUME NEW p \in Nodes, Signed(q, p, term)'
                PROVE  p = n
    BY DEF Exclusive
  <2>1. CASE Signed(q, p, term)
    BY <1>2, <2>1 DEF Exclusive
  <2>2. CASE Free(q, p, term)
    BY <1>2, <2>2 DEF Free
  <2>. QED
    BY <2>1, <2>2
<1>3. OneSignature'
  <2>. SUFFICES ASSUME NEW q \in Nodes, NEW n \in Nodes, NEW term \in Nat, Signed(q, n, term)',
                       NEW p \in Nodes, Signed(q, p, term)'
                PROVE  p = n
    BY DEF OneSignature, Exclusive
  <2>1. CASE Signed(q, n, term)
    BY <1>2, <2>1 DEF Elections, SignaturesBind, OneSignature, Exclusive
  <2>2. CASE Signed(q, p, term)
    <3>1. Exclusive(q, p, term)'
      BY <1>2, <2>2 DEF Elections, SignaturesBind, OneSignature
    <3>. QED
      BY <3>1 DEF Exclusive
  <2>3. CASE VotedFor(q, n, term)' /\ VotedFor(q, p, term)'
    BY <2>3 DEF VotedFor
  <2>. QED
    BY <2>1, <2>2, <2>3
<1>4. ASSUME NEW n \in Nodes, NEW term \in Nat, Majority(n, term)
      PROVE  Majority(n, term)'
  <2>1. PICK Q \in SUBSET Nodes :
          /\ Cardinality(Q) > Cardinality(Nodes) \div 2
          /\ \A q \in Q : Bound(q, n, term) /\ Exclusive(q, n, term)
    BY <1>4 DEF Majority, Sealed
  <2>2. ASSUME NEW q \in Q
        PROVE  Bound(q, n, term)' /\ Exclusive(q, n, term)'
    BY <1>2, <2>1, BoundKept DEF Elections
  <2>. QED
    BY <2>1, <2>2 DEF Majority, Sealed
<1>5. LeadersAreBacked'
  <2>. SUFFICES ASSUME NEW n \in Nodes, node'[n].state = "leader"
                PROVE  Backed(n)'
    BY DEF LeadersAreBacked
  <2>1. node[n].current_term \in Nat /\ node'[n].current_term = node[n].current_term
    BY DEF Elections, Shapes, Shape
  <2>2. Majority(n, node[n].current_term)'
    BY <1>4, <2>1 DEF Backed
  <2>. QED
    BY <2>1, <2>2 DEF Backed
<1>. QED
  BY <1>1, <1>3, <1>4, <1>5 DEF Elections, AllKeep
\* A quiet call of one node that adds no granted vote to the messages.
LEMMA QuietStep ==
  ASSUME Elections, NEW n \in Nodes, NEW t, Shape(t), Quiet(node[n], t),
         DOMAIN node' = Nodes, \A q \in Nodes : node'[q] = IF q = n THEN t ELSE node[q],
         \/ voters' = voters
         \/ t.state # "candidate" /\ voters' = [voters EXCEPT ![n] = {}],
         \A m \in net' :
           MessageOK(m) /\ (m.type = "vote reply" /\ m.vote_granted => m \in net)
  PROVE  Elections' /\ AllKeep
<1>1. \A q \in Nodes : Shape(node[q]) /\ Shape(node'[q]) /\ Quiet(node[q], node'[q])
  BY QuietSelf DEF Elections, Shapes
<1>2. \A q \in Nodes : Keeps(node[q], node'[q])
  BY <1>1, QuietKeeps
<1>3. Shapes'
  <2>1. DOMAIN node' = Nodes /\ voters' \in [Nodes -> SUBSET Nodes]
    BY DEF Elections, Shapes
  <2>2. \A q \in Nodes : node'[q].node_id = q
    BY <1>1 DEF Quiet, Elections, Shapes
  <2>. QED
    BY <1>1, <2>1, <2>2 DEF Shapes
<1>4. ASSUME NEW q \in Nodes, node'[q].state = "candidate"
      PROVE  /\ voters'[q] = voters[q] /\ node[q].state = "candidate"
             /\ node'[q].current_term = node[q].current_term
             /\ node'[q].voted_count = node[q].voted_count
  <2>1. /\ node[q].state = "candidate"
        /\ node'[q].current_term = node[q].current_term
        /\ node'[q].voted_count = node[q].voted_count
    BY <1>1, <1>4 DEF Quiet
  <2>2. voters'[q] = voters[q]
    BY <1>4 DEF Elections, Shapes
  <2>. QED
    BY <2>1, <2>2
<1>5. CountIsRight'
  BY <1>4 DEF Elections, CountIsRight
<1>6. ASSUME NEW q \in Nodes, node'[q].state = "leader"
      PROVE  node[q].state = "leader" /\ node'[q].current_term = node[q].current_term
  BY <1>1, <1>6 DEF Quiet
<1>7. ElectionSafety'
  BY <1>6 DEF Elections, ElectionSafety
<1>8. ASSUME NEW q \in Nodes, NEW p \in Nodes, NEW term \in Nat, Signed(q, p, term)'
      PROVE  Signed(q, p, term)
  <2>1. CASE Counted(q, p, term)'
    BY <1>4, <2>1 DEF Counted, Signed
  <2>2. CASE Granted(q, p, term)'
    BY <2>2 DEF Granted, Signed
  <2>3. CASE VotedFor(q, p, term)'
    <3>1. node'[q].voted_for # Nobody
      BY <2>3, NobodyAssumption DEF VotedFor
    <3>2. VotedFor(q, p, term)
      BY <1>1, <2>3, <3>1 DEF VotedFor, Quiet
    <3>. QED
      BY <3>2 DEF Signed
  <2>. QED
    BY <1>8, <2>1, <2>2, <2>3 DEF Signed
<1>9. \A q \in Nodes : node'[q].state = "leader" =>
         Backed(q) /\ node'[q].current_term = node[q].current_term
  BY <1>6 DEF Elections, LeadersAreBacked
<1>. QED
  BY <1>2, <1>3, <1>5, <1>7, <1>8, <1>9, SignsStep

\* Nothing happens to the nodes.
LEMMA IdleStep ==
  ASSUME Elections, UNCHANGED <<node, voters>>,
         \A m \in net' :
           MessageOK(m) /\ (m.type = "vote reply" /\ m.vote_granted => m \in net)
  PROVE  Elections' /\ AllKeep
<1>1. PICK n \in Nodes : TRUE
  BY NodesAssumption
<1>2. Shape(node[n]) /\ Quiet(node[n], node[n])
  BY QuietSelf DEF Elections, Shapes
<1>. QED
  BY <1>2, QuietStep DEF Elections, Shapes

\* A node that times out votes for itself in a term it has not been in.
LEMMA TimeoutStep ==
  ASSUME Elections, NEW n \in Nodes, Timeout(n)
  PROVE  Elections' /\ AllKeep
<1>. DEFINE s == node[n]
            t == become_candidate(s)
<1>1. Shape(s) /\ s.node_id = n
  BY DEF Elections, Shapes
<1>2. /\ Shape(t) /\ t.node_id = n /\ t.state = "candidate"
      /\ t.current_term = s.current_term + 1 /\ t.voted_for = n /\ t.voted_count = 1
  BY <1>1, BecomeCandidateFacts
<1>3. \A q \in Nodes : node'[q] = IF q = n THEN t ELSE node[q]
  BY DEF Elections, Shapes, Timeout
<1>4. \A q \in Nodes : voters'[q] = IF q = n THEN {n} ELSE voters[q]
  BY DEF Elections, Shapes, Timeout
<1>. HIDE DEF t
<1>5. Shapes'
  <2>1. DOMAIN node' = Nodes /\ voters' \in [Nodes -> SUBSET Nodes] /\ net' = net
    BY DEF Elections, Shapes, Timeout
  <2>2. \A q \in Nodes : Shape(node'[q]) /\ node'[q].node_id = q
    BY <1>2, <1>3 DEF Elections, Shapes
  <2>. QED
    BY <2>1, <2>2 DEF Elections, Shapes
<1>6. CountIsRight'
  <2>1. Cardinality({n}) = 1
    BY FS_Singleton
  <2>. QED
    BY <1>2, <1>3, <1>4, <2>1 DEF Elections, CountIsRight
<1>7. ASSUME NEW q \in Nodes
      PROVE  Keeps(node[q], node'[q])
  <2>1. CASE q = n
    BY <1>1, <1>2, <1>3, <2>1 DEF Keeps, Shape
  <2>2. CASE q # n
    BY <1>3, <2>2, QuietSelf, QuietKeeps DEF Elections, Shapes
  <2>. QED
    BY <2>1, <2>2
<1>8. \A q \in Nodes : node'[q].state = "leader" =>
        node[q].state = "leader" /\ node'[q].current_term = node[q].current_term
  BY <1>2, <1>3
<1>9. ElectionSafety'
  BY <1>8 DEF Elections, ElectionSafety
<1>10. \A q \in Nodes : node'[q].state = "leader" =>
         Backed(q) /\ node'[q].current_term = node[q].current_term
  BY <1>8 DEF Elections, LeadersAreBacked
<1>11. ASSUME NEW q \in Nodes, NEW p \in Nodes, NEW term \in Nat, Signed(q, p, term)'
       PROVE  \/ Signed(q, p, term)
              \/ VotedFor(q, p, term)' /\ Free(q, p, term)
  <2>1. CASE q = n /\ p = n /\ term = s.current_term + 1
    <3>1. VotedFor(q, p, term)'
      BY <1>2, <1>3, <2>1 DEF VotedFor
    <3>2. Free(q, p, term)
      BY <1>1, <2>1 DEF Free, Bound, Shape
    <3>. QED
      BY <3>1, <3>2
  <2>2. CASE ~(q = n /\ p = n /\ term = s.current_term + 1)
    <3>1. CASE Counted(q, p, term)'
      BY <1>2, <1>3, <1>4, <2>2, <3>1 DEF Counted, Signed
    <3>2. CASE Granted(q, p, term)'
      BY <3>2 DEF Granted, Signed, Timeout
    <3>3. CASE VotedFor(q, p, term)'
      BY <1>2, <1>3, <2>2, <3>3 DEF VotedFor, Signed
    <3>. QED
      BY <1>11, <3>1, <3>2, <3>3 DEF Signed
  <2>. QED
    BY <2>1, <2>2
<1>. QED
  BY <1>5, <1>6, <1>7, <1>9, <1>10, <1>11, SignsStep
\* A node that grants its vote was free to, and says so afterwards.
LEMMA VoteStep ==
  ASSUME Elections, NEW m \in net, HandleVoteRequest(m)
  PROVE  Elections' /\ AllKeep
<1>. DEFINE q == m.to
            p == m.from
            s == IF m.term > node[q].current_term THEN become_follower(node[q], m.term) ELSE node[q]
            granted == can_vote_for(s, p, m.term) /\ UpToDate(s.log, m)
            t == IF granted THEN vote_for(s, p, m.term) ELSE s
            reply == VoteReply(m, s.current_term, granted)
<1>1. /\ q \in Nodes /\ p \in Nodes /\ m.term \in Nat /\ p # Nobody
      /\ Shape(node[q]) /\ node[q].node_id = q
  BY NobodyAssumption DEF Elections, Shapes, MessageOK, HandleVoteRequest
<1>2. /\ Shape(s) /\ Quiet(node[q], s) /\ s.current_term \in Nat
      /\ s.current_term = IF m.term > node[q].current_term THEN m.term ELSE node[q].current_term
  <2>1. CASE m.term > node[q].current_term
    BY <1>1, <2>1, BecomeFollowerQuiet
  <2>2. CASE ~(m.term > node[q].current_term)
    BY <1>1, <2>2, QuietSelf DEF Shape
  <2>. QED
    BY <2>1, <2>2
<1>3. /\ DOMAIN node' = Nodes /\ \A x \in Nodes : node'[x] = IF x = q THEN t ELSE node[x]
      /\ net' = (net \ {m}) \cup {reply}
      /\ \/ voters' = voters
         \/ t.state # "candidate" /\ voters' = [voters EXCEPT ![q] = {}]
  BY <1>1 DEF Elections, Shapes, HandleVoteRequest, Forget, Reply
<1>4. /\ reply.type = "vote reply" /\ reply.from = q /\ reply.to = p
      /\ reply.asked = m.term /\ reply.vote_granted = granted /\ MessageOK(reply)
  BY <1>1, <1>2 DEF VoteReply, MessageOK
<1>5. \A x \in net' : MessageOK(x)
  BY <1>3, <1>4 DEF Elections, Shapes
<1>6. CASE ~granted
  <2>1. t = s
    BY <1>6
  <2>2. \A x \in net' : x.type = "vote reply" /\ x.vote_granted => x \in net
    BY <1>3, <1>4, <1>6
  <2>. HIDE DEF s, t, granted, reply
  <2>. QED
    BY <1>1, <1>2, <1>3, <1>5, <2>1, <2>2, QuietStep
<1>7. CASE granted
  <2>1. s.current_term = m.term /\ s.voted_for \in {Nobody, p}
    BY <1>1, <1>2, <1>7 DEF can_vote_for
  <2>2. /\ Shape(t) /\ t.node_id = q /\ t.state = s.state /\ t.voted_count = s.voted_count
        /\ t.current_term = m.term /\ t.voted_for = p
    <3>1. t = [s EXCEPT !.voted_for = p]
      BY <1>2, <1>7, <2>1 DEF vote_for, Shape
    <3>2. s.node_id = q
      BY <1>1, <1>2 DEF Quiet
    <3>. HIDE DEF s, t, granted, p, q
    <3>. QED
      BY <1>1, <1>2, <2>1, <3>1, <3>2 DEF Shape
  <2>. HIDE DEF s, t, granted, reply
  <2>3. ASSUME NEW x \in Nodes
        PROVE  Keeps(node[x], node'[x])
    <3>1. CASE x = q
      <4>1. Keeps(node[q], s)
        BY <1>1, <1>2, QuietKeeps
      <4>2. t.current_term = s.current_term /\ (s.voted_for # Nobody => t.voted_for = s.voted_for)
        BY <2>1, <2>2
      <4>3. node'[x] = t /\ t.state = s.state
        BY <1>1, <1>3, <2>2, <3>1
      <4>. HIDE DEF q
      <4>. QED
        BY <3>1, <4>1, <4>2, <4>3 DEF Keeps
    <3>2. CASE x # q
      BY <1>3, <3>2, QuietSelf, QuietKeeps DEF Elections, Shapes
    <3>. QED
      BY <3>1, <3>2
  <2>4. Shapes'
    <3>1. \A x \in Nodes : Shape(node'[x]) /\ node'[x].node_id = x
      BY <1>3, <2>2 DEF Elections, Shapes
    <3>2. voters' \in [Nodes -> SUBSET Nodes]
      BY <1>3 DEF Elections, Shapes
    <3>. QED
      BY <1>3, <1>5, <3>1, <3>2 DEF Shapes
  <2>5. ASSUME NEW x \in Nodes, node'[x].state # "follower"
        PROVE  /\ node'[x].state = node[x].state
               /\ node'[x].current_term = node[x].current_term
               /\ node'[x].voted_count = node[x].voted_count
    BY <1>2, <1>3, <2>1, <2>2, <2>5 DEF Quiet
  <2>6. ASSUME NEW x \in Nodes, node'[x].state = "candidate"
        PROVE  voters'[x] = voters[x]
    BY <1>3, <2>6 DEF Elections, Shapes
  <2>7. CountIsRight'
    BY <2>5, <2>6 DEF Elections, CountIsRight
  <2>8. \A x \in Nodes : node'[x].state = "leader" =>
          node[x].state = "leader" /\ node'[x].current_term = node[x].current_term
    BY <2>5
  <2>9. ElectionSafety'
    BY <2>8 DEF Elections, ElectionSafety
  <2>10. \A x \in Nodes : node'[x].state = "leader" =>
           Backed(x) /\ node'[x].current_term = node[x].current_term
    BY <2>8 DEF Elections, LeadersAreBacked
  <2>11. Free(q, p, m.term)
    <3>. SUFFICES ASSUME NEW n \in Nodes, Bound(q, n, m.term)
                  PROVE  n = p
      BY DEF Free
    <3>1. n # Nobody
      BY NobodyAssumption
    <3>2. ~(m.term > node[q].current_term)
      BY <1>1 DEF Bound, Shape
    <3>3. node[q].current_term = m.term /\ node[q].voted_for = s.voted_for
      BY <1>1, <1>2, <2>1, <3>2 DEF Quiet, Shape
    <3>. QED
      BY <2>1, <3>1, <3>3 DEF Bound
  <2>12. VotedFor(q, p, m.term)'
    BY <1>1, <1>3, <2>2 DEF VotedFor
  <2>13. ASSUME NEW x \in Nodes, NEW n \in Nodes, NEW term \in Nat, Signed(x, n, term)'
         PROVE  \/ Signed(x, n, term)
                \/ VotedFor(x, n, term)' /\ Free(x, n, term)
    <3>1. CASE x = q /\ n = p /\ term = m.term
      BY <2>11, <2>12, <3>1
    <3>2. CASE ~(x = q /\ n = p /\ term = m.term)
      <4>1. CASE Counted(x, n, term)'
        BY <2>5, <2>6, <4>1 DEF Counted, Signed
      <4>2. CASE Granted(x, n, term)'
        BY <1>3, <1>4, <3>2, <4>2 DEF Granted, Signed
      <4>3. CASE VotedFor(x, n, term)'
        BY <1>3, <2>2, <3>2, <4>3 DEF VotedFor, Signed
      <4>. QED
        BY <2>13, <4>1, <4>2, <4>3 DEF Signed
    <3>. QED
      BY <3>1, <3>2
  <2>. QED
    BY <2>3, <2>4, <2>7, <2>9, <2>10, <2>13, SignsStep
<1>. QED
  BY <1>6, <1>7
\* A counted vote was signed before; a majority of them excludes other leaders.
LEMMA CountStep ==
  ASSUME Elections, NEW m \in net, CountVote(m)
  PROVE  /\ Elections' /\ AllKeep
         /\ node'[m.to].state = "leader" =>
              \A x \in Nodes : Majority(x, node[m.to].current_term) => x = m.to
<1>. DEFINE n == m.to
            term == node[n].current_term
            s == [node[n] EXCEPT !.voted_count = @ + 1]
            elected == s.voted_count > Cardinality(Nodes) \div 2
            t == IF elected THEN become_leader(s) ELSE s
            V == voters[n] \cup {m.from}
<1>1. /\ n \in Nodes /\ m.from \in Nodes /\ m.from \notin voters[n]
      /\ Shape(node[n]) /\ node[n].node_id = n /\ term \in Nat
  BY DEF Elections, Shapes, MessageOK, CountVote, Shape
<1>2. /\ Shape(s) /\ s.node_id = n /\ s.state = node[n].state /\ s.current_term = term
      /\ s.voted_for = node[n].voted_for /\ s.voted_count = node[n].voted_count + 1
  BY <1>1 DEF Shape
<1>3. node[n].state = "candidate" /\ m.asked = term /\ m.type = "vote reply" /\ m.vote_granted
  BY <1>2 DEF CountVote
<1>4. /\ Shape(t) /\ t.node_id = n /\ t.current_term = term
      /\ t.voted_for = node[n].voted_for
      /\ elected => t.state = "leader"
      /\ ~elected => t.state = "candidate" /\ t.voted_count = node[n].voted_count + 1
  <2>. HIDE DEF s
  <2>. QED
    BY <1>2, <1>3 DEF become_leader, Shape, State
<1>5. /\ DOMAIN node' = Nodes /\ \A x \in Nodes : node'[x] = IF x = n THEN t ELSE node[x]
      /\ \A x \in Nodes : voters'[x] = IF x = n THEN IF elected THEN {} ELSE V ELSE voters[x]
      /\ voters' \in [Nodes -> SUBSET Nodes]
      /\ net' = net \ {m}
  BY <1>1 DEF Elections, Shapes, CountVote
<1>. HIDE DEF s, t, elected
<1>6. Shapes'
  <2>1. \A x \in Nodes : Shape(node'[x]) /\ node'[x].node_id = x
    BY <1>4, <1>5 DEF Elections, Shapes
  <2>. QED
    BY <1>5, <2>1 DEF Elections, Shapes
<1>7. ASSUME NEW x \in Nodes
      PROVE  Keeps(node[x], node'[x])
  <2>1. CASE x = n
    <3>1. node'[n] = t /\ t.current_term = term /\ t.voted_for = node[n].voted_for
      BY <1>1, <1>4, <1>5
    <3>2. node[n].state = "candidate"
      BY <1>3
    <3>3. Keeps(node[n], node'[n])
      BY <1>1, <3>1, <3>2 DEF Keeps
    <3>. QED
      BY <2>1, <3>3
  <2>2. CASE x # n
    BY <1>5, <2>2, QuietSelf, QuietKeeps DEF Elections, Shapes
  <2>. QED
    BY <2>1, <2>2
<1>8. V \in SUBSET Nodes /\ IsFiniteSet(V) /\ Cardinality(V) = node[n].voted_count + 1
  <2>1. voters[n] \in SUBSET Nodes
    BY <1>1 DEF Elections, Shapes
  <2>2. IsFiniteSet(voters[n])
    BY <2>1, NodesAssumption, FS_Subset
  <2>3. node[n].voted_count = Cardinality(voters[n])
    BY <1>1, <1>3 DEF Elections, CountIsRight
  <2>. QED
    BY <1>1, <2>1, <2>2, <2>3, FS_AddElement
<1>9. \A q \in V : Signed(q, n, term)
  BY <1>3 DEF Counted, Granted, Signed
<1>10. CountIsRight'
  BY <1>4, <1>5, <1>8 DEF Elections, CountIsRight
<1>11. ASSUME NEW q \in Nodes, NEW p \in Nodes, NEW x \in Nat, Signed(q, p, x)'
       PROVE  Signed(q, p, x)
  <2>1. CASE Counted(q, p, x)'
    <3>1. CASE p = n
      <4>1. q \in V /\ x = term
        BY <1>4, <1>5, <2>1, <3>1 DEF Counted
      <4>. QED
        BY <1>9, <3>1, <4>1
    <3>2. CASE p # n
      BY <1>5, <2>1, <3>2 DEF Counted, Signed
    <3>. QED
      BY <3>1, <3>2
  <2>2. CASE Granted(q, p, x)'
    BY <1>5, <2>2 DEF Granted, Signed
  <2>3. CASE VotedFor(q, p, x)'
    BY <1>4, <1>5, <2>3 DEF VotedFor, Signed
  <2>. QED
    BY <1>11, <2>1, <2>2, <2>3 DEF Signed
<1>12. ASSUME elected
       PROVE  Backed(n)
  <2>1. Cardinality(V) > Cardinality(Nodes) \div 2
    BY <1>2, <1>8, <1>12 DEF elected
  <2>2. \A q \in V : Bound(q, n, term) /\ Exclusive(q, n, term)
    BY <1>1, <1>8, <1>9 DEF Elections, SignaturesBind, OneSignature
  <2>. QED
    BY <1>8, <2>1, <2>2 DEF Backed, Majority, Sealed
<1>13. \A x \in Nodes : node'[x].state = "leader" =>
         Backed(x) /\ node'[x].current_term = node[x].current_term
  BY <1>4, <1>5, <1>12 DEF Elections, LeadersAreBacked
<1>14. ASSUME NEW x \in Nodes, elected, Majority(x, term)
       PROVE  x = n
  <2>1. PICK Q \in SUBSET Nodes :
          /\ Cardinality(Q) > Cardinality(Nodes) \div 2
          /\ \A q \in Q : Exclusive(q, x, term)
    BY <1>14 DEF Majority, Sealed
  <2>2. Cardinality(V) > Cardinality(Nodes) \div 2
    BY <1>2, <1>8, <1>14 DEF elected
  <2>3. Q \cap V # {}
    <3>1. Cardinality(Q) \in Nat /\ Cardinality(V) \in Nat /\ Cardinality(Nodes) \in Nat
      BY <1>8, NodesAssumption, FS_Subset, FS_CardinalityType
    <3>2. Cardinality(Q) + Cardinality(V) > Cardinality(Nodes)
      BY <2>1, <2>2, <3>1
    <3>. QED
      BY <1>8, <3>2, NodesAssumption, FS_MajoritiesIntersect
  <2>. QED
    BY <1>1, <1>9, <2>1, <2>3 DEF Exclusive
<1>15. ASSUME NEW x \in Nodes, elected, node[x].state = "leader", node[x].current_term = term
       PROVE  x = n
  BY <1>14, <1>15 DEF Elections, LeadersAreBacked, Backed
<1>16. ElectionSafety'
  <2>. SUFFICES ASSUME NEW x \in Nodes, NEW y \in Nodes,
                       node'[x].state = "leader", node'[y].state = "leader",
                       node'[x].current_term = node'[y].current_term
                PROVE  x = y
    BY DEF ElectionSafety
  <2>1. CASE x # n /\ y # n
    BY <1>5, <2>1 DEF Elections, ElectionSafety
  <2>2. CASE x = n /\ y # n
    BY <1>4, <1>5, <1>15, <2>2
  <2>3. CASE x # n /\ y = n
    BY <1>4, <1>5, <1>15, <2>3
  <2>. QED
    BY <2>1, <2>2, <2>3
<1>. QED
  <2>1. Elections' /\ AllKeep
    BY <1>6, <1>7, <1>10, <1>11, <1>13, <1>16, SignsStep
  <2>. QED
    BY <1>1, <1>4, <1>5, <1>14, <2>1

\* The other actions are quiet.
LEMMA OtherSteps ==
  ASSUME Elections,
         \/ \E n \in Nodes : Propose(n)
         \/ \E n, p \in Nodes : RequestVote(n, p) \/ SendAppend(n, p)
         \/ \E m \in net : StepDown(m) \/ HandleAppend(m) \/ HandleAppendReply(m) \/ Lose(m)
  PROVE  Elections' /\ AllKeep
<1>0. /\ \A n \in Nodes : Shape(node[n]) /\ node[n].node_id = n
      /\ \A m \in net : MessageOK(m)
      /\ DOMAIN node = Nodes
  BY DEF Elections, Shapes
<1>1. ASSUME NEW n \in Nodes, Propose(n)
      PROVE  Elections' /\ AllKeep
  <2>1. Shape(propose(node[n])) /\ Quiet(node[n], propose(node[n]))
    BY <1>0, LogCallsQuiet
  <2>. QED
    BY <1>0, <1>1, <2>1, QuietStep DEF Propose
<1>2. ASSUME NEW n \in Nodes, NEW p \in Nodes, RequestVote(n, p)
      PROVE  Elections' /\ AllKeep
  <2>1. MessageOK(VoteRequest(n, p)) /\ VoteRequest(n, p).type = "vote"
    BY <1>0 DEF VoteRequest, MessageOK, Shape
  <2>2. net' = net \cup {VoteRequest(n, p)}
    BY <1>2 DEF RequestVote, Send
  <2>. QED
    BY <1>0, <1>2, <2>1, <2>2, IdleStep DEF RequestVote
<1>3. ASSUME NEW n \in Nodes, NEW p \in Nodes, SendAppend(n, p)
      PROVE  Elections' /\ AllKeep
  <2>. DEFINE s == IF AddPeers THEN add_peer(node[n], p) ELSE node[n]
  <2>1. Shape(s) /\ Quiet(node[n], s) /\ s.node_id = n /\ s.current_term \in Nat
    <3>1. Shape(s) /\ Quiet(node[n], s)
      BY <1>0, LogCallsQuiet, QuietSelf
    <3>. HIDE DEF s
    <3>. QED
      BY <1>0, <3>1 DEF Quiet, Shape
  <2>2. MessageOK(AppendRequest(s, p)) /\ AppendRequest(s, p).type = "append"
    <3>. HIDE DEF s
    <3>. QED
      BY <2>1 DEF AppendRequest, build_append_entries_request, MessageOK
  <2>3. net' = net \cup {AppendRequest(s, p)} /\ node' = [node EXCEPT ![n] = s] /\ voters' = voters
    BY <1>3 DEF SendAppend, Send
  <2>. HIDE DEF s
  <2>. QED
    BY <1>0, <2>1, <2>2, <2>3, QuietStep
<1>4. ASSUME NEW m \in net, StepDown(m)
      PROVE  Elections' /\ AllKeep
  <2>. DEFINE t == become_follower(node[m.to], m.term)
  <2>1. m.to \in Nodes /\ m.term \in Nat
    BY <1>0, <1>4 DEF StepDown, MessageOK
  <2>2. Shape(t) /\ Quiet(node[m.to], t)
    BY <1>0, <2>1, BecomeFollowerQuiet
  <2>3. /\ net' = net \ {m} /\ node' = [node EXCEPT ![m.to] = t]
        /\ \/ voters' = voters
           \/ t.state # "candidate" /\ voters' = [voters EXCEPT ![m.to] = {}]
    BY <1>0, <1>4, <2>1 DEF StepDown, Forget
  <2>. HIDE DEF t
  <2>. QED
    BY <1>0, <2>1, <2>2, <2>3, QuietStep
<1>5. ASSUME NEW m \in net, HandleAppend(m)
      PROVE  Elections' /\ AllKeep
  <2>. DEFINE r == handle_append_entries(node[m.to], m.req)
              reply == AppendReply(m, r.resp)
  <2>1. m.from \in Nodes /\ m.to \in Nodes /\ m.req.term \in Nat
    BY <1>0, <1>5 DEF HandleAppend, MessageOK
  <2>2. Shape(r.node) /\ Quiet(node[m.to], r.node) /\ r.resp.term \in Nat
    BY <1>0, <2>1, AppendQuiet
  <2>3. /\ net' = (net \ {m}) \cup {reply} /\ node' = [node EXCEPT ![m.to] = r.node]
        /\ \/ voters' = voters
           \/ r.node.state # "candidate" /\ voters' = [voters EXCEPT ![m.to] = {}]
    BY <1>5 DEF HandleAppend, Forget, Reply
  <2>. HIDE DEF r
  <2>4. MessageOK(reply) /\ reply.type = "append reply"
    BY <2>1, <2>2 DEF AppendReply, MessageOK
  <2>. HIDE DEF reply
  <2>. QED
    BY <1>0, <2>1, <2>2, <2>3, <2>4, QuietStep
<1>6. ASSUME NEW m \in net, HandleAppendReply(m)
      PROVE  Elections' /\ AllKeep
  <2>. DEFINE t == handle_append_entries_response(node[m.to], m.from, m.req, m.resp)
  <2>1. m.to \in Nodes /\ m.resp.term \in Nat
    BY <1>0, <1>6 DEF HandleAppendReply, MessageOK
  <2>2. Shape(t) /\ Quiet(node[m.to], t)
    BY <1>0, <2>1, ResponseQuiet
  <2>3. /\ net' = net \ {m} /\ node' = [node EXCEPT ![m.to] = t]
        /\ \/ voters' = voters
           \/ t.state # "candidate" /\ voters' = [voters EXCEPT ![m.to] = {}]
    BY <1>0, <1>6, <2>1 DEF HandleAppendReply, Forget
  <2>. HIDE DEF t
  <2>. QED
    BY <1>0, <2>1, <2>2, <2>3, QuietStep
<1>7. ASSUME NEW m \in net, Lose(m)
      PROVE  Elections' /\ AllKeep
  BY <1>0, <1>7, IdleStep DEF Lose
<1>. QED
  BY <1>1, <1>2, <1>3, <1>4, <1>5, <1>6, <1>7

\* The invariant holds at the start and survives every step, which keeps votes.
LEMMA ElectionsInit ==
  ASSUME Init
  PROVE  Elections
<1>1. ASSUME NEW n \in Nodes
      PROVE  /\ Shape(node[n]) /\ node[n].node_id = n /\ node[n].state = "follower"
             /\ node[n].voted_for = Nobody
  BY DEF Init, New, Shape, State
<1>2. Shapes
  BY <1>1 DEF Init, Shapes
<1>3. \A q, n \in Nodes : \A term \in Nat : ~Signed(q, n, term)
  BY <1>1, NobodyAssumption DEF Init, Signed, Counted, Granted, VotedFor
<1>. QED
  BY <1>1, <1>2, <1>3
     DEF Elections, SignaturesBind, OneSignature, CountIsRight, LeadersAreBacked, ElectionSafety

\* Every step keeps the invariant of the elections, and the votes.
LEMMA ElectionsNext ==
  ASSUME Elections, [Next]_vars
  PROVE  Elections' /\ AllKeep
<1>1. CASE UNCHANGED vars
  BY <1>1, IdleStep DEF vars, Elections, Shapes
<1>2. CASE \E n \in Nodes : Timeout(n)
  BY <1>2, TimeoutStep
<1>3. CASE \E m \in net : HandleVoteRequest(m)
  BY <1>3, VoteStep
<1>4. CASE \E m \in net : CountVote(m)
  BY <1>4, CountStep
<1>5. CASE \/ \E n \in Nodes : Propose(n)
           \/ \E n, p \in Nodes : RequestVote(n, p) \/ SendAppend(n, p)
           \/ \E m \in net : StepDown(m) \/ HandleAppend(m) \/ HandleAppendReply(m) \/ Lose(m)
  BY <1>5, OtherSteps
<1>. QED
  BY <1>1, <1>2, <1>3, <1>4, <1>5 DEF Next

-----------------------------------------------------------------------------
(* The theorems *)

\* Votes, their signs and the leaders' majorities fit together in every
\* reachable state.
THEOREM ElectionsAlways == Spec => []Elections
<1>1. Init => Elections
  BY ElectionsInit
<1>2. Elections /\ [Next]_vars => Elections'
  BY ElectionsNext
<1>. QED
  BY <1>1, <1>2, PTL DEF Spec

\* No two nodes are leaders of the same term, for any number of nodes, terms
\* and messages, with messages lost, late or asked for again.
THEOREM ElectionSafetyAlways == Spec => []ElectionSafety
<1>1. Elections => ElectionSafety
  BY DEF Elections
<1>. QED
  BY <1>1, ElectionsAlways, PTL

\* A term never falls and a vote of a term is never given to another node, by
\* whichever method of the node.
THEOREM VotesAreKept == Spec => VoteKept
<1>1. Elections /\ [Next]_vars =>
        \A n \in Nodes :
          /\ node'[n].current_term >= node[n].current_term
          /\ node'[n].current_term = node[n].current_term /\ node[n].voted_for # Nobody
             => node'[n].voted_for = node[n].voted_for
  BY ElectionsNext DEF AllKeep, Keeps
<1>. QED
  BY <1>1, ElectionsAlways, PTL DEF Spec, VoteKept

-----------------------------------------------------------------------------
(* The helpers of RaftNode *)

\* A non-empty set of naturals has a least element.
LEMMA LeastExists ==
  ASSUME NEW S \in SUBSET Nat, S # {}
  PROVE  Least(S) \in S /\ \A i \in S : Least(S) <= i
<1>. DEFINE less == OpToRel(<, Nat)
<1>1. IsWellFoundedOn(less, Nat)
  BY NatLessThanWellFounded
<1>2. PICK m \in S : \A k \in S : ~ (<<k, m>> \in less)
  <2>. HIDE DEF less
  <2>. QED
    BY <1>1, WFMin
<1>3. \A k \in S : ~ (k < m)
  BY <1>2 DEF OpToRel
<1>4. \A k \in S : m <= k
  BY <1>3
<1>. QED
  BY <1>4 DEF Least

\* A non-empty set of naturals with an upper bound has a greatest element.
LEMMA GreatestExists ==
  ASSUME NEW S \in SUBSET Nat, S # {}, NEW b \in Nat, \A i \in S : i <= b
  PROVE  Greatest(S) \in S
<1>. DEFINE T == {b - i : i \in S}
<1>1. T \in SUBSET Nat /\ T # {}
  <2>1. \A i \in S : b - i \in Nat
    OBVIOUS
  <2>. QED
    BY <2>1
<1>2. Least(T) \in T /\ \A i \in T : Least(T) <= i
  BY <1>1, LeastExists
<1>3. PICK m \in S : Least(T) = b - m
  BY <1>2
<1>4. \A i \in S : i <= m
  BY <1>2, <1>3
<1>. QED
  BY <1>4 DEF Greatest

\* Store changes or adds one entry.
LEMMA StoreMap ==
  ASSUME NEW f, IndexMap(f), NEW p \in Nodes, NEW i \in Nat
  PROVE  /\ IndexMap(Store(f, p, i))
         /\ DOMAIN Store(f, p, i) = DOMAIN f \cup {p}
         /\ \A q \in DOMAIN f \cup {p} : Store(f, p, i)[q] = IF q = p THEN i ELSE f[q]
  BY DEF IndexMap, Store

\* An index stored by a leader stays behind the dummy entry.
LEMMA StoreNext ==
  ASSUME NEW f, NextMap(f), NEW p \in Nodes, NEW i \in Nat, i > 0
  PROVE  NextMap(Store(f, p, i))
<1>1. IndexMap(f) /\ \A q \in DOMAIN f : f[q] > 0
  BY DEF NextMap
<1>2. PICK g : g = Store(f, p, i)
  OBVIOUS
<1>3. /\ IndexMap(g) /\ DOMAIN g = DOMAIN f \cup {p}
      /\ \A q \in DOMAIN f \cup {p} : g[q] = IF q = p THEN i ELSE f[q]
  BY <1>1, <1>2 DEF Store, IndexMap
<1>4. \A q \in DOMAIN g : g[q] > 0
  BY <1>1, <1>3
<1>. QED
  BY <1>2, <1>3, <1>4 DEF NextMap

\* Entries that stand at the position of their index, from a first one on.
Positioned(log) == \A i \in DOMAIN log : log[i].index = i
PositionedFrom(entries, prev) == \A i \in DOMAIN entries : entries[i].index = prev + i

\* The index of the last entry is the length.
LEMMA LastIndex ==
  ASSUME NEW log \in Seq(LogEntry), Positioned(log)
  PROVE  /\ last_log_index(log) = Len(log)
         /\ last_log_index(log) \in Nat /\ last_log_term(log) \in Nat
<1>1. CASE log = <<>>
  BY <1>1 DEF last_log_index, last_log_term
<1>2. CASE log # <<>>
  <2>1. Len(log) \in DOMAIN log /\ log[Len(log)] \in LogEntry
    BY <1>2, LenProperties, ElementOfSeq
  <2>2. log[Len(log)].index = Len(log)
    BY <2>1 DEF Positioned
  <2>. QED
    BY <1>2, <2>1, <2>2 DEF last_log_index, last_log_term, LogEntry
<1>. QED
  BY <1>1, <1>2

\* get_entries_from gives the rest of the log, if there is one.
LEMMA EntriesFrom ==
  ASSUME NEW log \in Seq(LogEntry), Positioned(log), NEW i \in Nat
  PROVE  LET e == get_entries_from(log, i)
         IN  /\ e \in Seq(LogEntry)
             /\ i > 0 => PositionedFrom(e, i - 1)
             /\ e # <<>> => i \in 1 .. Len(log) /\ e = SubSeq(log, i, Len(log))
<1>1. CASE i \in DOMAIN log
  <2>1. get_entries_from(log, i) = SubSeq(log, i, Len(log))
    BY <1>1 DEF get_entries_from
  <2>2. i \in 1 .. Len(log) /\ Len(log) \in Nat /\ \A j \in i .. Len(log) : log[j] \in LogEntry
    BY <1>1
  <2>3. /\ SubSeq(log, i, Len(log)) \in Seq(LogEntry)
        /\ Len(SubSeq(log, i, Len(log))) = Len(log) - i + 1
        /\ \A j \in 1 .. Len(log) - i + 1 : SubSeq(log, i, Len(log))[j] = log[i + j - 1]
    BY <2>2, SubSeqProperties
  <2>4. PositionedFrom(SubSeq(log, i, Len(log)), i - 1)
    BY <2>2, <2>3 DEF Positioned, PositionedFrom
  <2>. QED
    BY <2>1, <2>2, <2>3, <2>4
<1>2. CASE i \notin DOMAIN log
  BY <1>2 DEF get_entries_from, PositionedFrom
<1>. QED
  BY <1>1, <1>2

\* What handle_append_entries makes of the log: nothing, or the log up to the
\* first entry that does not match and the request's entries from there on.
CutAt(log, entries, first) ==
  SubSeq(log, 1, entries[first].index - 1) \o SubSeq(entries, first, Len(entries))

\* The merged log has its entries at their positions.  Either every entry was
\* there and the log stays, or the entries from the first missing one on replace
\* what was behind it.
LEMMA MergedFacts ==
  ASSUME NEW log \in Seq(LogEntry), Positioned(log),
         NEW entries \in Seq(LogEntry), NEW prev \in Nat, PositionedFrom(entries, prev),
         prev <= Len(log)
  PROVE  LET new == Merged(log, entries)
         IN  /\ new \in Seq(LogEntry) /\ Positioned(new)
             /\ \/ /\ new = log
                   /\ \A i \in DOMAIN entries : /\ prev + i <= Len(log)
                                                /\ log[prev + i].term = entries[i].term
                \/ \E first \in DOMAIN entries :
                     /\ \A i \in 1 .. first - 1 : /\ prev + i <= Len(log)
                                                  /\ log[prev + i].term = entries[i].term
                     /\ prev + first <= Len(log)
                          => log[prev + first].term # entries[first].term
                     /\ prev + first - 1 <= Len(log)
                     /\ Len(new) = prev + Len(entries)
                     /\ \A i \in 1 .. prev + first - 1 : new[i] = log[i]
                     /\ \A i \in first .. Len(entries) : new[prev + i] = entries[i]
<1>. DEFINE U == Unmatched(log, entries)
            new == Merged(log, entries)
            first == Least(U)
<1>0. DOMAIN entries = 1 .. Len(entries) /\ Len(entries) \in Nat /\ Len(log) \in Nat
  BY LenProperties
<1>1. /\ U \in SUBSET Nat /\ U \subseteq DOMAIN entries
      /\ \A i \in DOMAIN entries :
           i \notin U <=> prev + i <= Len(log) /\ log[prev + i].term = entries[i].term
  BY DEF Unmatched, PositionedFrom
<1>2. CASE U = {}
  <2>1. new = log
    BY <1>2 DEF Merged
  <2>. QED
    BY <1>1, <1>2, <2>1
<1>3. CASE U # {}
  <2>1. first \in U /\ \A i \in U : first <= i
    BY <1>1, <1>3, LeastExists
  <2>2. first \in DOMAIN entries /\ first \in 1 .. Len(entries) /\ entries[first].index = prev + first
    <3>1. first \in DOMAIN entries
      BY <1>1, <2>1
    <3>. HIDE DEF first
    <3>. QED
      BY <1>0, <3>1 DEF PositionedFrom
  <2>3. \A i \in 1 .. first - 1 : i \in DOMAIN entries /\ i \notin U
    <3>. HIDE DEF first, U
    <3>. QED
      BY <2>1, <2>2
  <2>4. prev + first - 1 <= Len(log)
    <3>1. CASE first = 1
      BY <3>1
    <3>2. CASE first # 1
      <4>1. first - 1 \in 1 .. first - 1
        BY <2>2, <3>2
      <4>. HIDE DEF first, U
      <4>. QED
        BY <1>1, <2>3, <4>1
    <3>. QED
      BY <3>1, <3>2
  <2>. DEFINE a == SubSeq(log, 1, prev + first - 1)
              b == SubSeq(entries, first, Len(entries))
  <2>5. new = a \o b
    <3>1. new = CutAt(log, entries, first)
      BY <1>3 DEF Merged, CutAt
    <3>2. entries[first].index - 1 = prev + first - 1
      <4>. HIDE DEF first
      <4>. QED
        BY <2>2
    <3>. HIDE DEF first, new
    <3>. QED
      BY <3>1, <3>2 DEF CutAt
  <2>. HIDE DEF first, new
  <2>6. /\ a \in Seq(LogEntry) /\ Len(a) = prev + first - 1
        /\ \A i \in 1 .. prev + first - 1 : a[i] = log[i]
    <3>1. /\ prev + first - 1 \in Int /\ prev + first - 1 >= 0
          /\ \A i \in 1 .. prev + first - 1 : log[i] \in LogEntry
      BY <2>2, <2>4
    <3>. QED
      BY <3>1, SubSeqProperties
  <2>7. /\ b \in Seq(LogEntry) /\ Len(b) = Len(entries) - first + 1
        /\ \A i \in 1 .. Len(entries) - first + 1 : b[i] = entries[first + i - 1]
    <3>1. \A i \in first .. Len(entries) : entries[i] \in LogEntry
      BY <2>2
    <3>. QED
      BY <2>2, <3>1, SubSeqProperties
  <2>. HIDE DEF a, b
  <2>8. /\ new \in Seq(LogEntry) /\ Len(new) = prev + Len(entries)
        /\ \A i \in 1 .. Len(a) + Len(b) : new[i] = IF i <= Len(a) THEN a[i] ELSE b[i - Len(a)]
    <3>1. /\ a \o b \in Seq(LogEntry) /\ Len(a \o b) = Len(a) + Len(b)
          /\ \A i \in 1 .. Len(a) + Len(b) :
               (a \o b)[i] = IF i <= Len(a) THEN a[i] ELSE b[i - Len(a)]
      BY <2>6, <2>7, ConcatProperties
    <3>2. Len(a) + Len(b) = prev + Len(entries)
      BY <1>0, <2>2, <2>6, <2>7
    <3>. QED
      BY <2>5, <3>1, <3>2
  <2>9. \A i \in 1 .. prev + first - 1 : new[i] = log[i]
    <3>. SUFFICES ASSUME NEW i \in 1 .. prev + first - 1
                  PROVE  new[i] = log[i]
      OBVIOUS
    <3>1. first \in Nat /\ Len(b) \in Nat /\ Len(a) \in Nat
      BY <1>0, <2>2, <2>6, <2>7
    <3>2. i \in 1 .. Len(a) + Len(b) /\ i <= Len(a)
      BY <2>6, <3>1
    <3>. QED
      BY <2>6, <2>8, <3>2
  <2>10. \A i \in first .. Len(entries) : new[prev + i] = entries[i]
    <3>. SUFFICES ASSUME NEW i \in first .. Len(entries)
                  PROVE  new[prev + i] = entries[i]
      OBVIOUS
    <3>0. /\ first \in Nat /\ first >= 1 /\ i \in Nat /\ i >= first /\ i <= Len(entries)
          /\ Len(a) = prev + first - 1 /\ Len(b) = Len(entries) - first + 1
      BY <1>0, <2>2, <2>6, <2>7
    <3>1. /\ prev + i \in 1 .. Len(a) + Len(b) /\ ~(prev + i <= Len(a))
          /\ prev + i - Len(a) = i - first + 1
          /\ i - first + 1 \in 1 .. Len(entries) - first + 1
          /\ first + (i - first + 1) - 1 = i
      <4>. HIDE DEF a, b
      <4>. QED
        BY <1>0, <3>0
    <3>. QED
      BY <2>7, <2>8, <3>1
  <2>11. Positioned(new)
    <3>. SUFFICES ASSUME NEW i \in 1 .. prev + Len(entries)
                  PROVE  new[i].index = i
      BY <2>8 DEF Positioned
    <3>1. CASE i <= prev + first - 1
      <4>1. i \in DOMAIN log /\ new[i] = log[i]
        BY <2>2, <2>4, <2>9, <3>1
      <4>. QED
        BY <4>1 DEF Positioned
    <3>2. CASE i > prev + first - 1
      <4>1. /\ i - prev \in first .. Len(entries) /\ prev + (i - prev) = i
            /\ i - prev \in DOMAIN entries
        BY <2>2, <3>2
      <4>2. new[i] = entries[i - prev]
        BY <2>10, <4>1
      <4>. QED
        BY <4>1, <4>2 DEF PositionedFrom
    <3>. QED
      BY <2>2, <3>1, <3>2
  <2>12. prev + first <= Len(log) => log[prev + first].term # entries[first].term
    BY <1>1, <2>1, <2>2
  <2>13. \A i \in 1 .. first - 1 : prev + i <= Len(log) /\ log[prev + i].term = entries[i].term
    BY <1>1, <2>3
  <2>. HIDE DEF U
  <2>. QED
    BY <2>2, <2>4, <2>8, <2>9, <2>10, <2>11, <2>12, <2>13 DEF new
<1>. QED
  BY <1>2, <1>3
-----------------------------------------------------------------------------
(* The methods of one node *)

\* A node with its type and with its entries where their index says.
Proper(s) == IsNode(s) /\ Positioned(s.log)
ProperRequest(req) ==
  req \in AppendEntriesRequest /\ PositionedFrom(req.entries, req.prev_log_index)

\* The bookkeeping of the log apart, a proper node has the shape of RaftProofs.
LEMMA ProperShape ==
  ASSUME NEW s, Proper(s)
  PROVE  /\ Shape(s)
         /\ s.log \in Seq(LogEntry) /\ Positioned(s.log) /\ s.commit_index \in Nat
         /\ NextMap(s.next_index) /\ IndexMap(s.match_index)
         /\ s.current_term \in Nat /\ s.node_id \in Nodes /\ s.state \in State
         /\ s.voted_count \in Nat
  BY DEF Proper, IsNode, Shape

\* The converse
LEMMA ShapeProper ==
  ASSUME NEW s, Shape(s), s.log \in Seq(LogEntry), Positioned(s.log), s.commit_index \in Nat,
         NextMap(s.next_index), IndexMap(s.match_index)
  PROVE  Proper(s)
  BY DEF Proper, IsNode, Shape

\* A new node has nothing, and no indexes of peers.
LEMMA NewProper ==
  ASSUME NEW n \in Nodes
  PROVE  Proper(New(n)) /\ IndexMap(NoIndexes) /\ NextMap(NoIndexes)
<1>1. IndexMap(NoIndexes) /\ NextMap(NoIndexes)
  BY DEF IndexMap, NextMap, NoIndexes
<1>2. IsNode(New(n))
  BY <1>1 DEF IsNode, New, State
<1>3. New(n).log = <<>>
  BY DEF New
<1>. QED
  BY <1>1, <1>2, <1>3 DEF Proper, Positioned

\* The methods that change the term or the state leave the log alone.
LEMMA TermCallsProper ==
  ASSUME NEW s, Proper(s), NEW term \in Nat, NEW p \in Nodes
  PROVE  /\ LET t == become_follower(s, term)
            IN  /\ Proper(t) /\ t.log = s.log /\ t.state = "follower"
                /\ t.commit_index = s.commit_index
                /\ t.next_index = NoIndexes /\ t.match_index = NoIndexes
         /\ LET t == become_candidate(s)
            IN  /\ Proper(t) /\ t.log = s.log
                /\ t.next_index = NoIndexes /\ t.match_index = NoIndexes
         /\ LET t == vote_for(s, p, term)
            IN  /\ Proper(t) /\ t.log = s.log /\ t.state = s.state
                /\ t.next_index = s.next_index /\ t.match_index = s.match_index
<1>1. /\ Shape(s) /\ s.log \in Seq(LogEntry) /\ Positioned(s.log) /\ s.commit_index \in Nat
      /\ NextMap(s.next_index) /\ IndexMap(s.match_index) /\ IndexMap(NoIndexes)
      /\ NextMap(NoIndexes)
  BY ProperShape, NewProper
<1>2. LET t == become_follower(s, term)
      IN  /\ Proper(t) /\ t.log = s.log /\ t.state = "follower"
          /\ t.commit_index = s.commit_index
          /\ t.next_index = NoIndexes /\ t.match_index = NoIndexes
  <2>. DEFINE t == become_follower(s, term)
  <2>1. /\ t.log = s.log /\ t.commit_index = s.commit_index /\ t.state = "follower"
        /\ t.next_index = NoIndexes /\ t.match_index = NoIndexes
    BY <1>1 DEF become_follower, Shape
  <2>2. Shape(t)
    BY <1>1, BecomeFollowerQuiet
  <2>. QED
    BY <1>1, <2>1, <2>2, ShapeProper
<1>3. LET t == become_candidate(s)
      IN  /\ Proper(t) /\ t.log = s.log
          /\ t.next_index = NoIndexes /\ t.match_index = NoIndexes
  <2>. DEFINE t == become_candidate(s)
  <2>1. /\ t.log = s.log /\ t.commit_index = s.commit_index
        /\ t.next_index = NoIndexes /\ t.match_index = NoIndexes
    BY <1>1 DEF become_candidate, Shape
  <2>2. Shape(t)
    BY <1>1, BecomeCandidateFacts
  <2>. QED
    BY <1>1, <2>1, <2>2, ShapeProper
<1>4. LET t == vote_for(s, p, term)
      IN  /\ Proper(t) /\ t.log = s.log /\ t.state = s.state
          /\ t.next_index = s.next_index /\ t.match_index = s.match_index
  <2>. DEFINE t == vote_for(s, p, term)
  <2>1. /\ t.log = s.log /\ t.commit_index = s.commit_index /\ t.state = s.state
        /\ t.next_index = s.next_index /\ t.match_index = s.match_index
        /\ Shape(t)
    BY <1>1 DEF vote_for, Shape
  <2>. QED
    BY <1>1, <2>1, ShapeProper
<1>. QED
  BY <1>2, <1>3, <1>4

\* A candidate whose vote is counted, and the one that it elects.
LEMMA CountProper ==
  ASSUME NEW s, Proper(s)
  PROVE  LET c == [s EXCEPT !.voted_count = @ + 1]
             t == become_leader(c)
         IN  /\ Proper(c) /\ c.log = s.log /\ c.current_term = s.current_term
             /\ c.next_index = s.next_index /\ c.match_index = s.match_index
             /\ c.state = s.state /\ c.node_id = s.node_id
             /\ Proper(t) /\ t.log = s.log /\ t.state = "leader"
             /\ t.current_term = s.current_term
             /\ t.next_index = [p \in DOMAIN s.next_index |-> last_log_index(s.log) + 1]
             /\ t.match_index = [p \in DOMAIN s.match_index |-> 0]
<1>. DEFINE c == [s EXCEPT !.voted_count = @ + 1]
            t == become_leader(c)
            next == [p \in DOMAIN s.next_index |-> last_log_index(s.log) + 1]
            match == [p \in DOMAIN s.match_index |-> 0]
<1>1. /\ Shape(s) /\ s.log \in Seq(LogEntry) /\ Positioned(s.log) /\ s.commit_index \in Nat
      /\ NextMap(s.next_index) /\ IndexMap(s.match_index)
  BY ProperShape
<1>2. /\ Shape(c) /\ c.log = s.log /\ c.commit_index = s.commit_index /\ c.state = s.state
      /\ c.next_index = s.next_index /\ c.match_index = s.match_index
      /\ c.current_term = s.current_term /\ c.node_id = s.node_id
  BY <1>1 DEF Shape
<1>3. Proper(c)
  <2>. HIDE DEF c
  <2>. QED
    BY <1>1, <1>2, ShapeProper
<1>4. NextMap(next) /\ IndexMap(match)
  BY <1>1, LastIndex DEF IndexMap, NextMap
<1>. HIDE DEF c
<1>5. /\ Shape(t) /\ t.log = s.log /\ t.commit_index = s.commit_index /\ t.state = "leader"
      /\ t.current_term = s.current_term /\ t.next_index = next /\ t.match_index = match
  BY <1>2 DEF become_leader, Shape, State
<1>6. Proper(t)
  <2>. HIDE DEF t, next, match
  <2>. QED
    BY <1>1, <1>4, <1>5, ShapeProper
<1>. QED
  BY <1>2, <1>3, <1>5, <1>6 DEF c

\* propose appends one entry of the node's term and counts it for the node.
LEMMA ProposeProper ==
  ASSUME NEW s, Proper(s)
  PROVE  LET t == propose(s)
             i == Len(s.log) + 1
         IN  /\ Proper(t)
             /\ t.log = Append(s.log, [term |-> s.current_term, index |-> i])
             /\ [term |-> s.current_term, index |-> i] \in LogEntry
             /\ t.state = s.state /\ t.current_term = s.current_term /\ t.node_id = s.node_id
             /\ t.match_index = Store(s.match_index, s.node_id, i)
             /\ t.next_index = Store(s.next_index, s.node_id, i + 1)
<1>. DEFINE t == propose(s)
            i == Len(s.log) + 1
            e == [term |-> s.current_term, index |-> i]
            match == Store(s.match_index, s.node_id, i)
            next == Store(s.next_index, s.node_id, i + 1)
<1>1. /\ Shape(s) /\ s.log \in Seq(LogEntry) /\ Positioned(s.log) /\ s.commit_index \in Nat
      /\ NextMap(s.next_index) /\ IndexMap(s.match_index)
      /\ s.node_id \in Nodes /\ s.current_term \in Nat
  BY ProperShape
<1>2. last_log_index(s.log) + 1 = i /\ i \in Nat /\ e \in LogEntry
  BY <1>1, LastIndex DEF LogEntry
<1>3. IndexMap(match) /\ NextMap(next)
  <2>1. i \in Nat /\ i + 1 \in Nat /\ i + 1 > 0
    BY <1>2
  <2>. HIDE DEF i
  <2>. QED
    BY <1>1, <2>1, StoreMap, StoreNext
<1>4. /\ Append(s.log, e) \in Seq(LogEntry) /\ Len(Append(s.log, e)) = i
      /\ \A j \in 1 .. Len(s.log) : Append(s.log, e)[j] = s.log[j]
      /\ Append(s.log, e)[i] = e
  BY <1>1, <1>2, AppendProperties
<1>5. Positioned(Append(s.log, e))
  BY <1>1, <1>2, <1>4 DEF Positioned
<1>6. t = [s EXCEPT !.log = Append(s.log, e), !.match_index = match, !.next_index = next]
  BY <1>1, <1>2 DEF propose, Shape
<1>. HIDE DEF t, match, next, e, i
<1>7. /\ Shape(t) /\ t.log = Append(s.log, e) /\ t.commit_index = s.commit_index
      /\ t.match_index = match /\ t.next_index = next
      /\ t.state = s.state /\ t.current_term = s.current_term /\ t.node_id = s.node_id
  BY <1>1, <1>6 DEF Shape
<1>8. Proper(t)
  BY <1>1, <1>3, <1>4, <1>5, <1>7, ShapeProper
<1>. QED
  BY <1>2, <1>7, <1>8 DEF t, match, next, e, i

\* add_peer gives a new peer its indexes.
LEMMA AddPeerProper ==
  ASSUME NEW s, Proper(s), NEW p \in Nodes
  PROVE  LET t == add_peer(s, p)
         IN  /\ Proper(t) /\ t.log = s.log /\ t.state = s.state
             /\ t.current_term = s.current_term /\ t.node_id = s.node_id
             /\ \/ t.next_index = s.next_index /\ t.match_index = s.match_index
                \/ /\ t.next_index = Store(s.next_index, p, Len(s.log) + 1)
                   /\ t.match_index = Store(s.match_index, p, 0)
<1>. DEFINE t == add_peer(s, p)
            next == Store(s.next_index, p, Len(s.log) + 1)
            match == Store(s.match_index, p, 0)
<1>1. /\ Shape(s) /\ s.log \in Seq(LogEntry) /\ Positioned(s.log) /\ s.commit_index \in Nat
      /\ NextMap(s.next_index) /\ IndexMap(s.match_index)
  BY ProperShape
<1>2. CASE p \in DOMAIN s.next_index
  BY <1>2 DEF add_peer
<1>3. CASE p \notin DOMAIN s.next_index
  <2>1. NextMap(next) /\ IndexMap(match)
    <3>1. Len(s.log) + 1 \in Nat /\ Len(s.log) + 1 > 0 /\ 0 \in Nat
      BY <1>1, LenProperties
    <3>. QED
      BY <1>1, <3>1, StoreMap, StoreNext
  <2>2. t = [s EXCEPT !.next_index = next, !.match_index = match]
    BY <1>1, <1>3, LastIndex DEF add_peer, Shape
  <2>. HIDE DEF t, next, match
  <2>3. /\ Shape(t) /\ t.log = s.log /\ t.commit_index = s.commit_index
        /\ t.match_index = match /\ t.next_index = next
        /\ t.state = s.state /\ t.current_term = s.current_term /\ t.node_id = s.node_id
    BY <1>1, <2>2 DEF Shape
  <2>4. Proper(t)
    BY <1>1, <2>1, <2>3, ShapeProper
  <2>. QED
    BY <2>3, <2>4 DEF next, match, t
<1>. QED
  BY <1>2, <1>3

\* The request a leader builds names the entry before its own.
LEMMA BuildProper ==
  ASSUME NEW s, Proper(s), NEW p \in Nodes
  PROVE  LET req == build_append_entries_request(s, p)
             prev == req.prev_log_index
         IN  /\ ProperRequest(req) /\ req.term = s.current_term
             /\ prev \in DOMAIN s.log => req.prev_log_term = s.log[prev].term
             /\ p \notin DOMAIN s.next_index => prev = 0
             /\ p \in DOMAIN s.next_index /\ s.next_index[p] > 0 => prev = s.next_index[p] - 1
             /\ req.entries # <<>> =>
                  /\ prev < Len(s.log)
                  /\ req.entries = SubSeq(s.log, prev + 1, Len(s.log))
             /\ req.entries = <<>> => p \notin DOMAIN s.next_index \/ s.next_index[p] \notin DOMAIN s.log
<1>. DEFINE req == build_append_entries_request(s, p)
            known == p \in DOMAIN s.next_index
            prev == IF known /\ s.next_index[p] > 0 THEN s.next_index[p] - 1 ELSE 0
            term == IF prev \in DOMAIN s.log THEN s.log[prev].term ELSE 0
            entries == IF known THEN get_entries_from(s.log, s.next_index[p]) ELSE <<>>
<1>1. /\ s.log \in Seq(LogEntry) /\ Positioned(s.log) /\ s.commit_index \in Nat
      /\ NextMap(s.next_index) /\ s.current_term \in Nat /\ s.node_id \in Nodes
  BY ProperShape
<1>2. prev \in Nat /\ (known => s.next_index[p] \in Nat)
  BY <1>1 DEF IndexMap, NextMap
<1>3. term \in Nat
  <2>1. prev \in DOMAIN s.log => s.log[prev] \in LogEntry
    <3>. HIDE DEF prev
    <3>. QED
      BY <1>1, LenProperties, ElementOfSeq
  <2>. HIDE DEF prev
  <2>. QED
    BY <2>1 DEF LogEntry
<1>4. /\ entries \in Seq(LogEntry) /\ PositionedFrom(entries, prev)
      /\ entries # <<>> => prev < Len(s.log) /\ entries = SubSeq(s.log, prev + 1, Len(s.log))
      /\ entries = <<>> => ~known \/ s.next_index[p] \notin DOMAIN s.log
  <2>1. CASE known /\ s.next_index[p] > 0
    <3>. DEFINE i == s.next_index[p]
    <3>1. /\ entries = get_entries_from(s.log, i) /\ i \in Nat /\ i > 0 /\ prev = i - 1
          /\ Len(s.log) \in Nat /\ DOMAIN s.log = 1 .. Len(s.log)
      BY <1>1, <1>2, <2>1, LenProperties
    <3>2. /\ entries \in Seq(LogEntry) /\ PositionedFrom(entries, i - 1)
          /\ entries # <<>> => i \in 1 .. Len(s.log) /\ entries = SubSeq(s.log, i, Len(s.log))
      <4>. HIDE DEF i, entries, prev
      <4>. QED
        BY <1>1, <3>1, EntriesFrom
    <3>3. entries = <<>> => i \notin DOMAIN s.log
      <4>. SUFFICES ASSUME i \in DOMAIN s.log
                    PROVE  entries # <<>>
        OBVIOUS
      <4>1. entries = SubSeq(s.log, i, Len(s.log))
        BY <3>1 DEF get_entries_from
      <4>2. i \in 1 .. Len(s.log) /\ \A j \in i .. Len(s.log) : s.log[j] \in LogEntry
        BY <1>1, <3>1, ElementOfSeq
      <4>3. Len(entries) = Len(s.log) - i + 1
        <5>. HIDE DEF i, entries, prev
        <5>. QED
          BY <3>1, <4>1, <4>2, SubSeqProperties
      <4>. HIDE DEF i, entries, prev
      <4>. QED
        BY <3>1, <4>2, <4>3
    <3>. HIDE DEF i, entries, prev
    <3>4. prev + 1 = i
      BY <3>1
    <3>. QED
      BY <3>1, <3>2, <3>3, <3>4 DEF i
  <2>2. CASE known /\ ~(s.next_index[p] > 0)
    <3>1. s.next_index[p] \notin DOMAIN s.log
      BY <1>1, <1>2, <2>2, LenProperties
    <3>2. entries = <<>>
      BY <2>2, <3>1 DEF get_entries_from
    <3>3. <<>> \in Seq(LogEntry) /\ PositionedFrom(<<>>, prev)
      BY DEF PositionedFrom
    <3>. HIDE DEF entries, prev
    <3>. QED
      BY <3>1, <3>2, <3>3
  <2>3. CASE ~known
    BY <2>3 DEF PositionedFrom
  <2>. QED
    BY <2>1, <2>2, <2>3
<1>5. req = [term |-> s.current_term, leader_id |-> s.node_id, prev_log_index |-> prev,
             prev_log_term |-> term, entries |-> entries, leader_commit |-> s.commit_index]
  BY DEF build_append_entries_request
<1>6. /\ prev \in DOMAIN s.log => term = s.log[prev].term
      /\ ~known => prev = 0
      /\ known /\ s.next_index[p] > 0 => prev = s.next_index[p] - 1
  OBVIOUS
<1>. HIDE DEF req, prev, term, entries
<1>7. ProperRequest(req)
  BY <1>1, <1>2, <1>3, <1>4, <1>5 DEF ProperRequest, AppendEntriesRequest
<1>. QED
  BY <1>4, <1>5, <1>6, <1>7 DEF req

\* update_commit_index stores an index of the log.
LEMMA CommitProper ==
  ASSUME NEW s, Proper(s)
  PROVE  LET t == update_commit_index(s)
         IN  /\ Proper(t) /\ t.log = s.log /\ t.state = s.state
             /\ t.current_term = s.current_term
             /\ t.next_index = s.next_index /\ t.match_index = s.match_index
<1>. DEFINE t == update_commit_index(s)
            C == Commitable(s)
            c == Greatest(C)
<1>1. /\ Shape(s) /\ s.log \in Seq(LogEntry) /\ Positioned(s.log) /\ s.commit_index \in Nat
      /\ NextMap(s.next_index) /\ IndexMap(s.match_index)
  BY ProperShape
<1>2. CASE s.state = "leader" /\ C # {}
  <2>1. last_log_index(s.log) \in Nat
    BY <1>1, LastIndex
  <2>2. C \in SUBSET Nat /\ \A i \in C : i <= last_log_index(s.log)
    BY <1>1, <2>1 DEF Commitable
  <2>3. c \in Nat
    <3>. HIDE DEF C
    <3>1. c \in C
      BY <1>2, <2>1, <2>2, GreatestExists
    <3>. QED
      BY <2>2, <3>1
  <2>4. t = [s EXCEPT !.commit_index = c]
    BY <1>2 DEF update_commit_index
  <2>. HIDE DEF t, c
  <2>5. /\ Shape(t) /\ t.log = s.log /\ t.commit_index = c /\ t.state = s.state
        /\ t.current_term = s.current_term
        /\ t.next_index = s.next_index /\ t.match_index = s.match_index
    BY <1>1, <2>4 DEF Shape
  <2>6. Proper(t)
    BY <1>1, <2>3, <2>5, ShapeProper
  <2>. QED
    BY <2>5, <2>6 DEF t
<1>3. CASE ~(s.state = "leader" /\ C # {})
  BY <1>3 DEF update_commit_index
<1>. QED
  BY <1>2, <1>3

\* A response deposes the node, or says nothing to one that leads no longer, or
\* tells a leader what the peer has or where to go on.
Hears(s, t, p, req, resp) ==
  \/ /\ resp.term > s.current_term /\ t.state = "follower"
     /\ t.next_index = NoIndexes /\ t.match_index = NoIndexes
  \/ t = s /\ s.state # "leader"
  \/ /\ t.state = "leader" /\ s.state = "leader"
     /\ resp.term <= s.current_term /\ t.current_term = s.current_term
     /\ \/ /\ resp.success
           /\ t.match_index = Store(s.match_index, p, Matched(req))
           /\ t.next_index = Store(s.next_index, p, Matched(req) + 1)
        \/ /\ ~resp.success
           /\ t.match_index = s.match_index
           /\ t.next_index = Store(s.next_index, p,
                IF resp.conflict_index > 0 THEN resp.conflict_index ELSE StepBack(s, p))

\* The node stays proper, keeps its log, and hears the response.
LEMMA ResponseProper ==
  ASSUME NEW s, Proper(s), NEW p \in Nodes, NEW req, ProperRequest(req),
         NEW resp \in AppendEntriesResponse
  PROVE  LET t == handle_append_entries_response(s, p, req, resp)
         IN  Proper(t) /\ t.log = s.log /\ Hears(s, t, p, req, resp)
<1>. DEFINE t == handle_append_entries_response(s, p, req, resp)
            matched == Matched(req)
            back == IF resp.conflict_index > 0 THEN resp.conflict_index ELSE StepBack(s, p)
<1>1. /\ Shape(s) /\ s.log \in Seq(LogEntry) /\ Positioned(s.log) /\ s.commit_index \in Nat
      /\ NextMap(s.next_index) /\ IndexMap(s.match_index) /\ s.current_term \in Nat
  BY ProperShape
<1>2. /\ resp.term \in Nat /\ resp.success \in BOOLEAN /\ resp.conflict_index \in Nat
      /\ matched \in Nat
  <2>1. req.entries \in Seq(LogEntry) /\ req.prev_log_index \in Nat
    BY DEF ProperRequest, AppendEntriesRequest
  <2>2. Len(req.entries) \in Nat
    BY <2>1, LenProperties
  <2>. QED
    BY <2>1, <2>2 DEF AppendEntriesResponse, Matched
<1>3. back \in Nat /\ back > 0
  BY <1>1, <1>2, MaxAssumption DEF StepBack, IndexMap, NextMap
<1>4. CASE resp.term > s.current_term
  BY <1>2, <1>4, TermCallsProper DEF handle_append_entries_response, Hears
<1>5. CASE ~(resp.term > s.current_term) /\ s.state # "leader"
  BY <1>5 DEF handle_append_entries_response, Hears
<1>6. CASE ~(resp.term > s.current_term) /\ s.state = "leader" /\ resp.success
  <2>. DEFINE match == Store(s.match_index, p, matched)
              next == Store(s.next_index, p, matched + 1)
              u == [s EXCEPT !.match_index = match, !.next_index = next]
  <2>1. t = update_commit_index(u)
    BY <1>6 DEF handle_append_entries_response, Shape
  <2>2. IndexMap(match) /\ NextMap(next)
    <3>1. matched + 1 \in Nat /\ matched + 1 > 0
      BY <1>2
    <3>. HIDE DEF matched
    <3>. QED
      BY <1>1, <1>2, <3>1, StoreMap, StoreNext
  <2>. HIDE DEF match, next
  <2>3. /\ Shape(u) /\ u.log = s.log /\ u.commit_index = s.commit_index /\ u.state = s.state
        /\ u.current_term = s.current_term /\ u.match_index = match /\ u.next_index = next
    BY <1>1 DEF Shape
  <2>. HIDE DEF u
  <2>4. Proper(u)
    BY <1>1, <2>2, <2>3, ShapeProper
  <2>5. /\ Proper(t) /\ t.log = u.log /\ t.state = u.state /\ t.current_term = u.current_term
        /\ t.next_index = u.next_index /\ t.match_index = u.match_index
    BY <2>1, <2>4, CommitProper
  <2>. HIDE DEF t
  <2>. QED
    BY <1>1, <1>2, <1>6, <2>3, <2>5 DEF t, match, next, Hears
<1>7. CASE ~(resp.term > s.current_term) /\ s.state = "leader" /\ ~resp.success
  <2>. DEFINE next == Store(s.next_index, p, back)
  <2>1. t = [s EXCEPT !.next_index = next]
    BY <1>7 DEF handle_append_entries_response, Shape
  <2>2. NextMap(next)
    <3>. HIDE DEF back
    <3>. QED
      BY <1>1, <1>3, StoreNext
  <2>. HIDE DEF t, next, Hears
  <2>3. /\ Shape(t) /\ t.log = s.log /\ t.commit_index = s.commit_index /\ t.state = s.state
        /\ t.current_term = s.current_term /\ t.match_index = s.match_index
        /\ t.next_index = next
    BY <1>1, <2>1 DEF Shape
  <2>4. Proper(t)
    BY <1>1, <2>2, <2>3, ShapeProper
  <2>. QED
    BY <1>1, <1>2, <1>7, <2>3, <2>4 DEF t, next, Hears
<1>. QED
  BY <1>1, <1>2, <1>4, <1>5, <1>6, <1>7

\* The first entry of a term is not behind the others.
LEMMA FirstOfTermFacts ==
  ASSUME NEW log \in Seq(LogEntry), NEW i \in DOMAIN log
  PROVE  FirstOfTerm(log, log[i].term) \in 1 .. i
<1>. DEFINE S == {j \in DOMAIN log : log[j].term = log[i].term}
<1>1. DOMAIN log = 1 .. Len(log) /\ Len(log) \in Nat
  BY LenProperties
<1>2. S \in SUBSET Nat /\ i \in S
  BY <1>1
<1>3. Least(S) \in S /\ Least(S) <= i
  BY <1>2, LeastExists
<1>4. Least(S) \in 1 .. i
  <2>. DEFINE l == Least(S)
  <2>1. l \in 1 .. Len(log) /\ l <= i
    BY <1>1, <1>3
  <2>. HIDE DEF l
  <2>2. l \in 1 .. i
    BY <1>1, <2>1
  <2>. QED
    BY <2>2 DEF l
<1>. QED
  BY <1>4 DEF FirstOfTerm

\* A node that hears of a term follows in it.
LEMMA HeardProper ==
  ASSUME NEW s, Proper(s), NEW req, ProperRequest(req), req.term >= s.current_term
  PROVE  LET t == Heard(s, req)
         IN  /\ Proper(t) /\ t.log = s.log /\ t.commit_index = s.commit_index
             /\ t.state = "follower" /\ t.current_term = req.term
             /\ \/ t.next_index = NoIndexes /\ t.match_index = NoIndexes
                \/ /\ s.state = "follower"
                   /\ t.next_index = s.next_index /\ t.match_index = s.match_index
<1>. DEFINE u == [s EXCEPT !.current_term = IF req.term > @ THEN req.term ELSE @,
                           !.voted_for = IF req.term > s.current_term THEN Nobody ELSE @]
            t == Heard(s, req)
<1>1. /\ Shape(s) /\ s.log \in Seq(LogEntry) /\ Positioned(s.log) /\ s.commit_index \in Nat
      /\ NextMap(s.next_index) /\ IndexMap(s.match_index) /\ s.current_term \in Nat
      /\ req.term \in Nat
  BY ProperShape DEF ProperRequest, AppendEntriesRequest
<1>2. Shape(u) /\ u.current_term = req.term
  <2>1. CASE req.term > s.current_term
    <3>1. u = [s EXCEPT !.current_term = req.term, !.voted_for = Nobody]
      BY <1>1, <2>1 DEF Shape
    <3>. HIDE DEF u
    <3>. QED
      BY <1>1, <2>1, <3>1 DEF Shape
  <2>2. CASE req.term = s.current_term
    <3>1. ~(req.term > s.current_term)
      BY <1>1, <2>2
    <3>2. u = s
      BY <1>1, <3>1 DEF Shape
    <3>. HIDE DEF u
    <3>. QED
      BY <1>1, <2>2, <3>2
  <2>. QED
    BY <1>1, <2>1, <2>2
<1>3. /\ u.log = s.log /\ u.commit_index = s.commit_index /\ u.state = s.state
      /\ u.next_index = s.next_index /\ u.match_index = s.match_index
  BY <1>1 DEF Shape
<1>4. t = IF s.state = "follower" THEN u ELSE become_follower(u, u.current_term)
  BY DEF Heard
<1>. HIDE DEF u, t
<1>5. Proper(u)
  BY <1>1, <1>2, <1>3, ShapeProper
<1>6. CASE s.state = "follower"
  BY <1>2, <1>3, <1>4, <1>5, <1>6 DEF t
<1>7. CASE s.state # "follower"
  <2>1. t = become_follower(u, u.current_term) /\ u.current_term \in Nat
    BY <1>1, <1>2, <1>4, <1>7
  <2>2. PICK p \in Nodes : TRUE
    BY NodesAssumption
  <2>3. /\ Proper(t) /\ t.log = u.log /\ t.state = "follower"
        /\ t.commit_index = u.commit_index
        /\ t.next_index = NoIndexes /\ t.match_index = NoIndexes
    BY <1>5, <2>1, <2>2, TermCallsProper
  <2>4. t.current_term = u.current_term
    BY <1>1, <1>2, <2>1, BecomeFollowerQuiet
  <2>. QED
    BY <1>2, <1>3, <2>3, <2>4 DEF t
<1>. QED
  BY <1>6, <1>7

\* The node has the request's term now and follows.
Follows(s, t, req) ==
  /\ req.term >= s.current_term
  /\ t.state = "follower" /\ t.current_term = req.term
  /\ \/ t.next_index = NoIndexes /\ t.match_index = NoIndexes
     \/ /\ s.state = "follower"
        /\ t.next_index = s.next_index /\ t.match_index = s.match_index

\* A request is of an earlier term, or it is refused at or before its previous
\* entry, or its entries are merged into the log.
Answers(s, t, req, resp) ==
  \/ req.term < s.current_term /\ t = s /\ ~resp.success
  \/ /\ Follows(s, t, req)
     /\ ~resp.success /\ resp.conflict_index \in 1 .. req.prev_log_index
     /\ t.log = s.log
  \/ /\ Follows(s, t, req)
     /\ resp.success /\ PrevFound(s.log, req)
     /\ req.prev_log_index <= Len(s.log)
     /\ t.log = Merged(s.log, req.entries)

\* The node and the response are proper, and the node answers.
LEMMA AppendProper ==
  ASSUME NEW s, Proper(s), NEW req, ProperRequest(req)
  PROVE  LET r == handle_append_entries(s, req)
         IN  /\ Proper(r.node) /\ r.resp \in AppendEntriesResponse
             /\ r.resp.term = s.current_term
             /\ Answers(s, r.node, req, r.resp)
<1>. DEFINE r == handle_append_entries(s, req)
            t == Heard(s, req)
            prev == req.prev_log_index
            log == Merged(t.log, req.entries)
            resp == [term |-> s.current_term, success |-> FALSE, conflict_index |-> 0]
<1>1. /\ s.log \in Seq(LogEntry) /\ Positioned(s.log) /\ s.current_term \in Nat
      /\ Shape(s)
      /\ req.term \in Nat /\ prev \in Nat /\ req.leader_commit \in Nat
      /\ req.entries \in Seq(LogEntry) /\ PositionedFrom(req.entries, prev)
  BY ProperShape DEF ProperRequest, AppendEntriesRequest
<1>2. DOMAIN s.log = 1 .. Len(s.log) /\ Len(s.log) \in Nat
  BY <1>1, LenProperties
<1>3. CASE req.term < s.current_term
  <2>1. r = [node |-> s, resp |-> resp]
    BY <1>3 DEF handle_append_entries
  <2>. HIDE DEF r
  <2>2. resp \in AppendEntriesResponse
    BY <1>1 DEF AppendEntriesResponse
  <2>. QED
    BY <1>1, <1>3, <2>1, <2>2 DEF r, Answers
<1>4. CASE ~(req.term < s.current_term)
  <2>1. /\ Proper(t) /\ t.log = s.log /\ t.commit_index = s.commit_index
        /\ t.state = "follower" /\ t.current_term = req.term
        /\ \/ t.next_index = NoIndexes /\ t.match_index = NoIndexes
           \/ /\ s.state = "follower"
              /\ t.next_index = s.next_index /\ t.match_index = s.match_index
    BY <1>1, <1>4, HeardProper
  <2>2. Shape(t) /\ t.commit_index \in Nat /\ NextMap(t.next_index) /\ IndexMap(t.match_index)
    BY <2>1, ProperShape
  <2>3. CASE ~PrevFound(t.log, req)
    <3>. DEFINE c == ConflictIndex(t.log, req)
    <3>1. r = [node |-> t, resp |-> [resp EXCEPT !.conflict_index = c]]
      BY <1>4, <2>3 DEF handle_append_entries
    <3>2. prev # 0
      BY <2>3 DEF PrevFound
    <3>3. c \in 1 .. prev
      <4>1. CASE prev \notin DOMAIN s.log
        <5>1. c = Len(s.log) + 1
          BY <1>1, <2>1, <4>1, LastIndex DEF ConflictIndex
        <5>. QED
          BY <1>1, <1>2, <3>2, <4>1, <5>1
      <4>2. CASE prev \in DOMAIN s.log
        <5>1. c = FirstOfTerm(s.log, s.log[prev].term)
          BY <2>1, <4>2 DEF ConflictIndex
        <5>. HIDE DEF c, prev
        <5>. QED
          BY <1>1, <4>2, <5>1, FirstOfTermFacts
      <4>. QED
        BY <4>1, <4>2
    <3>. HIDE DEF c
    <3>4. c \in Nat
      BY <1>1, <3>3
    <3>. HIDE DEF r, t
    <3>5. r.node = t /\ ~r.resp.success /\ r.resp.conflict_index = c /\ r.resp.term = s.current_term
          /\ r.resp \in AppendEntriesResponse
      BY <1>1, <3>1, <3>4 DEF AppendEntriesResponse
    <3>. QED
      BY <1>1, <1>4, <2>1, <3>3, <3>5 DEF r, Answers, Follows
  <2>4. CASE PrevFound(t.log, req)
    <3>. DEFINE c == IF req.leader_commit > t.commit_index
                     THEN AtMost(req.leader_commit, last_log_index(log)) ELSE t.commit_index
                u == [t EXCEPT !.log = log, !.commit_index = c]
    <3>1. r = [node |-> u, resp |-> [resp EXCEPT !.success = TRUE]]
      BY <1>4, <2>2, <2>4 DEF handle_append_entries, Shape
    <3>2. PrevFound(s.log, req) /\ prev <= Len(s.log) /\ log = Merged(s.log, req.entries)
      BY <1>1, <1>2, <2>1, <2>4 DEF PrevFound
    <3>3. log \in Seq(LogEntry) /\ Positioned(log)
      BY <1>1, <3>2, MergedFacts
    <3>. HIDE DEF r, t, log
    <3>4. c \in Nat
      BY <1>1, <2>2, <3>3, LastIndex DEF AtMost
    <3>. HIDE DEF c
    <3>5. /\ Shape(u) /\ u.log = log /\ u.commit_index = c
          /\ u.next_index = t.next_index /\ u.match_index = t.match_index
          /\ u.state = t.state /\ u.current_term = t.current_term
      BY <2>2 DEF Shape
    <3>. HIDE DEF u
    <3>6. Proper(u)
      BY <2>2, <3>3, <3>4, <3>5, ShapeProper
    <3>7. r.node = u /\ r.resp.success /\ r.resp.term = s.current_term
          /\ r.resp \in AppendEntriesResponse
      BY <1>1, <3>1 DEF AppendEntriesResponse
    <3>. QED
      BY <1>1, <1>4, <2>1, <3>2, <3>5, <3>6, <3>7 DEF r, Answers, Follows
  <2>. QED
    BY <2>3, <2>4
<1>. QED
  BY <1>3, <1>4

-----------------------------------------------------------------------------
(* Types and indexes *)

\* A message of one of the four types; a request continues the entry it names,
\* and a refusal of its own term names an index at or before that entry.
ProperMessage(m) ==
  /\ m \in VoteMessage \cup VoteReplyMessage \cup AppendMessage \cup AppendReplyMessage
  /\ m.type \in {"append", "append reply"} => ProperRequest(m.req)
  /\ m.type = "append reply" /\ ~m.resp.success /\ m.resp.term <= m.req.term
       => m.resp.conflict_index \in 1 .. m.req.prev_log_index

\* The inductive invariant of the types: every node and every message is
\* proper, and a refusal leads back.
LogTypes ==
  /\ \A n \in Nodes : Proper(node[n])
  /\ \A m \in net : ProperMessage(m)

\* The members of a message, by its type
LEMMA MessageFields ==
  ASSUME NEW m, ProperMessage(m)
  PROVE  /\ m.from \in Nodes /\ m.to \in Nodes
         /\ m.type \in {"vote", "vote reply", "append", "append reply"}
         /\ m.type = "vote" => m.term \in Nat
         /\ m.type = "vote reply" => m.term \in Nat /\ m.asked \in Nat
         /\ m.type = "append" => m \in AppendMessage /\ ProperRequest(m.req)
         /\ m.type = "append reply" =>
              /\ m \in AppendReplyMessage /\ ProperRequest(m.req)
              /\ m.resp \in AppendEntriesResponse
  BY DEF ProperMessage, VoteMessage, VoteReplyMessage, AppendMessage, AppendReplyMessage

\* One node changes, and new messages are proper.
LEMMA TypesStep ==
  ASSUME LogTypes, Elections, NEW n \in Nodes, NEW t, Proper(t), node' = [node EXCEPT ![n] = t],
         \A m \in net' : m \in net \/ ProperMessage(m)
  PROVE  LogTypes'
<1>1. \A q \in Nodes : node'[q] = IF q = n THEN t ELSE node[q]
  BY DEF Elections, Shapes
<1>2. \A q \in Nodes : Proper(node'[q])
  BY <1>1 DEF LogTypes
<1>3. \A m \in net' : ProperMessage(m)
  BY DEF LogTypes
<1>. QED
  BY <1>2, <1>3 DEF LogTypes

\* Every step keeps the types, one case for each action.
LEMMA TypesNext ==
  ASSUME LogTypes, Elections, [Next]_vars
  PROVE  LogTypes'
<1>0. /\ \A n \in Nodes : Proper(node[n]) /\ node[n].node_id = n /\ node[n].current_term \in Nat
      /\ \A m \in net : ProperMessage(m)
      /\ DOMAIN node = Nodes
  BY ProperShape DEF LogTypes, Elections, Shapes
<1>1. CASE UNCHANGED vars
  BY <1>1 DEF LogTypes, vars
<1>2. ASSUME NEW n \in Nodes, Timeout(n)
      PROVE  LogTypes'
  <2>1. Proper(become_candidate(node[n]))
    BY <1>0, TermCallsProper
  <2>. QED
    BY <1>2, <2>1, TypesStep DEF Timeout
<1>3. ASSUME NEW n \in Nodes, NEW p \in Nodes, RequestVote(n, p)
      PROVE  LogTypes'
  <2>1. /\ last_log_index(node[n].log) \in Nat /\ last_log_term(node[n].log) \in Nat
    BY <1>0, ProperShape, LastIndex
  <2>2. ProperMessage(VoteRequest(n, p))
    BY <1>0, <2>1 DEF VoteRequest, ProperMessage, VoteMessage
  <2>. QED
    BY <1>0, <1>3, <2>2 DEF RequestVote, Send, LogTypes
<1>4. ASSUME NEW m \in net, HandleVoteRequest(m)
      PROVE  LogTypes'
  <2>. DEFINE q == m.to
              p == m.from
              s == IF m.term > node[q].current_term THEN become_follower(node[q], m.term) ELSE node[q]
              granted == can_vote_for(s, p, m.term) /\ UpToDate(s.log, m)
              t == IF granted THEN vote_for(s, p, m.term) ELSE s
              reply == VoteReply(m, s.current_term, granted)
  <2>1. m.type = "vote" /\ q \in Nodes /\ p \in Nodes /\ m.term \in Nat
    BY <1>0, <1>4, MessageFields DEF HandleVoteRequest
  <2>2. Proper(s)
    BY <1>0, <2>1, TermCallsProper
  <2>3. node' = [node EXCEPT ![q] = t] /\ net' = (net \ {m}) \cup {reply}
    BY <1>4 DEF HandleVoteRequest, Reply
  <2>. HIDE DEF s
  <2>4. Proper(t)
    BY <2>1, <2>2, TermCallsProper
  <2>5. granted \in BOOLEAN
    BY DEF can_vote_for, UpToDate
  <2>. HIDE DEF granted
  <2>6. ProperMessage(reply)
    BY <2>1, <2>2, <2>5, ProperShape DEF VoteReply, ProperMessage, VoteReplyMessage
  <2>. HIDE DEF t, reply, q
  <2>. QED
    BY <2>1, <2>3, <2>4, <2>6, TypesStep
<1>5. ASSUME NEW m \in net, CountVote(m)
      PROVE  LogTypes'
  <2>. DEFINE s == [node[m.to] EXCEPT !.voted_count = @ + 1]
              elected == s.voted_count > Cardinality(Nodes) \div 2
              t == IF elected THEN become_leader(s) ELSE s
  <2>1. m.to \in Nodes
    BY <1>0, MessageFields
  <2>2. Proper(s) /\ Proper(become_leader(s))
    BY <1>0, <2>1, CountProper
  <2>3. node' = [node EXCEPT ![m.to] = t] /\ net' = net \ {m}
    BY <1>5 DEF CountVote
  <2>4. Proper(t)
    BY <2>2
  <2>. HIDE DEF s, t
  <2>. QED
    BY <2>1, <2>3, <2>4, TypesStep
<1>6. ASSUME NEW m \in net, StepDown(m)
      PROVE  LogTypes'
  <2>. DEFINE t == become_follower(node[m.to], m.term)
  <2>1. m.to \in Nodes /\ m.term \in Nat
    BY <1>0, <1>6, MessageFields DEF StepDown
  <2>2. Proper(t)
    BY <1>0, <2>1, TermCallsProper
  <2>3. node' = [node EXCEPT ![m.to] = t] /\ net' = net \ {m}
    BY <1>6 DEF StepDown
  <2>. HIDE DEF t
  <2>. QED
    BY <2>1, <2>2, <2>3, TypesStep
<1>7. ASSUME NEW n \in Nodes, Propose(n)
      PROVE  LogTypes'
  <2>1. Proper(propose(node[n]))
    BY <1>0, ProposeProper
  <2>. QED
    BY <1>7, <2>1, TypesStep DEF Propose
<1>8. ASSUME NEW n \in Nodes, NEW p \in Nodes, SendAppend(n, p)
      PROVE  LogTypes'
  <2>. DEFINE s == IF AddPeers THEN add_peer(node[n], p) ELSE node[n]
              req == build_append_entries_request(s, p)
  <2>1. Proper(s) /\ s.node_id = n
    BY <1>0, AddPeerProper
  <2>2. net' = net \cup {AppendRequest(s, p)} /\ node' = [node EXCEPT ![n] = s]
    BY <1>8 DEF SendAppend, Send
  <2>. HIDE DEF s
  <2>3. ProperRequest(req)
    BY <2>1, BuildProper
  <2>4. AppendRequest(s, p) = [type |-> "append", from |-> n, to |-> p, req |-> req]
    BY <2>1 DEF AppendRequest
  <2>. HIDE DEF req
  <2>5. ProperMessage(AppendRequest(s, p))
    BY <2>3, <2>4 DEF ProperMessage, AppendMessage, ProperRequest
  <2>. QED
    BY <2>1, <2>2, <2>5, TypesStep
<1>9. ASSUME NEW m \in net, HandleAppend(m)
      PROVE  LogTypes'
  <2>. DEFINE r == handle_append_entries(node[m.to], m.req)
  <2>1. m.to \in Nodes /\ m.from \in Nodes /\ ProperRequest(m.req)
    BY <1>0, <1>9, MessageFields DEF HandleAppend
  <2>2. /\ Proper(r.node) /\ r.resp \in AppendEntriesResponse
        /\ r.resp.term = node[m.to].current_term
        /\ ~r.resp.success /\ ~(m.req.term < r.resp.term)
             => r.resp.conflict_index \in 1 .. m.req.prev_log_index
    <3>1. Proper(node[m.to])
      BY <1>0, <2>1
    <3>. QED
      BY <2>1, <3>1, AppendProper DEF Answers, Follows
  <2>3. node' = [node EXCEPT ![m.to] = r.node] /\ net' = (net \ {m}) \cup {AppendReply(m, r.resp)}
    BY <1>9 DEF HandleAppend, Reply
  <2>. HIDE DEF r
  <2>4. ProperMessage(AppendReply(m, r.resp))
    <3>. DEFINE y == AppendReply(m, r.resp)
    <3>1. y = [type |-> "append reply", from |-> m.to, to |-> m.from, req |-> m.req, resp |-> r.resp]
      BY DEF AppendReply
    <3>. HIDE DEF y
    <3>2. y \in AppendReplyMessage
      <4>1. m.req \in AppendEntriesRequest
        BY <2>1 DEF ProperRequest
      <4>. QED
        BY <2>1, <2>2, <3>1, <4>1 DEF AppendReplyMessage
    <3>3. m.req.term \in Nat /\ r.resp.term \in Nat
      BY <1>0, <2>1, <2>2 DEF ProperRequest, AppendEntriesRequest
    <3>4. y.type = "append reply" /\ y.req = m.req /\ y.resp = r.resp
      BY <3>1
    <3>5. y.resp.term <= y.req.term => ~(m.req.term < r.resp.term)
      <4>1. y.resp.term = r.resp.term /\ y.req.term = m.req.term
        BY <3>4
      <4>2. \A i, j \in Nat : i <= j => ~(j < i)
        OBVIOUS
      <4>. QED
        BY <3>3, <4>1, <4>2
    <3>6. ProperMessage(y)
      BY <2>1, <2>2, <3>2, <3>4, <3>5 DEF ProperMessage
    <3>. QED
      BY <3>6 DEF y
  <2>. QED
    BY <2>1, <2>2, <2>3, <2>4, TypesStep
<1>10. ASSUME NEW m \in net, HandleAppendReply(m)
       PROVE  LogTypes'
  <2>. DEFINE t == handle_append_entries_response(node[m.to], m.from, m.req, m.resp)
  <2>1. /\ m.to \in Nodes /\ m.from \in Nodes /\ ProperRequest(m.req)
        /\ m.resp \in AppendEntriesResponse
    BY <1>0, <1>10, MessageFields DEF HandleAppendReply
  <2>2. Proper(t)
    BY <1>0, <2>1, ResponseProper
  <2>3. node' = [node EXCEPT ![m.to] = t] /\ net' = net \ {m}
    BY <1>0, <1>10, <2>1 DEF HandleAppendReply
  <2>. HIDE DEF t
  <2>. QED
    BY <2>1, <2>2, <2>3, TypesStep
<1>11. ASSUME NEW m \in net, Lose(m)
       PROVE  LogTypes'
  BY <1>11 DEF Lose, LogTypes
<1>. QED
  BY <1>1, <1>2, <1>3, <1>4, <1>5, <1>6, <1>7, <1>8, <1>9, <1>10, <1>11 DEF Next

\* The initial nodes are proper and there are no messages.
LEMMA TypesInit ==
  ASSUME Init
  PROVE  LogTypes
<1>1. \A n \in Nodes : Proper(node[n])
  BY NewProper DEF Init
<1>. QED
  BY <1>1 DEF Init, LogTypes

\* In every reachable state each node has its type and its entries at their
\* positions, each request continues the entry it names, and each refusal names
\* an index in front of that entry.
THEOREM LogTypesAlways == Spec => []LogTypes
<1>1. Init => LogTypes
  BY TypesInit
<1>2. Elections /\ LogTypes /\ [Next]_vars => LogTypes'
  BY TypesNext
<1>. QED
  BY <1>1, <1>2, ElectionsAlways, PTL DEF Spec

\* Every node and every message keeps its type: in particular next_index_ never
\* falls to 0, whatever responses a leader hears and whichever peers it has added.
THEOREM RaftTypeCorrect == Spec => []TypeOK
<1>1. Elections /\ LogTypes => TypeOK
  <2>. SUFFICES ASSUME Elections, LogTypes
                PROVE  TypeOK
    OBVIOUS
  <2>1. \A n \in Nodes : IsNode(node[n]) /\ node[n].node_id = n
    BY DEF LogTypes, Proper, Elections, Shapes
  <2>2. net \subseteq VoteMessage \cup VoteReplyMessage \cup AppendMessage \cup AppendReplyMessage
    BY DEF LogTypes, ProperMessage
  <2>. QED
    BY <2>1, <2>2 DEF TypeOK, Elections, Shapes
<1>. QED
  BY <1>1, ElectionsAlways, LogTypesAlways, PTL

\* An entry of a log stands at the position of its index, although append does
\* not look at the index.
THEOREM IndexIsPositionAlways == Spec => []IndexIsPosition
<1>1. LogTypes => IndexIsPosition
  BY DEF LogTypes, Proper, Positioned, IndexIsPosition
<1>. QED
  BY <1>1, LogTypesAlways, PTL

\* A refusal of the request's own term or an earlier one names an index at or
\* before the entry that was missing, and never 0.
THEOREM RefusalGoesBackAlways == Spec => []RefusalGoesBack
<1>1. LogTypes => RefusalGoesBack
  BY DEF LogTypes, ProperMessage, RefusalGoesBack
<1>. QED
  BY <1>1, LogTypesAlways, PTL
=============================================================================
