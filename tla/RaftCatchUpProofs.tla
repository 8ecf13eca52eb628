------------------------- MODULE RaftCatchUpProofs --------------------------
(***************************************************************************)
(* Theorems about RaftCatchUp: the peer keeps the entries of its term, and *)
(* what it commits is what the leader has.                                 *)
(*                                                                         *)
(* The second one does not hold of RaftCluster as a whole: a leader whose  *)
(* commit_index goes ahead of the majority may commit entries that it      *)
(* loses, and send that index on.  Here there is one leader, and nothing   *)
(* of its log is lost.                                                     *)
(***************************************************************************)
EXTENDS RaftCatchUp, RaftMatchProofs

-----------------------------------------------------------------------------
(* The invariant *)

\* A request: the end of what the leader's log was, and with add_peer no commit
\* index that goes beyond it.
Asks(m, log) ==
  /\ m.type = "append" /\ m.from = Leader /\ m.to = Peer
  /\ ProperRequest(m.req) /\ m.req.term = MaxTerm
  /\ \E a \in Seq(LogEntry) : Carries(m.req, a) /\ Agrees(log, a, Len(a))
  /\ AddPeers => m.req.leader_commit <= Matched(m.req)

\* A response: it speaks of no entry that the leader does not have.
Replies(m, log) ==
  /\ m.type = "append reply" /\ m.from = Peer /\ m.to = Leader
  /\ ProperRequest(m.req) /\ m.req.term = MaxTerm
  /\ m.resp \in AppendEntriesResponse /\ m.resp.term <= MaxTerm
  /\ m.req.prev_log_index <= Len(log) /\ Matched(m.req) <= Len(log)
  /\ ~m.resp.success => m.resp.conflict_index \in 1 .. m.req.prev_log_index

\* The leader stays leader of the last term, and its indexes within its log.
LeaderFits(s) ==
  /\ Proper(s) /\ s.node_id = Leader
  /\ s.state = "leader" /\ s.current_term = MaxTerm
  /\ s.commit_index <= Len(s.log)
  /\ \A p \in DOMAIN s.next_index : s.next_index[p] \in 1 .. Len(s.log) + 1

\* The peer's log matches the leader's, and its entries of the leader's term
\* come from there.
PeerFits(s, log) ==
  /\ Proper(s) /\ s.node_id = Peer
  /\ s.state # "leader" /\ s.current_term <= MaxTerm
  /\ Matches(s.log, log)
  /\ \A i \in 1 .. Len(s.log) : s.log[i].term = MaxTerm => i <= Len(log) /\ log[i].term = MaxTerm

\* The inductive invariant
CatchUpInv ==
  /\ DOMAIN node = Nodes
  /\ \A n \in Nodes : Proper(node[n]) /\ node[n].node_id = n
  /\ \A n \in Nodes : n # Leader => node[n].state # "leader"
  /\ LeaderFits(node[Leader])
  /\ PeerFits(node[Peer], node[Leader].log)
  /\ \A m \in net : Asks(m, node[Leader].log) \/ Replies(m, node[Leader].log)

-----------------------------------------------------------------------------
(* The leader's calls *)

\* The commit rule goes no further than the log.
LEMMA CommitWithin ==
  ASSUME NEW s, Proper(s), s.commit_index <= Len(s.log)
  PROVE  update_commit_index(s).commit_index <= Len(s.log)
<1>. DEFINE C == Commitable(s)
<1>1. /\ s.log \in Seq(LogEntry) /\ Positioned(s.log) /\ s.commit_index \in Nat /\ Shape(s)
      /\ last_log_index(s.log) = Len(s.log) /\ Len(s.log) \in Nat
  BY ProperShape, LastIndex, LenProperties
<1>2. CASE s.state = "leader" /\ C # {}
  <2>1. C \in SUBSET Nat /\ \A i \in C : i <= Len(s.log)
    BY <1>1 DEF Commitable
  <2>2. Greatest(C) \in C
    <3>. HIDE DEF C
    <3>. QED
      BY <1>1, <1>2, <2>1, GreatestExists
  <2>3. update_commit_index(s).commit_index = Greatest(C)
    BY <1>1, <1>2 DEF update_commit_index, Shape
  <2>. QED
    BY <2>1, <2>2, <2>3
<1>3. CASE ~(s.state = "leader" /\ C # {})
  BY <1>3 DEF update_commit_index
<1>. QED
  BY <1>2, <1>3

\* A response leaves the leader's indexes within the log.
LEMMA LeaderHears ==
  ASSUME NEW s, LeaderFits(s), NEW m, Replies(m, s.log)
  PROVE  LET t == handle_append_entries_response(s, m.from, m.req, m.resp)
         IN  LeaderFits(t) /\ t.log = s.log
<1>. DEFINE p == m.from
            t == handle_append_entries_response(s, p, m.req, m.resp)
            matched == Matched(m.req)
<1>1. /\ Proper(s) /\ Shape(s) /\ s.commit_index \in Nat /\ s.log \in Seq(LogEntry)
      /\ NextMap(s.next_index) /\ IndexMap(s.match_index) /\ Positioned(s.log)
      /\ s.state = "leader" /\ s.current_term = MaxTerm /\ s.node_id = Leader
      /\ p \in Nodes
  BY ProperShape, PairAssumption DEF LeaderFits, Replies
<1>2. /\ Len(s.log) \in Nat /\ matched \in Nat /\ matched <= Len(s.log)
      /\ m.resp.term \in Nat /\ ~(m.resp.term > s.current_term)
      /\ m.req.prev_log_index \in Nat /\ m.req.prev_log_index <= Len(s.log)
  <2>1. /\ ProperRequest(m.req) /\ m.resp \in AppendEntriesResponse /\ m.resp.term <= MaxTerm
        /\ m.req.prev_log_index <= Len(s.log) /\ Matched(m.req) <= Len(s.log)
    BY DEF Replies
  <2>2. matched \in Nat
    BY <2>1, MatchedNat
  <2>3. m.resp.term \in Nat /\ m.req.prev_log_index \in Nat /\ MaxTerm \in Nat
    BY <2>1, BoundAssumption DEF AppendEntriesResponse, ProperRequest, AppendEntriesRequest
  <2>4. Len(s.log) \in Nat
    BY <1>1, LenProperties
  <2>. HIDE DEF matched
  <2>. QED
    BY <1>1, <2>1, <2>2, <2>3, <2>4 DEF matched
<1>b. ~m.resp.success =>
        /\ m.resp.conflict_index > 0
        /\ m.resp.conflict_index \in 1 .. Len(s.log) + 1
  <2>1. ~m.resp.success => m.resp.conflict_index \in 1 .. m.req.prev_log_index
    BY DEF Replies
  <2>. DEFINE c == m.resp.conflict_index
              k == m.req.prev_log_index
              l == Len(s.log)
  <2>2. ~m.resp.success => c \in 1 .. k
    BY <2>1
  <2>3. k \in Nat /\ l \in Nat /\ k <= l
    BY <1>2
  <2>. HIDE DEF c, k, l
  <2>4. ~m.resp.success => c > 0 /\ c \in 1 .. l + 1
    BY <2>2, <2>3
  <2>. QED
    BY <2>4 DEF c, l
<1>3. /\ Proper(t) /\ t.log = s.log /\ Hears(s, t, p, m.req, m.resp)
  BY <1>1, ResponseProper DEF Replies
<1>4. t.node_id = Leader
  BY <1>1, <1>2, ResponseQuiet DEF Quiet
<1>5. /\ t.state = "leader" /\ t.current_term = MaxTerm
      /\ \/ m.resp.success /\ t.next_index = Store(s.next_index, p, matched + 1)
         \/ ~m.resp.success /\ t.next_index = Store(s.next_index, p, m.resp.conflict_index)
  <2>. HIDE DEF t, matched
  <2>. QED
    BY <1>1, <1>2, <1>3, <1>b DEF Hears, matched
<1>6. \E i \in 1 .. Len(s.log) + 1 : t.next_index = Store(s.next_index, p, i)
  <2>1. matched + 1 \in 1 .. Len(s.log) + 1
    <3>. HIDE DEF matched
    <3>. QED
      BY <1>2
  <2>. HIDE DEF t, matched
  <2>. QED
    BY <1>5, <1>b, <2>1
<1>7. \A q \in DOMAIN t.next_index : t.next_index[q] \in 1 .. Len(t.log) + 1
  <2>. HIDE DEF t
  <2>. QED
    BY <1>3, <1>6 DEF Store, LeaderFits
<1>8. t.commit_index <= Len(s.log)
  <2>1. CASE m.resp.success
    <3>. DEFINE match == Store(s.match_index, p, matched)
                next == Store(s.next_index, p, matched + 1)
                u == [s EXCEPT !.match_index = match, !.next_index = next]
    <3>1. t = update_commit_index(u)
      BY <1>1, <1>2, <2>1 DEF handle_append_entries_response, Shape
    <3>2. IndexMap(match) /\ NextMap(next)
      <4>1. matched + 1 \in Nat /\ matched + 1 > 0
        BY <1>2
      <4>. HIDE DEF matched
      <4>. QED
        BY <1>1, <1>2, <4>1, StoreMap, StoreNext
    <3>. HIDE DEF match, next
    <3>3. /\ Shape(u) /\ u.log = s.log /\ u.commit_index = s.commit_index
          /\ u.match_index = match /\ u.next_index = next
      BY <1>1 DEF Shape
    <3>. HIDE DEF u
    <3>4. Proper(u)
      BY <1>1, <3>2, <3>3, ShapeProper
    <3>5. u.commit_index <= Len(u.log)
      BY <3>3 DEF LeaderFits
    <3>. QED
      BY <3>1, <3>3, <3>4, <3>5, CommitWithin
  <2>2. CASE ~m.resp.success
    <3>1. t.commit_index = s.commit_index
      BY <1>1, <1>2, <2>2 DEF handle_append_entries_response, Shape
    <3>. QED
      BY <3>1 DEF LeaderFits
  <2>. QED
    BY <2>1, <2>2
<1>. HIDE DEF t
<1>9. LeaderFits(t)
  BY <1>3, <1>4, <1>5, <1>7, <1>8 DEF LeaderFits
<1>. QED
  BY <1>3, <1>9 DEF t

\* propose puts one entry behind the log.
LEMMA LeaderProposes ==
  ASSUME NEW s, LeaderFits(s)
  PROVE  LET t == propose(s)
         IN  /\ LeaderFits(t) /\ Len(t.log) = Len(s.log) + 1
             /\ Agrees(t.log, s.log, Len(s.log))
             /\ t.log[Len(t.log)].term = MaxTerm
             /\ t.commit_index = s.commit_index
<1>. DEFINE t == propose(s)
            i == Len(s.log) + 1
            e == [term |-> s.current_term, index |-> i]
<1>1. /\ Proper(s) /\ Shape(s) /\ s.log \in Seq(LogEntry) /\ s.commit_index \in Nat
      /\ s.state = "leader" /\ s.current_term = MaxTerm /\ s.node_id = Leader
      /\ NextMap(s.next_index)
  BY ProperShape DEF LeaderFits
<1>2. /\ Proper(t) /\ t.log = Append(s.log, e) /\ e \in LogEntry
      /\ t.state = s.state /\ t.current_term = s.current_term /\ t.node_id = s.node_id
      /\ t.next_index = Store(s.next_index, s.node_id, i + 1)
  BY <1>1, ProposeProper
<1>3. /\ Len(t.log) = Len(s.log) + 1 /\ Len(s.log) \in Nat
      /\ \A j \in 1 .. Len(s.log) : t.log[j] = s.log[j]
      /\ t.log[Len(s.log) + 1] = e
  <2>. HIDE DEF e, t
  <2>. QED
    BY <1>1, <1>2, AppendProperties, LenProperties
<1>4. t.commit_index = s.commit_index
  BY <1>1 DEF propose, Shape
<1>. HIDE DEF t
<1>5. t.commit_index <= Len(t.log)
  BY <1>1, <1>3, <1>4 DEF LeaderFits
<1>6. \A p \in DOMAIN t.next_index : t.next_index[p] \in 1 .. Len(t.log) + 1
  BY <1>2, <1>3 DEF Store, LeaderFits
<1>7. LeaderFits(t)
  BY <1>1, <1>2, <1>5, <1>6 DEF LeaderFits
<1>8. Agrees(t.log, s.log, Len(s.log)) /\ t.log[Len(t.log)].term = MaxTerm
  BY <1>1, <1>3 DEF Agrees
<1>. QED
  BY <1>3, <1>4, <1>7, <1>8 DEF t

\* Whatever the driver does about add_peer, the leader's next request carries
\* the end of its log.
LEMMA LeaderAsks ==
  ASSUME NEW s, LeaderFits(s)
  PROVE  LET t == IF AddPeers THEN add_peer(s, Peer) ELSE s
         IN  /\ LeaderFits(t) /\ t.log = s.log /\ t.commit_index = s.commit_index
             /\ Asks(AppendRequest(t, Peer), t.log)
<1>. DEFINE t == IF AddPeers THEN add_peer(s, Peer) ELSE s
            req == build_append_entries_request(t, Peer)
            prev == req.prev_log_index
<1>1. /\ Proper(s) /\ Shape(s) /\ s.log \in Seq(LogEntry) /\ s.commit_index \in Nat
      /\ s.state = "leader" /\ s.current_term = MaxTerm /\ s.node_id = Leader
      /\ NextMap(s.next_index) /\ Len(s.log) \in Nat /\ Peer \in Nodes
  BY ProperShape, LenProperties, PairAssumption DEF LeaderFits
<1>2. /\ Proper(t) /\ t.log = s.log /\ t.state = "leader"
      /\ t.current_term = MaxTerm /\ t.node_id = Leader
      /\ \/ t.next_index = s.next_index
         \/ t.next_index = Store(s.next_index, Peer, Len(s.log) + 1)
  <2>1. CASE AddPeers
    BY <1>1, <2>1, AddPeerProper
  <2>2. CASE ~AddPeers
    BY <1>1, <2>2
  <2>. QED
    BY <2>1, <2>2
<1>3. t.commit_index = s.commit_index
  BY <1>1 DEF add_peer, Shape
<1>4. AddPeers => Peer \in DOMAIN t.next_index
  BY <1>1 DEF add_peer, Shape, Store
<1>5. req.leader_commit = t.commit_index
  BY DEF build_append_entries_request
<1>r. AppendRequest(t, Peer) = [type |-> "append", from |-> Leader, to |-> Peer, req |-> req]
  BY <1>2 DEF AppendRequest
<1>6. /\ ProperRequest(req) /\ req.term = MaxTerm
      /\ prev \in DOMAIN t.log => req.prev_log_term = t.log[prev].term
      /\ Peer \notin DOMAIN t.next_index => prev = 0
      /\ Peer \in DOMAIN t.next_index /\ t.next_index[Peer] > 0 => prev = t.next_index[Peer] - 1
      /\ req.entries # <<>> =>
           /\ prev < Len(t.log)
           /\ req.entries = SubSeq(t.log, prev + 1, Len(t.log))
      /\ req.entries = <<>> =>
           Peer \notin DOMAIN t.next_index \/ t.next_index[Peer] \notin DOMAIN t.log
  <2>. HIDE DEF t
  <2>. QED
    BY <1>1, <1>2, BuildProper
<1>. HIDE DEF t, req
<1>7. \A p \in DOMAIN t.next_index : t.next_index[p] \in 1 .. Len(t.log) + 1
  BY <1>1, <1>2 DEF Store, LeaderFits
<1>8. LeaderFits(t)
  BY <1>1, <1>2, <1>3, <1>7 DEF LeaderFits
<1>9. /\ t.log \in Seq(LogEntry) /\ Len(t.log) \in Nat /\ DOMAIN t.log = 1 .. Len(t.log)
      /\ prev \in Nat /\ req.entries \in Seq(LogEntry)
  BY <1>1, <1>2, <1>6, LenProperties DEF ProperRequest, AppendEntriesRequest
<1>10. prev <= Len(t.log)
  <2>1. CASE Peer \in DOMAIN t.next_index
    <3>. DEFINE next == t.next_index[Peer]
    <3>1. next \in 1 .. Len(t.log) + 1
      BY <1>7, <2>1
    <3>. HIDE DEF next
    <3>. QED
      BY <1>6, <1>9, <2>1, <3>1 DEF next
  <2>2. CASE Peer \notin DOMAIN t.next_index
    BY <1>6, <1>9, <2>2
  <2>. QED
    BY <2>1, <2>2
<1>11. Carries(req, t.log) /\ Agrees(t.log, t.log, Len(t.log))
  <2>1. prev > 0 => req.prev_log_term = t.log[prev].term
    BY <1>6, <1>9, <1>10
  <2>. QED
    BY <1>6, <1>9, <1>10, <2>1 DEF Carries, Agrees
<1>12. ASSUME AddPeers
       PROVE  req.leader_commit <= Matched(req)
  <2>. DEFINE next == t.next_index[Peer]
  <2>1. next \in 1 .. Len(t.log) + 1
    BY <1>4, <1>7, <1>12
  <2>. HIDE DEF next
  <2>2. prev = next - 1
    BY <1>4, <1>6, <1>9, <1>12, <2>1 DEF next
  <2>3. Matched(req) = Len(t.log)
    <3>1. CASE req.entries = <<>>
      <4>1. next = Len(t.log) + 1
        BY <1>4, <1>6, <1>9, <1>12, <2>1, <3>1 DEF next
      <4>. QED
        BY <1>9, <2>2, <3>1, <4>1 DEF Matched
    <3>2. CASE req.entries # <<>>
      <4>. DEFINE l == Len(t.log)
                  e == SubSeq(t.log, prev + 1, l)
                  k == prev
      <4>1. /\ prev + 1 \in Int /\ l \in Int
            /\ \A j \in prev + 1 .. l : t.log[j] \in LogEntry
        BY <1>9, ElementOfSeq
      <4>2. Len(e) = IF prev + 1 <= l THEN l - (prev + 1) + 1 ELSE 0
        BY <4>1, SubSeqProperties
      <4>3. Len(req.entries) = Len(e) /\ prev < l
        BY <1>6, <3>2
      <4>. HIDE DEF e, l
      <4>4. k \in Nat /\ l \in Nat /\ k < l /\ Len(e) = (IF k + 1 <= l THEN l - (k + 1) + 1 ELSE 0)
        BY <1>9, <4>2, <4>3 DEF l
      <4>5. Matched(req) = k + Len(e)
        BY <4>3 DEF Matched
      <4>. HIDE DEF k
      <4>. QED
        BY <4>4, <4>5 DEF l
    <3>. QED
      BY <3>1, <3>2
  <2>. QED
    BY <1>2, <1>3, <1>5, <2>3 DEF LeaderFits
<1>13. Asks(AppendRequest(t, Peer), t.log)
  BY <1>r, <1>6, <1>9, <1>11, <1>12 DEF Asks
<1>. QED
  BY <1>2, <1>3, <1>8, <1>13 DEF t

-----------------------------------------------------------------------------
(* The peer's call *)

\* A commit index that a request raises is at most the leader's, and the request
\* was merged.
LEMMA AppendCommits ==
  ASSUME NEW s, Proper(s), NEW req, ProperRequest(req)
  PROVE  LET t == handle_append_entries(s, req).node
         IN  t.commit_index > s.commit_index =>
               /\ PrevFound(s.log, req) /\ t.log = Merged(s.log, req.entries)
               /\ t.commit_index <= req.leader_commit
<1>. DEFINE r == handle_append_entries(s, req)
            h == Heard(s, req)
            log == Merged(h.log, req.entries)
<1>1. /\ Shape(s) /\ s.commit_index \in Nat /\ ~(s.commit_index > s.commit_index)
      /\ s.current_term \in Nat /\ req.term \in Nat /\ req.leader_commit \in Nat
  BY ProperShape DEF ProperRequest, AppendEntriesRequest
<1>2. CASE req.term < s.current_term
  <2>1. r.node = s
    BY <1>2 DEF handle_append_entries
  <2>. QED
    BY <1>1, <2>1
<1>3. CASE ~(req.term < s.current_term)
  <2>1. Proper(h) /\ h.log = s.log /\ h.commit_index = s.commit_index
    BY <1>1, <1>3, HeardProper
  <2>2. Shape(h)
    BY <2>1, ProperShape
  <2>3. CASE ~PrevFound(h.log, req)
    <3>1. r.node = h
      BY <1>3, <2>3 DEF handle_append_entries
    <3>. QED
      BY <1>1, <2>1, <3>1
  <2>4. CASE PrevFound(h.log, req)
    <3>. DEFINE c == IF req.leader_commit > h.commit_index
                     THEN AtMost(req.leader_commit, last_log_index(log)) ELSE h.commit_index
                u == [h EXCEPT !.log = log, !.commit_index = c]
    <3>1. r.node = u
      BY <1>3, <2>2, <2>4 DEF handle_append_entries, Shape
    <3>. HIDE DEF h, log, c, r
    <3>2. u.log = log /\ u.commit_index = c
      BY <2>2 DEF Shape
    <3>3. last_log_index(log) \in Nat
      <4>1. Proper(r.node)
        BY AppendProper DEF r
      <4>2. log \in Seq(LogEntry) /\ Positioned(log)
        BY <3>1, <3>2, <4>1, ProperShape
      <4>. QED
        BY <4>2, LastIndex
    <3>4. c > s.commit_index => c <= req.leader_commit
      BY <1>1, <2>1, <3>3 DEF c, AtMost
    <3>. QED
      BY <2>1, <2>4, <3>1, <3>2, <3>4 DEF r, log
  <2>. QED
    BY <2>3, <2>4
<1>. QED
  BY <1>2, <1>3

\* Logs that agree with a log up to their end match it.
LEMMA AgreesMatches ==
  ASSUME NEW a \in Seq(LogEntry), NEW b \in Seq(LogEntry), Agrees(a, b, Len(b))
  PROVE  Matches(b, a)
<1>1. Len(a) \in Nat /\ Len(b) \in Nat
  BY LenProperties
<1>. QED
  BY <1>1 DEF Agrees, Matches

\* The peer follows the leader; its log goes on matching the leader's, it keeps
\* its entries of the leader's term, and if it commits, then entries it shares
\* with the leader.
LEMMA PeerAppends ==
  ASSUME NEW log \in Seq(LogEntry), NEW s, PeerFits(s, log), NEW m, Asks(m, log)
  PROVE  LET r == handle_append_entries(s, m.req)
             t == r.node
         IN  /\ PeerFits(t, log) /\ t.current_term = MaxTerm
             /\ Replies(AppendReply(m, r.resp), log)
             /\ \A i \in 1 .. Len(s.log) : s.log[i].term = MaxTerm
                  => i <= Len(t.log) /\ t.log[i] = s.log[i]
             /\ AddPeers /\ t.commit_index > s.commit_index
                  => Agrees(t.log, log, t.commit_index)
<1>. DEFINE req == m.req
            r == handle_append_entries(s, req)
            t == r.node
            new == Merged(s.log, req.entries)
<1>1. /\ Proper(s) /\ Shape(s) /\ s.log \in Seq(LogEntry) /\ Positioned(s.log)
      /\ s.current_term \in Nat /\ s.current_term <= MaxTerm /\ s.node_id = Peer
      /\ Matches(s.log, log) /\ Len(s.log) \in Nat /\ Len(log) \in Nat
      /\ ProperRequest(req) /\ req.term = MaxTerm /\ MaxTerm \in Nat
      /\ m.from = Leader
  BY ProperShape, LenProperties, BoundAssumption DEF PeerFits, Asks
<1>2. PICK a \in Seq(LogEntry) : Carries(req, a) /\ Agrees(log, a, Len(a))
  BY DEF Asks
<1>3. Len(a) \in Nat /\ Len(a) <= Len(log) /\ \A j \in 1 .. Len(a) : log[j] = a[j]
  BY <1>2, LenProperties DEF Agrees
<1>4. Matched(req) \in Nat /\ Matched(req) <= Len(a) /\ req.prev_log_index \in Nat
      /\ req.prev_log_index <= Len(a)
  BY <1>1, <1>2, CarriesMatched DEF Carries, ProperRequest, AppendEntriesRequest
<1>5. /\ Proper(t) /\ r.resp \in AppendEntriesResponse /\ r.resp.term = s.current_term
      /\ Answers(s, t, req, r.resp)
  BY <1>1, AppendProper
<1>6. t.node_id = Peer
  <2>1. req.term \in Nat
    BY <1>1
  <2>. QED
    BY <1>1, <2>1, AppendQuiet DEF Quiet
<1>c. t.commit_index > s.commit_index =>
        PrevFound(s.log, req) /\ t.log = new /\ t.commit_index <= req.leader_commit
  BY <1>1, AppendCommits
<1>. DEFINE reply == AppendReply(m, r.resp)
            resp == r.resp
<1>r. /\ reply.type = "append reply" /\ reply.from = Peer /\ reply.to = Leader
      /\ reply.req = req /\ reply.resp = resp
  <2>. HIDE DEF r
  <2>. QED
    BY <1>1 DEF AppendReply, Asks
<1>. HIDE DEF r, t, reply, new, resp
<1>7. /\ t.state = "follower" /\ t.current_term = MaxTerm
      /\ \/ ~resp.success /\ resp.conflict_index \in 1 .. req.prev_log_index /\ t.log = s.log
         \/ resp.success /\ PrevFound(s.log, req) /\ t.log = new
  <2>1. ~(req.term < s.current_term)
    BY <1>1
  <2>. QED
    BY <1>1, <1>5, <2>1 DEF Answers, Follows, new, resp
<1>8. Replies(reply, log)
  <2>1. req.prev_log_index <= Len(log) /\ Matched(req) <= Len(log)
    BY <1>1, <1>3, <1>4
  <2>2. resp \in AppendEntriesResponse /\ resp.term <= MaxTerm
    BY <1>1, <1>5 DEF resp
  <2>. HIDE DEF req
  <2>. QED
    BY <1>1, <1>7, <1>r, <2>1, <2>2 DEF Replies
<1>9. \A i \in 1 .. Len(s.log) : s.log[i].term = MaxTerm =>
        /\ i <= Len(log) /\ log[i].term = MaxTerm
        /\ \A j \in 1 .. i : s.log[j] = log[j]
  <2>1. \A i \in 1 .. Len(s.log) : s.log[i].term = MaxTerm
          => i <= Len(log) /\ log[i].term = MaxTerm
    BY DEF PeerFits
  <2>2. \A i \in 1 .. Len(s.log) : i <= Len(log) /\ s.log[i].term = log[i].term
          => \A j \in 1 .. i : s.log[j] = log[j]
    BY <1>1 DEF Matches
  <2>. QED
    BY <2>1, <2>2
<1>10. Matches(s.log, a)
  <2>1. \A i \in 1 .. Len(s.log) : i <= Len(log) /\ s.log[i].term = log[i].term
          => \A j \in 1 .. i : s.log[j] = log[j]
    BY <1>1 DEF Matches
  <2>2. SUFFICES ASSUME NEW i \in 1 .. Len(s.log), i <= Len(a), s.log[i].term = a[i].term,
                        NEW j \in 1 .. i
                 PROVE  s.log[j] = a[j]
    BY DEF Matches
  <2>3. i \in 1 .. Len(a) /\ j \in 1 .. Len(a) /\ i <= Len(log)
    BY <1>1, <1>3, <2>2
  <2>4. s.log[j] = log[j]
    BY <1>3, <2>1, <2>2, <2>3
  <2>. QED
    BY <1>3, <2>3, <2>4
<1>11. ASSUME PrevFound(s.log, req)
       PROVE  /\ new = s.log \/ new = a
              /\ Agrees(a, new, Matched(req))
              /\ \A i \in 1 .. Len(s.log) : (\A j \in 1 .. Len(a) : j <= i => s.log[j] = a[j])
                   => i <= Len(new) /\ new[i] = s.log[i]
  <2>1. PICK q : q = req
    OBVIOUS
  <2>2. PICK old : old = s.log
    OBVIOUS
  <2>3. PICK u : u = Merged(old, q.entries)
    OBVIOUS
  <2>4. /\ old \in Seq(LogEntry) /\ Positioned(old) /\ ProperRequest(q) /\ Carries(q, a)
        /\ PrevFound(old, q) /\ Matches(old, a)
    BY <1>1, <1>2, <1>10, <1>11, <2>1, <2>2
  <2>5. /\ u = old \/ u = a
        /\ Matched(q) <= Len(a) /\ Agrees(a, u, Matched(q))
        /\ \A b \in Seq(LogEntry) : \A k \in Nat :
             Agrees(b, old, k) /\ Agrees(b, a, Len(a)) => Agrees(b, u, k)
        /\ \A i \in 1 .. Len(old) :
             (\A j \in 1 .. Len(a) : j <= i => old[j] = a[j]) => i <= Len(u) /\ u[i] = old[i]
    BY <2>3, <2>4, MergeAgrees
  <2>6. u = new
    BY <2>1, <2>2, <2>3 DEF new
  <2>. QED
    BY <2>1, <2>2, <2>5, <2>6
<1>12. t.log = s.log \/ t.log = a
  BY <1>7, <1>11
<1>13. PeerFits(t, log)
  <2>1. Matches(a, log)
    BY <1>2, AgreesMatches
  <2>2. \A i \in 1 .. Len(a) : a[i].term = MaxTerm => i <= Len(log) /\ log[i].term = MaxTerm
    BY <1>1, <1>3
  <2>3. Matches(t.log, log)
    BY <1>1, <1>12, <2>1
  <2>4. \A i \in 1 .. Len(t.log) : t.log[i].term = MaxTerm
          => i <= Len(log) /\ log[i].term = MaxTerm
    BY <1>9, <1>12, <2>2
  <2>. QED
    BY <1>1, <1>5, <1>6, <1>7, <2>3, <2>4 DEF PeerFits, t
<1>14. ASSUME NEW i \in 1 .. Len(s.log), s.log[i].term = MaxTerm
       PROVE  i <= Len(t.log) /\ t.log[i] = s.log[i]
  <2>1. \A j \in 1 .. Len(a) : j <= i => s.log[j] = a[j]
    BY <1>1, <1>3, <1>9, <1>14
  <2>2. CASE t.log = s.log
    BY <1>1, <2>2
  <2>3. CASE PrevFound(s.log, req) /\ t.log = new
    BY <1>11, <2>1, <2>3
  <2>. QED
    BY <1>7, <2>2, <2>3
<1>15. ASSUME AddPeers, t.commit_index > s.commit_index
       PROVE  Agrees(t.log, log, t.commit_index)
  <2>. DEFINE c == t.commit_index
              k == Matched(req)
  <2>1. PrevFound(s.log, req) /\ t.log = new /\ c <= req.leader_commit
    BY <1>c, <1>15
  <2>2. /\ c \in Nat /\ req.leader_commit \in Nat /\ k \in Nat
        /\ t.log \in Seq(LogEntry)
    BY <1>1, <1>4, <1>5, ProperShape DEF ProperRequest, AppendEntriesRequest, t
  <2>3. req.leader_commit <= k
    BY <1>15 DEF Asks
  <2>4. Agrees(a, t.log, k) /\ Len(t.log) \in Nat
    BY <1>11, <2>1, <2>2, LenProperties
  <2>. HIDE DEF c, k
  <2>5. c <= k
    BY <2>1, <2>2, <2>3
  <2>6. /\ c <= Len(a) /\ c <= Len(t.log) /\ c <= Len(log)
        /\ \A j \in 1 .. c : j \in 1 .. Len(a) /\ a[j] = t.log[j]
    BY <1>1, <1>3, <2>2, <2>4, <2>5 DEF Agrees
  <2>7. \A j \in 1 .. c : t.log[j] = log[j]
    BY <1>3, <2>6
  <2>. QED
    BY <2>6, <2>7 DEF Agrees, c
<1>. QED
  BY <1>7, <1>8, <1>13, <1>14, <1>15 DEF t, r, reply

-----------------------------------------------------------------------------
(* Steps *)

\* What a step does besides keeping the invariant: only the two nodes change, the
\* leader's log only grows, the peer keeps its entries of the term it is in, and
\* commits what the leader has.
PairStep ==
  /\ \A n \in Nodes : n # Leader /\ n # Peer => node'[n] = node[n]
  /\ \A i \in 1 .. Len(node[Leader].log) :
       i <= Len(node'[Leader].log) /\ node'[Leader].log[i] = node[Leader].log[i]
  /\ \A i \in 1 .. Len(node[Peer].log) :
       node[Peer].log[i].term = node'[Peer].current_term
       => i <= Len(node'[Peer].log) /\ node'[Peer].log[i] = node[Peer].log[i]
  /\ AddPeers /\ node'[Peer].commit_index > node[Peer].commit_index
       => Agrees(node'[Peer].log, node'[Leader].log, node'[Peer].commit_index)

\* A leader's log that grows by entries of its term suits the peer and the
\* messages as it did before.
LEMMA GrownFits ==
  ASSUME NEW old \in Seq(LogEntry), NEW new \in Seq(LogEntry),
         Agrees(new, old, Len(old)),
         \A i \in 1 .. Len(new) : i > Len(old) => new[i].term = MaxTerm
  PROVE  /\ \A s : PeerFits(s, old) => PeerFits(s, new)
         /\ \A m : Asks(m, old) => Asks(m, new)
         /\ \A m : Replies(m, old) => Replies(m, new)
<1>1. /\ Len(old) \in Nat /\ Len(new) \in Nat /\ Len(old) <= Len(new)
      /\ \A i \in 1 .. Len(old) : new[i] = old[i]
  BY LenProperties DEF Agrees
<1>2. ASSUME NEW s, PeerFits(s, old)
      PROVE  PeerFits(s, new)
  <2>1. /\ Proper(s) /\ s.node_id = Peer /\ s.state # "leader" /\ s.current_term <= MaxTerm
        /\ Matches(s.log, old)
        /\ \A i \in 1 .. Len(s.log) : s.log[i].term = MaxTerm
             => i <= Len(old) /\ old[i].term = MaxTerm
    BY <1>2 DEF PeerFits
  <2>2. Len(s.log) \in Nat
    BY <2>1, ProperShape, LenProperties
  <2>3. \A i \in 1 .. Len(s.log) : s.log[i].term = MaxTerm
          => i <= Len(new) /\ new[i].term = MaxTerm
    BY <1>1, <2>1, <2>2
  <2>4. ASSUME NEW i \in 1 .. Len(s.log), i <= Len(new), s.log[i].term = new[i].term,
               NEW j \in 1 .. i
        PROVE  s.log[j] = new[j]
    <3>1. i <= Len(old)
      <4>. SUFFICES ASSUME ~(i <= Len(old))
                    PROVE  FALSE
        OBVIOUS
      <4>1. i \in 1 .. Len(new) /\ i > Len(old)
        BY <1>1, <2>2, <2>4
      <4>2. new[i].term = MaxTerm
        BY <4>1
      <4>. QED
        BY <2>1, <2>4, <4>2
    <3>2. i \in 1 .. Len(old) /\ j \in 1 .. Len(old)
      BY <1>1, <2>2, <3>1
    <3>3. s.log[i].term = old[i].term
      BY <1>1, <2>4, <3>2
    <3>4. s.log[j] = old[j]
      BY <2>1, <2>4, <3>1, <3>3 DEF Matches
    <3>. QED
      BY <1>1, <3>2, <3>4
  <2>5. Matches(s.log, new)
    BY <2>4 DEF Matches
  <2>. QED
    BY <2>1, <2>3, <2>5 DEF PeerFits
<1>3. ASSUME NEW m, Asks(m, old)
      PROVE  Asks(m, new)
  <2>1. PICK a \in Seq(LogEntry) : Carries(m.req, a) /\ Agrees(old, a, Len(a))
    BY <1>3 DEF Asks
  <2>2. Len(a) \in Nat
    BY LenProperties
  <2>3. Agrees(new, a, Len(a))
    BY <1>1, <2>1, <2>2 DEF Agrees
  <2>. QED
    BY <1>3, <2>1, <2>3 DEF Asks
<1>4. ASSUME NEW m, Replies(m, old)
      PROVE  Replies(m, new)
  <2>1. /\ ProperRequest(m.req)
        /\ m.req.prev_log_index <= Len(old) /\ Matched(m.req) <= Len(old)
    BY <1>4 DEF Replies
  <2>. DEFINE k == m.req.prev_log_index
              l == Matched(m.req)
  <2>2. k \in Nat /\ l \in Nat
    BY <2>1, MatchedNat DEF ProperRequest, AppendEntriesRequest
  <2>3. k <= Len(old) /\ l <= Len(old)
    BY <2>1
  <2>. HIDE DEF k, l
  <2>4. k <= Len(new) /\ l <= Len(new)
    BY <1>1, <2>2, <2>3
  <2>. QED
    BY <1>4, <2>4 DEF Replies, k, l
<1>. QED
  BY <1>2, <1>3, <1>4

\* A step of the leader
LEMMA LeaderStep ==
  ASSUME CatchUpInv, NEW t, LeaderFits(t), DOMAIN node' = Nodes,
         \A n \in Nodes : node'[n] = IF n = Leader THEN t ELSE node[n],
         Agrees(t.log, node[Leader].log, Len(node[Leader].log)),
         \A i \in 1 .. Len(t.log) : i > Len(node[Leader].log) => t.log[i].term = MaxTerm,
         \A m \in net' : m \in net \/ Asks(m, t.log) \/ Replies(m, t.log)
  PROVE  CatchUpInv' /\ PairStep
<1>. DEFINE old == node[Leader].log
<1>1. /\ Leader \in Nodes /\ Peer \in Nodes /\ Leader # Peer
      /\ DOMAIN node = Nodes /\ \A n \in Nodes : Proper(node[n]) /\ node[n].node_id = n
      /\ PeerFits(node[Peer], old)
      /\ \A m \in net : Asks(m, old) \/ Replies(m, old)
      /\ \A n \in Nodes : n # Leader => node[n].state # "leader"
  BY PairAssumption DEF CatchUpInv
<1>2. /\ DOMAIN node' = Nodes /\ node'[Leader] = t
      /\ \A n \in Nodes : n # Leader => node'[n] = node[n]
  BY <1>1
<1>3. /\ old \in Seq(LogEntry) /\ t.log \in Seq(LogEntry) /\ Proper(t) /\ t.node_id = Leader
      /\ Len(old) \in Nat
      /\ \A n \in Nodes : node[n].commit_index \in Nat
  BY <1>1, ProperShape, LenProperties DEF LeaderFits
<1>. HIDE DEF old
<1>4. PeerFits(node[Peer], t.log)
  BY <1>1, <1>3, GrownFits DEF old
<1>5. \A m \in net' : Asks(m, t.log) \/ Replies(m, t.log)
  <2>1. /\ \A m : Asks(m, old) => Asks(m, t.log)
        /\ \A m : Replies(m, old) => Replies(m, t.log)
    BY <1>3, GrownFits DEF old
  <2>. QED
    BY <1>1, <2>1
<1>6. CatchUpInv'
  <2>1. \A n \in Nodes : Proper(node'[n]) /\ node'[n].node_id = n
    BY <1>1, <1>2, <1>3
  <2>2. \A n \in Nodes : n # Leader => node'[n].state # "leader"
    BY <1>1, <1>2
  <2>3. LeaderFits(node'[Leader]) /\ PeerFits(node'[Peer], node'[Leader].log)
    BY <1>1, <1>2, <1>4
  <2>4. \A m \in net' : Asks(m, node'[Leader].log) \/ Replies(m, node'[Leader].log)
    BY <1>2, <1>5
  <2>. QED
    BY <1>2, <2>1, <2>2, <2>3, <2>4 DEF CatchUpInv
<1>7. PairStep
  <2>1. \A i \in 1 .. Len(old) : i <= Len(t.log) /\ t.log[i] = old[i]
    <3>1. Len(t.log) \in Nat
      BY <1>3, LenProperties
    <3>. QED
      BY <1>3, <3>1 DEF old, Agrees
  <2>2. node'[Peer] = node[Peer] /\ Len(node[Peer].log) \in Nat
    BY <1>1, <1>2, ProperShape, LenProperties
  <2>3. ~(node'[Peer].commit_index > node[Peer].commit_index)
    BY <1>1, <1>3, <2>2
  <2>. QED
    BY <1>2, <2>1, <2>2, <2>3 DEF PairStep, old
<1>. QED
  BY <1>6, <1>7

\* A step of the peer, which has handled a request
LEMMA PeerStep ==
  ASSUME CatchUpInv, NEW m \in net, HandleAppend(m)
  PROVE  CatchUpInv' /\ PairStep
<1>1. /\ Leader \in Nodes /\ Peer \in Nodes /\ Leader # Peer
      /\ DOMAIN node = Nodes /\ \A n \in Nodes : Proper(node[n]) /\ node[n].node_id = n
      /\ LeaderFits(node[Leader]) /\ PeerFits(node[Peer], node[Leader].log)
      /\ \A x \in net : Asks(x, node[Leader].log) \/ Replies(x, node[Leader].log)
      /\ \A n \in Nodes : n # Leader => node[n].state # "leader"
  BY PairAssumption DEF CatchUpInv
<1>2. Asks(m, node[Leader].log) /\ m.to = Peer
  BY <1>1 DEF HandleAppend, Asks, Replies
<1>3. PICK log : log = node[Leader].log
  OBVIOUS
<1>4. PICK r : r = handle_append_entries(node[Peer], m.req)
  OBVIOUS
<1>5. PICK s : s = node[Peer]
  OBVIOUS
<1>6. /\ node' = [node EXCEPT ![Peer] = r.node]
      /\ net' = (net \ {m}) \cup {AppendReply(m, r.resp)}
  BY <1>2, <1>4 DEF HandleAppend, Reply
<1>7. log \in Seq(LogEntry) /\ Proper(s) /\ Len(log) \in Nat
  BY <1>1, <1>3, <1>5, ProperShape, LenProperties
<1>8. /\ PeerFits(r.node, log) /\ r.node.current_term = MaxTerm
      /\ Replies(AppendReply(m, r.resp), log)
      /\ \A i \in 1 .. Len(s.log) : s.log[i].term = MaxTerm
           => i <= Len(r.node.log) /\ r.node.log[i] = s.log[i]
      /\ AddPeers /\ r.node.commit_index > s.commit_index
           => Agrees(r.node.log, log, r.node.commit_index)
  BY <1>1, <1>2, <1>3, <1>4, <1>5, <1>7, PeerAppends
<1>9. /\ DOMAIN node' = Nodes /\ node'[Peer] = r.node /\ node'[Leader] = node[Leader]
      /\ \A n \in Nodes : n # Peer => node'[n] = node[n]
  BY <1>1, <1>6
<1>10. CatchUpInv'
  <2>1. Proper(r.node) /\ r.node.node_id = Peer /\ r.node.state # "leader"
    BY <1>8 DEF PeerFits
  <2>2. /\ \A n \in Nodes : Proper(node'[n]) /\ node'[n].node_id = n
        /\ \A n \in Nodes : n # Leader => node'[n].state # "leader"
    BY <1>1, <1>9, <2>1
  <2>3. \A x \in net' : Asks(x, log) \/ Replies(x, log)
    BY <1>1, <1>3, <1>6, <1>8
  <2>. QED
    BY <1>1, <1>3, <1>8, <1>9, <2>2, <2>3 DEF CatchUpInv
<1>11. \A i \in 1 .. Len(node[Leader].log) :
         i <= Len(node'[Leader].log) /\ node'[Leader].log[i] = node[Leader].log[i]
  BY <1>3, <1>7, <1>9
<1>. QED
  BY <1>3, <1>5, <1>8, <1>9, <1>10, <1>11 DEF PairStep

\* Every step
LEMMA CatchUpStep ==
  ASSUME CatchUpInv, [CatchUpNext]_vars
  PROVE  CatchUpInv' /\ PairStep
<1>1. PICK s : s = node[Leader]
  OBVIOUS
<1>2. /\ Leader \in Nodes /\ Peer \in Nodes /\ LeaderFits(s) /\ DOMAIN node = Nodes
      /\ s.log \in Seq(LogEntry) /\ Len(s.log) \in Nat
      /\ \A x \in net : Asks(x, s.log) \/ Replies(x, s.log)
  BY <1>1, PairAssumption, ProperShape, LenProperties DEF CatchUpInv, LeaderFits
<1>3. Agrees(s.log, s.log, Len(s.log)) /\ \A i \in 1 .. Len(s.log) : ~(i > Len(s.log))
  BY <1>2 DEF Agrees
<1>4. ASSUME UNCHANGED node, \A m \in net' : m \in net
      PROVE  CatchUpInv' /\ PairStep
  <2>1. DOMAIN node' = Nodes /\ \A n \in Nodes : node'[n] = IF n = Leader THEN s ELSE node[n]
    BY <1>1, <1>2, <1>4
  <2>. QED
    BY <1>1, <1>2, <1>3, <1>4, <2>1, LeaderStep
<1>5. CASE UNCHANGED vars
  BY <1>4, <1>5 DEF vars
<1>6. CASE Propose(Leader)
  <2>1. PICK t : t = propose(s)
    OBVIOUS
  <2>2. /\ LeaderFits(t) /\ Len(t.log) = Len(s.log) + 1 /\ Agrees(t.log, s.log, Len(s.log))
        /\ t.log[Len(t.log)].term = MaxTerm
    BY <1>2, <2>1, LeaderProposes
  <2>3. \A i \in 1 .. Len(t.log) : i > Len(s.log) => t.log[i].term = MaxTerm
    <3>1. \A i \in 1 .. Len(t.log) : i > Len(s.log) => i = Len(t.log)
      BY <1>2, <2>2
    <3>. QED
      BY <2>2, <3>1
  <2>4. /\ DOMAIN node' = Nodes /\ net' = net
        /\ \A n \in Nodes : node'[n] = IF n = Leader THEN t ELSE node[n]
    BY <1>1, <1>2, <1>6, <2>1 DEF Propose
  <2>. QED
    BY <1>1, <2>2, <2>3, <2>4, LeaderStep
<1>7. CASE Replicate
  <2>1. PICK t : t = IF AddPeers THEN add_peer(s, Peer) ELSE s
    OBVIOUS
  <2>2. /\ LeaderFits(t) /\ t.log = s.log /\ Asks(AppendRequest(t, Peer), t.log)
    BY <1>2, <2>1, LeaderAsks
  <2>3. /\ DOMAIN node' = Nodes /\ net' = net \cup {AppendRequest(t, Peer)}
        /\ \A n \in Nodes : node'[n] = IF n = Leader THEN t ELSE node[n]
    BY <1>1, <1>2, <1>7, <2>1 DEF Replicate, SendAppend, Send
  <2>. QED
    BY <1>1, <1>3, <2>2, <2>3, LeaderStep
<1>8. CASE Deliver
  BY <1>8, PeerStep DEF Deliver
<1>9. ASSUME NEW m \in net, HandleAppendReply(m)
      PROVE  CatchUpInv' /\ PairStep
  <2>1. Replies(m, s.log) /\ m.to = Leader
    BY <1>2, <1>9 DEF HandleAppendReply, Asks, Replies
  <2>2. PICK t : t = handle_append_entries_response(s, m.from, m.req, m.resp)
    OBVIOUS
  <2>3. LeaderFits(t) /\ t.log = s.log
    BY <1>2, <2>1, <2>2, LeaderHears
  <2>4. /\ DOMAIN node' = Nodes /\ net' = net \ {m}
        /\ \A n \in Nodes : node'[n] = IF n = Leader THEN t ELSE node[n]
    BY <1>1, <1>2, <1>9, <2>1, <2>2 DEF HandleAppendReply
  <2>. QED
    BY <1>1, <1>3, <2>3, <2>4, LeaderStep
<1>10. CASE \E m \in net : Lose(m)
  BY <1>4, <1>10 DEF Lose
<1>. QED
  BY <1>5, <1>6, <1>7, <1>8, <1>9, <1>10 DEF CatchUpNext, Answer

-----------------------------------------------------------------------------
(* The first states *)

\* The logs that earlier terms may have left are proper and of those terms.
LEMMA LogsFacts ==
  ASSUME NEW log \in Logs
  PROVE  /\ log \in Seq(LogEntry) /\ Positioned(log)
         /\ \A i \in DOMAIN log : log[i].term < MaxTerm
         /\ last_log_term(log) \in Nat /\ last_log_term(log) <= MaxTerm
<1>0. PICK k \in 0 .. MaxLog : \E t \in [1 .. k -> 1 .. MaxTerm - 1] :
        log = [i \in DOMAIN t |-> [term |-> t[i], index |-> i]]
  BY DEF Logs
<1>1. PICK t \in [1 .. k -> 1 .. MaxTerm - 1] :
        log = [i \in DOMAIN t |-> [term |-> t[i], index |-> i]]
  BY <1>0
<1>2. k \in Nat /\ MaxTerm \in Nat /\ DOMAIN t = 1 .. k /\ \A i \in 1 .. k : t[i] \in 1 .. MaxTerm - 1
  BY <1>1, BoundAssumption
<1>3. DOMAIN log = 1 .. k /\ \A i \in 1 .. k : log[i] = [term |-> t[i], index |-> i]
  BY <1>1, <1>2
<1>4. \A i \in 1 .. k : [term |-> t[i], index |-> i] \in LogEntry /\ t[i] < MaxTerm
  BY <1>2 DEF LogEntry
<1>5. log \in [1 .. k -> LogEntry]
  BY <1>1, <1>2, <1>4
<1>6. log \in Seq(LogEntry) /\ Len(log) = k
  BY <1>2, <1>5, SeqDef, LenProperties
<1>7. Positioned(log) /\ \A i \in DOMAIN log : log[i].term < MaxTerm
  BY <1>3, <1>4 DEF Positioned
<1>8. last_log_term(log) \in Nat
  BY <1>6, <1>7, LastIndex
<1>9. last_log_term(log) <= MaxTerm
  <2>1. CASE log = <<>>
    BY <1>2, <2>1 DEF last_log_term
  <2>2. CASE log # <<>>
    <3>1. Len(log) \in DOMAIN log
      BY <1>2, <1>3, <1>6, <2>2, EmptySeq, SeqEqual
    <3>2. last_log_term(log) = log[Len(log)].term
      BY <2>2 DEF last_log_term
    <3>. QED
      BY <1>2, <1>7, <1>8, <3>1, <3>2
  <2>. QED
    BY <2>1, <2>2
<1>. QED
  BY <1>6, <1>7, <1>8, <1>9

\* A node as the earlier terms have left it: new, but for its term and log.
Left(n, t, log) == [New(n) EXCEPT !.current_term = t, !.log = log]

\* Such a node is proper.
LEMMA LeftProper ==
  ASSUME NEW n \in Nodes, NEW t \in Nat, NEW log \in Seq(LogEntry), Positioned(log)
  PROVE  /\ Proper(Left(n, t, log)) /\ Left(n, t, log).node_id = n
         /\ Left(n, t, log).log = log /\ Left(n, t, log).current_term = t
         /\ Left(n, t, log).state = "follower" /\ Left(n, t, log).commit_index = 0
<1>1. PICK x : x = New(n)
  OBVIOUS
<1>2. /\ x.node_id = n /\ x.state = "follower" /\ x.commit_index = 0
      /\ x.next_index = NoIndexes /\ x.match_index = NoIndexes
  BY <1>1 DEF New
<1>3. Shape(x) /\ IndexMap(NoIndexes) /\ NextMap(NoIndexes)
  BY <1>1, NewProper, ProperShape
<1>. DEFINE u == [x EXCEPT !.current_term = t, !.log = log]
<1>4. /\ Shape(u) /\ u.node_id = x.node_id /\ u.log = log /\ u.current_term = t
      /\ u.state = x.state /\ u.commit_index = x.commit_index
      /\ u.next_index = x.next_index /\ u.match_index = x.match_index
  BY <1>3 DEF Shape
<1>. HIDE DEF u
<1>5. Proper(u)
  BY <1>2, <1>3, <1>4, ShapeProper
<1>6. u = Left(n, t, log)
  BY <1>1 DEF u, Left
<1>. QED
  BY <1>2, <1>4, <1>5, <1>6

\* The leader as it was elected
LEMMA ElectedFits ==
  ASSUME NEW log \in Logs
  PROVE  LeaderFits(Elected(log)) /\ Elected(log).log = log
<1>1. /\ log \in Seq(LogEntry) /\ Positioned(log) /\ Len(log) \in Nat
  BY LogsFacts, LenProperties
<1>2. MaxTerm - 1 \in Nat /\ MaxTerm - 1 + 1 = MaxTerm /\ Leader \in Nodes /\ MaxTerm \in Nat
  BY BoundAssumption, TermAssumption, PairAssumption
<1>3. DOMAIN NoIndexes = {}
  BY DEF NoIndexes
<1>d. PICK d \in Nat : d = MaxTerm - 1
  BY <1>2
<1>4. PICK u : u = Left(Leader, d, log)
  OBVIOUS
<1>5. /\ Proper(u) /\ u.node_id = Leader /\ u.log = log /\ u.current_term = d
      /\ u.commit_index = 0 /\ Shape(u)
  <2>1. /\ Proper(u) /\ u.node_id = Leader /\ u.log = log /\ u.current_term = d
        /\ u.commit_index = 0
    BY <1>1, <1>2, <1>4, LeftProper
  <2>. QED
    BY <2>1, ProperShape
<1>6. PICK c : c = become_candidate(u)
  OBVIOUS
<1>7. /\ Proper(c) /\ c.log = log /\ c.next_index = NoIndexes /\ c.match_index = NoIndexes
      /\ c.node_id = Leader /\ c.current_term = MaxTerm
  <2>1. /\ Proper(c) /\ c.log = log /\ c.next_index = NoIndexes /\ c.match_index = NoIndexes
    BY <1>2, <1>5, <1>6, TermCallsProper
  <2>2. c.node_id = Leader /\ c.current_term = d + 1
    BY <1>5, <1>6, BecomeCandidateFacts
  <2>. QED
    BY <1>2, <1>d, <2>1, <2>2
<1>8. c.commit_index = 0 /\ Shape(c)
  <2>1. c.commit_index = u.commit_index
    BY <1>5, <1>6 DEF become_candidate, Shape
  <2>. QED
    BY <1>5, <1>7, <2>1, ProperShape
<1>9. PICK t : t = become_leader(c)
  OBVIOUS
<1>10. /\ t.node_id = c.node_id /\ t.current_term = c.current_term /\ t.state = "leader"
       /\ t.log = c.log /\ t.commit_index = c.commit_index /\ Shape(t)
  BY <1>8, <1>9 DEF become_leader, Shape, State
<1>11. /\ t.next_index = [p \in DOMAIN c.next_index |-> last_log_index(c.log) + 1]
       /\ t.match_index = [p \in DOMAIN c.match_index |-> 0]
  BY <1>8, <1>9 DEF become_leader, Shape
<1>12. DOMAIN t.next_index = {} /\ NextMap(t.next_index) /\ IndexMap(t.match_index)
  <2>1. NextMap([p \in {} |-> last_log_index(c.log) + 1]) /\ IndexMap([p \in {} |-> 0])
    BY DEF IndexMap, NextMap
  <2>. QED
    BY <1>3, <1>7, <1>11, <2>1
<1>13. Proper(t)
  BY <1>1, <1>7, <1>8, <1>10, <1>12, ShapeProper
<1>14. LeaderFits(t)
  BY <1>1, <1>7, <1>8, <1>10, <1>12, <1>13 DEF LeaderFits
<1>. QED
  BY <1>d, <1>4, <1>6, <1>7, <1>9, <1>10, <1>14 DEF Elected, Left

\* The peer as it is then
LEMMA PeersFit ==
  ASSUME NEW a \in Logs, NEW log \in Logs, FromSameLeaders(a, log), NEW s \in Peers(log)
  PROVE  PeerFits(s, a)
<1>. DEFINE Follower(t) == [New(Peer) EXCEPT !.current_term = t, !.log = log]
<1>1. /\ log \in Seq(LogEntry) /\ Positioned(log) /\ DOMAIN log = 1 .. Len(log)
      /\ \A i \in DOMAIN log : log[i].term < MaxTerm
      /\ last_log_term(log) \in Nat /\ last_log_term(log) <= MaxTerm
      /\ a \in Seq(LogEntry) /\ DOMAIN a = 1 .. Len(a)
      /\ Len(a) \in Nat /\ Len(log) \in Nat
  BY LogsFacts, LenProperties
<1>2. MaxTerm - 1 \in Nat /\ MaxTerm - 1 + 1 = MaxTerm /\ Peer \in Nodes /\ MaxTerm \in Nat
  BY BoundAssumption, TermAssumption, PairAssumption
<1>3. ASSUME NEW t \in Nat
      PROVE  /\ Proper(Follower(t)) /\ Follower(t).node_id = Peer /\ Follower(t).log = log
             /\ Follower(t).state = "follower" /\ Follower(t).current_term = t
  <2>1. PICK u : u = Left(Peer, t, log)
    OBVIOUS
  <2>2. /\ Proper(u) /\ u.node_id = Peer /\ u.log = log /\ u.current_term = t
        /\ u.state = "follower"
    BY <1>1, <1>2, <2>1, LeftProper
  <2>. QED
    BY <2>1, <2>2 DEF Left
<1>. HIDE DEF Follower
<1>4. s \in {Follower(last_log_term(log)), Follower(MaxTerm), become_candidate(Follower(MaxTerm - 1))}
  BY DEF Peers, Follower
<1>5. /\ Proper(s) /\ s.node_id = Peer /\ s.log = log
      /\ s.state # "leader" /\ s.current_term <= MaxTerm
  <2>1. ASSUME NEW t \in Nat, t <= MaxTerm, s = Follower(t)
        PROVE  /\ Proper(s) /\ s.node_id = Peer /\ s.log = log
               /\ s.state # "leader" /\ s.current_term <= MaxTerm
    BY <1>3, <2>1
  <2>2. CASE s = become_candidate(Follower(MaxTerm - 1))
    <3>. DEFINE u == Follower(MaxTerm - 1)
    <3>1. Proper(u) /\ u.node_id = Peer /\ u.log = log /\ u.current_term = MaxTerm - 1
      BY <1>2, <1>3
    <3>. HIDE DEF u
    <3>2. Shape(u)
      BY <3>1, ProperShape
    <3>3. /\ s.node_id = u.node_id /\ s.state = "candidate"
          /\ s.current_term = u.current_term + 1
      BY <2>2, <3>2, BecomeCandidateFacts DEF u
    <3>4. Proper(s) /\ s.log = u.log
      BY <1>2, <2>2, <3>1, TermCallsProper DEF u
    <3>. QED
      BY <1>2, <3>1, <3>3, <3>4
  <2>. QED
    BY <1>1, <1>2, <1>4, <2>1, <2>2
<1>6. Matches(log, a)
  <2>. SUFFICES ASSUME NEW i \in 1 .. Len(log), i <= Len(a), log[i].term = a[i].term,
                       NEW j \in 1 .. i
                PROVE  log[j] = a[j]
    BY DEF Matches
  <2>1. i \in DOMAIN a /\ i \in DOMAIN log /\ AtMost(i, i) = i /\ i \in Nat
    BY <1>1 DEF AtMost
  <2>2. SameUpTo(a, log, i)
    BY <2>1 DEF FromSameLeaders
  <2>3. Agrees(a, log, i)
    BY <1>1, <2>1, <2>2, AgreesIsSame
  <2>. QED
    BY <2>3 DEF Agrees
<1>7. \A i \in 1 .. Len(log) : log[i].term # MaxTerm
  BY <1>1, <1>2
<1>. QED
  BY <1>5, <1>6, <1>7 DEF PeerFits

\* The invariant holds in the beginning.
LEMMA CatchUpFirst ==
  ASSUME CatchUpInit
  PROVE  CatchUpInv
<1>1. PICK a \in Logs : \E b \in Logs :
        /\ FromSameLeaders(a, b)
        /\ \E s \in Peers(b) :
             node = [n \in Nodes |-> IF n = Leader THEN Elected(a) ELSE IF n = Peer THEN s ELSE New(n)]
  BY DEF CatchUpInit
<1>2. PICK b \in Logs :
        /\ FromSameLeaders(a, b)
        /\ \E s \in Peers(b) :
             node = [n \in Nodes |-> IF n = Leader THEN Elected(a) ELSE IF n = Peer THEN s ELSE New(n)]
  BY <1>1
<1>3. PICK s \in Peers(b) :
        node = [n \in Nodes |-> IF n = Leader THEN Elected(a) ELSE IF n = Peer THEN s ELSE New(n)]
  BY <1>2
<1>4. LeaderFits(Elected(a)) /\ Elected(a).log = a /\ PeerFits(s, a)
  BY <1>2, ElectedFits, PeersFit
<1>5. /\ DOMAIN node = Nodes /\ node[Leader] = Elected(a) /\ node[Peer] = s
      /\ \A n \in Nodes : n # Leader /\ n # Peer => node[n] = New(n)
  BY <1>3, PairAssumption
<1>6. \A n \in Nodes : Proper(New(n)) /\ New(n).node_id = n /\ New(n).state # "leader"
  BY NewProper DEF New
<1>7. /\ \A n \in Nodes : Proper(node[n]) /\ node[n].node_id = n
      /\ \A n \in Nodes : n # Leader => node[n].state # "leader"
  BY <1>4, <1>5, <1>6 DEF LeaderFits, PeerFits
<1>8. net = {}
  BY DEF CatchUpInit
<1>. QED
  BY <1>4, <1>5, <1>7, <1>8 DEF CatchUpInv

-----------------------------------------------------------------------------
(* Theorems *)

\* The invariant of the catching up (RaftNode::handle_append_entries,
\* handle_append_entries_response, build_append_entries_request): the leader
\* stays leader, its indexes stay within its log, and the peer's log matches it.
THEOREM CatchUpInvariant == CatchUpSpec => []CatchUpInv
<1>1. CatchUpInit => CatchUpInv
  BY CatchUpFirst
<1>2. CatchUpInv /\ [CatchUpNext]_vars => CatchUpInv'
  BY CatchUpStep
<1>. QED
  BY <1>1, <1>2, PTL DEF CatchUpSpec

\* EntriesOfTermKept of RaftCluster, from the states in which this model begins:
\* a late request cuts no entry of the peer's term off (handle_append_entries).
THEOREM CatchUpKeepsEntries == CatchUpSpec => EntriesOfTermKept
<1>1. ASSUME CatchUpInv, [CatchUpNext]_vars, NEW n \in Nodes, NEW i \in DOMAIN node[n].log,
             node[n].log[i].term = node'[n].current_term
      PROVE  i \in DOMAIN node'[n].log /\ node'[n].log[i] = node[n].log[i]
  <2>1. CatchUpInv' /\ PairStep
    BY <1>1, CatchUpStep
  <2>2. Proper(node[n]) /\ Proper(node'[n])
    BY <1>1, <2>1 DEF CatchUpInv
  <2>3. /\ DOMAIN node[n].log = 1 .. Len(node[n].log)
        /\ DOMAIN node'[n].log = 1 .. Len(node'[n].log) /\ Len(node'[n].log) \in Nat
    BY <2>2, ProperShape, LenProperties
  <2>4. CASE n # Leader /\ n # Peer
    BY <1>1, <2>1, <2>4 DEF PairStep
  <2>5. CASE n = Leader \/ n = Peer
    <3>1. i \in 1 .. Len(node[n].log) /\ i <= Len(node'[n].log) /\ node'[n].log[i] = node[n].log[i]
      BY <1>1, <2>1, <2>3, <2>5 DEF PairStep
    <3>. QED
      BY <2>3, <3>1
  <2>. QED
    BY <2>4, <2>5
<1>2. CatchUpInv /\ [CatchUpNext]_vars => [\A n \in Nodes : \A i \in DOMAIN node[n].log :
        node[n].log[i].term = node'[n].current_term
        => i \in DOMAIN node'[n].log /\ node'[n].log[i] = node[n].log[i]]_vars
  BY <1>1
<1>. QED
  BY <1>2, CatchUpInvariant, PTL DEF CatchUpSpec, EntriesOfTermKept

\* CommitsLeadersEntries of RaftCluster: if the driver calls add_peer before the
\* first request (as the class needs it to: a request to a peer that is not in
\* next_index_ names no previous entry), then what the peer commits is what the
\* leader has.
THEOREM CatchUpCommitsLeaders ==
  ASSUME AddPeers = TRUE
  PROVE  CatchUpSpec => CommitsLeadersEntries
<1>1. ASSUME CatchUpInv, [CatchUpNext]_vars, NEW n \in Nodes, NEW p \in Nodes,
             node'[n].commit_index > node[n].commit_index, node'[n].state # "leader",
             node'[p].state = "leader"
      PROVE  SameUpTo(node'[n].log, node'[p].log, node'[n].commit_index)
  <2>1. CatchUpInv' /\ PairStep
    BY <1>1, CatchUpStep
  <2>2. p = Leader /\ n # Leader
    BY <1>1, <2>1 DEF CatchUpInv, LeaderFits
  <2>3. /\ Proper(node[n]) /\ Proper(node'[n]) /\ Proper(node'[p])
        /\ node[n].commit_index \in Nat /\ node'[n].commit_index \in Nat
        /\ node'[n].log \in Seq(LogEntry) /\ node'[p].log \in Seq(LogEntry)
    BY <1>1, <2>1, ProperShape DEF CatchUpInv
  <2>4. n = Peer
    <3>1. n # Leader /\ n # Peer => node'[n] = node[n]
      BY <2>1 DEF PairStep
    <3>. QED
      BY <1>1, <2>2, <2>3, <3>1
  <2>5. Agrees(node'[n].log, node'[p].log, node'[n].commit_index)
    BY <1>1, <2>1, <2>2, <2>4 DEF PairStep
  <2>. QED
    BY <2>3, <2>5, AgreesIsSame
<1>2. CatchUpInv /\ [CatchUpNext]_vars => [\A n, p \in Nodes :
        /\ node'[n].commit_index > node[n].commit_index
        /\ node'[n].state # "leader"
        /\ node'[p].state = "leader"
        /\ node'[p].current_term = node'[n].current_term
        => SameUpTo(node'[n].log, node'[p].log, node'[n].commit_index)]_vars
  BY <1>1
<1>. QED
  BY <1>2, CatchUpInvariant, PTL DEF CatchUpSpec, CommitsLeadersEntries
=============================================================================
