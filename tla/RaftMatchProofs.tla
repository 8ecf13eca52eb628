---------------------------- MODULE RaftMatchProofs --------------------------
(***************************************************************************)
(* Theorems about the agreement of the logs of RaftCluster: log matching,  *)
(* what a leader knows of its peers, and what a request may not cut off.   *)
(*                                                                         *)
(* A request that is on its way carries the end of a log its leader once   *)
(* had, which no node may have any more.  The invariant therefore speaks   *)
(* of a set of logs, a history, that contains the nodes' logs and those    *)
(* from which the requests were built.                                     *)
(***************************************************************************)
EXTENDS RaftProofs

-----------------------------------------------------------------------------
(* Two logs *)

\* The entries up to k are the same.
Agrees(a, b, k) == k <= Len(a) /\ k <= Len(b) /\ \A j \in 1 .. k : a[j] = b[j]

\* An entry of the same index and term has the same entries in front of it.
Matches(a, b) ==
  \A i \in 1 .. Len(a) :
    i <= Len(b) /\ a[i].term = b[i].term => \A j \in 1 .. i : a[j] = b[j]

\* The request was built from this log.
Carries(req, a) ==
  /\ req.prev_log_index <= Len(a)
  /\ req.prev_log_index > 0 => req.prev_log_term = a[req.prev_log_index].term
  /\ req.entries # <<>> =>
       /\ req.prev_log_index < Len(a)
       /\ req.entries = SubSeq(a, req.prev_log_index + 1, Len(a))

\* Entry by entry is what SameUpTo of RaftCluster says of the prefixes.
LEMMA AgreesIsSame ==
  ASSUME NEW a \in Seq(LogEntry), NEW b \in Seq(LogEntry), NEW k \in Nat
  PROVE  Agrees(a, b, k) <=> SameUpTo(a, b, k)
<1>1. ASSUME k <= Len(a), k <= Len(b)
      PROVE  (\A j \in 1 .. k : a[j] = b[j]) <=> SubSeq(a, 1, k) = SubSeq(b, 1, k)
  <2>1. /\ Len(a) \in Nat /\ Len(b) \in Nat
        /\ \A j \in 1 .. k : a[j] \in LogEntry /\ b[j] \in LogEntry
    BY <1>1, LenProperties, ElementOfSeq
  <2>2. /\ SubSeq(a, 1, k) \in Seq(LogEntry)
        /\ Len(SubSeq(a, 1, k)) = IF 1 <= k THEN k - 1 + 1 ELSE 0
        /\ \A j \in 1 .. k - 1 + 1 : SubSeq(a, 1, k)[j] = a[1 + j - 1]
    BY <2>1, SubSeqProperties
  <2>3. /\ SubSeq(b, 1, k) \in Seq(LogEntry)
        /\ Len(SubSeq(b, 1, k)) = IF 1 <= k THEN k - 1 + 1 ELSE 0
        /\ \A j \in 1 .. k - 1 + 1 : SubSeq(b, 1, k)[j] = b[1 + j - 1]
    BY <2>1, SubSeqProperties
  <2>4. /\ Len(SubSeq(a, 1, k)) = k /\ Len(SubSeq(b, 1, k)) = k
        /\ \A j \in 1 .. k : SubSeq(a, 1, k)[j] = a[j] /\ SubSeq(b, 1, k)[j] = b[j]
    <3>1. \A j \in 1 .. k : j \in 1 .. k - 1 + 1 /\ 1 + j - 1 = j
      OBVIOUS
    <3>. QED
      BY <2>2, <2>3, <3>1
  <2>5. ASSUME \A j \in 1 .. k : a[j] = b[j]
        PROVE  SubSeq(a, 1, k) = SubSeq(b, 1, k)
    BY <2>2, <2>3, <2>4, <2>5, SeqEqual
  <2>. QED
    BY <2>4, <2>5
<1>. QED
  BY <1>1 DEF Agrees, SameUpTo

\* What merging a request makes of a log that matches the one it was built from:
\* the log stays or becomes that other one; it agrees with it as far as the
\* request goes, and what it had in common with another log that continues the
\* request's, or with the request's own, it keeps.
LEMMA MergeAgrees ==
  ASSUME NEW log \in Seq(LogEntry), Positioned(log), NEW a \in Seq(LogEntry),
         NEW req, ProperRequest(req), Carries(req, a), PrevFound(log, req),
         Matches(log, a)
  PROVE  LET new == Merged(log, req.entries)
         IN  /\ new = log \/ new = a
             /\ Matched(req) <= Len(a) /\ Agrees(a, new, Matched(req))
             /\ \A b \in Seq(LogEntry) : \A k \in Nat :
                  Agrees(b, log, k) /\ Agrees(b, a, Len(a)) => Agrees(b, new, k)
             /\ \A i \in 1 .. Len(log) :
                  (\A j \in 1 .. Len(a) : j <= i => log[j] = a[j])
                    => i <= Len(new) /\ new[i] = log[i]
<1>. DEFINE entries == req.entries
            prev == req.prev_log_index
            new == Merged(log, entries)
<1>1. entries \in Seq(LogEntry) /\ prev \in Nat /\ PositionedFrom(entries, prev)
  BY DEF ProperRequest, AppendEntriesRequest
<1>2. /\ Len(log) \in Nat /\ DOMAIN log = 1 .. Len(log) /\ Len(a) \in Nat
      /\ Len(entries) \in Nat /\ DOMAIN entries = 1 .. Len(entries)
  BY <1>1, LenProperties
<1>3. prev <= Len(log)
  BY <1>1, <1>2 DEF PrevFound
<1>4. Agrees(a, log, prev)
  <2>1. CASE prev = 0
    BY <1>2, <2>1 DEF Agrees
  <2>2. CASE prev # 0
    <3>1. prev \in 1 .. Len(log) /\ prev <= Len(a) /\ log[prev].term = a[prev].term
      BY <1>1, <1>2, <2>2 DEF PrevFound, Carries
    <3>. QED
      BY <1>1, <1>2, <3>1 DEF Matches, Agrees
  <2>. QED
    BY <2>1, <2>2
<1>5. ASSUME NEW i \in 1 .. Len(entries)
      PROVE  /\ prev + Len(entries) = Len(a)
             /\ entries[i] = a[prev + i]
  <2>1. entries # <<>>
    BY <1>2
  <2>2. prev < Len(a) /\ entries = SubSeq(a, prev + 1, Len(a))
    BY <2>1 DEF Carries
  <2>3. /\ prev + 1 \in Int /\ Len(a) \in Int
        /\ \A j \in prev + 1 .. Len(a) : a[j] \in LogEntry
    BY <1>1, <1>2, ElementOfSeq
  <2>. DEFINE e == SubSeq(a, prev + 1, Len(a))
  <2>4. /\ Len(e) = IF prev + 1 <= Len(a) THEN Len(a) - (prev + 1) + 1 ELSE 0
        /\ \A j \in 1 .. Len(a) - (prev + 1) + 1 : e[j] = a[prev + 1 + j - 1]
    BY <2>3, SubSeqProperties
  <2>. HIDE DEF e
  <2>5. Len(e) = Len(a) - prev
    BY SMTT(20), <1>1, <1>2, <2>2, <2>4
  <2>6. i \in 1 .. Len(a) - (prev + 1) + 1 /\ prev + 1 + i - 1 = prev + i
    BY <1>1, <1>2, <2>2, <2>5 DEF e
  <2>7. e[i] = a[prev + i]
    BY <2>4, <2>6
  <2>8. entries[i] = e[i] /\ Len(entries) = Len(e)
    BY <2>2 DEF e
  <2>. HIDE DEF entries
  <2>9. prev + Len(entries) = Len(a)
    BY <1>1, <1>2, <2>5, <2>8
  <2>. QED
    BY <2>7, <2>8, <2>9
<1>6. Matched(req) = prev + Len(entries) /\ Matched(req) <= Len(a)
  <2>1. CASE Len(entries) = 0
    BY <1>1, <1>2, <2>1 DEF Matched, Carries
  <2>2. CASE Len(entries) # 0
    <3>1. 1 \in 1 .. Len(entries)
      BY <1>2, <2>2
    <3>. QED
      BY <1>2, <1>5, <3>1 DEF Matched
  <2>. QED
    BY <2>1, <2>2
<1>7. ASSUME NEW i \in 1 .. Len(entries), prev + i <= Len(log), log[prev + i].term = entries[i].term
      PROVE  Agrees(a, log, prev + i)
  <2>1. prev + i \in 1 .. Len(log) /\ prev + i <= Len(a) /\ log[prev + i].term = a[prev + i].term
    BY SMTT(20), <1>1, <1>2, <1>5, <1>7
  <2>2. \A j \in 1 .. prev + i : log[j] = a[j]
    BY <2>1 DEF Matches
  <2>. QED
    BY <1>7, <2>1, <2>2 DEF Agrees
<1>8. CASE /\ new = log
           /\ \A i \in DOMAIN entries : prev + i <= Len(log) /\ log[prev + i].term = entries[i].term
  <2>1. Agrees(a, log, Matched(req))
    <3>1. CASE Len(entries) = 0
      BY <1>1, <1>4, <1>6, <3>1
    <3>2. CASE Len(entries) # 0
      <4>1. Len(entries) \in 1 .. Len(entries)
        BY <1>2, <3>2
      <4>. QED
        BY <1>2, <1>6, <1>7, <1>8, <4>1
    <3>. QED
      BY <3>1, <3>2
  <2>. HIDE DEF new
  <2>. QED
    BY <1>6, <1>8, <2>1 DEF new
<1>9. ASSUME NEW first \in DOMAIN entries,
             /\ \A i \in 1 .. first - 1 : /\ prev + i <= Len(log)
                                          /\ log[prev + i].term = entries[i].term
             /\ prev + first <= Len(log) => log[prev + first].term # entries[first].term
             /\ prev + first - 1 <= Len(log)
             /\ Len(new) = prev + Len(entries)
             /\ \A i \in 1 .. prev + first - 1 : new[i] = log[i]
             /\ \A i \in first .. Len(entries) : new[prev + i] = entries[i],
             new \in Seq(LogEntry)
      PROVE  /\ new = a
             /\ \A b \in Seq(LogEntry) : \A k \in Nat :
                  Agrees(b, log, k) /\ Agrees(b, a, Len(a)) => Agrees(b, new, k)
             /\ \A i \in 1 .. Len(log) :
                  (\A j \in 1 .. Len(a) : j <= i => log[j] = a[j])
                    => i <= Len(new) /\ new[i] = log[i]
  <2>. HIDE DEF new
  <2>1. first \in 1 .. Len(entries) /\ prev + Len(entries) = Len(a) /\ entries[first] = a[prev + first]
    BY <1>2, <1>5, <1>9
  <2>2. Agrees(a, log, prev + first - 1)
    <3>1. CASE first = 1
      <4>1. prev + first - 1 = prev
        BY <1>1, <3>1
      <4>. QED
        BY <1>4, <4>1
    <3>2. CASE first # 1
      <4>. DEFINE f == first - 1
      <4>1. f \in 1 .. Len(entries) /\ f \in 1 .. first - 1 /\ prev + f = prev + first - 1
        BY <1>1, <1>2, <2>1, <3>2
      <4>. HIDE DEF f
      <4>2. Agrees(a, log, prev + f)
        BY <1>7, <1>9, <4>1
      <4>. QED
        BY <4>1, <4>2
    <3>. QED
      BY <3>1, <3>2
  <2>3. Len(new) = Len(a)
    BY <1>9, <2>1
  <2>4. ASSUME NEW i \in 1 .. Len(a)
        PROVE  new[i] = a[i]
    <3>1. CASE i <= prev + first - 1
      <4>1. i \in 1 .. prev + first - 1
        BY <1>1, <1>2, <2>1, <3>1
      <4>. QED
        BY <1>9, <2>2, <4>1 DEF Agrees
    <3>2. CASE ~(i <= prev + first - 1)
      <4>. DEFINE j == i - prev
      <4>1. j \in first .. Len(entries) /\ j \in 1 .. Len(entries) /\ prev + j = i
        <5>1. /\ prev \in Nat /\ Len(entries) \in Nat
              /\ prev + Len(entries) = Len(a) /\ first \in 1 .. Len(entries)
          BY <1>1, <1>2, <2>1
        <5>. HIDE DEF entries, prev
        <5>2. first \in Nat /\ 1 <= first /\ i \in Nat /\ i <= prev + Len(entries)
          BY <5>1
        <5>3. prev + first <= i
          BY <3>2, <5>1, <5>2
        <5>. QED
          BY <5>1, <5>2, <5>3
      <4>. HIDE DEF j
      <4>. QED
        BY <1>5, <1>9, <4>1
    <3>. QED
      BY <3>1, <3>2
  <2>5. new = a
    BY <1>9, <2>3, <2>4, SeqEqual
  <2>6. prev + first \in 1 .. Len(a)
    BY <1>1, <1>2, <2>1
  <2>7. ASSUME NEW b \in Seq(LogEntry), NEW k \in Nat, Agrees(b, log, k), Agrees(b, a, Len(a))
        PROVE  Agrees(b, new, k)
    <3>1. k < prev + first
      <4>. SUFFICES ASSUME ~(k < prev + first)
                    PROVE  FALSE
        OBVIOUS
      <4>1. prev + first \in 1 .. k /\ prev + first <= Len(log)
        BY <1>2, <2>6, <2>7 DEF Agrees
      <4>2. log[prev + first] = b[prev + first] /\ b[prev + first] = a[prev + first]
        BY <2>6, <2>7, <4>1 DEF Agrees
      <4>. QED
        BY <1>9, <2>1, <4>1, <4>2
    <3>2. k <= Len(a) /\ \A j \in 1 .. k : j \in 1 .. Len(a)
      BY <1>2, <2>6, <3>1
    <3>. QED
      BY <2>5, <2>7, <3>2 DEF Agrees
  <2>8. ASSUME NEW i \in 1 .. Len(log), \A j \in 1 .. Len(a) : j <= i => log[j] = a[j]
        PROVE  i <= Len(new) /\ new[i] = log[i]
    <3>1. i < prev + first
      <4>. SUFFICES ASSUME ~(i < prev + first)
                    PROVE  FALSE
        OBVIOUS
      <4>1. prev + first <= i /\ prev + first <= Len(log)
        BY <1>2, <2>6
      <4>2. log[prev + first] = a[prev + first]
        BY <2>6, <2>8, <4>1
      <4>. QED
        BY <1>9, <2>1, <4>1, <4>2
    <3>2. i \in 1 .. Len(a)
      BY <1>2, <2>6, <3>1
    <3>. QED
      BY <2>3, <2>4, <2>8, <3>2
  <2>. QED
    BY <2>5, <2>7, <2>8
<1>10. CASE \E first \in DOMAIN entries :
             /\ \A i \in 1 .. first - 1 : /\ prev + i <= Len(log)
                                          /\ log[prev + i].term = entries[i].term
             /\ prev + first <= Len(log) => log[prev + first].term # entries[first].term
             /\ prev + first - 1 <= Len(log)
             /\ Len(new) = prev + Len(entries)
             /\ \A i \in 1 .. prev + first - 1 : new[i] = log[i]
             /\ \A i \in first .. Len(entries) : new[prev + i] = entries[i]
  <2>1. new \in Seq(LogEntry)
    BY <1>1, <1>3, MergedFacts
  <2>. HIDE DEF new
  <2>2. /\ new = a
        /\ \A b \in Seq(LogEntry) : \A k \in Nat :
             Agrees(b, log, k) /\ Agrees(b, a, Len(a)) => Agrees(b, new, k)
        /\ \A i \in 1 .. Len(log) :
             (\A j \in 1 .. Len(a) : j <= i => log[j] = a[j])
               => i <= Len(new) /\ new[i] = log[i]
    BY <1>9, <1>10, <2>1
  <2>3. Agrees(a, new, Matched(req))
    BY <1>6, <2>2 DEF Agrees
  <2>. QED
    BY <1>6, <2>2, <2>3 DEF new
<1>. QED
  BY ZenonT(40), <1>1, <1>3, <1>8, <1>10, MergedFacts

-----------------------------------------------------------------------------
(* The invariant *)

\* A majority has elected somebody in this term, who is no candidate in it.
Led(term) ==
  \E n \in Nodes : /\ Majority(n, term)
                   /\ node[n].current_term >= term
                   /\ node[n].current_term = term => node[n].state # "candidate"
Leads(n, term) == node[n].state = "leader" /\ node[n].current_term = term

\* A log of the history from which the leader of a term built a request: the
\* beginning of the leader's log, and of all that has an entry of the term.
Source(a, term, H) ==
  /\ \A n \in Nodes : Leads(n, term) => Agrees(node[n].log, a, Len(a))
  /\ \A b \in H : \A i \in 1 .. Len(b) :
       b[i].term = term => \A j \in 1 .. Len(a) : j <= i => b[j] = a[j]
Sent(req, H) ==
  /\ Led(req.term)
  /\ \E a \in H : Carries(req, a) /\ Source(a, req.term, H)

\* The logs of the history match, their terms had leaders, and a leader has
\* all entries of its term.
History(H) ==
  /\ \A n \in Nodes : node[n].log \in H
  /\ \A a, b \in H : Matches(a, b)
  /\ \A a \in H : \A i \in 1 .. Len(a) : Led(a[i].term)
  /\ \A n \in Nodes : \A a \in H : \A i \in 1 .. Len(a) :
       Leads(n, a[i].term) => i <= Len(node[n].log) /\ node[n].log[i].term = a[i].term
  /\ \A m \in net : m.type = "append" => Sent(m.req, H)

\* p has what n has up to k, unless it has gone on to a later term.
Holds(p, n, k) ==
  /\ node[p].current_term >= node[n].current_term
  /\ node[p].current_term = node[n].current_term => Agrees(node[n].log, node[p].log, k)

\* Only leaders have indexes of peers; they lie within the log, and a match is
\* what the peer holds.
IndexesFit(n) ==
  /\ node[n].state # "leader" => DOMAIN node[n].next_index = {} /\ DOMAIN node[n].match_index = {}
  /\ \A p \in DOMAIN node[n].next_index : node[n].next_index[p] \in 1 .. Len(node[n].log) + 1
  /\ \A p \in DOMAIN node[n].match_index :
       /\ node[n].match_index[p] <= Len(node[n].log)
       /\ node[n].match_index[p] > 0 => Holds(p, n, node[n].match_index[p])

\* A success on its way to the leader of its term says what the peer holds.
ReplyFits(m) ==
  /\ Led(m.req.term)
  /\ Leads(m.to, m.req.term) =>
       /\ Matched(m.req) <= Len(node[m.to].log)
       /\ m.resp.success => Holds(m.from, m.to, Matched(m.req))

Replication(H) ==
  /\ History(H)
  /\ \A n \in Nodes : IndexesFit(n)
  /\ \A m \in net : m.type = "append reply" => ReplyFits(m)
LogsFit == \E H \in SUBSET Seq(LogEntry) : Replication(H)

-----------------------------------------------------------------------------
(* Leaders and their terms *)

\* A term that was led stays so.
LEMMA LedKept ==
  ASSUME Elections, Elections', AllKeep, NEW term \in Nat, Led(term)
  PROVE  Led(term)'
<1>1. PICK n \in Nodes : /\ Majority(n, term)
                         /\ node[n].current_term >= term
                         /\ node[n].current_term = term => node[n].state # "candidate"
  BY DEF Led
<1>2. Majority(n, term)' /\ Keeps(node[n], node'[n])
  BY <1>1 DEF AllKeep
<1>3. node[n].current_term \in Nat /\ node'[n].current_term \in Nat
  BY DEF Elections, Shapes, Shape
<1>4. /\ node'[n].current_term >= term
      /\ node'[n].current_term = term => node'[n].state # "candidate"
  BY <1>1, <1>2, <1>3 DEF Keeps
<1>. QED
  BY <1>2, <1>4 DEF Led

\* The term of a leader is led.
LEMMA LeaderLed ==
  ASSUME Elections, NEW n \in Nodes, node[n].state = "leader"
  PROVE  Led(node[n].current_term)
<1>1. Majority(n, node[n].current_term) /\ node[n].current_term \in Nat
  BY DEF Elections, LeadersAreBacked, Backed, Shapes, Shape
<1>. QED
  BY <1>1 DEF Led

\* A candidate that is elected leads a term that nobody has led.
LEMMA NewTerm ==
  ASSUME Elections, NEW m \in net, CountVote(m), node'[m.to].state = "leader"
  PROVE  ~Led(node[m.to].current_term)
<1>. DEFINE n == m.to
            term == node[n].current_term
<1>. SUFFICES ASSUME Led(term)
              PROVE  FALSE
  OBVIOUS
<1>1. n \in Nodes /\ Shape(node[n])
  BY DEF Elections, Shapes, MessageOK
<1>2. node[n].state = "candidate"
  BY <1>1 DEF CountVote, Shape
<1>3. PICK x \in Nodes : /\ Majority(x, term)
                         /\ node[x].current_term = term => node[x].state # "candidate"
  BY DEF Led
<1>4. x = n
  BY <1>3, CountStep
<1>. QED
  BY <1>2, <1>3, <1>4

-----------------------------------------------------------------------------
(* Steps on which no log grows *)

\* The history survives a step in which every log is one of it, no log of a
\* leader changes and every new request was built from one of it.
LEMMA HistoryStep ==
  ASSUME NEW H \in SUBSET Seq(LogEntry), History(H), Elections, Elections', AllKeep,
         LogTypes,
         \A n \in Nodes : node'[n].log \in H,
         \A n \in Nodes : node'[n].state = "leader" =>
           /\ node'[n].log = node[n].log
           /\ node'[n].current_term = node[n].current_term
           /\ node[n].state = "leader" \/ ~Led(node[n].current_term),
         \A m \in net' : m.type = "append" => m \in net \/ Sent(m.req, H)'
  PROVE  History(H)'
<1>1. ASSUME NEW a \in H, NEW i \in 1 .. Len(a)
      PROVE  a[i].term \in Nat
  <2>1. a \in Seq(LogEntry)
    OBVIOUS
  <2>2. a[i] \in LogEntry
    BY <2>1, ElementOfSeq
  <2>. QED
    BY <2>2 DEF LogEntry
<1>2. \A a \in H : \A i \in 1 .. Len(a) : Led(a[i].term)'
  BY <1>1, LedKept DEF History
<1>3. ASSUME NEW n \in Nodes, NEW term, Led(term), Leads(n, term)'
      PROVE  Leads(n, term) /\ node'[n].log = node[n].log
  BY <1>3 DEF Leads
<1>4. ASSUME NEW n \in Nodes, NEW a \in H, NEW i \in 1 .. Len(a), Leads(n, a[i].term)'
      PROVE  i <= Len(node'[n].log) /\ node'[n].log[i].term = a[i].term
  <2>1. Led(a[i].term)
    BY DEF History
  <2>2. Leads(n, a[i].term) /\ node'[n].log = node[n].log
    BY <1>3, <1>4, <2>1
  <2>. QED
    BY <2>2 DEF History
<1>5. ASSUME NEW m \in net', m.type = "append"
      PROVE  Sent(m.req, H)'
  <2>1. CASE m \in net
    <3>1. Led(m.req.term) /\ m.req.term \in Nat
      BY <1>5, <2>1, MessageFields DEF History, Sent, LogTypes, ProperRequest, AppendEntriesRequest
    <3>2. PICK a \in H : Carries(m.req, a) /\ Source(a, m.req.term, H)
      BY <1>5, <2>1 DEF History, Sent
    <3>3. Source(a, m.req.term, H)'
      BY <1>3, <3>1, <3>2 DEF Source
    <3>4. Led(m.req.term)'
      BY <3>1, LedKept
    <3>. QED
      BY <3>2, <3>3, <3>4 DEF Sent
  <2>. QED
    BY <1>5, <2>1
<1>. QED
  BY <1>2, <1>4, <1>5 DEF History

\* What p holds of a leader's log it holds after a step that leaves both logs,
\* in particular after one that takes p to a later term.
LEMMA HoldsKept ==
  ASSUME Elections, Elections', AllKeep, NEW n \in Nodes, NEW p \in Nodes, NEW k, Holds(p, n, k),
         node'[n].current_term = node[n].current_term, node'[n].log = node[n].log,
         node'[p].log = node[p].log
  PROVE  Holds(p, n, k)'
<1>1. /\ node[n].current_term \in Nat /\ node[p].current_term \in Nat
      /\ node'[p].current_term \in Nat /\ node'[p].current_term >= node[p].current_term
  BY DEF Elections, Shapes, Shape, AllKeep, Keeps
<1>. QED
  BY <1>1 DEF Holds

\* A node after a calm call: the log is the same, a leader that stays one has
\* its indexes, one that is elected and all others have none.
Calm(n, t) ==
  /\ t.log = node[n].log
  /\ t.state # "leader" => DOMAIN t.next_index = {} /\ DOMAIN t.match_index = {}
  /\ t.state = "leader" =>
       /\ t.current_term = node[n].current_term
       /\ \/ /\ node[n].state = "leader"
             /\ t.next_index = node[n].next_index /\ t.match_index = node[n].match_index
          \/ /\ ~Led(node[n].current_term)
             /\ DOMAIN t.next_index = {} /\ DOMAIN t.match_index = {}

\* More generally a node may get new indexes, if they fit.
Still(n, t) ==
  /\ t.log = node[n].log
  /\ t.state = "leader" =>
       /\ t.current_term = node[n].current_term
       /\ node[n].state = "leader" \/ ~Led(node[n].current_term)

\* The invariant survives such a step, if what is new on the way fits.
LEMMA StillStep ==
  ASSUME NEW H \in SUBSET Seq(LogEntry), Replication(H), Elections, Elections', AllKeep,
         LogTypes,
         \A n \in Nodes : Calm(n, node'[n]) \/ (Still(n, node'[n]) /\ IndexesFit(n)'),
         \A m \in net' : m.type = "append" => m \in net \/ Sent(m.req, H)',
         \A m \in net' : m.type = "append reply" => m \in net \/ ReplyFits(m)'
  PROVE  Replication(H)'
<1>1. \A n \in Nodes : node'[n].log = node[n].log /\ node[n].log \in H
  BY DEF Calm, Still, Replication, History
<1>2. \A n \in Nodes : node'[n].state = "leader" =>
           /\ node'[n].log = node[n].log
           /\ node'[n].current_term = node[n].current_term
           /\ node[n].state = "leader" \/ ~Led(node[n].current_term)
  BY DEF Calm, Still
<1>3. History(H)'
  BY <1>1, <1>2, HistoryStep DEF Replication
<1>4. \A n \in Nodes : IndexMap(node[n].match_index)
  BY ProperShape DEF LogTypes
<1>5. ASSUME NEW n \in Nodes, Calm(n, node'[n])
      PROVE  IndexesFit(n)'
  <2>1. CASE DOMAIN node'[n].next_index = {} /\ DOMAIN node'[n].match_index = {}
    BY <2>1 DEF IndexesFit
  <2>2. CASE /\ node'[n].state = "leader" /\ node[n].state = "leader"
             /\ node'[n].current_term = node[n].current_term
             /\ node'[n].next_index = node[n].next_index
             /\ node'[n].match_index = node[n].match_index
    <3>1. IndexesFit(n)
      BY DEF Replication
    <3>2. ASSUME NEW p \in DOMAIN node[n].match_index, NEW k, k = node[n].match_index[p],
                 k > 0
          PROVE  Holds(p, n, k)'
      <4>1. p \in Nodes
        BY <1>4 DEF IndexMap
      <4>2. Holds(p, n, k)
        BY <3>1, <3>2 DEF IndexesFit
      <4>. QED
        BY <1>1, <2>2, <4>1, <4>2, HoldsKept
    <3>3. \A p \in DOMAIN node'[n].match_index : node'[n].match_index[p] > 0 =>
             Holds(p, n, node[n].match_index[p])'
      BY <2>2, <3>2 DEF Holds
    <3>. QED
      BY <1>1, <2>2, <3>1, <3>3 DEF IndexesFit
  <2>. QED
    BY <1>5, <2>1, <2>2 DEF Calm
<1>6. ASSUME NEW m \in net', m.type = "append reply", m \in net
      PROVE  ReplyFits(m)'
  <2>1. /\ m.to \in Nodes /\ m.from \in Nodes /\ m.req.term \in Nat
    BY <1>6, MessageFields DEF LogTypes, ProperRequest, AppendEntriesRequest
  <2>2. ReplyFits(m)
    BY <1>6 DEF Replication
  <2>3. Led(m.req.term)'
    BY <2>1, <2>2, LedKept DEF ReplyFits
  <2>4. ASSUME Leads(m.to, m.req.term)'
        PROVE  /\ Matched(m.req) <= Len(node'[m.to].log)
               /\ m.resp.success => Holds(m.from, m.to, Matched(m.req))'
    <3>1. Leads(m.to, m.req.term) /\ node'[m.to].current_term = node[m.to].current_term
      BY <1>2, <2>1, <2>2, <2>4 DEF Leads, ReplyFits
    <3>2. m.resp.success => Holds(m.from, m.to, Matched(m.req))'
      BY <1>1, <2>1, <2>2, <3>1, HoldsKept DEF ReplyFits
    <3>. QED
      BY <1>1, <2>1, <2>2, <3>1, <3>2 DEF ReplyFits
  <2>. QED
    BY <2>3, <2>4 DEF ReplyFits
<1>. QED
  BY <1>3, <1>5, <1>6 DEF Replication

\* A node that is left alone is calm.
LEMMA CalmSelf ==
  ASSUME NEW H, Replication(H), NEW n \in Nodes
  PROVE  Calm(n, node[n])
  BY DEF Replication, IndexesFit, Calm

\* One node makes a calm call, and no request is new.
LEMMA CalmCall ==
  ASSUME NEW H \in SUBSET Seq(LogEntry), Replication(H), Elections, Elections', AllKeep,
         LogTypes, NEW n \in Nodes, NEW t, node' = [node EXCEPT ![n] = t], Calm(n, t),
         \A m \in net' : m.type = "append" => m \in net,
         \A m \in net' : m.type = "append reply" => m \in net \/ ReplyFits(m)'
  PROVE  Replication(H)'
<1>1. \A q \in Nodes : node'[q] = IF q = n THEN t ELSE node[q]
  BY DEF Elections, Shapes
<1>2. \A q \in Nodes : Calm(q, node'[q])
  BY <1>1, CalmSelf
<1>3. ASSUME NEW q \in Nodes
      PROVE  Calm(q, node'[q]) \/ (Still(q, node'[q]) /\ IndexesFit(q)')
  <2>1. Calm(q, node'[q])
    BY <1>2
  <2>. QED
    BY <2>1
<1>4. \A m \in net' : m.type = "append" => m \in net \/ Sent(m.req, H)'
  OBVIOUS
<1>. QED
  BY <1>3, <1>4, StillStep

\* A node that becomes a follower has no indexes.
LEMMA DeposedCalm ==
  ASSUME NEW n \in Nodes, Proper(node[n]), NEW term \in Nat
  PROVE  Calm(n, become_follower(node[n], term))
<1>. DEFINE t == become_follower(node[n], term)
<1>1. /\ t.log = node[n].log /\ t.state = "follower"
      /\ t.next_index = NoIndexes /\ t.match_index = NoIndexes
  BY TermCallsProper, NodesAssumption
<1>. HIDE DEF t
<1>2. DOMAIN NoIndexes = {}
  BY DEF NoIndexes
<1>. QED
  BY <1>1, <1>2 DEF Calm, t

-----------------------------------------------------------------------------
(* Elections *)

\* A candidacy clears the indexes of peers and begins a term nobody has led.
LEMMA TimeoutReplication ==
  ASSUME NEW H \in SUBSET Seq(LogEntry), Replication(H), Elections, Elections', AllKeep,
         LogTypes, NEW n \in Nodes, Timeout(n)
  PROVE  Replication(H)'
<1>. DEFINE t == become_candidate(node[n])
<1>1. Proper(node[n]) /\ Shape(node[n])
  BY DEF LogTypes, Elections, Shapes
<1>2. /\ t.log = node[n].log /\ t.state = "candidate"
      /\ t.next_index = NoIndexes /\ t.match_index = NoIndexes
  BY <1>1, TermCallsProper, BecomeCandidateFacts
<1>3. node' = [node EXCEPT ![n] = t] /\ net' = net
  BY DEF Timeout
<1>. HIDE DEF t
<1>4. Calm(n, t)
  <2>1. DOMAIN NoIndexes = {}
    BY DEF NoIndexes
  <2>. QED
    BY <1>2, <2>1 DEF Calm
<1>. QED
  BY <1>3, <1>4, CalmCall

\* Granting a vote of the node's own term changes neither its state nor its log.
LEMMA VoteReplication ==
  ASSUME NEW H \in SUBSET Seq(LogEntry), Replication(H), Elections, Elections', AllKeep,
         LogTypes, NEW m \in net, HandleVoteRequest(m)
  PROVE  Replication(H)'
<1>. DEFINE q == m.to
            p == m.from
            s == IF m.term > node[q].current_term THEN become_follower(node[q], m.term) ELSE node[q]
            granted == can_vote_for(s, p, m.term) /\ UpToDate(s.log, m)
            t == IF granted THEN vote_for(s, p, m.term) ELSE s
            reply == VoteReply(m, s.current_term, granted)
<1>1. m.type = "vote" /\ q \in Nodes /\ p \in Nodes /\ m.term \in Nat
  BY MessageFields DEF LogTypes, HandleVoteRequest
<1>2. Proper(node[q]) /\ Shape(node[q]) /\ node[q].current_term \in Nat
  BY <1>1, ProperShape DEF LogTypes
<1>3. node' = [node EXCEPT ![q] = t] /\ net' = (net \ {m}) \cup {reply}
  BY DEF HandleVoteRequest, Reply
<1>4. reply.type = "vote reply"
  BY DEF VoteReply
<1>5. Proper(s) /\ Calm(q, s) /\ s.current_term >= m.term /\ Shape(s)
  <2>1. CASE m.term > node[q].current_term
    <3>1. s = become_follower(node[q], m.term)
      BY <2>1
    <3>2. Proper(s) /\ Calm(q, s)
      BY <1>1, <1>2, <3>1, TermCallsProper, DeposedCalm
    <3>3. Shape(s) /\ s.current_term = m.term
      BY <1>1, <1>2, <2>1, <3>1, BecomeFollowerQuiet
    <3>. HIDE DEF s
    <3>. QED
      BY <1>1, <3>2, <3>3
  <2>2. CASE ~(m.term > node[q].current_term)
    BY <1>1, <1>2, <2>2, CalmSelf
  <2>. QED
    BY <2>1, <2>2
<1>. HIDE DEF s
<1>6. LET v == vote_for(s, p, m.term)
      IN  /\ v.log = s.log /\ v.state = s.state /\ v.current_term = s.current_term
          /\ v.next_index = s.next_index /\ v.match_index = s.match_index
  BY <1>1, <1>5 DEF vote_for, Shape
<1>. HIDE DEF granted
<1>7. Calm(q, t)
  BY <1>5, <1>6 DEF Calm
<1>. HIDE DEF t, reply, q
<1>. QED
  BY <1>1, <1>3, <1>4, <1>7, CalmCall

\* A candidate that is elected has no indexes yet, and nobody led its term.
LEMMA CountReplication ==
  ASSUME NEW H \in SUBSET Seq(LogEntry), Replication(H), Elections, Elections', AllKeep,
         LogTypes, NEW m \in net, CountVote(m)
  PROVE  Replication(H)'
<1>. DEFINE n == m.to
            s == [node[n] EXCEPT !.voted_count = @ + 1]
            elected == s.voted_count > Cardinality(Nodes) \div 2
            t == IF elected THEN become_leader(s) ELSE s
<1>1. n \in Nodes /\ Proper(node[n])
  BY MessageFields DEF LogTypes
<1>2. node' = [node EXCEPT ![n] = t] /\ net' = net \ {m}
  BY DEF CountVote
<1>3. /\ s.log = node[n].log /\ s.state = node[n].state
      /\ s.next_index = node[n].next_index /\ s.match_index = node[n].match_index
      /\ become_leader(s).log = node[n].log /\ become_leader(s).state = "leader"
      /\ become_leader(s).current_term = node[n].current_term
      /\ DOMAIN become_leader(s).next_index = DOMAIN node[n].next_index
      /\ DOMAIN become_leader(s).match_index = DOMAIN node[n].match_index
  BY <1>1, CountProper
<1>4. node[n].state = "candidate"
  BY <1>3 DEF CountVote
<1>5. DOMAIN node[n].next_index = {} /\ DOMAIN node[n].match_index = {}
  BY <1>1, <1>4 DEF Replication, IndexesFit
<1>. HIDE DEF elected, s
<1>6. elected => ~Led(node[n].current_term)
  <2>1. elected => node'[n].state = "leader"
    BY <1>1, <1>2, <1>3 DEF Elections, Shapes
  <2>. QED
    BY <2>1, NewTerm
<1>7. Calm(n, t)
  BY <1>3, <1>4, <1>5, <1>6 DEF Calm
<1>. HIDE DEF t, n
<1>. QED
  BY <1>1, <1>2, <1>7, CalmCall

\* Messages of elections are sent or lost, and a later term deposes a node.
LEMMA OtherReplication ==
  ASSUME NEW H \in SUBSET Seq(LogEntry), Replication(H), Elections, Elections', AllKeep,
         LogTypes,
         \/ UNCHANGED vars
         \/ \E n, p \in Nodes : RequestVote(n, p)
         \/ \E m \in net : StepDown(m) \/ Lose(m)
  PROVE  Replication(H)'
<1>1. ASSUME node' = node, \A m \in net' : m \in net \/ m.type = "vote"
      PROVE  Replication(H)'
  <2>1. ASSUME NEW n \in Nodes
        PROVE  Calm(n, node'[n]) \/ (Still(n, node'[n]) /\ IndexesFit(n)')
    <3>1. Calm(n, node'[n])
      BY <1>1, CalmSelf
    <3>. QED
      BY <3>1
  <2>2. \A m \in net' : m.type = "append" => m \in net \/ Sent(m.req, H)'
    BY <1>1
  <2>3. \A m \in net' : m.type = "append reply" => m \in net \/ ReplyFits(m)'
    BY <1>1
  <2>. QED
    BY <2>1, <2>2, <2>3, StillStep
<1>2. CASE UNCHANGED vars
  BY <1>1, <1>2 DEF vars
<1>3. CASE \E n, p \in Nodes : RequestVote(n, p)
  BY <1>1, <1>3 DEF RequestVote, Send, VoteRequest
<1>4. CASE \E m \in net : Lose(m)
  BY <1>1, <1>4 DEF Lose
<1>5. ASSUME NEW m \in net, StepDown(m)
      PROVE  Replication(H)'
  <2>. DEFINE n == m.to
              t == become_follower(node[n], m.term)
  <2>1. n \in Nodes /\ m.term \in Nat
    BY <1>5, MessageFields DEF StepDown, LogTypes
  <2>2. Calm(n, t)
    BY <2>1, DeposedCalm DEF LogTypes
  <2>3. node' = [node EXCEPT ![n] = t] /\ net' = net \ {m}
    BY <1>5 DEF StepDown
  <2>. HIDE DEF t, n
  <2>. QED
    BY <2>1, <2>2, <2>3, CalmCall
<1>. QED
  BY <1>2, <1>3, <1>4, <1>5

-----------------------------------------------------------------------------
(* Replication *)

\* The request of a log ends where the log ends, at the latest.
LEMMA CarriesMatched ==
  ASSUME NEW req, ProperRequest(req), NEW a \in Seq(LogEntry), Carries(req, a)
  PROVE  Matched(req) \in Nat /\ Matched(req) <= Len(a)
<1>. DEFINE prev == req.prev_log_index
<1>1. /\ req.entries \in Seq(LogEntry) /\ prev \in Nat
      /\ Len(req.entries) \in Nat /\ Len(a) \in Nat
  BY LenProperties DEF ProperRequest, AppendEntriesRequest
<1>2. CASE req.entries = <<>>
  <2>1. Len(req.entries) = 0
    BY <1>2
  <2>. QED
    BY <1>1, <2>1 DEF Matched, Carries
<1>3. CASE req.entries # <<>>
  <2>1. prev < Len(a) /\ req.entries = SubSeq(a, prev + 1, Len(a))
    BY <1>3 DEF Carries
  <2>2. /\ prev + 1 \in Int /\ Len(a) \in Int /\ prev + 1 <= Len(a)
        /\ \A j \in prev + 1 .. Len(a) : a[j] \in LogEntry
    BY <1>1, <2>1, ElementOfSeq
  <2>3. Len(req.entries) = Len(a) - (prev + 1) + 1
    BY <2>1, <2>2, SubSeqProperties
  <2>4. Matched(req) = prev + Len(req.entries)
    BY DEF Matched
  <2>. HIDE DEF prev
  <2>5. Matched(req) = Len(a)
    BY <1>1, <2>3, <2>4
  <2>. QED
    BY <1>1, <2>5
<1>. QED
  BY <1>2, <1>3

\* A request on its way is no longer than the log of the leader of its term.
LEMMA SentMatched ==
  ASSUME NEW H \in SUBSET Seq(LogEntry), NEW req, ProperRequest(req), Sent(req, H), LogTypes
  PROVE  /\ Matched(req) \in Nat
         /\ \A n \in Nodes : Leads(n, req.term) => Matched(req) <= Len(node[n].log)
<1>1. PICK a \in H : Carries(req, a) /\ Source(a, req.term, H)
  BY DEF Sent
<1>2. a \in Seq(LogEntry) /\ Len(a) \in Nat /\ Matched(req) \in Nat /\ Matched(req) <= Len(a)
  BY <1>1, CarriesMatched, LenProperties
<1>3. \A n \in Nodes : Leads(n, req.term) => Len(a) <= Len(node[n].log)
  BY <1>1 DEF Source, Agrees
<1>4. \A n \in Nodes : Len(node[n].log) \in Nat
  BY ProperShape, LenProperties DEF LogTypes
<1>. QED
  BY <1>2, <1>3, <1>4

\* What a leader sends is the end of its own log, and its new indexes fit.
LEMMA SendReplication ==
  ASSUME NEW H \in SUBSET Seq(LogEntry), Replication(H), Elections, Elections', AllKeep,
         LogTypes, NEW n \in Nodes, NEW p \in Nodes, SendAppend(n, p)
  PROVE  Replication(H)'
<1>a. PICK s : s = IF AddPeers THEN add_peer(node[n], p) ELSE node[n]
  OBVIOUS
<1>b. PICK a : a = node[n].log
  OBVIOUS
<1>c. PICK term : term = node[n].current_term
  OBVIOUS
<1>d. PICK req : req = build_append_entries_request(s, p)
  OBVIOUS
<1>1. Proper(node[n]) /\ Proper(s)
  BY <1>a, AddPeerProper DEF LogTypes
<1>2. /\ s.log = a /\ s.state = node[n].state /\ s.current_term = term /\ s.node_id = n
      /\ \/ s.next_index = node[n].next_index /\ s.match_index = node[n].match_index
         \/ /\ s.next_index = Store(node[n].next_index, p, Len(a) + 1)
            /\ s.match_index = Store(node[n].match_index, p, 0)
  BY <1>1, <1>a, <1>b, <1>c, AddPeerProper DEF Elections, Shapes
<1>3. /\ node' = [node EXCEPT ![n] = s] /\ net' = net \cup {AppendRequest(s, p)}
      /\ s.state = "leader"
  BY <1>a DEF SendAppend, Send
<1>4. \A q \in Nodes : node'[q] = IF q = n THEN s ELSE node[q]
  BY <1>3 DEF Elections, Shapes
<1>5. /\ a \in Seq(LogEntry) /\ Positioned(a) /\ Len(a) \in Nat /\ DOMAIN a = 1 .. Len(a)
      /\ term \in Nat /\ NextMap(node[n].next_index) /\ IndexMap(node[n].match_index)
      /\ a \in H /\ IndexesFit(n) /\ Leads(n, term)
  BY <1>1, <1>2, <1>3, <1>b, <1>c, ProperShape, LenProperties DEF Replication, History, Leads
<1>6. \A q \in DOMAIN s.next_index : s.next_index[q] \in 1 .. Len(a) + 1
  <2>1. \A q \in DOMAIN node[n].next_index : node[n].next_index[q] \in 1 .. Len(a) + 1
    BY <1>5, <1>b DEF IndexesFit
  <2>2. Len(a) + 1 \in Nat /\ Len(a) + 1 \in 1 .. Len(a) + 1
    BY <1>5
  <2>3. CASE s.next_index = Store(node[n].next_index, p, Len(a) + 1)
    <3>1. /\ DOMAIN s.next_index = DOMAIN node[n].next_index \cup {p}
          /\ \A q \in DOMAIN node[n].next_index \cup {p} :
               s.next_index[q] = IF q = p THEN Len(a) + 1 ELSE node[n].next_index[q]
      BY <2>3 DEF Store
    <3>. QED
      BY <2>1, <2>2, <3>1
  <2>. QED
    BY <1>2, <2>1, <2>3
<1>7. \A q \in DOMAIN s.match_index :
        s.match_index[q] = 0 \/ (q \in DOMAIN node[n].match_index /\ s.match_index[q] = node[n].match_index[q])
  <2>1. CASE s.match_index = Store(node[n].match_index, p, 0)
    <3>1. /\ DOMAIN s.match_index = DOMAIN node[n].match_index \cup {p}
          /\ \A q \in DOMAIN node[n].match_index \cup {p} :
               s.match_index[q] = IF q = p THEN 0 ELSE node[n].match_index[q]
      BY <2>1 DEF Store
    <3>. QED
      BY <3>1
  <2>. QED
    BY <1>2, <2>1
<1>8. \A q \in DOMAIN s.match_index : q \in Nodes /\ s.match_index[q] \in Nat
  BY <1>1, ProperShape DEF IndexMap
<1>9. IndexesFit(n)'
  <2>1. ASSUME NEW q \in DOMAIN s.match_index, NEW k, k = s.match_index[q]
        PROVE  k <= Len(a) /\ (k > 0 => Holds(q, n, k)')
    <3>1. CASE k = 0
      BY <1>5, <3>1
    <3>2. CASE k # 0
      <4>1. k = node[n].match_index[q] /\ q \in DOMAIN node[n].match_index /\ k \in Nat /\ k > 0
        BY <1>7, <1>8, <2>1, <3>2
      <4>2. k <= Len(a) /\ Holds(q, n, k)
        BY <1>5, <1>b, <4>1 DEF IndexesFit
      <4>3. Holds(q, n, k)'
        BY <1>2, <1>4, <1>8, <1>b, <1>c, <2>1, <4>2, HoldsKept
      <4>. QED
        BY <4>2, <4>3
    <3>. QED
      BY <3>1, <3>2
  <2>2. node'[n] = s
    BY <1>4
  <2>3. \A q \in DOMAIN node'[n].match_index :
             node'[n].match_index[q] > 0 => Holds(q, n, node[n].match_index[q])'
    BY <2>1, <2>2 DEF Holds
  <2>. QED
    BY <1>2, <1>3, <1>6, <2>1, <2>2, <2>3 DEF IndexesFit
<1>10. ProperRequest(req) /\ req.term = term /\ Carries(req, a)
  <2>. DEFINE prev == req.prev_log_index
  <2>1. /\ ProperRequest(req) /\ req.term = term
        /\ prev \in DOMAIN a => req.prev_log_term = a[prev].term
        /\ p \notin DOMAIN s.next_index => prev = 0
        /\ p \in DOMAIN s.next_index /\ s.next_index[p] > 0 => prev = s.next_index[p] - 1
        /\ req.entries # <<>> => prev < Len(a) /\ req.entries = SubSeq(a, prev + 1, Len(a))
    BY <1>1, <1>2, <1>d, BuildProper
  <2>2. prev \in Nat
    BY <2>1 DEF ProperRequest, AppendEntriesRequest
  <2>3. prev <= Len(a)
    <3>1. CASE p \in DOMAIN s.next_index
      <4>1. s.next_index[p] \in 1 .. Len(a) + 1
        BY <1>6, <3>1
      <4>. QED
        BY <1>5, <2>1, <3>1, <4>1
    <3>. QED
      BY <1>5, <2>1, <3>1
  <2>4. prev > 0 => prev \in DOMAIN a
    BY <1>5, <2>2, <2>3
  <2>. QED
    BY <2>1, <2>3, <2>4 DEF Carries
<1>11. Source(a, term, H)
  <2>1. ASSUME NEW q \in Nodes, Leads(q, term)
        PROVE  Agrees(node[q].log, a, Len(a))
    <3>1. q = n
      BY <1>5, <1>c, <2>1 DEF Leads, Elections, ElectionSafety
    <3>. QED
      BY <1>5, <1>b, <3>1 DEF Agrees
  <2>2. ASSUME NEW b \in H, NEW i \in 1 .. Len(b), b[i].term = term,
               NEW j \in 1 .. Len(a), j <= i
        PROVE  b[j] = a[j]
    <3>1. i <= Len(a) /\ a[i].term = b[i].term
      BY <1>5, <1>b, <2>2 DEF Replication, History
    <3>2. Matches(b, a)
      BY <1>5, <2>2 DEF Replication, History
    <3>3. j \in 1 .. i
      BY <1>5, <2>2
    <3>. QED
      BY <2>2, <3>1, <3>2, <3>3 DEF Matches
  <2>. QED
    BY <2>1, <2>2 DEF Source
<1>12. Sent(req, H)'
  <2>1. Led(term)'
    BY <1>2, <1>3, <1>5, <1>c, LeaderLed, LedKept
  <2>2. \A q \in Nodes : Leads(q, term)' => Leads(q, term) /\ node'[q].log = node[q].log
    BY <1>2, <1>4, <1>b, <1>c DEF Leads
  <2>3. Source(a, term, H)'
    BY <1>11, <2>2 DEF Source
  <2>4. \E b \in H : Carries(req, b) /\ Source(b, term, H)'
    BY <1>5, <1>10, <2>3
  <2>. QED
    BY <1>10, <2>1, <2>4 DEF Sent
<1>13. \A m \in net' : m.type = "append" => m \in net \/ Sent(m.req, H)'
  <2>1. AppendRequest(s, p).req = req
    BY <1>d DEF AppendRequest
  <2>. QED
    BY <1>3, <1>12, <2>1
<1>14. \A m \in net' : m.type = "append reply" => m \in net \/ ReplyFits(m)'
  <2>1. AppendRequest(s, p).type = "append"
    BY DEF AppendRequest
  <2>. QED
    BY <1>3, <2>1
<1>15. ASSUME NEW q \in Nodes
       PROVE  Calm(q, node'[q]) \/ (Still(q, node'[q]) /\ IndexesFit(q)')
  <2>1. CASE q = n
    BY <1>2, <1>3, <1>4, <1>9, <1>b, <1>c, <2>1 DEF Still
  <2>2. CASE q # n
    BY <1>4, <2>2, CalmSelf
  <2>. QED
    BY <2>1, <2>2
<1>. QED
  BY <1>13, <1>14, <1>15, StillStep

\* A response to a request of the leader's own term tells it what the peer
\* holds, or an index to go back to.
LEMMA ReplyReplication ==
  ASSUME NEW H \in SUBSET Seq(LogEntry), Replication(H), Elections, Elections', AllKeep,
         LogTypes, NEW m \in net, HandleAppendReply(m)
  PROVE  Replication(H)'
<1>. DEFINE n == m.to
            p == m.from
<1>a. PICK s : s = node[n]
  OBVIOUS
<1>b. PICK t : t = handle_append_entries_response(s, p, m.req, m.resp)
  OBVIOUS
<1>1. /\ n \in Nodes /\ p \in Nodes /\ ProperRequest(m.req) /\ m.resp \in AppendEntriesResponse
      /\ m.type = "append reply" /\ m.req.term = s.current_term
      /\ ~m.resp.success /\ m.resp.term <= m.req.term
           => m.resp.conflict_index \in 1 .. m.req.prev_log_index
  BY <1>a, MessageFields DEF LogTypes, HandleAppendReply, ProperMessage
<1>2. /\ Proper(s) /\ Len(s.log) \in Nat
      /\ NextMap(s.next_index) /\ IndexMap(s.match_index)
  BY <1>1, <1>a, ProperShape, LenProperties DEF LogTypes
<1>3. /\ node' = [node EXCEPT ![n] = t] /\ net' = net \ {m}
  BY <1>a, <1>b DEF HandleAppendReply, Elections, Shapes
<1>4. \A q \in Nodes : node'[q] = IF q = n THEN t ELSE node[q]
  BY <1>3 DEF Elections, Shapes
<1>5. t.log = s.log /\ Hears(s, t, p, m.req, m.resp)
  BY <1>1, <1>2, <1>b, ResponseProper
<1>6. CASE /\ t.state = "follower"
           /\ t.next_index = NoIndexes /\ t.match_index = NoIndexes
  <2>1. DOMAIN NoIndexes = {}
    BY DEF NoIndexes
  <2>2. Calm(n, t)
    BY <1>5, <1>6, <1>a, <2>1 DEF Calm
  <2>. QED
    BY <1>1, <1>3, <2>2, CalmCall
<1>7. CASE t = s
  <2>1. Calm(n, t)
    BY <1>1, <1>7, <1>a, CalmSelf
  <2>. QED
    BY <1>1, <1>3, <2>1, CalmCall
<1>8. CASE /\ t.state = "leader" /\ s.state = "leader"
           /\ m.resp.term <= s.current_term /\ t.current_term = s.current_term
           /\ \/ /\ m.resp.success
                 /\ t.match_index = Store(s.match_index, p, Matched(m.req))
                 /\ t.next_index = Store(s.next_index, p, Matched(m.req) + 1)
              \/ /\ ~m.resp.success
                 /\ t.match_index = s.match_index
                 /\ t.next_index = Store(s.next_index, p,
                      IF m.resp.conflict_index > 0 THEN m.resp.conflict_index
                      ELSE StepBack(s, p))
  <2>1. /\ IndexesFit(n) /\ ReplyFits(m) /\ Leads(n, m.req.term)
    BY <1>1, <1>8, <1>a DEF Replication, Leads
  <2>2. PICK k : k = Matched(m.req)
    OBVIOUS
  <2>3. PICK prev : prev = m.req.prev_log_index
    OBVIOUS
  <2>4. k \in Nat /\ prev \in Nat /\ prev <= k /\ k <= Len(s.log)
    <3>1. /\ prev \in Nat /\ Len(m.req.entries) \in Nat
      BY <1>1, <2>3, LenProperties DEF ProperRequest, AppendEntriesRequest
    <3>2. k = prev + Len(m.req.entries)
      BY <2>2, <2>3 DEF Matched
    <3>3. k <= Len(s.log)
      BY <1>a, <2>1, <2>2 DEF ReplyFits
    <3>. QED
      BY <3>1, <3>2, <3>3
  <2>5. ASSUME NEW q \in Nodes, NEW j, j <= Len(s.log), j > 0, Holds(q, n, j)
        PROVE  Holds(q, n, j)'
    BY <1>1, <1>4, <1>5, <1>8, <1>a, <2>5, HoldsKept
  <2>6. ASSUME NEW q \in DOMAIN t.match_index, NEW j, j = t.match_index[q]
        PROVE  j <= Len(s.log) /\ (j > 0 => Holds(q, n, j)')
    <3>1. CASE t.match_index = s.match_index
      <4>1. q \in Nodes /\ j <= Len(s.log) /\ (j > 0 => Holds(q, n, j))
        BY <1>2, <1>a, <2>1, <2>6, <3>1 DEF IndexesFit, IndexMap
      <4>. QED
        BY <2>5, <4>1
    <3>2. CASE m.resp.success /\ t.match_index = Store(s.match_index, p, k)
      <4>1. /\ q \in DOMAIN s.match_index \cup {p}
            /\ j = IF q = p THEN k ELSE s.match_index[q]
        BY <2>6, <3>2 DEF Store
      <4>2. CASE q = p
        <5>1. j = k /\ j <= Len(s.log) /\ Holds(q, n, j)
          BY <2>1, <2>2, <2>4, <3>2, <4>1, <4>2 DEF ReplyFits
        <5>. QED
          BY <1>1, <2>5, <4>2, <5>1
      <4>3. CASE q # p
        <5>1. q \in Nodes /\ j <= Len(s.log) /\ (j > 0 => Holds(q, n, j))
          BY <1>2, <1>a, <2>1, <4>1, <4>3 DEF IndexesFit, IndexMap
        <5>. QED
          BY <2>5, <5>1
      <4>. QED
        BY <4>2, <4>3
    <3>. QED
      BY <1>8, <2>2, <3>1, <3>2
  <2>7. ASSUME NEW q \in DOMAIN t.next_index
        PROVE  t.next_index[q] \in 1 .. Len(s.log) + 1
    <3>1. PICK i : t.next_index = Store(s.next_index, p, i) /\ i \in 1 .. Len(s.log) + 1
      <4>1. CASE m.resp.success
        <5>1. t.next_index = Store(s.next_index, p, k + 1) /\ k + 1 \in 1 .. Len(s.log) + 1
          BY <1>2, <1>8, <2>2, <2>4, <4>1
        <5>. QED
          BY <5>1
      <4>2. CASE ~m.resp.success
        <5>1. PICK c : c = m.resp.conflict_index
          OBVIOUS
        <5>2. c \in 1 .. prev
          BY <1>1, <1>8, <2>3, <4>2, <5>1
        <5>3. c > 0 /\ c \in 1 .. Len(s.log) + 1
          BY <1>2, <2>4, <5>2
        <5>4. t.next_index = Store(s.next_index, p, c)
          BY <1>8, <4>2, <5>1, <5>3
        <5>. QED
          BY <5>3, <5>4
      <4>. QED
        BY <4>1, <4>2
    <3>2. q \in DOMAIN s.next_index \cup {p} /\ t.next_index[q] = IF q = p THEN i ELSE s.next_index[q]
      BY <3>1 DEF Store
    <3>3. q # p => s.next_index[q] \in 1 .. Len(s.log) + 1
      BY <1>a, <2>1, <3>2 DEF IndexesFit
    <3>. QED
      BY <3>1, <3>2, <3>3
  <2>8. IndexesFit(n)'
    <3>1. node'[n] = t
      BY <1>1, <1>4
    <3>2. \A q \in DOMAIN node'[n].match_index :
             node'[n].match_index[q] > 0 => Holds(q, n, node[n].match_index[q])'
      BY <2>6, <3>1 DEF Holds
    <3>. QED
      BY <1>5, <1>8, <2>6, <2>7, <3>1, <3>2 DEF IndexesFit
  <2>9. ASSUME NEW q \in Nodes
        PROVE  Calm(q, node'[q]) \/ (Still(q, node'[q]) /\ IndexesFit(q)')
    <3>1. CASE q = n
      BY <1>4, <1>5, <1>8, <1>a, <2>8, <3>1 DEF Still
    <3>2. CASE q # n
      BY <1>4, <3>2, CalmSelf
    <3>. QED
      BY <3>1, <3>2
  <2>10. \A x \in net' : x.type = "append" => x \in net \/ Sent(x.req, H)'
    BY <1>3
  <2>11. \A x \in net' : x.type = "append reply" => x \in net \/ ReplyFits(x)'
    BY <1>3
  <2>. QED
    BY <2>9, <2>10, <2>11, StillStep
<1>. QED
  BY <1>5, <1>6, <1>7, <1>8 DEF Hears

\* A node that merges a request into its log gets a log of the history; it
\* keeps what it had in common with the leader of the request, and every entry
\* of the request's term.
LEMMA AcceptFacts ==
  ASSUME NEW H \in SUBSET Seq(LogEntry), History(H), LogTypes, NEW q \in Nodes, NEW req,
         ProperRequest(req), Sent(req, H), PrevFound(node[q].log, req)
  PROVE  LET new == Merged(node[q].log, req.entries)
         IN  /\ new \in H
             /\ \A n \in Nodes : Leads(n, req.term) =>
                  /\ Agrees(node[n].log, new, Matched(req))
                  /\ \A k \in Nat : Agrees(node[n].log, node[q].log, k)
                                      => Agrees(node[n].log, new, k)
             /\ \A i \in 1 .. Len(node[q].log) : node[q].log[i].term = req.term
                  => i <= Len(new) /\ new[i] = node[q].log[i]
<1>1. PICK log : log = node[q].log
  OBVIOUS
<1>2. PICK new : new = Merged(log, req.entries)
  OBVIOUS
<1>3. PICK a \in H : Carries(req, a) /\ Source(a, req.term, H)
  BY DEF Sent
<1>4. log \in H /\ log \in Seq(LogEntry) /\ Positioned(log) /\ Matches(log, a)
  BY <1>1, ProperShape DEF LogTypes, History
<1>5. /\ new = log \/ new = a
      /\ Matched(req) <= Len(a) /\ Agrees(a, new, Matched(req))
      /\ \A b \in Seq(LogEntry) : \A k \in Nat :
           Agrees(b, log, k) /\ Agrees(b, a, Len(a)) => Agrees(b, new, k)
      /\ \A i \in 1 .. Len(log) :
           (\A j \in 1 .. Len(a) : j <= i => log[j] = a[j]) => i <= Len(new) /\ new[i] = log[i]
  BY <1>1, <1>2, <1>3, <1>4, MergeAgrees
<1>6. Matched(req) \in Nat /\ Len(a) \in Nat
  BY <1>3, CarriesMatched, LenProperties
<1>7. ASSUME NEW n \in Nodes, Leads(n, req.term)
      PROVE  /\ Agrees(node[n].log, new, Matched(req))
             /\ \A k \in Nat : Agrees(node[n].log, log, k) => Agrees(node[n].log, new, k)
  <2>1. Agrees(node[n].log, a, Len(a)) /\ node[n].log \in Seq(LogEntry) /\ Len(node[n].log) \in Nat
    BY <1>3, <1>7, LenProperties DEF Source, History
  <2>2. Agrees(node[n].log, new, Matched(req))
    BY <1>5, <1>6, <2>1 DEF Agrees
  <2>. QED
    BY <1>5, <2>1, <2>2
<1>8. ASSUME NEW i \in 1 .. Len(log), log[i].term = req.term
      PROVE  i <= Len(new) /\ new[i] = log[i]
  <2>1. \A j \in 1 .. Len(a) : j <= i => log[j] = a[j]
    BY <1>3, <1>4, <1>8 DEF Source
  <2>. QED
    BY <1>5, <2>1
<1>9. new \in H
  BY <1>3, <1>4, <1>5
<1>. QED
  BY <1>1, <1>2, <1>7, <1>8, <1>9

\* The request is ignored or refused: no log changes.
LEMMA RefuseReplication ==
  ASSUME NEW H \in SUBSET Seq(LogEntry), Replication(H), Elections, Elections', AllKeep,
         LogTypes, NEW m \in net, m.type = "append", NEW t, NEW y, m.to \in Nodes,
         node' = [node EXCEPT ![m.to] = t], net' = (net \ {m}) \cup {y},
         y.type = "append reply", y.from = m.to, y.to = m.from, y.req = m.req, ~y.resp.success,
         \/ t = node[m.to]
         \/ Follows(node[m.to], t, m.req) /\ t.log = node[m.to].log
  PROVE  Replication(H)'
<1>. DEFINE q == m.to
<1>1. Calm(q, t)
  <2>1. CASE t = node[q]
    BY <2>1, CalmSelf
  <2>2. CASE Follows(node[q], t, m.req) /\ t.log = node[q].log
    <3>1. DOMAIN NoIndexes = {}
      BY DEF NoIndexes
    <3>2. node[q].state # "leader" => DOMAIN node[q].next_index = {} /\ DOMAIN node[q].match_index = {}
      BY DEF Replication, IndexesFit
    <3>. QED
      BY <2>2, <3>1, <3>2 DEF Follows, Calm
  <2>. QED
    BY <2>1, <2>2
<1>2. /\ m.from \in Nodes /\ ProperRequest(m.req) /\ m.req.term \in Nat /\ Sent(m.req, H)
  BY MessageFields DEF LogTypes, ProperRequest, AppendEntriesRequest, Replication, History
<1>3. \A n \in Nodes : node'[n] = IF n = q THEN t ELSE node[n]
  BY DEF Elections, Shapes
<1>4. ReplyFits(y)'
  <2>1. Led(m.req.term) /\ Led(m.req.term)'
    BY <1>2, LedKept DEF Sent
  <2>2. ASSUME Leads(m.from, m.req.term)'
        PROVE  Leads(m.from, m.req.term) /\ node'[m.from].log = node[m.from].log
    <3>1. Calm(m.from, node'[m.from])
      BY <1>1, <1>2, <1>3, CalmSelf
    <3>. QED
      BY <2>1, <2>2, <3>1 DEF Calm, Leads
  <2>3. Leads(m.from, m.req.term) => Matched(m.req) <= Len(node[m.from].log)
    BY <1>2, SentMatched
  <2>. QED
    BY <2>1, <2>2, <2>3 DEF ReplyFits
<1>5. \A x \in net' : x.type = "append" => x \in net
  OBVIOUS
<1>6. \A x \in net' : x.type = "append reply" => x \in net \/ ReplyFits(x)'
  BY <1>4
<1>. HIDE DEF q
<1>. QED
  BY <1>1, <1>5, <1>6, CalmCall DEF q

\* The last index a request speaks of is a natural number.
LEMMA MatchedNat ==
  ASSUME NEW req, ProperRequest(req)
  PROVE  Matched(req) \in Nat
<1>1. req.prev_log_index \in Nat /\ Len(req.entries) \in Nat
  BY LenProperties DEF ProperRequest, AppendEntriesRequest
<1>. QED
  BY <1>1 DEF Matched

\* For the steps whose other facts are not about numbers
LEMMA NotLess == \A i \in Nat : i >= i
  OBVIOUS

\* What a node q holds of a leader's log, it holds after its own log changes to
\* new, if the leader of the term agrees with new wherever it agreed before.
LEMMA AcceptHolds ==
  ASSUME Elections, Elections', AllKeep, NEW q \in Nodes, NEW new, NEW term \in Nat,
         node'[q].log = new, node'[q].current_term = term, term >= node[q].current_term,
         NEW n \in Nodes, n # q, NEW p \in Nodes, NEW k \in Nat, node[n].state = "leader",
         \A x \in Nodes : x # q => node'[x] = node[x],
         Leads(n, term) => \A j \in Nat : Agrees(node[n].log, node[q].log, j)
                                            => Agrees(node[n].log, new, j),
         Holds(p, n, k)
  PROVE  Holds(p, n, k)'
<1>1. node[n].current_term \in Nat /\ node[q].current_term \in Nat
  BY DEF Elections, Shapes, Shape
<1>2. CASE p # q
  BY <1>2 DEF Holds
<1>3. CASE p = q
  <2>1. CASE node[n].current_term = term
    <3>1. Leads(n, term) /\ node[q].current_term = term
      BY <1>1, <1>3, <2>1 DEF Leads, Holds
    <3>2. Agrees(node[n].log, new, k)
      BY <1>3, <2>1, <3>1 DEF Holds
    <3>. QED
      BY <1>3, <2>1, <3>2 DEF Holds
  <2>2. CASE node[n].current_term # term
    BY <1>1, <1>3, <2>2 DEF Holds
  <2>. QED
    BY <2>1, <2>2
<1>. QED
  BY <1>2, <1>3

\* The request is accepted: one log changes to another one of the history.
LEMMA AcceptReplication ==
  ASSUME NEW H \in SUBSET Seq(LogEntry), Replication(H), Elections, Elections', AllKeep,
         LogTypes, NEW m \in net, m.type = "append", NEW t, NEW y, m.to \in Nodes,
         node' = [node EXCEPT ![m.to] = t], net' = (net \ {m}) \cup {y},
         y.type = "append reply", y.from = m.to, y.to = m.from, y.req = m.req, y.resp.success,
         Follows(node[m.to], t, m.req), PrevFound(node[m.to].log, m.req),
         t.log = Merged(node[m.to].log, m.req.entries)
  PROVE  Replication(H)'
<1>a. PICK q \in Nodes : q = m.to
  OBVIOUS
<1>b. PICK req : req = m.req
  OBVIOUS
<1>c. PICK new : new = t.log
  OBVIOUS
<1>1. /\ m.from \in Nodes /\ ProperRequest(req) /\ req.term \in Nat /\ Sent(req, H)
  BY <1>b, MessageFields DEF LogTypes, ProperRequest, AppendEntriesRequest, Replication, History
<1>2. /\ \A n \in Nodes : node'[n] = IF n = q THEN t ELSE node[n]
      /\ t.state = "follower" /\ t.current_term = req.term
      /\ req.term >= node[q].current_term
  BY <1>a, <1>b DEF Elections, Shapes, Follows
<1>3. /\ new \in H
      /\ \A n \in Nodes : Leads(n, req.term) =>
           /\ Agrees(node[n].log, new, Matched(req))
           /\ \A k \in Nat : Agrees(node[n].log, node[q].log, k) => Agrees(node[n].log, new, k)
  <2>1. /\ History(H) /\ PrevFound(node[q].log, req)
        /\ new = Merged(node[q].log, req.entries)
    BY <1>a, <1>b, <1>c DEF Replication
  <2>. QED
    BY <1>1, <2>1, AcceptFacts
<1>4. Matched(req) \in Nat /\ \A n \in Nodes : Leads(n, req.term) => Matched(req) <= Len(node[n].log)
  BY <1>1, SentMatched
<1>5. \A n \in Nodes : n # q => node'[n] = node[n]
  BY <1>2
<1>6. node'[q].log = new /\ node'[q].current_term = req.term /\ node'[q].state = "follower"
  BY <1>2, <1>c
<1>7. History(H)'
  <2>1. \A n \in Nodes : node'[n].log \in H
    BY <1>3, <1>5, <1>6 DEF Replication, History
  <2>2. \A n \in Nodes : node'[n].state = "leader" =>
           /\ node'[n].log = node[n].log
           /\ node'[n].current_term = node[n].current_term
           /\ node[n].state = "leader" \/ ~Led(node[n].current_term)
    BY <1>5, <1>6
  <2>3. \A x \in net' : x.type = "append" => x \in net \/ Sent(x.req, H)'
    OBVIOUS
  <2>. QED
    BY <2>1, <2>2, <2>3, HistoryStep DEF Replication
<1>8. ASSUME NEW n \in Nodes, n # q, node[n].state = "leader", NEW p \in Nodes, NEW k \in Nat,
             Holds(p, n, k)
      PROVE  Holds(p, n, k)'
  BY <1>1, <1>2, <1>3, <1>5, <1>6, <1>8, AcceptHolds
<1>9. ASSUME NEW n \in Nodes
      PROVE  IndexesFit(n)'
  <2>1. CASE n = q
    <3>1. DOMAIN t.next_index = {} /\ DOMAIN t.match_index = {}
      <4>1. DOMAIN NoIndexes = {}
        BY DEF NoIndexes
      <4>2. node[q].state # "leader" => DOMAIN node[q].next_index = {} /\ DOMAIN node[q].match_index = {}
        BY DEF Replication, IndexesFit
      <4>. QED
        BY <1>a, <4>1, <4>2 DEF Follows
    <3>. QED
      BY <1>2, <2>1, <3>1 DEF IndexesFit
  <2>2. CASE n # q
    <3>1. IndexesFit(n) /\ node'[n] = node[n] /\ IndexMap(node[n].match_index)
      BY <1>5, <2>2, ProperShape DEF Replication, LogTypes
    <3>2. ASSUME NEW p \in DOMAIN node[n].match_index, NEW k, k = node[n].match_index[p], k > 0
          PROVE  Holds(p, n, k)'
      <4>1. p \in Nodes /\ k \in Nat /\ Holds(p, n, k)
        BY <3>1, <3>2 DEF IndexesFit, IndexMap
      <4>2. node[n].state = "leader"
        BY <3>1, <3>2 DEF IndexesFit
      <4>. QED
        BY <1>8, <2>2, <4>1, <4>2
    <3>3. \A p \in DOMAIN node'[n].match_index : node'[n].match_index[p] > 0 =>
             Holds(p, n, node[n].match_index[p])'
      BY <3>1, <3>2 DEF Holds
    <3>. QED
      BY <3>1, <3>3 DEF IndexesFit
  <2>. QED
    BY <2>1, <2>2
<1>10. ASSUME NEW x \in net, x.type = "append reply"
       PROVE  ReplyFits(x)'
  <2>1. /\ x.to \in Nodes /\ x.from \in Nodes /\ x.req.term \in Nat /\ ReplyFits(x)
    BY <1>10, MessageFields
       DEF LogTypes, ProperRequest, AppendEntriesRequest, Replication
  <2>2. Led(x.req.term)'
    BY <2>1, LedKept DEF ReplyFits
  <2>3. Matched(x.req) \in Nat
    BY <1>10, MessageFields, MatchedNat DEF LogTypes
  <2>4. ASSUME Leads(x.to, x.req.term)'
        PROVE  /\ Matched(x.req) <= Len(node'[x.to].log)
               /\ x.resp.success => Holds(x.from, x.to, Matched(x.req))'
    <3>1. x.to # q /\ node'[x.to] = node[x.to]
      BY <1>5, <1>6, <2>1, <2>4 DEF Leads
    <3>2. Leads(x.to, x.req.term) /\ node[x.to].state = "leader"
      BY <2>4, <3>1 DEF Leads
    <3>3. /\ Matched(x.req) <= Len(node[x.to].log)
          /\ x.resp.success => Holds(x.from, x.to, Matched(x.req))
      BY <2>1, <3>2 DEF ReplyFits
    <3>. QED
      BY <1>8, <2>1, <2>3, <3>1, <3>2, <3>3
  <2>. QED
    BY <2>2, <2>4 DEF ReplyFits
<1>11. ReplyFits(y)'
  <2>1. Led(req.term)'
    BY <1>1, LedKept DEF Sent
  <2>2. ASSUME Leads(m.from, req.term)'
        PROVE  /\ Matched(req) <= Len(node'[m.from].log)
               /\ Holds(q, m.from, Matched(req))'
    <3>1. m.from # q /\ node'[m.from] = node[m.from] /\ Leads(m.from, req.term)
      BY <1>1, <1>5, <1>6, <2>2 DEF Leads
    <3>2. Agrees(node[m.from].log, new, Matched(req))
      BY <1>1, <1>3, <3>1
    <3>3. node'[m.from].current_term = req.term
      BY <3>1 DEF Leads
    <3>4. Agrees(node'[m.from].log, node'[q].log, Matched(req))
      BY <1>6, <3>1, <3>2
    <3>5. node'[q].current_term >= node'[m.from].current_term
      BY <1>1, <1>6, <3>3, NotLess
    <3>6. Holds(q, m.from, Matched(req))'
      BY <3>4, <3>5 DEF Holds
    <3>. QED
      BY <1>1, <1>4, <3>1, <3>6
  <2>. QED
    BY <1>a, <1>b, <2>1, <2>2 DEF ReplyFits
<1>12. ASSUME NEW x \in net', x.type = "append reply"
       PROVE  ReplyFits(x)'
  BY <1>10, <1>11, <1>12
<1>. QED
  BY <1>7, <1>9, <1>12 DEF Replication

\* Matching goes both ways.
LEMMA MatchesBack ==
  ASSUME NEW a \in Seq(LogEntry), NEW b \in Seq(LogEntry), Matches(a, b)
  PROVE  Matches(b, a)
<1>1. Len(a) \in Nat /\ Len(b) \in Nat
  BY LenProperties
<1>. QED
  BY <1>1 DEF Matches

\* The new log is the old one and an entry of the term.
Grown(new, log, term) ==
  /\ new \in Seq(LogEntry)
  /\ Len(new) = Len(log) + 1
  /\ \A j \in 1 .. Len(log) : new[j] = log[j]
  /\ new[Len(log) + 1].term = term

\* The leader's longer log matches every log of the history, for none of them
\* has an entry of its term where the new one is.
LEMMA GrownMatches ==
  ASSUME NEW H \in SUBSET Seq(LogEntry), History(H), NEW n \in Nodes, NEW term, Leads(n, term),
         NEW new, Grown(new, node[n].log, term), NEW b \in H
  PROVE  /\ Matches(new, b) /\ Matches(b, new)
         /\ \A i \in 1 .. Len(b) : Leads(n, b[i].term) => i <= Len(new) /\ new[i].term = b[i].term
<1>. DEFINE log == node[n].log
<1>0. /\ new \in Seq(LogEntry) /\ Len(new) = Len(log) + 1
      /\ \A j \in 1 .. Len(log) : new[j] = log[j]
      /\ new[Len(log) + 1].term = term
  BY DEF Grown
<1>1. log \in H /\ log \in Seq(LogEntry) /\ Len(log) \in Nat /\ b \in Seq(LogEntry) /\ Len(b) \in Nat
  BY LenProperties DEF History
<1>a. log = node[n].log
  OBVIOUS
<1>. HIDE DEF log
<1>2. Matches(log, b)
  BY <1>1 DEF History
<1>3. \A i \in 1 .. Len(b) : Leads(n, b[i].term) => i <= Len(log) /\ log[i].term = b[i].term
  BY <1>a DEF History
<1>4. ASSUME NEW i \in 1 .. Len(new), i <= Len(b), new[i].term = b[i].term
      PROVE  \A j \in 1 .. i : new[j] = b[j]
  <2>1. CASE i <= Len(log)
    <3>1. i \in 1 .. Len(log) /\ log[i].term = b[i].term
      BY <1>0, <1>1, <1>4, <2>1
    <3>2. \A j \in 1 .. i : log[j] = b[j] /\ j \in 1 .. Len(log)
      BY <1>1, <1>2, <1>4, <3>1 DEF Matches
    <3>. QED
      BY <1>0, <3>2
  <2>2. CASE ~(i <= Len(log))
    <3>1. i = Len(log) + 1 /\ i \in 1 .. Len(b)
      BY <1>0, <1>1, <1>4, <2>2
    <3>2. Leads(n, b[i].term)
      BY <1>0, <1>4, <3>1
    <3>3. i <= Len(log)
      BY <1>3, <3>1, <3>2
    <3>. QED
      BY <2>2, <3>3
  <2>. QED
    BY <2>1, <2>2
<1>5. Matches(new, b)
  BY <1>4 DEF Matches
<1>6. \A i \in 1 .. Len(b) : Leads(n, b[i].term) => i <= Len(new) /\ new[i].term = b[i].term
  <2>. SUFFICES ASSUME NEW i \in 1 .. Len(b), Leads(n, b[i].term)
                PROVE  i <= Len(new) /\ new[i].term = b[i].term
    OBVIOUS
  <2>1. i <= Len(log) /\ log[i].term = b[i].term
    BY <1>3
  <2>2. i \in 1 .. Len(log) /\ i <= Len(new)
    BY <1>0, <1>1, <2>1
  <2>. QED
    BY <1>0, <2>1, <2>2
<1>. QED
  BY <1>0, <1>1, <1>5, <1>6, MatchesBack

\* A proposal adds one log to the history.
LEMMA ProposeReplication ==
  ASSUME NEW H \in SUBSET Seq(LogEntry), Replication(H), Elections, Elections', AllKeep,
         LogTypes, NEW n \in Nodes, Propose(n)
  PROVE  LogsFit'
<1>a. PICK s : s = node[n]
  OBVIOUS
<1>b. PICK t : t = propose(s)
  OBVIOUS
<1>c. PICK log : log = s.log
  OBVIOUS
<1>d. PICK new : new = t.log
  OBVIOUS
<1>e. PICK term : term = s.current_term
  OBVIOUS
<1>f. PICK G : G = H \cup {new}
  OBVIOUS
<1>1. /\ Proper(s) /\ log \in Seq(LogEntry) /\ Len(log) \in Nat /\ log \in H
      /\ term \in Nat /\ s.node_id = n /\ s.state = "leader" /\ Leads(n, term)
      /\ NextMap(s.next_index) /\ IndexMap(s.match_index)
  BY <1>a, <1>c, <1>e, ProperShape, LenProperties
     DEF LogTypes, Elections, Shapes, Propose, Leads, Replication, History
<1>2. PICK i : i = Len(log) + 1
  OBVIOUS
<1>3. PICK e : e = [term |-> term, index |-> i]
  OBVIOUS
<1>4. /\ new = Append(log, e) /\ e \in LogEntry
      /\ t.state = "leader" /\ t.current_term = term
      /\ t.match_index = Store(s.match_index, n, i)
      /\ t.next_index = Store(s.next_index, n, i + 1)
  BY <1>1, <1>2, <1>3, <1>b, <1>c, <1>d, <1>e, ProposeProper
<1>5. /\ new \in Seq(LogEntry) /\ Len(new) = i /\ i \in Nat /\ i > 0
      /\ \A j \in 1 .. Len(log) : new[j] = log[j]
      /\ new[i] = e /\ e.term = term
  BY <1>1, <1>2, <1>3, <1>4, AppendProperties
<1>6. /\ \A q \in Nodes : node'[q] = IF q = n THEN t ELSE node[q]
      /\ net' = net
  BY <1>a, <1>b DEF Propose, Elections, Shapes
<1>7. G \in SUBSET Seq(LogEntry)
  BY <1>5, <1>f
<1>8. /\ \A q \in Nodes : Leads(q, term) => q = n
      /\ \A q \in Nodes : \A u : Leads(q, u)' <=> Leads(q, u)
  <2>1. \A q \in Nodes : Leads(q, term) => q = n
    BY <1>1 DEF Leads, Elections, ElectionSafety
  <2>2. \A q \in Nodes : node'[q].state = node[q].state /\ node'[q].current_term = node[q].current_term
    BY <1>1, <1>4, <1>6, <1>a, <1>e
  <2>. QED
    BY <2>1, <2>2 DEF Leads
<1>9. ASSUME NEW b \in H
      PROVE  /\ Matches(new, b) /\ Matches(b, new)
             /\ \A j \in 1 .. Len(b) : Leads(n, b[j].term) => j <= Len(new) /\ new[j].term = b[j].term
  <2>1. log = node[n].log /\ History(H)
    BY <1>a, <1>c DEF Replication
  <2>2. Grown(new, node[n].log, term)
    BY <1>2, <1>5, <2>1 DEF Grown
  <2>3. Leads(n, term)
    BY <1>1
  <2>. QED
    BY ONLY n \in Nodes, H \in SUBSET Seq(LogEntry), b \in H, <2>1, <2>2, <2>3, GrownMatches
<1>10. ASSUME NEW b \in G, NEW j \in 1 .. Len(b)
       PROVE  /\ Led(b[j].term)'
              /\ \A q \in Nodes : Leads(q, b[j].term) =>
                   j <= Len(node'[q].log) /\ node'[q].log[j].term = b[j].term
  <2>1. CASE b \in H
    <3>1. b \in Seq(LogEntry)
      BY <2>1
    <3>2. b[j] \in LogEntry
      BY <3>1, ElementOfSeq
    <3>3. b[j].term \in Nat /\ Led(b[j].term)
      BY <2>1, <3>2 DEF Replication, History, LogEntry
    <3>4. ASSUME NEW q \in Nodes, Leads(q, b[j].term)
          PROVE  j <= Len(node'[q].log) /\ node'[q].log[j].term = b[j].term
      <4>1. CASE q = n
        BY <1>6, <1>9, <1>d, <2>1, <3>4, <4>1
      <4>2. CASE q # n
        BY <1>6, <2>1, <3>4, <4>2 DEF Replication, History
      <4>. QED
        BY <4>1, <4>2
    <3>. QED
      BY <3>3, <3>4, LedKept
  <2>2. CASE b = new
    <3>1. CASE j = i
      <4>1. Led(term)'
        BY <1>1, <1>a, <1>e, LeaderLed, LedKept
      <4>2. b[j].term = term /\ j <= Len(new)
        BY <1>5, <2>2, <3>1
      <4>3. node'[n].log = new
        BY <1>6, <1>d
      <4>. QED
        BY <1>8, <2>2, <4>1, <4>2, <4>3
    <3>2. CASE j # i
      <4>1. j \in 1 .. Len(log) /\ b[j] = log[j]
        BY <1>1, <1>2, <1>5, <2>2, <3>2
      <4>2. log[j] \in LogEntry
        BY <1>1, <4>1, ElementOfSeq
      <4>3. log[j].term \in Nat /\ Led(log[j].term)
        BY <1>1, <4>1, <4>2 DEF Replication, History, LogEntry
      <4>4. ASSUME NEW q \in Nodes, Leads(q, log[j].term)
            PROVE  j <= Len(node'[q].log) /\ node'[q].log[j].term = log[j].term
        <5>1. CASE q = n
          BY <1>1, <1>6, <1>9, <1>d, <4>1, <4>4, <5>1
        <5>2. CASE q # n
          <6>1. j <= Len(node[q].log) /\ node[q].log[j].term = log[j].term
            BY <1>1, <4>1, <4>4 DEF Replication, History
          <6>. QED
            BY <1>6, <5>2, <6>1
        <5>. QED
          BY <5>1, <5>2
      <4>. QED
        BY <4>1, <4>3, <4>4, LedKept
    <3>. QED
      BY <3>1, <3>2
  <2>. QED
    BY <1>f, <2>1, <2>2
<1>11. ASSUME NEW a \in H, NEW u, Source(a, u, H)
       PROVE  Source(a, u, G)'
  <2>1. a \in Seq(LogEntry) /\ Len(a) \in Nat
    BY LenProperties
  <2>2. ASSUME Leads(n, u)
        PROVE  Agrees(new, a, Len(a))
    <3>1. Agrees(log, a, Len(a))
      BY <1>11, <1>a, <1>c, <2>2 DEF Source
    <3>2. \A j \in 1 .. Len(a) : j \in 1 .. Len(log)
      BY <1>1, <2>1, <3>1 DEF Agrees
    <3>. QED
      BY <1>1, <1>2, <1>5, <2>1, <3>1, <3>2 DEF Agrees
  <2>3. ASSUME NEW q \in Nodes, Leads(q, u)
        PROVE  Agrees(node'[q].log, a, Len(a))
    <3>1. CASE q = n
      BY <1>6, <1>d, <2>2, <2>3, <3>1
    <3>2. CASE q # n
      BY <1>11, <1>6, <2>3, <3>2 DEF Source
    <3>. QED
      BY <3>1, <3>2
  <2>4. ASSUME NEW b \in G, NEW j \in 1 .. Len(b), b[j].term = u, NEW k \in 1 .. Len(a), k <= j
        PROVE  b[k] = a[k]
    <3>1. CASE b \in H
      BY <1>11, <2>4, <3>1 DEF Source
    <3>2. CASE b = new /\ j = i
      <4>1. Leads(n, u)
        BY <1>1, <1>5, <2>4, <3>2
      <4>. QED
        BY <2>1, <2>2, <3>2, <4>1 DEF Agrees
    <3>3. CASE b = new /\ j # i
      <4>1. j \in 1 .. Len(log) /\ k \in 1 .. Len(log) /\ b[j] = log[j] /\ b[k] = log[k]
        <5>1. j \in 1 .. i /\ j # i /\ k \in Nat /\ 1 <= k
          BY <1>5, <2>1, <2>4, <3>3
        <5>2. j \in 1 .. Len(log) /\ k \in 1 .. Len(log)
          BY <1>1, <1>2, <2>4, <5>1
        <5>. QED
          BY <1>5, <3>3, <5>2
      <4>2. log[j].term = u
        BY <2>4, <4>1
      <4>. QED
        BY <1>1, <1>11, <2>4, <4>1, <4>2 DEF Source
    <3>. QED
      BY <1>f, <3>1, <3>2, <3>3
  <2>. QED
    BY <1>8, <2>3, <2>4 DEF Source
<1>12. History(G)'
  <2>1. \A q \in Nodes : node'[q].log \in G
    BY <1>6, <1>d, <1>f DEF Replication, History
  <2>2. \A a, b \in G : Matches(a, b)
    <3>1. Matches(new, new)
      BY DEF Matches
    <3>. QED
      BY <1>9, <1>f, <3>1 DEF Replication, History
  <2>3. ASSUME NEW m \in net, m.type = "append"
        PROVE  Sent(m.req, G)'
    <3>1. Sent(m.req, H) /\ m.req.term \in Nat
      BY <2>3, MessageFields
         DEF Replication, History, LogTypes, ProperRequest, AppendEntriesRequest
    <3>2. PICK a \in H : Carries(m.req, a) /\ Source(a, m.req.term, H)
      BY <3>1 DEF Sent
    <3>3. Source(a, m.req.term, G)' /\ a \in G
      BY <1>11, <1>f, <3>2
    <3>4. Led(m.req.term)'
      BY <3>1, LedKept DEF Sent
    <3>. QED
      BY <3>2, <3>3, <3>4 DEF Sent
  <2>. QED
    BY <1>6, <1>8, <1>10, <2>1, <2>2, <2>3 DEF History
<1>13. ASSUME NEW q \in Nodes, NEW p \in Nodes, NEW k \in Nat, Holds(p, q, k)
       PROVE  Holds(p, q, k)'
  <2>1. node'[p].current_term = node[p].current_term /\ node'[q].current_term = node[q].current_term
    BY <1>4, <1>6, <1>a, <1>e
  <2>2. ASSUME NEW x \in Nodes
        PROVE  /\ Len(node[x].log) \in Nat /\ Len(node'[x].log) \in Nat
               /\ Len(node'[x].log) >= Len(node[x].log)
               /\ \A j \in 1 .. Len(node[x].log) : node'[x].log[j] = node[x].log[j]
    <3>1. CASE x = n
      BY <1>1, <1>2, <1>5, <1>6, <1>a, <1>c, <1>d, <3>1
    <3>2. CASE x # n
      <4>1. node'[x] = node[x] /\ Len(node[x].log) \in Nat
        BY <1>6, <3>2, ProperShape, LenProperties DEF LogTypes
      <4>. QED
        BY <4>1
    <3>. QED
      BY <3>1, <3>2
  <2>3. ASSUME Agrees(node[q].log, node[p].log, k)
        PROVE  Agrees(node'[q].log, node'[p].log, k)
    <3>1. \A j \in 1 .. k : j \in 1 .. Len(node[q].log) /\ j \in 1 .. Len(node[p].log)
      BY <2>2, <2>3 DEF Agrees
    <3>2. k <= Len(node'[q].log) /\ k <= Len(node'[p].log)
      BY <2>2, <2>3 DEF Agrees
    <3>3. \A j \in 1 .. k : /\ node'[q].log[j] = node[q].log[j]
                            /\ node'[p].log[j] = node[p].log[j]
                            /\ node[q].log[j] = node[p].log[j]
      BY <2>2, <2>3, <3>1 DEF Agrees
    <3>. QED
      BY <3>2, <3>3 DEF Agrees
  <2>. QED
    BY <1>13, <2>1, <2>3 DEF Holds
<1>14. ASSUME NEW q \in Nodes
       PROVE  IndexesFit(q)'
  <2>1. IndexesFit(q) /\ IndexMap(node[q].match_index)
    BY ProperShape DEF Replication, LogTypes
  <2>2. ASSUME NEW p \in DOMAIN node[q].match_index, NEW k, k = node[q].match_index[p]
        PROVE  k \in Nat /\ k <= Len(node[q].log) /\ (k > 0 => Holds(p, q, k)')
    <3>1. p \in Nodes /\ k \in Nat /\ k <= Len(node[q].log) /\ (k > 0 => Holds(p, q, k))
      BY <2>1, <2>2 DEF IndexesFit, IndexMap
    <3>. QED
      BY <1>13, <3>1
  <2>3. CASE q # n
    <3>1. node'[q] = node[q]
      BY <1>6, <2>3
    <3>2. \A p \in DOMAIN node'[q].match_index : node'[q].match_index[p] > 0 =>
             Holds(p, q, node[q].match_index[p])'
      BY <2>2, <3>1 DEF Holds
    <3>. QED
      BY <2>1, <3>1, <3>2 DEF IndexesFit
  <2>4. CASE q = n
    <3>1. node'[n] = t
      BY <1>6
    <3>2. ASSUME NEW p \in DOMAIN t.match_index, NEW k, k = t.match_index[p]
          PROVE  k <= Len(new) /\ (k > 0 => Holds(p, n, k)')
      <4>1. p \in DOMAIN s.match_index \cup {n} /\ k = IF p = n THEN i ELSE s.match_index[p]
        BY <1>4, <3>2 DEF Store
      <4>2. CASE p = n
        <5>1. k = i /\ Agrees(new, new, k)
          BY <1>5, <4>1, <4>2 DEF Agrees
        <5>2. node'[n].current_term = term /\ node'[n].log = new
          BY <1>4, <1>d, <3>1
        <5>3. term >= term
          BY <1>1, NotLess
        <5>. QED
          BY <1>5, <4>2, <5>1, <5>2, <5>3 DEF Holds
      <4>3. CASE p # n
        <5>1. k \in Nat /\ k <= Len(log) /\ (k > 0 => Holds(p, n, k)')
          BY <1>a, <1>c, <2>2, <2>4, <4>1, <4>3
        <5>. QED
          BY <1>1, <1>2, <1>5, <5>1
      <4>. QED
        BY <4>2, <4>3
    <3>3. \A p \in DOMAIN t.next_index : t.next_index[p] \in 1 .. Len(new) + 1
      <4>1. \A p \in DOMAIN s.next_index : s.next_index[p] \in 1 .. Len(log) + 1
        BY <1>a, <1>c, <2>1, <2>4 DEF IndexesFit
      <4>2. \A p \in DOMAIN t.next_index :
              /\ p \in DOMAIN s.next_index \cup {n}
              /\ t.next_index[p] = IF p = n THEN i + 1 ELSE s.next_index[p]
        BY <1>4 DEF Store
      <4>. QED
        BY <1>1, <1>2, <1>5, <4>1, <4>2
    <3>4. \A p \in DOMAIN node'[n].match_index : node'[n].match_index[p] > 0 =>
             Holds(p, n, node[n].match_index[p])'
      BY <3>1, <3>2 DEF Holds
    <3>. QED
      BY <1>4, <1>d, <2>4, <3>1, <3>2, <3>3, <3>4 DEF IndexesFit
  <2>. QED
    BY <2>3, <2>4
<1>15. ASSUME NEW m \in net, m.type = "append reply"
       PROVE  ReplyFits(m)'
  <2>1. /\ m.to \in Nodes /\ m.from \in Nodes /\ m.req.term \in Nat /\ ReplyFits(m)
        /\ ProperRequest(m.req)
    BY <1>15, MessageFields DEF LogTypes, ProperRequest, AppendEntriesRequest, Replication
  <2>2. Led(m.req.term)'
    BY <2>1, LedKept DEF ReplyFits
  <2>3. PICK k \in Nat : k = Matched(m.req)
    BY <2>1, MatchedNat
  <2>4. ASSUME Leads(m.to, m.req.term)
        PROVE  /\ k <= Len(node'[m.to].log)
               /\ m.resp.success => Holds(m.from, m.to, k)'
    <3>1. k <= Len(node[m.to].log) /\ (m.resp.success => Holds(m.from, m.to, k))
      BY <2>1, <2>3, <2>4 DEF ReplyFits
    <3>2. k <= Len(node'[m.to].log)
      <4>1. CASE m.to = n
        BY <1>1, <1>2, <1>5, <1>6, <1>a, <1>c, <1>d, <3>1, <4>1
      <4>2. CASE m.to # n
        BY <1>6, <2>1, <3>1, <4>2
      <4>. QED
        BY <4>1, <4>2
    <3>. QED
      BY <1>13, <2>1, <3>1, <3>2
  <2>. QED
    BY <1>8, <2>1, <2>2, <2>3, <2>4 DEF ReplyFits
<1>16. Replication(G)'
  BY <1>6, <1>12, <1>14, <1>15 DEF Replication
<1>. QED
  BY <1>7, <1>16 DEF LogsFit

-----------------------------------------------------------------------------
(* All steps *)

\* How handle_append_entries answers the request m.
LEMMA AppendCall ==
  ASSUME Elections, LogTypes, NEW m \in net, HandleAppend(m)
  PROVE  /\ m.type = "append" /\ m.to \in Nodes /\ ProperRequest(m.req)
         /\ \E t, y : /\ node' = [node EXCEPT ![m.to] = t] /\ net' = (net \ {m}) \cup {y}
                      /\ y.type = "append reply" /\ y.from = m.to /\ y.to = m.from
                      /\ y.req = m.req /\ Answers(node[m.to], t, m.req, y.resp)
<1>1. PICK r : r = handle_append_entries(node[m.to], m.req)
  OBVIOUS
<1>2. PICK y : y = AppendReply(m, r.resp)
  OBVIOUS
<1>3. m.type = "append" /\ m.to \in Nodes /\ ProperRequest(m.req)
  BY MessageFields DEF LogTypes, HandleAppend
<1>4. Answers(node[m.to], r.node, m.req, r.resp)
  BY <1>1, <1>3, AppendProper DEF LogTypes
<1>5. node' = [node EXCEPT ![m.to] = r.node] /\ net' = (net \ {m}) \cup {y}
  BY <1>1, <1>2 DEF HandleAppend, Reply
<1>6. /\ y.type = "append reply" /\ y.from = m.to /\ y.to = m.from
      /\ y.req = m.req /\ y.resp = r.resp
  BY <1>2 DEF AppendReply
<1>. QED
  BY <1>3, <1>4, <1>5, <1>6

\* At the start the only log is the empty one.
LEMMA ReplicationInit ==
  ASSUME Init
  PROVE  LogsFit
<1>1. PICK H : H = {<<>>}
  OBVIOUS
<1>2. H \in SUBSET Seq(LogEntry) /\ \A a \in H : Len(a) = 0
  BY <1>1
<1>3. ASSUME NEW n \in Nodes
      PROVE  node[n].log \in H /\ node[n].next_index = NoIndexes /\ node[n].match_index = NoIndexes
  BY <1>1 DEF Init, New
<1>4. History(H)
  BY <1>2, <1>3 DEF History, Init, Matches
<1>5. DOMAIN NoIndexes = {}
  BY DEF NoIndexes
<1>6. Replication(H)
  BY <1>3, <1>4, <1>5 DEF Replication, IndexesFit, Init
<1>. QED
  BY <1>2, <1>6 DEF LogsFit

\* Every step leaves or extends the history.
LEMMA ReplicationNext ==
  ASSUME LogsFit, Elections, LogTypes, [Next]_vars
  PROVE  LogsFit'
<1>1. Elections' /\ AllKeep
  BY ElectionsNext
<1>2. PICK H \in SUBSET Seq(LogEntry) : Replication(H)
  BY DEF LogsFit
<1>3. ASSUME Replication(H)'
      PROVE  LogsFit'
  BY <1>3 DEF LogsFit
<1>4. CASE \/ UNCHANGED vars
           \/ \E n, p \in Nodes : RequestVote(n, p)
           \/ \E m \in net : StepDown(m) \/ Lose(m)
  BY <1>1, <1>2, <1>3, <1>4, OtherReplication
<1>5. CASE \E n \in Nodes : Timeout(n)
  BY <1>1, <1>2, <1>3, <1>5, TimeoutReplication
<1>6. CASE \E m \in net : HandleVoteRequest(m)
  BY <1>1, <1>2, <1>3, <1>6, VoteReplication
<1>7. CASE \E m \in net : CountVote(m)
  BY <1>1, <1>2, <1>3, <1>7, CountReplication
<1>8. CASE \E n \in Nodes : Propose(n)
  BY <1>1, <1>2, <1>8, ProposeReplication
<1>9. CASE \E n, p \in Nodes : SendAppend(n, p)
  BY <1>1, <1>2, <1>3, <1>9, SendReplication
<1>10. CASE \E m \in net : HandleAppendReply(m)
  BY <1>1, <1>2, <1>3, <1>10, ReplyReplication
<1>11. ASSUME NEW m \in net, HandleAppend(m)
       PROVE  LogsFit'
  <2>1. m.type = "append" /\ m.to \in Nodes /\ ProperRequest(m.req)
    BY <1>11, AppendCall
  <2>2. PICK t, y : /\ node' = [node EXCEPT ![m.to] = t] /\ net' = (net \ {m}) \cup {y}
                    /\ y.type = "append reply" /\ y.from = m.to /\ y.to = m.from
                    /\ y.req = m.req /\ Answers(node[m.to], t, m.req, y.resp)
    BY <1>11, AppendCall
  <2>3. CASE /\ ~y.resp.success
             /\ \/ t = node[m.to]
                \/ Follows(node[m.to], t, m.req) /\ t.log = node[m.to].log
    BY <1>1, <1>2, <1>3, <2>1, <2>2, <2>3, RefuseReplication
  <2>4. CASE /\ y.resp.success /\ Follows(node[m.to], t, m.req)
             /\ PrevFound(node[m.to].log, m.req)
             /\ t.log = Merged(node[m.to].log, m.req.entries)
    BY <1>1, <1>2, <1>3, <2>1, <2>2, <2>4, AcceptReplication
  <2>. QED
    BY <2>2, <2>3, <2>4 DEF Answers
<1>. QED
  BY <1>4, <1>5, <1>6, <1>7, <1>8, <1>9, <1>10, <1>11 DEF Next

\* How a log changes: a leader's grows at its end, and a node that accepts a
\* request follows and merges the request's entries.
LEMMA LogChange ==
  ASSUME Elections, LogTypes, [Next]_vars, NEW n \in Nodes
  PROVE  \/ node'[n].log = node[n].log
         \/ node'[n].log = propose(node[n]).log
         \/ \E m \in net : /\ m.type = "append" /\ ProperRequest(m.req)
                           /\ Follows(node[n], node'[n], m.req)
                           /\ PrevFound(node[n].log, m.req)
                           /\ node'[n].log = Merged(node[n].log, m.req.entries)
<1>0. /\ \A q \in Nodes : Proper(node[q]) /\ Shape(node[q]) /\ node[q].current_term \in Nat
      /\ \A m \in net : ProperMessage(m)
      /\ DOMAIN node = Nodes
  BY ProperShape DEF LogTypes, Elections, Shapes
<1>1. ASSUME NEW q \in Nodes, NEW t, node' = [node EXCEPT ![q] = t], t.log = node[q].log
      PROVE  node'[n].log = node[n].log
  BY <1>0, <1>1
<1>2. CASE UNCHANGED vars
  BY <1>2 DEF vars
<1>3. CASE \E q \in Nodes : Timeout(q)
  <2>1. PICK q \in Nodes : Timeout(q)
    BY <1>3
  <2>2. become_candidate(node[q]).log = node[q].log
    BY <1>0, <2>1, TermCallsProper
  <2>. QED
    BY <1>1, <2>1, <2>2 DEF Timeout
<1>4. CASE \/ \E q, p \in Nodes : RequestVote(q, p)
           \/ \E m \in net : Lose(m)
  BY <1>4 DEF RequestVote, Lose
<1>5. ASSUME NEW m \in net, HandleVoteRequest(m)
      PROVE  node'[n].log = node[n].log
  <2>1. m.type = "vote" /\ m.to \in Nodes /\ m.from \in Nodes /\ m.term \in Nat
    BY <1>0, <1>5, MessageFields DEF HandleVoteRequest
  <2>2. PICK s : s = IF m.term > node[m.to].current_term
                     THEN become_follower(node[m.to], m.term) ELSE node[m.to]
    OBVIOUS
  <2>3. Proper(s) /\ s.log = node[m.to].log
    BY <1>0, <2>1, <2>2, TermCallsProper
  <2>4. vote_for(s, m.from, m.term).log = s.log
    BY <2>1, <2>3, TermCallsProper
  <2>5. \/ node' = [node EXCEPT ![m.to] = vote_for(s, m.from, m.term)]
        \/ node' = [node EXCEPT ![m.to] = s]
    BY <1>5, <2>2 DEF HandleVoteRequest
  <2>. QED
    BY <1>1, <2>1, <2>3, <2>4, <2>5
<1>6. ASSUME NEW m \in net, CountVote(m)
      PROVE  node'[n].log = node[n].log
  <2>1. m.to \in Nodes
    BY <1>0, MessageFields
  <2>2. PICK s : s = [node[m.to] EXCEPT !.voted_count = @ + 1]
    OBVIOUS
  <2>3. s.log = node[m.to].log /\ become_leader(s).log = node[m.to].log
    BY <1>0, <2>1, <2>2, CountProper
  <2>4. \/ node' = [node EXCEPT ![m.to] = become_leader(s)]
        \/ node' = [node EXCEPT ![m.to] = s]
    BY <1>6, <2>2 DEF CountVote
  <2>. QED
    BY <1>1, <2>1, <2>3, <2>4
<1>7. ASSUME NEW m \in net, StepDown(m)
      PROVE  node'[n].log = node[n].log
  <2>1. m.to \in Nodes /\ m.term \in Nat
    BY <1>0, <1>7, MessageFields DEF StepDown
  <2>2. become_follower(node[m.to], m.term).log = node[m.to].log
    BY <1>0, <2>1, TermCallsProper
  <2>. QED
    BY <1>1, <1>7, <2>1, <2>2 DEF StepDown
<1>8. ASSUME NEW q \in Nodes, Propose(q)
      PROVE  node'[n].log = node[n].log \/ node'[n].log = propose(node[n]).log
  BY <1>0, <1>8 DEF Propose
<1>9. ASSUME NEW q \in Nodes, NEW p \in Nodes, SendAppend(q, p)
      PROVE  node'[n].log = node[n].log
  <2>1. add_peer(node[q], p).log = node[q].log
    BY <1>0, AddPeerProper
  <2>2. node' = [node EXCEPT ![q] = add_peer(node[q], p)] \/ node' = [node EXCEPT ![q] = node[q]]
    BY <1>9 DEF SendAppend
  <2>. QED
    BY <1>1, <2>1, <2>2
<1>10. ASSUME NEW m \in net, HandleAppendReply(m)
       PROVE  node'[n].log = node[n].log
  <2>1. PICK t : t = handle_append_entries_response(node[m.to], m.from, m.req, m.resp)
    OBVIOUS
  <2>2. /\ m.to \in Nodes /\ m.from \in Nodes /\ ProperRequest(m.req)
        /\ m.resp \in AppendEntriesResponse
    BY <1>0, <1>10, MessageFields DEF HandleAppendReply
  <2>3. t.log = node[m.to].log
    BY <1>0, <2>1, <2>2, ResponseProper
  <2>4. node' = [node EXCEPT ![m.to] = t]
    BY <1>0, <1>10, <2>1, <2>2 DEF HandleAppendReply
  <2>. QED
    BY <1>1, <2>2, <2>3, <2>4
<1>11. ASSUME NEW m \in net, HandleAppend(m)
       PROVE  \/ node'[n].log = node[n].log
              \/ /\ m.type = "append" /\ ProperRequest(m.req)
                 /\ Follows(node[n], node'[n], m.req)
                 /\ PrevFound(node[n].log, m.req)
                 /\ node'[n].log = Merged(node[n].log, m.req.entries)
  <2>1. m.type = "append" /\ m.to \in Nodes /\ ProperRequest(m.req)
    BY <1>11, AppendCall
  <2>2. PICK t, y : /\ node' = [node EXCEPT ![m.to] = t]
                    /\ Answers(node[m.to], t, m.req, y.resp)
    BY <1>11, AppendCall
  <2>3. node'[n] = IF n = m.to THEN t ELSE node[n]
    BY <1>0, <2>2
  <2>. QED
    BY <2>1, <2>2, <2>3 DEF Answers
<1>. QED
  BY <1>2, <1>3, <1>4, <1>5, <1>6, <1>7, <1>8, <1>9, <1>10, <1>11 DEF Next

-----------------------------------------------------------------------------
(* The theorems *)

\* There is a history into which the logs, the indexes of the leaders and the
\* messages on their way fit, in every reachable state.
THEOREM LogsFitAlways == Spec => []LogsFit
<1>1. Init => LogsFit
  BY ReplicationInit
<1>2. Elections /\ LogTypes /\ LogsFit /\ [Next]_vars => LogsFit'
  BY ReplicationNext
<1>. QED
  BY <1>1, <1>2, ElectionsAlways, LogTypesAlways, PTL DEF Spec

\* Two logs with an entry of the same index and term agree up to there, however
\* requests are lost, repeated or overtaken.
THEOREM LogMatchingAlways == Spec => []LogMatching
<1>1. LogTypes /\ LogsFit => LogMatching
  <2>. SUFFICES ASSUME LogTypes, LogsFit, NEW n \in Nodes, NEW p \in Nodes,
                       NEW i \in DOMAIN node[n].log \cap DOMAIN node[p].log,
                       node[n].log[i].term = node[p].log[i].term
                PROVE  SubSeq(node[n].log, 1, i) = SubSeq(node[p].log, 1, i)
    BY DEF LogMatching
  <2>1. PICK a, b : a = node[n].log /\ b = node[p].log
    OBVIOUS
  <2>2. a \in Seq(LogEntry) /\ b \in Seq(LogEntry)
    BY <2>1, ProperShape DEF LogTypes
  <2>3. Matches(a, b)
    BY <2>1 DEF LogsFit, Replication, History
  <2>4. i \in Nat /\ i \in 1 .. Len(a) /\ i <= Len(a) /\ i <= Len(b)
    BY <2>1, <2>2, LenProperties
  <2>5. Agrees(a, b, i)
    BY <2>1, <2>3, <2>4 DEF Matches, Agrees
  <2>. QED
    BY <2>1, <2>2, <2>4, <2>5, AgreesIsSame DEF SameUpTo
<1>. QED
  BY <1>1, LogTypesAlways, LogsFitAlways, PTL

\* What a leader takes for replicated on a peer is there, unless the peer has
\* gone on to a later term.
THEOREM MatchIsReplicatedAlways == Spec => []MatchIsReplicated
<1>1. LogTypes /\ LogsFit => MatchIsReplicated
  <2>. SUFFICES ASSUME LogTypes, LogsFit, NEW n \in Nodes, NEW p \in Nodes,
                       node[n].state = "leader", p \in DOMAIN node[n].match_index,
                       node[p].current_term <= node[n].current_term
                PROVE  SameUpTo(node[n].log, node[p].log, node[n].match_index[p])
    BY DEF MatchIsReplicated
  <2>1. PICK a, b, k : a = node[n].log /\ b = node[p].log /\ k = node[n].match_index[p]
    OBVIOUS
  <2>2. /\ a \in Seq(LogEntry) /\ b \in Seq(LogEntry) /\ k \in Nat
        /\ node[n].current_term \in Nat /\ node[p].current_term \in Nat
    BY <2>1, ProperShape DEF LogTypes, IndexMap
  <2>3. IndexesFit(n)
    BY DEF LogsFit, Replication
  <2>4. Agrees(a, b, k)
    <3>1. CASE k = 0
      BY <2>2, <3>1, LenProperties DEF Agrees
    <3>2. CASE k > 0
      <4>1. Holds(p, n, k)
        BY <2>1, <2>3, <3>2 DEF IndexesFit
      <4>2. node[p].current_term = node[n].current_term
        BY <2>2, <4>1 DEF Holds
      <4>. QED
        BY <2>1, <4>1, <4>2 DEF Holds
    <3>. QED
      BY <2>2, <3>1, <3>2
  <2>. QED
    BY <2>1, <2>2, <2>4, AgreesIsSame
<1>. QED
  BY <1>1, LogTypesAlways, LogsFitAlways, PTL

\* propose leaves what was in the log.
LEMMA ProposeKeeps ==
  ASSUME NEW s, Proper(s), NEW new, new = propose(s).log
  PROVE  /\ new \in Seq(LogEntry) /\ Len(new) = Len(s.log) + 1
         /\ \A i \in 1 .. Len(s.log) : new[i] = s.log[i]
<1>1. s.log \in Seq(LogEntry)
  BY ProperShape
<1>2. PICK e \in LogEntry : new = Append(s.log, e)
  BY ProposeProper
<1>. QED
  BY <1>1, <1>2, AppendProperties

\* A leader that stays one never cuts or changes its log.
THEOREM LeaderAppendOnlyAlways == Spec => LeaderAppendOnly
<1>1. ASSUME Elections, LogTypes, LogTypes', [Next]_vars, NEW n \in Nodes,
             node[n].state = "leader", node'[n].state = "leader"
      PROVE  SameUpTo(node[n].log, node'[n].log, Len(node[n].log))
  <2>1. PICK a, b : a = node[n].log /\ b = node'[n].log
    OBVIOUS
  <2>2. /\ a \in Seq(LogEntry) /\ b \in Seq(LogEntry) /\ Proper(node[n])
        /\ Len(a) \in Nat /\ Len(b) \in Nat
    <3>1. Proper(node[n]) /\ Proper(node'[n])
      BY <1>1 DEF LogTypes
    <3>. QED
      BY <2>1, <3>1, ProperShape, LenProperties
  <2>3. b = a \/ b = propose(node[n]).log
    BY <1>1, <2>1, LogChange DEF Follows
  <2>4. Agrees(a, b, Len(a))
    <3>1. CASE b = a
      BY <2>2, <3>1 DEF Agrees
    <3>2. CASE b = propose(node[n]).log
      <4>1. Len(b) = Len(a) + 1 /\ \A i \in 1 .. Len(a) : b[i] = a[i]
        BY <2>1, <2>2, <3>2, ProposeKeeps
      <4>. QED
        BY <2>2, <4>1 DEF Agrees
    <3>. QED
      BY <2>3, <3>1, <3>2
  <2>. QED
    BY <2>1, <2>2, <2>4, AgreesIsSame
<1>2. Elections /\ LogTypes /\ LogTypes' /\ [Next]_vars =>
        \A n \in Nodes : node[n].state = "leader" /\ node'[n].state = "leader"
          => SameUpTo(node[n].log, node'[n].log, Len(node[n].log))
  BY <1>1
<1>. QED
  BY <1>2, ElectionsAlways, LogTypesAlways, PTL DEF Spec, LeaderAppendOnly

\* A request that a longer one of the same term has overtaken cuts nothing off.
THEOREM EntriesOfTermAreKept == Spec => EntriesOfTermKept
<1>1. ASSUME Elections, LogTypes, LogTypes', LogsFit, [Next]_vars, NEW n \in Nodes,
             NEW i \in DOMAIN node[n].log, node[n].log[i].term = node'[n].current_term
      PROVE  i \in DOMAIN node'[n].log /\ node'[n].log[i] = node[n].log[i]
  <2>1. PICK a, b : a = node[n].log /\ b = node'[n].log
    OBVIOUS
  <2>2. /\ a \in Seq(LogEntry) /\ b \in Seq(LogEntry) /\ Proper(node[n])
        /\ Len(a) \in Nat /\ Len(b) \in Nat
        /\ DOMAIN a = 1 .. Len(a) /\ DOMAIN b = 1 .. Len(b)
    <3>1. Proper(node[n]) /\ Proper(node'[n])
      BY <1>1 DEF LogTypes
    <3>. QED
      BY <2>1, <3>1, ProperShape, LenProperties
  <2>3. i \in 1 .. Len(a)
    BY <1>1, <2>1, <2>2
  <2>4. CASE b = a
    BY <1>1, <2>1, <2>4
  <2>5. CASE b = propose(node[n]).log
    <3>1. Len(b) = Len(a) + 1 /\ \A j \in 1 .. Len(a) : b[j] = a[j]
      BY <2>1, <2>2, <2>5, ProposeKeeps
    <3>2. i \in 1 .. Len(b)
      BY <2>2, <2>3, <3>1
    <3>. QED
      BY <2>1, <2>2, <2>3, <3>1, <3>2
  <2>6. CASE \E m \in net : /\ m.type = "append" /\ ProperRequest(m.req)
                            /\ Follows(node[n], node'[n], m.req)
                            /\ PrevFound(node[n].log, m.req)
                            /\ node'[n].log = Merged(node[n].log, m.req.entries)
    <3>1. PICK m \in net : /\ m.type = "append" /\ ProperRequest(m.req)
                           /\ Follows(node[n], node'[n], m.req)
                           /\ PrevFound(node[n].log, m.req)
                           /\ node'[n].log = Merged(node[n].log, m.req.entries)
      BY <2>6
    <3>2. PICK H \in SUBSET Seq(LogEntry) : History(H)
      BY <1>1 DEF LogsFit, Replication
    <3>3. Sent(m.req, H)
      BY <3>1, <3>2 DEF History
    <3>4. node[n].log[i].term = m.req.term
      BY <1>1, <3>1 DEF Follows
    <3>5. i <= Len(b) /\ b[i] = a[i]
      BY <1>1, <2>1, <2>3, <3>1, <3>2, <3>3, <3>4, AcceptFacts
    <3>6. i \in 1 .. Len(b)
      BY <2>2, <2>3, <3>5
    <3>. QED
      BY <2>1, <2>2, <3>5, <3>6
  <2>. QED
    BY <1>1, <2>1, <2>4, <2>5, <2>6, LogChange
<1>2. Elections /\ LogTypes /\ LogTypes' /\ LogsFit /\ [Next]_vars =>
        \A n \in Nodes : \A i \in DOMAIN node[n].log :
          node[n].log[i].term = node'[n].current_term
          => i \in DOMAIN node'[n].log /\ node'[n].log[i] = node[n].log[i]
  BY <1>1
<1>. QED
  BY <1>2, ElectionsAlways, LogTypesAlways, LogsFitAlways, PTL DEF Spec, EntriesOfTermKept
=============================================================================
