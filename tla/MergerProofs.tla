---------------------------- MODULE MergerProofs ---------------------------
(***************************************************************************)
(* The merger of CompactionMerger implements the merge of KWayMerge for    *)
(* any number of runs with any keys.                                       *)
(***************************************************************************)
EXTENDS CompactionMerger, WellFoundedInduction, TLAPS

-----------------------------------------------------------------------------
(* Least elements and the top of the queue *)

\* A non-empty set of keys has a least element.
LEMMA LeastExists ==
  ASSUME NEW S \in SUBSET Nat, S # {}
  PROVE  Least(S) \in S /\ \A k \in S : Least(S) <= k
<1>. DEFINE less == OpToRel(<, Nat)
<1>1. IsWellFoundedOn(less, Nat)
  BY NatLessThanWellFounded
<1>2. PICK m \in S : \A k \in S : ~ (<<k, m>> \in less)
  <2>. HIDE DEF less
  <2>. QED
    BY <1>1, WFMin
<1>3. \A k \in S : ~ (k < m)
  BY <1>2 DEF OpToRel
<1>4. \A k \in S : m <= k
  BY <1>3
<1>. QED
  BY <1>4 DEF Least

\* A non-empty queue has a top: no entry has a smaller key, and none with the
\* same key a smaller run number.
LEMMA TopExists ==
  ASSUME NEW h, DOMAIN h # {}, DOMAIN h \subseteq Runs, \A i \in DOMAIN h : h[i] \in Nat
  PROVE  /\ Top(h) \in DOMAIN h
         /\ \A i \in DOMAIN h : h[Top(h)] <= h[i]
         /\ \A i \in DOMAIN h : h[i] = h[Top(h)] => Top(h) <= i
<1>. DEFINE K == {h[i] : i \in DOMAIN h}
<1>1. K \in SUBSET Nat /\ K # {}
  OBVIOUS
<1>2. Least(K) \in K /\ \A i \in DOMAIN h : Least(K) <= h[i]
  <2>. HIDE DEF K
  <2>1. Least(K) \in K /\ \A k \in K : Least(K) <= k
    BY <1>1, LeastExists
  <2>. QED
    BY <2>1 DEF K
<1>. DEFINE I == {i \in DOMAIN h : h[i] = Least(K)}
<1>3. I \in SUBSET Nat /\ I # {}
  <2>1. I \subseteq Nat
    BY NumRunsAssumption DEF Runs
  <2>2. \E i \in DOMAIN h : h[i] = Least(K)
    BY <1>2
  <2>. QED
    BY <2>1, <2>2
<1>4. Least(I) \in I /\ \A i \in I : Least(I) <= i
  BY <1>3, LeastExists
<1>5. \A i \in DOMAIN h : i \in Nat /\ h[i] \in Nat
  BY NumRunsAssumption DEF Runs
<1>. HIDE DEF K
<1>6. PICK t \in DOMAIN h : h[t] = Least(K) /\ \A i \in I : t <= i
  BY <1>4
<1>7. \A j \in DOMAIN h \ {t} : Before(h, t, j)
  BY <1>2, <1>5, <1>6 DEF Before
<1>8. \A j \in DOMAIN h \ {Top(h)} : Before(h, Top(h), j)
  BY <1>7 DEF Top
<1>9. Top(h) \in DOMAIN h
  BY <1>7 DEF Top
<1>. QED
  BY <1>5, <1>8, <1>9 DEF Before

-----------------------------------------------------------------------------
(* The inductive invariant *)

\* The iterator of run i stands at the least key of the run that is c or more.
At(h, i, c) ==
  /\ i \in DOMAIN h => h[i] >= c /\ \A k \in runs[i] : k >= c => h[i] <= k
  /\ i \notin DOMAIN h => \A k \in runs[i] : k < c

Delivered == {output[n].key : n \in DOMAIN output}

\* Before Add every run stands at the current key or behind it, and exactly
\* the smaller keys were delivered; inside Next some runs have moved past it.
Progress ==
  /\ pc = "loop" /\ valid =>
       /\ \A i \in Runs : At(heap, i, current.key)
       /\ Delivered = {k \in AllKeys : k < current.key}
  /\ pc = "next" =>
       /\ valid
       /\ \A i \in Runs : At(heap, i, current.key)
       /\ Delivered = {k \in AllKeys : k <= current.key}
  /\ pc = "skip" =>
       /\ valid
       /\ \A i \in Runs : At(heap, i, current.key) \/ At(heap, i, current.key + 1)
       /\ Delivered = {k \in AllKeys : k <= current.key}
  /\ ~valid => DOMAIN heap = {} /\ Delivered = AllKeys
  /\ pc = "done" => ~valid

\* While the merger is valid its queue is not empty and the entry it shows is
\* the top of the queue: Next pops the entry just delivered, and its guards
\* against an empty queue never act.
CurrentIsTop ==
  valid /\ pc # "skip" =>
    DOMAIN heap # {} /\ current = [key |-> heap[Top(heap)], run |-> Top(heap)]

MInv == TypeOK /\ CurrentIsTop /\ Progress /\ OutputAscending /\ NewestWins

\* What the types say of keys and runs.
LEMMA Typed ==
  ASSUME TypeOK
  PROVE  /\ \A i \in DOMAIN heap : i \in Runs /\ heap[i] \in Nat
         /\ \A i \in Runs : i \in Nat /\ runs[i] \subseteq Nat
         /\ AllKeys \subseteq Nat
         /\ valid => current.key \in Nat /\ current.run \in Runs
  BY KeysAssumption, NumRunsAssumption DEF TypeOK, Runs, Entry, AllKeys

\* Where the top of a typed, non-empty queue stands.
LEMMA TopOfHeap ==
  ASSUME TypeOK, DOMAIN heap # {}
  PROVE  /\ Top(heap) \in DOMAIN heap /\ Top(heap) \in Runs
         /\ heap[Top(heap)] \in runs[Top(heap)]
         /\ heap[Top(heap)] \in Keys /\ heap[Top(heap)] \in Nat
         /\ \A i \in DOMAIN heap : heap[Top(heap)] <= heap[i]
         /\ \A i \in DOMAIN heap : heap[i] = heap[Top(heap)] => Top(heap) <= i
<1>1. \A i \in DOMAIN heap : heap[i] \in Nat /\ i \in Runs
  BY Typed
<1>2. DOMAIN heap \subseteq Runs
  BY DEF TypeOK
<1>3. /\ Top(heap) \in DOMAIN heap
      /\ \A i \in DOMAIN heap : heap[Top(heap)] <= heap[i]
      /\ \A i \in DOMAIN heap : heap[i] = heap[Top(heap)] => Top(heap) <= i
  BY <1>1, <1>2, TopExists
<1>. QED
  BY <1>1, <1>3 DEF TypeOK

\* Advancing the top, when it stands at the current key, moves that run past
\* the key and leaves the others where they are.
LEMMA AdvanceTop ==
  ASSUME TypeOK, DOMAIN heap # {}, NEW c \in Nat, heap[Top(heap)] = c,
         heap' = Advanced(heap, Top(heap))
  PROVE  /\ DOMAIN heap' \subseteq Runs
         /\ heap' \in [DOMAIN heap' -> Keys]
         /\ \A i \in DOMAIN heap' : heap'[i] \in runs[i]
         /\ At(heap', Top(heap), c + 1)
         /\ \A i \in Runs \ {Top(heap)} : \A d : At(heap, i, d) => At(heap', i, d)
<1>. DEFINE t == Top(heap)
            rest == {k \in runs[t] : k > heap[t]}
<1>1. /\ t \in DOMAIN heap /\ t \in Runs /\ runs[t] \in SUBSET Keys /\ runs[t] \subseteq Nat
      /\ DOMAIN heap \subseteq Runs
      /\ \A i \in DOMAIN heap : heap[i] \in runs[i] /\ heap[i] \in Keys
  BY TopOfHeap, Typed DEF TypeOK
<1>2. CASE rest = {}
  <2>1. heap' = [j \in DOMAIN heap \ {t} |-> heap[j]]
    BY <1>2 DEF Advanced
  <2>2. \A k \in runs[t] : ~ (k > c)
    BY <1>2
  <2>3. \A k \in runs[t] : k < c + 1
    BY <1>1, <2>2
  <2>. QED
    BY <1>1, <2>1, <2>3 DEF At
<1>3. CASE rest # {}
  <2>1. Least(rest) \in rest /\ \A k \in rest : Least(rest) <= k
    <3>. rest \in SUBSET Nat
      BY <1>1
    <3>. HIDE DEF rest
    <3>. QED
      BY <1>3, LeastExists
  <2>2. heap' = [heap EXCEPT ![t] = Least(rest)]
    BY <1>3 DEF Advanced
  <2>3. /\ DOMAIN heap' = DOMAIN heap
        /\ heap'[t] = Least(rest)
        /\ \A i \in DOMAIN heap \ {t} : heap'[i] = heap[i]
    BY <1>1, <2>2
  <2>4. Least(rest) \in runs[t] /\ Least(rest) >= c + 1
        /\ \A k \in runs[t] : k >= c + 1 => Least(rest) <= k
    BY <1>1, <2>1
  <2>5. At(heap', t, c + 1)
    BY <1>1, <2>3, <2>4 DEF At
  <2>6. heap' \in [DOMAIN heap' -> Keys] /\ \A i \in DOMAIN heap' : heap'[i] \in runs[i]
    BY <1>1, <2>2, <2>3, <2>4
  <2>7. \A i \in Runs \ {t} : \A d : At(heap, i, d) => At(heap', i, d)
    BY <2>3 DEF At
  <2>. QED
    BY <1>1, <2>3, <2>5, <2>6, <2>7
<1>. QED
  BY <1>2, <1>3

-----------------------------------------------------------------------------
(* MInv is inductive *)

\* The constructor puts every iterator at the first key of its run.
LEMMA InitMInv == Init => MInv
<1>. SUFFICES ASSUME Init PROVE MInv
  OBVIOUS
<1>1. \A i \in Runs : runs[i] \in SUBSET Nat
  BY KeysAssumption DEF Init
<1>2. ASSUME NEW i \in Runs, runs[i] # {}
      PROVE  Least(runs[i]) \in runs[i] /\ \A k \in runs[i] : Least(runs[i]) <= k
  BY <1>1, <1>2, LeastExists
<1>3. /\ DOMAIN heap = {j \in Runs : runs[j] # {}}
      /\ \A i \in DOMAIN heap : heap[i] = Least(runs[i])
  BY DEF Init
<1>4. /\ DOMAIN heap \subseteq Runs
      /\ heap \in [DOMAIN heap -> Keys]
      /\ \A i \in DOMAIN heap : heap[i] \in runs[i] /\ heap[i] \in Nat
  BY <1>1, <1>2, <1>3 DEF Init
<1>5. /\ output = <<>> /\ pc = "loop" /\ output \in Seq(Entry) /\ DOMAIN output = {}
      /\ Delivered = {}
  BY DEF Init, Delivered
<1>6. CASE DOMAIN heap = {}
  <2>1. valid = FALSE
    BY <1>6 DEF Init
  <2>2. AllKeys = {}
    BY <1>3, <1>6 DEF AllKeys
  <2>3. TypeOK
    BY <1>4, <1>5, <2>1 DEF TypeOK, Init
  <2>. QED
    BY <1>5, <1>6, <2>1, <2>2, <2>3
    DEF MInv, CurrentIsTop, Progress, OutputAscending, NewestWins
<1>7. CASE DOMAIN heap # {}
  <2>1. valid = TRUE /\ current = [key |-> heap[Top(heap)], run |-> Top(heap)]
    BY <1>7 DEF Init
  <2>2. /\ Top(heap) \in DOMAIN heap
        /\ \A i \in DOMAIN heap : heap[Top(heap)] <= heap[i]
    BY <1>4, <1>7, TopExists
  <2>3. current \in Entry
    BY <1>4, <2>1, <2>2 DEF Entry
  <2>4. TypeOK
    BY <1>4, <1>5, <2>1, <2>3 DEF TypeOK, Init
  <2>5. \A i \in Runs : \A k \in runs[i] : k >= current.key
    BY <1>1, <1>2, <1>3, <1>4, <2>1, <2>2
  <2>6. \A i \in Runs : At(heap, i, current.key)
    BY <1>2, <1>3, <1>4, <2>1, <2>2, <2>5 DEF At
  <2>7. {k \in AllKeys : k < current.key} = {}
    BY <1>1, <1>4, <2>1, <2>2, <2>5 DEF AllKeys
  <2>. QED
    BY <1>5, <1>7, <2>1, <2>4, <2>6, <2>7
    DEF MInv, CurrentIsTop, Progress, OutputAscending, NewestWins
<1>. QED
  BY <1>6, <1>7

\* What Add delivers: the least key not delivered yet, from the newest run.
LEMMA AddFacts ==
  ASSUME MInv, pc = "loop", valid
  PROVE  /\ current \in Entry /\ current.key \in runs[current.run]
         /\ current.key \in AllKeys \ Delivered
         /\ \A k \in AllKeys \ Delivered : current.key <= k
         /\ \A i \in Runs : current.key \in runs[i] => current.run <= i
<1>1. TypeOK /\ DOMAIN heap # {} /\ current.key = heap[Top(heap)] /\ current.run = Top(heap)
      /\ (\A i \in Runs : At(heap, i, current.key))
      /\ Delivered = {k \in AllKeys : k < current.key}
      /\ current \in Entry /\ current.key \in Nat /\ AllKeys \subseteq Nat
  BY Typed DEF MInv, CurrentIsTop, Progress, TypeOK
<1>2. current.key \in runs[current.run] /\ current.run \in Runs
  BY <1>1, TopOfHeap
<1>3. ASSUME NEW i \in Runs, current.key \in runs[i]
      PROVE  current.run <= i
  <2>1. i \in DOMAIN heap
    BY <1>1, <1>3 DEF At
  <2>2. heap[i] = current.key
    <3>1. heap[i] <= current.key /\ heap[i] >= current.key /\ heap[i] \in Nat
      BY <1>1, <1>3, <2>1, Typed DEF At
    <3>. QED
      BY <1>1, <3>1
  <2>. QED
    BY <1>1, <2>1, <2>2, TopOfHeap
<1>. QED
  BY <1>1, <1>2, <1>3 DEF AllKeys

\* Handing the current entry to the builder moves no iterator.
LEMMA AddMInv ==
  ASSUME MInv, Add PROVE MInv'
<1>0. /\ TypeOK /\ pc = "loop" /\ valid
      /\ output' = Append(output, current) /\ pc' = "next"
      /\ UNCHANGED <<runs, heap, current, valid>>
  BY DEF MInv, Add
<1>1. /\ current \in Entry /\ current.key \in runs[current.run]
      /\ current.key \in AllKeys \ Delivered
      /\ \A i \in Runs : current.key \in runs[i] => current.run <= i
  BY <1>0, AddFacts
<1>. DEFINE n == Len(output) + 1
<1>2. /\ output \in Seq(Entry) /\ output' \in Seq(Entry)
      /\ DOMAIN output' = DOMAIN output \cup {n} /\ n \notin DOMAIN output
      /\ \A m \in DOMAIN output : output'[m] = output[m] /\ m < n /\ m \in Nat
      /\ output'[n] = current /\ n \in Nat
  BY <1>0, <1>1 DEF TypeOK
<1>. HIDE DEF n
<1>3. \A k \in Delivered : k < current.key
  BY <1>0 DEF MInv, Progress
<1>4. TypeOK'
  BY <1>0, <1>2 DEF TypeOK, Runs
<1>5. CurrentIsTop'
  BY <1>0 DEF MInv, CurrentIsTop
<1>6. Delivered' = Delivered \cup {current.key}
  BY <1>2 DEF Delivered
<1>7. Progress'
  <2>1. \A i \in Runs : At(heap, i, current.key)
    BY <1>0 DEF MInv, Progress
  <2>2. Delivered = {k \in AllKeys : k < current.key} /\ AllKeys \subseteq Nat /\ current.key \in Nat
    BY <1>0, Typed DEF MInv, Progress
  <2>3. Delivered' = {k \in AllKeys : k <= current.key}
    <3>. DEFINE c == current.key
    <3>1. c \in AllKeys /\ c \in Nat /\ AllKeys \subseteq Nat
      BY <1>1, <2>2
    <3>2. {k \in AllKeys : k < c} \cup {c} = {k \in AllKeys : k <= c}
      <4>. HIDE DEF c
      <4>1. ASSUME NEW k \in Nat PROVE k <= c <=> k < c \/ k = c
        BY <3>1
      <4>. QED
        BY <3>1, <4>1
    <3>. QED
      BY <1>6, <2>2, <3>2
  <2>4. AllKeys' = AllKeys /\ \A i \in Runs : At(heap', i, current.key)
    BY <1>0, <2>1 DEF AllKeys
  <2>5. \A i \in Runs : At(heap, i, current.key)'
    BY <1>0, <2>1 DEF At, Runs
  <2>. QED
    BY <1>0, <2>3, <2>4, <2>5 DEF Progress, Runs
<1>8. OutputAscending'
  BY <1>2, <1>3 DEF MInv, OutputAscending, Delivered
<1>9. NewestWins'
  BY <1>0, <1>1, <1>2 DEF MInv, NewestWins, Runs
<1>. QED
  BY <1>4, <1>5, <1>7, <1>8, <1>9 DEF MInv

\* PopTop and SkipDuplicate: the top moves past the current key.
LEMMA AdvanceMInv ==
  ASSUME MInv, PopTop \/ SkipDuplicate PROVE MInv'
<1>1. /\ TypeOK /\ valid /\ DOMAIN heap # {} /\ heap[Top(heap)] = current.key
      /\ current.key \in Nat
      /\ heap' = Advanced(heap, Top(heap))
      /\ pc' = "skip"
      /\ UNCHANGED <<runs, current, valid, output>>
      /\ Delivered = {k \in AllKeys : k <= current.key}
      /\ \A i \in Runs : At(heap, i, current.key) \/ At(heap, i, current.key + 1)
  <2>1. CASE PopTop
    BY <2>1, Typed DEF MInv, PopTop, CurrentIsTop, Progress
  <2>2. CASE SkipDuplicate
    BY <2>2, Typed DEF MInv, SkipDuplicate, Duplicate, Progress
  <2>. QED
    BY <2>1, <2>2
<1>2. /\ DOMAIN heap' \subseteq Runs
      /\ heap' \in [DOMAIN heap' -> Keys]
      /\ \A i \in DOMAIN heap' : heap'[i] \in runs[i]
      /\ At(heap', Top(heap), current.key + 1)
      /\ \A i \in Runs \ {Top(heap)} : \A d : At(heap, i, d) => At(heap', i, d)
  BY <1>1, AdvanceTop
<1>3. TypeOK'
  BY <1>1, <1>2 DEF TypeOK, Runs
<1>4. \A i \in Runs : At(heap', i, current.key) \/ At(heap', i, current.key + 1)
  BY <1>1, <1>2
<1>5. Progress'
  <2>1. \A i \in Runs : (At(heap, i, current.key) \/ At(heap, i, current.key + 1))'
    BY <1>1, <1>4 DEF At, Runs
  <2>2. (Delivered = {k \in AllKeys : k <= current.key})'
    BY <1>1 DEF Delivered, AllKeys, Runs
  <2>. QED
    BY <1>1, <2>1, <2>2 DEF Progress, Runs
<1>6. CurrentIsTop' /\ OutputAscending' /\ NewestWins'
  BY <1>1 DEF MInv, CurrentIsTop, OutputAscending, NewestWins, Runs
<1>. QED
  BY <1>3, <1>5, <1>6 DEF MInv

\* When no iterator is left at the old key, the new top is the next key.
LEMMA SkipEndMInv ==
  ASSUME MInv, SkipEnd PROVE MInv'
<1>. DEFINE c == current.key
<1>1. /\ TypeOK /\ valid /\ c \in Nat
      /\ pc' = "loop"
      /\ UNCHANGED <<runs, heap, output>>
      /\ Delivered = {k \in AllKeys : k <= c}
      /\ \A i \in Runs : At(heap, i, c) \/ At(heap, i, c + 1)
      /\ DOMAIN heap # {} => heap[Top(heap)] # c
  BY Typed DEF MInv, SkipEnd, Duplicate, Progress
<1>2. /\ \A i \in DOMAIN heap : i \in Runs /\ heap[i] \in Nat
      /\ \A i \in Runs : runs[i] \subseteq Nat
      /\ AllKeys \subseteq Nat
  BY <1>1, Typed
<1>3. OutputAscending' /\ NewestWins' /\ Delivered' = Delivered /\ AllKeys' = AllKeys
  BY <1>1 DEF MInv, OutputAscending, NewestWins, Delivered, AllKeys, Runs
<1>4. CASE DOMAIN heap = {}
  <2>1. valid' = FALSE /\ current' = current
    BY <1>4 DEF SkipEnd, UpdateCurrent
  <2>2. \A i \in Runs : \A k \in runs[i] : k <= c
    BY <1>1, <1>2, <1>4 DEF At
  <2>3. Delivered = AllKeys
    BY <1>1, <2>2 DEF AllKeys
  <2>4. TypeOK'
    BY <1>1, <2>1 DEF TypeOK, Runs
  <2>5. CurrentIsTop' /\ Progress'
    BY <1>1, <1>3, <1>4, <2>1, <2>3 DEF CurrentIsTop, Progress
  <2>. QED
    BY <1>3, <2>4, <2>5 DEF MInv
<1>5. CASE DOMAIN heap # {}
  <2>. DEFINE d == heap[Top(heap)]
  <2>1. valid' = TRUE /\ current' = [key |-> d, run |-> Top(heap)]
    BY <1>5 DEF SkipEnd, UpdateCurrent
  <2>2. /\ Top(heap) \in DOMAIN heap /\ Top(heap) \in Runs /\ d \in Keys /\ d \in Nat
        /\ d \in runs[Top(heap)]
        /\ \A i \in DOMAIN heap : d <= heap[i]
    BY <1>1, <1>5, TopOfHeap
  <2>3. d > c
    <3>1. d >= c /\ d # c
      BY <1>1, <1>5, <2>2 DEF At
    <3>. QED
      BY <1>1, <2>2, <3>1
  <2>4. \A i \in DOMAIN heap : heap[i] >= c + 1
    BY <1>1, <1>2, <2>2, <2>3
  <2>5. ASSUME NEW i \in Runs, NEW k \in runs[i]
        PROVE  /\ k >= c + 1 => i \in DOMAIN heap /\ heap[i] <= k
               /\ k <= c \/ d <= k
    <3>1. k \in Nat
      BY <1>2
    <3>2. k >= c + 1 => i \in DOMAIN heap /\ heap[i] <= k
      BY <1>1, <3>1 DEF At
    <3>3. k >= c + 1 => d <= k
      BY <1>2, <2>2, <3>1, <3>2
    <3>. QED
      BY <1>1, <3>1, <3>2, <3>3
  <2>6. \A i \in Runs : At(heap, i, d)
    <3>1. ASSUME NEW i \in Runs, NEW k \in runs[i], k >= d
          PROVE  i \in DOMAIN heap /\ heap[i] <= k
      <4>1. k \in Nat
        BY <1>2
      <4>2. k >= c + 1
        BY <1>1, <2>2, <2>3, <3>1, <4>1
      <4>. QED
        BY <2>5, <4>2
    <3>2. ASSUME NEW i \in Runs, i \notin DOMAIN heap, NEW k \in runs[i]
          PROVE  k < d
      <4>1. k \in Nat
        BY <1>2
      <4>. QED
        BY <2>2, <3>1, <3>2, <4>1
    <3>3. \A i \in DOMAIN heap : heap[i] >= d
      BY <1>2, <2>2
    <3>. HIDE DEF d
    <3>. QED
      BY <3>1, <3>2, <3>3 DEF At
  <2>7. Delivered = {k \in AllKeys : k < d}
    <3>1. ASSUME NEW k \in AllKeys
          PROVE  k <= c <=> k < d
      <4>1. PICK i \in Runs : k \in runs[i]
        BY DEF AllKeys
      <4>2. k \in Nat /\ (k <= c \/ d <= k)
        BY <1>2, <2>5, <4>1
      <4>. QED
        BY <1>1, <2>2, <2>3, <4>2
    <3>. QED
      BY <1>1, <3>1
  <2>8. current' \in Entry
    BY <2>1, <2>2 DEF Entry
  <2>9. TypeOK'
    BY <1>1, <2>1, <2>8 DEF TypeOK, Runs
  <2>10. CurrentIsTop'
    BY <1>1, <1>5, <2>1 DEF CurrentIsTop, Top
  <2>11. current'.key = d
    BY <2>1
  <2>12. \A i \in Runs : At(heap, i, current.key)'
    BY <1>1, <2>6, <2>11 DEF At, Runs
  <2>13. (Delivered = {k \in AllKeys : k < current.key})'
    BY <1>3, <2>7, <2>11
  <2>14. Progress'
    BY <1>1, <2>1, <2>12, <2>13 DEF Progress, Runs
  <2>. QED
    BY <1>3, <2>9, <2>10, <2>14 DEF MInv
<1>. QED
  BY <1>4, <1>5

\* Every step keeps the invariant of the merger.
LEMMA NextMInv ==
  ASSUME MInv, [Next]_vars PROVE MInv'
<1>1. CASE Finish
  BY ZenonT(40), <1>1 DEF MInv, Finish, TypeOK, CurrentIsTop, Progress, OutputAscending, NewestWins,
     At, Delivered, AllKeys, Runs, Top
<1>2. CASE UNCHANGED vars
  <2>1. /\ runs' = runs /\ heap' = heap /\ current' = current
        /\ valid' = valid /\ output' = output /\ pc' = pc
    BY <1>2 DEF vars
  <2>2. TypeOK' /\ CurrentIsTop'
    BY <2>1 DEF MInv, TypeOK, CurrentIsTop
  <2>3. Delivered' = Delivered /\ AllKeys' = AllKeys
    BY <2>1 DEF Delivered, AllKeys
  <2>5. Progress'
    BY <2>1, <2>3 DEF MInv, Progress, At
  <2>6. OutputAscending' /\ NewestWins'
    BY <2>1 DEF MInv, OutputAscending, NewestWins
  <2>. QED
    BY <2>2, <2>5, <2>6 DEF MInv
<1>. QED
  BY <1>1, <1>2, AddMInv, AdvanceMInv, SkipEndMInv DEF Next

\* Every reachable state satisfies the inductive invariant: the iterators stand
\* at the least keys not delivered and the builder has all the smaller ones.
THEOREM MergerInvariance == Spec => []MInv
  BY InitMInv, NextMInv, PTL DEF Spec

-----------------------------------------------------------------------------
(* The results *)

\* The builder receives strictly ascending keys from any runs.
THEOREM OutputAscendingAlways == Spec => []OutputAscending
<1>1. MInv => OutputAscending
  BY DEF MInv
<1>. QED
  BY <1>1, MergerInvariance, PTL

\* Every delivered value comes from the newest run that has the key.
THEOREM NewestWinsAlways == Spec => []NewestWins
<1>1. MInv => NewestWins
  BY DEF MInv
<1>. QED
  BY <1>1, MergerInvariance, PTL

\* When the loop ends every key of every run was delivered.
THEOREM NothingLostAlways == Spec => []NothingLost
<1>1. MInv => NothingLost
  BY DEF MInv, Progress, NothingLost, Delivered
<1>. QED
  BY <1>1, MergerInvariance, PTL

\* The queue holds at most one key of each run, a key of that run, and the
\* current entry is an entry of some run, for any number of runs.
THEOREM MergerTypeCorrect == Spec => []TypeOK
<1>1. MInv => TypeOK
  BY DEF MInv
<1>. QED
  BY <1>1, MergerInvariance, PTL

\* Every step of the merger is a delivery of the abstract merge or invisible.
THEOREM MergerRefines == Spec => Merge!Init /\ [][Merge!Deliver]_<<runs, output>>
<1>1. Init => Merge!Init
  BY DEF Init, Merge!Init, Merge!Runs, Runs
<1>2. ASSUME MInv, [Next]_vars
      PROVE  [Merge!Deliver]_<<runs, output>>
  <2>1. CASE Add
    <3>1. /\ current.key \in Merge!Remaining /\ current.run \in Merge!Holders(current.key)
          /\ \A j \in Merge!Remaining : current.key <= j
          /\ \A j \in Merge!Holders(current.key) : current.run <= j
          /\ current = [key |-> current.key, run |-> current.run]
      BY <1>2, <2>1, AddFacts
      DEF Add, Delivered, AllKeys, Runs, Entry, Merge!Remaining, Merge!Holders,
          Merge!Delivered, Merge!AllKeys, Merge!Runs
    <3>. QED
      BY <2>1, <3>1 DEF Add, Merge!Deliver
  <2>2. CASE ~Add
    BY <1>2, <2>2 DEF Next, vars, PopTop, SkipDuplicate, SkipEnd, Finish
  <2>. QED
    BY <2>1, <2>2
<1>. QED
  BY <1>1, <1>2, MergerInvariance, PTL DEF Spec
=============================================================================
