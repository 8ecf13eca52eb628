--------------------------- MODULE MemtableProofs ---------------------------
(***************************************************************************)
(* The skip list that FlushPath uses as its memtable: for any number of    *)
(* levels, any heights and any order of the calls its levels stay sorted,  *)
(* the search finds what the lowest level holds, and it is an ordered map. *)
(***************************************************************************)
EXTENDS FlushPath, FiniteSets, FiniteSetTheorems, SequenceTheorems,
        WellFoundedInduction, TLAPS

USE DEF List!head, List!Nil, List!Levels

-----------------------------------------------------------------------------
(* The inductive invariant *)

\* Node n stands in front of key k.
InFront(n, k) == n = List!head \/ entry[n].key < k

\* The nodes of level i that come behind node n
Behind(n, i) == {m \in List!OnLevel(i) \ {List!head} : InFront(n, entry[m].key)}

OneNodePerKey == \A m, n \in DOMAIN entry : entry[m].key = entry[n].key => m = n

\* The pointer of a node on a level leads to the nearest of the nodes behind it.
LinkedAt(n, i) ==
  LET next == forward[n][i]
  IN  IF Behind(n, i) = {} THEN next = List!Nil
      ELSE next \in Behind(n, i) /\ \A m \in Behind(n, i) : entry[next].key <= entry[m].key
Linked == \A i \in List!Levels : \A n \in List!OnLevel(i) : LinkedAt(n, i)

\* current_level is the height of the tallest node.
Heights ==
  /\ \A n \in DOMAIN entry : Len(forward[n]) <= current_level
  /\ current_level = 1 \/ \E n \in DOMAIN entry : Len(forward[n]) = current_level

MemInv ==
  /\ List!TypeOK
  /\ IsFiniteSet(DOMAIN entry)
  /\ OneNodePerKey
  /\ Linked
  /\ Heights

-----------------------------------------------------------------------------
(* Induction *)

\* A set of numbers that has a member has a least one.
LEMMA LeastNatural ==
  ASSUME NEW S \in SUBSET Nat, S # {}
  PROVE  \E m \in S : \A k \in S : m <= k
<1>. DEFINE less == OpToRel(<, Nat)
<1>1. IsWellFoundedOn(less, Nat)
  BY NatLessThanWellFounded
<1>2. PICK m \in S : \A k \in S : ~ (<<k, m>> \in less)
  <2>. HIDE DEF less
  <2>. QED
    BY <1>1, WFMin
<1>3. \A k \in S : ~ (k < m)
  BY <1>2 DEF OpToRel
<1>. QED
  BY <1>3

\* A property of the numbers up to n that holds of n and passes from each
\* number to the one below holds of all of them: the descent over the levels.
LEMMA DownwardInduction ==
  ASSUME NEW n \in Nat, NEW P, n \in P,
         \A i \in 1 .. n - 1 : i + 1 \in P => i \in P
  PROVE  \A i \in 1 .. n : i \in P
<1>. DEFINE Bad == {d \in 0 .. n : d < n /\ n - d \notin P}
<1>1. SUFFICES Bad = {}
  <2>1. ASSUME NEW i \in 1 .. n, i \notin P, Bad = {}
        PROVE  FALSE
    <3>1. n - i \in 0 .. n /\ n - i < n /\ n - (n - i) = i
      OBVIOUS
    <3>2. n - i \in Bad
      BY <2>1, <3>1
    <3>. QED
      BY <2>1, <3>2
  <2>. QED
    BY <2>1
<1>2. SUFFICES ASSUME Bad # {}
               PROVE  FALSE
  OBVIOUS
<1>3. Bad \subseteq Nat
  OBVIOUS
<1>4. PICK d \in Bad : \A c \in Bad : d <= c
  <2>. HIDE DEF Bad
  <2>. QED
    BY <1>2, <1>3, LeastNatural
<1>5. d # 0
  OBVIOUS
<1>6. d - 1 \notin Bad /\ d - 1 \in 0 .. n /\ d - 1 < n
  BY <1>4, <1>5
<1>7. n - (d - 1) \in P /\ n - d \in 1 .. n - 1 /\ n - (d - 1) = (n - d) + 1
  BY <1>6
<1>8. n - d \in P
  BY <1>7
<1>. QED
  BY <1>8

-----------------------------------------------------------------------------
(* Levels and nodes *)

\* The nodes that are on a level, and their keys
LEMMA Nodes ==
  ASSUME List!TypeOK
  PROVE  /\ \A n \in DOMAIN entry : /\ n # List!head /\ n # List!Nil
                                    /\ n \in List!OnLevel(1)
                                    /\ entry[n].key \in Keys /\ entry[n].key \in Int
                                    /\ entry[n].value \in Values
         /\ \A i \in List!Levels : /\ List!head \in List!OnLevel(i)
                                   /\ List!OnLevel(i) \subseteq DOMAIN entry \cup {List!head}
                                   /\ \A n \in List!OnLevel(i) : i \in DOMAIN forward[n]
         /\ \A i, j \in List!Levels : i <= j => List!OnLevel(j) \subseteq List!OnLevel(i)
         /\ current_level \in List!Levels /\ current_level \in Nat \ {0}
<1>. USE KeysAssumption, LimitAssumption DEF List!TypeOK, List!OnLevel
<1>1. ASSUME NEW n \in DOMAIN entry
      PROVE  /\ n # List!head /\ n # List!Nil
             /\ n \in List!OnLevel(1)
             /\ entry[n].key \in Keys /\ entry[n].key \in Int
             /\ entry[n].value \in Values
  OBVIOUS
<1>2. \A n \in DOMAIN forward : Len(forward[n]) \in Nat /\ DOMAIN forward[n] = 1 .. Len(forward[n])
  OBVIOUS
<1>3. ASSUME NEW i \in List!Levels
      PROVE  /\ List!head \in List!OnLevel(i)
             /\ List!OnLevel(i) \subseteq DOMAIN entry \cup {List!head}
             /\ \A n \in List!OnLevel(i) : i \in DOMAIN forward[n]
  BY <1>2
<1>4. \A i, j \in List!Levels : i <= j => List!OnLevel(j) \subseteq List!OnLevel(i)
  BY <1>2
<1>. QED
  BY <1>1, <1>3, <1>4

\* The pointer of a node leads to a node of the level behind it, or is null.
LEMMA NextBehind ==
  ASSUME List!TypeOK, Linked, NEW i \in List!Levels, NEW n \in List!OnLevel(i)
  PROVE  /\ forward[n][i] # List!Nil =>
              /\ forward[n][i] \in List!OnLevel(i) \ {List!head}
              /\ forward[n][i] \in DOMAIN entry
              /\ InFront(n, entry[forward[n][i]].key)
         /\ \A m \in List!OnLevel(i) \ {List!head} : InFront(n, entry[m].key) =>
              /\ forward[n][i] # List!Nil
              /\ entry[forward[n][i]].key <= entry[m].key
<1>1. LinkedAt(n, i)
  BY DEF Linked
<1>2. Behind(n, i) \subseteq DOMAIN entry
  BY Nodes DEF Behind
<1>3. CASE Behind(n, i) = {}
  BY <1>1, <1>3 DEF LinkedAt, Behind
<1>4. CASE Behind(n, i) # {}
  BY <1>1, <1>2, <1>4, Nodes DEF LinkedAt, Behind
<1>. QED
  BY <1>3, <1>4

-----------------------------------------------------------------------------
(* The search *)

\* Node p is the last of level i in front of key k.
IsPred(p, i, k) ==
  /\ p \in List!OnLevel(i) /\ InFront(p, k)
  /\ \A m \in List!OnLevel(i) \ {List!head} : InFront(p, entry[m].key) => entry[m].key >= k

\* There is only one such node.
LEMMA PredUnique ==
  ASSUME List!TypeOK, OneNodePerKey, NEW i \in List!Levels, NEW k \in Int,
         NEW p, NEW q, IsPred(p, i, k), IsPred(q, i, k)
  PROVE  p = q
<1>1. CASE p = List!head \/ q = List!head
  BY <1>1, Nodes DEF IsPred, InFront
<1>2. CASE p # List!head /\ q # List!head
  <2>1. p \in DOMAIN entry /\ q \in DOMAIN entry
    BY <1>2, Nodes DEF IsPred
  <2>2. entry[p].key = entry[q].key
    BY <1>2, <2>1, Nodes DEF IsPred, InFront
  <2>. QED
    BY <2>1, <2>2 DEF OneNodePerKey
<1>. QED
  BY <1>1, <1>2

\* A node in front of the key is the last one if its pointer does not lead to a
\* smaller key; if it does, the next node is in front of the key too.
LEMMA PredIffNext ==
  ASSUME List!TypeOK, Linked, NEW i \in List!Levels, NEW k \in Int, NEW n \in List!OnLevel(i)
  PROVE  /\ InFront(n, k) /\ ~List!Smaller(forward[n][i], k) => IsPred(n, i, k)
         /\ List!Smaller(forward[n][i], k) =>
              /\ forward[n][i] \in List!OnLevel(i) \ {List!head}
              /\ InFront(forward[n][i], k)
              /\ InFront(n, entry[forward[n][i]].key)
<1>1. \A m \in List!OnLevel(i) \ {List!head} : m \in DOMAIN entry /\ entry[m].key \in Int
  BY Nodes
<1>2. ASSUME InFront(n, k), ~List!Smaller(forward[n][i], k)
      PROVE  IsPred(n, i, k)
  BY <1>1, <1>2, NextBehind, Nodes DEF List!Smaller, IsPred
<1>3. ASSUME List!Smaller(forward[n][i], k)
      PROVE  /\ forward[n][i] \in List!OnLevel(i) \ {List!head}
             /\ InFront(forward[n][i], k)
             /\ InFront(n, entry[forward[n][i]].key)
  BY <1>1, <1>3, NextBehind DEF List!Smaller, InFront
<1>. QED
  BY <1>2, <1>3

\* The walk along a level, from a node in front of the key, ends at the last
\* node in front of it.
LEMMA WalkLands ==
  ASSUME List!TypeOK, OneNodePerKey, Linked,
         NEW i \in List!Levels, NEW k \in Int, NEW n \in List!OnLevel(i), InFront(n, k)
  PROVE  IsPred(List!Walk(n, i, k), i, k)
<1>. DEFINE L == List!OnLevel(i)
            To(m) == forward[m][i]
            Pred == CHOOSE p : IsPred(p, i, k)
            g == [m \in L |-> IF List!Smaller(To(m), k) THEN Pred ELSE m]
<1>1. ASSUME NEW m \in L, List!Smaller(To(m), k)
      PROVE  /\ To(m) \in L \ {List!head} /\ InFront(To(m), k)
             /\ To(m) \in DOMAIN entry
             /\ m # List!head => m \in DOMAIN entry /\ entry[m].key < entry[To(m)].key
  BY <1>1, PredIffNext, Nodes DEF InFront
<1>2. g = [m \in L |-> IF List!Smaller(To(m), k) THEN g[To(m)] ELSE m]
  <2>1. ASSUME NEW m \in L, List!Smaller(To(m), k), ~List!Smaller(To(To(m)), k)
        PROVE  Pred = To(m)
    <3>1. IsPred(To(m), i, k)
      BY <1>1, <2>1, PredIffNext
    <3>2. IsPred(Pred, i, k)
      BY <3>1
    <3>. HIDE DEF Pred
    <3>. QED
      BY <1>1, <2>1, <3>1, <3>2, PredUnique
  <2>2. ASSUME NEW m \in L
        PROVE  g[m] = IF List!Smaller(To(m), k) THEN g[To(m)] ELSE m
    <3>. HIDE DEF Pred, L
    <3>1. CASE List!Smaller(To(m), k)
      <4>1. To(m) \in L
        BY <1>1, <3>1 DEF L
      <4>2. g[m] = Pred
        BY <3>1
      <4>3. g[To(m)] = Pred
        BY <2>1, <3>1, <4>1
      <4>. QED
        BY <3>1, <4>2, <4>3
    <3>2. CASE ~List!Smaller(To(m), k)
      BY <3>2
    <3>. QED
      BY <3>1, <3>2
  <2>. HIDE DEF g
  <2>3. g = [m \in L |-> g[m]]
    BY DEF g
  <2>. QED
    BY <2>2, <2>3
<1>3. \E h : /\ h = [m \in L |-> IF List!Smaller(To(m), k) THEN h[To(m)] ELSE m]
             /\ List!Walk(n, i, k) = h[n]
  <2>. HIDE DEF g
  <2>. QED
    BY <1>2 DEF List!Walk
<1>4. PICK h : /\ h = [m \in L |-> IF List!Smaller(To(m), k) THEN h[To(m)] ELSE m]
               /\ List!Walk(n, i, k) = h[n]
  BY <1>3
<1>5. \A m \in L : h[m] = IF List!Smaller(To(m), k) THEN h[To(m)] ELSE m
  BY <1>4
<1>. DEFINE Wrong == {m \in L \ {List!head} : InFront(m, k) /\ ~IsPred(h[m], i, k)}
<1>6. Wrong = {}
  <2>. DEFINE Distance == {k - entry[m].key : m \in Wrong}
  <2>1. \A m \in Wrong : m \in DOMAIN entry /\ entry[m].key \in Int /\ entry[m].key < k
    BY Nodes DEF InFront
  <2>2. Distance \in SUBSET Nat
    <3>. HIDE DEF Wrong
    <3>. QED
      BY <2>1
  <2>3. SUFFICES ASSUME Distance # {}
                 PROVE  FALSE
    OBVIOUS
  <2>4. PICK d \in Distance : \A c \in Distance : d <= c
    <3>. HIDE DEF Distance
    <3>. QED
      BY <2>2, <2>3, LeastNatural
  <2>5. PICK m \in Wrong : d = k - entry[m].key
    OBVIOUS
  <2>6. \A q \in Wrong : entry[q].key <= entry[m].key
    <3>1. ASSUME NEW q \in Wrong
          PROVE  d <= k - entry[q].key
      BY <2>4
    <3>. HIDE DEF Wrong, Distance
    <3>. QED
      BY <2>1, <2>5, <3>1
  <2>7. List!Smaller(To(m), k)
    BY <1>5, PredIffNext
  <2>8. To(m) \in Wrong
    BY <1>1, <1>5, <2>7
  <2>9. entry[m].key < entry[To(m)].key
    BY <1>1, <2>7
  <2>. QED
    BY <2>1, <2>6, <2>8, <2>9
<1>7. IsPred(h[n], i, k)
  <2>1. CASE n # List!head
    BY <1>6, <2>1
  <2>2. CASE n = List!head /\ List!Smaller(To(n), k)
    BY <1>1, <1>5, <1>6, <2>2
  <2>3. CASE n = List!head /\ ~List!Smaller(To(n), k)
    BY <1>5, <2>3, PredIffNext
  <2>. QED
    BY <2>1, <2>2, <2>3
<1>. QED
  BY <1>4, <1>7

\* On every level in use the search stops at the last node in front of the key.
LEMMA UpdateLands ==
  ASSUME List!TypeOK, OneNodePerKey, Linked, NEW k \in Int
  PROVE  \A i \in 1 .. current_level : IsPred(List!update(k)[i], i, k)
<1>. DEFINE I == 1 .. current_level + 1
            g == [i \in I |-> IF i > current_level THEN List!head ELSE CHOOSE p : IsPred(p, i, k)]
            Good(h) == {i \in I : i > current_level \/ IsPred(h[i], i, k)}
<1>1. current_level \in Nat \ {0} /\ \A i \in 1 .. current_level : i \in List!Levels
  BY LimitAssumption, Nodes
<1>2. ASSUME NEW h, NEW i \in 1 .. current_level,
             h[i + 1] = IF i + 1 > current_level THEN List!head ELSE h[i + 1],
             i + 1 \in Good(h)
      PROVE  IsPred(List!Walk(h[i + 1], i, k), i, k)
  <2>1. CASE i + 1 > current_level
    BY <1>1, <1>2, <2>1, Nodes, WalkLands DEF InFront
  <2>2. CASE i + 1 \in 1 .. current_level
    <3>1. IsPred(h[i + 1], i + 1, k)
      BY <1>1, <1>2, <2>2
    <3>2. h[i + 1] \in List!OnLevel(i) /\ InFront(h[i + 1], k)
      BY <1>1, <2>2, <3>1, Nodes DEF IsPred
    <3>. QED
      BY <1>1, <3>2, WalkLands
  <2>. QED
    BY <1>1, <2>1, <2>2
<1>3. \A i \in I : i \in Good(g)
  <2>1. ASSUME NEW i \in 1 .. current_level
        PROVE  IsPred(CHOOSE p : IsPred(p, i, k), i, k)
    <3>1. IsPred(List!Walk(List!head, i, k), i, k)
      BY <1>1, Nodes, WalkLands DEF InFront
    <3>. QED
      BY <3>1
  <2>. QED
    BY <1>1, <2>1
<1>4. g = [i \in I |-> IF i > current_level THEN List!head ELSE List!Walk(g[i + 1], i, k)]
  <2>1. ASSUME NEW i \in 1 .. current_level
        PROVE  g[i] = List!Walk(g[i + 1], i, k)
    <3>0. i + 1 \in I /\ i \in I /\ i \in List!Levels
      BY <1>1
    <3>1. g[i + 1] = IF i + 1 > current_level THEN List!head ELSE g[i + 1]
      BY <3>0
    <3>2. i + 1 \in Good(g) /\ i \in Good(g)
      BY <1>3, <3>0
    <3>3. IsPred(List!Walk(g[i + 1], i, k), i, k)
      <4>. HIDE DEF g, Good
      <4>. QED
        BY <1>2, <3>1, <3>2
    <3>4. IsPred(g[i], i, k)
      BY <1>1, <3>2
    <3>. QED
      BY <3>0, <3>3, <3>4, PredUnique
  <2>2. ASSUME NEW i \in I
        PROVE  g[i] = IF i > current_level THEN List!head ELSE List!Walk(g[i + 1], i, k)
    <3>1. CASE i > current_level
      BY <3>1
    <3>2. CASE ~(i > current_level)
      <4>. HIDE DEF g
      <4>1. i \in 1 .. current_level
        BY <1>1, <3>2
      <4>. QED
        BY <2>1, <3>2, <4>1
    <3>. QED
      BY <3>1, <3>2
  <2>. HIDE DEF g
  <2>3. g = [i \in I |-> g[i]]
    BY DEF g
  <2>. QED
    BY <2>2, <2>3
<1>5. \E h : /\ h = [i \in I |-> IF i > current_level THEN List!head
                                  ELSE List!Walk(h[i + 1], i, k)]
             /\ List!update(k) = h
  <2>. HIDE DEF g
  <2>. QED
    BY <1>4 DEF List!update
<1>6. PICK h : /\ h = [i \in I |-> IF i > current_level THEN List!head
                                    ELSE List!Walk(h[i + 1], i, k)]
               /\ List!update(k) = h
  BY <1>5
<1>7. \A i \in I : h[i] = IF i > current_level THEN List!head ELSE List!Walk(h[i + 1], i, k)
  BY <1>6
<1>8. \A i \in 1 .. current_level : i + 1 \in Good(h) => i \in Good(h)
  <2>1. ASSUME NEW i \in 1 .. current_level, i + 1 \in Good(h)
        PROVE  i \in Good(h)
    <3>1. i + 1 \in I /\ i \in I /\ ~(i > current_level)
      BY <1>1
    <3>2. h[i + 1] = IF i + 1 > current_level THEN List!head ELSE h[i + 1]
      BY <1>7, <3>1
    <3>3. h[i] = List!Walk(h[i + 1], i, k)
      BY <1>7, <3>1
    <3>4. IsPred(h[i], i, k)
      <4>. HIDE DEF Good
      <4>. QED
        BY <1>2, <2>1, <3>2, <3>3
    <3>. QED
      BY <3>1, <3>4
  <2>. QED
    BY <2>1
<1>9. current_level + 1 \in Good(h)
  BY <1>1
<1>10. \A i \in I : i \in Good(h)
  <2>. HIDE DEF Good
  <2>1. current_level + 1 \in Nat /\ (current_level + 1) - 1 = current_level
    BY <1>1
  <2>. QED
    BY <1>8, <1>9, <2>1, DownwardInduction
<1>. QED
  BY <1>1, <1>6, <1>10

\* The node in front of key k on level i, as insert takes it
PredAt(i, k) == IF i <= current_level THEN List!update(k)[i] ELSE List!head

\* On a level that is not in use that is the head.
LEMMA PredAtLands ==
  ASSUME List!TypeOK, OneNodePerKey, Linked, Heights, NEW k \in Int, NEW i \in List!Levels
  PROVE  IsPred(PredAt(i, k), i, k)
<1>1. CASE i <= current_level
  <2>1. i \in 1 .. current_level
    BY <1>1, Nodes, LimitAssumption
  <2>. QED
    BY <1>1, <2>1, UpdateLands DEF PredAt
<1>2. CASE ~(i <= current_level)
  <2>1. List!OnLevel(i) \ {List!head} = {}
    <3>1. ASSUME NEW n \in DOMAIN entry, n \in List!OnLevel(i)
          PROVE  FALSE
      BY <1>2, <3>1, LimitAssumption DEF Heights, List!OnLevel, List!TypeOK
    <3>. QED
      BY <3>1, Nodes
  <2>. QED
    BY <1>2, <2>1, Nodes DEF PredAt, IsPred, InFront
<1>. QED
  BY <1>1, <1>2

\* The search hits exactly if the key is there, and then its candidate is the
\* node of the key.
LEMMA SearchHits ==
  ASSUME List!TypeOK, OneNodePerKey, Linked, Heights, NEW k \in Int
  PROVE  /\ List!Hit(k) <=> \E n \in DOMAIN entry : entry[n].key = k
         /\ List!Hit(k) => List!Candidate(k) \in DOMAIN entry /\ entry[List!Candidate(k)].key = k
<1>. DEFINE p == List!update(k)[1]
            c == List!Candidate(k)
<1>1. 1 \in List!Levels /\ 1 \in 1 .. current_level
  BY Nodes, LimitAssumption
<1>2. IsPred(p, 1, k) /\ c = forward[p][1]
  BY <1>1, UpdateLands DEF List!Candidate
<1>. HIDE DEF p, c
<1>3. p \in List!OnLevel(1)
  BY <1>2 DEF IsPred
<1>4. List!Hit(k) => c \in DOMAIN entry /\ entry[c].key = k
  BY <1>1, <1>2, <1>3, NextBehind DEF List!Hit, c
<1>5. ASSUME NEW n \in DOMAIN entry, entry[n].key = k
      PROVE  List!Hit(k)
  <2>1. n \in List!OnLevel(1) \ {List!head} /\ InFront(p, entry[n].key)
    BY <1>2, <1>5, Nodes DEF IsPred
  <2>2. c # List!Nil /\ entry[c].key <= k
    BY <1>1, <1>2, <1>3, <1>5, <2>1, NextBehind
  <2>3. c \in List!OnLevel(1) \ {List!head} /\ c \in DOMAIN entry /\ InFront(p, entry[c].key)
    BY <1>1, <1>2, <1>3, <2>2, NextBehind
  <2>4. entry[c].key >= k
    BY <1>2, <2>3 DEF IsPred
  <2>. QED
    BY <2>2, <2>3, <2>4, Nodes DEF List!Hit, c
<1>. QED
  BY <1>4, <1>5 DEF c

-----------------------------------------------------------------------------
(* The walk over a level *)

\* Induction from the end of a level: what passes from a node to the one in
\* front of it and holds of the last holds of every node of the level.
LEMMA LevelInduction ==
  ASSUME List!TypeOK, IsFiniteSet(DOMAIN entry), Linked, NEW i \in List!Levels, NEW P,
         \A n \in List!OnLevel(i) : forward[n][i] = List!Nil \/ forward[n][i] \in P => n \in P
  PROVE  List!OnLevel(i) \subseteq P
<1>. DEFINE L == List!OnLevel(i)
            Wrong == L \ P
            Counts == {Cardinality(Behind(n, i)) : n \in Wrong}
<1>1. \A n \in L : Behind(n, i) \subseteq DOMAIN entry
  BY Nodes DEF Behind
<1>2. \A n \in L : IsFiniteSet(Behind(n, i)) /\ Cardinality(Behind(n, i)) \in Nat
  BY <1>1, FS_Subset, FS_CardinalityType
<1>3. SUFFICES ASSUME Wrong # {}
               PROVE  FALSE
  OBVIOUS
<1>4. Counts \in SUBSET Nat /\ Counts # {}
  BY <1>2, <1>3
<1>5. PICK c \in Counts : \A d \in Counts : c <= d
  <2>. HIDE DEF Counts
  <2>. QED
    BY <1>4, LeastNatural
<1>6. PICK n \in Wrong : c = Cardinality(Behind(n, i))
  OBVIOUS
<1>. DEFINE next == forward[n][i]
<1>7. next # List!Nil /\ next \in Wrong
  BY <1>6, NextBehind
<1>8. next \in DOMAIN entry /\ InFront(n, entry[next].key)
  BY <1>6, <1>7, NextBehind
<1>9. Behind(next, i) \subseteq Behind(n, i) \ {next}
  <2>1. ASSUME NEW m \in Behind(next, i)
        PROVE  m \in Behind(n, i) /\ m # next
    <3>1. m \in DOMAIN entry
      BY <1>1, <1>7
    <3>. QED
      BY <1>6, <1>7, <1>8, <3>1, Nodes DEF Behind, InFront
  <2>. QED
    BY <2>1
<1>10. next \in Behind(n, i)
  BY <1>7, <1>8, Nodes DEF Behind
<1>11. Cardinality(Behind(next, i)) < Cardinality(Behind(n, i))
  BY <1>2, <1>6, <1>7, <1>9, <1>10, FS_Subset
<1>12. c <= Cardinality(Behind(next, i))
  BY <1>5, <1>7
<1>. QED
  BY <1>2, <1>6, <1>7, <1>11, <1>12

\* s lists the nodes that the pointers of level i lead to from node n on.
IsPath(s, n, i) ==
  /\ s \in Seq(List!OnLevel(i))
  /\ IF n = List!Nil THEN s = <<>> ELSE s # <<>> /\ s[1] = n
  /\ \A j \in 1 .. Len(s) - 1 : s[j + 1] = forward[s[j]][i]
  /\ s # <<>> => forward[s[Len(s)]][i] = List!Nil

\* A node in front of a path makes a path.
LEMMA PathGrows ==
  ASSUME List!TypeOK, NEW i \in List!Levels, NEW n \in List!OnLevel(i),
         NEW s, IsPath(s, forward[n][i], i)
  PROVE  IsPath(<<n>> \o s, n, i)
<1>. DEFINE L == List!OnLevel(i)
            t == <<n>> \o s
<1>1. n # List!Nil
  BY Nodes
<1>2. s \in Seq(L) /\ <<n>> \in Seq(L) /\ Len(s) \in Nat
  BY DEF IsPath
<1>3. /\ t \in Seq(L) /\ Len(t) = Len(s) + 1 /\ t # <<>> /\ t[1] = n
      /\ \A j \in 1 .. Len(s) : t[j + 1] = s[j]
  BY <1>2
<1>. HIDE DEF t
<1>4. s = <<>> <=> forward[n][i] = List!Nil
  BY DEF IsPath
<1>5. s = <<>> <=> Len(s) = 0
  BY <1>2
<1>6. ASSUME NEW j \in 1 .. Len(t) - 1
      PROVE  t[j + 1] = forward[t[j]][i]
  <2>1. CASE j = 1
    BY <1>2, <1>3, <1>4, <1>5, <1>6, <2>1 DEF IsPath
  <2>2. CASE j # 1
    <3>1. j - 1 \in 1 .. Len(s) - 1 /\ (j - 1) + 1 = j
      BY <1>2, <1>3, <1>6, <2>2
    <3>2. s[j] = forward[s[j - 1]][i]
      BY <3>1 DEF IsPath
    <3>3. j \in 1 .. Len(s) /\ j - 1 \in 1 .. Len(s)
      BY <1>2, <1>3, <1>6, <2>2
    <3>4. t[j] = s[j - 1] /\ t[j + 1] = s[j]
      BY <1>3, <3>1, <3>3
    <3>. QED
      BY <3>2, <3>4
  <2>. QED
    BY <2>1, <2>2
<1>7. forward[t[Len(t)]][i] = List!Nil
  <2>1. CASE s = <<>>
    BY <1>2, <1>3, <1>4, <1>5, <2>1
  <2>2. CASE s # <<>>
    BY <1>2, <1>3, <1>5, <2>2 DEF IsPath
  <2>. QED
    BY <2>1, <2>2
<1>. QED
  BY <1>1, <1>3, <1>6, <1>7 DEF IsPath, t

\* Every path has this form.
LEMMA PathShrinks ==
  ASSUME List!TypeOK, NEW i \in List!Levels, NEW n \in List!OnLevel(i),
         NEW t, IsPath(t, n, i)
  PROVE  /\ t = <<n>> \o Tail(t)
         /\ IsPath(Tail(t), forward[n][i], i)
<1>. DEFINE L == List!OnLevel(i)
            s == Tail(t)
<1>1. n # List!Nil
  BY Nodes
<1>2. t \in Seq(L) /\ t # <<>> /\ t[1] = n
  BY <1>1 DEF IsPath
<1>3. /\ s \in Seq(L) /\ Len(s) \in Nat /\ Len(t) = Len(s) + 1
      /\ \A j \in 1 .. Len(s) : s[j] = t[j + 1]
  BY <1>2
<1>4. t = <<n>> \o s
  BY <1>2
<1>. HIDE DEF s
<1>5. s = <<>> <=> Len(s) = 0
  BY <1>3
<1>6. forward[n][i] = List!Nil => s = <<>>
  <2>1. ASSUME forward[n][i] = List!Nil, Len(s) # 0
        PROVE  FALSE
    <3>1. 1 \in 1 .. Len(t) - 1 /\ s[1] = t[1 + 1] /\ s[1] \in L
      BY <1>3, <2>1
    <3>2. t[1 + 1] = forward[t[1]][i]
      BY <3>1 DEF IsPath
    <3>. QED
      BY <1>2, <2>1, <3>1, <3>2, Nodes
  <2>. QED
    BY <1>5, <2>1
<1>7. forward[n][i] # List!Nil => s # <<>> /\ s[1] = forward[n][i]
  <2>1. CASE Len(s) = 0
    BY <1>2, <1>3, <2>1 DEF IsPath
  <2>2. CASE Len(s) # 0
    <3>1. 1 \in 1 .. Len(t) - 1 /\ s[1] = t[1 + 1]
      BY <1>3, <2>2
    <3>2. t[1 + 1] = forward[t[1]][i]
      BY <3>1 DEF IsPath
    <3>. QED
      BY <1>2, <1>5, <2>2, <3>1, <3>2
  <2>. QED
    BY <2>1, <2>2
<1>8. ASSUME NEW j \in 1 .. Len(s) - 1
      PROVE  s[j + 1] = forward[s[j]][i]
  <2>1. j + 1 \in 1 .. Len(t) - 1 /\ s[j] = t[j + 1] /\ s[j + 1] = t[(j + 1) + 1]
    BY <1>3
  <2>. QED
    BY <2>1 DEF IsPath
<1>9. s # <<>> => forward[s[Len(s)]][i] = List!Nil
  BY <1>2, <1>3, <1>5 DEF IsPath
<1>. QED
  BY <1>3, <1>4, <1>6, <1>7, <1>8, <1>9 DEF IsPath, s

\* There is exactly one path from every node.
LEMMA PathExists ==
  ASSUME List!TypeOK, IsFiniteSet(DOMAIN entry), Linked, NEW i \in List!Levels
  PROVE  /\ \A n \in List!OnLevel(i) \cup {List!Nil} : \E s : IsPath(s, n, i)
         /\ \A n \in List!OnLevel(i) \cup {List!Nil} : \A s, t :
              IsPath(s, n, i) /\ IsPath(t, n, i) => s = t
<1>. DEFINE L == List!OnLevel(i)
            Once(n) == /\ \E s : IsPath(s, n, i)
                       /\ \A s, t : IsPath(s, n, i) /\ IsPath(t, n, i) => s = t
            P == {n \in L : Once(n)}
<1>1. Once(List!Nil)
  <2>1. IsPath(<<>>, List!Nil, i)
    BY DEF IsPath
  <2>2. \A s : IsPath(s, List!Nil, i) => s = <<>>
    BY DEF IsPath
  <2>. QED
    BY <2>1, <2>2
<1>2. ASSUME NEW n \in L, Once(forward[n][i])
      PROVE  Once(n)
  <2>1. PICK s : IsPath(s, forward[n][i], i)
    BY <1>2
  <2>2. IsPath(<<n>> \o s, n, i)
    BY <2>1, PathGrows
  <2>3. ASSUME NEW u, NEW v, IsPath(u, n, i), IsPath(v, n, i)
        PROVE  u = v
    <3>1. u = <<n>> \o Tail(u) /\ v = <<n>> \o Tail(v)
      BY <2>3, PathShrinks
    <3>2. IsPath(Tail(u), forward[n][i], i) /\ IsPath(Tail(v), forward[n][i], i)
      BY <2>3, PathShrinks
    <3>3. Tail(u) = Tail(v)
      BY <1>2, <3>2
    <3>. QED
      BY <3>1, <3>3
  <2>. QED
    BY <2>2, <2>3
<1>3. \A n \in L : forward[n][i] = List!Nil \/ forward[n][i] \in P => n \in P
  <2>. HIDE DEF Once
  <2>. QED
    BY <1>1, <1>2
<1>4. L \subseteq P
  <2>. HIDE DEF P
  <2>. QED
    BY <1>3, LevelInduction
<1>5. \A n \in L \cup {List!Nil} : Once(n)
  <2>. HIDE DEF Once
  <2>. QED
    BY <1>1, <1>4
<1>. QED
  BY <1>5

\* Chain returns that path.
LEMMA ChainIsPath ==
  ASSUME List!TypeOK, IsFiniteSet(DOMAIN entry), Linked, NEW i \in List!Levels,
         NEW n \in List!OnLevel(i) \cup {List!Nil}
  PROVE  IsPath(List!Chain(n, i), n, i)
<1>. DEFINE L == List!OnLevel(i)
            Path(m) == CHOOSE s : IsPath(s, m, i)
            g == [m \in L \cup {List!Nil} |-> Path(m)]
<1>1. \A m \in L \cup {List!Nil} : IsPath(Path(m), m, i)
  BY PathExists
<1>2. \A m \in L : m # List!Nil /\ forward[m][i] \in L \cup {List!Nil}
  BY Nodes, NextBehind
<1>3. ASSUME NEW m \in L \cup {List!Nil}
      PROVE  Path(m) = IF m = List!Nil THEN <<>> ELSE <<m>> \o Path(forward[m][i])
  <2>. HIDE DEF Path
  <2>1. CASE m = List!Nil
    BY <1>1, <2>1 DEF IsPath
  <2>2. CASE m # List!Nil
    <3>1. IsPath(<<m>> \o Path(forward[m][i]), m, i)
      BY <1>1, <1>2, <2>2, PathGrows
    <3>. QED
      BY <1>1, <2>2, <3>1, PathExists
  <2>. QED
    BY <2>1, <2>2
<1>. HIDE DEF Path
<1>4. g = [m \in L \cup {List!Nil} |-> IF m = List!Nil THEN <<>> ELSE <<m>> \o g[forward[m][i]]]
  <2>1. ASSUME NEW m \in L \cup {List!Nil}
        PROVE  g[m] = IF m = List!Nil THEN <<>> ELSE <<m>> \o g[forward[m][i]]
    BY <1>2, <1>3
  <2>. HIDE DEF g
  <2>2. g = [m \in L \cup {List!Nil} |-> g[m]]
    BY DEF g
  <2>. QED
    BY <2>1, <2>2
<1>5. \E h : /\ h = [m \in L \cup {List!Nil} |->
                       IF m = List!Nil THEN <<>> ELSE <<m>> \o h[forward[m][i]]]
             /\ List!Chain(n, i) = h[n]
  <2>. HIDE DEF g
  <2>. QED
    BY <1>4 DEF List!Chain
<1>6. PICK h : /\ h = [m \in L \cup {List!Nil} |->
                         IF m = List!Nil THEN <<>> ELSE <<m>> \o h[forward[m][i]]]
               /\ List!Chain(n, i) = h[n]
  BY <1>5
<1>7. \A m \in L \cup {List!Nil} :
        h[m] = IF m = List!Nil THEN <<>> ELSE <<m>> \o h[forward[m][i]]
  BY <1>6
<1>8. IsPath(h[List!Nil], List!Nil, i)
  <2>1. h[List!Nil] = <<>>
    BY <1>7
  <2>. QED
    BY <2>1 DEF IsPath
<1>. DEFINE P == {m \in L : IsPath(h[m], m, i)}
<1>9. ASSUME NEW m \in L, forward[m][i] = List!Nil \/ forward[m][i] \in P
      PROVE  m \in P
  <2>1. IsPath(h[forward[m][i]], forward[m][i], i)
    BY <1>8, <1>9
  <2>2. h[m] = <<m>> \o h[forward[m][i]]
    BY <1>2, <1>7
  <2>. QED
    BY <2>1, <2>2, PathGrows
<1>10. L \subseteq P
  <2>. HIDE DEF P
  <2>. QED
    BY <1>9, LevelInduction
<1>. QED
  BY <1>6, <1>8, <1>10

\* The path from the pointer of a node comes by every node behind that one.
LEMMA PathReaches ==
  ASSUME List!TypeOK, IsFiniteSet(DOMAIN entry), OneNodePerKey, Linked, NEW i \in List!Levels,
         NEW n \in List!OnLevel(i), NEW s, IsPath(s, forward[n][i], i),
         NEW m \in Behind(n, i)
  PROVE  \E j \in 1 .. Len(s) : s[j] = m
<1>. DEFINE L == List!OnLevel(i)
            Reaches(p) == \A t, q : /\ IsPath(t, forward[p][i], i)
                                    /\ q \in Behind(p, i)
                                    => \E j \in 1 .. Len(t) : t[j] = q
            P == {p \in L : Reaches(p)}
<1>1. ASSUME NEW p \in L, forward[p][i] = List!Nil \/ forward[p][i] \in P,
             NEW t, NEW q, IsPath(t, forward[p][i], i), q \in Behind(p, i)
      PROVE  \E j \in 1 .. Len(t) : t[j] = q
  <2>. DEFINE next == forward[p][i]
  <2>1. q \in DOMAIN entry /\ q \in L \ {List!head} /\ InFront(p, entry[q].key)
    BY <1>1, Nodes DEF Behind
  <2>2. /\ next # List!Nil /\ entry[next].key <= entry[q].key
        /\ next \in L /\ next \in DOMAIN entry
    BY <2>1, NextBehind
  <2>3. next \in P
    BY <1>1, <2>2
  <2>4. t = <<next>> \o Tail(t) /\ IsPath(Tail(t), forward[next][i], i)
    BY <1>1, <2>2, PathShrinks
  <2>5. t \in Seq(L) /\ t # <<>> /\ t[1] = next
    BY <1>1, <2>2 DEF IsPath
  <2>. HIDE DEF next
  <2>6. /\ Len(t) \in Nat /\ Len(t) > 0 /\ Len(Tail(t)) = Len(t) - 1
        /\ \A j \in 1 .. Len(Tail(t)) : Tail(t)[j] = t[j + 1]
    BY <2>5
  <2>7. CASE q = next
    BY <2>5, <2>6, <2>7
  <2>8. CASE q # next
    <3>1. entry[next].key # entry[q].key
      BY <2>1, <2>2, <2>8 DEF OneNodePerKey
    <3>2. q \in Behind(next, i)
      BY <2>1, <2>2, <3>1, Nodes DEF Behind, InFront
    <3>3. PICK j \in 1 .. Len(Tail(t)) : Tail(t)[j] = q
      BY <2>3, <2>4, <3>2
    <3>. QED
      BY <2>6, <3>3
  <2>. QED
    BY <2>7, <2>8
<1>2. \A p \in L : forward[p][i] = List!Nil \/ forward[p][i] \in P => p \in P
  BY <1>1
<1>3. L \subseteq P
  <2>. HIDE DEF P
  <2>. QED
    BY <1>2, LevelInduction
<1>. QED
  BY <1>3

\* A level lists its nodes, all of them, in ascending order of their keys.
LEMMA LevelLists ==
  ASSUME List!TypeOK, IsFiniteSet(DOMAIN entry), OneNodePerKey, Linked, NEW i \in List!Levels
  PROVE  LET s == List!Level(i)
         IN  /\ IsPath(s, forward[List!head][i], i)
             /\ s \in Seq(DOMAIN entry)
             /\ \A j \in 1 .. Len(s) - 1 : entry[s[j]].key < entry[s[j + 1]].key
             /\ {s[j] : j \in DOMAIN s} = List!OnLevel(i) \ {List!head}
<1>. DEFINE L == List!OnLevel(i) \ {List!head}
            s == List!Level(i)
<1>1. List!head \in List!OnLevel(i) /\ L \subseteq DOMAIN entry
  BY Nodes
<1>2. forward[List!head][i] \in L \cup {List!Nil}
  BY <1>1, NextBehind
<1>3. IsPath(s, forward[List!head][i], i)
  BY <1>2, ChainIsPath DEF List!Level
<1>. HIDE DEF s
<1>4. s \in Seq(List!OnLevel(i)) /\ Len(s) \in Nat /\ DOMAIN s = 1 .. Len(s)
  BY <1>3 DEF IsPath
<1>5. s = <<>> <=> Len(s) = 0
  BY <1>4
<1>6. \A j \in 1 .. Len(s) : s[j] \in List!OnLevel(i)
  BY <1>4
<1>7. ASSUME NEW j \in 1 .. Len(s) - 1
      PROVE  /\ s[j] \in List!OnLevel(i) /\ s[j + 1] \in List!OnLevel(i)
             /\ s[j + 1] = forward[s[j]][i]
             /\ s[j + 1] # List!Nil
  BY <1>3, <1>4, <1>6, Nodes DEF IsPath
<1>8. ASSUME NEW j \in 1 .. Len(s)
      PROVE  s[j] \in L
  <2>1. CASE j = 1
    BY <1>2, <1>3, <1>4, <1>5, <2>1 DEF IsPath
  <2>2. CASE j # 1
    <3>1. j - 1 \in 1 .. Len(s) - 1 /\ (j - 1) + 1 = j
      BY <1>4, <2>2
    <3>. QED
      BY <1>7, <3>1, NextBehind
  <2>. QED
    BY <2>1, <2>2
<1>9. ASSUME NEW j \in 1 .. Len(s) - 1
      PROVE  entry[s[j]].key < entry[s[j + 1]].key
  <2>1. j \in 1 .. Len(s)
    BY <1>4
  <2>. QED
    BY <1>7, <1>8, <2>1, NextBehind DEF InFront
<1>10. ASSUME NEW m \in L
       PROVE  \E j \in 1 .. Len(s) : s[j] = m
  BY <1>1, <1>3, <1>4, PathReaches DEF InFront, Behind
<1>11. {s[j] : j \in DOMAIN s} = L
  BY <1>4, <1>8, <1>10
<1>12. s \in Seq(DOMAIN entry)
  BY <1>1, <1>4, <1>8
<1>. QED
  BY <1>3, <1>9, <1>11, <1>12 DEF s

-----------------------------------------------------------------------------
(* What the list holds *)

\* The lowest level holds every node.
LEMMA LowestLevel ==
  ASSUME List!TypeOK
  PROVE  1 \in List!Levels /\ List!OnLevel(1) \ {List!head} = DOMAIN entry
<1>1. 1 \in List!Levels
  BY LimitAssumption
<1>. QED
  BY <1>1, Nodes

\* Contents has the key and the value of each node and nothing else.
LEMMA ContentsAre ==
  ASSUME List!TypeOK, IsFiniteSet(DOMAIN entry), OneNodePerKey, Linked
  PROVE  /\ DOMAIN List!Contents = {entry[n].key : n \in DOMAIN entry}
         /\ \A n \in DOMAIN entry : List!Contents[entry[n].key] = entry[n].value
         /\ List!Contents = [k \in DOMAIN List!Contents |-> List!Contents[k]]
<1>. DEFINE s == List!Level(1)
            at(k) == CHOOSE j \in DOMAIN s : entry[s[j]].key = k
            K == {entry[s[j]].key : j \in DOMAIN s}
<1>1. /\ s \in Seq(DOMAIN entry)
      /\ {s[j] : j \in DOMAIN s} = DOMAIN entry
  BY LevelLists, LowestLevel
<1>2. List!Contents = [k \in K |-> entry[s[at(k)]].value]
  BY DEF List!Contents
<1>. HIDE DEF s
<1>3. K = {entry[n].key : n \in DOMAIN entry}
  BY <1>1
<1>4. ASSUME NEW n \in DOMAIN entry
      PROVE  at(entry[n].key) \in DOMAIN s /\ s[at(entry[n].key)] = n
  <2>1. PICK j \in DOMAIN s : s[j] = n
    BY <1>1
  <2>2. at(entry[n].key) \in DOMAIN s /\ entry[s[at(entry[n].key)]].key = entry[n].key
    BY <2>1
  <2>. HIDE DEF at
  <2>3. s[at(entry[n].key)] \in DOMAIN entry
    BY <1>1, <2>2
  <2>. QED
    BY <2>2, <2>3 DEF OneNodePerKey
<1>. HIDE DEF at
<1>. QED
  BY <1>2, <1>3, <1>4

\* The search finds what a walk along the lowest level meets.
LEMMA SearchFindsInState ==
  ASSUME MemInv
  PROVE  List!SearchFinds
<1>. USE DEF MemInv
<1>1. ASSUME NEW k \in Keys
      PROVE  List!search(k) = IF k \in DOMAIN List!Contents THEN List!Contents[k] ELSE Nothing
  <2>1. k \in Int
    BY KeysAssumption
  <2>2. k \in DOMAIN List!Contents <=> List!Hit(k)
    BY <2>1, SearchHits, ContentsAre
  <2>3. List!Hit(k) => List!Contents[k] = entry[List!Candidate(k)].value
    BY <2>1, SearchHits, ContentsAre
  <2>. QED
    BY <2>2, <2>3 DEF List!search
<1>. QED
  BY <1>1 DEF List!SearchFinds

\* The levels are in order and current_level is the height of the tallest node.
LEMMA LevelsInOrderInState ==
  ASSUME MemInv
  PROVE  List!LevelsInOrder
<1>. USE DEF MemInv
<1>1. ASSUME NEW i \in List!Levels
      PROVE  LET s == List!Level(i)
             IN  /\ \A j \in 1 .. Len(s) - 1 : entry[s[j]].key < entry[s[j + 1]].key
                 /\ {s[j] : j \in DOMAIN s} = List!OnLevel(i) \ {List!head}
  BY LevelLists
<1>. DEFINE H == {1} \cup {Len(forward[n]) : n \in DOMAIN entry}
<1>2. current_level \in H /\ \A h \in H : h <= current_level /\ h \in Nat
  BY Nodes, LimitAssumption DEF Heights, List!TypeOK
<1>3. current_level = List!Largest(H)
  <2>. HIDE DEF H
  <2>1. List!Largest(H) \in H /\ \A j \in H : j <= List!Largest(H)
    BY <1>2 DEF List!Largest
  <2>. QED
    BY <1>2, <2>1, Nodes
<1>. QED
  BY <1>1, <1>3 DEF List!LevelsInOrder

-----------------------------------------------------------------------------
(* Every call keeps the invariant *)

\* An empty list is in order.
LEMMA EmptyList ==
  ASSUME List!Init
  PROVE  MemInv
<1>1. /\ DOMAIN entry = {} /\ DOMAIN forward = {List!head} /\ current_level = 1
      /\ forward[List!head] = [i \in List!Levels |-> List!Nil]
  BY DEF List!Init, List!Empty
<1>2. /\ forward[List!head] \in Seq({List!Nil}) /\ Len(forward[List!head]) = max_level
      /\ \A i \in List!Levels : forward[List!head][i] = List!Nil
  BY <1>1, LimitAssumption
<1>3. List!TypeOK
  BY <1>1, <1>2, LimitAssumption DEF List!TypeOK, List!Init, List!Empty
<1>4. \A i \in List!Levels : List!OnLevel(i) \subseteq {List!head}
  BY <1>1 DEF List!OnLevel
<1>5. Linked
  BY <1>2, <1>4 DEF Linked, LinkedAt, Behind
<1>. QED
  BY <1>1, <1>3, <1>5, FS_EmptySet DEF MemInv, OneNodePerKey, Heights

\* clear leaves an empty list.
LEMMA ClearKeeps ==
  ASSUME List!clear
  PROVE  MemInv' /\ DOMAIN entry' = {} /\ DOMAIN forward' = {List!head}
         /\ forward'[List!head][1] = List!Nil
<1>1. /\ DOMAIN entry' = {} /\ DOMAIN forward' = {List!head} /\ current_level' = 1
      /\ forward'[List!head] = [i \in List!Levels |-> List!Nil]
  BY DEF List!clear, List!Empty
<1>2. /\ forward'[List!head] \in Seq({List!Nil}) /\ Len(forward'[List!head]) = max_level
      /\ \A i \in List!Levels : forward'[List!head][i] = List!Nil
  BY <1>1, LimitAssumption
<1>3. List!TypeOK'
  BY <1>1, <1>2, LimitAssumption DEF List!TypeOK, List!clear, List!Empty
<1>4. \A i \in List!Levels : List!OnLevel(i)' \subseteq {List!head}
  BY <1>1 DEF List!OnLevel
<1>5. Linked'
  BY <1>2, <1>4 DEF Linked, LinkedAt, Behind
<1>. QED
  BY <1>1, <1>2, <1>3, <1>5, FS_EmptySet, LimitAssumption DEF MemInv, OneNodePerKey, Heights

\* A new node gets an id that no node has.
LEMMA NewNodeFresh ==
  ASSUME List!TypeOK, IsFiniteSet(DOMAIN entry)
  PROVE  /\ List!NewNode \in Nat \ {0}
         /\ List!NewNode \notin DOMAIN entry /\ List!NewNode \notin DOMAIN forward
<1>. DEFINE C == Cardinality(DOMAIN forward)
<1>1. DOMAIN forward = DOMAIN entry \cup {List!head} /\ List!head \notin DOMAIN entry
  BY DEF List!TypeOK
<1>2. C = Cardinality(DOMAIN entry) + 1 /\ Cardinality(DOMAIN entry) \in Nat
  BY <1>1, FS_AddElement, FS_CardinalityType
<1>3. ~(1 .. C \subseteq DOMAIN entry)
  <2>1. SUFFICES ASSUME 1 .. C \in SUBSET DOMAIN entry
                 PROVE  FALSE
    OBVIOUS
  <2>2. Cardinality(1 .. C) <= Cardinality(DOMAIN entry)
    BY <2>1, FS_Subset
  <2>3. Cardinality(1 .. C) = C
    <3>. HIDE DEF C
    <3>. QED
      BY <1>2, FS_Interval
  <2>. QED
    BY <1>2, <2>2, <2>3
<1>4. \E n \in 1 .. C : n \notin DOMAIN entry
  BY <1>3
<1>5. List!NewNode \in 1 .. C /\ List!NewNode \notin DOMAIN entry
  <2>1. List!Cardinality(DOMAIN forward) = C
    BY DEF List!Cardinality, Cardinality
  <2>. QED
    BY <1>4, <2>1, Zenon DEF List!NewNode
<1>. QED
  BY <1>1, <1>2, <1>5

\* A new value for a key that is there leaves keys and pointers alone.
LEMMA InsertExistingKeeps ==
  ASSUME MemInv, NEW k \in Keys, NEW v \in Values, List!insertExisting(k, v)
  PROVE  /\ MemInv'
         /\ DOMAIN entry' = DOMAIN entry
         /\ \A n \in DOMAIN entry : entry'[n].key = entry[n].key
         /\ \A n \in DOMAIN entry :
              entry'[n].value = IF entry[n].key = k THEN v ELSE entry[n].value
         /\ \E n \in DOMAIN entry : entry[n].key = k
<1>. DEFINE c == List!Candidate(k)
<1>1. k \in Int
  BY KeysAssumption
<1>2. List!TypeOK /\ OneNodePerKey /\ Linked /\ Heights /\ IsFiniteSet(DOMAIN entry)
  BY DEF MemInv
<1>3. c \in DOMAIN entry /\ entry[c].key = k
  BY <1>1, <1>2, SearchHits DEF List!insertExisting
<1>4. entry' = [entry EXCEPT ![c].value = v] /\ forward' = forward /\ current_level' = current_level
  BY DEF List!insertExisting
<1>. HIDE DEF c
<1>5. \A n \in DOMAIN entry : entry[n] \in [key : Keys, value : Values]
  BY <1>2 DEF List!TypeOK
<1>6. /\ DOMAIN entry' = DOMAIN entry
      /\ \A n \in DOMAIN entry : /\ entry'[n] \in [key : Keys, value : Values]
                                /\ entry'[n].key = entry[n].key
                                /\ entry'[n].value = IF n = c THEN v ELSE entry[n].value
  BY <1>3, <1>4, <1>5
<1>7. entry' = [n \in DOMAIN entry |-> entry'[n]]
  BY <1>4
<1>8. List!TypeOK'
  BY <1>2, <1>4, <1>6, <1>7 DEF List!TypeOK
<1>9. \A i : List!OnLevel(i)' = List!OnLevel(i)
  BY <1>4 DEF List!OnLevel
<1>10. \A i \in List!Levels : \A n \in List!OnLevel(i) : Behind(n, i)' = Behind(n, i)
  BY <1>2, <1>6, <1>9, Nodes DEF Behind, InFront
<1>11. Linked'
  <2>1. ASSUME NEW i \in List!Levels, NEW n \in List!OnLevel(i)
        PROVE  LinkedAt(n, i)'
    <3>1. LinkedAt(n, i) /\ Behind(n, i)' = Behind(n, i) /\ Behind(n, i) \subseteq DOMAIN entry
      BY <1>2, <1>10, Nodes DEF Linked, Behind
    <3>. QED
      BY <1>4, <1>6, <3>1 DEF LinkedAt
  <2>. QED
    BY <1>9, <2>1 DEF Linked
<1>12. OneNodePerKey' /\ Heights' /\ IsFiniteSet(DOMAIN entry')
  BY <1>2, <1>4, <1>6 DEF OneNodePerKey, Heights
<1>. QED
  BY <1>2, <1>3, <1>6, <1>8, <1>11, <1>12 DEF MemInv, OneNodePerKey

\* The list gains a node of its own for a key that was not there.
GainsNode(new, k, v) ==
  /\ new \in Nat \ {0} /\ new \notin DOMAIN entry /\ new \notin DOMAIN forward
  /\ DOMAIN entry' = DOMAIN entry \cup {new}
  /\ entry' = [m \in DOMAIN entry' |-> entry'[m]]
  /\ entry'[new] = [key |-> k, value |-> v]
  /\ \A m \in DOMAIN entry : entry'[m] = entry[m] /\ entry[m].key # k

\* The node is linked behind the node in front of its key, on every level it reaches.
GainsLinks(new, k, height) ==
  /\ DOMAIN forward' = DOMAIN forward \cup {new}
  /\ Len(forward'[new]) = height
  /\ forward'[new] \in Seq(DOMAIN entry' \cup {List!Nil})
  /\ \A i \in 1 .. height : forward'[new][i] = forward[PredAt(i, k)][i]
  /\ \A m \in DOMAIN forward :
       /\ Len(forward'[m]) = Len(forward[m])
       /\ forward'[m] \in Seq(DOMAIN entry' \cup {List!Nil})
       /\ \A i \in DOMAIN forward[m] :
            forward'[m][i] = IF i <= height /\ PredAt(i, k) = m THEN new ELSE forward[m][i]

\* That is what insertNew does to nodes and pointers.
LEMMA InsertNewLinks ==
  ASSUME MemInv, NEW k \in Keys, NEW v \in Values, NEW height \in List!Levels,
         List!insertNew(k, v, height)
  PROVE  GainsNode(List!NewNode, k, v) /\ GainsLinks(List!NewNode, k, height)
<1>. DEFINE new == List!NewNode
            S == DOMAIN entry \cup {new} \cup {List!Nil}
<1>1. List!TypeOK /\ OneNodePerKey /\ Linked /\ Heights /\ IsFiniteSet(DOMAIN entry)
  BY DEF MemInv
<1>2. new \in Nat \ {0} /\ new \notin DOMAIN entry /\ new \notin DOMAIN forward
  BY <1>1, NewNodeFresh
<1>3. /\ entry' = [m \in DOMAIN entry \cup {new} |->
                     IF m = new THEN [key |-> k, value |-> v] ELSE entry[m]]
      /\ forward' = [m \in DOMAIN forward \cup {new} |->
                       IF m = new THEN [i \in 1 .. height |-> forward[PredAt(i, k)][i]]
                       ELSE [i \in DOMAIN forward[m] |->
                               IF i <= height /\ PredAt(i, k) = m THEN new ELSE forward[m][i]]]
      /\ ~List!Hit(k)
  BY DEF List!insertNew, PredAt
<1>. HIDE DEF new
<1>4. k \in Int /\ height \in Nat /\ \A i \in 1 .. height : i \in List!Levels
  BY KeysAssumption, LimitAssumption
<1>5. \A m \in DOMAIN entry : entry[m].key # k
  BY <1>1, <1>3, <1>4, SearchHits
<1>6. /\ DOMAIN entry' = DOMAIN entry \cup {new}
      /\ entry' = [m \in DOMAIN entry' |-> entry'[m]]
      /\ entry'[new] = [key |-> k, value |-> v]
      /\ \A m \in DOMAIN entry : entry'[m] = entry[m]
      /\ DOMAIN forward' = DOMAIN forward \cup {new}
  BY <1>2, <1>3
<1>7. ASSUME NEW i \in 1 .. height
      PROVE  forward[PredAt(i, k)][i] \in S
  <2>1. PredAt(i, k) \in List!OnLevel(i)
    BY <1>1, <1>4, PredAtLands DEF IsPred
  <2>. QED
    BY <1>1, <1>4, <2>1, NextBehind
<1>8. /\ forward'[new] = [i \in 1 .. height |-> forward[PredAt(i, k)][i]]
      /\ Len(forward'[new]) = height
      /\ forward'[new] \in Seq(S)
      /\ \A i \in 1 .. height : forward'[new][i] = forward[PredAt(i, k)][i]
  <2>1. forward'[new] = [i \in 1 .. height |-> forward[PredAt(i, k)][i]]
    BY <1>3
  <2>. HIDE DEF S
  <2>. QED
    BY <1>4, <1>7, <2>1
<1>9. ASSUME NEW m \in DOMAIN forward
      PROVE  /\ Len(forward'[m]) = Len(forward[m])
             /\ forward'[m] \in Seq(S)
             /\ \A i \in DOMAIN forward[m] :
                  forward'[m][i] = IF i <= height /\ PredAt(i, k) = m THEN new ELSE forward[m][i]
  <2>1. forward[m] \in Seq(S) /\ Len(forward[m]) \in Nat /\ DOMAIN forward[m] = 1 .. Len(forward[m])
    BY <1>1 DEF List!TypeOK
  <2>2. forward'[m] = [i \in 1 .. Len(forward[m]) |->
                         IF i <= height /\ PredAt(i, k) = m THEN new ELSE forward[m][i]]
    BY <1>2, <1>3, <2>1
  <2>3. \A i \in 1 .. Len(forward[m]) : forward[m][i] \in S
    BY <2>1
  <2>4. new \in S
    OBVIOUS
  <2>. HIDE DEF S
  <2>. QED
    BY <2>1, <2>2, <2>3, <2>4
<1>. QED
  BY <1>2, <1>5, <1>6, <1>8, <1>9 DEF new, GainsNode, GainsLinks

\* A new node leaves every level in order.
LEMMA InsertNewKeeps ==
  ASSUME MemInv, NEW k \in Keys, NEW v \in Values, NEW height \in List!Levels,
         List!insertNew(k, v, height)
  PROVE  MemInv'
<1>. DEFINE new == List!NewNode
<1>1. List!TypeOK /\ OneNodePerKey /\ Linked /\ Heights /\ IsFiniteSet(DOMAIN entry)
  BY DEF MemInv
<1>2. GainsNode(new, k, v)
  BY InsertNewLinks
<1>3. GainsLinks(new, k, height)
  BY InsertNewLinks
<1>. USE DEF GainsNode, GainsLinks
<1>4. current_level' = IF height > current_level THEN height ELSE current_level
  BY DEF List!insertNew, List!GrownLevel
<1>. HIDE DEF new
<1>5. k \in Int /\ height \in Nat /\ \A i \in 1 .. height : i \in List!Levels
  BY KeysAssumption, LimitAssumption
<1>6. List!TypeOK'
  <2>1. \A n \in DOMAIN entry' : entry'[n] \in [key : Keys, value : Values]
    BY <1>1, <1>2 DEF List!TypeOK
  <2>2. entry' \in [DOMAIN entry' -> [key : Keys, value : Values]]
    BY <1>2, <2>1
  <2>3. /\ DOMAIN entry' \subseteq Nat \ {List!head}
        /\ DOMAIN forward' = DOMAIN entry' \cup {List!head}
        /\ Len(forward'[List!head]) = max_level
        /\ current_level' \in List!Levels
    BY <1>1, <1>2, <1>3, <1>4 DEF List!TypeOK
  <2>4. \A n \in DOMAIN forward' :
          /\ forward'[n] \in Seq(DOMAIN entry' \cup {List!Nil})
          /\ Len(forward'[n]) \in List!Levels
    BY <1>1, <1>3 DEF List!TypeOK
  <2>. QED
    BY <2>2, <2>3, <2>4 DEF List!TypeOK
<1>7. ASSUME NEW i \in List!Levels
      PROVE  List!OnLevel(i)' = IF i <= height THEN List!OnLevel(i) \cup {new} ELSE List!OnLevel(i)
  BY <1>3, <1>2 DEF List!OnLevel
<1>8. ASSUME NEW i \in List!Levels, NEW n \in List!OnLevel(i)'
      PROVE  LinkedAt(n, i)'
  <2>1. /\ List!OnLevel(i) \subseteq DOMAIN entry \cup {List!head}
        /\ List!OnLevel(i) \subseteq DOMAIN forward
        /\ \A m \in List!OnLevel(i) : i \in DOMAIN forward[m]
        /\ new # List!head /\ new # List!Nil
        /\ \A m \in DOMAIN entry : entry[m].key \in Int
    BY <1>1, <1>2, Nodes DEF List!OnLevel
  <2>2. IsPred(PredAt(i, k), i, k)
    BY <1>1, <1>5, PredAtLands
  <2>. DEFINE p == PredAt(i, k)
  <2>3. \A m \in List!OnLevel(i) : LinkedAt(m, i)
    BY <1>1 DEF Linked
  <2>. HIDE DEF p
  <2>4. CASE ~(i <= height)
    <3>1. n \in List!OnLevel(i) /\ forward'[n][i] = forward[n][i] /\ LinkedAt(n, i)
      BY <1>3, <1>7, <1>8, <2>1, <2>3, <2>4
    <3>2. Behind(n, i)' = Behind(n, i) /\ Behind(n, i) \subseteq DOMAIN entry
      BY <1>2, <1>7, <2>1, <2>4, <3>1 DEF Behind, InFront
    <3>. QED
      BY <1>2, <3>1, <3>2 DEF LinkedAt
  <2>5. CASE i <= height /\ n = new
    <3>1. forward'[n][i] = forward[p][i] /\ p \in List!OnLevel(i) /\ LinkedAt(p, i)
      BY <1>3, <2>2, <2>3, <2>5 DEF IsPred, p
    <3>2. Behind(n, i)' = Behind(p, i) /\ Behind(p, i) \subseteq DOMAIN entry
      <4>1. ASSUME NEW m \in Behind(n, i)'
            PROVE  m \in Behind(p, i)
        BY <1>2, <1>5, <1>7, <2>1, <2>2, <2>5 DEF Behind, InFront, IsPred, p
      <4>2. ASSUME NEW m \in Behind(p, i)
            PROVE  m \in Behind(n, i)' /\ m \in DOMAIN entry
        <5>1. m \in DOMAIN entry /\ entry[m].key >= k /\ m \in List!OnLevel(i) \ {List!head}
          BY <2>1, <2>2 DEF Behind, IsPred, p
        <5>2. k < entry[m].key
          BY <1>2, <1>5, <2>1, <5>1
        <5>. QED
          BY <1>2, <1>7, <2>5, <5>1, <5>2 DEF Behind, InFront
      <4>. QED
        BY <4>1, <4>2
    <3>. QED
      BY <1>2, <3>1, <3>2 DEF LinkedAt
  <2>6. CASE i <= height /\ n = p
    <3>1. forward'[n][i] = new /\ p \in List!OnLevel(i) /\ n \in DOMAIN forward /\ n # new
      BY <1>2, <1>3, <2>1, <2>2, <2>6 DEF IsPred, p
    <3>2. InFront(n, k)
      BY <2>2, <2>6 DEF IsPred, p
    <3>3. new \in Behind(n, i)'
      BY <1>2, <1>7, <2>1, <2>6, <3>1, <3>2 DEF Behind, InFront
    <3>4. ASSUME NEW m \in Behind(n, i)'
          PROVE  k <= entry'[m].key
      <4>1. CASE m = new
        BY <1>2, <1>5, <4>1
      <4>2. CASE m # new
        <5>1. m \in List!OnLevel(i) \ {List!head} /\ InFront(n, entry[m].key)'
          BY <1>7, <2>6, <3>4, <4>2 DEF Behind
        <5>2. m \in DOMAIN entry /\ entry'[m] = entry[m] /\ InFront(p, entry[m].key)
          BY <1>2, <2>1, <2>6, <3>1, <5>1 DEF InFront
        <5>. QED
          BY <2>1, <2>2, <5>1, <5>2, <1>5 DEF IsPred, p
      <4>. QED
        BY <4>1, <4>2
    <3>. QED
      BY <1>2, <3>1, <3>3, <3>4 DEF LinkedAt
  <2>7. CASE i <= height /\ n # new /\ n # p
    <3>1. n \in List!OnLevel(i) /\ forward'[n][i] = forward[n][i] /\ LinkedAt(n, i)
      BY <1>3, <1>7, <1>8, <2>1, <2>3, <2>7 DEF p
    <3>2. Behind(n, i) \subseteq DOMAIN entry /\ Behind(n, i) \subseteq List!OnLevel(i) \ {List!head}
      BY <2>1 DEF Behind
    <3>3. CASE InFront(n, k)
      <4>1. n # List!head => n \in DOMAIN entry /\ entry'[n] = entry[n]
        BY <1>2, <2>1, <3>1
      <4>2. Behind(n, i)' = Behind(n, i) \cup {new}
        BY <1>2, <1>7, <2>1, <2>7, <3>1, <3>3, <4>1 DEF Behind, InFront
      <4>3. p \in Behind(n, i)
        <5>1. p \in List!OnLevel(i) /\ InFront(p, k)
          BY <2>2 DEF IsPred, p
        <5>2. ~IsPred(n, i, k)
          BY <1>1, <1>5, <2>2, <2>7, PredUnique DEF p
        <5>3. PICK m \in List!OnLevel(i) \ {List!head} : InFront(n, entry[m].key) /\ ~(entry[m].key >= k)
          BY <3>1, <3>3, <5>2 DEF IsPred
        <5>4. p # List!head
          BY <2>2, <5>3 DEF IsPred, InFront, p
        <5>5. ~InFront(p, entry[m].key)
          BY <2>2, <5>3 DEF IsPred, p
        <5>6. p \in DOMAIN entry /\ entry[m].key <= entry[p].key
          BY <2>1, <5>1, <5>3, <5>4, <5>5 DEF InFront
        <5>7. InFront(n, entry[p].key)
          BY <2>1, <3>1, <5>3, <5>6 DEF InFront
        <5>. QED
          BY <5>1, <5>4, <5>7 DEF Behind
      <4>4. /\ forward[n][i] \in Behind(n, i)
            /\ \A m \in Behind(n, i) : entry[forward[n][i]].key <= entry[m].key
        BY <3>1, <4>3 DEF LinkedAt
      <4>5. entry[forward[n][i]].key <= k
        <5>1. entry[p].key < k /\ p \in DOMAIN entry
          BY <2>2, <3>2, <4>3 DEF IsPred, InFront, p, Behind
        <5>. QED
          BY <1>5, <2>1, <3>2, <4>3, <4>4, <5>1
      <4>. QED
        BY <1>2, <3>1, <3>2, <4>2, <4>4, <4>5 DEF LinkedAt
    <3>4. CASE ~InFront(n, k)
      <4>1. n \in DOMAIN entry /\ entry'[n] = entry[n]
        BY <1>2, <2>1, <3>1, <3>4 DEF InFront
      <4>2. Behind(n, i)' = Behind(n, i)
        BY <1>2, <1>7, <2>1, <2>7, <3>1, <3>4, <4>1 DEF Behind, InFront
      <4>. QED
        BY <1>2, <3>1, <3>2, <4>2 DEF LinkedAt
    <3>. QED
      BY <3>3, <3>4
  <2>. QED
    BY <2>4, <2>5, <2>6, <2>7
<1>9. Linked'
  BY <1>8 DEF Linked
<1>10. OneNodePerKey'
  BY <1>1, <1>2 DEF OneNodePerKey
<1>11. Heights'
  <2>1. \A n \in DOMAIN entry : n \in DOMAIN forward /\ Len(forward[n]) \in Nat
    BY <1>1 DEF List!TypeOK
  <2>2. current_level \in Nat
    BY <1>1, Nodes
  <2>. QED
    BY <1>1, <1>2, <1>3, <1>4, <1>5, <2>1, <2>2 DEF Heights
<1>12. IsFiniteSet(DOMAIN entry')
  BY <1>1, <1>2, FS_AddElement
<1>. QED
  BY <1>6, <1>9, <1>10, <1>11, <1>12 DEF MemInv

\* A set of levels that has a member has a largest one.
LEMMA LargestExists ==
  ASSUME NEW N \in Nat, NEW S \in SUBSET (1 .. N), S # {}
  PROVE  List!Largest(S) \in S /\ \A i \in S : i <= List!Largest(S)
<1>. DEFINE D == {N - i : i \in S}
<1>1. D \in SUBSET Nat /\ D # {}
  <2>1. PICK i \in S : TRUE
    OBVIOUS
  <2>2. N - i \in D
    OBVIOUS
  <2>3. \A j \in S : N - j \in Nat
    OBVIOUS
  <2>4. D \subseteq Nat
    BY <2>3
  <2>. QED
    BY <2>2, <2>4
<1>2. PICK d \in D : \A e \in D : d <= e
  <2>. HIDE DEF D
  <2>. QED
    BY <1>1, LeastNatural
<1>3. PICK m \in S : d = N - m
  OBVIOUS
<1>4. ASSUME NEW i \in S
      PROVE  i <= m
  <2>1. N - i \in D
    OBVIOUS
  <2>2. d <= N - i
    BY <1>2, <2>1
  <2>. QED
    BY <1>3, <2>2
<1>. QED
  BY <1>4 DEF List!Largest

\* The list loses node t.
LosesNode(t) ==
  /\ DOMAIN entry' = DOMAIN entry \ {t}
  /\ entry' = [m \in DOMAIN entry' |-> entry'[m]]
  /\ \A m \in DOMAIN entry' : entry'[m] = entry[m]

\* Every pointer that led to node t leads to the one behind it, no other changes.
LosesLinks(t) ==
  /\ DOMAIN forward' = DOMAIN forward \ {t}
  /\ \A m \in DOMAIN forward' :
       /\ Len(forward'[m]) = Len(forward[m])
       /\ forward'[m] \in Seq(DOMAIN entry' \cup {List!Nil})
       /\ \A i \in DOMAIN forward[m] :
            forward'[m][i] = IF forward[m][i] = t THEN forward[t][i] ELSE forward[m][i]

\* That is what remove does to nodes and pointers: the nodes whose pointers it
\* sees to are those in front of the key, and no other leads to its node.
LEMMA RemoveLinks ==
  ASSUME MemInv, NEW k \in Keys, List!remove(k)
  PROVE  /\ List!Candidate(k) \in DOMAIN entry /\ entry[List!Candidate(k)].key = k
         /\ LosesNode(List!Candidate(k)) /\ LosesLinks(List!Candidate(k))
         /\ current_level' = List!Largest({1} \cup {i \in 1 .. current_level :
                                                     forward'[List!head][i] # List!Nil})
<1>. DEFINE t == List!Candidate(k)
            S == DOMAIN entry' \cup {List!Nil}
<1>1. List!TypeOK /\ OneNodePerKey /\ Linked /\ Heights /\ IsFiniteSet(DOMAIN entry)
  BY DEF MemInv
<1>2. /\ List!Hit(k)
      /\ entry' = [m \in DOMAIN entry \ {t} |-> entry[m]]
      /\ forward' = [m \in DOMAIN forward \ {t} |-> List!Unlinked(t, k)[m]]
      /\ current_level' = List!Shrunk(List!Unlinked(t, k))
  BY DEF List!remove
<1>3. k \in Int /\ t \in DOMAIN entry /\ entry[t].key = k
  BY <1>1, <1>2, SearchHits, KeysAssumption
<1>. HIDE DEF t
<1>4. LosesNode(t)
  BY <1>2 DEF LosesNode
<1>5. /\ \A n \in DOMAIN entry : entry[n].key \in Int
      /\ \A m \in DOMAIN forward : /\ forward[m] \in Seq(DOMAIN entry \cup {List!Nil})
                                  /\ Len(forward[m]) \in List!Levels
                                  /\ Len(forward[m]) \in Nat
                                  /\ DOMAIN forward[m] = 1 .. Len(forward[m])
      /\ \A m \in DOMAIN forward : \A i \in DOMAIN forward[m] :
           i \in List!Levels /\ m \in List!OnLevel(i)
  <2>1. \A n \in DOMAIN entry : entry[n].key \in Int
    BY <1>1, Nodes
  <2>2. \A m \in DOMAIN forward : /\ forward[m] \in Seq(DOMAIN entry \cup {List!Nil})
                                 /\ Len(forward[m]) \in List!Levels
    BY <1>1 DEF List!TypeOK
  <2>. QED
    BY <2>1, <2>2, LimitAssumption DEF List!OnLevel
<1>6. ASSUME NEW m \in DOMAIN forward, NEW i \in DOMAIN forward[m], forward[m][i] = t
      PROVE  /\ i \in 1 .. current_level /\ List!update(k)[i] = m
             /\ t \in List!OnLevel(i) /\ t # m
  <2>0. i \in List!Levels /\ m \in List!OnLevel(i)
    BY <1>5
  <2>1. t \in List!OnLevel(i) /\ InFront(m, k)
    BY <1>1, <1>3, <1>6, <2>0, NextBehind, Nodes
  <2>2. IsPred(m, i, k)
    BY <1>1, <1>3, <1>5, <1>6, <2>0, <2>1, NextBehind, Nodes DEF IsPred
  <2>3. i \in 1 .. current_level
    BY <1>1, <1>3, <2>0, <2>1, Nodes, LimitAssumption DEF Heights, List!OnLevel, List!TypeOK
  <2>4. List!update(k)[i] = m
    BY <1>1, <1>3, <2>0, <2>2, <2>3, UpdateLands, PredUnique
  <2>5. t # m
    BY <1>1, <1>3, <2>1, Nodes DEF InFront
  <2>. QED
    BY <2>1, <2>3, <2>4, <2>5
<1>7. ASSUME NEW m \in DOMAIN forward'
      PROVE  /\ m \in DOMAIN forward /\ m # t
             /\ forward'[m] = [i \in 1 .. Len(forward[m]) |->
                                 IF forward[m][i] = t THEN forward[t][i] ELSE forward[m][i]]
  <2>1. m \in DOMAIN forward /\ m # t
    BY <1>2
  <2>2. forward'[m] = List!Unlinked(t, k)[m]
    BY <1>2
  <2>3. List!Unlinked(t, k)[m] =
          [i \in DOMAIN forward[m] |->
             IF i <= current_level /\ List!update(k)[i] = m /\ forward[m][i] = t
             THEN forward[t][i] ELSE forward[m][i]]
    BY <2>1 DEF List!Unlinked
  <2>4. \A i \in DOMAIN forward[m] :
          (i <= current_level /\ List!update(k)[i] = m /\ forward[m][i] = t) <=> forward[m][i] = t
    BY <1>6, <2>1
  <2>5. DOMAIN forward[m] = 1 .. Len(forward[m])
    BY <1>5, <2>1
  <2>6. [i \in DOMAIN forward[m] |->
          IF i <= current_level /\ List!update(k)[i] = m /\ forward[m][i] = t
          THEN forward[t][i] ELSE forward[m][i]]
        = [i \in DOMAIN forward[m] |->
             IF forward[m][i] = t THEN forward[t][i] ELSE forward[m][i]]
    BY <2>4
  <2>. QED
    BY <2>1, <2>2, <2>3, <2>5, <2>6
<1>8. ASSUME NEW m \in DOMAIN forward'
      PROVE  /\ Len(forward'[m]) = Len(forward[m])
             /\ forward'[m] \in Seq(S)
             /\ \A i \in DOMAIN forward[m] :
                  forward'[m][i] = IF forward[m][i] = t THEN forward[t][i] ELSE forward[m][i]
  <2>1. m \in DOMAIN forward /\ Len(forward[m]) \in Nat /\ DOMAIN forward[m] = 1 .. Len(forward[m])
    BY <1>5, <1>7
  <2>. DEFINE e(i) == IF forward[m][i] = t THEN forward[t][i] ELSE forward[m][i]
  <2>2. ASSUME NEW i \in DOMAIN forward[m]
        PROVE  e(i) \in S
    <3>1. i \in List!Levels /\ m \in List!OnLevel(i) /\ DOMAIN entry' = DOMAIN entry \ {t}
      BY <1>5, <2>1, <1>4 DEF LosesNode
    <3>2. CASE forward[m][i] = t
      <4>1. t \in List!OnLevel(i)
        BY <1>6, <2>1, <3>2
      <4>2. forward[t][i] # List!Nil =>
              forward[t][i] \in DOMAIN entry /\ InFront(t, entry[forward[t][i]].key)
        BY <1>1, <3>1, <4>1, NextBehind
      <4>3. forward[t][i] # t
        BY <1>3, <1>1, <4>2, Nodes DEF InFront
      <4>. QED
        BY <3>1, <3>2, <4>2, <4>3
    <3>3. CASE forward[m][i] # t
      BY <1>1, <3>1, <3>3, NextBehind
    <3>. QED
      BY <3>2, <3>3
  <2>3. forward'[m] = [i \in 1 .. Len(forward[m]) |-> e(i)]
    BY <1>7
  <2>. HIDE DEF e, S
  <2>4. Len(forward'[m]) = Len(forward[m]) /\ forward'[m] \in Seq(S)
    BY <2>1, <2>2, <2>3
  <2>5. \A i \in DOMAIN forward[m] : forward'[m][i] = e(i)
    BY <2>1, <2>3
  <2>. QED
    BY <2>4, <2>5 DEF e
<1>9. LosesLinks(t)
  BY <1>2, <1>8 DEF LosesLinks
<1>10. current_level' = List!Largest({1} \cup {i \in 1 .. current_level :
                                                forward'[List!head][i] # List!Nil})
  <2>1. forward'[List!head] = List!Unlinked(t, k)[List!head]
    BY <1>1, <1>2, <1>3 DEF List!TypeOK
  <2>. QED
    BY <1>2, <2>1 DEF List!Shrunk
<1>. QED
  BY <1>3, <1>4, <1>9, <1>10 DEF t

\* Taking a node out leaves every level in order.
LEMMA RemoveKeeps ==
  ASSUME MemInv, NEW k \in Keys, List!remove(k)
  PROVE  MemInv'
<1>. DEFINE t == List!Candidate(k)
            Used == {1} \cup {i \in 1 .. current_level : forward'[List!head][i] # List!Nil}
<1>1. List!TypeOK /\ OneNodePerKey /\ Linked /\ Heights /\ IsFiniteSet(DOMAIN entry)
  BY DEF MemInv
<1>2. /\ t \in DOMAIN entry /\ entry[t].key = k
      /\ LosesNode(t) /\ LosesLinks(t) /\ current_level' = List!Largest(Used)
  BY RemoveLinks
<1>. HIDE DEF t
<1>. USE DEF LosesNode, LosesLinks
<1>3. k \in Int /\ current_level \in Nat \ {0} /\ current_level <= max_level
  BY <1>1, Nodes, KeysAssumption, LimitAssumption
<1>4. current_level' \in Used /\ \A i \in Used : i <= current_level'
  <2>1. Used \in SUBSET (1 .. current_level) /\ Used # {}
    BY <1>3
  <2>. HIDE DEF Used
  <2>. QED
    BY <1>2, <1>3, <2>1, LargestExists
<1>5. current_level' \in List!Levels /\ current_level' \in Nat \ {0}
  BY <1>3, <1>4, LimitAssumption
<1>6. List!TypeOK'
  <2>1. \A n \in DOMAIN entry' : entry'[n] \in [key : Keys, value : Values]
    BY <1>1, <1>2 DEF List!TypeOK
  <2>2. entry' \in [DOMAIN entry' -> [key : Keys, value : Values]]
    BY <1>2, <2>1
  <2>3. /\ DOMAIN entry' \subseteq Nat \ {List!head}
        /\ DOMAIN forward' = DOMAIN entry' \cup {List!head}
        /\ Len(forward'[List!head]) = max_level
    BY <1>1, <1>2 DEF List!TypeOK
  <2>4. \A n \in DOMAIN forward' :
          /\ forward'[n] \in Seq(DOMAIN entry' \cup {List!Nil})
          /\ Len(forward'[n]) \in List!Levels
    BY <1>1, <1>2 DEF List!TypeOK
  <2>. QED
    BY <1>5, <2>2, <2>3, <2>4 DEF List!TypeOK
<1>7. \A i \in List!Levels : List!OnLevel(i)' = List!OnLevel(i) \ {t}
  BY <1>2 DEF List!OnLevel
<1>8. ASSUME NEW i \in List!Levels, NEW n \in List!OnLevel(i)'
      PROVE  LinkedAt(n, i)'
  <2>1. /\ List!OnLevel(i) \subseteq DOMAIN entry \cup {List!head}
        /\ t # List!head /\ t # List!Nil
        /\ \A m \in DOMAIN entry : entry[m].key \in Int
        /\ n \in List!OnLevel(i) /\ n # t /\ i \in DOMAIN forward[n] /\ n \in DOMAIN forward'
        /\ n # List!head => n \in DOMAIN entry'
    BY <1>1, <1>2, <1>7, <1>8, Nodes DEF List!OnLevel
  <2>2. Behind(n, i)' = Behind(n, i) \ {t} /\ Behind(n, i) \subseteq DOMAIN entry
    BY <1>2, <1>7, <2>1 DEF Behind, InFront
  <2>3. LinkedAt(n, i)
    BY <1>1, <2>1 DEF Linked
  <2>4. CASE forward[n][i] = t
    <3>1. t \in List!OnLevel(i) /\ InFront(n, k)
      BY <1>1, <1>2, <2>1, <2>4, NextBehind
    <3>2. forward'[n][i] = forward[t][i] /\ LinkedAt(t, i)
      BY <1>1, <1>2, <2>1, <2>4, <3>1 DEF Linked
    <3>3. Behind(n, i) \ {t} = Behind(t, i)
      <4>1. ASSUME NEW m \in Behind(n, i), m # t
            PROVE  m \in Behind(t, i)
        <5>1. m \in DOMAIN entry /\ k <= entry[m].key /\ m \in List!OnLevel(i) \ {List!head}
          BY <1>1, <1>2, <2>1, <2>2, <2>4, NextBehind DEF Behind
        <5>2. entry[m].key # k
          BY <1>1, <1>2, <4>1, <5>1 DEF OneNodePerKey
        <5>. QED
          BY <1>2, <1>3, <2>1, <5>1, <5>2 DEF Behind, InFront
      <4>2. ASSUME NEW m \in Behind(t, i)
            PROVE  m \in Behind(n, i) /\ m # t
        <5>1. m \in List!OnLevel(i) \ {List!head} /\ m \in DOMAIN entry /\ k < entry[m].key
          BY <1>2, <2>1 DEF Behind, InFront
        <5>2. InFront(n, entry[m].key)
          BY <1>3, <2>1, <3>1, <5>1 DEF InFront
        <5>. QED
          BY <1>2, <1>3, <5>1, <5>2 DEF Behind
      <4>. QED
        BY <4>1, <4>2
    <3>. QED
      BY <1>2, <2>2, <3>2, <3>3 DEF LinkedAt
  <2>5. CASE forward[n][i] # t
    <3>1. forward'[n][i] = forward[n][i]
      BY <1>2, <2>1, <2>5
    <3>. QED
      BY <1>2, <2>2, <2>3, <2>5, <3>1 DEF LinkedAt
  <2>. QED
    BY <2>4, <2>5
<1>9. Linked'
  BY <1>8 DEF Linked
<1>10. OneNodePerKey'
  BY <1>1, <1>2 DEF OneNodePerKey
<1>11. Heights'
  <2>1. ASSUME NEW n \in DOMAIN entry'
        PROVE  /\ n # List!head /\ n \in DOMAIN forward' /\ n \in DOMAIN entry
               /\ Len(forward'[n]) = Len(forward[n])
               /\ Len(forward[n]) \in List!Levels /\ Len(forward[n]) \in Nat \ {0}
               /\ Len(forward[n]) <= current_level
    BY <1>1, <1>2, LimitAssumption DEF List!TypeOK, Heights
  <2>2. ASSUME NEW i \in List!Levels
        PROVE  forward'[List!head][i] # List!Nil <=> \E n \in DOMAIN entry' : Len(forward'[n]) >= i
    <3>1. List!head \in List!OnLevel(i)'
      BY <1>1, <1>2, <1>7, Nodes
    <3>2. LinkedAt(List!head, i)'
      BY <1>8, <3>1
    <3>3. Behind(List!head, i)' = {n \in DOMAIN entry' : Len(forward'[n]) >= i}
      BY <1>6, <2>1 DEF Behind, InFront, List!OnLevel, List!TypeOK
    <3>4. List!Nil \notin DOMAIN entry'
      BY <1>6 DEF List!TypeOK
    <3>. QED
      BY <3>2, <3>3, <3>4 DEF LinkedAt
  <2>3. ASSUME NEW n \in DOMAIN entry'
        PROVE  Len(forward'[n]) <= current_level'
    <3>1. Len(forward'[n]) \in Used
      BY <1>3, <2>1, <2>2
    <3>. QED
      BY <1>4, <3>1
  <2>4. ASSUME current_level' # 1
        PROVE  \E n \in DOMAIN entry' : Len(forward'[n]) = current_level'
    <3>1. forward'[List!head][current_level'] # List!Nil
      BY <1>4, <2>4
    <3>2. PICK n \in DOMAIN entry' : Len(forward'[n]) >= current_level'
      BY <1>5, <2>2, <3>1
    <3>. QED
      BY <1>5, <2>1, <2>3, <3>2
  <2>. QED
    BY <2>3, <2>4 DEF Heights
<1>12. IsFiniteSet(DOMAIN entry')
  BY <1>1, <1>2, FS_RemoveElement
<1>. QED
  BY <1>6, <1>9, <1>10, <1>11, <1>12 DEF MemInv

-----------------------------------------------------------------------------
(* The invariant of FlushPath's specification *)

\* The steps of FlushPath, by what they do to the memtable
LEMMA MemtableSteps ==
  ASSUME [Next]_vars
  PROVE  \/ UNCHANGED memtable
         \/ \E k \in Keys, v \in Values : List!insertExisting(k, v)
         \/ \E k \in Keys, v \in Values, height \in List!Levels : List!insertNew(k, v, height)
         \/ \E k \in Keys : List!remove(k)
         \/ List!clear
<1>1. CASE UNCHANGED vars
  BY <1>1 DEF vars
<1>2. ASSUME NEW k \in Keys, NEW v \in Values, MemtableInsert(k, v)
      PROVE  \/ List!insertExisting(k, v)
             \/ \E height \in List!Levels : List!insertNew(k, v, height)
  BY <1>2 DEF MemtableInsert, List!insert
<1>3. ASSUME NEW k \in Keys, MemtableRemove(k)
      PROVE  List!remove(k)
  BY <1>3 DEF MemtableRemove
<1>4. CASE FlushBegin \/ FlushAdd \/ FlushThrows \/ ReadTable
  BY <1>4 DEF FlushBegin, FlushAdd, FlushThrows, ReadTable
<1>5. CASE FlushEnd
  BY <1>5 DEF FlushEnd, Cleared
<1>. QED
  BY <1>1, <1>2, <1>3, <1>4, <1>5 DEF Next

\* A step that leaves the memtable alone keeps what is true of it.
LEMMA MemtableStutter ==
  ASSUME MemInv, UNCHANGED memtable
  PROVE  MemInv'
<1>. USE DEF memtable
<1>1. List!TypeOK'
  BY DEF MemInv, List!TypeOK
<1>2. Linked'
  <2>1. \A i : List!OnLevel(i)' = List!OnLevel(i)
    BY DEF List!OnLevel
  <2>2. \A i, n : Behind(n, i)' = Behind(n, i)
    BY <2>1 DEF Behind, InFront
  <2>3. \A i, n : LinkedAt(n, i)' <=> LinkedAt(n, i)
    BY <2>2 DEF LinkedAt
  <2>. QED
    BY <2>1, <2>3 DEF MemInv, Linked
<1>3. OneNodePerKey' /\ Heights' /\ IsFiniteSet(DOMAIN entry')
  BY DEF MemInv, OneNodePerKey, Heights
<1>. QED
  BY <1>1, <1>2, <1>3 DEF MemInv

\* Every step keeps the invariant.
LEMMA MemStep ==
  ASSUME MemInv, [Next]_vars
  PROVE  MemInv'
BY MemtableSteps, MemtableStutter, InsertExistingKeeps, InsertNewKeeps, RemoveKeeps, ClearKeeps

\* The memtable of KVStore is in order: a node's pointer on each of its levels
\* leads to the nearest node behind it, whatever is put, deleted and flushed.
THEOREM MemtableInvariant == Spec => []MemInv
<1>1. Init => MemInv
  BY EmptyList DEF Init
<1>2. MemInv /\ [Next]_vars => MemInv'
  BY MemStep
<1>. QED
  BY <1>1, <1>2, PTL DEF Spec

\* Each level of the skip list holds exactly the nodes that are high enough, in
\* ascending order, for any keys, any number of levels and any heights drawn.
THEOREM LevelsAlwaysInOrder == Spec => []LevelsInOrder
<1>1. MemInv => LevelsInOrder
  BY LevelsInOrderInState DEF LevelsInOrder
<1>. QED
  BY <1>1, MemtableInvariant, PTL

\* search, which descends over the levels, finds exactly what a walk along the
\* lowest level meets.
THEOREM SearchAlwaysFinds == Spec => []SearchFinds
<1>1. MemInv => SearchFinds
  BY SearchFindsInState DEF SearchFinds
<1>. QED
  BY <1>1, MemtableInvariant, PTL

-----------------------------------------------------------------------------
(* The ordered map *)

\* What Contents is, as one formula, so that it can be said of the next state
ContentsMatch ==
  /\ DOMAIN List!Contents = {entry[n].key : n \in DOMAIN entry}
  /\ \A n \in DOMAIN entry : List!Contents[entry[n].key] = entry[n].value
  /\ List!Contents = [k \in DOMAIN List!Contents |-> List!Contents[k]]

\* Contents is the map of the nodes' keys to their values in every good state.
LEMMA ContentsMatchInState == MemInv => ContentsMatch
BY ContentsAre DEF MemInv, ContentsMatch

\* ... and so it is behind every step.
LEMMA ContentsMatchNext == MemInv' => ContentsMatch'
BY ContentsMatchInState, PTL

\* A new value for a key that is there
LEMMA InsertExistingPuts ==
  ASSUME MemInv, NEW k \in Keys, NEW v \in Values, List!insertExisting(k, v)
  PROVE  List!Map!Put(k, v)
<1>1. ContentsMatch /\ ContentsMatch'
  BY InsertExistingKeeps, ContentsMatchInState, ContentsMatchNext
<1>. QED
  BY <1>1, InsertExistingKeeps DEF ContentsMatch, List!Map!Put

\* A new key
LEMMA InsertNewPuts ==
  ASSUME MemInv, NEW k \in Keys, NEW v \in Values, NEW height \in List!Levels,
         List!insertNew(k, v, height)
  PROVE  List!Map!Put(k, v)
<1>1. ContentsMatch /\ ContentsMatch'
  BY InsertNewKeeps, ContentsMatchInState, ContentsMatchNext
<1>2. GainsNode(List!NewNode, k, v)
  BY InsertNewLinks
<1>. QED
  BY <1>1, <1>2 DEF ContentsMatch, GainsNode, List!Map!Put

\* A key that goes
LEMMA RemoveDeletes ==
  ASSUME MemInv, NEW k \in Keys, List!remove(k)
  PROVE  List!Map!Delete(k)
<1>1. ContentsMatch /\ ContentsMatch' /\ OneNodePerKey
  BY RemoveKeeps, ContentsMatchInState, ContentsMatchNext DEF MemInv
<1>2. /\ LosesNode(List!Candidate(k))
      /\ List!Candidate(k) \in DOMAIN entry /\ entry[List!Candidate(k)].key = k
  BY RemoveLinks
<1>. QED
  BY <1>1, <1>2 DEF ContentsMatch, LosesNode, OneNodePerKey, List!Map!Delete

\* All keys at once
LEMMA ClearDeletesAll ==
  ASSUME MemInv, List!clear
  PROVE  List!Map!DeleteAll
<1>1. ContentsMatch' /\ DOMAIN entry' = {}
  BY ClearKeeps, ContentsMatchNext
<1>. QED
  BY <1>1 DEF ContentsMatch, List!Map!DeleteAll

\* Nothing
LEMMA StutterKeepsContents ==
  ASSUME MemInv, UNCHANGED memtable
  PROVE  UNCHANGED List!Contents
<1>1. ContentsMatch /\ ContentsMatch'
  BY MemtableStutter, ContentsMatchInState, ContentsMatchNext
<1>2. entry' = entry
  BY DEF memtable
<1>. QED
  BY <1>1, <1>2 DEF ContentsMatch

\* The skip list is an ordered map: insert sets the value of its key, remove
\* deletes its key, a successful flush deletes all, and no other step of the
\* engine changes what the memtable holds.
THEOREM MemtableIsMap == Spec => ImplementsMap
<1>1. Init => List!Map!Init
  <2>1. ASSUME Init
        PROVE  List!Map!Init
    <3>1. ContentsMatch /\ DOMAIN entry = {}
      BY <2>1, EmptyList, ContentsMatchInState DEF Init, List!Init, List!Empty
    <3>. QED
      BY <3>1 DEF ContentsMatch, List!Map!Init
  <2>. QED
    BY <2>1
<1>2. MemInv /\ [Next]_vars => [List!Map!Next]_(List!Contents)
  <2>1. ASSUME MemInv, [Next]_vars
        PROVE  List!Map!Next \/ UNCHANGED List!Contents
    <3>1. CASE UNCHANGED memtable
      BY <2>1, <3>1, StutterKeepsContents
    <3>2. ASSUME NEW k \in Keys, NEW v \in Values, List!insertExisting(k, v)
          PROVE  List!Map!Next
      BY <2>1, <3>2, InsertExistingPuts DEF List!Map!Next
    <3>3. ASSUME NEW k \in Keys, NEW v \in Values, NEW height \in List!Levels,
                 List!insertNew(k, v, height)
          PROVE  List!Map!Next
      BY <2>1, <3>3, InsertNewPuts DEF List!Map!Next
    <3>4. ASSUME NEW k \in Keys, List!remove(k)
          PROVE  List!Map!Next
      BY <2>1, <3>4, RemoveDeletes DEF List!Map!Next
    <3>5. CASE List!clear
      BY <2>1, <3>5, ClearDeletesAll DEF List!Map!Next
    <3>. QED
      BY <2>1, <3>1, <3>2, <3>3, <3>4, <3>5, MemtableSteps
  <2>. QED
    BY <2>1
<1>. DEFINE Calls == \A k \in Keys : /\ \A v \in Values : MemtableInsert(k, v) => List!Map!Put(k, v)
                                     /\ MemtableRemove(k) => List!Map!Delete(k)
<1>3. MemInv => Calls
  <2>1. ASSUME MemInv, NEW k \in Keys, NEW v \in Values, MemtableInsert(k, v)
        PROVE  List!Map!Put(k, v)
    BY <2>1, InsertExistingPuts, InsertNewPuts DEF MemtableInsert, List!insert
  <2>2. ASSUME MemInv, NEW k \in Keys, MemtableRemove(k)
        PROVE  List!Map!Delete(k)
    BY <2>2, RemoveDeletes DEF MemtableRemove
  <2>. QED
    BY <2>1, <2>2
<1>4. Spec => List!Map!Spec
  BY <1>1, <1>2, MemtableInvariant, PTL DEF Spec, List!Map!Spec
<1>5. Spec => [][Calls]_vars
  <2>. HIDE DEF Calls
  <2>. QED
    BY <1>3, MemtableInvariant, PTL
<1>. QED
  BY <1>4, <1>5 DEF ImplementsMap

=============================================================================
