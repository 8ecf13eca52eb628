------------------------------ MODULE SkipList ------------------------------
(***************************************************************************)
(* The skip list of include/skiplist.h, which holds the memtable.          *)
(*                                                                         *)
(* A pointer is the id of a node; levels count from 1.  insert, remove and *)
(* clear run to their end before the next call, so each is one step; the   *)
(* height that random_level draws is any the list allows.                  *)
(***************************************************************************)
EXTENDS Integers, Sequences, FiniteSets

CONSTANTS
  Keys,          \* the keys, ints
  Values,        \* the values
  Nothing,       \* std::nullopt of search
  max_level      \* max_level

VARIABLES
  entry,         \* the key and value of every node of nodes_storage but the head
  forward,       \* the forward pointers of every node, the head included
  current_level  \* current_level

vars == <<entry, forward, current_level>>

head == 0         \* the sentinel
Nil == -1        \* nullptr
Levels == 1 .. max_level
Largest(S) == CHOOSE i \in S : \A j \in S : j <= i

\* The nodes of a level, the head included
OnLevel(i) == {n \in DOMAIN forward : Len(forward[n]) >= i}

-----------------------------------------------------------------------------
(* Searching *)

SmallerOrEqual(n, k) == n # Nil /\ entry[n].key <= k \* mutant: runs past the key
Smaller(n, k) == n # Nil /\ entry[n].key < k
\* The last node of level i, from n on, whose key is smaller than k
Walk(n, i, k) ==
  LET last[m \in OnLevel(i)] ==
        IF Smaller(forward[m][i], k) THEN last[forward[m][i]] ELSE m
  IN  last[n]

\* update: on every level in use the node in front of k, the search of a level
\* starting where that of the level above has ended
update(k) ==
  LET pred[i \in 1 .. current_level + 1] ==
        IF i > current_level THEN head ELSE Walk(pred[i + 1], i, k)
  IN  pred
Candidate(k) == forward[update(k)[1]][1]
HitAny(k) == Candidate(k) # Nil \* mutant: the key is not compared
Hit(k) == Candidate(k) # Nil /\ entry[Candidate(k)].key = k

search(k) == IF Hit(k) THEN entry[Candidate(k)].value ELSE Nothing

-----------------------------------------------------------------------------
(* Changing *)

\* An address no node of nodes_storage has; that of an erased node may come back.
NewNode == CHOOSE n \in 1 .. Cardinality(DOMAIN forward) : n \notin DOMAIN entry

insertExisting(k, v) ==
  /\ Hit(k)
  /\ entry' = [entry EXCEPT ![Candidate(k)].value = v]
  /\ UNCHANGED <<forward, current_level>>

\* A new node of the drawn height is linked behind its predecessors; on a level
\* not in use so far that is the head.
GrownLevel(height) == IF height > current_level THEN height ELSE current_level
insertNew(k, v, height) ==
  LET n == NewNode
      pred(i) == IF i <= current_level THEN update(k)[i] ELSE head
  IN  /\ ~Hit(k)
      /\ entry' = [m \in DOMAIN entry \cup {n} |->
                     IF m = n THEN [key |-> k, value |-> v] ELSE entry[m]]
      /\ forward' = [m \in DOMAIN forward \cup {n} |->
                       IF m = n THEN [i \in 1 .. height |-> forward[pred(i)][i]]
                       ELSE [i \in DOMAIN forward[m] |->
                               IF i <= height /\ pred(i) = m THEN n ELSE forward[m][i]]]
      /\ current_level' = GrownLevel(height)

insert(k, v) ==
  \/ insertExisting(k, v)
  \/ \E height \in Levels : insertNew(k, v, height)

\* The pointers once node t is taken out of the levels that reach it.
UnlinkedBelow(t, k) == \* mutant: the upper levels keep their pointers
  [forward EXCEPT ![update(k)[1]][1] = forward[t][1]]
Unlinked(t, k) ==
  [m \in DOMAIN forward |->
     [i \in DOMAIN forward[m] |->
        IF i <= current_level /\ update(k)[i] = m /\ forward[m][i] = t
        THEN forward[t][i] ELSE forward[m][i]]]

\* Empty upper levels are given up.
ShrunkNever(links) == current_level \* mutant: they are not
Shrunk(links) == Largest({1} \cup {i \in 1 .. current_level : links[head][i] # Nil})

remove(k) ==
  LET t == Candidate(k)
      links == Unlinked(t, k)
  IN  /\ Hit(k)
      /\ entry' = [m \in DOMAIN entry \ {t} |-> entry[m]]
      /\ forward' = [m \in DOMAIN forward \ {t} |-> links[m]]
      /\ current_level' = Shrunk(links)

Empty(e, f, level) ==
  /\ e = [n \in {} |-> Nothing]
  /\ f = [n \in {head} |-> [i \in Levels |-> Nil]]
  /\ level = 1

clear == Empty(entry', forward', current_level')

Init == Empty(entry, forward, current_level)

Next ==
  \/ \E k \in Keys, v \in Values : insert(k, v)
  \/ \E k \in Keys : remove(k)
  \/ clear

Spec == Init /\ [][Next]_vars

-----------------------------------------------------------------------------
(* What the list holds *)

\* The nodes that the pointers of a level lead to from node n on, in their order
Chain(n, i) ==
  LET rest[m \in OnLevel(i) \cup {Nil}] ==
        IF m = Nil THEN <<>> ELSE <<m>> \o rest[forward[m][i]]
  IN  rest[n]
Level(i) == Chain(forward[head][i], i)

\* What an iterator meets on its way along the lowest level
Contents ==
  LET chain == Level(1)
      at(k) == CHOOSE j \in DOMAIN chain : entry[chain[j]].key = k
  IN  [k \in {entry[chain[j]].key : j \in DOMAIN chain} |-> entry[chain[at(k)]].value]

Map == INSTANCE OrderedMap WITH map <- Contents

\* Every pointer is null or leads to a node of nodes_storage, never to an
\* erased one, and a node has between one pointer and max_level.
TypeOK ==
  /\ entry \in [DOMAIN entry -> [key : Keys, value : Values]]
  /\ DOMAIN entry \subseteq Nat \ {head}
  /\ DOMAIN forward = DOMAIN entry \cup {head}
  /\ \A n \in DOMAIN forward :
       /\ forward[n] \in Seq(DOMAIN entry \cup {Nil})
       /\ Len(forward[n]) \in Levels
  /\ Len(forward[head]) = max_level
  /\ current_level \in Levels

\* Each level holds exactly the nodes that are high enough, in ascending order
\* of their keys, whatever heights were drawn and in whatever order keys came
\* and went; current_level is the height of the tallest node.
LevelsInOrder ==
  /\ \A i \in Levels :
       /\ {Level(i)[j] : j \in DOMAIN Level(i)} = OnLevel(i) \ {head}
       /\ \A j \in 1 .. Len(Level(i)) - 1 :
            entry[Level(i)[j]].key < entry[Level(i)[j + 1]].key
  /\ current_level = Largest({1} \cup {Len(forward[n]) : n \in DOMAIN entry})

\* The descent over the levels finds what a walk along the lowest one meets.
SearchFinds ==
  \A k \in Keys :
    search(k) = IF k \in DOMAIN Contents THEN Contents[k] ELSE Nothing
=============================================================================
