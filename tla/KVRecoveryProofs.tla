-------------------------- MODULE KVRecoveryProofs --------------------------
(***************************************************************************)
(* Theorems about what KVStore reads, for every value of its constants:    *)
(* after a restart, a compaction and a crash in it having lost and revived *)
(* nothing, so that the store implements KVMap; and in a process that runs *)
(* on, whose open readers are the files on disk.                           *)
(***************************************************************************)
EXTENDS KVStoreProofs

-----------------------------------------------------------------------------
(* Tables of one block *)

\* Tables hold keys, and data for them.
LEMMA TableFacts ==
  ASSUME NEW t \in Table
  PROVE  /\ DOMAIN t \subseteq Keys
         /\ \A k \in DOMAIN t : t[k] \in Data
  BY DEF Table

\* If all keys fit into one block, Get finds every key of a table.
LEMMA FindsAll ==
  ASSUME NEW t \in Table, Cardinality(Keys) <= KeysPerBlock, NEW k
  PROVE  Finds(t, k) <=> k \in DOMAIN t
<1>. SUFFICES ASSUME k \in DOMAIN t
              PROVE  ~Hidden(t, k)
  BY DEF Finds
<1>. DEFINE D == DOMAIN t
            S == {j \in D : j <= k}
<1>0. D \in SUBSET Keys
  BY TableFacts
<1>1. D \in SUBSET Keys /\ S \in SUBSET D /\ k \in S
  <2>1. k \in Nat /\ k \in D
    BY <1>0, KeysAssumption
  <2>. HIDE DEF D
  <2>. QED
    BY <1>0, <2>1
<1>. HIDE DEF D, S
<1>2. IsFiniteSet(D) /\ Cardinality(D) <= Cardinality(Keys)
  BY <1>1, FS_Subset, KeysAssumption
<1>3. IsFiniteSet(S) /\ Cardinality(S) <= Cardinality(D)
  BY <1>1, <1>2, FS_Subset
<1>4. Cardinality(S) # 0
  BY <1>1, <1>3, FS_EmptySet
<1>5. Cardinality(S) \in Nat /\ Cardinality(D) \in Nat /\ Cardinality(Keys) \in Nat
  BY <1>2, <1>3, FS_CardinalityType, KeysAssumption
<1>6. \A p \in Nat, n \in Nat : 0 < p /\ p < n => p % n = p
  OBVIOUS
<1>7. Cardinality(S) % KeysPerBlock = 0 => ~(Cardinality(S) < Cardinality(D))
  BY <1>2, <1>3, <1>4, <1>5, <1>6, BlockAssumption
<1>. QED
  BY <1>7 DEF Hidden, S, D

-----------------------------------------------------------------------------
(* The newest of several files *)

\* Two files are not each in front of the other, and none is in front of itself.
LEMMA NameLessIsStrict ==
  ASSUME NEW f \in FileName, NEW g \in FileName, NameLess(f, g)
  PROVE  ~NameLess(g, f) /\ f # g
<1>1. /\ Kind(f) \in Nat /\ Kind(g) \in Nat /\ f[2] \in Nat /\ g[2] \in Nat
      /\ Lead(f[2]) \in Nat /\ Lead(g[2]) \in Nat
  BY DEF FileName, Kind, Lead
<1>2. ~NameLess(g, f)
  BY <1>1 DEF NameLess
<1>. QED
  BY <1>2

\* A file behind all others is the newest.
LEMMA NewestIs ==
  ASSUME NEW S \in SUBSET FileName, NEW f \in S, \A g \in S \ {f} : NameLess(g, f)
  PROVE  Newest(S) = f
<1>1. Newest(S) \in S /\ \A g \in S \ {Newest(S)} : NameLess(g, Newest(S))
  BY DEF Newest
<1>2. SUFFICES ASSUME Newest(S) # f PROVE FALSE
  OBVIOUS
<1>3. NameLess(Newest(S), f) /\ NameLess(f, Newest(S))
  BY <1>1, <1>2
<1>. QED
  BY <1>1, <1>3, NameLessIsStrict

\* Files of a later kind sort behind; L0 files of one digit sort by id.
LEMMA KindsInOrder ==
  ASSUME NEW f \in FileName, NEW g \in FileName
  PROVE  /\ f[1] = "L0" /\ g[1] # "L0" => NameLess(f, g)
         /\ f[1] = "L1" /\ g[1] = "L1_temp" => NameLess(f, g)
         /\ f[1] = g[1] /\ f[2] < g[2] /\ g[2] < 10 => NameLess(f, g)
  BY DEF FileName, NameLess, Kind, Lead

-----------------------------------------------------------------------------
(* What a directory answers for a key *)

Directory(d) ==
  /\ d \in [DOMAIN d -> Table \cup {Broken}]
  /\ DOMAIN d \subseteq FileName
  /\ \A f \in DOMAIN d : f[2] <= MaxId

\* The complete files that have the key, and the value in the newest of them
On(d, k) == {f \in DOMAIN d : d[f] # Broken /\ k \in DOMAIN d[f]}
ValueOn(d, k) == IF On(d, k) # {} THEN d[Newest(On(d, k))][k] ELSE Tomb

\* In the terms of KVStore, if all keys fit into one block.
LEMMA StoredOn ==
  ASSUME NEW d, d \in [DOMAIN d -> Table \cup {Broken}], Cardinality(Keys) <= KeysPerBlock, NEW k
  PROVE  {f \in {g \in DOMAIN d : d[g] # Broken} : Finds(d[f], k)} = On(d, k)
<1>1. \A f \in DOMAIN d : d[f] # Broken => (Finds(d[f], k) <=> k \in DOMAIN d[f])
  BY FindsAll
<1>. QED
  BY <1>1 DEF On

\* A restart answers from the log, then from the directory.
Answers(w, d) ==
  [k \in Keys |-> IF k \in DOMAIN Replay(w) THEN Replay(w)[k] ELSE ValueOn(d, k)]

\* RecoveredView in these terms
LEMMA RecoveredAnswers ==
  ASSUME TypeOK, Cardinality(Keys) <= KeysPerBlock
  PROVE  RecoveredView = Answers(wal, files)
<1>1. \A k : Stored(k) = On(files, k)
  BY StoredOn DEF TypeOK, Stored, Readable
<1>. QED
  BY <1>1 DEF RecoveredView, Answers, ValueOn

\* And behind a step
LEMMA RecoveredAnswersNext ==
  ASSUME TypeOK', Cardinality(Keys) <= KeysPerBlock
  PROVE  RecoveredView' = Answers(wal', files')
<1>1. \A k : Stored(k)' = On(files', k)
  BY StoredOn DEF TypeOK, Stored, Readable
<1>. QED
  BY <1>1 DEF RecoveredView, Answers, ValueOn

\* The directory of a reachable state
LEMMA DirectoryFiles == ASSUME IInv PROVE Directory(files)
  BY DEF IInv, TypeOK, IdBounds, Directory

\* The newest file with the key answers.
LEMMA TopAnswers ==
  ASSUME NEW d, Directory(d), NEW k, NEW f \in On(d, k), \A g \in On(d, k) \ {f} : NameLess(g, f)
  PROVE  ValueOn(d, k) = d[f][k]
<1>1. On(d, k) \in SUBSET FileName
  BY DEF On, Directory
<1>2. Newest(On(d, k)) = f
  BY <1>1, NewestIs
<1>. QED
  BY <1>2 DEF ValueOn

\* There is such a file if any has the key.
LEMMA TopExists ==
  ASSUME NEW d, Directory(d), NEW k, On(d, k) # {}
  PROVE  \E f \in On(d, k) : \A g \in On(d, k) \ {f} : NameLess(g, f)
<1>1. On(d, k) \in SUBSET FileName /\ \A f \in On(d, k) : f[2] <= MaxId
  BY DEF On, Directory
<1>. QED
  BY <1>1, NewestExists, BoundAssumption

\* Directories with the same files for a key answer the same.
LEMMA SameAnswer ==
  ASSUME NEW d, NEW e, Directory(d), NEW k, On(d, k) = On(e, k),
         \A f \in On(d, k) : e[f] = d[f]
  PROVE  ValueOn(e, k) = ValueOn(d, k)
<1>1. CASE On(d, k) = {}
  BY <1>1 DEF ValueOn
<1>2. CASE On(d, k) # {}
  <2>1. PICK f \in On(d, k) : \A g \in On(d, k) \ {f} : NameLess(g, f)
    BY <1>2, TopExists
  <2>2. On(d, k) \in SUBSET FileName
    BY DEF On, Directory
  <2>3. Newest(On(d, k)) = f
    BY <2>1, <2>2, NewestIs
  <2>. QED
    BY <2>1, <2>3 DEF ValueOn
<1>. QED
  BY <1>1, <1>2

\* Writing a file that was not complete, without the key
LEMMA HiddenWrite ==
  ASSUME NEW d, Directory(d), NEW f, f \in DOMAIN d => d[f] = Broken,
         NEW x, NEW k, x # Broken => k \notin DOMAIN x
  PROVE  ValueOn(Insert(d, f, x), k) = ValueOn(d, k)
<1>. DEFINE e == Insert(d, f, x)
<1>1. On(e, k) = On(d, k) /\ \A g \in On(d, k) : e[g] = d[g]
  BY DEF On, Insert
<1>. HIDE DEF e
<1>2. ValueOn(e, k) = ValueOn(d, k)
  BY <1>1, SameAnswer
<1>. QED
  BY <1>2 DEF e

\* Removing a file that does not have the key
LEMMA HiddenRemove ==
  ASSUME NEW d, Directory(d), NEW f, NEW k, f \notin On(d, k)
  PROVE  ValueOn(Remove(d, f), k) = ValueOn(d, k)
<1>. DEFINE e == Remove(d, f)
<1>1. On(e, k) = On(d, k) /\ \A g \in On(d, k) : e[g] = d[g]
  BY DEF On, Remove
<1>. HIDE DEF e
<1>2. ValueOn(e, k) = ValueOn(d, k)
  BY <1>1, SameAnswer
<1>. QED
  BY <1>2 DEF e

\* Writing a file with the key behind all complete files
LEMMA NewestWrite ==
  ASSUME NEW d, Directory(d), NEW f \in FileName, f[2] <= MaxId, NEW x \in Table, NEW k \in DOMAIN x,
         \A g \in DOMAIN d \ {f} : d[g] # Broken => NameLess(g, f)
  PROVE  ValueOn(Insert(d, f, x), k) = x[k]
<1>. DEFINE e == Insert(d, f, x)
<1>1. /\ DOMAIN e = DOMAIN d \cup {f} /\ e[f] = x
      /\ \A g \in DOMAIN d \ {f} : e[g] = d[g]
  BY DEF Insert
<1>2. e \in [DOMAIN e -> Table \cup {Broken}]
  BY DEF Directory, Insert
<1>. HIDE DEF e
<1>3. Directory(e)
  BY <1>1, <1>2 DEF Directory
<1>4. f \in On(e, k) /\ \A g \in On(e, k) \ {f} : NameLess(g, f)
  BY <1>1, MarkerAssumption DEF On
<1>5. ValueOn(e, k) = x[k]
  BY <1>1, <1>3, <1>4, TopAnswers
<1>. QED
  BY <1>5 DEF e

\* Removing a file all of whose keys are in another one behind it
LEMMA CoveredRemove ==
  ASSUME NEW d, Directory(d), NEW f \in DOMAIN d, NEW g \in DOMAIN d, d[g] # Broken,
         NameLess(f, g), d[f] # Broken => DOMAIN d[f] \subseteq DOMAIN d[g], NEW k
  PROVE  ValueOn(Remove(d, f), k) = ValueOn(d, k)
<1>1. CASE f \notin On(d, k)
  BY <1>1, HiddenRemove
<1>2. CASE f \in On(d, k)
  <2>. DEFINE e == Remove(d, f)
  <2>1. g \in On(d, k) /\ g \in FileName /\ f \in FileName
    BY <1>2 DEF On, Directory
  <2>2. PICK h \in On(d, k) : \A i \in On(d, k) \ {h} : NameLess(i, h)
    BY <1>2, TopExists
  <2>3. h # f
    BY <2>1, <2>2, NameLessIsStrict
  <2>4. ValueOn(d, k) = d[h][k]
    BY <2>2, TopAnswers
  <2>5. On(e, k) = On(d, k) \ {f} /\ \A i \in On(d, k) \ {f} : e[i] = d[i]
    BY DEF On, Remove
  <2>6. Directory(e)
    BY DEF Directory, Remove
  <2>. HIDE DEF e
  <2>7. ValueOn(e, k) = e[h][k]
    BY <2>2, <2>3, <2>5, <2>6, TopAnswers
  <2>8. ValueOn(e, k) = ValueOn(d, k)
    BY <2>2, <2>3, <2>4, <2>5, <2>7
  <2>. QED
    BY <2>8 DEF e
<1>. QED
  BY <1>1, <1>2

-----------------------------------------------------------------------------
(* What a compaction has written *)

\* Merged, of any directory
OfL0(d) == {f \in DOMAIN d : f[1] = "L0"}
MergedOn(d) ==
  [k \in UNION {DOMAIN d[f] : f \in OfL0(d)} |-> d[Newest({f \in OfL0(d) : k \in DOMAIN d[f]})][k]]

\* It is the Merged of KVStore.
LEMMA MergedIs == Merged(L0Files) = MergedOn(files)
  BY DEF Merged, MergedOn, Holding, L0Files, OfL0

\* It depends on the L0 files only.
LEMMA MergedSame ==
  ASSUME NEW d, Directory(d), NEW e, OfL0(e) = OfL0(d), \A g \in OfL0(d) : e[g] = d[g]
  PROVE  MergedOn(e) = MergedOn(d)
<1>1. \A k : {g \in OfL0(e) : k \in DOMAIN e[g]} = {g \in OfL0(d) : k \in DOMAIN d[g]}
  OBVIOUS
<1>. DEFINE K == UNION {DOMAIN d[g] : g \in OfL0(d)}
            N(k) == Newest({g \in OfL0(d) : k \in DOMAIN d[g]})
<1>2. UNION {DOMAIN e[g] : g \in OfL0(e)} = K
  OBVIOUS
<1>3. ASSUME NEW k \in K
      PROVE  N(k) \in OfL0(d)
  <2>. DEFINE S == {g \in OfL0(d) : k \in DOMAIN d[g]}
  <2>1. S \in SUBSET FileName /\ S # {} /\ \A g \in S : g[2] <= MaxId
    BY DEF OfL0, Directory
  <2>. HIDE DEF S
  <2>2. Newest(S) \in S
    BY <2>1, NewestIsMember, BoundAssumption
  <2>. QED
    BY <2>2 DEF S
<1>4. MergedOn(d) = [k \in K |-> d[N(k)][k]]
  BY DEF MergedOn
<1>5. MergedOn(e) = [k \in K |-> e[N(k)][k]]
  BY <1>1, <1>2 DEF MergedOn
<1>6. \A k \in K : e[N(k)] = d[N(k)]
  BY <1>3
<1>. HIDE DEF K, N
<1>. QED
  BY <1>4, <1>5, <1>6

\* The merge of a directory is a table with all keys of its L0 files; for each
\* of them it has what the L0 files alone would answer.
LEMMA MergedFacts ==
  ASSUME NEW d, Directory(d), \A f \in OfL0(d) : d[f] # Broken
  PROVE  /\ MergedOn(d) \in Table
         /\ DOMAIN MergedOn(d) = UNION {DOMAIN d[f] : f \in OfL0(d)}
         /\ (\A f \in DOMAIN d : d[f] # Broken => f[1] = "L0") =>
              \A k \in DOMAIN MergedOn(d) : MergedOn(d)[k] = ValueOn(d, k)
<1>. DEFINE K == UNION {DOMAIN d[f] : f \in OfL0(d)}
            S(k) == {f \in OfL0(d) : k \in DOMAIN d[f]}
<1>1. \A f \in OfL0(d) : d[f] \in Table /\ f \in FileName /\ f[2] <= MaxId
  BY DEF OfL0, Directory
<1>2. K \in SUBSET Keys
  BY <1>1, TableFacts
<1>3. ASSUME NEW k \in K
      PROVE  Newest(S(k)) \in S(k)
  <2>1. S(k) \in SUBSET FileName /\ S(k) # {} /\ \A g \in S(k) : g[2] <= MaxId
    BY <1>1
  <2>. QED
    BY <2>1, NewestIsMember, BoundAssumption
<1>4. ASSUME NEW k \in K
      PROVE  d[Newest(S(k))][k] \in Data
  BY <1>1, <1>3, TableFacts
<1>5. MergedOn(d) \in [K -> Data]
  BY <1>4 DEF MergedOn
<1>6. ASSUME \A f \in DOMAIN d : d[f] # Broken => f[1] = "L0",
             NEW k \in K
      PROVE  MergedOn(d)[k] = ValueOn(d, k)
  <2>1. On(d, k) = S(k)
    BY <1>6 DEF On, OfL0
  <2>2. S(k) # {}
    BY <1>3
  <2>. QED
    BY <2>1, <2>2 DEF MergedOn, ValueOn
<1>. QED
  BY <1>2, <1>5, <1>6 DEF Table

\* After the merge the temporary file holds it, if its footer was written, and after
\* the rename the L1 file holds every key that an L0 file still has.
Covered ==
  /\ pc = "rename" =>
       /\ L1Temp(next_l1_id) \in DOMAIN files
       /\ files[L1Temp(next_l1_id)] \in {Broken, MergedOn(files)}
       /\ \A f \in OfL0(files) : files[f] # Broken
  /\ pc = "remove" =>
       /\ L1(next_l1_id) \in Readable
       /\ \A f \in OfL0(files) :
            files[f] # Broken /\ DOMAIN files[f] \subseteq DOMAIN files[L1(next_l1_id)]

\* Every step keeps this.
LEMMA CoveredNext ==
  ASSUME IInv, Covered, [Next]_vars
  PROVE  Covered'
<1>0. TypeOK /\ Directory(files) /\ next_l1_id \in Nat \ {0}
  BY DirectoryFiles DEF IInv, TypeOK
<1>1. CASE CompactMerge
  <2>. DEFINE temp == L1Temp(next_l1_id)
  <2>1. temp[1] # "L0" /\ next_l1_id' = next_l1_id /\ pc' = "rename"
    BY <1>0, <1>1, Names DEF CompactMerge, counters
  <2>2. files' = Insert(files, temp, MergedOn(files))
    BY <1>1, MergedIs DEF CompactMerge
  <2>3. \A f \in OfL0(files) : files[f] # Broken
    BY <1>1 DEF IInv, Control, CompactMerge, L0Files, OfL0
  <2>4. L1Temp(next_l1_id)' = temp
    BY <2>1 DEF L1Temp
  <2>. HIDE DEF temp
  <2>5. /\ OfL0(files') = OfL0(files) /\ \A g \in OfL0(files) : files'[g] = files[g]
        /\ MergedOn(files') = MergedOn(files)
    <3>1. OfL0(files') = OfL0(files) /\ \A g \in OfL0(files) : files'[g] = files[g]
      BY <2>1, <2>2 DEF OfL0, Insert
    <3>. QED
      BY <1>0, <3>1, MergedSame
  <2>6. /\ temp \in DOMAIN files' /\ files'[temp] = MergedOn(files)
        /\ \A f \in OfL0(files) : files'[f] = files[f]
    BY <2>1, <2>2 DEF Insert, OfL0
  <2>. QED
    BY <2>1, <2>3, <2>4, <2>5, <2>6 DEF Covered
<1>a. CASE MergeUnnoticed
  <2>1. /\ UNCHANGED <<files, next_l1_id>> /\ pc' = "rename" /\ pc = "merge"
        /\ L1Temp(next_l1_id)' = L1Temp(next_l1_id)
    BY <1>a DEF MergeUnnoticed, disk, counters, L1Temp
  <2>2. /\ L1Temp(next_l1_id) \in DOMAIN files /\ files[L1Temp(next_l1_id)] = Broken
        /\ \A f \in OfL0(files) : files[f] # Broken
    BY <2>1 DEF IInv, Control, L0Files, OfL0
  <2>. QED
    BY <2>1, <2>2 DEF Covered
<1>2. CASE CompactRename
  <2>. DEFINE temp == L1Temp(next_l1_id)
              name == L1(next_l1_id)
  <2>1. temp[1] = "L1_temp" /\ name[1] = "L1" /\ next_l1_id' = next_l1_id /\ pc' = "remove" /\ pc = "rename"
    BY <1>0, <1>2, Names DEF CompactRename, counters
  <2>2. /\ temp \in DOMAIN files /\ files[temp] = MergedOn(files)
        /\ \A f \in OfL0(files) : files[f] # Broken
    BY <1>2, <2>1 DEF Covered, CompactRename
  <2>3. /\ MergedOn(files) \in Table
        /\ DOMAIN MergedOn(files) = UNION {DOMAIN files[f] : f \in OfL0(files)}
    BY <1>0, <2>2, MergedFacts
  <2>4. files' = Insert(Remove(files, temp), name, files[temp])
    BY <1>2 DEF CompactRename
  <2>5. L1(next_l1_id)' = name
    BY <2>1 DEF L1
  <2>. HIDE DEF temp, name
  <2>6. /\ name \in DOMAIN files' /\ files'[name] = MergedOn(files)
        /\ OfL0(files') = OfL0(files)
        /\ \A f \in OfL0(files) : files'[f] = files[f]
    BY <2>1, <2>2, <2>4 DEF Insert, Remove, OfL0
  <2>. QED
    BY <2>1, <2>2, <2>3, <2>5, <2>6, MarkerAssumption DEF Covered, Readable
<1>3. CASE CompactRemove
  <2>1. PICK f \in L0Files : files' = Remove(files, f)
    BY <1>3 DEF CompactRemove
  <2>2. pc = "remove" /\ UNCHANGED <<pc, next_l1_id>>
    BY <1>3 DEF CompactRemove, counters
  <2>3. L1(next_l1_id)[1] # "L0" /\ L1(next_l1_id)' = L1(next_l1_id)
    BY <1>0, <2>2, Names DEF L1
  <2>4. /\ DOMAIN files' = DOMAIN files \ {f}
        /\ \A g \in DOMAIN files' : files'[g] = files[g]
    BY <2>1 DEF Remove
  <2>. QED
    BY <2>2, <2>3, <2>4 DEF Covered, OfL0, L0Files, Readable
<1>4. CASE UNCHANGED <<pc, files, next_l1_id>>
  BY <1>4 DEF Covered, Readable, L1, L1Temp
<1>5. CASE pc' \notin {"rename", "remove"}
  BY <1>5 DEF Covered
<1>. QED
  <2>1. CASE Call \/ Write
    BY <2>1, <1>5 DEF Call, Write, AppendWal, AppendThrows, Put, Del
  <2>2. CASE Flush
    BY <2>2, <1>5 DEF Flush, FlushBegin, FlushFinish, FlushThrows, ClearWal
  <2>3. CASE DoCompaction
    BY <2>3, <1>1, <1>a, <1>2, <1>3, <1>5
    DEF DoCompaction, CompactThrow, CompactBegin, MergeThrows, RenameThrows, CompactEnd
  <2>4. CASE Open
    BY <2>4, <1>5 DEF Open, LoadTable, NextToLoad, SkipBroken, LoadEnd, ReplayRecord, ReplayEnd
  <2>5. CASE Crash
    BY <2>5, <1>5 DEF Crash
  <2>6. CASE UNCHANGED vars
    BY <2>6, <1>4 DEF vars, disk, counters
  <2>. QED
    BY <2>1, <2>2, <2>3, <2>4, <2>5, <2>6 DEF Next

\* In every reachable state
LEMMA CoveredAlways == Spec => []Covered
<1>1. Init => Covered
  BY DEF Init, Covered
<1>. QED
  BY <1>1, CoveredNext, Invariance, PTL DEF Spec

-----------------------------------------------------------------------------
(* What a restart reads in a compaction *)

\* The temporary file is created over none or an incomplete one.
LEMMA BeginAnswers ==
  ASSUME IInv, CompactBegin, \A f \in Readable : f[1] = "L0", NEW k
  PROVE  ValueOn(files', k) = ValueOn(files, k)
<1>. DEFINE temp == L1Temp(next_l1_id)
<1>1. temp[1] # "L0" /\ Directory(files)
  BY Names, DirectoryFiles DEF IInv, TypeOK
<1>2. files' = Insert(files, temp, Broken)
  BY DEF CompactBegin
<1>. HIDE DEF temp
<1>3. temp \in DOMAIN files => files[temp] = Broken
  BY <1>1 DEF Readable
<1>. QED
  BY <1>1, <1>2, <1>3, HiddenWrite

\* The merge, or the part of it that a failed builder leaves, answers as the L0
\* files do.
LEMMA MergeAnswers ==
  ASSUME IInv, pc = "merge", \A f \in Readable : f[1] = "L0",
         NEW x \in Table \cup {Broken},
         x # Broken => /\ DOMAIN x \subseteq DOMAIN Merged(L0Files)
                       /\ \A k \in DOMAIN x : x[k] = Merged(L0Files)[k],
         files' = Insert(files, L1Temp(next_l1_id), x), NEW k
  PROVE  ValueOn(files', k) = ValueOn(files, k)
<1>. DEFINE temp == L1Temp(next_l1_id)
<1>1. /\ temp \in FileName /\ temp[1] = "L1_temp" /\ temp[2] <= MaxId /\ Directory(files)
      /\ \A f \in OfL0(files) : files[f] # Broken
  BY Names, DirectoryFiles, BoundAssumption DEF IInv, TypeOK, IdBounds, Control, OfL0, L0Files
<1>. HIDE DEF temp
<1>2. temp \in DOMAIN files => files[temp] = Broken
  BY <1>1 DEF Readable
<1>3. CASE x # Broken => k \notin DOMAIN x
  BY <1>1, <1>2, <1>3, HiddenWrite DEF temp
<1>4. CASE x # Broken /\ k \in DOMAIN x
  <2>1. \A g \in DOMAIN files \ {temp} : files[g] # Broken => NameLess(g, temp)
    BY <1>1, KindsInOrder DEF Readable, Directory
  <2>2. ValueOn(files', k) = x[k]
    BY <1>1, <1>4, <2>1, NewestWrite DEF temp
  <2>3. x[k] = MergedOn(files)[k] /\ k \in DOMAIN MergedOn(files)
    BY <1>4, MergedIs
  <2>. QED
    BY <1>1, <2>2, <2>3, MergedFacts DEF Readable
<1>. QED
  BY <1>3, <1>4

\* The rename takes the merge from behind the L1 files to behind the L0 files.
LEMMA RenameAnswers ==
  ASSUME IInv, IInv', Covered, CompactRename,
         \A f \in Readable : f[1] = "L0" \/ f = L1Temp(next_l1_id), NEW k
  PROVE  ValueOn(files', k) = ValueOn(files, k)
<1>. DEFINE temp == L1Temp(next_l1_id)
            name == L1(next_l1_id)
            table == files[temp]
            rest == Remove(files, temp)
<1>1. /\ temp \in FileName /\ temp[1] = "L1_temp" /\ name \in FileName /\ name[1] = "L1"
      /\ name[2] <= MaxId /\ Directory(files) /\ temp \in Readable /\ table \in Table
  BY Names, DirectoryFiles, BoundAssumption
  DEF IInv, TypeOK, IdBounds, Control, Readable, CompactRename
<1>2. files' = Insert(rest, name, table)
  BY DEF CompactRename
<1>3. /\ Directory(rest) /\ DOMAIN rest = DOMAIN files \ {temp}
      /\ \A g \in DOMAIN rest : rest[g] = files[g]
  BY <1>1 DEF Directory, Remove
<1>a. \A f \in DOMAIN rest : rest[f] # Broken => f[1] = "L0"
  BY <1>3 DEF Readable
<1>4. CASE k \notin DOMAIN table
  <2>1. temp \notin On(files, k)
    BY <1>4 DEF On
  <2>2. ValueOn(rest, k) = ValueOn(files, k)
    BY <1>1, <2>1, HiddenRemove
  <2>. HIDE DEF temp, name, table, rest
  <2>3. name \in DOMAIN rest => rest[name] = Broken
    BY <1>1, <1>a
  <2>4. table # Broken => k \notin DOMAIN table
    BY <1>4
  <2>5. ValueOn(Insert(rest, name, table), k) = ValueOn(rest, k)
    BY ONLY <1>3, <2>3, <2>4, HiddenWrite
  <2>. QED
    BY <1>2, <2>2, <2>5
<1>5. CASE k \in DOMAIN table
  <2>. HIDE DEF temp, name, table, rest
  <2>1. \A g \in DOMAIN rest \ {name} : rest[g] # Broken => NameLess(g, name)
    BY <1>1, <1>3, <1>a, KindsInOrder DEF Directory
  <2>2. ValueOn(files', k) = table[k]
    BY <1>1, <1>2, <1>3, <1>5, <2>1, NewestWrite
  <2>3. temp \in On(files, k) /\ \A g \in On(files, k) \ {temp} : g[1] = "L0" /\ g \in FileName
    BY <1>1, <1>5 DEF On, Readable, temp, table, Directory
  <2>4. ValueOn(files, k) = files[temp][k]
    BY <1>1, <2>3, KindsInOrder, TopAnswers
  <2>. QED
    BY <2>2, <2>4 DEF table
<1>. QED
  BY <1>4, <1>5

\* The rename of a broken file puts it where no complete file was.
LEMMA RenameThrowsAnswers ==
  ASSUME IInv, RenameThrows, \A f \in Readable : f[1] = "L0" \/ f = L1Temp(next_l1_id), NEW k
  PROVE  ValueOn(files', k) = ValueOn(files, k)
<1>. DEFINE temp == L1Temp(next_l1_id)
            name == L1(next_l1_id)
            rest == Remove(files, temp)
<1>1. /\ temp[1] = "L1_temp" /\ name[1] = "L1" /\ Directory(files)
      /\ files[temp] = Broken /\ files' = Insert(rest, name, Broken)
  BY Names, DirectoryFiles DEF IInv, TypeOK, RenameThrows
<1>2. /\ Directory(rest) /\ DOMAIN rest = DOMAIN files \ {temp}
      /\ \A g \in DOMAIN rest : rest[g] = files[g]
  BY <1>1 DEF Directory, Remove
<1>3. ValueOn(rest, k) = ValueOn(files, k)
  <2>1. temp \notin On(files, k)
    BY <1>1 DEF On
  <2>. QED
    BY <1>1, <2>1, HiddenRemove
<1>4. name \in DOMAIN rest => rest[name] = Broken
  BY <1>1, <1>2 DEF Readable
<1>. HIDE DEF temp, name, rest
<1>5. ValueOn(Insert(rest, name, Broken), k) = ValueOn(rest, k)
  BY <1>2, <1>4, HiddenWrite
<1>. QED
  BY <1>1, <1>3, <1>5

\* An L0 file goes when the L1 file has all of its keys.
LEMMA RemoveAnswers ==
  ASSUME IInv, Covered, CompactRemove, NEW k
  PROVE  ValueOn(files', k) = ValueOn(files, k)
<1>. DEFINE name == L1(next_l1_id)
<1>1. PICK f \in L0Files : files' = Remove(files, f)
  BY DEF CompactRemove
<1>2. /\ Directory(files) /\ f \in DOMAIN files /\ f[1] = "L0" /\ f \in FileName
      /\ name \in FileName /\ name[1] # "L0"
  BY Names, DirectoryFiles DEF IInv, TypeOK, L0Files
<1>3. name \in DOMAIN files /\ files[name] # Broken /\ DOMAIN files[f] \subseteq DOMAIN files[name]
  BY <1>2 DEF Covered, CompactRemove, Readable, OfL0
<1>. HIDE DEF name
<1>4. NameLess(f, name)
  BY <1>2, KindsInOrder
<1>. QED
  BY <1>1, <1>2, <1>3, <1>4, CoveredRemove

\* The log stays, so only the directory counts.
LEMMA SameView ==
  ASSUME IInv, IInv', WithinLimits, UNCHANGED wal,
         \A k \in Keys : ValueOn(files', k) = ValueOn(files, k)
  PROVE  RecoveredView' = RecoveredView
<1>1. /\ RecoveredView = Answers(wal, files)
      /\ RecoveredView' = Answers(wal', files')
  BY RecoveredAnswers, RecoveredAnswersNext DEF IInv, WithinLimits
<1>. QED
  BY <1>1 DEF Answers

\* A compaction that begins, merges or renames with no complete file but L0 files
\* and its own, within the limits of the files: a crash behind any of these steps,
\* the rename of a broken file included, reads what a crash in front of it would
\* have read.
THEOREM CompactionDurableAlways == Spec => CompactionDurable
<1>1. ASSUME IInv, IInv', Covered, WithinLimits, OnlyItsOwn,
             CompactBegin \/ CompactMerge \/ MergeUnnoticed \/ CompactRename \/ RenameThrows
      PROVE  RecoveredView' = RecoveredView
  <2>1. CASE CompactBegin
    <3>1. \A f \in Readable : f[1] = "L0"
      BY <1>1, <2>1 DEF CompactBegin, OnlyItsOwn
    <3>2. \A k \in Keys : ValueOn(files', k) = ValueOn(files, k)
      BY <1>1, <2>1, <3>1, BeginAnswers
    <3>. QED
      BY <1>1, <2>1, <3>2, SameView DEF CompactBegin, log
  <2>2. CASE CompactMerge
    <3>1. pc = "merge" /\ \A f \in Readable : f[1] = "L0"
      BY <1>1, <2>2 DEF CompactMerge, OnlyItsOwn
    <3>2. Merged(L0Files) \in Table
      BY <1>1, <3>1, MergedTable DEF IInv, Control
    <3>3. files' = Insert(files, L1Temp(next_l1_id), Merged(L0Files)) /\ UNCHANGED wal
      BY <2>2 DEF CompactMerge, log
    <3>4. \A k \in Keys : ValueOn(files', k) = ValueOn(files, k)
      BY <1>1, <3>1, <3>2, <3>3, MergeAnswers
    <3>. QED
      BY <1>1, <3>3, <3>4, SameView
  <2>3. CASE MergeUnnoticed
    BY <1>1, <2>3, SameView DEF MergeUnnoticed, disk, log
  <2>4. CASE CompactRename
    <3>1. \A k \in Keys : ValueOn(files', k) = ValueOn(files, k)
      BY <1>1, <2>4, RenameAnswers DEF OnlyItsOwn
    <3>. QED
      BY <1>1, <2>4, <3>1, SameView DEF CompactRename, log
  <2>5. CASE RenameThrows
    <3>1. \A k \in Keys : ValueOn(files', k) = ValueOn(files, k)
      BY <1>1, <2>5, RenameThrowsAnswers DEF OnlyItsOwn
    <3>. QED
      BY <1>1, <2>5, <3>1, SameView DEF RenameThrows, log
  <2>. QED
    BY <1>1, <2>1, <2>2, <2>3, <2>4, <2>5
<1>2. ASSUME IInv, IInv', Covered, [Next]_vars
      PROVE  [/\ WithinLimits /\ OnlyItsOwn
              /\ CompactBegin \/ CompactMerge \/ MergeUnnoticed \/ CompactRename \/ RenameThrows
              => RecoveredView' = RecoveredView]_vars
  BY <1>1, <1>2
<1>. QED
  BY <1>2, Invariance, CoveredAlways, PTL DEF Spec, CompactionDurable

\* Within the limits of the files and whatever other files there are, no L0 file is
\* removed before the L1 file behind it has its keys.
THEOREM RemoveDurableAlways == Spec => RemoveDurable
<1>1. ASSUME IInv, IInv', Covered, CompactRemove, WithinLimits
      PROVE  RecoveredView' = RecoveredView
  <2>1. \A k \in Keys : ValueOn(files', k) = ValueOn(files, k)
    BY <1>1, RemoveAnswers
  <2>. QED
    BY <1>1, <2>1, SameView DEF CompactRemove, log
<1>2. ASSUME IInv, IInv', Covered, [Next]_vars
      PROVE  [CompactRemove /\ WithinLimits => RecoveredView' = RecoveredView]_vars
  BY <1>1, <1>2
<1>. QED
  BY <1>2, Invariance, CoveredAlways, PTL DEF Spec, RemoveDurable

-----------------------------------------------------------------------------
(* The store as a durable map *)

\* Where Durable is claimed: no torn and no thrown records, calls over L0 files
\* only, ids of one digit, keys that fit into one block.
Simple ==
  /\ ~TornWrites /\ "append" \notin Errors /\ ~CallsOverL1
  /\ MaxId < 10 /\ Cardinality(Keys) <= KeysPerBlock

OnlyL0 == \A f \in Readable : f[1] = "L0"

\* With calls over L0 files only: a complete file of another kind is there only while
\* log and memtable are empty, and it is not there while a merge is written.
Alone ==
  /\ ~OnlyL0 => /\ pc \in {"idle", "load", "replay", "rename", "remove"}
                /\ wal = <<>> /\ memtable = EmptyTable
  /\ pc = "rename" => \A f \in Readable : f[1] = "L0" \/ f = L1Temp(next_l1_id)

\* A compaction runs over an empty log and an empty memtable.
Emptied ==
  pc \in {"compact", "merge", "rename", "remove"} => wal = <<>> /\ memtable = EmptyTable

\* So it is when it starts, and it leaves them so.
LEMMA CompactionsEmptied ==
  ASSUME Emptied, DoCompaction
  PROVE  wal' = <<>> /\ memtable' = EmptyTable
  BY DEF Emptied, DoCompaction, CompactThrow, CompactBegin, CompactMerge, MergeThrows, MergeUnnoticed,
         CompactRename, RenameThrows, CompactRemove, CompactEnd, disk, log

\* Every step keeps this.
LEMMA EmptiedNext ==
  ASSUME MemInv, Emptied, [Next]_vars
  PROVE  Emptied'
<1>1. CASE DoCompaction
  BY <1>1, CompactionsEmptied DEF Emptied
<1>2. CASE ClearWal
  BY <1>2 DEF MemInv, Emptied, ClearWal
<1>3. CASE Open
  BY <1>3 DEF Emptied, Open, LoadTable, SkipBroken, NextToLoad, LoadEnd, ReplayRecord, ReplayEnd
<1>4. CASE UNCHANGED vars
  BY <1>4 DEF Emptied, vars, disk, log
<1>. QED
  BY <1>1, <1>2, <1>3, <1>4
  DEF Emptied, Next, Call, Write, AppendWal, AppendThrows, Put, Del, Flush, FlushBegin, FlushFinish,
      FlushThrows, Crash

\* In every reachable state
LEMMA EmptiedAlways == Spec => []Emptied
<1>1. Init => Emptied
  BY DEF Init, Emptied
<1>. QED
  BY <1>1, EmptiedNext, MemInit, MemNext, Invariance, PTL DEF Spec

\* A write leaves the files alone, which are all of level 0.
LEMMA WriteAlone ==
  ASSUME ~CallsOverL1, IInv, Alone, Call \/ Write
  PROVE  Alone'
<1>1. pc \in {"idle", "append", "apply"} /\ pc' \in {"append", "apply", "flush", "idle"} /\ UNCHANGED files
  BY DEF Call, Write, AppendWal, AppendThrows, Put, Del, disk
<1>2. OnlyL0 /\ OnlyL0'
  <2>1. CASE Call
    BY <2>1 DEF OnlyL0, Readable, Call, disk
  <2>2. CASE Write
    <3>1. pc \in {"append", "apply"}
      BY <2>2 DEF Write, AppendWal, AppendThrows, Put, Del
    <3>. QED
      BY <1>1, <3>1 DEF Alone, OnlyL0, Readable
  <2>. QED
    BY <2>1, <2>2
<1>. QED
  BY <1>1, <1>2 DEF Alone

\* A flush adds a file of level 0.
LEMMA FlushAlone ==
  ASSUME IInv, MemInv, Alone, Flush
  PROVE  Alone'
<1>0. next_sstable_id \in Nat \ {0}
  BY DEF IInv, TypeOK
<1>1. CASE FlushBegin
  <2>1. OnlyL0 /\ L0(next_sstable_id)[1] = "L0"
    BY <1>0, <1>1, Names DEF Alone, FlushBegin, EmptyTable
  <2>2. files' = Insert(files, L0(next_sstable_id), Broken) /\ pc' = "build"
    BY <1>1 DEF FlushBegin
  <2>3. OnlyL0'
    BY <2>1, <2>2 DEF OnlyL0, Readable, Insert
  <2>. QED
    BY <2>2, <2>3 DEF Alone
<1>2. CASE FlushFinish \/ FlushThrows
  <2>1. OnlyL0 /\ L0(next_sstable_id - 1)[1] = "L0" /\ pc' \in {"clear", "idle"}
    BY <1>2, Names DEF IInv, Control, Alone, FlushFinish, FlushThrows
  <2>2. PICK x : files' = Insert(files, L0(next_sstable_id - 1), x)
    BY <1>2 DEF FlushFinish, FlushThrows
  <2>3. OnlyL0'
    BY <2>1, <2>2 DEF OnlyL0, Readable, Insert
  <2>. QED
    BY <2>1, <2>3 DEF Alone
<1>3. CASE ClearWal
  <2>1. pc = "clear" /\ wal' = <<>> /\ pc' \in {"compact", "idle"} /\ UNCHANGED <<files, memtable>>
    BY <1>3 DEF ClearWal
  <2>2. OnlyL0 /\ OnlyL0' /\ memtable = EmptyTable
    BY <2>1 DEF Alone, OnlyL0, Readable, MemInv
  <2>. QED
    BY <2>1, <2>2 DEF Alone
<1>. QED
  BY <1>1, <1>2, <1>3 DEF Flush

\* A compaction adds its own file, over an empty log.
LEMMA CompactAlone ==
  ASSUME IInv, Emptied, Alone, DoCompaction
  PROVE  Alone'
<1>1. wal' = <<>> /\ memtable' = EmptyTable
  BY CompactionsEmptied
<1>2. next_l1_id \in Nat \ {0}
  BY DEF IInv, TypeOK
<1>3. CASE CompactBegin
  <2>1. files' = Insert(files, L1Temp(next_l1_id), Broken) /\ pc' = "merge"
    BY <1>3 DEF CompactBegin
  <2>2. OnlyL0
    BY <1>3 DEF Alone, CompactBegin
  <2>3. OnlyL0'
    BY <2>1, <2>2 DEF OnlyL0, Readable, Insert
  <2>. QED
    BY <2>1, <2>3 DEF Alone
<1>4. CASE CompactMerge \/ MergeUnnoticed
  <2>1. OnlyL0 /\ pc' = "rename" /\ next_l1_id' = next_l1_id
    BY <1>4 DEF Alone, CompactMerge, MergeUnnoticed, counters
  <2>2. \A f \in Readable' : f[1] = "L0" \/ f = L1Temp(next_l1_id)
    BY <1>4, <2>1 DEF CompactMerge, MergeUnnoticed, OnlyL0, Readable, Insert, disk
  <2>. QED
    BY <1>1, <2>1, <2>2 DEF Alone, L1Temp
<1>5. CASE pc' \in {"idle", "remove"}
  BY <1>1, <1>5 DEF Alone
<1>. QED
  BY <1>3, <1>4, <1>5
  DEF DoCompaction, CompactThrow, MergeThrows, CompactRename, RenameThrows, CompactRemove, CompactEnd

\* A crash and the constructor leave the files; a torn record needs a running write.
LEMMA OpenAlone ==
  ASSUME Alone, Open \/ Crash \/ UNCHANGED vars
  PROVE  Alone'
<1>1. CASE Crash
  <2>1. pc' = "load" /\ memtable' = EmptyTable /\ UNCHANGED files /\ (pc # "append" => wal' = wal)
    BY <1>1 DEF Crash
  <2>. QED
    BY <2>1 DEF Alone, OnlyL0, Readable
<1>2. CASE ReplayRecord
  <2>1. wal # <<>> /\ pc = "replay" /\ UNCHANGED <<wal, files, pc>>
    BY <1>2 DEF ReplayRecord, disk, log
  <2>. QED
    BY <2>1 DEF Alone, OnlyL0, Readable
<1>3. CASE LoadTable \/ SkipBroken \/ LoadEnd \/ ReplayEnd
  <2>1. /\ pc \in {"load", "replay"} /\ pc' \in {"load", "replay", "idle"}
        /\ UNCHANGED <<wal, files, memtable>>
    BY <1>3 DEF LoadTable, SkipBroken, NextToLoad, LoadEnd, ReplayEnd, disk, log
  <2>. QED
    BY <2>1 DEF Alone, OnlyL0, Readable
<1>4. CASE UNCHANGED vars
  BY <1>4 DEF Alone, OnlyL0, Readable, vars, disk, log, counters
<1>. QED
  BY <1>1, <1>2, <1>3, <1>4 DEF Open

\* Every step keeps it.
LEMMA AloneNext ==
  ASSUME ~CallsOverL1, IInv, MemInv, Emptied, Alone, [Next]_vars
  PROVE  Alone'
  BY WriteAlone, FlushAlone, CompactAlone, OpenAlone DEF Next

\* And where the log is whole: behind a flush the new file has what the log has.
Layers ==
  /\ Alone
  /\ \A i \in DOMAIN wal : wal[i] # Torn
  /\ thrown = {}
  /\ pc = "clear" =>
       /\ L0(next_sstable_id - 1) \in Readable
       /\ Agree(files[L0(next_sstable_id - 1)], Replay(wal))

\* Every step keeps that.
LEMMA LayersNext ==
  ASSUME Simple, IInv, MemInv, Emptied, Layers, [Next]_vars
  PROVE  Layers'
<1>0. Alone' /\ next_sstable_id \in Nat \ {0} /\ memtable \in Table
  BY AloneNext DEF Simple, Layers, IInv, TypeOK
<1>1. CASE FlushFinish
  <2>. DEFINE name == L0(next_sstable_id - 1)
  <2>1. /\ pc = "build" /\ pc' = "clear" /\ UNCHANGED <<wal, thrown, next_sstable_id>>
        /\ files' = Insert(files, name, memtable)
    BY <1>1 DEF FlushFinish, log, counters
  <2>2. name' = name
    BY <2>1 DEF L0
  <2>3. Agree(memtable, Replay(wal))
    BY <2>1 DEF MemInv, MemtableIsReplay, TornAtEnd, Layers, Running
  <2>4. name \in DOMAIN files' /\ files'[name] = memtable /\ memtable # Broken
    BY <1>0, <2>1, MarkerAssumption DEF Insert
  <2>5. Agree(files[name], Replay(wal))'
    BY <2>1, <2>2, <2>3, <2>4 DEF Agree
  <2>6. (name \in Readable)'
    BY <2>2, <2>4 DEF Readable
  <2>. QED
    BY <1>0, <2>1, <2>5, <2>6 DEF Layers
<1>2. CASE UNCHANGED vars
  BY <1>0, <1>2 DEF Layers, vars, disk, log, counters, Readable, Agree
<1>3. ASSUME ~FlushFinish, ~UNCHANGED vars
      PROVE  /\ pc' # "clear" /\ (thrown' = thrown \/ thrown' = {})
             /\ \/ wal' \in {wal, <<>>}
                \/ wal' = Append(wal, call) /\ call \in Record
  <2>1. CASE Call \/ Write
    BY <2>1 DEF Simple, IInv, Control, Call, Write, AppendWal, AppendThrows, Put, Del, disk, log
  <2>2. CASE Flush
    BY <1>3, <2>2 DEF Flush, FlushBegin, FlushThrows, ClearWal, log
  <2>3. CASE DoCompaction
    BY <2>3 DEF DoCompaction, CompactThrow, CompactBegin, CompactMerge, MergeThrows, MergeUnnoticed,
                CompactRename, RenameThrows, CompactRemove, CompactEnd, disk, log
  <2>4. CASE Open
    BY <2>4 DEF Open, LoadTable, SkipBroken, NextToLoad, LoadEnd, ReplayRecord, ReplayEnd, disk, log
  <2>5. CASE Crash
    BY <2>5 DEF Simple, Crash
  <2>. QED
    BY <1>3, <2>1, <2>2, <2>3, <2>4, <2>5 DEF Next
<1>4. CASE ~FlushFinish /\ ~UNCHANGED vars
  <2>1. \A i \in DOMAIN wal' : wal'[i] # Torn
    <3>1. wal \in Seq(Record \cup {Torn}) /\ \A i \in DOMAIN wal : wal[i] # Torn
      BY DEF IInv, TypeOK, Layers
    <3>2. CASE wal' = Append(wal, call) /\ call \in Record
      BY <3>1, <3>2, MarkerAssumption
    <3>3. CASE wal' \in {wal, <<>>}
      BY <3>1, <3>3
    <3>. QED
      BY <1>3, <1>4, <3>2, <3>3
  <2>. QED
    BY <1>0, <1>3, <1>4, <2>1 DEF Layers
<1>. QED
  BY <1>1, <1>2, <1>4

\* In every reachable state
LEMMA LayersAlways == ASSUME Simple PROVE Spec => []Layers
<1>1. Init => Layers
  BY DEF Init, Layers, Alone, OnlyL0, Readable, EmptyTable
<1>2. IInv /\ MemInv /\ Emptied /\ Layers /\ [Next]_vars => Layers'
  BY LayersNext
<1>. QED
  BY <1>1, <1>2, MemInit, MemNext, Invariance, EmptiedAlways, PTL DEF Spec

\* Nothing but the append of a record changes what a restart reads.
LEMMA FlushBeginSame ==
  ASSUME Simple, IInv, IInv', FlushBegin
  PROVE  RecoveredView' = RecoveredView
<1>. DEFINE name == L0(next_sstable_id)
<1>1. /\ name \in FileName /\ name[1] = "L0" /\ name[2] = next_sstable_id /\ Directory(files)
      /\ pending = {} /\ next_sstable_id \in Nat
  BY Names, DirectoryFiles DEF IInv, TypeOK, Control, FlushBegin
<1>2. name \in DOMAIN files => files[name] = Broken
  <2>1. name \in Readable => FALSE
    BY <1>1 DEF IInv, FreshId
  <2>. QED
    BY <2>1 DEF Readable
<1>3. files' = Insert(files, name, Broken) /\ UNCHANGED wal
  BY DEF FlushBegin, log
<1>. HIDE DEF name
<1>4. \A k \in Keys : ValueOn(files', k) = ValueOn(files, k)
  BY <1>1, <1>2, <1>3, HiddenWrite
<1>5. /\ RecoveredView = Answers(wal, files)
      /\ RecoveredView' = Answers(wal', files')
  BY RecoveredAnswers, RecoveredAnswersNext DEF IInv, Simple
<1>. QED
  BY <1>3, <1>4, <1>5 DEF Answers

\* The keys of the new file, or of what is left of it, are in the log.
LEMMA FlushEndSame ==
  ASSUME Simple, IInv, IInv', MemInv, Layers, FlushFinish \/ FlushThrows
  PROVE  RecoveredView' = RecoveredView
<1>. DEFINE name == L0(next_sstable_id - 1)
<1>1. PICK x : /\ files' = Insert(files, name, x)
               /\ x # Broken => DOMAIN x \subseteq DOMAIN memtable
  BY DEF FlushFinish, FlushThrows, Leftovers
<1>2. /\ pc = "build" /\ UNCHANGED wal /\ Directory(files)
      /\ name \in DOMAIN files /\ files[name] = Broken
      /\ DOMAIN memtable \subseteq Keys
  BY DirectoryFiles, TableFacts DEF IInv, TypeOK, Control, FlushFinish, FlushThrows, log
<1>3. Agree(memtable, Replay(wal)) /\ thrown = {}
  BY <1>2 DEF MemInv, MemtableIsReplay, TornAtEnd, Layers, Running
<1>. HIDE DEF name
<1>4. ASSUME NEW k \in Keys, k \notin DOMAIN Replay(wal)
      PROVE  ValueOn(files', k) = ValueOn(files, k)
  <2>1. k \notin DOMAIN memtable
    BY <1>3, <1>4 DEF Agree
  <2>2. x # Broken => k \notin DOMAIN x
    BY <1>1, <2>1
  <2>. QED
    BY <1>1, <1>2, <2>2, HiddenWrite
<1>5. /\ RecoveredView = Answers(wal, files)
      /\ RecoveredView' = Answers(wal', files')
  BY RecoveredAnswers, RecoveredAnswersNext DEF IInv, Simple
<1>. QED
  BY <1>2, <1>4, <1>5 DEF Answers

\* An empty log has nothing to replay.
LEMMA NothingLogged == Replay(<<>>) = EmptyTable
<1>1. <<>> \in Log /\ Len(<<>>) = 0
  BY DEF Log
<1>. QED
  BY <1>1, ReplayEmpty

\* The log goes when the newest file has all of it.
LEMMA ClearSame ==
  ASSUME Simple, IInv, IInv', Layers, ClearWal
  PROVE  RecoveredView' = RecoveredView
<1>. DEFINE name == L0(next_sstable_id - 1)
<1>1. /\ pc = "clear" /\ wal' = <<>> /\ UNCHANGED files /\ Directory(files)
      /\ next_sstable_id \in Nat \ {0} /\ pending = {} /\ thrown = {}
      /\ next_sstable_id <= MaxId + 1
  BY DirectoryFiles DEF IInv, TypeOK, IdBounds, Control, Layers, ClearWal
<1>2. name \in Readable /\ Agree(files[name], Replay(wal)) /\ OnlyL0
  BY <1>1 DEF Layers, Alone
<1>3. name \in FileName /\ name[1] = "L0" /\ name[2] = next_sstable_id - 1
  <2>1. name \in FileName /\ name[2] = next_sstable_id - 1
    BY <1>2 DEF IInv, TypeOK, Readable, L0
  <2>. QED
    BY <2>1 DEF L0
<1>4. ASSUME NEW g \in Readable \ {name}
      PROVE  NameLess(g, name)
  <2>1. g \in FileName /\ g[1] = "L0" /\ g[2] \in Nat
    BY <1>2 DEF OnlyL0, IInv, TypeOK, Readable, FileName
  <2>2. g[2] < next_sstable_id
    BY <1>1, <2>1 DEF IInv, FreshId
  <2>3. g[2] # name[2]
    BY <1>3, <1>4, <2>1 DEF FileName
  <2>4. g[2] < name[2] /\ name[2] < 10
    BY <1>1, <1>3, <2>1, <2>2, <2>3, BoundAssumption DEF Simple
  <2>. QED
    BY <1>3, <2>1, <2>4, KindsInOrder
<1>. HIDE DEF name
<1>5. ASSUME NEW k \in Keys, k \in DOMAIN Replay(wal)
      PROVE  ValueOn(files, k) = Replay(wal)[k]
  <2>1. k \in DOMAIN files[name] /\ files[name][k] = Replay(wal)[k]
    BY <1>1, <1>2, <1>5 DEF Agree
  <2>2. name \in On(files, k) /\ \A g \in On(files, k) \ {name} : NameLess(g, name)
    BY <1>2, <1>4, <2>1 DEF On, Readable
  <2>. QED
    BY <1>1, <2>1, <2>2, TopAnswers
<1>6. Replay(wal') = EmptyTable
  BY <1>1, NothingLogged
<1>7. /\ RecoveredView = Answers(wal, files)
      /\ RecoveredView' = Answers(wal', files')
  BY RecoveredAnswers, RecoveredAnswersNext DEF IInv, Simple
<1>. QED
  BY <1>1, <1>5, <1>6, <1>7 DEF Answers, EmptyTable

\* A compaction works over L0 files only.
LEMMA CompactSame ==
  ASSUME Simple, IInv, IInv', Layers, Covered, DoCompaction
  PROVE  RecoveredView' = RecoveredView
<1>1. UNCHANGED wal
  BY DEF DoCompaction, CompactThrow, CompactBegin, CompactMerge, MergeThrows, MergeUnnoticed,
         CompactRename, RenameThrows, CompactRemove, CompactEnd, disk, log
<1>2. pc \in {"compact", "merge"} => \A f \in Readable : f[1] = "L0"
  BY DEF Layers, Alone, OnlyL0
<1>3. pc = "rename" => \A f \in Readable : f[1] = "L0" \/ f = L1Temp(next_l1_id)
  BY DEF Layers, Alone
<1>4. ASSUME NEW k \in Keys
      PROVE  ValueOn(files', k) = ValueOn(files, k)
  <2>1. CASE CompactThrow \/ MergeUnnoticed \/ CompactEnd
    BY <2>1 DEF CompactThrow, MergeUnnoticed, CompactEnd, disk
  <2>2. CASE CompactBegin
    BY <1>2, <2>2, BeginAnswers DEF CompactBegin
  <2>3. CASE CompactMerge \/ MergeThrows
    <3>. DEFINE t == Merged(L0Files)
    <3>1. pc = "merge" /\ t \in Table
      BY <2>3, MergedTable DEF IInv, Control, CompactMerge, MergeThrows
    <3>2. PICK x \in {t} \cup Leftovers(t) : files' = Insert(files, L1Temp(next_l1_id), x)
      BY <2>3 DEF CompactMerge, MergeThrows
    <3>3. x \in Table \cup {Broken}
      BY <3>1, <3>2, LeftoversAreFiles
    <3>. HIDE DEF t
    <3>4. x # Broken => DOMAIN x \subseteq DOMAIN t /\ \A j \in DOMAIN x : x[j] = t[j]
      BY <3>2 DEF Leftovers
    <3>. QED
      BY <1>2, <3>1, <3>2, <3>3, <3>4, MergeAnswers DEF t
  <2>4. CASE CompactRename
    BY <1>3, <2>4, RenameAnswers DEF CompactRename
  <2>5. CASE RenameThrows
    BY <1>3, <2>5, RenameThrowsAnswers DEF RenameThrows
  <2>6. CASE CompactRemove
    BY <2>6, RemoveAnswers
  <2>. QED
    BY <2>1, <2>2, <2>3, <2>4, <2>5, <2>6 DEF DoCompaction
<1>5. /\ RecoveredView = Answers(wal, files)
      /\ RecoveredView' = Answers(wal', files')
  BY RecoveredAnswers, RecoveredAnswersNext DEF IInv, Simple
<1>. QED
  BY <1>1, <1>4, <1>5 DEF Answers

\* What a restart reads is a function of log and files.
LEMMA DiskSame ==
  ASSUME UNCHANGED <<wal, files>>
  PROVE  RecoveredView' = RecoveredView
  BY DEF RecoveredView, Stored, Readable, Newest

\* The append of a record sets its key.
LEMMA AppendCommits ==
  ASSUME Simple, IInv, IInv', Layers, AppendWal
  PROVE  RecoveredView' = [RecoveredView EXCEPT ![call.key] = call.val]
<1>1. /\ wal \in Log /\ call \in Record /\ wal' = Append(wal, call) /\ UNCHANGED files
      /\ \A i \in DOMAIN wal : wal[i] # Torn
  BY DEF IInv, TypeOK, Control, AppendWal, Log, Layers
<1>2. Replay(wal') = Insert(Replay(wal), call.key, call.val)
  BY <1>1, ReplayAppend
<1>3. /\ RecoveredView = Answers(wal, files)
      /\ RecoveredView' = Answers(wal', files')
  BY RecoveredAnswers, RecoveredAnswersNext DEF IInv, Simple
<1>4. call.key \in Keys
  BY <1>1 DEF Record
<1>5. ASSUME NEW k \in Keys
      PROVE  RecoveredView'[k] = [RecoveredView EXCEPT ![call.key] = call.val][k]
  BY <1>1, <1>2, <1>3, <1>4 DEF Answers, Insert
<1>6. /\ RecoveredView' = [k \in Keys |-> RecoveredView'[k]]
      /\ [RecoveredView EXCEPT ![call.key] = call.val]
           = [k \in Keys |-> [RecoveredView EXCEPT ![call.key] = call.val][k]]
  BY <1>3 DEF Answers
<1>. QED
  BY <1>5, <1>6

\* The map is empty at the beginning.
LEMMA MapInit == Init => Map!Init
<1>. SUFFICES ASSUME Init PROVE Map!Init
  OBVIOUS
<1>1. wal = <<>> /\ files = EmptyTable /\ pc = "load" /\ call = NoCall
  BY DEF Init
<1>2. Replay(wal) = EmptyTable
  BY <1>1, NothingLogged
<1>3. Readable = {}
  BY <1>1 DEF Readable, EmptyTable
<1>4. RecoveredView = [k \in Keys |-> Tomb]
  BY <1>2, <1>3 DEF RecoveredView, Stored, EmptyTable
<1>. QED
  BY <1>1, <1>4 DEF Map!Init, Running

\* Each step of the store is one of the map or leaves it.
LEMMA MapStep ==
  ASSUME Simple, IInv, IInv', MemInv, Layers, Covered, [Next]_vars
  PROVE  [Map!Next]_(Map!vars)
<1>. DEFINE write == IF pc = "append" THEN call ELSE NoCall
            up == pc \in Running
<1>1. CASE Call
  <2>1. RecoveredView' = RecoveredView
    BY <1>1, DiskSame DEF Call, disk, log
  <2>2. /\ up /\ write = NoCall /\ write' \in Map!Record /\ up'
    BY <1>1 DEF Call, Running, Record, Data, Map!Record
  <2>. QED
    BY <2>1, <2>2 DEF Map!Next, Map!Call
<1>2. CASE AppendWal
  <2>1. RecoveredView' = [RecoveredView EXCEPT ![call.key] = call.val]
    BY <1>2, AppendCommits
  <2>2. /\ up /\ write = call /\ call # NoCall /\ write' = NoCall /\ up'
    BY <1>2, MarkerAssumption DEF IInv, Control, AppendWal, Running
  <2>. QED
    BY <2>1, <2>2 DEF Map!Next, Map!Commit
<1>3. CASE Crash
  <2>1. RecoveredView' = RecoveredView
    BY <1>3, DiskSame DEF Simple, Crash
  <2>2. ~up' /\ write' = NoCall
    BY <1>3 DEF Crash, Running
  <2>. QED
    BY <2>1, <2>2 DEF Map!Next, Map!Crash
<1>4. CASE ReplayEnd
  <2>1. RecoveredView' = RecoveredView
    BY <1>4, DiskSame DEF ReplayEnd, disk, log
  <2>2. ~up /\ up' /\ write' = write
    BY <1>4 DEF ReplayEnd, Running
  <2>. QED
    BY <2>1, <2>2 DEF Map!Next, Map!Restart
<1>5. ASSUME \/ Put \/ Del \/ Flush \/ DoCompaction
             \/ LoadTable \/ SkipBroken \/ LoadEnd \/ ReplayRecord \/ UNCHANGED vars
      PROVE  UNCHANGED (Map!vars)
  <2>1. CASE Put \/ Del
    <3>1. RecoveredView' = RecoveredView
      BY <2>1, DiskSame DEF Put, Del, disk, log
    <3>2. up' = up /\ write' = write
      BY <2>1 DEF Put, Del, Running
    <3>. QED
      BY <3>1, <3>2 DEF Map!vars
  <2>2. CASE Flush
    <3>1. RecoveredView' = RecoveredView
      BY <2>2, FlushBeginSame, FlushEndSame, ClearSame DEF Flush
    <3>2. up' = up /\ write' = write
      BY <2>2 DEF Flush, FlushBegin, FlushFinish, FlushThrows, ClearWal, Running
    <3>. QED
      BY <3>1, <3>2 DEF Map!vars
  <2>3. CASE DoCompaction
    <3>1. RecoveredView' = RecoveredView
      BY <2>3, CompactSame
    <3>2. up' = up /\ write' = write
      BY <2>3 DEF DoCompaction, CompactThrow, CompactBegin, CompactMerge, MergeThrows, MergeUnnoticed,
                  CompactRename, RenameThrows, CompactRemove, CompactEnd, Running
    <3>. QED
      BY <3>1, <3>2 DEF Map!vars
  <2>4. CASE LoadTable \/ SkipBroken \/ LoadEnd \/ ReplayRecord
    <3>1. RecoveredView' = RecoveredView
      BY <2>4, DiskSame DEF LoadTable, SkipBroken, LoadEnd, ReplayRecord, disk, log
    <3>2. up' = up /\ write' = write
      BY <2>4 DEF LoadTable, SkipBroken, NextToLoad, LoadEnd, ReplayRecord, Running
    <3>. QED
      BY <3>1, <3>2 DEF Map!vars
  <2>5. CASE UNCHANGED vars
    <3>1. RecoveredView' = RecoveredView
      BY <2>5, DiskSame DEF vars, disk, log
    <3>2. up' = up /\ write' = write
      BY <2>5 DEF vars
    <3>. QED
      BY <3>1, <3>2 DEF Map!vars
  <2>. QED
    BY <1>5, <2>1, <2>2, <2>3, <2>4, <2>5
<1>. QED
  BY <1>1, <1>2, <1>3, <1>4, <1>5 DEF Simple, Next, Write, AppendThrows, Open

\* The store implements the durable map for any keys, values, thresholds and
\* crashes: a write takes effect at its append to the log and no crash, flush,
\* failed builder, compaction or restart changes a value.
THEOREM DurableAlways == ASSUME Simple PROVE Spec => Durable
<1>1. IInv /\ IInv' /\ MemInv /\ Layers /\ Covered /\ [Next]_vars => [Map!Next]_(Map!vars)
  BY MapStep
<1>. QED
  BY <1>1, MapInit, MemInit, MemNext, Invariance, CoveredAlways, LayersAlways, PTL
  DEF Spec, Durable, Map!Spec

-----------------------------------------------------------------------------
(* What a sequence of readers answers *)

Readers == Seq([name : FileName, table : Table])

\* The readers that have the key, and the value in the last of them
Having(rs, k) == {i \in DOMAIN rs : k \in DOMAIN rs[i].table}
ReadOn(rs, k) ==
  IF Having(rs, k) # {}
  THEN rs[CHOOSE i \in Having(rs, k) : \A j \in Having(rs, k) : j <= i].table[k]
  ELSE Tomb

\* The elements of a sequence
LEMMA ElementIn ==
  ASSUME NEW S, NEW q \in Seq(S), NEW i \in DOMAIN q
  PROVE  q[i] \in S /\ i \in Nat /\ i > 0 /\ i <= Len(q) /\ Len(q) \in Nat
  OBVIOUS

\* A reader has a name and a table.
LEMMA ReaderFacts ==
  ASSUME NEW rs \in Readers, NEW i \in DOMAIN rs
  PROVE  /\ i \in Nat /\ i > 0 /\ i <= Len(rs) /\ Len(rs) \in Nat
         /\ rs[i].name \in FileName /\ rs[i].name[2] \in Nat /\ rs[i].table \in Table
<1>1. rs[i] \in [name : FileName, table : Table]
  BY ElementIn DEF Readers
<1>2. rs[i].name \in FileName /\ rs[i].table \in Table
  BY <1>1
<1>3. i \in Nat /\ i > 0 /\ i <= Len(rs) /\ Len(rs) \in Nat
  BY ElementIn DEF Readers
<1>. QED
  BY <1>2, <1>3 DEF FileName

\* In the terms of KVStore, if all keys fit into one block.
LEMMA ServingIs ==
  ASSUME NEW rs \in Readers, Cardinality(Keys) <= KeysPerBlock, NEW k
  PROVE  {i \in DOMAIN rs : Finds(rs[i].table, k)} = Having(rs, k)
<1>1. \A i \in DOMAIN rs : rs[i].table \in Table
  BY ReaderFacts
<1>2. \A i \in DOMAIN rs : Finds(rs[i].table, k) <=> k \in DOMAIN rs[i].table
  BY <1>1, FindsAll
<1>. QED
  BY <1>2 DEF Having

\* get answers from the memtable, then from the readers.
LiveAnswers(m, rs) == [k \in Keys |-> IF k \in DOMAIN m THEN m[k] ELSE ReadOn(rs, k)]

\* LiveView in these terms
LEMMA LiveIs ==
  ASSUME TypeOK, Cardinality(Keys) <= KeysPerBlock
  PROVE  LiveView = LiveAnswers(memtable, readers)
<1>1. \A k : Serving(k) = Having(readers, k)
  BY ServingIs DEF TypeOK, Readers, Serving
<1>2. ASSUME NEW k
      PROVE  get(k) = IF k \in DOMAIN memtable THEN memtable[k] ELSE ReadOn(readers, k)
  <2>1. NewestReader(k) = CHOOSE i \in Having(readers, k) : \A j \in Having(readers, k) : j <= i
    BY <1>1 DEF NewestReader
  <2>. QED
    BY <1>1, <2>1 DEF get, ReadOn
<1>. QED
  BY <1>2 DEF LiveView, LiveAnswers

\* And behind a step
LEMMA LiveIsNext ==
  ASSUME TypeOK', Cardinality(Keys) <= KeysPerBlock
  PROVE  LiveView' = LiveAnswers(memtable', readers')
<1>1. \A k : Serving(k)' = Having(readers', k)
  BY ServingIs DEF TypeOK, Readers, Serving
<1>2. ASSUME NEW k
      PROVE  get(k)' = IF k \in DOMAIN memtable' THEN memtable'[k] ELSE ReadOn(readers', k)
  <2>1. NewestReader(k)' = CHOOSE i \in Having(readers', k) : \A j \in Having(readers', k) : j <= i
    BY <1>1 DEF NewestReader
  <2>. QED
    BY <1>1, <2>1 DEF get, ReadOn
<1>. QED
  BY <1>2 DEF LiveView, LiveAnswers

\* The last reader with the key answers.
LEMMA LastAnswers ==
  ASSUME NEW rs \in Readers, NEW k, NEW i \in Having(rs, k), \A j \in Having(rs, k) : j <= i
  PROVE  ReadOn(rs, k) = rs[i].table[k]
<1>. DEFINE c == CHOOSE h \in Having(rs, k) : \A j \in Having(rs, k) : j <= h
<1>1. c \in Having(rs, k) /\ \A j \in Having(rs, k) : j <= c
  OBVIOUS
<1>2. c \in Nat /\ i \in Nat
  BY <1>1 DEF Having, Readers
<1>3. c <= i /\ i <= c
  BY <1>1
<1>. HIDE DEF c
<1>4. c = i
  BY <1>2, <1>3
<1>. QED
  BY <1>4 DEF ReadOn, c

\* There is such a reader if any has the key.
LEMMA LastExists ==
  ASSUME NEW rs \in Readers, NEW k, Having(rs, k) # {}
  PROVE  \E i \in Having(rs, k) : \A j \in Having(rs, k) : j <= i
<1>1. Having(rs, k) \in SUBSET Nat /\ Len(rs) \in Nat /\ \A j \in Having(rs, k) : j <= Len(rs)
  BY DEF Having, Readers
<1>. QED
  BY <1>1, GreatestNatural

\* Readers of L0 files in the order of their ids: the last one with the key answers
\* as the directory does, if every file with the key has a reader, has its keys in a
\* later reader, or is older than all readers.
LEMMA LastReaderAnswers ==
  ASSUME NEW rs \in Readers, NEW d, Directory(d), NEW k, Having(rs, k) # {},
         \A f \in DOMAIN d : d[f] # Broken => f[1] = "L0" /\ f[2] < 10,
         \A i \in DOMAIN rs : rs[i].name \in DOMAIN d /\ d[rs[i].name] = rs[i].table,
         \A i, j \in DOMAIN rs : i < j => rs[i].name[2] < rs[j].name[2],
         \A f \in On(d, k) :
           \/ \E i \in DOMAIN rs : \/ rs[i].name = f
                                  \/ /\ f[2] < rs[i].name[2]
                                     /\ DOMAIN d[f] \subseteq DOMAIN rs[i].table
           \/ \A i \in DOMAIN rs : f[2] < rs[i].name[2]
  PROVE  ReadOn(rs, k) = ValueOn(d, k)
<1>1. \A i \in DOMAIN rs : rs[i].name \in FileName /\ rs[i].table \in Table /\ rs[i].name[2] \in Nat
  BY ReaderFacts
<1>2. PICK i \in Having(rs, k) : \A j \in Having(rs, k) : j <= i
  BY LastExists
<1>3. i \in DOMAIN rs /\ k \in DOMAIN rs[i].table /\ i \in Nat
  BY DEF Having, Readers
<1>4. ASSUME NEW f \in On(d, k)
      PROVE  \E j \in Having(rs, k) : rs[j].name = f \/ f[2] < rs[j].name[2]
  <2>1. f \in DOMAIN d /\ k \in DOMAIN d[f]
    BY DEF On
  <2>. QED
    BY <1>3, <2>1 DEF Having
<1>. DEFINE f == rs[i].name
<1>5. f \in On(d, k) /\ d[f] = rs[i].table /\ f \in FileName
  BY <1>1, <1>3, MarkerAssumption DEF On
<1>6. ASSUME NEW g \in On(d, k) \ {f}
      PROVE  NameLess(g, f)
  <2>1. PICK j \in Having(rs, k) : rs[j].name = g \/ g[2] < rs[j].name[2]
    BY <1>4
  <2>2. j \in DOMAIN rs /\ j <= i /\ j \in Nat
    BY <1>2 DEF Having, Readers
  <2>3. rs[j].name[2] < f[2] \/ j = i
    BY <1>3, <2>2
  <2>4. g \in FileName /\ g[2] \in Nat /\ g[1] = "L0" /\ f[1] = "L0" /\ f[2] < 10
    BY <1>5 DEF On, Directory, FileName
  <2>5. g[2] < f[2]
    BY <1>1, <1>3, <1>6, <2>1, <2>2, <2>3, <2>4
  <2>. QED
    BY <1>5, <2>4, <2>5, KindsInOrder
<1>7. ValueOn(d, k) = d[f][k]
  BY <1>5, <1>6, TopAnswers
<1>. QED
  BY <1>2, <1>5, <1>7, LastAnswers

-----------------------------------------------------------------------------
(* A flush *)

\* The readers with the new file answer what memtable and readers answered.
LEMMA PushAnswers ==
  ASSUME NEW rs \in Readers, NEW f \in FileName, NEW m \in Table, NEW qs, qs = PushReader(rs, f, m)
  PROVE  LiveAnswers(EmptyTable, qs) = LiveAnswers(m, rs)
<1>. DEFINE n == Len(rs) + 1
            r == [name |-> f, table |-> m]
            S == [name : FileName, table : Table]
<1>0. r \in S /\ r.table = m /\ rs \in Seq(S) /\ qs = Append(rs, r)
  BY DEF Readers, PushReader
<1>. HIDE DEF r, S
<1>1. /\ qs \in Seq(S) /\ DOMAIN qs = DOMAIN rs \cup {n}
      /\ \A i \in DOMAIN rs : qs[i] = rs[i] /\ i < n
      /\ qs[n] = r
      /\ n \in Nat /\ \A i \in DOMAIN rs : i \in Nat
  BY <1>0
<1>a. qs \in Readers /\ qs[n].table = m
  BY <1>0, <1>1 DEF Readers, S
<1>. HIDE DEF n
<1>2. ASSUME NEW k
      PROVE  ReadOn(qs, k) = IF k \in DOMAIN m THEN m[k] ELSE ReadOn(rs, k)
  <2>1. CASE k \in DOMAIN m
    <3>1. n \in Having(qs, k) /\ \A j \in Having(qs, k) : j <= n
      BY <1>1, <1>a, <2>1 DEF Having
    <3>. QED
      BY <1>a, <2>1, <3>1, LastAnswers
  <2>2. CASE k \notin DOMAIN m
    <3>1. Having(qs, k) = Having(rs, k)
      BY <1>1, <1>a, <2>2 DEF Having
    <3>2. CASE Having(rs, k) = {}
      BY <2>2, <3>1, <3>2 DEF ReadOn
    <3>3. CASE Having(rs, k) # {}
      <4>1. PICK i \in Having(rs, k) : \A j \in Having(rs, k) : j <= i
        BY <3>3, LastExists
      <4>2. ReadOn(rs, k) = rs[i].table[k] /\ ReadOn(qs, k) = qs[i].table[k]
        BY <1>a, <3>1, <4>1, LastAnswers
      <4>. QED
        BY <1>1, <2>2, <4>1, <4>2 DEF Having
    <3>. QED
      BY <3>2, <3>3
  <2>. QED
    BY <2>1, <2>2
<1>. QED
  BY <1>2 DEF LiveAnswers, EmptyTable

\* A flush, complete or failed, changes no answer of get, with any readers over
\* tables of a single block and ids of one digit.
THEOREM FlushInvisibleAlways == Spec => FlushInvisible
<1>1. ASSUME IInv, IInv', Flush, WithinLimits
      PROVE  LiveView' = LiveView
  <2>1. /\ LiveView = LiveAnswers(memtable, readers)
        /\ LiveView' = LiveAnswers(memtable', readers')
    BY <1>1, LiveIs, LiveIsNext DEF IInv, WithinLimits
  <2>2. CASE FlushFinish
    <3>. DEFINE name == L0(next_sstable_id - 1)
    <3>1. name \in FileName /\ memtable \in Table /\ readers \in Readers
      BY <1>1, <2>2 DEF IInv, TypeOK, Control, FlushFinish, Readers
    <3>2. readers' = PushReader(readers, name, memtable) /\ memtable' = EmptyTable
      BY <2>2 DEF FlushFinish
    <3>. HIDE DEF name
    <3>. QED
      BY <2>1, <3>1, <3>2, PushAnswers
  <2>3. CASE FlushBegin \/ FlushThrows \/ ClearWal
    BY <2>1, <2>3 DEF FlushBegin, FlushThrows, ClearWal
  <2>. QED
    BY <1>1, <2>2, <2>3 DEF Flush
<1>2. ASSUME IInv, IInv', [Next]_vars
      PROVE  [Flush /\ WithinLimits => LiveView' = LiveView]_vars
  BY <1>1, <1>2
<1>. QED
  BY <1>2, Invariance, PTL DEF Spec, FlushInvisible

-----------------------------------------------------------------------------
(* The readers and the files *)

OnDisk(r) == r.name \in DOMAIN files /\ files[r.name] = r.table

\* A reader has what its file has, but while a compaction writes over its file.
\* That needs the temporary file of an earlier compaction, so calls over L1 files.
Matched ==
  \A i \in DOMAIN readers :
    /\ readers[i].name \notin pending
    /\ OnDisk(readers[i]) \/ (pc \in {"merge", "rename"} /\ readers[i].name = L1Temp(next_l1_id))
    /\ pc = "merge" /\ ~CallsOverL1 => readers[i].name[1] = "L0"
    /\ pc = "remove" => readers[i].name[1] # "L0"

AloneHere == CallsOverL1 \/ Alone

\* A flush writes a file that no reader has.
LEMMA FlushMatched ==
  ASSUME IInv, Matched, Flush
  PROVE  Matched'
<1>0. /\ readers \in Readers /\ memtable \in Table /\ pending = {} /\ pending' = {}
      /\ pc \notin {"merge", "rename"} /\ pc' \notin {"merge", "rename", "remove"}
      /\ \A i \in DOMAIN readers : OnDisk(readers[i])
  BY DEF IInv, TypeOK, Control, Readers, Matched,
         Flush, FlushBegin, FlushFinish, FlushThrows, ClearWal, startup
<1>1. ASSUME NEW i \in DOMAIN readers
      PROVE  readers[i].name \in Readable \ pending /\ (readers[i].name[1] = "L0" => readers[i].name[2] < next_sstable_id)
  BY <1>0, <1>1, ReaderFacts, MarkerAssumption DEF IInv, FreshId, OnDisk, Readable
<1>2. CASE FlushBegin
  <2>. DEFINE name == L0(next_sstable_id)
  <2>1. files' = Insert(files, name, Broken) /\ UNCHANGED readers /\ next_sstable_id \in Nat \ {0}
    BY <1>2 DEF FlushBegin, IInv, TypeOK
  <2>2. \A i \in DOMAIN readers : readers[i].name # name
    BY <1>1, <2>1, Names
  <2>. HIDE DEF name
  <2>3. \A i \in DOMAIN readers : OnDisk(readers[i])'
    BY <1>0, <2>1, <2>2 DEF OnDisk, Insert
  <2>. QED
    BY <1>0, <2>1, <2>3 DEF Matched
<1>3. CASE FlushFinish \/ FlushThrows
  <2>. DEFINE name == L0(next_sstable_id - 1)
  <2>1. /\ name \in DOMAIN files /\ files[name] = Broken /\ name \in FileName
        /\ \E x : files' = Insert(files, name, x)
    BY <1>3 DEF IInv, TypeOK, Control, FlushFinish, FlushThrows
  <2>2. \A i \in DOMAIN readers : readers[i].name # name
    BY <1>1, <2>1 DEF Readable
  <2>. HIDE DEF name
  <2>3. \A i \in DOMAIN readers :
          readers[i].name \in DOMAIN files' /\ files'[readers[i].name] = readers[i].table
    BY <1>0, <2>1, <2>2 DEF OnDisk, Insert
  <2>4. CASE FlushThrows
    BY <1>0, <2>3, <2>4 DEF Matched, OnDisk, FlushThrows
  <2>5. CASE FlushFinish
    <3>. DEFINE n == Len(readers) + 1
                r == [name |-> name, table |-> memtable]
                S == [name : FileName, table : Table]
    <3>1. files' = Insert(files, name, memtable)
      BY <2>5 DEF FlushFinish, name
    <3>a. /\ r \in S /\ r.name = name /\ r.table = memtable
          /\ readers \in Seq(S) /\ readers' = Append(readers, r)
      BY <1>0, <2>1, <2>5 DEF Readers, FlushFinish, PushReader, name
    <3>. HIDE DEF r, S
    <3>2. /\ DOMAIN readers' = DOMAIN readers \cup {n}
          /\ \A i \in DOMAIN readers : readers'[i] = readers[i]
          /\ readers'[n] = r
      BY <3>a
    <3>3. name \in DOMAIN files' /\ files'[name] = memtable
      BY <3>1 DEF Insert
    <3>. HIDE DEF n
    <3>4. \A i \in DOMAIN readers' : OnDisk(readers[i])'
      BY <2>3, <3>a, <3>2, <3>3 DEF OnDisk
    <3>. QED
      BY <1>0, <3>4 DEF Matched
  <2>. QED
    BY <1>3, <2>4, <2>5
<1>4. CASE ClearWal
  BY <1>0, <1>4 DEF Matched, OnDisk, ClearWal
<1>. QED
  BY <1>2, <1>3, <1>4 DEF Flush

\* A compaction writes one that no reader has, or leaves its own reader only.
LEMMA CompactMatched ==
  ASSUME IInv, AloneHere, Matched, DoCompaction
  PROVE  Matched'
<1>0. /\ readers \in Readers /\ pending = {} /\ pending' = {} /\ next_l1_id \in Nat \ {0}
  BY DEF IInv, TypeOK, Control, Readers, DoCompaction, CompactThrow, CompactBegin, CompactMerge,
         MergeThrows, MergeUnnoticed, CompactRename, RenameThrows, CompactRemove, CompactEnd, startup
<1>1. CASE CompactThrow \/ CompactEnd
  BY <1>0, <1>1 DEF Matched, OnDisk, CompactThrow, CompactEnd, disk
<1>2. CASE CompactBegin \/ CompactMerge \/ MergeThrows
  <2>. DEFINE temp == L1Temp(next_l1_id)
  <2>1. /\ UNCHANGED <<readers, next_l1_id>> /\ temp[1] = "L1_temp"
        /\ \E x : files' = Insert(files, temp, x)
    BY <1>0, <1>2, Names DEF CompactBegin, CompactMerge, MergeThrows, counters
  <2>2. temp' = temp
    BY <2>1 DEF L1Temp
  <2>3. ASSUME NEW i \in DOMAIN readers
        PROVE  OnDisk(readers[i])' \/ readers[i].name = temp
    <3>1. OnDisk(readers[i]) \/ readers[i].name = temp
      BY DEF Matched
    <3>. HIDE DEF temp
    <3>. QED
      BY <2>1, <3>1 DEF OnDisk, Insert
  <2>4. CASE CompactBegin
    <3>1. ASSUME NEW i \in DOMAIN readers, ~CallsOverL1
          PROVE  readers[i].name[1] = "L0"
      <4>1. OnDisk(readers[i]) /\ readers[i].table \in Table
        BY <1>0, <2>4, ReaderFacts DEF Matched, CompactBegin
      <4>2. readers[i].name \in Readable
        BY <4>1, MarkerAssumption DEF OnDisk, Readable
      <4>. QED
        BY <2>4, <3>1, <4>2 DEF AloneHere, Alone, OnlyL0, CompactBegin
    <3>. QED
      BY <1>0, <2>1, <2>2, <2>3, <2>4, <3>1 DEF Matched, CompactBegin
  <2>5. CASE CompactMerge
    BY <1>0, <2>1, <2>2, <2>3, <2>5 DEF Matched, CompactMerge
  <2>6. CASE MergeThrows
    <3>1. pc = "merge" /\ ~CallsOverL1 /\ pc' = "idle"
      BY <2>6, ErrorAssumption DEF MergeThrows
    <3>2. \A i \in DOMAIN readers : readers[i].name # temp
      BY <2>1, <3>1 DEF Matched
    <3>. QED
      BY <1>0, <2>1, <2>3, <3>1, <3>2 DEF Matched
  <2>. QED
    BY <1>2, <2>4, <2>5, <2>6
<1>3. CASE CompactRename
  <2>. DEFINE name == L1(next_l1_id)
              t == files[L1Temp(next_l1_id)]
              r == [name |-> name, table |-> t]
  <2>1. /\ readers' = <<r>> /\ pc' = "remove" /\ name[1] # "L0"
        /\ \E d : files' = Insert(d, name, t)
    BY <1>0, <1>3, Names DEF CompactRename
  <2>2. name \in DOMAIN files' /\ files'[name] = t /\ r.name = name /\ r.table = t
    BY <2>1 DEF Insert
  <2>3. \A i \in DOMAIN readers' : readers'[i] = r
    BY <2>1
  <2>. HIDE DEF name, t, r
  <2>. QED
    BY <1>0, <2>1, <2>2, <2>3 DEF Matched, OnDisk
<1>4. CASE CompactRemove
  <2>1. PICK f \in L0Files : files' = Remove(files, f)
    BY <1>4 DEF CompactRemove
  <2>2. pc = "remove" /\ UNCHANGED <<pc, readers>>
    BY <1>4 DEF CompactRemove
  <2>3. \A i \in DOMAIN readers : readers[i].name # f /\ OnDisk(readers[i])
    BY <2>2 DEF Matched, L0Files
  <2>4. \A i \in DOMAIN readers : OnDisk(readers[i])'
    BY <2>1, <2>2, <2>3 DEF OnDisk, Remove
  <2>. QED
    BY <1>0, <2>2, <2>4 DEF Matched
<1>5. CASE MergeUnnoticed
  BY <1>0, <1>5 DEF Matched, OnDisk, L1Temp, MergeUnnoticed, disk, counters
<1>6. CASE RenameThrows
  BY <1>0, <1>6 DEF Matched, RenameThrows
<1>. QED
  BY <1>1, <1>2, <1>3, <1>4, <1>5, <1>6 DEF DoCompaction

\* The constructor opens one file after the other; nothing else reads or writes them.
LEMMA OpenMatched ==
  ASSUME IInv, Matched, Open \/ Crash \/ Call \/ Write \/ UNCHANGED vars
  PROVE  Matched'
<1>1. CASE LoadTable
  <2>1. PICK f \in pending :
          /\ files[f] # Broken /\ readers' = PushReader(readers, f, files[f]) /\ pending' = pending \ {f}
          /\ UNCHANGED <<files, pc>> /\ pc = "load"
    BY <1>1 DEF LoadTable, NextToLoad, disk
  <2>. DEFINE n == Len(readers) + 1
              r == [name |-> f, table |-> files[f]]
              S == [name : FileName, table : Table]
  <2>2. /\ f \in DOMAIN files /\ r \in S /\ r.name = f /\ r.table = files[f]
        /\ readers \in Seq(S) /\ readers' = Append(readers, r)
    BY <2>1 DEF IInv, TypeOK, PushReader
  <2>. HIDE DEF r, S
  <2>3. /\ DOMAIN readers' = DOMAIN readers \cup {n}
        /\ \A i \in DOMAIN readers : readers'[i] = readers[i]
        /\ readers'[n] = r
    BY <2>2
  <2>. HIDE DEF n
  <2>4. \A i \in DOMAIN readers' : OnDisk(readers[i])' /\ readers'[i].name \notin pending'
    BY <2>1, <2>2, <2>3 DEF Matched, OnDisk
  <2>. QED
    BY <2>1, <2>4 DEF Matched
<1>2. CASE Crash
  BY <1>2 DEF Matched, Crash
<1>3. CASE /\ UNCHANGED <<files, readers>> /\ pending' \subseteq pending
           /\ \/ pc \notin {"merge", "rename", "remove"} /\ pc' \notin {"merge", "rename", "remove"}
              \/ UNCHANGED <<pc, next_l1_id>>
  <2>1. CASE UNCHANGED <<pc, next_l1_id>>
    BY <1>3, <2>1 DEF Matched, OnDisk, L1Temp
  <2>2. CASE pc \notin {"merge", "rename", "remove"} /\ pc' \notin {"merge", "rename", "remove"}
    BY <1>3, <2>2 DEF Matched, OnDisk
  <2>. QED
    BY <1>3, <2>1, <2>2
<1>4. CASE Call \/ Write \/ UNCHANGED vars
  BY <1>3, <1>4 DEF Call, Write, AppendWal, AppendThrows, Put, Del, vars, disk, counters, startup
<1>5. CASE Open
  BY <1>1, <1>3, <1>5 DEF Open, SkipBroken, NextToLoad, LoadEnd, ReplayRecord, ReplayEnd, disk, counters, startup
<1>. QED
  BY <1>2, <1>4, <1>5

\* In every reachable state
LEMMA MatchedAlways == Spec => [](Matched /\ AloneHere)
<1>1. Init => Matched /\ AloneHere
  BY DEF Init, Matched, AloneHere, Alone, OnlyL0, Readable, EmptyTable
<1>2. IInv /\ MemInv /\ Emptied /\ (Matched /\ AloneHere) /\ [Next]_vars => (Matched /\ AloneHere)'
  BY FlushMatched, CompactMatched, OpenMatched, AloneNext DEF Next, AloneHere
<1>. QED
  BY <1>1, <1>2, MemInit, MemNext, Invariance, EmptiedAlways, PTL DEF Spec

\* Between calls every open reader answers from the file that is on disk now, for
\* any number of files and of compactions.
THEOREM ReadersMatchDiskAlways == Spec => []ReadersMatchDisk
<1>1. Matched /\ AloneHere => ReadersMatchDisk
  BY DEF Matched, OnDisk, ReadersMatchDisk
<1>. QED
  BY <1>1, MatchedAlways, PTL

-----------------------------------------------------------------------------
(* The order of the readers *)

\* L0 readers of one-digit ids are in the order of their ids, and the constructor
\* has still to open later names only.
Sorted ==
  /\ \A i, j \in DOMAIN readers :
       /\ i < j
       /\ readers[i].name[1] = "L0" /\ readers[i].name[2] < 10
       /\ readers[j].name[1] = "L0" /\ readers[j].name[2] < 10
       => readers[i].name[2] < readers[j].name[2]
  /\ \A i \in DOMAIN readers : \A g \in pending : NameLess(readers[i].name, g)

\* One-digit ids in the order of the names
LEMMA IdsInOrder ==
  ASSUME NEW f \in FileName, NEW g \in FileName, NameLess(f, g), f[1] = "L0", f[2] < 10, g[1] = "L0", g[2] < 10
  PROVE  f[2] < g[2]
<1>1. f[2] \in Nat /\ g[2] \in Nat /\ Kind(f) = 0 /\ Kind(g) = 0
  BY DEF FileName, Kind
<1>. QED
  BY <1>1 DEF NameLess, Lead

\* A flush adds the reader of the largest id, the constructor that of the next name.
LEMMA PushSorted ==
  ASSUME Sorted, readers \in Readers, NEW f \in FileName, NEW t \in Table,
         readers' = PushReader(readers, f, t), pending' \subseteq pending,
         \A i \in DOMAIN readers :
           readers[i].name[1] = "L0" /\ readers[i].name[2] < 10 /\ f[1] = "L0" /\ f[2] < 10
             => readers[i].name[2] < f[2],
         \A g \in pending' : NameLess(f, g)
  PROVE  Sorted'
<1>. DEFINE n == Len(readers) + 1
            r == [name |-> f, table |-> t]
            S == [name : FileName, table : Table]
<1>1. r \in S /\ r.name = f /\ readers \in Seq(S) /\ readers' = Append(readers, r)
  BY DEF Readers, PushReader
<1>. HIDE DEF r, S
<1>2. /\ DOMAIN readers' = DOMAIN readers \cup {n}
      /\ \A i \in DOMAIN readers : readers'[i] = readers[i] /\ i \in Nat /\ i < n
      /\ readers'[n] = r /\ n \in Nat
  BY <1>1
<1>. HIDE DEF n
<1>3. ASSUME NEW i \in DOMAIN readers', NEW j \in DOMAIN readers', i < j,
             readers'[i].name[1] = "L0" /\ readers'[i].name[2] < 10,
             readers'[j].name[1] = "L0" /\ readers'[j].name[2] < 10
      PROVE  readers'[i].name[2] < readers'[j].name[2]
  <2>1. i \in DOMAIN readers
    BY <1>2, <1>3
  <2>2. CASE j = n
    BY <1>1, <1>2, <1>3, <2>1, <2>2
  <2>3. CASE j \in DOMAIN readers
    BY <1>2, <1>3, <2>1, <2>3 DEF Sorted
  <2>. QED
    BY <1>2, <2>2, <2>3
<1>4. \A i \in DOMAIN readers' : \A g \in pending' : NameLess(readers'[i].name, g)
  BY <1>1, <1>2 DEF Sorted
<1>. QED
  BY <1>3, <1>4 DEF Sorted

\* Every step keeps the order.
LEMMA SortedNext ==
  ASSUME IInv, Matched, Sorted, [Next]_vars
  PROVE  Sorted'
<1>0. readers \in Readers /\ memtable \in Table
  BY DEF IInv, TypeOK, Readers
<1>1. CASE FlushFinish
  <2>. DEFINE name == L0(next_sstable_id - 1)
  <2>1. /\ next_sstable_id \in Nat /\ name \in DOMAIN files /\ files[name] = Broken
        /\ name \in FileName /\ name[1] = "L0" /\ name[2] = next_sstable_id - 1
        /\ pending = {} /\ pending' = {} /\ pc = "build"
        /\ readers' = PushReader(readers, name, memtable)
    BY <1>1, Names DEF IInv, TypeOK, Control, FlushFinish, startup
  <2>2. name = L0(name[2])
    BY <2>1
  <2>. HIDE DEF name
  <2>3. ASSUME NEW i \in DOMAIN readers, readers[i].name[1] = "L0"
        PROVE  readers[i].name[2] < name[2]
    <3>. DEFINE f == readers[i].name
    <3>1. f \in FileName /\ f[2] \in Nat /\ readers[i].table \in Table
      BY <1>0, ReaderFacts
    <3>2. f \in Readable \ pending /\ f # name
      BY <2>1, <3>1, MarkerAssumption DEF Matched, OnDisk, Readable
    <3>3. f[2] < next_sstable_id
      BY <2>3, <3>2 DEF IInv, FreshId
    <3>4. f[2] # name[2]
      BY <2>1, <2>3, <3>1, <3>2 DEF FileName
    <3>. QED
      BY <2>1, <3>1, <3>3, <3>4
  <2>. QED
    BY <1>0, <2>1, <2>3, PushSorted
<1>2. CASE LoadTable
  <2>1. PICK f \in pending :
          /\ \A g \in pending \ {f} : NameLess(f, g)
          /\ files[f] # Broken /\ readers' = PushReader(readers, f, files[f]) /\ pending' = pending \ {f}
    BY <1>2 DEF LoadTable, NextToLoad
  <2>2. f \in FileName /\ files[f] \in Table
    BY <2>1 DEF IInv, TypeOK
  <2>3. ASSUME NEW i \in DOMAIN readers, readers[i].name[1] = "L0" /\ readers[i].name[2] < 10,
               f[1] = "L0" /\ f[2] < 10
        PROVE  readers[i].name[2] < f[2]
    <3>1. readers[i].name \in FileName /\ NameLess(readers[i].name, f)
      BY <1>0, ReaderFacts DEF Sorted
    <3>. QED
      BY <2>2, <2>3, <3>1, IdsInOrder
  <2>4. pending' \subseteq pending /\ \A g \in pending' : NameLess(f, g)
    BY <2>1
  <2>. QED
    BY <1>0, <2>1, <2>2, <2>3, <2>4, PushSorted
<1>3. CASE Crash
  BY <1>3 DEF Crash, Sorted
<1>4. CASE CompactRename
  <2>1. pending = {} /\ pending' = {}
    BY <1>4 DEF IInv, Control, CompactRename, startup
  <2>2. \A i, j \in DOMAIN readers' : ~(i < j)
    BY <1>4 DEF CompactRename
  <2>. QED
    BY <2>1, <2>2 DEF Sorted
<1>a. CASE RenameThrows
  BY <1>a DEF RenameThrows, Sorted
<1>5. CASE UNCHANGED readers /\ pending' \subseteq pending
  BY <1>5 DEF Sorted
<1>6. CASE Call \/ Write \/ UNCHANGED vars
  BY <1>5, <1>6 DEF Call, Write, AppendWal, AppendThrows, Put, Del, vars, startup
<1>7. CASE Flush
  BY <1>1, <1>5, <1>7 DEF Flush, FlushBegin, FlushThrows, ClearWal, startup
<1>8. CASE DoCompaction
  BY <1>4, <1>a, <1>5, <1>8 DEF DoCompaction, CompactThrow, CompactBegin, CompactMerge, MergeThrows,
                                MergeUnnoticed, CompactRemove, CompactEnd, startup
<1>9. CASE Open
  BY <1>2, <1>5, <1>9 DEF Open, SkipBroken, LoadEnd, ReplayRecord, ReplayEnd, startup
<1>. QED
  BY <1>3, <1>6, <1>7, <1>8, <1>9 DEF Next

-----------------------------------------------------------------------------
(* Every L0 file is read *)

\* A reader has the file, or the memtable or a reader of a later file has its keys:
\* those are the files that failed flushes have left.
SeenIn(f, keys, m, rs) ==
  \/ keys \subseteq DOMAIN m
  \/ \E i \in DOMAIN rs :
       \/ rs[i].name = f
       \/ f[2] < rs[i].name[2] /\ keys \subseteq DOMAIN rs[i].table

\* A process whose compaction has renamed a broken file has lost its readers; those
\* it has now are of later L0 files.
Unread(f) ==
  /\ BrokenL1 /\ pc # "load"
  /\ \A i \in DOMAIN readers : readers[i].name[1] = "L0" /\ f[2] < readers[i].name[2]

Complete ==
  pc # "remove" =>
    \A f \in Readable \ pending :
      f[1] = "L0" => SeenIn(f, DOMAIN files[f], memtable, readers) \/ Unread(f)

\* A longer memtable and more readers see no less.
LEMMA SeenStays ==
  ASSUME NEW f, NEW keys, NEW m, NEW n, NEW rs, NEW qs, SeenIn(f, keys, m, rs),
         DOMAIN m \subseteq DOMAIN n, DOMAIN rs \subseteq DOMAIN qs, \A i \in DOMAIN rs : qs[i] = rs[i]
  PROVE  SeenIn(f, keys, n, qs)
  BY DEF SeenIn

\* A flush leaves the keys of the memtable there, or in the last reader.
LEMMA FlushComplete ==
  ASSUME IInv, IInv', Complete, Flush
  PROVE  Complete'
<1>0. /\ pending = {} /\ pending' = {} /\ pc # "remove" /\ next_sstable_id \in Nat \ {0}
      /\ readers \in Readers /\ memtable \in Table
  BY DEF IInv, TypeOK, Control, Readers, Flush, FlushBegin, FlushFinish, FlushThrows, ClearWal, startup
<1>1. \A f \in Readable : f[1] = "L0" => SeenIn(f, DOMAIN files[f], memtable, readers) \/ Unread(f)
  BY <1>0 DEF Complete
<1>a. (BrokenL1 => BrokenL1') /\ pc' # "load"
  <2>1. UNCHANGED files \/ \E n \in Nat \ {0} : \E x : files' = Insert(files, L0(n), x)
    BY DEF IInv, TypeOK, Control, Flush, FlushBegin, FlushFinish, FlushThrows, ClearWal
  <2>2. pc' # "load"
    BY DEF Flush, FlushBegin, FlushFinish, FlushThrows, ClearWal
  <2>3. ASSUME BrokenL1, NEW n \in Nat \ {0}, NEW x, files' = Insert(files, L0(n), x)
        PROVE  BrokenL1'
    <3>1. PICK f \in DOMAIN files : f[1] = "L1" /\ files[f] = Broken
      BY <2>3 DEF BrokenL1
    <3>2. f # L0(n)
      BY <3>1, Names
    <3>3. f \in DOMAIN files' /\ files'[f] = Broken
      BY <2>3, <3>1, <3>2 DEF Insert
    <3>. QED
      BY <3>1, <3>3 DEF BrokenL1
  <2>. QED
    BY <2>1, <2>2, <2>3 DEF BrokenL1
<1>2. CASE FlushBegin \/ ClearWal
  <2>1. /\ UNCHANGED <<memtable, readers>>
        /\ \A f \in Readable' : f \in Readable /\ files'[f] = files[f]
    BY <1>2 DEF FlushBegin, ClearWal, Readable, Insert
  <2>. QED
    BY <1>0, <1>1, <1>a, <2>1 DEF Complete, Unread
<1>3. CASE FlushFinish \/ FlushThrows
  <2>. DEFINE name == L0(next_sstable_id - 1)
  <2>1. /\ name \in FileName /\ name[1] = "L0" /\ name[2] = next_sstable_id - 1
        /\ name \in DOMAIN files /\ files[name] = Broken
    BY <1>3, Names DEF IInv, TypeOK, Control, FlushFinish, FlushThrows
  <2>2. \E x : files' = Insert(files, name, x)
    BY <1>3 DEF FlushFinish, FlushThrows
  <2>. HIDE DEF name
  <2>3. \A f \in Readable' : f # name => f \in Readable /\ files'[f] = files[f]
    BY <2>2 DEF Readable, Insert
  <2>4. CASE FlushThrows
    <3>1. name \in Readable' => DOMAIN files'[name] \subseteq DOMAIN memtable
      BY <2>4 DEF FlushThrows, Leftovers, Insert, Readable, name
    <3>2. UNCHANGED <<memtable, readers>>
      BY <2>4 DEF FlushThrows
    <3>. QED
      BY <1>0, <1>1, <1>a, <2>3, <3>1, <3>2 DEF Complete, SeenIn, Unread
  <2>5. CASE FlushFinish
    <3>. DEFINE n == Len(readers) + 1
                r == [name |-> name, table |-> memtable]
                S == [name : FileName, table : Table]
    <3>1. /\ r \in S /\ r.name = name /\ r.table = memtable
          /\ readers \in Seq(S) /\ readers' = Append(readers, r)
      BY <1>0, <2>1, <2>5 DEF Readers, FlushFinish, PushReader, name
    <3>. HIDE DEF r, S
    <3>2. /\ DOMAIN readers' = DOMAIN readers \cup {n}
          /\ \A i \in DOMAIN readers : readers'[i] = readers[i]
          /\ readers'[n] = r
      BY <3>1
    <3>. HIDE DEF n
    <3>3. ASSUME NEW f \in Readable', f[1] = "L0"
          PROVE  SeenIn(f, DOMAIN files'[f], memtable', readers') \/ Unread(f)'
      <4>1. CASE f = name
        BY <3>1, <3>2, <4>1 DEF SeenIn
      <4>2. CASE f # name
        <5>1. f \in Readable /\ files'[f] = files[f] /\ f \in FileName
          BY <2>3, <4>2 DEF IInv, TypeOK, Readable
        <5>2. f[2] < name[2]
          <6>1. f[2] < next_sstable_id /\ f[2] \in Nat
            BY <1>0, <3>3, <5>1 DEF IInv, FreshId, FileName
          <6>2. f[2] # name[2]
            BY <2>1, <3>3, <4>2, <5>1 DEF FileName
          <6>. QED
            BY <1>0, <2>1, <6>1, <6>2
        <5>3. SeenIn(f, DOMAIN files[f], memtable, readers) \/ Unread(f)
          BY <1>1, <3>3, <5>1
        <5>4. CASE DOMAIN files[f] \subseteq DOMAIN memtable
          <6>1. n \in DOMAIN readers' /\ f[2] < readers'[n].name[2]
                /\ DOMAIN files'[f] \subseteq DOMAIN readers'[n].table
            BY <3>1, <3>2, <5>1, <5>2, <5>4
          <6>. QED
            BY <6>1 DEF SeenIn
        <5>5. CASE /\ ~(DOMAIN files[f] \subseteq DOMAIN memtable)
                   /\ SeenIn(f, DOMAIN files[f], memtable, readers)
          BY <3>2, <5>1, <5>5 DEF SeenIn
        <5>6. CASE Unread(f)
          BY <1>a, <2>1, <3>1, <3>2, <5>2, <5>6 DEF Unread
        <5>. QED
          BY <5>3, <5>4, <5>5, <5>6
      <4>. QED
        BY <4>1, <4>2
    <3>. QED
      BY <1>0, <3>3 DEF Complete
  <2>. QED
    BY <1>3, <2>4, <2>5
<1>. QED
  BY <1>2, <1>3 DEF Flush

\* Every step keeps this.
LEMMA CompleteNext ==
  ASSUME IInv, IInv', Complete, [Next]_vars
  PROVE  Complete'
<1>1. CASE Flush
  BY <1>1, FlushComplete
<1>2. CASE LoadTable
  <2>1. PICK f \in pending :
          /\ files[f] # Broken /\ readers' = PushReader(readers, f, files[f]) /\ pending' = pending \ {f}
          /\ UNCHANGED <<files, pc, memtable>> /\ pc = "load"
    BY <1>2 DEF LoadTable, NextToLoad, disk
  <2>. DEFINE n == Len(readers) + 1
              r == [name |-> f, table |-> files[f]]
              S == [name : FileName, table : Table]
  <2>2. /\ f \in DOMAIN files /\ r \in S /\ r.name = f
        /\ readers \in Seq(S) /\ readers' = Append(readers, r)
    BY <2>1 DEF IInv, TypeOK, PushReader
  <2>. HIDE DEF r, S
  <2>3. /\ DOMAIN readers' = DOMAIN readers \cup {n}
        /\ \A i \in DOMAIN readers : readers'[i] = readers[i]
        /\ readers'[n] = r
    BY <2>2
  <2>. HIDE DEF n
  <2>4. ASSUME NEW g \in Readable' \ pending', g[1] = "L0"
        PROVE  SeenIn(g, DOMAIN files'[g], memtable', readers')
    <3>1. CASE g = f
      BY <2>2, <2>3, <3>1 DEF SeenIn
    <3>2. CASE g # f
      <4>1. g \in Readable \ pending
        BY <2>1, <2>4, <3>2 DEF Readable
      <4>2. SeenIn(g, DOMAIN files[g], memtable, readers)
        BY <2>1, <2>4, <4>1 DEF Complete, Unread
      <4>. QED
        BY <2>1, <2>3, <4>2, SeenStays
    <3>. QED
      BY <3>1, <3>2
  <2>. QED
    BY <2>4 DEF Complete
<1>3. CASE Crash
  <2>1. pending' = DOMAIN files' /\ Readable' \subseteq DOMAIN files'
    BY <1>3 DEF Crash, Readable
  <2>. QED
    BY <2>1 DEF Complete
<1>4. CASE pc' = "remove"
  BY <1>4 DEF Complete
<1>5. CASE CompactEnd
  BY <1>5 DEF Complete, CompactEnd, L0Files, Readable, disk
<1>6. CASE CompactBegin \/ CompactMerge \/ MergeThrows
  <2>. DEFINE temp == L1Temp(next_l1_id)
  <2>1. /\ UNCHANGED <<readers, memtable, pending>> /\ temp[1] = "L1_temp" /\ pc \notin {"load", "remove"}
        /\ pc' # "load" /\ \E x : files' = Insert(files, temp, x)
    BY <1>6, Names DEF IInv, TypeOK, CompactBegin, CompactMerge, MergeThrows, startup
  <2>. HIDE DEF temp
  <2>2. \A f \in Readable' : f[1] = "L0" => f \in Readable /\ files'[f] = files[f]
    BY <2>1 DEF Readable, Insert
  <2>3. BrokenL1 => BrokenL1'
    BY <2>1 DEF BrokenL1, Insert
  <2>. QED
    BY <2>1, <2>2, <2>3 DEF Complete, Unread
<1>7. CASE RenameThrows
  <2>1. L1(next_l1_id)[1] = "L1"
    BY Names DEF IInv, TypeOK
  <2>2. BrokenL1' /\ pc' # "load" /\ DOMAIN readers' = {}
    BY <1>7, <2>1 DEF RenameThrows, BrokenL1, Insert
  <2>. QED
    BY <2>2 DEF Complete, Unread
<1>8. CASE /\ UNCHANGED <<files, readers>> /\ DOMAIN memtable \subseteq DOMAIN memtable'
           /\ (pc = "remove" => pc' = "remove") /\ (pc' = "load" => pc = "load")
           /\ (\A f \in Readable : f \in pending => f \in pending')
  <2>1. ASSUME pc' # "remove", NEW f \in Readable' \ pending', f[1] = "L0"
        PROVE  SeenIn(f, DOMAIN files'[f], memtable', readers') \/ Unread(f)'
    <3>1. f \in Readable \ pending /\ pc # "remove" /\ files' = files
      BY <1>8, <2>1 DEF Readable
    <3>2. SeenIn(f, DOMAIN files[f], memtable, readers) \/ Unread(f)
      BY <2>1, <3>1 DEF Complete
    <3>3. CASE SeenIn(f, DOMAIN files[f], memtable, readers)
      BY <1>8, <3>1, <3>3, SeenStays
    <3>4. CASE Unread(f) /\ pc' # "load"
      BY <1>8, <3>4 DEF Unread, BrokenL1
    <3>. QED
      BY <1>8, <3>2, <3>3, <3>4 DEF Unread
  <2>. QED
    BY <2>1 DEF Complete
<1>9. CASE Call \/ Write \/ UNCHANGED vars
  BY <1>8, <1>9 DEF Call, Write, AppendWal, AppendThrows, Put, Del, Insert, vars, disk, startup
<1>10. CASE SkipBroken
  BY <1>8, <1>10 DEF SkipBroken, NextToLoad, Readable, disk
<1>11. CASE LoadEnd \/ ReplayRecord \/ ReplayEnd \/ CompactThrow \/ MergeUnnoticed
  BY <1>8, <1>11 DEF LoadEnd, ReplayRecord, ReplayEnd, CompactThrow, MergeUnnoticed, Insert, disk, startup
<1>. QED
  BY <1>1, <1>2, <1>3, <1>4, <1>5, <1>6, <1>7, <1>9, <1>10, <1>11
  DEF Next, Open, DoCompaction, CompactRename, CompactRemove

\* In every reachable state
LEMMA ReadersAlways == Spec => [](Sorted /\ Complete)
<1>1. Init => Sorted /\ Complete
  BY DEF Init, Sorted, Complete, Readable, EmptyTable
<1>2. IInv /\ IInv' /\ (Matched /\ AloneHere) /\ (Sorted /\ Complete) /\ [Next]_vars
        => (Sorted /\ Complete)'
  BY SortedNext, CompleteNext
<1>. QED
  BY <1>1, <1>2, MatchedAlways, Invariance, PTL DEF Spec

-----------------------------------------------------------------------------
(* A compaction *)

\* Readers of L0 files answer as the L0 files on disk do, for a key that is not in
\* the memtable, or behind the rename of a broken file not at all.
LEMMA L0Answers ==
  ASSUME IInv, Matched, Sorted, Complete, pc # "remove", pending = {},
         \A i \in DOMAIN readers : readers[i].name[1] = "L0" /\ OnDisk(readers[i]),
         \A f \in Readable : f[2] < 10,
         NEW d, Directory(d), DOMAIN d = OfL0(files), \A f \in DOMAIN d : d[f] = files[f],
         NEW k, k \notin DOMAIN memtable
  PROVE  ReadOn(readers, k) = ValueOn(d, k) \/ (BrokenL1 /\ ReadOn(readers, k) = Tomb)
<1>1. readers \in Readers
  BY DEF IInv, TypeOK, Readers
<1>2. \A f \in DOMAIN d : d[f] # Broken => f[1] = "L0" /\ f[2] < 10
  BY DEF OfL0, Readable
<1>3. \A i \in DOMAIN readers : /\ readers[i].name \in DOMAIN d
                               /\ d[readers[i].name] = readers[i].table
                               /\ readers[i].name[2] < 10
  <2>1. ASSUME NEW i \in DOMAIN readers
        PROVE  readers[i].name \in OfL0(files) /\ files[readers[i].name] = readers[i].table
               /\ readers[i].name \in Readable
    BY <1>1, ReaderFacts, MarkerAssumption DEF OnDisk, OfL0, Readable
  <2>. QED
    BY <2>1
<1>4. \A i, j \in DOMAIN readers : i < j => readers[i].name[2] < readers[j].name[2]
  BY <1>3 DEF Sorted
<1>5. ASSUME NEW f \in On(d, k)
      PROVE  \/ \E i \in DOMAIN readers :
                  \/ readers[i].name = f
                  \/ f[2] < readers[i].name[2] /\ DOMAIN d[f] \subseteq DOMAIN readers[i].table
             \/ Unread(f)
  <2>1. /\ f \in Readable \ pending /\ f[1] = "L0" /\ d[f] = files[f] /\ k \in DOMAIN files[f]
    BY DEF On, OfL0, Readable
  <2>2. SeenIn(f, DOMAIN files[f], memtable, readers) \/ Unread(f)
    BY <2>1 DEF Complete
  <2>. QED
    BY <2>1, <2>2 DEF SeenIn
<1>6. CASE Having(readers, k) # {}
  BY <1>1, <1>2, <1>3, <1>4, <1>5, <1>6, LastReaderAnswers DEF Unread
<1>7. CASE Having(readers, k) = {}
  <2>1. ReadOn(readers, k) = Tomb
    BY <1>7 DEF ReadOn
  <2>2. CASE On(d, k) = {}
    BY <2>1, <2>2 DEF ValueOn
  <2>3. ASSUME NEW f \in On(d, k)
        PROVE  BrokenL1
    <3>1. k \in DOMAIN d[f]
      BY DEF On
    <3>2. \A i \in DOMAIN readers : k \notin DOMAIN readers[i].table
      BY <1>7 DEF Having
    <3>3. \A i \in DOMAIN readers : readers[i].name # f
      BY <1>3, <3>1, <3>2
    <3>. QED
      BY <1>5, <3>1, <3>2, <3>3 DEF Unread
  <2>. QED
    BY <2>1, <2>2, <2>3
<1>. QED
  BY <1>6, <1>7

\* A process that reads L0 files only, within the limits of the files, goes on to read
\* the same from the single file of the compaction, unless that or an earlier one was
\* renamed without a footer.
THEOREM CompactionInvisibleAlways == Spec => CompactionInvisible
<1>1. ASSUME IInv, IInv', Covered, Matched, Sorted, Complete, CompactRename, WithinLimits, ~BrokenL1,
             \A i \in DOMAIN readers : readers[i].name[1] = "L0"
      PROVE  LiveView' = LiveView
  <2>. DEFINE temp == L1Temp(next_l1_id)
              d == [f \in OfL0(files) |-> files[f]]
              t == MergedOn(files)
  <2>1. /\ pc = "rename" /\ pending = {} /\ temp[1] # "L0" /\ UNCHANGED memtable
        /\ files[temp] = t /\ \A f \in OfL0(files) : files[f] # Broken
    BY <1>1, Names DEF IInv, TypeOK, Control, Covered, CompactRename
  <2>2. readers' = <<[name |-> L1(next_l1_id), table |-> t]>>
    BY <1>1, <2>1 DEF CompactRename
  <2>3. /\ Directory(files) /\ Directory(d) /\ DOMAIN d = OfL0(files)
        /\ \A f \in DOMAIN d : d[f] = files[f] /\ f[1] = "L0"
        /\ OfL0(d) = OfL0(files)
    BY <1>1, DirectoryFiles DEF Directory, OfL0
  <2>4. /\ LiveView = LiveAnswers(memtable, readers)
        /\ LiveView' = LiveAnswers(memtable', readers')
    BY <1>1, LiveIs, LiveIsNext DEF IInv, WithinLimits
  <2>. HIDE DEF temp, d, t
  <2>5. MergedOn(d) = t
    BY <2>3, MergedSame DEF t
  <2>6. /\ DOMAIN t = UNION {DOMAIN d[f] : f \in OfL0(d)}
        /\ \A k \in DOMAIN t : t[k] = ValueOn(d, k)
    <3>1. \A f \in OfL0(d) : d[f] # Broken
      BY <2>1, <2>3
    <3>2. \A f \in DOMAIN d : d[f] # Broken => f[1] = "L0"
      BY <2>3
    <3>. QED
      BY <2>3, <2>5, <3>1, <3>2, MergedFacts
  <2>7. \A i \in DOMAIN readers : OnDisk(readers[i])
    BY <1>1, <2>1 DEF Matched, temp
  <2>8. ASSUME NEW k, k \notin DOMAIN memtable
        PROVE  ReadOn(readers', k) = ReadOn(readers, k)
    <3>1. ReadOn(readers, k) = ValueOn(d, k)
      BY <1>1, <2>1, <2>3, <2>7, <2>8, L0Answers DEF WithinLimits
    <3>2. DOMAIN readers' = {1} /\ readers'[1].table = t
      BY <2>2
    <3>3. CASE k \in DOMAIN t
      <4>1. Having(readers', k) = {1}
        BY <3>2, <3>3 DEF Having
      <4>2. (CHOOSE i \in {1} : \A j \in {1} : j <= i) = 1
        OBVIOUS
      <4>. QED
        BY <2>6, <3>1, <3>2, <3>3, <4>1, <4>2 DEF ReadOn
    <3>4. CASE k \notin DOMAIN t
      <4>1. Having(readers', k) = {}
        BY <3>2, <3>4 DEF Having
      <4>2. On(d, k) = {}
        BY <2>3, <2>6, <3>4 DEF On, OfL0
      <4>. QED
        BY <3>1, <4>1, <4>2 DEF ReadOn, ValueOn
    <3>. QED
      BY <3>3, <3>4
  <2>. QED
    BY <2>1, <2>4, <2>8 DEF LiveAnswers
<1>2. ASSUME IInv, IInv', DoCompaction, ~CompactRename, ~RenameThrows, WithinLimits
      PROVE  LiveView' = LiveView
  <2>1. UNCHANGED <<memtable, readers>>
    BY <1>2 DEF DoCompaction, CompactThrow, CompactBegin, CompactMerge, MergeThrows,
                  MergeUnnoticed, CompactRemove, CompactEnd
  <2>2. /\ LiveView = LiveAnswers(memtable, readers)
        /\ LiveView' = LiveAnswers(memtable', readers')
    BY <1>2, LiveIs, LiveIsNext DEF IInv, WithinLimits
  <2>. QED
    BY <2>1, <2>2
<1>3. IInv /\ IInv' /\ Covered /\ (Matched /\ AloneHere) /\ (Sorted /\ Complete) /\ [Next]_vars
        => [/\ DoCompaction /\ ~RenameThrows
            /\ WithinLimits /\ ~BrokenL1
            /\ \A i \in DOMAIN readers : readers[i].name[1] = "L0"
            => LiveView' = LiveView]_vars
  BY <1>1, <1>2
<1>. QED
  BY <1>3, Invariance, CoveredAlways, MatchedAlways, ReadersAlways, PTL DEF Spec, CompactionInvisible

\* Readers that all have the same table answer from it.
LEMMA OneTable ==
  ASSUME NEW rs \in Readers, DOMAIN rs # {}, NEW t, \A i \in DOMAIN rs : rs[i].table = t, NEW k
  PROVE  ReadOn(rs, k) = IF k \in DOMAIN t THEN t[k] ELSE Tomb
<1>1. CASE k \in DOMAIN t
  <2>1. Having(rs, k) # {}
    BY <1>1 DEF Having
  <2>2. PICK i \in Having(rs, k) : \A j \in Having(rs, k) : j <= i
    BY <2>1, LastExists
  <2>3. ReadOn(rs, k) = rs[i].table[k]
    BY <2>2, LastAnswers
  <2>. QED
    BY <1>1, <2>2, <2>3 DEF Having
<1>2. CASE k \notin DOMAIN t
  <2>1. Having(rs, k) = {}
    BY <1>2 DEF Having
  <2>. QED
    BY <1>2, <2>1 DEF ReadOn
<1>. QED
  BY <1>1, <1>2

\* After a compaction over no complete file but L0 files and its own, within the
\* limits of the files, the process reads what a restart would have read before it,
\* whatever readers it had: also where an earlier rename of a broken file had left it
\* without.
THEOREM CompactionRestoresAlways == Spec => CompactionRestores
<1>1. ASSUME IInv, IInv', Covered, Emptied, CompactRename, WithinLimits, OnlyItsOwn
      PROVE  LiveView' = RecoveredView
  <2>. DEFINE temp == L1Temp(next_l1_id)
              t == files[temp]
  <2>1. /\ pc = "rename" /\ temp[1] = "L1_temp" /\ temp \in DOMAIN files /\ t # Broken
        /\ t = MergedOn(files) /\ \A f \in OfL0(files) : files[f] # Broken
        /\ Directory(files)
    BY <1>1, Names, DirectoryFiles DEF IInv, TypeOK, Covered, CompactRename
  <2>2. wal = <<>> /\ memtable' = EmptyTable
    BY <1>1, <2>1 DEF Emptied, CompactRename
  <2>3. readers' = <<[name |-> L1(next_l1_id), table |-> t]>> /\ readers' \in Readers
    BY <1>1 DEF CompactRename, IInv, TypeOK, Readers
  <2>4. /\ LiveView' = LiveAnswers(memtable', readers')
        /\ RecoveredView = Answers(wal, files)
    BY <1>1, LiveIsNext, RecoveredAnswers DEF IInv, WithinLimits
  <2>5. DOMAIN t = UNION {DOMAIN files[f] : f \in OfL0(files)}
    BY <2>1, MergedFacts
  <2>6. \A f \in Readable : f[1] = "L0" \/ f = temp
    BY <1>1 DEF OnlyItsOwn
  <2>. HIDE DEF temp, t
  <2>7. ASSUME NEW k
        PROVE  ReadOn(readers', k) = ValueOn(files, k)
    <3>1. ReadOn(readers', k) = IF k \in DOMAIN t THEN t[k] ELSE Tomb
      <4>1. DOMAIN readers' = {1} /\ readers'[1].table = t
        BY <2>3
      <4>. QED
        BY <2>3, <4>1, OneTable
    <3>2. CASE k \in DOMAIN t
      <4>1. temp \in On(files, k) /\ files[temp] = t
        BY <2>1, <3>2 DEF On, t
      <4>2. \A g \in On(files, k) \ {temp} : NameLess(g, temp)
        BY <2>1, <2>6, KindsInOrder DEF On, Readable, Directory
      <4>. QED
        BY <2>1, <3>1, <3>2, <4>1, <4>2, TopAnswers
    <3>3. CASE k \notin DOMAIN t
      <4>1. On(files, k) = {}
        BY <2>5, <2>6, <3>3 DEF On, Readable, OfL0, t
      <4>. QED
        BY <3>1, <3>3, <4>1 DEF ValueOn
    <3>. QED
      BY <3>2, <3>3
  <2>. QED
    BY <2>2, <2>4, <2>7, NothingLogged DEF LiveAnswers, Answers, EmptyTable
<1>2. ASSUME IInv, IInv', Covered, Emptied, [Next]_vars
      PROVE  [CompactRename /\ WithinLimits /\ OnlyItsOwn => LiveView' = RecoveredView]_vars
  BY <1>1, <1>2
<1>. QED
  BY <1>2, Invariance, CoveredAlways, EmptiedAlways, PTL DEF Spec, CompactionRestores

-----------------------------------------------------------------------------
(* A restart *)

OtherRead == \E i \in DOMAIN readers : readers[i].name[1] # "L0"

\* A complete file that is not of level 0 has a reader of its kind, or L0 files lie
\* before it; a compaction has L0 files until it has its own reader.
Kept ==
  /\ (\E f \in Readable \ pending : f[1] # "L0") => OtherRead \/ L0Files # {}
  /\ pc \in {"compact", "merge", "rename"} => L0Files # {}
  /\ pc = "remove" => OtherRead

\* Every step keeps this.
LEMMA KeptNext ==
  ASSUME IInv, Kept, [Next]_vars
  PROVE  Kept'
<1>0. readers \in Readers /\ next_l1_id \in Nat \ {0}
  BY DEF IInv, TypeOK, Readers
<1>1. CASE FlushBegin \/ FlushFinish \/ FlushThrows
  <2>1. \E n \in Nat \ {0} : \E x : files' = Insert(files, L0(n), x)
    BY <1>1 DEF IInv, TypeOK, Control, FlushBegin, FlushFinish, FlushThrows
  <2>2. L0Files' # {}
    BY <2>1, Names DEF L0Files, Insert
  <2>3. pc' \in {"build", "clear", "idle"}
    BY <1>1 DEF FlushBegin, FlushFinish, FlushThrows
  <2>. QED
    BY <2>2, <2>3 DEF Kept
<1>2. CASE ClearWal
  <2>1. /\ UNCHANGED <<files, readers, pending>>
        /\ pc' = IF Cardinality(L0Files) >= l0_trigger_count THEN "compact" ELSE "idle"
    BY <1>2 DEF ClearWal, startup
  <2>2. Cardinality({}) = 0
    BY FS_EmptySet
  <2>3. pc' = "compact" => L0Files # {}
    BY <2>1, <2>2, TriggerAssumption
  <2>. QED
    BY <2>1, <2>3 DEF Kept, OtherRead, Readable, L0Files
<1>3. CASE CompactBegin \/ CompactMerge \/ MergeThrows
  <2>. DEFINE temp == L1Temp(next_l1_id)
  <2>1. /\ UNCHANGED readers /\ pc \in {"compact", "merge"} /\ pc' \in {"merge", "rename", "idle"}
        /\ \E x : files' = Insert(files, temp, x)
    BY <1>3 DEF CompactBegin, CompactMerge, MergeThrows
  <2>2. L0Files \subseteq L0Files' /\ L0Files # {}
    BY <2>1 DEF Kept, L0Files, Insert
  <2>. QED
    BY <2>1, <2>2 DEF Kept
<1>4. CASE CompactRename
  <2>1. readers' = <<[name |-> L1(next_l1_id), table |-> files[L1Temp(next_l1_id)]]>> /\ pc' = "remove"
    BY <1>4 DEF CompactRename
  <2>2. L1(next_l1_id)[1] # "L0"
    BY <1>0, Names
  <2>3. OtherRead'
    BY <2>1, <2>2 DEF OtherRead
  <2>. QED
    BY <2>1, <2>3 DEF Kept
<1>a. CASE MergeUnnoticed
  BY <1>a DEF Kept, OtherRead, Readable, L0Files, MergeUnnoticed, disk, startup
<1>b. CASE RenameThrows
  <2>1. pc = "rename" /\ pc' = "idle" /\ L1Temp(next_l1_id)[1] # "L0"
    BY <1>0, <1>b, Names DEF RenameThrows
  <2>2. L0Files \subseteq L0Files'
    BY <1>b, <2>1 DEF RenameThrows, L0Files, Insert, Remove
  <2>. QED
    BY <2>1, <2>2 DEF Kept
<1>5. CASE CompactRemove \/ CompactEnd
  <2>1. UNCHANGED readers /\ pc = "remove" /\ pc' \in {"remove", "idle"}
    BY <1>5 DEF CompactRemove, CompactEnd
  <2>. QED
    BY <2>1 DEF Kept, OtherRead
<1>6. CASE Crash
  <2>1. pending' = DOMAIN files' /\ Readable' \subseteq DOMAIN files' /\ pc' = "load"
    BY <1>6 DEF Crash, Readable
  <2>. QED
    BY <2>1 DEF Kept
<1>7. CASE LoadTable
  <2>1. PICK f \in pending :
          /\ readers' = PushReader(readers, f, files[f]) /\ pending' = pending \ {f} /\ files[f] # Broken
          /\ UNCHANGED <<files, pc>> /\ pc = "load"
    BY <1>7 DEF LoadTable, NextToLoad, disk
  <2>. DEFINE n == Len(readers) + 1
              r == [name |-> f, table |-> files[f]]
              S == [name : FileName, table : Table]
  <2>2. r \in S /\ r.name = f /\ readers \in Seq(S) /\ readers' = Append(readers, r)
    BY <2>1 DEF IInv, TypeOK, PushReader
  <2>. HIDE DEF r, S
  <2>3. /\ DOMAIN readers' = DOMAIN readers \cup {n}
        /\ \A i \in DOMAIN readers : readers'[i] = readers[i]
        /\ readers'[n] = r
    BY <2>2
  <2>. HIDE DEF n
  <2>4. OtherRead => OtherRead'
    BY <2>3 DEF OtherRead
  <2>5. f[1] # "L0" => OtherRead'
    BY <2>2, <2>3 DEF OtherRead
  <2>6. (\E g \in Readable' \ pending' : g[1] # "L0") => OtherRead' \/ L0Files # {}
    BY <2>1, <2>4, <2>5 DEF Kept, Readable
  <2>. QED
    BY <2>1, <2>6 DEF Kept, L0Files
<1>8. CASE /\ UNCHANGED <<files, readers>>
           /\ (\A f \in Readable : f \in pending => f \in pending')
           /\ (pc' \in {"compact", "merge", "rename", "remove"} => pc' = pc)
  BY <1>8 DEF Kept, OtherRead, Readable, L0Files
<1>9. CASE Call \/ Write \/ UNCHANGED vars
  BY <1>8, <1>9 DEF Call, Write, AppendWal, AppendThrows, Put, Del, vars, disk, startup
<1>10. CASE SkipBroken
  BY <1>8, <1>10 DEF SkipBroken, Readable, disk
<1>11. CASE LoadEnd \/ ReplayRecord \/ ReplayEnd \/ CompactThrow
  BY <1>8, <1>11 DEF LoadEnd, ReplayRecord, ReplayEnd, CompactThrow, disk, startup
<1>. QED
  BY <1>1, <1>2, <1>3, <1>4, <1>a, <1>b, <1>5, <1>6, <1>7, <1>9, <1>10, <1>11
  DEF Next, Flush, DoCompaction, Open

\* In every reachable state
LEMMA KeptAlways == Spec => []Kept
<1>1. Init => Kept
  BY DEF Init, Kept, Readable, EmptyTable
<1>. QED
  BY <1>1, KeptNext, Invariance, PTL DEF Spec

\* The files are finitely many, so a single one is the only one.
LEMMA OneFile ==
  ASSUME IInv, Cardinality(DOMAIN files) = 1
  PROVE  \E f : DOMAIN files = {f}
<1>. DEFINE bounded == {"L0", "L1", "L1_temp"} \X (1 .. MaxId)
<1>1. IsFiniteSet({"L0", "L1", "L1_temp"}) /\ IsFiniteSet(1 .. MaxId)
  <2>1. IsFiniteSet(1 .. MaxId)
    BY FS_Interval, BoundAssumption
  <2>2. IsFiniteSet({"L0", "L1", "L1_temp"})
    <3>1. IsFiniteSet({"L0"})
      BY FS_Singleton
    <3>2. IsFiniteSet({"L0"} \cup {"L1"})
      BY <3>1, FS_AddElement
    <3>3. IsFiniteSet(({"L0"} \cup {"L1"}) \cup {"L1_temp"})
      BY <3>2, FS_AddElement
    <3>4. {"L0", "L1", "L1_temp"} = ({"L0"} \cup {"L1"}) \cup {"L1_temp"}
      OBVIOUS
    <3>. QED
      BY <3>3, <3>4
  <2>. QED
    BY <2>1, <2>2
<1>2. IsFiniteSet(bounded)
  BY <1>1, FS_Product
<1>3. DOMAIN files \subseteq bounded
  BY BoundAssumption DEF IInv, TypeOK, IdBounds, FileName
<1>. HIDE DEF bounded
<1>4. IsFiniteSet(DOMAIN files)
  BY <1>2, <1>3, FS_Subset
<1>. QED
  BY <1>4, FS_Singleton

\* Over L0 files or over one file, readers and files have the same for a key that
\* is not in the memtable, but for readers lost to a broken file.
LEMMA IdleAnswers ==
  ASSUME IInv, Matched, Sorted, Complete, Kept, pc = "idle", WithinLimits,
         \/ \A f \in Readable : f[1] = "L0"
         \/ L0Files = {} /\ Cardinality(DOMAIN files) = 1,
         NEW k, k \notin DOMAIN memtable
  PROVE  ReadOn(readers, k) = ValueOn(files, k) \/ (BrokenL1 /\ ReadOn(readers, k) = Tomb)
<1>0. /\ readers \in Readers /\ pending = {} /\ Directory(files)
      /\ \A i \in DOMAIN readers : OnDisk(readers[i]) /\ readers[i].name \in Readable
  <2>1. readers \in Readers /\ pending = {} /\ Directory(files)
    BY DirectoryFiles DEF IInv, TypeOK, Control, Readers
  <2>2. \A i \in DOMAIN readers : OnDisk(readers[i])
    BY DEF Matched
  <2>. QED
    BY <2>1, <2>2, ReaderFacts, MarkerAssumption DEF OnDisk, Readable
<1>1. CASE \A f \in Readable : f[1] = "L0"
  <2>. DEFINE d == [f \in OfL0(files) |-> files[f]]
  <2>1. Directory(d) /\ DOMAIN d = OfL0(files) /\ \A f \in DOMAIN d : d[f] = files[f]
    BY <1>0 DEF Directory, OfL0
  <2>. HIDE DEF d
  <2>2. ReadOn(readers, k) = ValueOn(d, k) \/ (BrokenL1 /\ ReadOn(readers, k) = Tomb)
    BY <1>0, <1>1, <2>1, L0Answers DEF WithinLimits
  <2>3. On(d, k) = On(files, k)
    BY <1>1, <2>1 DEF On, OfL0, Readable
  <2>4. \A f \in On(files, k) : d[f] = files[f]
    BY <2>1, <2>3 DEF On
  <2>5. ValueOn(d, k) = ValueOn(files, k)
    BY <1>0, <2>3, <2>4, SameAnswer
  <2>. QED
    BY <2>2, <2>5
<1>2. CASE L0Files = {} /\ Cardinality(DOMAIN files) = 1
  <2>1. PICK f : DOMAIN files = {f}
    BY <1>2, OneFile
  <2>2. \A i \in DOMAIN readers : readers[i].name = f /\ readers[i].table = files[f]
    BY <1>0, <2>1 DEF OnDisk
  <2>3. f[1] # "L0"
    BY <1>2, <2>1 DEF L0Files
  <2>4. CASE files[f] = Broken
    <3>1. DOMAIN readers = {}
      BY <1>0, <2>2, <2>4 DEF Readable
    <3>2. Having(readers, k) = {} /\ On(files, k) = {}
      BY <2>1, <2>4, <3>1 DEF Having, On
    <3>. QED
      BY <3>2 DEF ReadOn, ValueOn
  <2>5. CASE files[f] # Broken
    <3>1. DOMAIN readers # {}
      BY <1>0, <1>2, <2>1, <2>3, <2>5 DEF Kept, OtherRead, Readable
    <3>2. ReadOn(readers, k) = IF k \in DOMAIN files[f] THEN files[f][k] ELSE Tomb
      BY <1>0, <2>2, <3>1, OneTable
    <3>3. CASE k \in DOMAIN files[f]
      <4>1. f \in On(files, k) /\ \A g \in On(files, k) \ {f} : NameLess(g, f)
        BY <2>1, <2>5, <3>3 DEF On
      <4>. QED
        BY <1>0, <3>2, <3>3, <4>1, TopAnswers
    <3>4. CASE k \notin DOMAIN files[f]
      <4>1. On(files, k) = {}
        BY <2>1, <3>4 DEF On
      <4>. QED
        BY <3>2, <3>4, <4>1 DEF ValueOn
    <3>. QED
      BY <3>3, <3>4
  <2>. QED
    BY <2>4, <2>5
<1>. QED
  BY <1>1, <1>2

\* Within the limits of the files, those of failed flushes included: a restart answers
\* what the process it replaces answered, or what it missed since it had renamed a
\* broken file.
THEOREM RestartKeepsReadsAlways == Spec => []RestartKeepsReads
<1>1. ASSUME IInv, MemInv, Matched, Sorted, Complete, Kept, pc = "idle", TornAtEnd, WithinLimits,
             \/ \A f \in Readable : f[1] = "L0"
             \/ L0Files = {} /\ Cardinality(DOMAIN files) = 1,
             NEW k \in Keys \ thrown
      PROVE  LiveView[k] = RecoveredView[k] \/ (BrokenL1 /\ LiveView[k] = Tomb)
  <2>1. /\ LiveView = LiveAnswers(memtable, readers)
        /\ RecoveredView = Answers(wal, files)
    BY <1>1, LiveIs, RecoveredAnswers DEF IInv, WithinLimits
  <2>2. Agree(memtable, Replay(wal))
    BY <1>1 DEF MemInv, MemtableIsReplay, Running
  <2>3. CASE k \in DOMAIN memtable
    BY <1>1, <2>1, <2>2, <2>3 DEF Agree, LiveAnswers, Answers
  <2>4. CASE k \notin DOMAIN memtable
    <3>1. ReadOn(readers, k) = ValueOn(files, k) \/ (BrokenL1 /\ ReadOn(readers, k) = Tomb)
      BY <1>1, <2>4, IdleAnswers
    <3>. QED
      BY <1>1, <2>1, <2>2, <2>4, <3>1 DEF Agree, LiveAnswers, Answers
  <2>. QED
    BY <2>3, <2>4
<1>2. IInv /\ MemInv /\ (Matched /\ AloneHere) /\ (Sorted /\ Complete) /\ Kept => RestartKeepsReads
  BY <1>1 DEF RestartKeepsReads
<1>. QED
  BY <1>2, Invariance, MemInit, MemNext, MatchedAlways, ReadersAlways, KeptAlways, PTL DEF Spec
=============================================================================
