--------------------------- MODULE KVStoreProofs ---------------------------
(***************************************************************************)
(* Theorems about the engine of KVStore, for every value of its constants: *)
(* its types and control state, and the write-ahead log, from which        *)
(* replay_wal would rebuild at every moment what the memtable holds.       *)
(***************************************************************************)
EXTENDS KVStore, FiniteSetTheorems, WellFoundedInduction, TLAPS

-----------------------------------------------------------------------------
(* Tables *)

\* A table stays a table when an entry is inserted.
LEMMA InsertTable ==
  ASSUME NEW t \in Table, NEW k \in Keys, NEW v \in Data
  PROVE  Insert(t, k, v) \in Table
<1>1. PICK S \in SUBSET Keys : t \in [S -> Data]
  BY DEF Table
<1>2. DEFINE U == S \cup {k}
<1>3. Insert(t, k, v) = [j \in U |-> IF j = k THEN v ELSE t[j]]
  BY <1>1 DEF Insert
<1>4. Insert(t, k, v) \in [U -> Data]
  BY <1>1, <1>3
<1>. QED
  BY <1>4 DEF Table

\* The empty table is a table.
LEMMA EmptyTableIsTable == EmptyTable \in Table
<1>1. EmptyTable \in [{} -> Data]
  BY DEF EmptyTable
<1>. QED
  BY <1>1 DEF Table

-----------------------------------------------------------------------------
(* The order of file names *)

\* A non-empty set of naturals with an upper bound has a greatest element.
LEMMA GreatestNatural ==
  ASSUME NEW S \in SUBSET Nat, S # {}, NEW b \in Nat, \A n \in S : n <= b
  PROVE  \E m \in S : \A n \in S : n <= m
<1>. DEFINE D == {d \in Nat : b - d \in S}
            less == OpToRel(<, Nat)
<1>1. D \subseteq Nat /\ D # {}
  <2>1. PICK n \in S : TRUE
    OBVIOUS
  <2>2. b - n \in Nat /\ b - (b - n) = n
    BY <2>1
  <2>. QED
    BY <2>2
<1>2. IsWellFoundedOn(less, Nat)
  BY NatLessThanWellFounded
<1>3. PICK d \in D : \A e \in D : ~ (<<e, d>> \in less)
  <2>. HIDE DEF D, less
  <2>. QED
    BY <1>1, <1>2, WFMin
<1>4. \A e \in D : ~ (e < d)
  BY <1>3 DEF OpToRel
<1>5. ASSUME NEW n \in S
      PROVE  n <= b - d
  <2>1. b - n \in D
    <3>. b - n \in Nat /\ b - (b - n) = n
      OBVIOUS
    <3>. QED
      OBVIOUS
  <2>. QED
    BY <2>1, <1>4
<1>. QED
  BY <1>5

\* Among file names with bounded ids one sorts last.
LEMMA NewestExists ==
  ASSUME NEW S \in SUBSET FileName, S # {}, NEW b \in Nat, \A f \in S : f[2] <= b
  PROVE  \E f \in S : \A g \in S \ {f} : NameLess(g, f)
<1>0. \A f \in S : Kind(f) \in 0 .. 2 /\ f[2] \in Nat /\ Lead(f[2]) \in Nat
                    /\ Lead(f[2]) <= 10 * b
  BY DEF FileName, Kind, Lead
<1>1. PICK k \in {Kind(f) : f \in S} : \A n \in {Kind(f) : f \in S} : n <= k
  <2>. {Kind(f) : f \in S} \in SUBSET Nat /\ {Kind(f) : f \in S} # {}
    BY <1>0
  <2>. \A n \in {Kind(f) : f \in S} : n <= 2
    BY <1>0
  <2>. QED
    BY GreatestNatural
<1>. DEFINE T == {f \in S : Kind(f) = k}
            L == {Lead(f[2]) : f \in T}
<1>2. PICK l \in L : \A n \in L : n <= l
  <2>. L \in SUBSET Nat /\ L # {}
    BY <1>0, <1>1
  <2>. \A n \in L : n <= 10 * b
    BY <1>0
  <2>. 10 * b \in Nat
    OBVIOUS
  <2>. HIDE DEF L
  <2>. QED
    BY GreatestNatural
<1>. DEFINE U == {f \in T : Lead(f[2]) = l}
            I == {f[2] : f \in U}
<1>3. PICK i \in I : \A n \in I : n <= i
  <2>. I \in SUBSET Nat /\ I # {}
    BY <1>0, <1>2
  <2>. \A n \in I : n <= b
    BY <1>0
  <2>. QED
    BY GreatestNatural
<1>4. PICK f \in U : f[2] = i
  BY <1>3
<1>5. ASSUME NEW g \in S \ {f}
      PROVE  NameLess(g, f)
  <2>1. CASE Kind(g) # k
    <3>1. Kind(g) \in Nat /\ Kind(f) = k /\ k \in Nat
      BY <1>0, <1>4
    <3>2. Kind(g) <= k
      BY <1>1
    <3>. QED
      BY <2>1, <3>1, <3>2 DEF NameLess
  <2>2. CASE Kind(g) = k /\ Lead(g[2]) # l
    <3>1. Lead(g[2]) \in Nat /\ Lead(f[2]) = l /\ l \in Nat /\ Kind(f) = k
      BY <1>0, <1>4
    <3>2. Lead(g[2]) <= l
      BY <2>2, <1>2
    <3>. QED
      BY <2>2, <3>1, <3>2 DEF NameLess
  <2>3. CASE Kind(g) = k /\ Lead(g[2]) = l
    <3>1. g[2] <= f[2]
      BY <2>3, <1>3, <1>4
    <3>2. g[2] # f[2]
      BY <2>3, <1>4 DEF FileName, Kind
    <3>. QED
      BY <2>3, <3>1, <3>2, <1>0, <1>4 DEF NameLess
  <2>. QED
    BY <2>1, <2>2, <2>3
<1>. QED
  BY <1>4, <1>5

\* The file a compaction or a restart takes a key from is one of the files that
\* hold it.
LEMMA NewestIsMember ==
  ASSUME NEW S \in SUBSET FileName, S # {}, NEW b \in Nat, \A f \in S : f[2] <= b
  PROVE  Newest(S) \in S
  BY NewestExists DEF Newest

-----------------------------------------------------------------------------
(* The inductive invariant *)

\* The ids given out and the ids on disk stay within the bound, and there are
\* never more L1 ids than L0 ids: every compaction follows a Flush.
IdBounds ==
  /\ next_sstable_id <= MaxId + 1
  /\ pc \in {"append", "apply", "flush"} => next_sstable_id <= MaxId
  /\ next_l1_id <= next_sstable_id
  /\ pc \in {"build", "clear", "compact", "merge", "rename", "remove"} =>
       next_l1_id < next_sstable_id
  /\ \A f \in DOMAIN files : f[2] <= MaxId

\* What each point of a call relies on.
Control ==
  /\ pc \in {"append", "apply"} => call \in Record
  /\ pc = "build" =>
       /\ next_sstable_id - 1 \in Nat \ {0}
       /\ L0(next_sstable_id - 1) \in DOMAIN files
       /\ files[L0(next_sstable_id - 1)] = Broken
  /\ pc = "merge" =>
       /\ \A f \in L0Files : files[f] # Broken
       /\ L1Temp(next_l1_id) \in DOMAIN files
       /\ files[L1Temp(next_l1_id)] = Broken
  /\ pc = "rename" => L1Temp(next_l1_id) \in DOMAIN files
  /\ pc # "load" => pending = {}
  /\ pc # "replay" => cursor = 1
  /\ pc = "replay" => cursor <= Len(wal) + 1 /\ \A i \in 1 .. cursor - 1 : wal[i] # Torn

IInv == TypeOK /\ IdBounds /\ Control /\ FreshId

-----------------------------------------------------------------------------
(* IInv is inductive *)

\* A new directory and a new process.
LEMMA InitInv == Init => IInv
<1>. SUFFICES ASSUME Init PROVE IInv
  OBVIOUS
<1>1. TypeOK
  <2>1. files \in [DOMAIN files -> Table \cup {Broken}] /\ DOMAIN files = {}
    BY DEF Init, EmptyTable
  <2>. QED
    BY <2>1, EmptyTableIsTable DEF Init, TypeOK, Running
<1>2. IdBounds
  BY BoundAssumption DEF Init, IdBounds, EmptyTable
<1>3. Control
  BY DEF Init, Control
<1>4. FreshId
  BY DEF Init, FreshId, Readable, EmptyTable
<1>. QED
  BY <1>1, <1>2, <1>3, <1>4 DEF IInv

\* The table a compaction writes is a table.
LEMMA MergedTable ==
  ASSUME IInv, \A f \in L0Files : files[f] # Broken
  PROVE  Merged(L0Files) \in Table
<1>. DEFINE K == UNION {DOMAIN files[f] : f \in L0Files}
<1>1. \A f \in L0Files : f \in FileName /\ files[f] \in Table /\ f[2] <= MaxId
  BY DEF IInv, TypeOK, IdBounds, L0Files
<1>2. K \subseteq Keys
  BY <1>1 DEF Table
<1>3. ASSUME NEW k \in K
      PROVE  files[Newest(Holding(L0Files, k))][k] \in Data
  <2>1. /\ Holding(L0Files, k) \in SUBSET FileName
        /\ Holding(L0Files, k) # {}
        /\ \A f \in Holding(L0Files, k) : f[2] <= MaxId
    BY <1>1 DEF Holding
  <2>2. Newest(Holding(L0Files, k)) \in Holding(L0Files, k)
    BY <2>1, NewestIsMember, BoundAssumption
  <2>. QED
    BY <2>2, <1>1 DEF Holding, Table
<1>4. Merged(L0Files) \in [K -> Data]
  BY <1>3 DEF Merged
<1>. QED
  BY <1>2, <1>4 DEF Table

\* The names of the three kinds of files.
LEMMA Names ==
  ASSUME NEW n \in Nat \ {0}
  PROVE  /\ L0(n) \in FileName /\ L0(n)[1] = "L0" /\ L0(n)[2] = n
         /\ L1(n) \in FileName /\ L1(n)[1] = "L1" /\ L1(n)[2] = n
         /\ L1Temp(n) \in FileName /\ L1Temp(n)[1] = "L1_temp" /\ L1Temp(n)[2] = n
  BY DEF L0, L1, L1Temp, FileName

\* Writing one file leaves the others as they are.
LEMMA WriteFile ==
  ASSUME TypeOK, NEW f \in FileName, NEW x \in Table \cup {Broken},
         files' = Insert(files, f, x)
  PROVE  /\ files' \in [DOMAIN files' -> Table \cup {Broken}]
         /\ DOMAIN files' = DOMAIN files \cup {f}
         /\ DOMAIN files' \subseteq FileName
         /\ files'[f] = x
         /\ \A g \in DOMAIN files \ {f} : files'[g] = files[g]
  BY DEF TypeOK, Insert

\* So does removing one.
LEMMA RemoveFile ==
  ASSUME TypeOK, NEW f, files' = Remove(files, f)
  PROVE  /\ files' \in [DOMAIN files' -> Table \cup {Broken}]
         /\ DOMAIN files' = DOMAIN files \ {f}
         /\ DOMAIN files' \subseteq FileName
         /\ \A g \in DOMAIN files \ {f} : files'[g] = files[g]
  BY DEF TypeOK, Remove

\* Call preserves the invariant.
LEMMA CallInv ==
  ASSUME IInv, Call PROVE IInv'
<1>1. TypeOK'
  BY DEF IInv, TypeOK, IdBounds, Control, Call, disk, log, counters, startup, Running
<1>2. IdBounds'
  BY DEF IInv, TypeOK, IdBounds, Control, Call, disk, log, counters, startup
<1>3. Control'
  BY DEF IInv, TypeOK, IdBounds, Control, Call, disk, log, counters, startup, L0Files, Readable
<1>4. FreshId'
  BY DEF IInv, TypeOK, Control, FreshId, Call, disk, log, counters, startup, Readable
<1>. QED
  BY <1>1, <1>2, <1>3, <1>4 DEF IInv

\* AppendWal preserves the invariant.
LEMMA AppendWalInv ==
  ASSUME IInv, AppendWal PROVE IInv'
<1>1. TypeOK'
  BY DEF IInv, TypeOK, IdBounds, Control, AppendWal, disk, log, counters, startup, Running
<1>2. IdBounds'
  BY DEF IInv, TypeOK, IdBounds, Control, AppendWal, disk, log, counters, startup
<1>3. Control'
  BY DEF IInv, TypeOK, IdBounds, Control, AppendWal, disk, log, counters, startup, L0Files, Readable
<1>4. FreshId'
  BY DEF IInv, TypeOK, Control, FreshId, AppendWal, disk, log, counters, startup, Readable
<1>. QED
  BY <1>1, <1>2, <1>3, <1>4 DEF IInv

\* AppendThrows preserves the invariant.
LEMMA AppendThrowsInv ==
  ASSUME IInv, AppendThrows PROVE IInv'
<1>a. call \in Record /\ call.key \in Keys /\ pending = {} /\ cursor = 1
  BY DEF IInv, TypeOK, Control, AppendThrows, Record, startup
<1>b. wal' \in Seq(Record \cup {Torn}) /\ thrown' \subseteq Keys
  <2>0. wal \in Seq(Record \cup {Torn}) /\ thrown \subseteq Keys
    BY DEF IInv, TypeOK
  <2>1. CASE UNCHANGED log
    BY <2>0, <2>1 DEF log
  <2>2. CASE wal' = Append(wal, Torn) /\ UNCHANGED thrown
    BY <2>0, <2>2
  <2>3. CASE wal' = Append(wal, call) /\ thrown' = thrown \cup {call.key}
    BY <1>a, <2>0, <2>3
  <2>. QED
    BY <2>1, <2>2, <2>3 DEF AppendThrows
<1>1. TypeOK'
  BY <1>b DEF IInv, TypeOK, AppendThrows, counters, startup, Running
<1>2. IdBounds'
  BY DEF IInv, TypeOK, IdBounds, Control, AppendThrows, counters, startup
<1>3. Control'
  BY <1>a DEF Control, AppendThrows, startup
<1>4. FreshId'
  BY DEF IInv, TypeOK, Control, FreshId, AppendThrows, counters, startup, Readable
<1>. QED
  BY <1>1, <1>2, <1>3, <1>4 DEF IInv

\* Put preserves the invariant.
LEMMA PutInv ==
  ASSUME IInv, Put PROVE IInv'
<1>0. memtable' \in Table
  BY InsertTable DEF IInv, TypeOK, Control, Put, Record
<1>1. TypeOK'
  BY <1>0 DEF IInv, TypeOK, IdBounds, Control, Put, disk, log, counters, startup, Running
<1>2. IdBounds'
  BY <1>0 DEF IInv, TypeOK, IdBounds, Control, Put, disk, log, counters, startup
<1>3. Control'
  BY <1>0 DEF IInv, TypeOK, IdBounds, Control, Put, disk, log, counters, startup, L0Files, Readable
<1>4. FreshId'
  BY <1>0 DEF IInv, TypeOK, Control, FreshId, Put, disk, log, counters, startup, Readable
<1>. QED
  BY <1>1, <1>2, <1>3, <1>4 DEF IInv

\* Del preserves the invariant.
LEMMA DelInv ==
  ASSUME IInv, Del PROVE IInv'
<1>0. memtable' \in Table
  BY InsertTable DEF IInv, TypeOK, Control, Del, Record, Data
<1>1. TypeOK'
  BY <1>0 DEF IInv, TypeOK, IdBounds, Control, Del, disk, log, counters, startup, Running
<1>2. IdBounds'
  BY <1>0 DEF IInv, TypeOK, IdBounds, Control, Del, disk, log, counters, startup
<1>3. Control'
  BY <1>0 DEF IInv, TypeOK, IdBounds, Control, Del, disk, log, counters, startup, L0Files, Readable
<1>4. FreshId'
  BY <1>0 DEF IInv, TypeOK, Control, FreshId, Del, disk, log, counters, startup, Readable
<1>. QED
  BY <1>1, <1>2, <1>3, <1>4 DEF IInv

\* FlushBegin preserves the invariant.
LEMMA FlushBeginInv ==
  ASSUME IInv, FlushBegin PROVE IInv'
<1>. DEFINE name == L0(next_sstable_id)
<1>a. /\ name \in FileName /\ name[1] = "L0" /\ name[2] = next_sstable_id
      /\ next_sstable_id \in Nat \ {0} /\ next_sstable_id <= MaxId
      /\ pending = {}
  BY Names DEF IInv, TypeOK, IdBounds, Control, FlushBegin
<1>b. /\ files' \in [DOMAIN files' -> Table \cup {Broken}]
      /\ DOMAIN files' = DOMAIN files \cup {name}
      /\ DOMAIN files' \subseteq FileName
      /\ files'[name] = Broken
      /\ \A g \in DOMAIN files \ {name} : files'[g] = files[g]
  BY <1>a, WriteFile DEF IInv, FlushBegin
<1>d. \A g \in DOMAIN files : g[2] \in Nat
  BY DEF IInv, TypeOK, FileName
<1>c. next_sstable_id' - 1 = next_sstable_id
  BY <1>a DEF FlushBegin
<1>. HIDE DEF name
<1>1. TypeOK'
  BY <1>a, <1>b DEF IInv, TypeOK, IdBounds, Control, FlushBegin, disk, log, counters, startup, Running
<1>2. IdBounds'
  <2>1. next_l1_id' < next_sstable_id' /\ next_sstable_id' <= MaxId + 1
    BY <1>a, BoundAssumption DEF IInv, TypeOK, IdBounds, FlushBegin
  <2>2. pc' = "build" /\ next_l1_id' <= next_sstable_id'
    BY <1>a, <2>1 DEF IInv, TypeOK, IdBounds, FlushBegin
  <2>. QED
    BY <1>a, <1>b, <2>1, <2>2 DEF IInv, IdBounds
<1>3. Control'
  <2>1. L0(next_sstable_id' - 1) = name
    BY <1>c DEF name
  <2>. QED
    BY <1>a, <1>b, <1>c, <2>1 DEF IInv, Control, FlushBegin, log, startup
<1>4. FreshId'
  <2>. SUFFICES ASSUME NEW g \in Readable' \ pending', g[1] = "L0"
                PROVE  g[2] < next_sstable_id'
    BY DEF FreshId
  <2>1. g \in DOMAIN files \ {name} /\ files[g] # Broken
    BY <1>b DEF Readable
  <2>2. g[2] < next_sstable_id
    BY <1>a, <2>1 DEF IInv, FreshId, Readable
  <2>. QED
    BY <1>a, <1>d, <2>1, <2>2 DEF FlushBegin
<1>. QED
  BY <1>1, <1>2, <1>3, <1>4 DEF IInv

\* FlushFinish preserves the invariant.
LEMMA FlushFinishInv ==
  ASSUME IInv, FlushFinish PROVE IInv'
<1>. DEFINE name == L0(next_sstable_id - 1)
<1>a. /\ name \in FileName /\ name[1] = "L0" /\ name[2] = next_sstable_id - 1
      /\ name \in DOMAIN files /\ files[name] = Broken
      /\ memtable \in Table
      /\ pending = {}
  BY Names DEF IInv, TypeOK, Control, FlushFinish
<1>b. /\ files' \in [DOMAIN files' -> Table \cup {Broken}]
      /\ DOMAIN files' = DOMAIN files \cup {name}
      /\ DOMAIN files' \subseteq FileName
      /\ files'[name] = memtable
      /\ \A g \in DOMAIN files \ {name} : files'[g] = files[g]
  BY <1>a, WriteFile DEF IInv, FlushFinish
<1>c. readers' \in Seq([name : FileName, table : Table])
  <2>1. [name |-> name, table |-> memtable] \in [name : FileName, table : Table]
    BY <1>a
  <2>. QED
    BY <2>1 DEF IInv, TypeOK, FlushFinish, PushReader
<1>. HIDE DEF name
<1>1. TypeOK'
  BY <1>a, <1>b, <1>c, EmptyTableIsTable DEF IInv, TypeOK, IdBounds, Control, FlushFinish, disk, log, counters, startup, Running
<1>2. IdBounds'
  BY <1>a, <1>b, <1>c, EmptyTableIsTable DEF IInv, TypeOK, IdBounds, Control, FlushFinish, disk, log, counters, startup
<1>3. Control'
  BY <1>a, <1>b, <1>c, EmptyTableIsTable DEF IInv, TypeOK, IdBounds, Control, FlushFinish, disk, log, counters, startup, L0Files, Readable
<1>4. FreshId'
  BY <1>a, <1>b, <1>c, EmptyTableIsTable DEF IInv, TypeOK, Control, FreshId, FlushFinish, disk, log, counters, startup, Readable
<1>. QED
  BY <1>1, <1>2, <1>3, <1>4 DEF IInv

\* What a failing builder leaves is no table, or a table.
LEMMA LeftoversAreFiles ==
  ASSUME NEW t \in Table
  PROVE  Leftovers(t) \subseteq Table \cup {Broken}
<1>1. ASSUME NEW k \in DOMAIN t
      PROVE  [j \in {i \in DOMAIN t : i <= k} |-> t[j]] \in Table
  <2>. DEFINE S == {i \in DOMAIN t : i <= k}
  <2>1. PICK U \in SUBSET Keys : t \in [U -> Data]
    BY DEF Table
  <2>2. S \in SUBSET Keys /\ [j \in S |-> t[j]] \in [S -> Data]
    BY <2>1
  <2>. HIDE DEF S
  <2>3. [j \in S |-> t[j]] \in Table
    BY <2>2 DEF Table
  <2>. QED
    BY <2>3 DEF S
<1>. QED
  BY <1>1 DEF Leftovers

\* FlushThrows preserves the invariant.
LEMMA FlushThrowsInv ==
  ASSUME IInv, FlushThrows PROVE IInv'
<1>. DEFINE name == L0(next_sstable_id - 1)
<1>a. /\ name \in FileName /\ name[1] = "L0" /\ name[2] = next_sstable_id - 1
      /\ name \in DOMAIN files /\ files[name] = Broken
      /\ memtable \in Table
      /\ pending = {}
  BY Names DEF IInv, TypeOK, Control, FlushThrows
<1>b. PICK left \in Table \cup {Broken} : files' = Insert(files, name, left)
  BY <1>a, LeftoversAreFiles DEF FlushThrows
<1>c. /\ files' \in [DOMAIN files' -> Table \cup {Broken}]
      /\ DOMAIN files' = DOMAIN files \cup {name}
      /\ DOMAIN files' \subseteq FileName
      /\ files'[name] = left
      /\ \A g \in DOMAIN files \ {name} : files'[g] = files[g]
  BY <1>a, <1>b, WriteFile DEF IInv
<1>. HIDE DEF name
<1>1. TypeOK'
  BY <1>a, <1>c DEF IInv, TypeOK, FlushThrows, log, counters, startup, Running
<1>2. IdBounds'
  BY <1>a, <1>c DEF IInv, TypeOK, IdBounds, FlushThrows, log, counters, startup
<1>3. Control'
  BY <1>a DEF IInv, Control, FlushThrows, log, counters, startup
<1>4. FreshId'
  BY <1>a, <1>c DEF IInv, TypeOK, Control, FreshId, FlushThrows, log, counters, startup, Readable
<1>. QED
  BY <1>1, <1>2, <1>3, <1>4 DEF IInv

\* ClearWal preserves the invariant.
LEMMA ClearWalInv ==
  ASSUME IInv, ClearWal PROVE IInv'
<1>1. TypeOK'
  BY DEF IInv, TypeOK, IdBounds, Control, ClearWal, disk, log, counters, startup, Running
<1>2. IdBounds'
  BY DEF IInv, TypeOK, IdBounds, Control, ClearWal, disk, log, counters, startup
<1>3. Control'
  BY DEF IInv, TypeOK, IdBounds, Control, ClearWal, disk, log, counters, startup, L0Files, Readable
<1>4. FreshId'
  BY DEF IInv, TypeOK, Control, FreshId, ClearWal, disk, log, counters, startup, Readable
<1>. QED
  BY <1>1, <1>2, <1>3, <1>4 DEF IInv

\* CompactThrow preserves the invariant.
LEMMA CompactThrowInv ==
  ASSUME IInv, CompactThrow PROVE IInv'
<1>1. TypeOK'
  BY DEF IInv, TypeOK, IdBounds, Control, CompactThrow, disk, log, counters, startup, Running
<1>2. IdBounds'
  BY DEF IInv, TypeOK, IdBounds, Control, CompactThrow, disk, log, counters, startup
<1>3. Control'
  BY DEF IInv, TypeOK, IdBounds, Control, CompactThrow, disk, log, counters, startup, L0Files, Readable
<1>4. FreshId'
  BY DEF IInv, TypeOK, Control, FreshId, CompactThrow, disk, log, counters, startup, Readable
<1>. QED
  BY <1>1, <1>2, <1>3, <1>4 DEF IInv

\* CompactBegin preserves the invariant.
LEMMA CompactBeginInv ==
  ASSUME IInv, CompactBegin PROVE IInv'
<1>. DEFINE name == L1Temp(next_l1_id)
<1>a. /\ name \in FileName /\ name[1] = "L1_temp" /\ name[2] = next_l1_id
      /\ next_l1_id <= MaxId
      /\ pending = {}
  BY Names, BoundAssumption DEF IInv, TypeOK, IdBounds, Control, CompactBegin
<1>b. Broken \in Table \cup {Broken}
  OBVIOUS
<1>c. /\ files' \in [DOMAIN files' -> Table \cup {Broken}]
      /\ DOMAIN files' = DOMAIN files \cup {name}
      /\ DOMAIN files' \subseteq FileName
      /\ files'[name] = Broken
      /\ \A g \in DOMAIN files \ {name} : files'[g] = files[g]
  BY <1>a, <1>b, WriteFile DEF IInv, CompactBegin
<1>. HIDE DEF name
<1>1. TypeOK'
  BY <1>a, <1>c DEF IInv, TypeOK, IdBounds, Control, CompactBegin, disk, log, counters, startup, Running
<1>2. IdBounds'
  BY <1>a, <1>c DEF IInv, TypeOK, IdBounds, Control, CompactBegin, disk, log, counters, startup
<1>3. Control'
  <2>1. L1Temp(next_l1_id') = name
    BY DEF CompactBegin, counters, name
  <2>2. \A f \in L0Files' : files'[f] # Broken
    BY <1>a, <1>c DEF CompactBegin, L0Files
  <2>. QED
    BY <1>a, <1>c, <2>1, <2>2 DEF IInv, Control, CompactBegin, log, counters, startup
<1>4. FreshId'
  BY <1>a, <1>c DEF IInv, TypeOK, Control, FreshId, CompactBegin, disk, log, counters, startup, Readable
<1>. QED
  BY <1>1, <1>2, <1>3, <1>4 DEF IInv

\* CompactMerge preserves the invariant.
LEMMA CompactMergeInv ==
  ASSUME IInv, CompactMerge PROVE IInv'
<1>. DEFINE name == L1Temp(next_l1_id)
<1>a. /\ name \in FileName /\ name[1] = "L1_temp" /\ name[2] = next_l1_id
      /\ next_l1_id <= MaxId
      /\ pending = {}
  BY Names, BoundAssumption DEF IInv, TypeOK, IdBounds, Control, CompactMerge
<1>b. Merged(L0Files) \in Table \cup {Broken}
  BY MergedTable DEF IInv, Control, CompactMerge
<1>c. /\ files' \in [DOMAIN files' -> Table \cup {Broken}]
      /\ DOMAIN files' = DOMAIN files \cup {name}
      /\ DOMAIN files' \subseteq FileName
      /\ files'[name] = Merged(L0Files)
      /\ \A g \in DOMAIN files \ {name} : files'[g] = files[g]
  BY <1>a, <1>b, WriteFile DEF IInv, CompactMerge
<1>. HIDE DEF name
<1>1. TypeOK'
  BY <1>a, <1>c DEF IInv, TypeOK, IdBounds, Control, CompactMerge, disk, log, counters, startup, Running
<1>2. IdBounds'
  BY <1>a, <1>c DEF IInv, TypeOK, IdBounds, Control, CompactMerge, disk, log, counters, startup
<1>3. Control'
  <2>1. L1Temp(next_l1_id') \in DOMAIN files'
    BY <1>c DEF CompactMerge, counters, name
  <2>. QED
    BY <1>a, <2>1 DEF IInv, Control, CompactMerge, log, counters, startup
<1>4. FreshId'
  BY <1>a, <1>c DEF IInv, TypeOK, Control, FreshId, CompactMerge, disk, log, counters, startup, Readable
<1>. QED
  BY <1>1, <1>2, <1>3, <1>4 DEF IInv

\* MergeThrows preserves the invariant.
LEMMA MergeThrowsInv ==
  ASSUME IInv, MergeThrows PROVE IInv'
<1>. DEFINE name == L1Temp(next_l1_id)
<1>a. /\ name \in FileName /\ name[1] = "L1_temp" /\ name[2] = next_l1_id
      /\ next_l1_id <= MaxId
      /\ pending = {}
  BY Names, BoundAssumption DEF IInv, TypeOK, IdBounds, Control, MergeThrows
<1>b. PICK left \in Table \cup {Broken} : files' = Insert(files, name, left)
  BY <1>a, MergedTable, LeftoversAreFiles DEF IInv, Control, MergeThrows
<1>c. /\ files' \in [DOMAIN files' -> Table \cup {Broken}]
      /\ DOMAIN files' = DOMAIN files \cup {name}
      /\ DOMAIN files' \subseteq FileName
      /\ files'[name] = left
      /\ \A g \in DOMAIN files \ {name} : files'[g] = files[g]
  BY <1>a, <1>b, WriteFile DEF IInv
<1>. HIDE DEF name
<1>1. TypeOK'
  BY <1>a, <1>c DEF IInv, TypeOK, MergeThrows, log, counters, startup, Running
<1>2. IdBounds'
  BY <1>a, <1>c DEF IInv, TypeOK, IdBounds, MergeThrows, log, counters, startup
<1>3. Control'
  BY <1>a DEF IInv, Control, MergeThrows, log, counters, startup
<1>4. FreshId'
  BY <1>a, <1>c DEF IInv, TypeOK, Control, FreshId, MergeThrows, log, counters, startup, Readable
<1>. QED
  BY <1>1, <1>2, <1>3, <1>4 DEF IInv

\* MergeUnnoticed preserves the invariant.
LEMMA MergeUnnoticedInv ==
  ASSUME IInv, MergeUnnoticed PROVE IInv'
<1>1. TypeOK'
  BY DEF IInv, TypeOK, MergeUnnoticed, disk, log, counters, startup, Running
<1>2. IdBounds'
  BY DEF IInv, IdBounds, MergeUnnoticed, disk, log, counters, startup
<1>3. Control'
  BY DEF IInv, Control, MergeUnnoticed, disk, log, counters, startup
<1>4. FreshId'
  BY DEF IInv, FreshId, MergeUnnoticed, disk, log, counters, startup, Readable
<1>. QED
  BY <1>1, <1>2, <1>3, <1>4 DEF IInv

\* CompactRename preserves the invariant.
LEMMA CompactRenameInv ==
  ASSUME IInv, CompactRename PROVE IInv'
<1>. DEFINE temp == L1Temp(next_l1_id)
            name == L1(next_l1_id)
<1>a. /\ temp \in DOMAIN files /\ files[temp] \in Table
      /\ name \in FileName /\ name[1] = "L1" /\ name[2] = next_l1_id
      /\ next_l1_id <= MaxId
      /\ pending = {}
  BY Names, BoundAssumption DEF IInv, TypeOK, IdBounds, Control, CompactRename, Readable
<1>b. /\ files' \in [DOMAIN files' -> Table \cup {Broken}]
      /\ DOMAIN files' = (DOMAIN files \ {temp}) \cup {name}
      /\ DOMAIN files' \subseteq FileName
      /\ files'[name] = files[temp]
      /\ \A g \in DOMAIN files \ {temp, name} : files'[g] = files[g]
  BY <1>a DEF IInv, TypeOK, CompactRename, Insert, Remove
<1>c. readers' \in Seq([name : FileName, table : Table])
  <2>1. [name |-> name, table |-> files[temp]] \in [name : FileName, table : Table]
    BY <1>a
  <2>. QED
    BY <2>1 DEF CompactRename
<1>. HIDE DEF temp, name
<1>1. TypeOK'
  BY <1>a, <1>b, <1>c DEF IInv, TypeOK, IdBounds, Control, CompactRename, disk, log, counters, startup, Running
<1>2. IdBounds'
  BY <1>a, <1>b, <1>c DEF IInv, TypeOK, IdBounds, Control, CompactRename, disk, log, counters, startup
<1>3. Control'
  BY <1>a, <1>b, <1>c DEF IInv, TypeOK, IdBounds, Control, CompactRename, disk, log, counters, startup, L0Files, Readable
<1>4. FreshId'
  BY <1>a, <1>b, <1>c DEF IInv, TypeOK, Control, FreshId, CompactRename, disk, log, counters, startup, Readable
<1>. QED
  BY <1>1, <1>2, <1>3, <1>4 DEF IInv

\* RenameThrows preserves the invariant.
LEMMA RenameThrowsInv ==
  ASSUME IInv, RenameThrows PROVE IInv'
<1>. DEFINE temp == L1Temp(next_l1_id)
            name == L1(next_l1_id)
<1>a. /\ temp \in DOMAIN files
      /\ name \in FileName /\ name[1] = "L1" /\ name[2] = next_l1_id
      /\ next_l1_id <= MaxId
      /\ pending = {}
  BY Names, BoundAssumption DEF IInv, TypeOK, IdBounds, Control, RenameThrows, Readable
<1>b. /\ files' \in [DOMAIN files' -> Table \cup {Broken}]
      /\ DOMAIN files' = (DOMAIN files \ {temp}) \cup {name}
      /\ DOMAIN files' \subseteq FileName
      /\ files'[name] = Broken
      /\ \A g \in DOMAIN files \ {temp, name} : files'[g] = files[g]
  BY <1>a DEF IInv, TypeOK, RenameThrows, Insert, Remove
<1>c. readers' \in Seq([name : FileName, table : Table])
  BY DEF RenameThrows
<1>. HIDE DEF temp, name
<1>1. TypeOK'
  BY <1>a, <1>b, <1>c DEF IInv, TypeOK, IdBounds, Control, RenameThrows, disk, log, counters, startup, Running
<1>2. IdBounds'
  BY <1>a, <1>b, <1>c DEF IInv, TypeOK, IdBounds, Control, RenameThrows, disk, log, counters, startup
<1>3. Control'
  BY <1>a, <1>b, <1>c DEF IInv, TypeOK, IdBounds, Control, RenameThrows, disk, log, counters, startup, L0Files, Readable
<1>4. FreshId'
  BY <1>a, <1>b, <1>c DEF IInv, TypeOK, Control, FreshId, RenameThrows, disk, log, counters, startup, Readable
<1>. QED
  BY <1>1, <1>2, <1>3, <1>4 DEF IInv

\* CompactRemove preserves the invariant.
LEMMA CompactRemoveInv ==
  ASSUME IInv, CompactRemove PROVE IInv'
<1>a. PICK f \in L0Files : files' = Remove(files, f)
  BY DEF CompactRemove
<1>b. /\ files' \in [DOMAIN files' -> Table \cup {Broken}]
      /\ DOMAIN files' = DOMAIN files \ {f}
      /\ DOMAIN files' \subseteq FileName
      /\ \A g \in DOMAIN files \ {f} : files'[g] = files[g]
  BY <1>a, RemoveFile DEF IInv
<1>c. pending = {}
  BY DEF IInv, Control, CompactRemove
<1>1. TypeOK'
  BY <1>b, <1>c DEF IInv, TypeOK, IdBounds, Control, CompactRemove, disk, log, counters, startup, Running
<1>2. IdBounds'
  BY <1>b, <1>c DEF IInv, TypeOK, IdBounds, Control, CompactRemove, disk, log, counters, startup
<1>3. Control'
  BY <1>b, <1>c DEF IInv, TypeOK, IdBounds, Control, CompactRemove, disk, log, counters, startup, L0Files, Readable
<1>4. FreshId'
  BY <1>b, <1>c DEF IInv, TypeOK, Control, FreshId, CompactRemove, disk, log, counters, startup, Readable
<1>. QED
  BY <1>1, <1>2, <1>3, <1>4 DEF IInv

\* CompactEnd preserves the invariant.
LEMMA CompactEndInv ==
  ASSUME IInv, CompactEnd PROVE IInv'
<1>1. TypeOK'
  BY DEF IInv, TypeOK, IdBounds, Control, CompactEnd, disk, log, counters, startup, Running
<1>2. IdBounds'
  BY DEF IInv, TypeOK, IdBounds, Control, CompactEnd, disk, log, counters, startup
<1>3. Control'
  BY DEF IInv, TypeOK, IdBounds, Control, CompactEnd, disk, log, counters, startup, L0Files, Readable
<1>4. FreshId'
  BY DEF IInv, TypeOK, Control, FreshId, CompactEnd, disk, log, counters, startup, Readable
<1>. QED
  BY <1>1, <1>2, <1>3, <1>4 DEF IInv

\* Crash preserves the invariant.
LEMMA CrashInv ==
  ASSUME IInv, Crash PROVE IInv'
<1>a. wal' \in Seq(Record \cup {Torn})
  <2>1. wal \in Seq(Record \cup {Torn}) /\ Append(wal, Torn) \in Seq(Record \cup {Torn})
    BY DEF IInv, TypeOK
  <2>2. wal' = wal \/ wal' = Append(wal, Torn)
    BY DEF Crash
  <2>. QED
    BY <2>1, <2>2
<1>1. TypeOK'
  BY <1>a, EmptyTableIsTable, BoundAssumption DEF IInv, TypeOK, IdBounds, Control, Crash, disk, log, counters, startup, Running
<1>2. IdBounds'
  BY <1>a, EmptyTableIsTable, BoundAssumption DEF IInv, TypeOK, IdBounds, Control, Crash, disk, log, counters, startup
<1>3. Control'
  BY <1>a, EmptyTableIsTable, BoundAssumption DEF IInv, TypeOK, IdBounds, Control, Crash, disk, log, counters, startup, L0Files, Readable
<1>4. FreshId'
  BY <1>a, EmptyTableIsTable, BoundAssumption DEF IInv, TypeOK, Control, FreshId, Crash, disk, log, counters, startup, Readable
<1>. QED
  BY <1>1, <1>2, <1>3, <1>4 DEF IInv

\* LoadTable preserves the invariant.
LEMMA LoadTableInv ==
  ASSUME IInv, LoadTable PROVE IInv'
<1>a. PICK f \in pending :
        /\ NextToLoad(f)
        /\ files[f] # Broken
        /\ readers' = PushReader(readers, f, files[f])
        /\ next_sstable_id' = NextId(next_sstable_id, f)
        /\ pending' = pending \ {f}
        /\ UNCHANGED <<disk, pc, call, memtable, memtable_size, next_l1_id, cursor>>
  BY DEF LoadTable
<1>b. /\ f \in DOMAIN files /\ f \in FileName /\ f[2] \in Nat \ {0} /\ f[2] <= MaxId
      /\ files[f] \in Table
      /\ pc = "load"
  BY <1>a DEF IInv, TypeOK, IdBounds, FileName, NextToLoad
<1>c. readers' \in Seq([name : FileName, table : Table])
  <2>1. [name |-> f, table |-> files[f]] \in [name : FileName, table : Table]
    BY <1>b
  <2>. QED
    BY <1>a, <2>1 DEF IInv, TypeOK, PushReader
<1>d. next_sstable_id' \in Nat \ {0} /\ next_sstable_id' >= next_sstable_id
      /\ next_sstable_id' <= MaxId + 1
      /\ (f[1] = "L0" => f[2] < next_sstable_id')
  <2>1. PICK i : i = f[2]
    OBVIOUS
  <2>2. i \in Nat /\ i <= MaxId /\ MaxId \in Nat
    BY <1>b, <2>1, BoundAssumption
  <2>3. next_sstable_id \in Nat \ {0} /\ next_sstable_id <= MaxId + 1
    BY DEF IInv, TypeOK, IdBounds
  <2>4. next_sstable_id' = IF f[1] = "L0" /\ i >= next_sstable_id THEN i + 1 ELSE next_sstable_id
    BY <1>a, <2>1 DEF NextId
  <2>5. CASE f[1] = "L0" /\ i >= next_sstable_id
    BY <2>1, <2>2, <2>3, <2>4, <2>5
  <2>6. CASE ~(f[1] = "L0" /\ i >= next_sstable_id)
    BY <2>1, <2>2, <2>3, <2>4, <2>6
  <2>. QED
    BY <2>5, <2>6
<1>1. TypeOK'
  BY <1>a, <1>b, <1>c, <1>d DEF IInv, TypeOK, disk, log
<1>2. IdBounds'
  BY <1>a, <1>b, <1>d, BoundAssumption DEF IInv, TypeOK, IdBounds, disk, log
<1>3. Control'
  BY <1>a, <1>b DEF IInv, Control, disk, log, L0Files, Readable
<1>4. FreshId'
  <2>. SUFFICES ASSUME NEW g \in Readable' \ pending', g[1] = "L0"
                PROVE  g[2] < next_sstable_id'
    BY DEF FreshId
  <2>1. CASE g = f
    BY <2>1, <1>d
  <2>2. CASE g # f
    <3>1. g[2] < next_sstable_id /\ g[2] \in Nat
      BY <2>2, <1>a DEF IInv, TypeOK, FreshId, Readable, disk, log, FileName
    <3>. QED
      BY <3>1, <1>d DEF IInv, TypeOK
  <2>. QED
    BY <2>1, <2>2
<1>. QED
  BY <1>1, <1>2, <1>3, <1>4 DEF IInv

\* SkipBroken preserves the invariant.
LEMMA SkipBrokenInv ==
  ASSUME IInv, SkipBroken PROVE IInv'
<1>1. TypeOK'
  BY DEF IInv, TypeOK, IdBounds, Control, SkipBroken, disk, log, counters, startup, Running
<1>2. IdBounds'
  BY DEF IInv, TypeOK, IdBounds, Control, SkipBroken, disk, log, counters, startup
<1>3. Control'
  BY DEF IInv, TypeOK, IdBounds, Control, SkipBroken, disk, log, counters, startup, L0Files, Readable
<1>4. FreshId'
  BY DEF IInv, TypeOK, Control, FreshId, SkipBroken, disk, log, counters, startup, Readable
<1>. QED
  BY <1>1, <1>2, <1>3, <1>4 DEF IInv

\* LoadEnd preserves the invariant.
LEMMA LoadEndInv ==
  ASSUME IInv, LoadEnd PROVE IInv'
<1>1. TypeOK'
  BY DEF IInv, TypeOK, IdBounds, Control, LoadEnd, disk, log, counters, startup, Running
<1>2. IdBounds'
  BY DEF IInv, TypeOK, IdBounds, Control, LoadEnd, disk, log, counters, startup
<1>3. Control'
  <2>1. cursor = 1
    BY DEF IInv, Control, LoadEnd
  <2>. QED
    BY <2>1 DEF IInv, TypeOK, Control, LoadEnd, disk, log, startup
<1>4. FreshId'
  BY DEF IInv, TypeOK, Control, FreshId, LoadEnd, disk, log, counters, startup, Readable
<1>. QED
  BY <1>1, <1>2, <1>3, <1>4 DEF IInv

\* ReplayRecord preserves the invariant.
LEMMA ReplayRecordInv ==
  ASSUME IInv, ReplayRecord PROVE IInv'
<1>0. memtable' \in Table
  <2>1. wal[cursor] \in Record
    BY DEF IInv, TypeOK, ReplayRecord
  <2>. QED
    BY <2>1, InsertTable DEF IInv, TypeOK, ReplayRecord, Record
<1>1. TypeOK'
  BY <1>0 DEF IInv, TypeOK, IdBounds, Control, ReplayRecord, disk, log, counters, startup, Running, EntrySize
<1>2. IdBounds'
  BY <1>0 DEF IInv, TypeOK, IdBounds, Control, ReplayRecord, disk, log, counters, startup
<1>3. Control'
  BY <1>0 DEF IInv, TypeOK, IdBounds, Control, ReplayRecord, disk, log, counters, startup, L0Files, Readable
<1>4. FreshId'
  BY <1>0 DEF IInv, TypeOK, Control, FreshId, ReplayRecord, disk, log, counters, startup, Readable
<1>. QED
  BY <1>1, <1>2, <1>3, <1>4 DEF IInv

\* ReplayEnd preserves the invariant.
LEMMA ReplayEndInv ==
  ASSUME IInv, ReplayEnd PROVE IInv'
<1>1. TypeOK'
  BY DEF IInv, TypeOK, IdBounds, Control, ReplayEnd, disk, log, counters, startup, Running
<1>2. IdBounds'
  BY DEF IInv, TypeOK, IdBounds, Control, ReplayEnd, disk, log, counters, startup
<1>3. Control'
  BY DEF IInv, TypeOK, IdBounds, Control, ReplayEnd, disk, log, counters, startup, L0Files, Readable
<1>4. FreshId'
  BY DEF IInv, TypeOK, Control, FreshId, ReplayEnd, disk, log, counters, startup, Readable
<1>. QED
  BY <1>1, <1>2, <1>3, <1>4 DEF IInv

\* So does a step that changes nothing.
LEMMA StutterInv ==
  ASSUME IInv, UNCHANGED vars PROVE IInv'
  BY DEF IInv, TypeOK, IdBounds, Control, FreshId, vars, disk, log, counters, startup,
         L0Files, Readable

\* Every step preserves the invariant.
LEMMA NextInv ==
  ASSUME IInv, [Next]_vars PROVE IInv'
  BY CallInv, AppendWalInv, AppendThrowsInv, PutInv, DelInv, FlushBeginInv, FlushFinishInv, FlushThrowsInv, ClearWalInv,
     CompactThrowInv, CompactBeginInv, CompactMergeInv, MergeThrowsInv, MergeUnnoticedInv,
     CompactRenameInv, RenameThrowsInv, CompactRemoveInv,
     CompactEndInv, LoadTableInv, SkipBrokenInv, LoadEndInv, ReplayRecordInv, ReplayEndInv,
     CrashInv, StutterInv
  DEF Next, Write, Flush, DoCompaction, Open

\* Every reachable state satisfies the inductive invariant: no call and no
\* restart reuses the id of a complete L0 file, and at every point of a call the
\* files that the rest of it works on are there.
THEOREM Invariance == Spec => []IInv
  BY InitInv, NextInv, PTL DEF Spec

\* Every reachable state is well typed: in particular no reader ever holds a
\* broken file, and a compaction never reads one.
THEOREM TypeCorrect == Spec => []TypeOK
<1>1. IInv => TypeOK
  BY DEF IInv
<1>. QED
  BY <1>1, Invariance, PTL

-----------------------------------------------------------------------------
(* The write-ahead log *)

\* The logs there can be
Log == Seq(Record \cup {Torn})

-----------------------------------------------------------------------------
(* Replaying a log *)

\* The intact part of a log is a prefix of it.
LEMMA IntactPrefix ==
  ASSUME NEW w \in Log, NEW c \in Nat, c <= Len(w),
         \A i \in 1 .. c : w[i] # Torn,
         c + 1 \in DOMAIN w => w[c + 1] = Torn
  PROVE  Intact(w) = 1 .. c
<1>1. DOMAIN w = 1 .. Len(w) /\ Len(w) \in Nat
  BY DEF Log
<1>2. ASSUME NEW i \in 1 .. c
      PROVE  i \in Intact(w)
  BY <1>1 DEF Intact
<1>3. ASSUME NEW i \in Intact(w)
      PROVE  i \in 1 .. c
  <2>1. i \in DOMAIN w /\ \A j \in 1 .. i : w[j] # Torn
    BY DEF Intact
  <2>2. CASE c + 1 \in 1 .. i
    <3>1. c + 1 \in DOMAIN w
      BY <1>1, <2>1, <2>2
    <3>. QED
      BY <2>1, <2>2, <3>1
  <2>3. CASE c + 1 \notin 1 .. i
    BY <1>1, <2>1, <2>3
  <2>. QED
    BY <2>2, <2>3
<1>. QED
  BY <1>2, <1>3

\* Positions of a log accepted by the replay hold records.
LEMMA IntactRecords ==
  ASSUME NEW w \in Log
  PROVE  /\ \A i \in Intact(w) : w[i] \in Record /\ i \in Nat /\ i <= Len(w)
         /\ Len(w) \in Nat
  BY DEF Intact, Log

\* A key with a record in the intact part has a last one.
LEMMA LastHitExists ==
  ASSUME NEW w \in Log, NEW k, Hits(w, k) # {}
  PROVE  /\ LastHit(w, k) \in Hits(w, k)
         /\ \A j \in Hits(w, k) : j <= LastHit(w, k)
<1>1. Hits(w, k) \in SUBSET Nat /\ \A i \in Hits(w, k) : i <= Len(w)
  BY IntactRecords DEF Hits
<1>2. \E m \in Hits(w, k) : \A n \in Hits(w, k) : n <= m
  BY <1>1, GreatestNatural, IntactRecords
<1>. QED
  BY <1>2 DEF LastHit

\* The replay sees nothing of a log but its intact part.
LEMMA ReplayDependsOnIntact ==
  ASSUME NEW w \in Log, NEW u \in Log, Intact(w) = Intact(u),
         \A i \in Intact(w) : w[i] = u[i]
  PROVE  Replay(w) = Replay(u) /\ Puts(w) = Puts(u)
<1>1. \A k : Hits(w, k) = Hits(u, k)
  BY DEF Hits
<1>2. \A k : LastHit(w, k) = LastHit(u, k)
  BY <1>1 DEF LastHit
<1>3. {w[i].key : i \in Intact(w)} = {u[i].key : i \in Intact(u)}
  OBVIOUS
<1>4. ASSUME NEW k \in {w[i].key : i \in Intact(w)}
      PROVE  w[LastHit(w, k)].val = u[LastHit(u, k)].val
  <2>1. Hits(w, k) # {}
    BY DEF Hits
  <2>2. LastHit(w, k) \in Intact(w)
    BY <2>1, LastHitExists DEF Hits
  <2>. QED
    BY <1>2, <2>2
<1>5. Replay(w) = Replay(u)
  BY <1>3, <1>4 DEF Replay
<1>6. {i \in Intact(w) : w[i].val # Tomb} = {i \in Intact(u) : u[i].val # Tomb}
  OBVIOUS
<1>. QED
  BY <1>5, <1>6 DEF Puts

\* A record appended to an intact log is replayed last.
LEMMA ReplayAppend ==
  ASSUME NEW w \in Log, \A i \in DOMAIN w : w[i] # Torn, NEW r \in Record
  PROVE  Replay(Append(w, r)) = Insert(Replay(w), r.key, r.val)
<1>. DEFINE u == Append(w, r)
            n == Len(w) + 1
<1>1. u \in Log /\ n \in Nat /\ Len(u) = n /\ u[n] = r /\ DOMAIN u = 1 .. n
      /\ DOMAIN w = 1 .. Len(w) /\ Len(w) \in Nat
      /\ \A i \in DOMAIN w : u[i] = w[i]
  BY DEF Log
<1>2. Intact(w) = 1 .. Len(w)
  BY <1>1, IntactPrefix
<1>3. Intact(u) = 1 .. n
  <2>1. \A i \in 1 .. n : u[i] # Torn
    BY <1>1, MarkerAssumption
  <2>2. n <= Len(u) /\ n + 1 \notin DOMAIN u
    BY <1>1
  <2>. HIDE DEF u, n
  <2>. QED
    BY <1>1, <2>1, <2>2, IntactPrefix
<1>. HIDE DEF u
<1>4. Intact(u) = Intact(w) \cup {n}
  BY <1>1, <1>2, <1>3
<1>5. {u[i].key : i \in Intact(u)} = {w[i].key : i \in Intact(w)} \cup {r.key}
  BY <1>1, <1>2, <1>4
<1>6. LastHit(u, r.key) = n
  <2>1. n \in Hits(u, r.key) /\ \A i \in Hits(u, r.key) : i <= n /\ i \in Nat
    BY <1>1, <1>3 DEF Hits
  <2>2. LastHit(u, r.key) \in Hits(u, r.key) /\ n <= LastHit(u, r.key)
    BY <1>1, <2>1, LastHitExists
  <2>. QED
    BY <1>1, <2>1, <2>2
<1>7. ASSUME NEW k \in {w[i].key : i \in Intact(w)}, k # r.key
      PROVE  u[LastHit(u, k)].val = w[LastHit(w, k)].val
  <2>1. Hits(u, k) = Hits(w, k)
    BY <1>1, <1>2, <1>4, <1>7 DEF Hits
  <2>2. LastHit(u, k) = LastHit(w, k)
    BY <2>1 DEF LastHit
  <2>3. LastHit(w, k) \in Intact(w)
    <3>1. Hits(w, k) # {}
      BY DEF Hits
    <3>. QED
      BY <3>1, LastHitExists DEF Hits
  <2>. QED
    BY <1>1, <1>2, <2>2, <2>3
<1>8. Replay(u) = Insert(Replay(w), r.key, r.val)
  BY <1>1, <1>5, <1>6, <1>7 DEF Replay, Insert
<1>. QED
  BY <1>8 DEF u

\* A torn record at the end of a log is not replayed.
LEMMA ReplayTorn ==
  ASSUME NEW w \in Log, \A i \in DOMAIN w : w[i] # Torn
  PROVE  Replay(Append(w, Torn)) = Replay(w) /\ Puts(Append(w, Torn)) = Puts(w)
<1>. DEFINE u == Append(w, Torn)
            n == Len(w)
<1>1. /\ u \in Log /\ n \in Nat /\ Len(u) = n + 1 /\ u[n + 1] = Torn
      /\ DOMAIN w = 1 .. n /\ \A i \in 1 .. n : u[i] = w[i]
  BY DEF Log
<1>2. Intact(w) = 1 .. n
  BY <1>1, IntactPrefix
<1>3. Intact(u) = 1 .. n
  <2>1. n <= Len(u) /\ \A i \in 1 .. n : u[i] # Torn
    BY <1>1
  <2>. HIDE DEF u, n
  <2>. QED
    BY <1>1, <2>1, IntactPrefix
<1>. HIDE DEF u
<1>4. Replay(w) = Replay(u) /\ Puts(w) = Puts(u)
  BY <1>1, <1>2, <1>3, ReplayDependsOnIntact
<1>. QED
  BY <1>4 DEF u

\* An empty log rebuilds an empty memtable.
LEMMA ReplayEmpty ==
  ASSUME NEW w \in Log, Len(w) = 0
  PROVE  Replay(w) = EmptyTable /\ Puts(w) = 0
<1>1. Intact(w) = {}
  BY DEF Log, Intact
<1>2. {i \in Intact(w) : w[i].val # Tomb} = {}
  BY <1>1
<1>. QED
  BY <1>1, <1>2, FS_EmptySet DEF Replay, EmptyTable, Puts

\* Only a put among the appended records is counted.
LEMMA PutsAppend ==
  ASSUME NEW w \in Log, \A i \in DOMAIN w : w[i] # Torn, NEW r \in Record
  PROVE  /\ Puts(w) \in Nat
         /\ Puts(Append(w, r)) = Puts(w) + EntrySize(r)
<1>. DEFINE u == Append(w, r)
            n == Len(w) + 1
            P == {i \in Intact(w) : w[i].val # Tomb}
            Q == {i \in Intact(u) : u[i].val # Tomb}
<1>1. u \in Log /\ n \in Nat /\ Len(u) = n /\ u[n] = r /\ DOMAIN u = 1 .. n
      /\ DOMAIN w = 1 .. Len(w) /\ Len(w) \in Nat
      /\ \A i \in DOMAIN w : u[i] = w[i]
  BY DEF Log
<1>2. Intact(w) = 1 .. Len(w)
  BY <1>1, IntactPrefix
<1>3. Intact(u) = 1 .. n
  <2>1. \A i \in 1 .. n : u[i] # Torn
    BY <1>1, MarkerAssumption
  <2>2. n <= Len(u) /\ n + 1 \notin DOMAIN u
    BY <1>1
  <2>. HIDE DEF u, n
  <2>. QED
    BY <1>1, <2>1, <2>2, IntactPrefix
<1>4. IsFiniteSet(P) /\ n \notin P
  <2>1. IsFiniteSet(1 .. Len(w)) /\ P \subseteq 1 .. Len(w)
    BY <1>1, <1>2, FS_Interval
  <2>. QED
    BY <1>1, <2>1, FS_Subset
<1>5. Q = IF r.val # Tomb THEN P \cup {n} ELSE P
  BY <1>1, <1>2, <1>3
<1>. HIDE DEF u, n, P, Q
<1>6. Cardinality(P) \in Nat /\ Cardinality(P \cup {n}) = Cardinality(P) + 1
  BY <1>4, FS_CardinalityType, FS_AddElement
<1>7. Puts(w) = Cardinality(P) /\ Puts(u) = Cardinality(Q)
  BY DEF Puts, P, Q
<1>8. Puts(w) \in Nat /\ Puts(u) = Puts(w) + EntrySize(r)
  BY <1>5, <1>6, <1>7 DEF EntrySize
<1>. QED
  BY <1>8 DEF u

\* The replay of one more record of the log.
LEMMA ReplayStep ==
  ASSUME NEW w \in Log, NEW c \in DOMAIN w, \A i \in 1 .. c : w[i] # Torn
  PROVE  /\ Replay(SubSeq(w, 1, c)) =
              Insert(Replay(SubSeq(w, 1, c - 1)), w[c].key, w[c].val)
         /\ Puts(SubSeq(w, 1, c - 1)) \in Nat
         /\ Puts(SubSeq(w, 1, c)) =
              Puts(SubSeq(w, 1, c - 1)) + EntrySize(w[c])
<1>. DEFINE v == SubSeq(w, 1, c - 1)
<1>1. c \in Nat /\ c >= 1 /\ c <= Len(w) /\ Len(w) \in Nat /\ w[c] \in Record
  BY DEF Log
<1>2. v \in Log /\ Len(v) = c - 1 /\ DOMAIN v = 1 .. c - 1 /\ \A i \in 1 .. c - 1 : v[i] = w[i]
  BY <1>1 DEF Log
<1>3. SubSeq(w, 1, c) = Append(v, w[c])
  BY <1>1, <1>2 DEF Log
<1>4. \A i \in DOMAIN v : v[i] # Torn
  BY <1>1, <1>2
<1>. HIDE DEF v
<1>5. /\ Replay(Append(v, w[c])) = Insert(Replay(v), w[c].key, w[c].val)
      /\ Puts(v) \in Nat
      /\ Puts(Append(v, w[c])) = Puts(v) + EntrySize(w[c])
  BY <1>1, <1>2, <1>4, ReplayAppend, PutsAppend
<1>. QED
  BY <1>3, <1>5 DEF v

\* The replay ends with what the whole log rebuilds.
LEMMA ReplayWhole ==
  ASSUME NEW w \in Log, NEW c \in Nat \ {0}, c <= Len(w) + 1,
         \A i \in 1 .. c - 1 : w[i] # Torn,
         c \in DOMAIN w => w[c] = Torn
  PROVE  /\ Replay(SubSeq(w, 1, c - 1)) = Replay(w)
         /\ Puts(SubSeq(w, 1, c - 1)) = Puts(w)
<1>. DEFINE v == SubSeq(w, 1, c - 1)
<1>1. /\ v \in Log /\ Len(v) = c - 1 /\ DOMAIN v = 1 .. c - 1
      /\ \A i \in 1 .. c - 1 : v[i] = w[i]
      /\ Len(w) \in Nat
  BY DEF Log
<1>2. Intact(w) = 1 .. c - 1
  BY <1>1, IntactPrefix
<1>3. Intact(v) = 1 .. c - 1
  <2>1. /\ c - 1 \in Nat /\ c - 1 <= Len(v) /\ (c - 1) + 1 \notin DOMAIN v
        /\ \A i \in 1 .. c - 1 : v[i] # Torn
    BY <1>1
  <2>. HIDE DEF v
  <2>. QED
    BY <1>1, <2>1, IntactPrefix
<1>. HIDE DEF v
<1>4. Replay(v) = Replay(w) /\ Puts(v) = Puts(w)
  BY <1>1, <1>2, <1>3, ReplayDependsOnIntact
<1>. QED
  BY <1>4 DEF v

-----------------------------------------------------------------------------
(* The memtable and the log *)

\* Tables that agree still do with the same entry put into both.
LEMMA AgreeInsert ==
  ASSUME NEW t, NEW u, Agree(t, u), NEW k, NEW v
  PROVE  Agree(Insert(t, k, v), Insert(u, k, v))
  BY DEF Agree, Insert

\* The two properties, and the moments the memtable is empty whatever the log.
MemInv ==
  /\ MemtableIsReplay
  /\ SizeIsReplay
  /\ TornAtEnd /\ thrown = {} /\ pc = "apply" => memtable_size + EntrySize(call) = Puts(wal)
  /\ pc \in {"load", "clear"} => memtable = EmptyTable /\ memtable_size = 0

\* The log and the memtable are empty at first.
LEMMA MemInit == Init => MemInv
  BY DEF Init, MemInv, MemtableIsReplay, SizeIsReplay, Running

\* While a record is appended the memtable is the replay of the log; so the log
\* with anything at its end, which is not behind a torn record, had none.
LEMMA BeforeAppend ==
  ASSUME IInv, MemInv, pc = "append"
  PROVE  /\ wal \in Log /\ call \in Record /\ memtable_size \in Nat
         /\ \A r : LET w == Append(wal, r)
                  IN  (\A i \in DOMAIN w : w[i] = Torn => i = Len(w))
                        => \A i \in DOMAIN wal : wal[i] # Torn
         /\ TornAtEnd => Agree(memtable, Replay(wal))
         /\ TornAtEnd /\ thrown = {} => memtable_size = Puts(wal)
<1>1. wal \in Log /\ call \in Record /\ memtable_size \in Nat
  BY DEF IInv, TypeOK, Control, Log
<1>2. ASSUME NEW r, \A i \in DOMAIN Append(wal, r) :
                      Append(wal, r)[i] = Torn => i = Len(Append(wal, r)),
             NEW i \in DOMAIN wal, wal[i] = Torn
      PROVE  FALSE
  <2>1. /\ i \in DOMAIN Append(wal, r) /\ Append(wal, r)[i] = wal[i]
        /\ i \in Nat /\ i <= Len(wal) /\ Len(wal) \in Nat
        /\ Len(Append(wal, r)) = Len(wal) + 1
    BY <1>1, <1>2 DEF Log
  <2>. QED
    BY <1>2, <2>1
<1>3. TornAtEnd => Agree(memtable, Replay(wal))
  BY DEF MemInv, MemtableIsReplay, Running
<1>4. TornAtEnd /\ thrown = {} => memtable_size = Puts(wal)
  BY DEF MemInv, SizeIsReplay, Running
<1>. QED
  BY <1>1, <1>2, <1>3, <1>4

\* The record of the running call is the last of the log, and is awaited.
LEMMA MemAppend ==
  ASSUME IInv, MemInv, AppendWal PROVE MemInv'
<1>0. pc = "append" /\ wal' = Append(wal, call) /\ pc' = "apply"
      /\ UNCHANGED <<thrown, call, memtable, memtable_size>>
  BY DEF AppendWal
<1>1. SUFFICES ASSUME TornAtEnd'
               PROVE  /\ Agree(Insert(memtable, call.key, call.val), Replay(wal'))
                      /\ thrown = {} => memtable_size + EntrySize(call) = Puts(wal')
  BY <1>0 DEF MemInv, MemtableIsReplay, SizeIsReplay, Agree, Running
<1>2. (\A i \in DOMAIN wal : wal[i] # Torn) /\ TornAtEnd
  BY <1>0, <1>1, BeforeAppend DEF TornAtEnd
<1>3. /\ Replay(wal') = Insert(Replay(wal), call.key, call.val)
      /\ Puts(wal') = Puts(wal) + EntrySize(call)
  BY <1>0, <1>2, BeforeAppend, ReplayAppend, PutsAppend
<1>4. Agree(memtable, Replay(wal)) /\ (thrown = {} => memtable_size = Puts(wal))
  BY <1>0, <1>2, BeforeAppend
<1>. QED
  BY <1>3, <1>4, AgreeInsert

\* A throwing append leaves the log as it was, torn at its end, or with a record
\* of a key that is in thrown from then on.
LEMMA MemAppendThrows ==
  ASSUME IInv, MemInv, AppendThrows PROVE MemInv'
<1>0. pc = "append" /\ pc' = "idle" /\ UNCHANGED <<memtable, memtable_size>>
  BY DEF AppendThrows
<1>1. SUFFICES ASSUME TornAtEnd'
               PROVE  /\ Agree(memtable, Replay(wal))'
                      /\ thrown' = {} => memtable_size = Puts(wal')
  BY <1>0 DEF MemInv, MemtableIsReplay, SizeIsReplay, Running
<1>2. CASE UNCHANGED log
  <2>1. TornAtEnd /\ wal' = wal /\ thrown' = thrown
    BY <1>1, <1>2 DEF TornAtEnd, log
  <2>. QED
    BY <1>0, <2>1, BeforeAppend DEF Agree
<1>3. CASE wal' = Append(wal, Torn) /\ UNCHANGED thrown
  <2>1. (\A i \in DOMAIN wal : wal[i] # Torn) /\ TornAtEnd
    BY <1>0, <1>1, <1>3, BeforeAppend DEF TornAtEnd
  <2>2. Replay(wal') = Replay(wal) /\ Puts(wal') = Puts(wal)
    BY <1>0, <1>3, <2>1, BeforeAppend, ReplayTorn
  <2>. QED
    BY <1>0, <1>3, <2>1, <2>2, BeforeAppend DEF Agree
<1>4. CASE wal' = Append(wal, call) /\ thrown' = thrown \cup {call.key}
  <2>1. (\A i \in DOMAIN wal : wal[i] # Torn) /\ TornAtEnd
    BY <1>0, <1>1, <1>4, BeforeAppend DEF TornAtEnd
  <2>2. Replay(wal') = Insert(Replay(wal), call.key, call.val)
    BY <1>0, <1>4, <2>1, BeforeAppend, ReplayAppend
  <2>3. Agree(memtable, Replay(wal))
    BY <1>0, <2>1, BeforeAppend
  <2>4. Agree(memtable, Replay(wal))'
    <3>. DEFINE t == Replay(wal)
    <3>. HIDE DEF t
    <3>1. Agree(memtable, t) /\ Replay(wal') = Insert(t, call.key, call.val)
      BY <2>2, <2>3 DEF t
    <3>. QED
      BY <1>0, <1>4, <3>1 DEF Agree, Insert
  <2>. QED
    BY <1>4, <2>4
<1>. QED
  BY <1>2, <1>3, <1>4 DEF AppendThrows

\* Put and Del bring the memtable up to the log.
LEMMA MemApply ==
  ASSUME IInv, MemInv, Put \/ Del PROVE MemInv'
<1>1. CASE Put
  BY <1>1 DEF MemInv, MemtableIsReplay, SizeIsReplay, TornAtEnd, Agree, Put, EntrySize,
     Running, disk, log
<1>2. CASE Del
  <2>1. memtable_size + EntrySize(call) = memtable_size
    BY <1>2 DEF IInv, TypeOK, Del, EntrySize
  <2>. QED
    BY <1>2, <2>1 DEF MemInv, MemtableIsReplay, SizeIsReplay, TornAtEnd, Agree, Del, Running,
       disk, log
<1>. QED
  BY <1>1, <1>2

\* The log is removed when the memtable is empty.
LEMMA MemClear ==
  ASSUME IInv, MemInv, ClearWal PROVE MemInv'
<1>1. wal' \in Log /\ Len(wal') = 0
  BY DEF ClearWal, Log
<1>2. Replay(wal') = EmptyTable /\ Puts(wal') = 0
  BY <1>1, ReplayEmpty
<1>3. memtable' = EmptyTable /\ memtable_size' = 0 /\ pc' \in {"compact", "idle"}
  BY DEF ClearWal, MemInv
<1>. QED
  BY <1>2, <1>3 DEF MemInv, MemtableIsReplay, SizeIsReplay, Agree, Running

\* Nothing is replayed before the first record.
LEMMA MemLoadEnd ==
  ASSUME IInv, MemInv, LoadEnd PROVE MemInv'
<1>1. cursor = 1 /\ wal \in Log
  BY DEF IInv, TypeOK, Control, LoadEnd, Log
<1>2. SubSeq(wal, 1, cursor - 1) \in Log /\ Len(SubSeq(wal, 1, cursor - 1)) = 0
  BY <1>1 DEF Log
<1>3. Replay(SubSeq(wal, 1, cursor - 1)) = EmptyTable /\ Puts(SubSeq(wal, 1, cursor - 1)) = 0
  BY <1>2, ReplayEmpty
<1>4. memtable = EmptyTable /\ memtable_size = 0
  BY DEF LoadEnd, MemInv
<1>. QED
  BY <1>3, <1>4 DEF MemInv, MemtableIsReplay, SizeIsReplay, Agree, LoadEnd, Running, disk, log,
     startup

\* A replayed record extends the replay of the records before it.
LEMMA MemReplayRecord ==
  ASSUME IInv, MemInv, ReplayRecord PROVE MemInv'
<1>1. wal \in Log /\ cursor \in DOMAIN wal /\ cursor \in Nat /\ cursor' = cursor + 1
      /\ \A i \in 1 .. cursor : wal[i] # Torn
  BY DEF IInv, TypeOK, Control, ReplayRecord, Log
<1>2. cursor' - 1 = cursor
  BY <1>1
<1>3. TornAtEnd => Agree(memtable', Replay(SubSeq(wal, 1, cursor)))
  BY <1>1, ReplayStep, AgreeInsert DEF MemInv, MemtableIsReplay, ReplayRecord
<1>4. TornAtEnd /\ thrown = {} => memtable_size' = Puts(SubSeq(wal, 1, cursor))
  BY <1>1, ReplayStep DEF MemInv, SizeIsReplay, ReplayRecord
<1>. QED
  BY <1>2, <1>3, <1>4 DEF MemInv, MemtableIsReplay, SizeIsReplay, TornAtEnd, Agree, ReplayRecord,
     Running, disk, log

\* The replay ends behind the last whole record that has none torn before it.
LEMMA MemReplayEnd ==
  ASSUME IInv, MemInv, ReplayEnd PROVE MemInv'
<1>1. wal \in Log /\ cursor \in Nat \ {0} /\ cursor <= Len(wal) + 1
      /\ \A i \in 1 .. cursor - 1 : wal[i] # Torn
      /\ (cursor \in DOMAIN wal => wal[cursor] = Torn)
  BY DEF IInv, TypeOK, Control, ReplayEnd, Log
<1>2. TornAtEnd => /\ Agree(memtable, Replay(wal))
                   /\ thrown = {} => memtable_size = Puts(wal)
  BY <1>1, ReplayWhole DEF MemInv, MemtableIsReplay, SizeIsReplay, ReplayEnd
<1>. QED
  BY <1>2 DEF MemInv, MemtableIsReplay, SizeIsReplay, TornAtEnd, Agree, ReplayEnd, Running, disk,
     log

\* The other steps touch neither the log nor the memtable, or are a crash.
LEMMA MemOther ==
  ASSUME IInv, MemInv,
         \/ Call \/ FlushBegin \/ FlushFinish \/ FlushThrows \/ DoCompaction
         \/ LoadTable \/ SkipBroken \/ Crash \/ UNCHANGED vars
  PROVE  MemInv'
<1>1. CASE Call \/ FlushBegin \/ FlushThrows \/ DoCompaction
  BY <1>1 DEF MemInv, MemtableIsReplay, SizeIsReplay, TornAtEnd, Agree, Running, disk, log,
     startup, Call, FlushBegin, FlushThrows, DoCompaction, CompactThrow, CompactBegin,
     CompactMerge, MergeThrows, MergeUnnoticed, CompactRename, RenameThrows, CompactRemove, CompactEnd
<1>2. CASE FlushFinish \/ LoadTable \/ SkipBroken
  BY <1>2 DEF MemInv, MemtableIsReplay, SizeIsReplay, TornAtEnd, Agree, Running, disk, log,
     startup, FlushFinish, LoadTable, SkipBroken, NextToLoad
<1>3. CASE Crash
  BY <1>3 DEF MemInv, MemtableIsReplay, SizeIsReplay, Running, Crash
<1>4. CASE UNCHANGED vars
  BY <1>4 DEF MemInv, MemtableIsReplay, SizeIsReplay, TornAtEnd, Agree, vars, disk, log, startup
<1>. QED
  BY <1>1, <1>2, <1>3, <1>4

\* Every step keeps the agreement of memtable and log.
LEMMA MemNext ==
  ASSUME IInv, MemInv, [Next]_vars PROVE MemInv'
  BY MemAppend, MemAppendThrows, MemApply, MemClear, MemLoadEnd, MemReplayRecord, MemReplayEnd, MemOther
  DEF Next, Write, Flush, Open

\* For every number of keys, values, files, crashes and failed writes: as long as
\* nothing was appended behind a torn record, the memtable is the replay of the
\* log, but for the records whose call has thrown.
THEOREM MemtableIsReplayAlways == Spec => []MemtableIsReplay
<1>1. MemInv => MemtableIsReplay
  BY DEF MemInv
<1>. QED
  BY <1>1, MemInit, MemNext, Invariance, PTL DEF Spec

\* And memtable_size_, which decides when to flush, is rebuilt with it, if no
\* call has thrown since the log was last emptied.
THEOREM SizeIsReplayAlways == Spec => []SizeIsReplay
<1>1. MemInv => SizeIsReplay
  BY DEF MemInv
<1>. QED
  BY <1>1, MemInit, MemNext, Invariance, PTL DEF Spec

-----------------------------------------------------------------------------
(* L0 files *)

\* No step writes over a complete L0 file.
LEMMA L0ImmutableStep ==
  ASSUME IInv, [Next]_vars, NEW f \in Readable, f[1] = "L0", f \in DOMAIN files'
  PROVE  files'[f] = files[f]
<1>0. f \in DOMAIN files /\ files[f] # Broken /\ TypeOK
  BY DEF Readable, IInv
<1>1. CASE FlushBegin
  <2>1. L0(next_sstable_id) \in FileName /\ f # L0(next_sstable_id) /\ pending = {}
    BY <1>0, <1>1, Names DEF IInv, TypeOK, Control, FreshId, FlushBegin
  <2>. QED
    BY <1>0, <1>1, <2>1, WriteFile DEF FlushBegin
<1>2. CASE FlushFinish
  <2>1. L0(next_sstable_id - 1) \in FileName /\ f # L0(next_sstable_id - 1)
    BY <1>0, <1>2, Names DEF IInv, Control, FlushFinish
  <2>2. memtable \in Table
    BY <1>0 DEF TypeOK
  <2>. QED
    BY <1>0, <1>2, <2>1, <2>2, WriteFile DEF FlushFinish
<1>3. CASE CompactBegin \/ CompactMerge \/ MergeThrows
  <2>1. f # L1Temp(next_l1_id)
    BY <1>0, Names DEF TypeOK
  <2>. QED
    BY <1>0, <1>3, <2>1 DEF CompactBegin, CompactMerge, MergeThrows, Insert
<1>4. CASE CompactRename \/ RenameThrows
  <2>1. f # L1Temp(next_l1_id) /\ f # L1(next_l1_id)
    BY <1>0, Names DEF TypeOK
  <2>. QED
    BY <1>0, <1>4, <2>1 DEF CompactRename, RenameThrows, Insert, Remove
<1>5. CASE CompactRemove
  BY <1>0, <1>5, RemoveFile DEF CompactRemove
<1>6. CASE UNCHANGED files
  BY <1>6
<1>7. CASE FlushThrows
  <2>1. f # L0(next_sstable_id - 1)
    BY <1>0, <1>7 DEF IInv, Control, FlushThrows
  <2>. QED
    BY <1>0, <1>7, <2>1 DEF FlushThrows, Insert
<1>. QED
  BY <1>1, <1>2, <1>3, <1>4, <1>5, <1>6, <1>7
  DEF Next, Call, Write, AppendWal, AppendThrows, Put, Del, Flush, ClearWal, DoCompaction, CompactThrow,
      MergeUnnoticed, CompactEnd, Open, LoadTable, SkipBroken, LoadEnd, ReplayRecord, ReplayEnd,
      Crash, vars, disk

\* Across crashes and restarts, whatever ids they start from again, a complete
\* L0 file is removed or stays as it is.
THEOREM L0ImmutableAlways == Spec => L0Immutable
<1>1. ASSUME IInv, [Next]_vars
      PROVE  [\A f \in Readable : f[1] = "L0" /\ f \in DOMAIN files' => files'[f] = files[f]]_vars
  BY <1>1, L0ImmutableStep
<1>. QED
  BY <1>1, Invariance, PTL DEF Spec, L0Immutable
=============================================================================
