------------------------------ MODULE KVStore ------------------------------
(***************************************************************************)
(* The LSM engine of include/kv_store.h: one thread calls put, del and     *)
(* Flush; the process may die between any two writes to the disk and is    *)
(* then constructed again over the same directory.                         *)
(*                                                                         *)
(* On disk: the write-ahead log wal.log and the SSTable files L0_<n>.sst,  *)
(* L1_<n>.sst and L1_temp_<n>.sst.  In memory: the memtable, the open      *)
(* SSTable readers and the two id counters.  The variable pc says how far  *)
(* the running call (or the constructor) has come; each action is the      *)
(* stretch of code between two effects that a crash can separate.          *)
(*                                                                         *)
(* Data is abstracted: a table is a partial function from keys to values   *)
(* or Tomb, every put adds the same estimated size to the memtable, and    *)
(* every data block of a table holds KeysPerBlock entries.                 *)
(***************************************************************************)
EXTENDS Naturals, Sequences, FiniteSets

CONSTANTS
  Keys,             \* the keys, non-negative ints (FormatKey then keeps their order)
  Values,           \* the values a put may store
  Tomb,             \* Value::tombstone(), and what get answers for "no value"
  Broken,           \* an SSTable file without a valid index or footer
  Torn,             \* a partially written WAL record
  NoCall,           \* no put or del in progress
  l0_trigger_count, \* CompactionConfig::l0_trigger_count
  Threshold,        \* kMemTableThreshold, counted in puts
  KeysPerBlock,     \* entries per data block of an SSTable
  Crashes,          \* whether the process may die
  Errors,           \* the writes that may fail, see ErrorAssumption
  TornWrites,       \* whether a crash may leave a partially written WAL record
  CallsOverL1,      \* bound: whether put and del are called over complete L1 files
  MaxWal,           \* bound: records in the WAL
  MaxId             \* bound: a process writes no L0 file with a larger id

ASSUME KeysAssumption == Keys \subseteq Nat /\ IsFiniteSet(Keys)
ASSUME TombAssumption == Tomb \notin Values
ASSUME TriggerAssumption == l0_trigger_count \in Nat \ {0}
ASSUME ThresholdAssumption == Threshold \in Nat \ {0}
ASSUME BlockAssumption == KeysPerBlock \in Nat \ {0}
ASSUME CrashAssumption == Crashes \in BOOLEAN /\ TornWrites \in BOOLEAN
\* A temporary file that is written again under an open reader, and left so by a
\* merge that throws, needs a call over the complete file of an earlier merge.
ASSUME ErrorAssumption ==
  /\ Errors \subseteq {"append", "build", "merge", "footer"}
  /\ "merge" \in Errors => ~CallsOverL1
ASSUME BoundAssumption == CallsOverL1 \in BOOLEAN /\ MaxWal \in Nat /\ MaxId \in Nat

Data == Values \cup {Tomb}
Record == [key : Keys, val : Data]        \* LogRecord
Table == UNION {[S -> Data] : S \in SUBSET Keys}

ASSUME MarkerAssumption ==
  /\ Broken \notin Table
  /\ Torn \notin Record
  /\ NoCall \notin Record

L0(n) == <<"L0", n>>
L1(n) == <<"L1", n>>
L1Temp(n) == <<"L1_temp", n>>
FileName == {"L0", "L1", "L1_temp"} \X (Nat \ {0})

VARIABLES
  \* the directory
  wal,              \* wal.log, a sequence of Records and Torn
  thrown,           \* the keys of records in the log whose call has thrown
  files,            \* *.sst, from file names to Tables or Broken
  \* the process
  pc,               \* how far the running call or the constructor has come
  call,             \* the record put or del is writing
  memtable,         \* memtable_
  memtable_size,    \* memtable_size_, counted in puts
  readers,          \* sstable_readers_, oldest first
  next_sstable_id,  \* next_sstable_id_
  next_l1_id,       \* next_l1_id_
  pending,          \* files LoadExistingSSTables has still to open
  cursor            \* position of replay_wal in the WAL

log == <<wal, thrown>>
disk == <<log, files>>
counters == <<next_sstable_id, next_l1_id>>
startup == <<pending, cursor>>
vars == <<disk, pc, call, memtable, memtable_size, readers, counters, startup>>

EmptyTable == [k \in {} |-> Tomb]

-----------------------------------------------------------------------------
(* File names, tables and the log *)

\* The order of std::sort on the paths: kinds first (a digit sorts before the
\* 't' of "temp"), then the decimal ids as strings, so that 10 sorts before 2.
\* Exact for ids below 100.
Kind(f) == CASE f[1] = "L0" -> 0 [] f[1] = "L1" -> 1 [] OTHER -> 2
Lead(n) == IF n < 10 THEN 10 * n ELSE n
NameLess(f, g) ==
  \/ Kind(f) < Kind(g)
  \/ Kind(f) = Kind(g) /\ Lead(f[2]) < Lead(g[2])
  \/ Kind(f) = Kind(g) /\ Lead(f[2]) = Lead(g[2]) /\ f[2] < g[2]

\* What GetL0FileCount and DoCompaction list: every L0 file, broken or not.
L0Files == {f \in DOMAIN files : f[1] = "L0"}
Readable == {f \in DOMAIN files : files[f] # Broken}

\* memtable_.insert, and writing a whole file of the directory
Insert(t, k, v) == [j \in DOMAIN t \cup {k} |-> IF j = k THEN v ELSE t[j]]
Remove(t, k) == [j \in DOMAIN t \ {k} |-> t[j]]

\* sstable_readers_.push_back
PushFront(rs, f, t) == <<[name |-> f, table |-> t]>> \o rs \* mutant
PushReader(rs, f, t) == Append(rs, [name |-> f, table |-> t])

\* An L0 file that is loaded moves the id counter past its own id.
NextIdStuck(id, f) == id \* mutant: the counter starts again
NextId(id, f) == IF f[1] = "L0" /\ f[2] >= id THEN f[2] + 1 ELSE id

\* What replay_wal adds to memtable_size_ for a record
EntrySizeAll(r) == 1 \* mutant: deletes are counted too
EntrySize(r) == IF r.val # Tomb THEN 1 ELSE 0

\* SSTableReader::Get starts at the block after the one whose last key is the
\* wanted key (upper_bound over last keys), unless that block is the last one.
Hidden(t, k) ==
  LET position == Cardinality({j \in DOMAIN t : j <= k})
  IN  position % KeysPerBlock = 0 /\ position < Cardinality(DOMAIN t)
Finds(t, k) == k \in DOMAIN t /\ ~Hidden(t, k)

\* The part of a log that replay_wal accepts: it stops at the first torn record.
Intact(w) == {i \in DOMAIN w : \A j \in 1 .. i : w[j] # Torn}
Hits(w, k) == {i \in Intact(w) : w[i].key = k}
LastHit(w, k) == CHOOSE i \in Hits(w, k) : \A j \in Hits(w, k) : j <= i
Replay(w) == [k \in {w[i].key : i \in Intact(w)} |-> w[LastHit(w, k)].val]
Puts(w) == Cardinality({i \in Intact(w) : w[i].val # Tomb})

\* The table DoCompaction writes: every key of the L0 files with the value of
\* the file that sorts last, tombstones included.
Newest(S) == CHOOSE f \in S : \A g \in S \ {f} : NameLess(g, f)
Holding(S, k) == {f \in S : k \in DOMAIN files[f]}
\* mutants: the iterators are not reversed; only the newest file is merged
MergedUnreversed(S) ==
  [k \in UNION {DOMAIN files[f] : f \in S} |->
     files[CHOOSE f \in Holding(S, k) : \A g \in Holding(S, k) \ {f} : NameLess(f, g)][k]]
MergedNewestOnly(S) == files[Newest(S)]
Merged(S) ==
  [k \in UNION {DOMAIN files[f] : f \in S} |-> files[Newest(Holding(S, k))][k]]

-----------------------------------------------------------------------------
(* What a read answers *)

\* get: the memtable, then the readers from the newest to the oldest
Serving(k) == {i \in DOMAIN readers : Finds(readers[i].table, k)}
NewestReader(k) ==
  CHOOSE i \in Serving(k) : \A j \in Serving(k) : j <= i
get(k) ==
  IF k \in DOMAIN memtable THEN memtable[k]
  ELSE IF Serving(k) # {} THEN readers[NewestReader(k)].table[k]
  ELSE Tomb
LiveView == [k \in Keys |-> get(k)]

\* What get would answer if the process died now and were constructed again:
\* the log over the files, of which the last in name order is the newest.
Stored(k) == {f \in Readable : Finds(files[f], k)}
RecoveredView ==
  [k \in Keys |->
     IF k \in DOMAIN Replay(wal) THEN Replay(wal)[k]
     ELSE IF Stored(k) # {} THEN files[Newest(Stored(k))][k]
     ELSE Tomb]

-----------------------------------------------------------------------------
(* put and del *)

\* The caller may start a write (the bounds keep the model finite).
Call ==
  /\ pc = "idle"
  /\ Len(wal) < MaxWal
  /\ next_sstable_id <= MaxId
  /\ CallsOverL1 \/ \A f \in Readable : f[1] = "L0"
  /\ call' \in Record
  /\ pc' = "append"
  /\ UNCHANGED <<disk, memtable, memtable_size, readers, counters, startup>>

\* append_wal: written and fsynced
AppendWal ==
  /\ pc = "append"
  /\ wal' = Append(wal, call)
  /\ pc' = "apply"
  /\ UNCHANGED <<thrown, files, call, memtable, memtable_size, readers, counters, startup>>

\* append_wal throws out of put or del: of the record nothing is in the log, or a
\* part of it, or (fsync has failed) all of it.  The memtable does not have it.
AppendThrows ==
  /\ "append" \in Errors
  /\ pc = "append"
  /\ \/ UNCHANGED log
     \/ TornWrites /\ wal' = Append(wal, Torn) /\ UNCHANGED thrown
     \/ wal' = Append(wal, call) /\ thrown' = thrown \cup {call.key}
  /\ pc' = "idle"
  /\ call' = NoCall
  /\ UNCHANGED <<files, memtable, memtable_size, readers, counters, startup>>

\* The rest of put: the memtable, its size, and a Flush at the threshold
Put ==
  /\ pc = "apply"
  /\ call.val # Tomb
  /\ memtable' = Insert(memtable, call.key, call.val)
  /\ memtable_size' = memtable_size + 1
  /\ pc' = IF memtable_size + 1 >= Threshold THEN "flush" ELSE "idle"
  /\ call' = NoCall
  /\ UNCHANGED <<disk, readers, counters, startup>>

\* The rest of del: no size, no Flush
DelUnapplied == \* mutant: the tombstone reaches the log only
  /\ pc = "apply"
  /\ call.val = Tomb
  /\ pc' = "idle"
  /\ call' = NoCall
  /\ UNCHANGED <<disk, memtable, memtable_size, readers, counters, startup>>
Del ==
  /\ pc = "apply"
  /\ call.val = Tomb
  /\ memtable' = Insert(memtable, call.key, Tomb)
  /\ pc' = "idle"
  /\ call' = NoCall
  /\ UNCHANGED <<disk, memtable_size, readers, counters, startup>>

-----------------------------------------------------------------------------
(* Flush *)

\* Called by put or by the caller, Flush opens the next L0 file: the builder
\* has created it, the footer is not there yet.
FlushBeginClears == \* mutant: the log is cleared before the file is complete
  /\ pc = "flush" \/ (pc = "idle" /\ next_sstable_id <= MaxId)
  /\ DOMAIN memtable # {}
  /\ files' = Insert(files, L0(next_sstable_id), Broken)
  /\ wal' = <<>>
  /\ next_sstable_id' = next_sstable_id + 1
  /\ pc' = "build"
  /\ UNCHANGED <<thrown, call, memtable, memtable_size, readers, next_l1_id, startup>>
FlushBegin ==
  /\ \/ pc = "flush"
     \/ pc = "idle" /\ next_sstable_id <= MaxId
  /\ DOMAIN memtable # {}
  /\ files' = Insert(files, L0(next_sstable_id), Broken)
  /\ next_sstable_id' = next_sstable_id + 1
  /\ pc' = "build"
  /\ UNCHANGED <<log, call, memtable, memtable_size, readers, next_l1_id, startup>>

\* The builder finishes the file, a reader opens it, the memtable is emptied.
FlushFinish ==
  /\ pc = "build"
  /\ LET name == L0(next_sstable_id - 1)
     IN  /\ files' = Insert(files, name, memtable)
         /\ readers' = PushReader(readers, name, memtable)
  /\ memtable' = EmptyTable
  /\ memtable_size' = 0
  /\ pc' = "clear"
  /\ UNCHANGED <<log, call, counters, startup>>

\* What a builder leaves whose writes have failed: a file that does not open, or
\* the first entries of the table in a file that does (see FlushPath).
Leftovers(t) == {Broken} \cup {[j \in {i \in DOMAIN t : i <= k} |-> t[j]] : k \in DOMAIN t}

\* The exception leaves Flush, and put; the memtable and the log stay.
FlushThrows ==
  /\ "build" \in Errors
  /\ pc = "build"
  /\ \E left \in Leftovers(memtable) : files' = Insert(files, L0(next_sstable_id - 1), left)
  /\ pc' = "idle"
  /\ UNCHANGED <<log, call, memtable, memtable_size, readers, counters, startup>>

\* ClearWAL, then DoCompaction if there are enough L0 files
ClearWal ==
  /\ pc = "clear"
  /\ wal' = <<>>
  /\ thrown' = {}
  /\ pc' = IF Cardinality(L0Files) >= l0_trigger_count THEN "compact" ELSE "idle"
  /\ UNCHANGED <<files, call, memtable, memtable_size, readers, counters, startup>>

-----------------------------------------------------------------------------
(* DoCompaction *)

\* Opening an L0 file without a footer throws out of Flush.
CompactThrow ==
  /\ pc = "compact"
  /\ \E f \in L0Files : files[f] = Broken
  /\ pc' = "idle"
  /\ UNCHANGED <<disk, call, memtable, memtable_size, readers, counters, startup>>

\* Otherwise the temporary L1 file is created (or truncated).
CompactBegin ==
  /\ pc = "compact"
  /\ \A f \in L0Files : files[f] # Broken
  /\ files' = Insert(files, L1Temp(next_l1_id), Broken)
  /\ pc' = "merge"
  /\ UNCHANGED <<log, call, memtable, memtable_size, readers, counters, startup>>

\* The merger's output is written, with its footer.
CompactMerge ==
  /\ pc = "merge"
  /\ files' = Insert(files, L1Temp(next_l1_id), Merged(L0Files))
  /\ pc' = "rename"
  /\ UNCHANGED <<log, call, memtable, memtable_size, readers, counters, startup>>

\* Its builder fails; the L0 files stay, and what it leaves of the temporary file.
MergeThrows ==
  /\ "merge" \in Errors
  /\ pc = "merge"
  /\ \E left \in Leftovers(Merged(L0Files)) : files' = Insert(files, L1Temp(next_l1_id), left)
  /\ pc' = "idle"
  /\ UNCHANGED <<log, call, memtable, memtable_size, readers, counters, startup>>

\* Writing index or footer fails, which Finish does not look at.
MergeUnnoticed ==
  /\ "footer" \in Errors
  /\ pc = "merge"
  /\ pc' = "rename"
  /\ UNCHANGED <<disk, call, memtable, memtable_size, readers, counters, startup>>

\* The temporary file is renamed, replacing a file of that name; from here on
\* the process reads this file only.
CompactRename ==
  /\ pc = "rename"
  /\ files[L1Temp(next_l1_id)] # Broken
  /\ LET table == files[L1Temp(next_l1_id)]
     IN  /\ files' = Insert(Remove(files, L1Temp(next_l1_id)), L1(next_l1_id), table)
         /\ readers' = <<[name |-> L1(next_l1_id), table |-> table]>>
  /\ pc' = "remove"
  /\ UNCHANGED <<log, call, memtable, memtable_size, counters, startup>>

\* Behind the rename the readers are cleared, and the broken file does not open:
\* the exception leaves Flush, and put, with no reader; the L0 files stay.
RenameThrows ==
  /\ pc = "rename"
  /\ files[L1Temp(next_l1_id)] = Broken
  /\ files' = Insert(Remove(files, L1Temp(next_l1_id)), L1(next_l1_id), Broken)
  /\ readers' = <<>>
  /\ pc' = "idle"
  /\ UNCHANGED <<log, call, memtable, memtable_size, counters, startup>>

\* The L0 files are removed one by one, in name order.
CompactRemove ==
  /\ pc = "remove"
  /\ \E f \in L0Files :
       /\ \A g \in L0Files \ {f} : NameLess(f, g)
       /\ files' = Remove(files, f)
  /\ UNCHANGED <<log, pc, call, memtable, memtable_size, readers, counters, startup>>

CompactEnd ==
  /\ pc = "remove"
  /\ L0Files = {}
  /\ next_l1_id' = next_l1_id + 1
  /\ pc' = "idle"
  /\ UNCHANGED <<disk, call, memtable, memtable_size, readers, next_sstable_id, startup>>

-----------------------------------------------------------------------------
(* Crash, and the constructor: LoadExistingSSTables, replay_wal *)

\* The process dies and is constructed again.  The memory is lost; a record
\* being appended may have reached the disk in part.
Crash ==
  /\ Crashes
  /\ wal' \in {wal} \cup (IF TornWrites /\ pc = "append" THEN {Append(wal, Torn)} ELSE {})
  /\ thrown' = {}
  /\ pc' = "load"
  /\ call' = NoCall
  /\ memtable' = EmptyTable
  /\ memtable_size' = 0
  /\ readers' = <<>>
  /\ next_sstable_id' = 1
  /\ next_l1_id' = 1
  /\ pending' = DOMAIN files
  /\ cursor' = 1
  /\ UNCHANGED files

NextToLoad(f) ==
  /\ pc = "load"
  /\ f \in pending
  /\ \A g \in pending \ {f} : NameLess(f, g)

\* The files are opened in name order; an L0 file moves the id counter past it.
LoadAny == \* mutant: a broken file is not noticed
  \E f \in pending :
    /\ NextToLoad(f)
    /\ readers' = PushReader(readers, f, files[f])
    /\ next_sstable_id' = NextId(next_sstable_id, f)
    /\ pending' = pending \ {f}
    /\ UNCHANGED <<disk, pc, call, memtable, memtable_size, next_l1_id, cursor>>
LoadTable ==
  \E f \in pending :
    /\ NextToLoad(f)
    /\ files[f] # Broken
    /\ readers' = PushReader(readers, f, files[f])
    /\ next_sstable_id' = NextId(next_sstable_id, f)
    /\ pending' = pending \ {f}
    /\ UNCHANGED <<disk, pc, call, memtable, memtable_size, next_l1_id, cursor>>

\* A file without a footer is reported and skipped.
SkipNothing == \* mutant: the constructor tries the broken file again
  /\ \E f \in pending : NextToLoad(f) /\ files[f] = Broken
  /\ UNCHANGED vars
SkipBroken ==
  \E f \in pending :
    /\ NextToLoad(f)
    /\ files[f] = Broken
    /\ pending' = pending \ {f}
    /\ UNCHANGED <<disk, pc, call, memtable, memtable_size, readers, counters, cursor>>

LoadEnd ==
  /\ pc = "load"
  /\ pending = {}
  /\ pc' = "replay"
  /\ UNCHANGED <<disk, call, memtable, memtable_size, readers, counters, startup>>

\* One intact record goes into the memtable; only puts are counted.
ReplayRecord ==
  /\ pc = "replay"
  /\ cursor \in DOMAIN wal
  /\ wal[cursor] # Torn
  /\ memtable' = Insert(memtable, wal[cursor].key, wal[cursor].val)
  /\ memtable_size' = memtable_size + EntrySize(wal[cursor])
  /\ cursor' = cursor + 1
  /\ UNCHANGED <<disk, pc, call, readers, counters, pending>>

\* The end of the log or a torn record ends the replay; the file keeps its tail.
ReplayEnd ==
  /\ pc = "replay"
  /\ cursor \in DOMAIN wal => wal[cursor] = Torn
  /\ pc' = "idle"
  /\ cursor' = 1
  /\ UNCHANGED <<disk, call, memtable, memtable_size, readers, counters, pending>>

-----------------------------------------------------------------------------
\* A process constructed over an empty directory
Init ==
  /\ wal = <<>>
  /\ thrown = {}
  /\ files = EmptyTable
  /\ pc = "load"
  /\ call = NoCall
  /\ memtable = EmptyTable
  /\ memtable_size = 0
  /\ readers = <<>>
  /\ next_sstable_id = 1
  /\ next_l1_id = 1
  /\ pending = {}
  /\ cursor = 1

Write == AppendWal \/ AppendThrows \/ Put \/ Del
Flush == FlushBegin \/ FlushFinish \/ FlushThrows \/ ClearWal
DoCompaction ==
  \/ CompactThrow \/ CompactBegin \/ CompactMerge \/ MergeThrows \/ MergeUnnoticed
  \/ CompactRename \/ RenameThrows \/ CompactRemove \/ CompactEnd
Open == LoadTable \/ SkipBroken \/ LoadEnd \/ ReplayRecord \/ ReplayEnd
Next == Call \/ Write \/ Flush \/ DoCompaction \/ Open \/ Crash

Spec == Init /\ [][Next]_vars

\* A constructor that has begun keeps running.  Nobody has to call anything, and
\* nothing forces a crash or forbids one.
FairSpec == Spec /\ WF_vars(Open)

-----------------------------------------------------------------------------
(* Invariants *)

Running == {"idle", "append", "apply", "flush", "build", "clear",
            "compact", "merge", "rename", "remove"}

\* Every variable has its type; the readers have read tables, never a broken file.
TypeOK ==
  /\ wal \in Seq(Record \cup {Torn})
  /\ thrown \subseteq Keys
  /\ files \in [DOMAIN files -> Table \cup {Broken}]
  /\ DOMAIN files \subseteq FileName
  /\ pc \in Running \cup {"load", "replay"}
  /\ call \in Record \cup {NoCall}
  /\ memtable \in Table
  /\ memtable_size \in Nat
  /\ readers \in Seq([name : FileName, table : Table])
  /\ next_sstable_id \in Nat \ {0}
  /\ next_l1_id \in Nat \ {0}
  /\ pending \subseteq DOMAIN files
  /\ cursor \in Nat \ {0}

\* No record was appended behind a torn one.
TornAtEnd == \A i \in DOMAIN wal : wal[i] = Torn => i = Len(wal)

\* Two tables agree on every key that no failed write has left in the log.
Agree(t, u) ==
  \A k \in Keys \ thrown : /\ k \in DOMAIN t <=> k \in DOMAIN u
                           /\ k \in DOMAIN t => t[k] = u[k]

\* The memtable is what replaying the log would rebuild, except for the record
\* put or del is applying; replay_wal itself gets there record by record.  So a
\* crash at any point loses no entry of the memtable and brings none back, but
\* for those writes that have thrown with their record in the log.
MemtableIsReplay ==
  TornAtEnd =>
    /\ pc \in Running \ {"apply", "clear"} => Agree(memtable, Replay(wal))
    /\ pc = "apply" => Agree(Insert(memtable, call.key, call.val), Replay(wal))
    /\ pc = "replay" => Agree(memtable, Replay(SubSeq(wal, 1, cursor - 1)))

\* memtable_size_ is rebuilt by replay_wal to the value it had: it counts the
\* puts of the log, overwrites included and deletes not, if none has thrown.
SizeIsReplay ==
  TornAtEnd /\ thrown = {} =>
    /\ pc \in Running \ {"apply", "clear"} => memtable_size = Puts(wal)
    /\ pc = "replay" => memtable_size = Puts(SubSeq(wal, 1, cursor - 1))

\* Every reader has the contents its file has on disk now.
ReadersMatchDisk ==
  pc = "idle" =>
    \A i \in DOMAIN readers :
      /\ readers[i].name \in DOMAIN files
      /\ files[readers[i].name] = readers[i].table

\* No complete L0 file the constructor has seen has the id the next Flush will
\* use, or a larger one.
FreshId == \A f \in Readable \ pending : f[1] = "L0" => f[2] < next_sstable_id

\* The files are within the two limits of their format: ids of one digit sort by
\* name in the order of their creation, and Get misses no key of a single block.
WithinLimits ==
  /\ \A f \in Readable : f[2] < 10
  /\ Cardinality(Keys) <= KeysPerBlock

\* What a compaction leaves that has renamed a broken file.
BrokenL1 == \E f \in DOMAIN files : f[1] = "L1" /\ files[f] = Broken

\* Between calls a restart changes no answer of get, but for keys of writes that
\* have thrown, as long as no record was appended behind a torn one, the files
\* are within the limits, and the complete ones are all L0 files, those that a
\* failed flush has left included, or are the single result of a compaction.
\* A process whose compaction has renamed a broken file may miss what a restart
\* would find, but even then it never answers another value.
RestartKeepsReads ==
  /\ pc = "idle"
  /\ TornAtEnd
  /\ WithinLimits
  /\ \/ \A f \in Readable : f[1] = "L0"
     \/ L0Files = {} /\ Cardinality(DOMAIN files) = 1
  => \A k \in Keys \ thrown :
       LiveView[k] = RecoveredView[k] \/ (BrokenL1 /\ LiveView[k] = Tomb)

-----------------------------------------------------------------------------
(* Action properties *)

\* A complete L0 file is never written again: it is removed or stays as it is.
L0Immutable ==
  [][\A f \in Readable :
       f[1] = "L0" /\ f \in DOMAIN files' => files'[f] = files[f]]_vars

\* Flush, from the creation of the file to the emptied log, changes no answer
\* of get, within the limits of the files.
FlushInvisible == [][Flush /\ WithinLimits => LiveView' = LiveView]_vars

\* A compaction within the limits changes no answer of get while the process
\* reads L0 files only, unless it or an earlier one has renamed a broken file.
CompactionInvisible ==
  [][/\ DoCompaction /\ ~RenameThrows
     /\ WithinLimits /\ ~BrokenL1
     /\ \A i \in DOMAIN readers : readers[i].name[1] = "L0"
     => LiveView' = LiveView]_vars

\* The complete files are L0 files and what the running compaction has written.
OnlyItsOwn ==
  \A f \in Readable : f[1] = "L0" \/ (pc = "rename" /\ f = L1Temp(next_l1_id))

\* Up to the rename, that of a broken file included, a crash in a compaction
\* loses nothing and revives nothing, if the directory is within the limits and
\* had no other complete L1 or temporary file.
CompactionDurable ==
  [][/\ WithinLimits /\ OnlyItsOwn
     /\ CompactBegin \/ CompactMerge \/ MergeUnnoticed \/ CompactRename \/ RenameThrows
     => RecoveredView' = RecoveredView]_vars

\* A compaction that gets to its reader reads, from then on, all that a restart
\* would: also the values that the process has missed since a compaction before
\* it renamed a broken file.
CompactionRestores ==
  [][CompactRename /\ WithinLimits /\ OnlyItsOwn => LiveView' = RecoveredView]_vars

\* Within the limits, removing an L0 file after the rename never changes what a
\* restart would read, whatever other files are there: L1 files sort behind it.
RemoveDurable == [][CompactRemove /\ WithinLimits => RecoveredView' = RecoveredView]_vars

-----------------------------------------------------------------------------
(* Refinement and liveness *)

\* The store implements the durable map: a write takes effect at its append to
\* the log and no crash, flush or restart changes a value.  It is claimed below
\* the compaction trigger, for whole log records and within the limits.
Map == INSTANCE KVMap WITH
  db <- RecoveredView,
  pending <- IF pc = "append" THEN call ELSE NoCall,
  up <- pc \in Running

Durable == Map!Spec

\* The constructor returns once crashes stop.
OpenReturns == <>[][~Crash]_vars => (pc = "load" ~> pc = "idle")

-----------------------------------------------------------------------------
(* What the documents say, for the runs that refute it *)

\* Compaction keeps all data readable ("数据完整可查").
CompactionKeepsData == [][DoCompaction => LiveView' = LiveView]_vars

\* A newer SSTable wins over an older one, also after a restart.
NewestWins == pc = "idle" => LiveView = RecoveredView

\* A write that returned survives a crash.
AckedWritesSurvive == pc = "idle" => \A k \in DOMAIN memtable : RecoveredView[k] = memtable[k]
=============================================================================
