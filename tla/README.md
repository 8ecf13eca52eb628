# A TLA+ development of DistributedKV

DistributedKV is a teaching project in C++20 with two parts that do not meet yet: a
single-process LSM storage engine (`include/`, `src/sstable_reader.cpp`) and the state
machine of a Raft node (`src/raft/`). This directory holds TLA+ models of both, the
configurations with which TLC checks them on small instances, and proofs for TLAPS that
hold for every value of the constants. Paths and line numbers below are relative to the
repository.

    cd tla
    tlc -workers 2 -config kv_compaction.cfg KVStore     # any run of the table in section 3
    tlapm KVStoreProofs.tla                              # any module named *Proofs

1. [Inventory](#1-inventory)
2. [Modules](#2-modules)
3. [Runs](#3-runs)
4. [Proofs](#4-proofs)
5. [Where the code departs from its documents](#5-where-the-code-departs-from-its-documents)
6. [What is not modelled](#6-what-is-not-modelled)
7. [Plan](#7-plan)

## 1. Inventory

### Storage engine: `KVStore<int, V>`, `include/kv_store.h`

- **State on disk**: `wal.log`; the SSTables `L0_<n>.sst` (one per flush), `L1_<n>.sst`
  (one per compaction) and, during a compaction, `L1_temp_<n>.sst`.
  **In memory**: the memtable (a skip list) and its estimated size, the open readers from
  oldest to newest, the next L0 id and the next L1 id.
- **Operations**: `put` and `del` append to the log, fsync, and change the memtable; `put`
  calls `Flush` when the size reaches 2 MiB. `get` reads the memtable and then the readers
  from newest to oldest. `Flush` writes the memtable as the next L0 file, empties it,
  removes and recreates the log and, from four L0 files on, calls `DoCompaction`, which
  merges all L0 files into one L1 file, renames it into place and removes them. The
  constructor loads every SSTable and replays the log.
- **Interactions**: one thread, no locks. Every call goes through several files one after
  the other, so the hard behaviour is the death of the process between any two of those
  steps, and long sequences (write, flush, compact, restart, compact again) in which the
  counters, the file names and the readers must keep telling the same story.
  Writes may also fail while the process goes on: `append_wal` and the builder throw out of
  the call, and what they have left on the disk stays there for the next call or restart.
- **Correct when** an acknowledged write is never lost and a deleted key never comes back,
  through flushes, compactions, crashes and restarts; when a flush or a compaction changes no
  answer of `get`; when no complete file is overwritten; when the store always opens again.

### Compaction merger: `include/compaction_merger.h`

- **State**: a priority queue of iterators, each with its current key and a priority
  (smaller is newer), and the current entry. **Operations**: the constructor seeks every
  iterator to its first entry, `Next` pops the top, pushes it again behind its next key,
  skips every other entry of the same key and shows the new top.
- **Driven by** the loop of `DoCompaction` (kv_store.h:225-228), which feeds the builder.
- **Hard**: runs that are empty, equal or interleaved; equal keys in several runs, and an
  iterator that ends while it is being skipped.
- **Correct when** each key of any run comes out once, in ascending order (the builder asks
  for it), with the value of the newest run, tombstones included, and the loop ends.

### SSTable builder and reader: `include/sstable*.h`, `src/sstable_reader.cpp`

- **State**: blocks of at least 4 KiB with sorted entries, an index of the last key and the
  position of each block, a footer with the index position and a magic number. The iterator
  keeps a block and an offset. **Operations**: `Add`, `Finish`; `Get`, `Seek`,
  `SeekToFirst`, `Next`.
- **Driven by** `Flush` and `DoCompaction`, which add entries in key order, and by `get` and the
  compaction, which read.
- **Hard**: block boundaries, keys equal to the last key of a block; writes that fail in part,
  results of a write nobody looks at, a destructor that calls `Finish` once more after an
  exception; blocks damaged on disk; the order of keys as texts against their order as ints.
- **Correct when** `Get` and the iterator answer exactly the entries that were added, and a
  flush empties the memtable only when the file has them.

### Skip list: `include/skiplist.h`

- **State**: up to `max_level` linked levels of random height. **Operations**: `insert`
  (overwrites an existing key), `search`, `remove`, iteration along level 0.
- **Hard**: pointers of several levels into a node that is erased, an address that is used
  again, `current_level` when a tall node comes and when the last one goes.
- **Correct when** it is an ordered map whatever heights are drawn.

### WAL encoding: `include/wal_record.h`

- CRC32, type, key and value of a record as bytes; `replay_wal` stops at the first record
  that is short or whose CRC does not match.

### Raft node: `src/raft/raft_node.h`, `log_entry.h`, `append_entries.h`, `election.h`

- **State**: `current_term_`, `voted_for_`, state, `voted_count_`, the log (`LogManager`, with
  a dummy entry 0), `commit_index_`, `next_index_` and `match_index_` by peer. Nothing is saved.
- **Operations**: `become_follower/candidate/leader`, `can_vote_for`, `vote_for`, `add_peer`,
  `propose`, `build_append_entries_request`, `handle_append_entries`,
  `handle_append_entries_response`, `update_commit_index`; the clock (`reset_election_timeout`,
  `check_election_timeout`, heartbeats).
- **Interactions**: the class is passive. The repository has the messages but no handler of
  RequestVote, no transport, no timer thread and no tie to the storage engine; the tests call
  single methods. The guide of week 7 (`docs/.../Week7_RaftStateMachine.md`) describes the
  handler of a vote request and the counting of votes, week 8 the replication.
- **Hard**: elections of several terms that overlap; requests and responses that are lost,
  repeated, overtaken or late; the leader's knowledge of a peer against the peer's log; index
  arithmetic at 0 and 1; the commit rule.
- **Correct when** a term has at most one leader, a vote is not changed, two logs that agree
  in one entry agree before it, what the leader takes for replicated is replicated, and an
  index is committed only when a majority has the leader's entry.

### Programs around them

`src/main.cpp` and `examples/` call the components above once or time them. They keep no state
and are not modelled. `docs/` and `.trae/specs/` are documents, used here for what they promise.

The list of hazards, each at its line and with the properties that cover it, is in
`PROJECT.json`.

## 2. Modules

| module | what it is | uses |
| --- | --- | --- |
| `KVMap` | abstract: a durable map whose caller may lose the write in progress to a crash | |
| `KVStore` | the storage engine and its directory; refines `KVMap` | instance of `KVMap` |
| `OrderedMap` | abstract: a finite map, written key by key and emptied at once | |
| `SkipList` | the memtable, level by level; refines `OrderedMap` | instance of `OrderedMap` |
| `SSTable` | one table: builder, reader, iterator | |
| `FlushPath` | the memtable, the flush into a table, and the readers of the table | instances of `SkipList` and `SSTable` |
| `MCFlushPath` | the keys of its runs | extends `FlushPath` |
| `KWayMerge` | abstract: what a merge of sorted runs delivers | |
| `CompactionMerger` | the heap merge; refines `KWayMerge` | instance of `KWayMerge` |
| `RaftNode` | the methods of one node, as operators on its state | |
| `RaftCluster` | nodes, driver and network | extends `RaftNode` |
| `MCRaftCluster` | the symmetry of the nodes, for TLC | extends `RaftCluster` |
| `RaftCatchUp` | a new leader and a peer with another log | extends `RaftCluster` |
| `KVStoreProofs`, `KVRecoveryProofs` | theorems about `KVStore`: types, replay, files; then restarts and reads | the second extends the first |
| `MemtableProofs`, `FlushPathProofs` | theorems about `FlushPath`: the skip list; then the table | the second extends the first |
| `MergerProofs` | theorems about `CompactionMerger` | |
| `RaftProofs`, `RaftMatchProofs` | theorems about `RaftCluster`: votes, types and positions; then replication | the second extends the first |
| `RaftCatchUpProofs` | theorems about `RaftCatchUp` | extends `RaftMatchProofs` |

### KVStore

The variables are those of the class plus the directory (`wal`, `files`). `pc` says how far the
running call or the constructor has come. An action is the stretch of code between two effects
on the disk that a crash can separate:

| code | actions |
| --- | --- |
| `put`, `del` (69-79, 104-109) | `Call`, `AppendWal` or `AppendThrows`, then `Put` or `Del` |
| `Flush` (111-145) | `FlushBegin` (file created), `FlushFinish` (file complete, reader opened, memtable emptied) or `FlushThrows`, `ClearWal` |
| `DoCompaction` (186-249) | `CompactThrow`, or `CompactBegin`, `CompactMerge`, `MergeThrows` or `MergeUnnoticed`, `CompactRename` or `RenameThrows`, `CompactRemove` for every L0 file, `CompactEnd` |
| constructor (33-60) | `LoadTable` and `SkipBroken` for every file in name order, `LoadEnd`, `ReplayRecord`, `ReplayEnd` |
| `get` (81-102) | the operator `get`; `LiveView` is what it answers for every key |
| death of the process | `Crash`: memory is lost, a record being appended may be on disk in part |

`RecoveredView` is what `get` would answer if the process died now and came up again; most
properties compare it with `LiveView`, or either of them before and after a step.

Writes fail in four places, chosen by the constant `Errors`. `AppendThrows` (`"append"`): the
record is in the log in part, or as a whole with its fsync refused, and the memtable has not
changed; `thrown` collects the keys of the latter, whose value a restart may change. `FlushThrows`
(`"build"`) and `MergeThrows` (`"merge"`): the builder leaves one of `Leftovers`, a file that does
not open or a file with the first entries of the table; memtable and log, or the L0 files, stay as
they are. `MergeUnnoticed` (`"footer"`): `Finish` ignores the results of writing the index and the
footer (sstable_builder.h:129, 236) and returns over a broken file. A flush notices that when its
reader does not open, with the memtable still there, which is the broken case of `FlushThrows`. A
compaction has by then renamed the file (kv_store.h:234) and dropped every reader (236): the
reader of line 237 throws, and the process runs on without readers while the L0 files are still
there (`RenameThrows`). `BrokenL1` is the directory this leaves.

Abstractions: a table is a partial function from keys to values or `Tomb`; its blocks hold
`KeysPerBlock` entries, and `Finds` is what `SSTableReader::Get` finds in it (it looks in the
wrong block for the last key of every block but the last, `Hidden`; `FlushPath` checks this
against the blocks, as `GetFinds`, and `Leftovers` as `LeftoverIsPrefix`). The file order is that
of `std::sort` on paths, in which `L0_10` comes before `L0_2` and `L1_1` behind every L0 file
(`NameLess`). Every put counts 1 towards the threshold. A crash is the death of the process:
what was handed to the operating system survives.

The result of the merge (`Merged`) is the newest value of each key. That the code's heap merge
computes this is what `CompactionMerger` is for: run 1 of that module is the L0 file that sorts
last, by the reversal in kv_store.h:215-216.

### SkipList, SSTable and FlushPath

`SkipList` keeps the nodes (`entry`), the pointer of every node at every level (`forward`) and
`current_level`. `insert` walks down from the top level (`Walk`, `update`), overwrites or links a
new node of any height `random_level` may draw, however far above the current level; `remove`
unlinks a node where a predecessor points to it, erases it and lowers `current_level` (`Shrunk`).
A node's id stands for its address: an erased id is drawn again at the next insert, so a pointer
that was left behind would lead into another node. A method runs to its end before the next call,
so each is one action.

`SSTable` keeps the builder's buffer, the blocks and the last keys in the index as the file has
them, the fate of the file, the damaged blocks and the position of one iterator. `Add` writes a
block when the buffer has `kBlockSize` bytes, and the write may come back short (`"threw"`,
nothing written; `"torn"`, a part of it). `Finish` writes the rest and then the index and the
footer, whose results the code does not look at, so the file is complete or broken without any
notice. `Destroy` is the destructor behind an exception: it calls `Finish` again, with the refused
block still in the buffer, and a file may come out of it that opens. `Get`, `Seek`, `SeekToFirst`
and `IteratorNext` follow the reader: `UpperBound` over the last keys, then a search in one block.
`Damage` changes a block on disk; its CRC then refuses it. A value is the number of bytes of its
entry, which is all that decides where a block ends.

`FlushPath` composes the two as `Flush` does: `FlushAdd` hands the node under the cursor to the
builder and moves along level 0; `FlushEnd` is `Finish`, the opening of the reader, which throws
for a broken file, and only then the clearing of the memtable. Keys are compared as ints by the
list and as texts by the table: `TextLess` is the order of `FormatKey`'s texts, where zero padding
keeps the order of the natural numbers and a leading minus reverses that of the negative ones.

### CompactionMerger

A run is the set of keys of one SSTable, its value stands for the run it comes from (the merger
never looks at a value), the heap is a function from runs to keys and its top is given by the
comparator. `Add` is the body of the driving loop; `PopTop`, `SkipDuplicate` and `SkipEnd` are
the parts of `Next`.

### RaftNode, RaftCluster and RaftCatchUp

Each method is an operator from a node's record to its next record, with the class's own names.
An entry is its term and index; commands and the clock are left out, the log is the vector
without the dummy entry, `conflict_term` is left out because the leader ignores it.

`RaftCluster` is the driver that the repository lacks: its own decisions (how a vote request is
handled, Week7_RaftStateMachine.md:348-354 and 612-622; transport; when to call what) are marked
external in the map, and everything it does to a node is a method of `RaftNode`. Three choices
matter, and the properties hold for drivers that make them. It counts each voter once
(`voters`; `voted_count_` itself cannot tell). It hands over a response together with the
request it answers, and only in the term of the request, because
`handle_append_entries_response` (raft_node.h:386) does not look at the request's term. It calls
`add_peer` before the first request to a peer when `AddPeers` is TRUE; `raft_unknown_peer` is
the run without. Messages are a set: they may be overtaken and lost, and the same request may
be sent again after its answer. One call into a node is one step, since `RaftNode` has no lock.

`RaftCatchUp` starts where an election has ended: the leader of term `MaxTerm` and one peer whose
logs are any pair that earlier terms may have left (`FromSameLeaders`: entries of one term come
from one leader, hence the logs agree up to them; every such pair can be reached, because the
third node's empty log votes for anyone). The actions are those of `RaftCluster` for this leader
and this peer.

## 3. Runs

`pass` runs end with no error; the distinct states TLC finds are in the last column.

| run | question | bounds | states |
| --- | --- | --- | --- |
| `kv_compaction` | do memory, log and files agree through writes, flushes, compactions, crashes and throwing writes at every step? | 2 keys, put or delete, threshold 2, trigger 2, 3 log records, L0 ids to 2, torn records, `Errors` append, build and footer, calls over L1 files | 1.28 M |
| `kv_durable` | is the store `KVMap`, does a compaction make good for one that failed, does every constructor return? | 2 keys, put or delete, threshold 2, trigger 2, 2 log records, L0 ids to 3, `Errors` build, merge and footer, no calls over L1 files | 227 k |
| `flush_path` | is the skip list an ordered map, does a flush keep its answers, what do `Get`, `Seek` and `Next` find? | keys -1, 2 and 10, entries of 1 or 2 bytes, 2 levels, blocks of 2 bytes | 44 k |
| `merger` | does the heap merge implement `KWayMerge`? | every content of 3 runs over 3 keys | 6 k |
| `raft_log` | elections, log matching, and what leaders know | 3 nodes, 2 terms, logs of 2, 2 messages on the way | 0.93 M |
| `raft_catchup` | does a new leader repair any peer's log, and learn of it? | any two logs of up to 3 entries of 2 terms, a leader of term 3, 3 messages on the way | 88 k |

**Why the bounds are enough to be interesting.** Two keys and a trigger of 2 give compactions over
files that share a key, differ in it, or have a tombstone in the newer one. Ids to 2 are the least
that reach the trigger; a restart after a compaction begins at 1 again, so that flushes and
compactions over the file of an earlier compaction are there, as well as the id that is used again
after a flush that failed. Three log records are the least in which a write behind a torn or
thrown record overwrites an earlier one. `kv_durable` has ids to 3, the least in which a
compaction fails behind its rename and, after one more flush, a later one succeeds; an old value
is told from a new one by the delete between them. It has no torn and no thrown records, since
with them the store is not the map (section 5), and no calls over complete L1 files, since an L1
file is read in the wrong order after a restart. `KeysPerBlock` is 4 so that a table of these runs
is one block: the properties about what `get` answers are claimed `WithinLimits` (single blocks,
ids of one digit), since beyond either limit they do not hold (section 5). In `flush_path`, blocks
of 2 bytes hold one or two entries and three keys make up to three blocks, the least with a block
that has a border on both sides; the keys are such that unpadded text (`10` before `2`) and a
minus would each show; two levels are the least where a node is linked above level 0 and
`current_level` moves, and three nodes the least where an upper level passes over one. Three runs
are the least in which one duplicate is skipped and another run's entry waits behind it. Three
nodes are the least with a majority that is not everybody; two terms let a deposed leader, a late
request and a conflicting suffix meet; logs of two give requests of different lengths, the case an
overtaken request needs; `raft_catchup` goes to three terms, logs of three and three messages for
one leader and one peer, so that a peer's log may be longer, shorter or different over several
terms. `MaxVotes` lets one message of an election be on the way at a time: a reply may still be
late by a whole election. `MaxLoad` bounds a leader's log entries plus the replication messages on
the way. `MaxUint64` stands for the wrapped 0 - 1 and needs only to be larger than any index.
Symmetry (the nodes) is used in safety runs only, where no node is named.

**What the properties say.** Each is stated in a comment above its definition. In short:

- *MemtableIsReplay, SizeIsReplay*: at every point where the process may die, replaying the log
  gives the memtable and the size back, but for keys a throwing write has left in the log.
  *RestartKeepsReads*: a restart changes no answer, over the files of failed flushes too; a process
  whose compaction has renamed a broken file may miss values but answers no other ones.
- *L0Immutable*: no complete L0 file is written again, crashes, exceptions and reused ids
  included. *ReadersMatchDisk*: an open reader answers from what is on disk now.
- *FlushInvisible, CompactionInvisible*: neither changes an answer of `get`. *CompactionDurable,
  RemoveDurable*: a crash in a compaction loses nothing and revives nothing.
  *CompactionRestores*: a compaction that opens its file gives the process all that a restart would,
  also what it has missed since an earlier compaction failed behind its rename.
- *Durable*: the store implements `KVMap`, a write taking effect at its append to the log.
  *OpenReturns*: the constructor comes up over whatever crashes and failed writes have left.
- *LevelsInOrder, SearchFinds, ImplementsMap*: the skip list. *AddsAscend*: the builder gets what it
  asks for. *FlushKeepsAnswers, LeftoverIsPrefix*: what a flush, successful or not, leaves.
  *GetFinds, SeekLands, IterationComplete*: exactly what the reader finds, with damaged blocks and
  with the keys it is blind for.
- *OutputAscending, NewestWins, NothingLost, ImplementsMerge, Terminates*: the merger.
- *ElectionSafety, VoteKept, LogMatching, LeaderAppendOnly, EntriesOfTermKept*: the votes and the
  log. *MatchIsReplicated*: `match_index_` of a peer that has seen no later term is the length
  of a common prefix. *RefusalGoesBack*: a refused request makes the leader go back.
  *IndexIsPosition*: positions and indexes agree, though `append` does not look at an index.
- *CatchesUp*: the peer ends with the leader's log and the leader knows it.
  *CommitsLeadersEntries*: a follower commits only what its leader has at that index; it holds in
  `raft_catchup`, where the leader knows its peer, and not in `raft_unknown_peer`.

Preconditions of a property are there because the code does not promise more: `TornAtEnd` (nothing
was appended behind a torn record), `WithinLimits`, `thrown`, in the compaction properties that no
other L1 file takes part, and `BrokenL1`, since a process that has renamed a broken file is
without readers until its next compaction or restart. Section 5 has a run for the cases each of
them excludes, where a document speaks of them. Of `commit_index_` only *CommitsLeadersEntries* is
claimed: with the commit rule as it is, no stronger property of it holds (`raft_majority`).

**Fairness.** `FairSpec` of `KVStore` asks that a constructor that has begun keeps running (one
thread, no waiting: `WF_vars(Open)`); nobody has to call anything and crashes are free to come, so
*OpenReturns* speaks of a process whose crashes stop. The merger's loop is sequential and runs to
its end, hence `WF_vars(Next)`. `CatchUpSpec` asks that the leader goes on sending
(`should_send_heartbeat` is true again at every interval: `WF_vars(Replicate)`) and that the
transport does not lose every request, or every response, for ever (`SF_vars(Deliver)`,
`SF_vars(Answer)`); each single message may be lost, and the leader may or may not propose.

**Deadlock** is checked except where the system or its bounds stop it: the merger ends, the Raft
runs exhaust terms and log lengths, and `kv_stale_after_restart`, without crashes, runs out of ids.

Each property has a mutant in `PROJECT.json`: a change of one mapped definition, as a plausible
bug would make it (operators marked `\* mutant` in the modules), with which the run fails.

## 4. Proofs

The theorems hold for every value of the constants that satisfies the named assumptions: keys are
a finite set of natural numbers, the marks of broken files and torn records are not data,
thresholds are positive, bounds are natural numbers, a merge throws only where no call is made
over complete L1 files; the wrapped `0 - 1` is positive; `Nobody` is not a node and the set of
nodes is finite and not empty; the keys of the memtable are integers, its entries take at least
one byte and it has at least one level. What `KVRecoveryProofs` says of the answers of `get` holds
`WithinLimits`, for ids of one digit and tables of a single block, which is a condition inside
those properties. Three theorems of `FlushPathProofs` have one premise more, `AtMostOneNegative`,
and one of `RaftCatchUpProofs` has `AddPeers = TRUE`; both are explained below.

**KVStoreProofs.** `TypeOK` is not inductive: that no reader holds a broken file needs to know
which files a running call has left incomplete. `IInv` adds `IdBounds` (the counters stay within
the bounds and L1 ids behind L0 ids), `Control` (what each `pc` relies on: the file a flush is
building is there and broken, no L0 file is broken once a merge has begun, the replay cursor has
passed only whole records) and `FreshId` (no complete L0 file that the constructor has seen has
an id the next flush would use). `Invariance` has one lemma per action; `TypeCorrect` follows.

In the same module, `MemtableIsReplayAlways` and `SizeIsReplayAlways` rest on lemmas about the
log: a replay depends only on the records before the first torn one; appending a record to a
log of whole records inserts its key; a torn record changes nothing; a throwing append changes
nothing outside `thrown`. `L0ImmutableAlways` is an action property and follows from `IInv`: a
flush writes `L0(next_sstable_id)`, and by `FreshId` the file of that name is absent or broken; a
broken file may be written again, a complete one not.

**KVRecoveryProofs.** What a restart would read. `Covered` says that behind the merge the
temporary file holds its result, or is broken where nobody has noticed, and that behind the rename
the L1 file has every key an L0 file still has; `RemoveDurableAlways` follows, and with lemmas on
the newest file of a set in name order `CompactionDurableAlways`. `DurableAlways` is the
refinement of `KVMap`, under `Simple`: no torn records, no throwing appends, no calls over
complete L1 files, ids of one digit, keys that fit into one block. `kv_durable` has constants of
this kind; outside of them the refinement does not hold (section 5). `Emptied` says that a
compaction runs over an empty log and an empty memtable, `Alone` that a complete file of another
kind than L0 is there only while both are empty, `Layers` that behind a flush the new file has
what the log has. Every step maps to `Call`, `Commit`, `Crash` or `Restart` of `KVMap` or to a
stutter.

The second half of the module is about what the running process reads. `Matched`: a reader has
what its file has, but while a compaction writes over that file. `Sorted`: L0 readers are in the
order of their ids. `Complete`: the keys of a complete L0 file without a reader are in the
memtable or in a newer reader (the files of failed flushes), unless the file is `Unread`, one of
those a process has lost with the rename of a broken file. `Kept` says that a complete file of
another kind has a reader of its kind or L0 files before it. From them follow
`ReadersMatchDiskAlways`, for any number of keys, files and compactions, and
`FlushInvisibleAlways`, `CompactionInvisibleAlways`, `CompactionRestoresAlways` and
`RestartKeepsReadsAlways`. These four hold for any keys, values and thresholds and any number of
compactions, but only `WithinLimits`, so over at most nine complete L0 files of a single block
each. Beyond the limits they are false: `get` misses the last key of an inner block, and the tenth
L0 file sorts behind the first.

**MergerProofs.** `MInv` says where every iterator stands: at the least key of its run that has
not been delivered (`At`), some of them already past the current key inside `Next`
(`Progress`), and that the current entry is the top of the queue (`CurrentIsTop`). From it
follow `MergerTypeCorrect`, `OutputAscendingAlways`, `NewestWinsAlways`, `NothingLostAlways` and
`MergerRefines`, for any number of runs over any set of keys. `MergerRefines` is the safety part
of `ImplementsMerge`.

**RaftProofs.** The invariant `Elections` follows the signs of a vote: n is counted in the
candidate's `voters`, granted in a reply on the way, or named by `voted_for_`. Each sign binds
the voter (its term is at least that term, and in that term it voted for n: `SignaturesBind`),
so no voter signs for two nodes in a term (`OneSignature`); `voted_count_` is the number of
`voters` (`CountIsRight`); a majority has signed for every leader (`LeadersAreBacked`). Two
majorities share a voter, hence `ElectionSafetyAlways`. Most calls are `Quiet`: they leave term
and vote, or raise the term and clear the vote, and start nothing; they are dealt with at once.
`VotesAreKept` is the action property that terms never fall and votes are never changed.

In the second half of the module, `LogTypesAlways`: entries stand where their index says, the
entries of a request continue behind the entry it names, a refusal names an index in front of that
entry and never the dummy. A node's type includes that its `next_index_` names no index below 1
(`NextMap`): every method that stores one stores at least 1, the wrapped `0 - 1` of a refusal from
an unknown peer included. Hence `RaftTypeCorrect`; `IndexIsPositionAlways` and
`RefusalGoesBackAlways` follow too.

**RaftMatchProofs.** `LogMatching` alone is not inductive, since a request carries a part of a log
that its sender may meanwhile have replaced. The invariant `LogsFit` speaks of a set of logs
that exist or have existed: it contains the log of every node and the log every request on its
way was built from (`Sent`), any two of them match, and the leader of a term has every entry of
its term. An append keeps this because the merged log is a part of the follower's followed by
a part of the sender's, and they meet in one entry (`MergeAgrees`). `match_index_` and success
responses speak of such common prefixes as long as the peer is in no later term; this is where the
driver's rule to hand over a response only in the term of its request is needed. Results:
`LogMatchingAlways`, `MatchIsReplicatedAlways`, `LeaderAppendOnlyAlways`, `EntriesOfTermAreKept`.

**RaftCatchUpProofs.** Here the logs are given, so no history of elections stands behind them and
`LogsFit` is not available. With one leader the invariant is simpler: `CatchUpInv` says that every
request carries the end of a beginning of the leader's log (`Asks`), that no response speaks of an
entry the leader lacks (`Replies`), that the leader's `commit_index_` and `next_index_` stay within
its log (`LeaderFits`), and that the peer's log matches the leader's and has its entries of the last
term from there (`PeerFits`). `CatchUpKeepsEntries` and `CatchUpCommitsLeaders` follow from the same
lemma about a merge. The latter needs `AddPeers`: then a request reaches up to the end of the log
as it was, beyond the `leader_commit` that it names; a heartbeat to a peer that is not in
`next_index_` reaches nowhere (`raft_unknown_peer`). It is proved from `CatchUpSpec` only and is not
claimed of `RaftCluster`: by the commit rule's double count a leader may commit what it loses later,
and then its `commit_index_` goes beyond its log (`raft_majority`).

**MemtableProofs.** `MemInv` says of every node and every level that the pointer leads to the
nearest of the nodes of that level with a larger key, or to none if there is none (`Linked`); that
keys are not repeated; that `current_level` is the greatest height (`Heights`). `Linked` is about
single pointers, so it can be seen to hold after an `insert` or `remove`, in which a few pointers
change. What the code does with the pointers is a walk, in the model a recursive function on the
nodes of a level. That a function with the equation of the recursion exists is shown by naming it,
and that every such function has the value the walk should have, by looking at the node with the
largest key where it has not: `WalkLands` (a walk ends at the last node in front of the key),
`PathExists` and `ChainIsPath` (the nodes from any node on are one sequence), `LevelLists`. So a
search that comes down from any level ends at the predecessor on the lowest
(`SearchAlwaysFinds`), the list of a level has all its nodes in order (`LevelsAlwaysInOrder`), and
every call is a step of `OrderedMap` (`MemtableIsMap`).

**FlushPathProofs.** `FileInv` says that, while a builder exists, what it has been given is the
entries of the first nodes of the walk over level 0, and the cursor is at the next one
(`HandedOver`); that the keys ascend over the blocks and the buffer (`KeysAscend`); that the index
has the last key of each block; that a buffer is left over by no complete file. It holds whatever
writes fail, the second `Finish` of the destructor included, hence `LeftoverAlwaysPrefix`. For the
reader, an entry's position in the file is its place in the concatenation of the blocks
(`Offset`), so `Next` goes from one to the next (`IterationAlwaysComplete`), and since the last keys
ascend, `UpperBound` names the one block a key can be in (`GetAlwaysFinds`, `SeekAlwaysLands`,
`FlushAlwaysKeepsAnswers`). The last three compare texts with numbers and therefore assume
`AtMostOneNegative`: the texts of two negative keys sort the other way round, so with two of them
the file is not sorted as its index expects. The keys of the run (-1, 2, 10) are of this kind;
with -2, -1 and 2 TLC refutes all three, so the premise cannot go.
The property `AddsAscend` has the condition within itself.

**Only model-checked**: liveness (`OpenReturns`, `Terminates`, `CatchesUp`, and the
fairness in `ImplementsMerge`), since the prover does not reason about fairness and `ENABLED`. Every
other property of the passing runs is proved. `EntriesOfTermKept` is proved twice, for `Spec`, whose
logs come from the elections of the model, and for `CatchUpSpec`, whose logs are given.

## 5. Where the code departs from its documents

Each of these runs expects a violation; `PROJECT.json` quotes the sentence it refutes.

| run | what TLC finds |
| --- | --- |
| `kv_compaction_loses` | L1 ids start again at 1 in each process and a merge reads L0 files only: a compaction renames its result over the `L1_1.sst` of an earlier process and drops its reader, and the keys only that file had are gone |
| `kv_stale_after_restart` | a restart orders the readers by file name, so an L1 file counts as newer than an L0 file flushed after it, and old values come back |
| `kv_torn_tail` | the log is opened for append behind a torn record that replay left there; writes acknowledged afterwards are lost at the next restart |
| `sstable_last_key` | `SSTableReader::Get` takes the upper bound over the last keys of the blocks: the last key of every block but the last is looked for in the block behind it |
| `raft_majority` | `update_commit_index` counts the leader twice (once at the start, once in `match_index_`, where `propose` puts it): of three nodes, one is enough |
| `raft_unknown_peer` | `become_candidate` clears `next_index_` and `become_leader` fills only what is there: heartbeats name no previous entry, and a follower commits entries the leader does not have |

Met while reading or modelling, without a run of their own: `Seek` passes over the same keys as
`Get` (`SeekLands` says which); a damaged block ends an iteration like the end of the file, so a
compaction leaves out what lies behind it (`IterationComplete`); a compaction whose index or
footer could not be written renames the broken file, drops every reader and only then throws
(kv_store.h:234-237; `RenameThrows`), so the process no longer finds what the L0 files hold until
it restarts or compacts again, although
`docs/DistributedKV_Guide/chapters/07-Compaction合并机制.md`:407 wants the file confirmed before the
rename and `.trae/specs/week-6-compaction-flow/spec.md`:46 calls the compaction atomic; a second
compaction of one process drops the reader of the first L1 file; from the tenth L0 file on, name
order is not age order (kv_store.h:205 and 268; `NameLess`); an L0 file left incomplete by a crash
or a failed flush makes the next compaction throw out of `put`, each time (kv_store.h:210;
`CompactThrow`); SSTables are not fsynced before the log is removed; `del` never counts towards a
flush; two negative keys sort as text the other way round than as numbers (`AddsAscend` leaves
them out); a late success response lowers `match_index_` again (raft_node.h:388; `CatchesUp` shows
that the next exchange makes it good), and a success response is accepted across terms.

## 6. What is not modelled

- **Power loss**: an SSTable is not fsynced, so it may be missing behind a removed log. A crash of
  the model is the death of the process; the code does nothing about the other kind.
- **A rename, a removal or a reopening of the log that fails**, and a reader of an L1_temp file
  that a later compaction truncates: `CallsOverL1` keeps the latter out of runs with throwing merges.
- **Byte layouts** (CRC32, record and block encoding): a record is whole or torn, a block whole or
  damaged, a file complete or broken. The buffers of the C library, too: what a failed `fwrite`
  left in a buffer is not written later.
- **Two negative keys in one store**, for which `FormatKey` does not keep the order; the keys of
  `KVStore` are natural numbers.
- **The clock of the Raft node**: a timeout may come at any time. `last_applied_` and the bare
  setters: nothing in the repository uses them in a protocol.
- **Restarts of a Raft node**: the class has no way to save or load its state. **Two threads in
  one node**: the class has no lock, and nothing calls it so.
- **Success responses of an earlier term**: dropped by the driver; the damage they can do needs
  more terms than TLC can explore with three nodes.
- `src/main.cpp`, `examples/`: drivers without state.

## 7. Plan

Done, in this order: `KVStore` with `KVMap`; `CompactionMerger` with `KWayMerge`; `RaftNode` and
`RaftCluster`; `SkipList` with `OrderedMap`, `SSTable` and their composition; throwing writes in
`KVStore`; `RaftCatchUp`; the proofs, of the engine, the merger and the Raft cluster first, then of
the memtable, the table and the catching up. What would come next:

1. The composition of engine and table, so that `KVStore` reads through blocks of its own, with
   the theorems of `FlushPathProofs` in place of `Hidden` and `Leftovers`.
2. Power loss between the SSTable and the log, once the code has an answer to it.
