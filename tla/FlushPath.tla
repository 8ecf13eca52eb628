----------------------------- MODULE FlushPath ------------------------------
(***************************************************************************)
(* The way of the data out of the memtable: KVStore::Flush walks the skip  *)
(* list and hands its entries to the builder of an SSTable, whose writes   *)
(* may fail; what it leaves is read through the reader and an iterator.    *)
(*                                                                         *)
(* SkipList and SSTable hold the steps of the two components; this module  *)
(* says which of them a call of the engine makes.                          *)
(***************************************************************************)
EXTENDS Integers, Sequences, SequencesExt

CONSTANTS
  Keys,          \* the keys, ints
  Values,        \* the values, each the number of bytes its entry takes in a block
  Nothing,       \* std::nullopt of search and Get
  max_level,     \* levels of the skip list
  kBlockSize     \* bytes from which a block is written

ASSUME KeysAssumption == Keys \subseteq Int
ASSUME ValuesAssumption == Values \subseteq Nat \ {0} /\ Nothing \notin Values
ASSUME LimitAssumption == max_level \in Nat \ {0} /\ kBlockSize \in Nat \ {0}

VARIABLES
  entry, forward, current_level,               \* the memtable, see SkipList
  data_block_buffer, blocks, index_entries,    \* the table, see SSTable
  file, damaged, it,
  cursor                                       \* the iterator of Flush over the memtable

TextLessUnpadded(j, k) == \* mutant: "%d", for numbers below 20
  \/ j < k /\ ~(j \in 2 .. 9 /\ k >= 10)
  \/ k \in 2 .. 9 /\ j >= 10
\* FormatKey, "%011d": digits of one width, and a minus sorts before a digit.
\* The order of the texts is that of the numbers, but reversed among negatives.
TextLess(j, k) == IF j < 0 /\ k < 0 THEN k < j ELSE j < k

List == INSTANCE SkipList
Table == INSTANCE SSTable WITH Less <- TextLess

memtable == <<entry, forward, current_level>>
table == <<data_block_buffer, blocks, index_entries, file, damaged, it>>
vars == <<memtable, table, cursor>>

Init == List!Init /\ Table!Init /\ cursor = List!Nil

\* Bound: the memtable changes until a file is complete, then it is only read.
Serving == file \in {"none", "broken"}

-----------------------------------------------------------------------------
(* The memtable: put and del insert; remove has no caller in the engine *)

MemtableInsert(k, v) == Serving /\ List!insert(k, v) /\ UNCHANGED <<table, cursor>>
MemtableRemove(k) == Serving /\ List!remove(k) /\ UNCHANGED <<table, cursor>>

-----------------------------------------------------------------------------
(* Flush *)

FirstNode == forward[List!head][1]

\* A flush whose builder threw may be tried again, into the next file.
FlushBegin ==
  /\ file \in {"none", "broken", "complete"}
  /\ FirstNode # List!Nil
  /\ Table!Create
  /\ cursor' = FirstNode
  /\ UNCHANGED memtable

FlushAdd ==
  /\ cursor # List!Nil
  /\ Table!Add(entry[cursor])
  /\ cursor' = forward[cursor][1]
  /\ UNCHANGED memtable

ClearedAlways == \* mutant: the memtable is cleared in front of the reader
  IF file' \in {"complete", "broken"} THEN List!clear ELSE UNCHANGED memtable
\* The reader's constructor throws for a broken file, in front of the clear.
Cleared == IF file' = "complete" THEN List!clear ELSE UNCHANGED memtable
FlushEnd ==
  /\ cursor = List!Nil
  /\ Table!Finish
  /\ Cleared
  /\ UNCHANGED cursor

\* An exception of Add or Finish leaves Flush by way of the builder's destructor.
FlushThrows ==
  /\ Table!Destroy
  /\ cursor' = List!Nil
  /\ UNCHANGED memtable

-----------------------------------------------------------------------------

ReadTable ==
  /\ FirstNode = List!Nil
  /\ \/ \E k \in Keys : Table!Seek(k)
     \/ Table!SeekToFirst
     \/ Table!IteratorNext
     \/ \E b \in DOMAIN blocks : Table!Damage(b)
  /\ UNCHANGED <<memtable, cursor>>

Next ==
  \/ \E k \in Keys, v \in Values : MemtableInsert(k, v)
  \/ \E k \in Keys : MemtableRemove(k)
  \/ FlushBegin \/ FlushAdd \/ FlushEnd \/ FlushThrows
  \/ ReadTable

Spec == Init /\ [][Next]_vars

-----------------------------------------------------------------------------

TypeOK ==
  /\ List!TypeOK /\ Table!TypeOK
  /\ cursor \in DOMAIN entry \cup {List!Nil}

\* Each level of the memtable holds the nodes that are high enough, in order.
LevelsInOrder == List!LevelsInOrder

\* search agrees with a walk along the lowest level.
SearchFinds == List!SearchFinds

\* The memtable is an ordered map, whatever heights random_level draws: an insert
\* sets the value of its key and a remove deletes its key, both nothing else;
\* a flush that succeeds deletes all of it at once and no other flush changes it.
ImplementsMap ==
  /\ List!Map!Spec
  /\ [][ \A k \in Keys :
           /\ \A v \in Values : MemtableInsert(k, v) => List!Map!Put(k, v)
           /\ MemtableRemove(k) => List!Map!Delete(k) ]_vars

\* The builder is given ascending texts ("must be added in ascending order",
\* sstable_builder.h:80) although the memtable sorts ints, as long as there is
\* at most one negative key; its entries reach the blocks in that order.
AddsAscend ==
  (\A j, k \in Keys : j < 0 /\ k < 0 => j = k) =>
    \A i \in 1 .. Len(Table!Added) - 1 : TextLess(Table!Added[i].key, Table!Added[i + 1].key)

\* The step of Flush that empties the memtable leaves every answer in the table
\* as it was, up to the keys Get is blind for.
FlushKeepsAnswers ==
  [][ (DOMAIN entry # {} /\ DOMAIN entry' = {} /\ file = "building") =>
        /\ file' = "complete"
        /\ \A k \in Keys : k \notin Table!Unfindable' => Table!Get(k)' = List!search(k) ]_vars

\* A file that a failed flush leaves behind and that opens all the same, for the
\* next constructor or compaction, holds the first entries of the memtable, in
\* their order and once each; the memtable still has them.
LeftoverIsPrefix ==
  [][ (FlushThrows /\ file' = "complete") =>
        LET nodes == List!Level(1)
            walked == [i \in DOMAIN nodes |-> entry[nodes[i]]]
        IN  /\ IsPrefix(Table!Added', walked)
            /\ UNCHANGED memtable ]_vars

\* Get answers with the value of a key exactly if the key is in a block that is
\* not damaged and is not the last key of a block with another behind it; damage
\* to other blocks does not matter, and no answer is a value of another key.
GetFinds ==
  file = "complete" =>
    \A k \in Keys :
      LET there == {at \in Table!Positions : Table!EntryAt(at).key = k /\ at[1] \notin damaged}
      IN  Table!Get(k) = IF there = {} \/ k \in Table!Unfindable THEN Nothing
                         ELSE Table!EntryAt(CHOOSE at \in there : TRUE).value

\* Seek lands on the first key that is not smaller than its target, except that
\* it passes over a target that is the last key of a block with another behind
\* it, and is invalid if that key lies in a damaged block or there is none.
SeekLands ==
  [][ \A k \in Keys : Table!Seek(k) =>
        LET fit == {at \in Table!Positions :
                      /\ ~TextLess(Table!EntryAt(at).key, k)
                      /\ Table!EntryAt(at).key = k => k \notin Table!Unfindable}
        IN  \/ /\ it' \in fit /\ \A at \in fit : Table!Rank(it') <= Table!Rank(at)
            \/ /\ it' = Table!Invalid
               /\ fit # {} => \E b \in damaged : b \in {Table!BlockOf(k), Table!BlockOf(k) + 1} ]_vars

\* An iterator meets every entry: Next goes to the entry behind, over the border
\* of blocks too, and is invalid only behind the last one or in front of a
\* damaged block.  The loops of a compaction cannot tell these two ends apart.
IterationComplete ==
  [][ Table!IteratorNext =>
        IF it' # Table!Invalid THEN Table!Rank(it') = Table!Rank(it) + 1
        ELSE Table!Rank(it) = Len(Table!Added) \/ it[1] + 1 \in damaged ]_vars

-----------------------------------------------------------------------------
(* What the documents say, for the run that refutes it *)

\* Get locates the data block of its key in the index and returns the value if
\* the key is there ("定位目标 Key 所在的 Data Block", "如果找到返回 Value").
WrittenIsFound ==
  file = "complete" =>
    \A at \in Table!Positions :
      at[1] \notin damaged => Table!Get(Table!EntryAt(at).key) = Table!EntryAt(at).value
=============================================================================
