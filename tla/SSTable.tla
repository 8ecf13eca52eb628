------------------------------ MODULE SSTable -------------------------------
(***************************************************************************)
(* One SSTable file: the builder that writes it, with the writes that fail *)
(* under it, and the reader and the iterator that read it, with blocks     *)
(* that have been damaged in the meantime.                                 *)
(*                                                                         *)
(* A key stands for its text and Less for the order of the texts.  A value *)
(* is the number of bytes its entry takes.  An index entry is the last key *)
(* of a block; its handle is that of the block with the same number.       *)
(***************************************************************************)
EXTENDS Integers, Sequences, SequencesExt

CONSTANTS
  Keys,               \* the keys
  Values,             \* the values
  Nothing,            \* std::nullopt of Get
  Less(_, _),         \* the order of std::string on the keys
  kBlockSize          \* kBlockSize

VARIABLES
  data_block_buffer,  \* the entries of the block that is being filled
  blocks,             \* the blocks of the file
  index_entries,      \* the index block
  file,               \* how far the file has come, see TypeOK
  damaged,            \* the blocks whose CRC does not match any more
  it                  \* where an iterator stands, <<block, entry>>, or Invalid

vars == <<data_block_buffer, blocks, index_entries, file, damaged, it>>

Invalid == <<0, 0>>
Entries == [key : Keys, value : Values]

Fresh(status) ==
  /\ data_block_buffer' = <<>> /\ blocks' = <<>> /\ index_entries' = <<>>
  /\ file' = status /\ damaged' = {} /\ it' = Invalid

Init ==
  /\ data_block_buffer = <<>> /\ blocks = <<>> /\ index_entries = <<>>
  /\ file = "none" /\ damaged = {} /\ it = Invalid

-----------------------------------------------------------------------------
(* SSTableBuilder *)

Create == Fresh("building")

size(buffer) == FoldLeft(LAMBDA bytes, e : bytes + e.value, 0, buffer)

WrittenKept(buffer) == buffer      \* mutant: data_block_buffer_ is not cleared
Written(buffer) == <<>>
FirstKey(buffer) == buffer[1].key  \* mutant: the index keeps the first key
LastKey(buffer) == Last(buffer).key
WriteBlock(buffer) ==
  /\ blocks' = Append(blocks, buffer)
  /\ index_entries' = Append(index_entries, LastKey(buffer))
  /\ data_block_buffer' = Written(buffer)

\* fwrite comes back short, either with nothing written or with a part of it.
WriteBlockThrows(buffer) ==
  /\ data_block_buffer' = buffer
  /\ file' \in {"threw", "torn"}
  /\ UNCHANGED <<blocks, index_entries>>

Add(e) ==
  LET buffer == Append(data_block_buffer, e)
  IN  /\ file = "building"
      /\ \/ /\ size(buffer) < kBlockSize
            /\ data_block_buffer' = buffer
            /\ UNCHANGED <<blocks, index_entries, file>>
         \/ size(buffer) >= kBlockSize /\ WriteBlock(buffer) /\ UNCHANGED file
         \/ size(buffer) >= kBlockSize /\ WriteBlockThrows(buffer)
      /\ UNCHANGED <<damaged, it>>

\* The rest of the entries is written like any block, but nobody looks at what
\* becomes of the index and the footer: without them the file does not open.
Rest ==
  IF data_block_buffer = <<>>
  THEN UNCHANGED <<data_block_buffer, blocks, index_entries>>
  ELSE WriteBlock(data_block_buffer)

Finish ==
  /\ file = "building"
  /\ \/ Rest /\ file' \in {"complete", "broken"}
     \/ data_block_buffer # <<>> /\ WriteBlockThrows(data_block_buffer)
  /\ UNCHANGED <<damaged, it>>

\* After an exception ~SSTableBuilder calls Finish again.  The block that was
\* refused may be written now; if a part of it had been before, every handle
\* misses its block and the index does not pass its CRC.
Completed == IF file = "threw" THEN {"complete", "broken"} ELSE {"broken"}
Destroy ==
  /\ file \in {"threw", "torn"}
  /\ \/ Rest /\ file' \in Completed
     \/ file' = "broken" /\ UNCHANGED <<data_block_buffer, blocks, index_entries>>
  /\ UNCHANGED <<damaged, it>>

-----------------------------------------------------------------------------
(* SSTableReader, open on a complete file *)

NumBlocks == Len(index_entries)

\* std::upper_bound: the first block whose last key is greater than k
UpperBound(k) ==
  CHOOSE b \in 1 .. NumBlocks + 1 :
    /\ b <= NumBlocks => Less(k, index_entries[b])
    /\ \A c \in 1 .. b - 1 : ~Less(k, index_entries[c])
BlockOf(k) == IF UpperBound(k) > NumBlocks THEN NumBlocks ELSE UpperBound(k)

SearchInBlock(b, k) ==
  LET hits == {i \in DOMAIN blocks[b] : blocks[b][i].key = k}
  IN  IF hits = {} THEN Nothing ELSE blocks[b][CHOOSE i \in hits : \A j \in hits : i <= j].value

Get(k) ==
  IF \/ NumBlocks = 0
     \/ UpperBound(k) > NumBlocks /\ Less(index_entries[NumBlocks], k)
     \/ BlockOf(k) \in damaged
  THEN Nothing ELSE SearchInBlock(BlockOf(k), k)

\* LoadBlock and the first ParseNextEntry: no block is empty
FirstOf(b) == IF b > NumBlocks \/ b \in damaged THEN Invalid ELSE <<b, 1>>

Behind(e, k) == Less(k, e.key)     \* mutant: passes over the target
AtOrBehind(e, k) == ~Less(e.key, k)
Seek(k) ==
  LET b == BlockOf(k)
      from == {i \in DOMAIN blocks[b] : AtOrBehind(blocks[b][i], k)}
  IN  /\ file = "complete"
      /\ it' = IF NumBlocks = 0 \/ b \in damaged THEN Invalid
               ELSE IF from = {} THEN FirstOf(b + 1)
               ELSE <<b, CHOOSE i \in from : \A j \in from : i <= j>>
      /\ UNCHANGED <<data_block_buffer, blocks, index_entries, file, damaged>>

SeekToFirst ==
  /\ file = "complete"
  /\ it' = FirstOf(1)
  /\ UNCHANGED <<data_block_buffer, blocks, index_entries, file, damaged>>

FollowingBlock(b, i) == FirstOf(b + 1) \* mutant: the rest of the block is left out
Following(b, i) == IF i < Len(blocks[b]) THEN <<b, i + 1>> ELSE FirstOf(b + 1)
IteratorNext ==
  /\ file = "complete" /\ it # Invalid
  /\ it' = Following(it[1], it[2])
  /\ UNCHANGED <<data_block_buffer, blocks, index_entries, file, damaged>>

\* Bytes of the file change behind the reader's back.
Damage(b) ==
  /\ file = "complete"
  /\ b \in DOMAIN blocks \ damaged
  /\ damaged' = damaged \cup {b}
  /\ UNCHANGED <<data_block_buffer, blocks, index_entries, file, it>>

-----------------------------------------------------------------------------
(* What the file holds *)

\* Every entry that Add was given, in that order
Added == FlattenSeq(blocks) \o data_block_buffer

\* The position of an iterator as a number of entries
Rank(at) == Len(FlattenSeq(SubSeq(blocks, 1, at[1] - 1))) + at[2]

\* The upper bound of the last key of a block is the block behind it, which
\* does not have the key: Get and Seek are blind for these keys.
Unfindable == {index_entries[b] : b \in 1 .. NumBlocks - 1}

Positions == UNION {{b} \X DOMAIN blocks[b] : b \in DOMAIN blocks}
EntryAt(at) == blocks[at[1]][at[2]]

TypeOK ==
  /\ data_block_buffer \in Seq(Entries)
  /\ blocks \in Seq(Seq(Entries) \ {<<>>})
  /\ index_entries \in Seq(Keys) /\ Len(index_entries) = Len(blocks)
  /\ file \in {"none", "building",  \* Add and Finish may be called
               "threw", "torn",     \* an exception is on its way, with nothing or
                                    \* with a part of the block written
               "complete",          \* it opens
               "broken"}            \* it does not
  /\ damaged \subseteq DOMAIN blocks
  /\ it = Invalid \/ it \in Positions
=============================================================================
