-------------------------- MODULE CompactionMerger -------------------------
(***************************************************************************)
(* The k-way merge of include/compaction_merger.h, driven by the loop of   *)
(* KVStore::DoCompaction (Valid, Key, GetValue, Next until the end).       *)
(*                                                                         *)
(* A run is the set of keys of one SSTable; its iterator stands at a key   *)
(* and moves to the next larger one.  The merger compares keys and run     *)
(* numbers and never looks at a value, so a value is represented by the    *)
(* run it comes from.  The priority queue maps the runs whose iterator is  *)
(* valid to the key the iterator stands at (IteratorEntry::current_key).   *)
(***************************************************************************)
EXTENDS Integers, Sequences

CONSTANTS
  Keys,      \* the keys of the SSTables; FormatKey keeps the order of Nat
  NumRuns    \* the iterators handed to the constructor, the newest first

ASSUME KeysAssumption == Keys \subseteq Nat
ASSUME NumRunsAssumption == NumRuns \in Nat

VARIABLES
  runs,      \* the keys of every run
  heap,      \* heap_: the runs in the queue, each with its current_key
  current,   \* current_key_ and current_value_
  valid,     \* valid_
  output,    \* what the loop has added to the builder
  pc         \* "loop": testing Valid; "next", "skip": inside Next; "done"

vars == <<runs, heap, current, valid, output, pc>>

Runs == 1 .. NumRuns
Entry == [key : Keys, run : Runs]
AllKeys == UNION {runs[i] : i \in Runs}

Least(S) == CHOOSE k \in S : \A j \in S : k <= j

BeforeKeyOnly(h, i, j) == h[i] < h[j] \/ (h[i] = h[j] /\ i > j) \* mutant: the older wins
\* The comparator: smaller keys first, among equal keys the smaller priority.
Before(h, i, j) == h[i] < h[j] \/ (h[i] = h[j] /\ i < j)
Top(h) == CHOOSE i \in DOMAIN h : \A j \in DOMAIN h \ {i} : Before(h, i, j)

\* A popped iterator moves on and is pushed again if it is still valid.
AdvancedByOne(h, i) == [h EXCEPT ![i] = @ + 1] \* mutant: not to a key of the run
AdvancedLost(h, i) == [j \in DOMAIN h \ {i} |-> h[j]] \* mutant: it is not pushed again
Advanced(h, i) ==
  LET rest == {k \in runs[i] : k > h[i]}
  IN  IF rest = {} THEN [j \in DOMAIN h \ {i} |-> h[j]]
      ELSE [h EXCEPT ![i] = Least(rest)]

\* UpdateCurrent, for the queue h
UpdateCurrent(h) ==
  IF DOMAIN h = {}
  THEN valid' = FALSE /\ UNCHANGED current
  ELSE valid' = TRUE /\ current' = [key |-> h[Top(h)], run |-> Top(h)]

\* The constructor: SeekToFirst on every iterator, the valid ones are queued.
Init ==
  /\ runs \in [Runs -> SUBSET Keys]
  /\ heap = [i \in {j \in Runs : runs[j] # {}} |-> Least(runs[i])]
  /\ IF DOMAIN heap = {}
     THEN valid = FALSE /\ current = [key |-> 0, run |-> 0]
     ELSE valid = TRUE /\ current = [key |-> heap[Top(heap)], run |-> Top(heap)]
  /\ output = <<>>
  /\ pc = "loop"

\* while (merger.Valid()) builder.Add(merger.Key(), merger.GetValue());
Add ==
  /\ pc = "loop"
  /\ valid
  /\ output' = Append(output, current)
  /\ pc' = "next"
  /\ UNCHANGED <<runs, heap, current, valid>>

\* Next: the top of the queue is the entry just delivered.
PopTop ==
  /\ pc = "next"
  /\ heap' = Advanced(heap, Top(heap))
  /\ pc' = "skip"
  /\ UNCHANGED <<runs, current, valid, output>>

\* SkipDuplicateKeys, one turn of the loop
Duplicate == DOMAIN heap # {} /\ heap[Top(heap)] = current.key
SkipDuplicateStays == pc = "skip" /\ Duplicate /\ UNCHANGED vars \* mutant: pushed back as it was
SkipDuplicate ==
  /\ pc = "skip"
  /\ Duplicate
  /\ heap' = Advanced(heap, Top(heap))
  /\ UNCHANGED <<runs, current, valid, output, pc>>

SkipEndAtOnce == \* mutant: SkipDuplicateKeys is left out
  /\ pc = "skip"
  /\ UpdateCurrent(heap)
  /\ pc' = "loop"
  /\ UNCHANGED <<runs, heap, output>>
SkipEnd ==
  /\ pc = "skip"
  /\ ~Duplicate
  /\ UpdateCurrent(heap)
  /\ pc' = "loop"
  /\ UNCHANGED <<runs, heap, output>>

\* The loop ends; the builder finishes the file.
Finish ==
  /\ pc = "loop"
  /\ ~valid
  /\ pc' = "done"
  /\ UNCHANGED <<runs, heap, current, valid, output>>

Next == Add \/ PopTop \/ SkipDuplicate \/ SkipEnd \/ Finish

Spec == Init /\ [][Next]_vars /\ WF_vars(Next)

-----------------------------------------------------------------------------

\* The queue holds positions inside the runs, and what is delivered are entries.
TypeOK ==
  /\ runs \in [Runs -> SUBSET Keys]
  /\ DOMAIN heap \subseteq Runs
  /\ heap \in [DOMAIN heap -> Keys]
  /\ \A i \in DOMAIN heap : heap[i] \in runs[i]
  /\ valid \in BOOLEAN
  /\ valid => current \in Entry
  /\ output \in Seq(Entry)
  /\ pc \in {"loop", "next", "skip", "done"}

\* SSTableBuilder::Add asks for keys in ascending order; here strictly so,
\* whatever keys the runs share.
OutputAscending ==
  \A m, n \in DOMAIN output : m < n => output[m].key < output[n].key

\* A delivered value is that of the newest run with the key: a tombstone or a
\* newer put is never lost to an older entry.
NewestWins ==
  \A n \in DOMAIN output :
    /\ output[n].key \in runs[output[n].run]
    /\ \A i \in Runs : output[n].key \in runs[i] => output[n].run <= i

\* When the loop ends no key of any run is missing.
NothingLost == pc = "done" => AllKeys = {output[n].key : n \in DOMAIN output}

\* The merger implements the merge: every Add delivers the least key left, and
\* the loop delivers all of them.
Merge == INSTANCE KWayMerge
ImplementsMerge == Merge!Spec

\* The loop ends.
Terminates == <>(pc = "done")
=============================================================================
