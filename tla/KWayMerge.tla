----------------------------- MODULE KWayMerge -----------------------------
(***************************************************************************)
(* What a merge of sorted runs promises to the builder that consumes it:   *)
(* the keys of all runs, each once, in ascending order, each from the run  *)
(* of highest priority that has it (run 1 is the newest).                  *)
(***************************************************************************)
EXTENDS Integers, Sequences

CONSTANTS
  Keys,      \* the keys, natural numbers
  NumRuns    \* how many runs are merged

VARIABLES
  runs,      \* the keys of every run
  output     \* the entries delivered: a key and the run its value comes from

Runs == 1 .. NumRuns
Entry == [key : Keys, run : Runs]
AllKeys == UNION {runs[i] : i \in Runs}
Holders(k) == {i \in Runs : k \in runs[i]}
Delivered == {output[n].key : n \in DOMAIN output}
Remaining == AllKeys \ Delivered

Init ==
  /\ runs \in [Runs -> SUBSET Keys]
  /\ output = <<>>

Deliver ==
  \E k \in Remaining : \E i \in Holders(k) :
    /\ \A j \in Remaining : k <= j
    /\ \A j \in Holders(k) : i <= j
    /\ output' = Append(output, [key |-> k, run |-> i])
    /\ UNCHANGED runs

Spec == Init /\ [][Deliver]_<<runs, output>> /\ WF_<<runs, output>>(Deliver)
=============================================================================
