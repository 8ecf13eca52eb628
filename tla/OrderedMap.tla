----------------------------- MODULE OrderedMap -----------------------------
(***************************************************************************)
(* What a skip list promises its owner: one value per key.  The order of   *)
(* the keys is the order in which the map is walked.                       *)
(***************************************************************************)
CONSTANTS
  Keys,      \* the keys
  Values     \* the values

VARIABLE map   \* from the keys that are there to their values

Init == map = [k \in {} |-> CHOOSE v \in Values : TRUE]

Put(k, v) == map' = [j \in DOMAIN map \cup {k} |-> IF j = k THEN v ELSE map[j]]

Delete(k) ==
  /\ k \in DOMAIN map
  /\ map' = [j \in DOMAIN map \ {k} |-> map[j]]

DeleteAll == map' = [k \in {} |-> CHOOSE v \in Values : TRUE]

Next ==
  \/ \E k \in Keys, v \in Values : Put(k, v)
  \/ \E k \in Keys : Delete(k)
  \/ DeleteAll

Spec == Init /\ [][Next]_map
=============================================================================
