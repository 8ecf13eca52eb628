------------------------------- MODULE KVMap -------------------------------
(***************************************************************************)
(* What the key-value store promises a caller that uses it from one thread *)
(* and whose process may die at any moment: a map with one durable value   *)
(* per key.  A write is called, takes effect exactly once while the        *)
(* process is up, and then returns; a crash forgets the call in progress   *)
(* and nothing else; a restart changes nothing.                            *)
(***************************************************************************)
CONSTANTS
  Keys,      \* the keys
  Values,    \* the values a put may store
  Tomb,      \* "no value": what get answers for an absent or deleted key
  NoCall     \* no write in progress

VARIABLES
  db,        \* the durable value of every key
  pending,   \* the write in progress that has not taken effect yet
  up         \* whether the process is up (its constructor has returned)

vars == <<db, pending, up>>

Record == [key : Keys, val : Values \cup {Tomb}]

\* A key has a value or none; at most one write is in progress.
TypeOK ==
  /\ db \in [Keys -> Values \cup {Tomb}]
  /\ pending \in Record \cup {NoCall}
  /\ up \in BOOLEAN

Init ==
  /\ db = [k \in Keys |-> Tomb]
  /\ pending = NoCall
  /\ up = FALSE

Call ==
  /\ up
  /\ pending = NoCall
  /\ pending' \in Record
  /\ UNCHANGED <<db, up>>

Commit ==
  /\ up
  /\ pending # NoCall
  /\ db' = [db EXCEPT ![pending.key] = pending.val]
  /\ pending' = NoCall
  /\ UNCHANGED up

Crash ==
  /\ up' = FALSE
  /\ pending' = NoCall
  /\ UNCHANGED db

Restart ==
  /\ ~up
  /\ up' = TRUE
  /\ UNCHANGED <<db, pending>>

Next == Call \/ Commit \/ Crash \/ Restart

Spec == Init /\ [][Next]_vars
=============================================================================
