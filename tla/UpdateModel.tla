----------------------------- MODULE UpdateModel ----------------------------
(***************************************************************************)
(* UpdateModel of renee-model/src/lib.rs, the oracle of the conformance    *)
(* tests for updates: what acceptance and the two reads mean, without      *)
(* storage, authority, pages or tokens.                                    *)
(***************************************************************************)
EXTENDS Integers, FiniteSets

CONSTANTS Documents, UpdateIds, Peers, Records, Null, MAX_SEQUENCE, MAX_LORO_PEERS

VARIABLES
  acceptance_order,  \* document -> position -> update, or Null
  document_peers,    \* document -> peers named by its updates
  next_sequences,    \* document -> position, or Null
  updates            \* document -> update -> [sequence, update], or Null

vars == <<acceptance_order, document_peers, next_sequences, updates>>
----------------------------------------------------------------------------
sequence(d) == IF next_sequences[d] = Null THEN 1 ELSE next_sequences[d]

AdditionalPeers(d, record) ==
  {range.peer : range \in record.ranges} \ document_peers[d]

accept_outcome(d, u, record) ==
  IF updates[d][u] # Null
  THEN IF updates[d][u].update = record THEN "AlreadyPresent" ELSE "IdentifierConflict"
  ELSE IF sequence(d) = MAX_SEQUENCE THEN "CounterExhausted"
  ELSE IF Cardinality(document_peers[d]) + Cardinality(AdditionalPeers(d, record))
            > MAX_LORO_PEERS
  THEN "LimitExceeded"
  ELSE "Inserted"

accept(d, u, record) ==
  /\ accept_outcome(d, u, record) = "Inserted"
  /\ next_sequences' = [next_sequences EXCEPT ![d] = sequence(d) + 1]
  /\ acceptance_order' = [acceptance_order EXCEPT ![d][sequence(d)] = u]
  /\ document_peers' = [document_peers EXCEPT ![d] = @ \cup AdditionalPeers(d, record)]
  /\ updates' =
       [updates EXCEPT ![d][u] = [sequence |-> sequence(d), update |-> record]]

high_water_sequence(d) ==
  LET taken == {n \in 1..MAX_SEQUENCE : acceptance_order[d][n] # Null}
  IN  IF taken = {} THEN 0 ELSE CHOOSE n \in taken : \A m \in taken : m <= n

\* The positions after one position and through another, with their updates.
acceptance_window(d, after, through) ==
  {acceptance_order[d][n] : n \in {m \in 1..MAX_SEQUENCE :
     after < m /\ m <= through /\ acceptance_order[d][m] # Null}}

enumerate(d, after, through) == acceptance_window(d, after, through)

vector_backfill(d, version, after, through) ==
  {u \in acceptance_window(d, after, through) :
     \E range \in updates[d][u].update.ranges : range.end > version[range.peer]}

fetch(d, u) == IF updates[d][u] = Null THEN "NotFound" ELSE updates[d][u].update.payload
----------------------------------------------------------------------------
Init ==
  /\ acceptance_order = [d \in Documents |-> [n \in 1..MAX_SEQUENCE |-> Null]]
  /\ document_peers = [d \in Documents |-> {}]
  /\ next_sequences = [d \in Documents |-> Null]
  /\ updates = [d \in Documents |-> [u \in UpdateIds |-> Null]]

Next == \E d \in Documents, u \in UpdateIds, r \in Records : accept(d, u, r)

Spec == Init /\ [][Next]_vars
============================================================================
