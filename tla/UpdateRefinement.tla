-------------------------- MODULE UpdateRefinement --------------------------
(***************************************************************************)
(* The update tables and passes of the store against UpdateModel, the      *)
(* oracle of renee-model: the oracle's acceptance order is the order of    *)
(* the acceptance positions in the updates table.                          *)
(***************************************************************************)
EXTENDS UpdateStore

OracleUpdate(d, u) ==
  IF updates[d][u] = Null THEN Null
  ELSE [sequence |-> SequenceOf(d, u), update |-> RecordOf(d, u)]

OneOf(S) == IF S = {} THEN Null ELSE CHOOSE u \in S : TRUE

UpdateAt(d, n) == OneOf({u \in Stored(d) : SequenceOf(d, u) = n})

ASSUME NullIsNoOracleRow ==
  Null \notin [sequence : 1..MAX_SEQUENCE, update : Records]

Oracle ==
  INSTANCE UpdateModel WITH
    acceptance_order <- [d \in Documents |-> [n \in 1..MAX_SEQUENCE |-> UpdateAt(d, n)]],
    document_peers <- [d \in Documents |-> {p \in Peers : <<d, p>> \in document_loro_peers}],
    next_sequences <- acceptance_sequences,
    updates <- [d \in Documents |-> [u \in UpdateIds |-> OracleUpdate(d, u)]]

\* Every change of the update tables is an acceptance of the oracle in the same
\* abstract state; reads, revocations, expiry, channels and restarts change
\* nothing that the oracle knows of.
OracleUpdates == Oracle!Spec

\* The store answers every authorized, well-formed acceptance and fetch as the
\* oracle does: exact retry, conflict, exhausted counter and peer limit in the
\* same order of precedence.
OracleAnswers ==
  \A d \in Documents, c \in Capabilities, u \in UpdateIds : authorize(d, c) =>
    /\ fetch_outcome(d, c, u) = Oracle!fetch(d, u)
    /\ \A r \in ValidRecords :
         accept_outcome(d, c, u, r) = Oracle!accept_outcome(d, u, r)

\* The pages of a chain of enumeration tokens deliver every update at most
\* once, as a prefix of the oracle's window and never one accepted after the
\* window was captured; the tail is announced exactly when the whole window was
\* delivered, whatever is accepted, retried or forgotten in between.
EnumerationExact ==
  \A t \in 1..Len(issued) : issued[t].mode # "Vector" =>
    LET ticket == issued[t]
        delivered == {u \in UpdateIds : ticket.delivered[u] > 0}
        window == Oracle!enumerate(ticket.document, 0, ticket.captured)
    IN  /\ \A u \in UpdateIds : ticket.delivered[u] <= 1
        /\ delivered = Oracle!enumerate(ticket.document, 0, Cardinality(delivered))
        /\ delivered \subseteq window
        /\ ticket.mode = "AfterTail" <=> delivered = window

\* The pages of a chain of vector tokens deliver, each once, exactly the updates
\* of the captured window that the oracle selects for the version, although
\* scans stop in the middle, skip what the client has and end on empty pages.
BackfillExact ==
  /\ \A t \in 1..Len(issued) : issued[t].mode = "Vector" =>
       LET ticket == issued[t]
           delivered == {u \in UpdateIds : ticket.delivered[u] > 0}
           Selection(n) == Oracle!vector_backfill(ticket.document, ticket.version, 0, n)
       IN  /\ \A u \in UpdateIds : ticket.delivered[u] <= 1
           /\ \E n \in 0..ticket.captured : delivered = Selection(n)
           /\ (ticket.answer # Null /\ ~ticket.answer.has_more) =>
                /\ delivered \cap ticket.answer.updates = {}
                /\ delivered \cup ticket.answer.updates = Selection(ticket.captured)
  /\ \A ch \in Channels, d \in Documents, c \in Capabilities, version \in Versions :
       LET result == vector_from_origin(ch, d, c, version)
       IN  (result.outcome = "Authorized" /\ ~result.response.has_more) =>
             result.response.updates =
               Oracle!vector_backfill(d, version, 0, Oracle!high_water_sequence(d))
============================================================================
