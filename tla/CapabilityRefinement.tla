----------------------- MODULE CapabilityRefinement ------------------------
(***************************************************************************)
(* The durable store against the oracle of renee-model.  The mapping drops *)
(* what the oracle does not keep: the creation revision of a capability,   *)
(* the retired state, create authorities and their receipts.  Crash,       *)
(* Restart and Retire are then stuttering steps of the oracle.             *)
(***************************************************************************)
EXTENDS CapabilityStore

OracleDocument(d) ==
  IF documents[d] = Null THEN Null
  ELSE [revision |-> documents[d].control_revision, root_id |-> documents[d].root]

OracleCapability(d, c) ==
  LET row == capabilities[d][c]
  IN  IF row = Null THEN Null
      ELSE [parent |-> row.parent, verifier |-> row.verifier,
            operations |-> row.operations, revoked |-> row.revoked]

OracleDocuments == [d \in Documents |-> OracleDocument(d)]

OracleCapabilities ==
  [d \in Documents |-> [c \in CapabilityIds |-> OracleCapability(d, c)]]

ASSUME NullIsNoOracleRow ==
  /\ Null \notin [revision : 1..MAX_REVISION, root_id : CapabilityIds]
  /\ Null \notin [parent : CapabilityIds \cup {Null}, verifier : Authenticators,
                  operations : SUBSET Operations, revoked : BOOLEAN]

Oracle ==
  INSTANCE CapabilityModel WITH
    documents <- OracleDocuments,
    capabilities <- OracleCapabilities,
    receipts <- control_receipts,
    ORACLE_DEPTH <- MAX_CAPABILITY_DEPTH

\* A row that reaches its root before the last iteration of the oracle's loops,
\* which they spend on finding that the root has no parent.
BelowLimit(d, c) ==
  \E n \in 1..(MAX_CAPABILITY_DEPTH - 1) : Walks(d, n, c, documents[d].root) # {}

BelowDepthLimit == \A d \in Documents : \A c \in Held(d) : BelowLimit(d, c)

\* Every durable mutation of the store is a mutation the oracle makes in the
\* same abstract state, whatever create authorities, limits, retirements and
\* restarts the store adds around it.
OracleSpec == Oracle!Spec

\* On active documents the oracle gives a capability the authority the store
\* gives it, but for the row at the end of a chain of MAX_CAPABILITY_DEPTH rows,
\* which the store authorizes and the oracle always denies.  renee-model is "an
\* oracle independent of process, transport, storage, wall-clock, and runtime
\* behavior" (renee-model/src/lib.rs:3); this is where the two programs differ.
OracleAuthorizes ==
  \A d \in Existing : documents[d].state = "active" =>
    \A c \in CapabilityIds, s \in Authenticators, o \in Operations :
      Oracle!authorizes(d, c, s, o) <=> authorize(d, c, s, o) /\ BelowLimit(d, c)

\* The store answers a grant as the oracle does, except where one of the
\* store's quantity limits is reached.
OracleGrantOutcome ==
  \A d \in Existing : documents[d].state = "active" =>
    \A c \in CapabilityIds, s \in Authenticators, q \in RequestIds :
      \A input \in GrantInput : input.operations # {} =>
        grant_capability_outcome(d, c, s, q, input) \in
          {Oracle!grant_outcome(d, c, s, q, input), "LimitExceeded"}

\* The store answers a revocation as the oracle does, except where the receipt
\* limit is reached.
OracleRevokeOutcome ==
  \A d \in Existing : documents[d].state = "active" =>
    \A c \in CapabilityIds, s \in Authenticators, q \in RequestIds :
      \A input \in RevokeInput :
        revoke_capability_outcome(d, c, s, q, input) \in
          {Oracle!revoke_outcome(d, c, s, q, input), "LimitExceeded"}
============================================================================
