-------------------------- MODULE CapabilityModel --------------------------
(***************************************************************************)
(* The reference oracle of the repository, CapabilityModel of              *)
(* renee-model/src/lib.rs: the delegation tree of every document without   *)
(* storage, create authorities, quantity limits, retirement or restarts.   *)
(* The conformance tests compare the service with it.                      *)
(*                                                                         *)
(* ORACLE_DEPTH is the number of iterations of its loops, 64 in the        *)
(* source.  The loop in `authorizes` spends an iteration on finding that   *)
(* the root has no parent, so it accepts walks of ORACLE_DEPTH - 1 rows.   *)
(***************************************************************************)
EXTENDS Integers

CONSTANTS
  Documents, CapabilityIds, RequestIds, Authenticators, Operations, Null,
  ORACLE_DEPTH, MAX_REVISION

VARIABLES
  documents,     \* document -> [revision, root_id], or Null
  capabilities,  \* document -> capability -> row, or Null
  receipts       \* set of [document, issuer, request, input]

vars == <<documents, capabilities, receipts>>
----------------------------------------------------------------------------
GrantInput ==
  [operation : {"grant"}, descendant : CapabilityIds,
   verifier : Authenticators, operations : SUBSET Operations]

RevokeInput == [operation : {"revoke"}, target : CapabilityIds]

Held(d) == {c \in CapabilityIds : capabilities[d][c] # Null}

IsRoot(d, c) == capabilities[d][c].parent = Null

Walks(d, n, c, a) ==
  {p \in [1..n -> Held(d)] :
     /\ p[1] = c
     /\ p[n] = a
     /\ \A i \in 1..(n - 1) : capabilities[d][p[i]].parent = p[i + 1]}

authorizes(d, c, secret, operation) ==
  /\ documents[d] # Null
  /\ c \in Held(d)
  /\ capabilities[d][c].verifier = secret
  /\ operation \in capabilities[d][c].operations
  /\ \E n \in 1..(ORACLE_DEPTH - 1) : \E a \in Held(d) :
       /\ IsRoot(d, a)
       /\ \E p \in Walks(d, n, c, a) :
            \A i \in 1..n : ~capabilities[d][p[i]].revoked

is_descendant(d, ancestor, c) ==
  \E n \in 1..ORACLE_DEPTH : Walks(d, n, c, ancestor) # {}

is_active_descendant(d, issuer, target) ==
  /\ target \in Held(d)
  /\ ~capabilities[d][target].revoked
  /\ is_descendant(d, issuer, target)

issuer_has_descendant_capacity(d, issuer) ==
  \E n \in 1..(ORACLE_DEPTH - 1) :
    \E a \in Held(d) : IsRoot(d, a) /\ Walks(d, n, issuer, a) # {}

receipt_outcome(d, issuer, secret, request, input) ==
  LET found == {r \in receipts :
                  r.document = d /\ r.issuer = issuer /\ r.request = request}
  IN  IF documents[d] = Null \/ found = {} \/ issuer \notin Held(d)
      THEN "Unresolved"
      ELSE IF capabilities[d][issuer].verifier # secret THEN "AuthorizationDenied"
      ELSE IF \E r \in found : r.input = input THEN "AlreadyPresent"
      ELSE "RequestConflict"

create_document_outcome(d, root, secret) ==
  IF documents[d] = Null THEN "Inserted"
  ELSE IF documents[d].root_id = root /\ capabilities[d][root].verifier = secret
  THEN "AlreadyPresent"
  ELSE "IdentifierConflict"

grant_outcome(d, issuer, secret, request, input) ==
  LET resolved == receipt_outcome(d, issuer, secret, request, input)
  IN  IF resolved # "Unresolved" THEN resolved
      ELSE IF \/ ~authorizes(d, issuer, secret, "grant")
              \/ ~issuer_has_descendant_capacity(d, issuer)
              \/ input.operations = {}
              \/ ~(input.operations \subseteq capabilities[d][issuer].operations)
           THEN "AuthorizationDenied"
      ELSE IF documents[d].revision >= MAX_REVISION THEN "CounterExhausted"
      ELSE IF input.descendant \in Held(d) THEN "IdentifierConflict"
      ELSE "Inserted"

revoke_outcome(d, issuer, secret, request, input) ==
  LET resolved == receipt_outcome(d, issuer, secret, request, input)
  IN  IF resolved # "Unresolved" THEN resolved
      ELSE IF \/ ~authorizes(d, issuer, secret, "revoke")
              \/ ~is_active_descendant(d, issuer, input.target)
           THEN "AuthorizationDenied"
      ELSE IF documents[d].revision >= MAX_REVISION THEN "CounterExhausted"
      ELSE "Inserted"
----------------------------------------------------------------------------
create_document(d, root, secret) ==
  /\ create_document_outcome(d, root, secret) = "Inserted"
  /\ documents' = [documents EXCEPT ![d] = [revision |-> 1, root_id |-> root]]
  /\ capabilities' =
       [capabilities EXCEPT
          ![d][root] = [parent |-> Null, verifier |-> secret,
                        operations |-> Operations, revoked |-> FALSE]]
  /\ UNCHANGED receipts

insert_receipt(d, issuer, request, input) ==
  /\ receipts' =
       receipts \cup
         {[document |-> d, issuer |-> issuer, request |-> request, input |-> input]}
  /\ documents' = [documents EXCEPT ![d].revision = @ + 1]

grant(d, issuer, secret, request, input) ==
  /\ grant_outcome(d, issuer, secret, request, input) = "Inserted"
  /\ capabilities' =
       [capabilities EXCEPT
          ![d][input.descendant] =
             [parent |-> issuer, verifier |-> input.verifier,
              operations |-> input.operations, revoked |-> FALSE]]
  /\ insert_receipt(d, issuer, request, input)

revoke(d, issuer, secret, request, input) ==
  /\ revoke_outcome(d, issuer, secret, request, input) = "Inserted"
  /\ capabilities' =
       [capabilities EXCEPT
          ![d] = [c \in CapabilityIds |->
                    IF c \in Held(d) /\ is_descendant(d, input.target, c)
                    THEN [@[c] EXCEPT !.revoked = TRUE]
                    ELSE @[c]]]
  /\ insert_receipt(d, issuer, request, input)
----------------------------------------------------------------------------
Init ==
  /\ documents = [d \in Documents |-> Null]
  /\ capabilities = [d \in Documents |-> [c \in CapabilityIds |-> Null]]
  /\ receipts = {}

Next ==
  \E d \in Documents, c \in CapabilityIds, s \in Authenticators :
    \/ create_document(d, c, s)
    \/ \E q \in RequestIds :
         \/ \E input \in GrantInput : grant(d, c, s, q, input)
         \/ \E input \in RevokeInput : revoke(d, c, s, q, input)

Spec == Init /\ [][Next]_vars
============================================================================
