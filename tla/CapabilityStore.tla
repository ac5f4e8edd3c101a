-------------------------- MODULE CapabilityStore --------------------------
(***************************************************************************)
(* The durable capability tables of renee-stored (store.rs): documents,    *)
(* the delegation tree of capabilities of every document, and the receipts *)
(* that make create, grant and revoke idempotent.                          *)
(*                                                                         *)
(* Every operation is one SQLite transaction run under the store's mutex,  *)
(* so one operation is one action.  An operation that does not answer      *)
(* Inserted changes nothing: its answer is given by the ..._outcome        *)
(* operators, which keep the order of the early returns of the code.  A    *)
(* crash stops the process between transactions; Open runs the recovery    *)
(* validation and provisions the configured create authority.              *)
(*                                                                         *)
(* A capability's live and receipt verifiers are SHA-256 digests of        *)
(* (domain, document, capability, authenticator).  Digests are taken to be *)
(* injective, and both are derived from the one authenticator, so a row    *)
(* that is already keyed by document and capability keeps the              *)
(* authenticator itself.                                                   *)
(***************************************************************************)
EXTENDS Integers, FiniteSets

CONSTANTS
  Documents,          \* document identifiers
  CapabilityIds,      \* capability identifiers, scoped by a document
  RequestIds,         \* client-chosen request identifiers
  CreateAuthorities,  \* identifiers of create authorities
  Authenticators,     \* secrets presented with a request
  Operations,         \* the operations a capability may carry
  Null,               \* an absent row, or SQL NULL
  MAX_CAPABILITY_DEPTH,
  MAX_DIRECT_CAPABILITY_CHILDREN,
  MAX_CAPABILITIES_PER_DOCUMENT,
  MAX_CONTROL_RECEIPTS_PER_DOCUMENT,
  MAX_GLOBAL_CAPABILITIES,
  MAX_GLOBAL_CONTROL_RECEIPTS,
  MAX_DOCUMENTS_PER_CREATE_AUTHORITY,
  MAX_GLOBAL_DOCUMENTS,
  MAX_GLOBAL_CREATE_RECEIPTS,
  MAX_REVISION        \* u64::MAX, the last control revision

VARIABLES
  documents,          \* table documents
  capabilities,       \* tables capabilities and capability_operations
  control_receipts,   \* table control_receipts
  create_receipts,    \* table create_receipts
  create_authorities, \* table create_authorities
  running             \* whether a process has the store open

vars == <<documents, capabilities, control_receipts, create_receipts,
          create_authorities, running>>
----------------------------------------------------------------------------
Document ==
  [state : {"active", "retired"}, control_revision : 1..MAX_REVISION,
   root : CapabilityIds]

Capability ==
  [parent : CapabilityIds \cup {Null}, verifier : Authenticators,
   operations : SUBSET Operations, revoked : BOOLEAN,
   created_revision : 1..MAX_REVISION]

GrantInput ==
  [operation : {"grant"}, descendant : CapabilityIds,
   verifier : Authenticators, operations : SUBSET Operations]

RevokeInput == [operation : {"revoke"}, target : CapabilityIds]

ControlReceipt ==
  [document : Documents, issuer : CapabilityIds, request : RequestIds,
   input : GrantInput \cup RevokeInput]

CreateReceipt ==
  [authority : CreateAuthorities, request : RequestIds,
   document : Documents, root : CapabilityIds, verifier : Authenticators]

CreateAuthority == [live : Authenticators, receipt : Authenticators]

Limits ==
  {MAX_CAPABILITY_DEPTH, MAX_DIRECT_CAPABILITY_CHILDREN,
   MAX_CAPABILITIES_PER_DOCUMENT, MAX_CONTROL_RECEIPTS_PER_DOCUMENT,
   MAX_GLOBAL_CAPABILITIES, MAX_GLOBAL_CONTROL_RECEIPTS,
   MAX_DOCUMENTS_PER_CREATE_AUTHORITY, MAX_GLOBAL_DOCUMENTS,
   MAX_GLOBAL_CREATE_RECEIPTS}

\* Identifiers are 16 bytes long, so there are finitely many of them.
ASSUME IdentifiersFinite == IsFiniteSet(Documents) /\ IsFiniteSet(CapabilityIds)

ASSUME OperationsAssumption == {"grant", "revoke"} \subseteq Operations

ASSUME NullAssumption ==
  /\ Null \notin CapabilityIds
  /\ Null \notin Document
  /\ Null \notin Capability
  /\ Null \notin CreateAuthority

ASSUME LimitsAssumption == Limits \subseteq Nat \ {0}

\* 2^64 - 1 exceeds the receipts a document may retain by far.
ASSUME RevisionAssumption ==
  /\ MAX_REVISION \in Nat
  /\ MAX_REVISION > MAX_CONTROL_RECEIPTS_PER_DOCUMENT + 1
----------------------------------------------------------------------------
\* Queries on the tables.

Existing == {d \in Documents : documents[d] # Null}

Held(d) == {c \in CapabilityIds : capabilities[d][c] # Null}

AllHeld ==
  {k \in Documents \X CapabilityIds : capabilities[k[1]][k[2]] # Null}

Children(d, c) == {k \in Held(d) : capabilities[d][k].parent = c}

ReceiptsOf(d) == {r \in control_receipts : r.document = d}

CreatedBy(a) == {r \in create_receipts : r.authority = a}

\* The walks along parent_capability_id from c to a that visit n rows.
Walks(d, n, c, a) ==
  {p \in [1..n -> Held(d)] :
     /\ p[1] = c
     /\ p[n] = a
     /\ \A i \in 1..(n - 1) : capabilities[d][p[i]].parent = p[i + 1]}

\* The loops that follow parents give up after MAX_CAPABILITY_DEPTH rows.
Reaches(d, c, a) ==
  \E n \in 1..MAX_CAPABILITY_DEPTH : Walks(d, n, c, a) # {}

\* Mutant of ReachesActive: the walk ignores the revoked rows it meets.
ReachesActive_ignoring_revocation(d, c, a) == Reaches(d, c, a)

ReachesActive(d, c, a) ==
  \E n \in 1..MAX_CAPABILITY_DEPTH :
    \E p \in Walks(d, n, c, a) : \A i \in 1..n : ~capabilities[d][p[i]].revoked

IsRoot(d, c) == capabilities[d][c].parent = Null

\* Mutant of allows: the candidate need not be a subset.
allows_any(issuer_operations, candidate) == candidate # {}

\* OperationSet::allows: a nonempty subset.
allows(issuer_operations, candidate) ==
  candidate # {} /\ candidate \subseteq issuer_operations

\* The walk meets no revoked row on its way to a row without a parent.
authorize_document(d, c, secret, operation) ==
  IF /\ c \in Held(d)
     /\ capabilities[d][c].verifier = secret
     /\ operation \in capabilities[d][c].operations
     /\ \E a \in Held(d) : IsRoot(d, a) /\ ReachesActive(d, c, a)
     /\ documents[d] # Null
  THEN IF documents[d].state = "active" THEN "Authorized" ELSE "Retired"
  ELSE "Denied"

authorize(d, c, secret, operation) ==
  authorize_document(d, c, secret, operation) = "Authorized"

\* Mutant of is_active_descendant: the arguments of the walk are swapped.
is_active_descendant_swapped(d, issuer, target) ==
  ReachesActive(d, issuer, target)

is_active_descendant(d, issuer, target) ==
  ReachesActive(d, target, issuer)

is_descendant_or_self(d, ancestor, candidate) ==
  candidate = ancestor \/ Reaches(d, candidate, ancestor)

\* Mutant of issuer_has_descendant_capacity: off by one, no room is left.
issuer_has_descendant_capacity_late(d, issuer) ==
  \E n \in 1..MAX_CAPABILITY_DEPTH :
    \E a \in Held(d) : IsRoot(d, a) /\ Walks(d, n, issuer, a) # {}

\* The issuer's own walk to the root leaves room for one more row.
issuer_has_descendant_capacity(d, issuer) ==
  \E n \in 1..(MAX_CAPABILITY_DEPTH - 1) :
    \E a \in Held(d) : IsRoot(d, a) /\ Walks(d, n, issuer, a) # {}

\* Mutant of Subtree: revoke marks its target alone.
Subtree_target_only(d, target) == Held(d) \cap {target}

\* The recursive query of revoke: the least set that holds the target and
\* the children of its members.  It has no depth bound.
Subtree(d, target) ==
  {c \in Held(d) :
     \A S \in SUBSET Held(d) :
       (target \in S /\ \A k \in S : Children(d, k) \subseteq S) => c \in S}

has_next_control_revision(d) ==
  /\ documents[d] # Null
  /\ documents[d].state = "active"
  /\ documents[d].control_revision < MAX_REVISION

\* Mutant of control_limits_exceeded: off by one at both limits.
control_limits_exceeded_late(d) ==
  \/ Cardinality(ReceiptsOf(d)) > MAX_CONTROL_RECEIPTS_PER_DOCUMENT
  \/ Cardinality(control_receipts) > MAX_GLOBAL_CONTROL_RECEIPTS

control_limits_exceeded(d) ==
  \/ Cardinality(ReceiptsOf(d)) >= MAX_CONTROL_RECEIPTS_PER_DOCUMENT
  \/ Cardinality(control_receipts) >= MAX_GLOBAL_CONTROL_RECEIPTS

capability_limits_exceeded(d, parent) ==
  \/ Cardinality(Children(d, parent)) >= MAX_DIRECT_CAPABILITY_CHILDREN
  \/ Cardinality(Held(d)) >= MAX_CAPABILITIES_PER_DOCUMENT
  \/ Cardinality(AllHeld) >= MAX_GLOBAL_CAPABILITIES
  \/ control_limits_exceeded(d)

create_limits_exceeded(a) ==
  \/ Cardinality(CreatedBy(a)) >= MAX_DOCUMENTS_PER_CREATE_AUTHORITY
  \/ Cardinality(Existing) >= MAX_GLOBAL_DOCUMENTS
  \/ Cardinality(create_receipts) >= MAX_GLOBAL_CREATE_RECEIPTS
  \/ Cardinality(AllHeld) >= MAX_GLOBAL_CAPABILITIES
----------------------------------------------------------------------------
\* Receipts answer before authority is looked at.

ControlKey(r, d, issuer, request) ==
  r.document = d /\ r.issuer = issuer /\ r.request = request

\* Mutant of resolve_control_receipt: the verifier of a revoked issuer no longer
\* answers for its receipts.
resolve_control_receipt_live(d, issuer, secret, request, input) ==
  LET found == {r \in control_receipts : ControlKey(r, d, issuer, request)}
      held  == issuer \in Held(d) /\ ~capabilities[d][issuer].revoked
  IN  IF found = {} THEN "Unresolved"
      ELSE IF ~held \/ capabilities[d][issuer].verifier # secret
           THEN "AuthorizationDenied"
      ELSE IF \E r \in found : r.input = input THEN "AlreadyPresent"
      ELSE "RequestConflict"

resolve_control_receipt(d, issuer, secret, request, input) ==
  LET found == {r \in control_receipts : ControlKey(r, d, issuer, request)}
  IN  IF found = {} THEN "Unresolved"
      ELSE IF issuer \notin Held(d) \/ capabilities[d][issuer].verifier # secret
           THEN "AuthorizationDenied"
      ELSE IF \E r \in found : r.input = input THEN "AlreadyPresent"
      ELSE "RequestConflict"

CreateKey(r, a, request) == r.authority = a /\ r.request = request

create_document_outcome(a, a_secret, request, d, root, secret) ==
  LET known   == create_authorities[a] # Null
      live    == known /\ create_authorities[a].live = a_secret
      receipt == known /\ create_authorities[a].receipt = a_secret
      found   == {r \in create_receipts : CreateKey(r, a, request)}
  IN  IF ~live /\ ~receipt THEN "AuthorizationDenied"
      ELSE IF found # {}
           THEN IF \/ ~receipt
                   \/ \A r \in found :
                        capabilities[r.document][r.root].verifier # secret
                THEN "AuthorizationDenied"
                ELSE IF \E r \in found :
                          r.document = d /\ r.root = root /\ r.verifier = secret
                THEN "AlreadyPresent"
                ELSE "RequestConflict"
      ELSE IF ~live THEN "AuthorizationDenied"
      ELSE IF documents[d] # Null
           THEN IF capabilities[d][documents[d].root].verifier = secret
                THEN "IdentifierConflict"
                ELSE "AuthorizationDenied"
      ELSE IF create_limits_exceeded(a) THEN "LimitExceeded"
      ELSE "Inserted"

\* Mutant of grant_capability_outcome: no check that the identifier is new.
grant_capability_outcome_reissuing(d, issuer, secret, request, input) ==
  LET resolved == resolve_control_receipt(d, issuer, secret, request, input)
  IN  IF input.operations = {} THEN "AuthorizationDenied"
      ELSE IF resolved # "Unresolved" THEN resolved
      ELSE IF \/ ~authorize(d, issuer, secret, "grant")
              \/ ~allows(capabilities[d][issuer].operations, input.operations)
           THEN "AuthorizationDenied"
      ELSE IF ~has_next_control_revision(d) THEN "CounterExhausted"
      ELSE IF \/ ~issuer_has_descendant_capacity(d, issuer)
              \/ capability_limits_exceeded(d, issuer)
           THEN "LimitExceeded"
      ELSE "Inserted"

grant_capability_outcome(d, issuer, secret, request, input) ==
  LET resolved == resolve_control_receipt(d, issuer, secret, request, input)
  IN  IF input.operations = {} THEN "AuthorizationDenied"
      ELSE IF resolved # "Unresolved" THEN resolved
      ELSE IF ~authorize(d, issuer, secret, "grant") THEN "AuthorizationDenied"
      ELSE IF ~has_next_control_revision(d) THEN "CounterExhausted"
      ELSE IF ~allows(capabilities[d][issuer].operations, input.operations)
           THEN "AuthorizationDenied"
      ELSE IF input.descendant \in Held(d) THEN "IdentifierConflict"
      ELSE IF \/ ~issuer_has_descendant_capacity(d, issuer)
              \/ capability_limits_exceeded(d, issuer)
           THEN "LimitExceeded"
      ELSE "Inserted"

revoke_capability_outcome(d, issuer, secret, request, input) ==
  LET resolved == resolve_control_receipt(d, issuer, secret, request, input)
  IN  IF resolved # "Unresolved" THEN resolved
      ELSE IF ~authorize(d, issuer, secret, "revoke") THEN "AuthorizationDenied"
      ELSE IF ~has_next_control_revision(d) THEN "CounterExhausted"
      ELSE IF ~is_active_descendant(d, issuer, input.target)
           THEN "AuthorizationDenied"
      ELSE IF control_limits_exceeded(d) THEN "LimitExceeded"
      ELSE "Inserted"
----------------------------------------------------------------------------
\* The transactions.

create_document(a, a_secret, request, d, root, secret) ==
  /\ running
  /\ create_document_outcome(a, a_secret, request, d, root, secret) = "Inserted"
  /\ documents' =
       [documents EXCEPT
          ![d] = [state |-> "active", control_revision |-> 1, root |-> root]]
  /\ capabilities' =
       [capabilities EXCEPT
          ![d][root] = [parent |-> Null, verifier |-> secret,
                        operations |-> Operations, revoked |-> FALSE,
                        created_revision |-> 1]]
  /\ create_receipts' =
       create_receipts \cup
         {[authority |-> a, request |-> request, document |-> d,
           root |-> root, verifier |-> secret]}
  /\ UNCHANGED <<control_receipts, create_authorities, running>>

insert_control_receipt(d, issuer, request, input) ==
  control_receipts' =
    control_receipts \cup
      {[document |-> d, issuer |-> issuer, request |-> request, input |-> input]}

\* Mutant of set_control_revision: the revision goes down.
set_control_revision_down(d) ==
  documents' = [documents EXCEPT ![d].control_revision = @ - 1]

set_control_revision(d) ==
  documents' = [documents EXCEPT ![d].control_revision = @ + 1]

grant_capability(d, issuer, secret, request, input) ==
  /\ running
  /\ grant_capability_outcome(d, issuer, secret, request, input) = "Inserted"
  /\ capabilities' =
       [capabilities EXCEPT
          ![d][input.descendant] =
             [parent |-> issuer, verifier |-> input.verifier,
              operations |-> input.operations, revoked |-> FALSE,
              created_revision |-> documents[d].control_revision + 1]]
  /\ insert_control_receipt(d, issuer, request, input)
  /\ set_control_revision(d)
  /\ UNCHANGED <<create_receipts, create_authorities, running>>

revoke_capability(d, issuer, secret, request, input) ==
  /\ running
  /\ revoke_capability_outcome(d, issuer, secret, request, input) = "Inserted"
  /\ capabilities' =
       [capabilities EXCEPT
          ![d] = [c \in CapabilityIds |->
                    IF c \in Subtree(d, input.target)
                    THEN [@[c] EXCEPT !.revoked = TRUE]
                    ELSE @[c]]]
  /\ insert_control_receipt(d, issuer, request, input)
  /\ set_control_revision(d)
  /\ UNCHANGED <<create_receipts, create_authorities, running>>

\* Retirement has no caller outside the store's tests, but every operation
\* handles the retired state.
commit_retirement(d) ==
  /\ running
  /\ documents[d] # Null
  /\ documents[d].state = "active"
  /\ documents' = [documents EXCEPT ![d].state = "retired"]
  /\ UNCHANGED <<capabilities, control_receipts, create_receipts,
                 create_authorities, running>>
----------------------------------------------------------------------------
\* Recovery: what DurableUpdateStore::validate demands of the control tables.

validate_create_state ==
  /\ Cardinality(Existing) = Cardinality(create_receipts)
  /\ Cardinality(Existing) <= MAX_GLOBAL_DOCUMENTS
  /\ Cardinality(create_receipts) <= MAX_GLOBAL_CREATE_RECEIPTS
  /\ \A r \in create_receipts :
       /\ r.root \in Held(r.document)
       /\ IsRoot(r.document, r.root)
       /\ capabilities[r.document][r.root].verifier = r.verifier
       /\ Cardinality(CreatedBy(r.authority)) <= MAX_DOCUMENTS_PER_CREATE_AUTHORITY

validate_root(d) ==
  LET root == documents[d].root
  IN  /\ root \in Held(d)
      /\ \A c \in Held(d) : IsRoot(d, c) <=> c = root
      /\ capabilities[d][root].created_revision = 1
      /\ capabilities[d][root].operations = Operations

\* One step of the ancestry walk.
ValidLink(d, c) ==
  LET row    == capabilities[d][c]
      parent == capabilities[d][row.parent]
  IN  row.parent # Null =>
        /\ row.parent \in Held(d)
        /\ parent.created_revision < row.created_revision
        /\ allows(parent.operations, row.operations)
        /\ parent.revoked => row.revoked

validate_capability_ancestry(d, c) ==
  /\ capabilities[d][c].created_revision <= documents[d].control_revision
  /\ ValidLink(d, c)
  /\ Reaches(d, c, documents[d].root)

validate_control_receipt(r) ==
  LET d == r.document
  IN  /\ r.issuer \in Held(d)
      /\ r.input.operation = "grant" =>
           /\ r.input.descendant \in Held(d)
           /\ capabilities[d][r.input.descendant].parent = r.issuer
           /\ capabilities[d][r.input.descendant].verifier = r.input.verifier
           /\ capabilities[d][r.input.descendant].operations = r.input.operations
           /\ r.input.operations # {}
      /\ r.input.operation = "revoke" =>
           /\ r.input.target \in Held(d)
           /\ capabilities[d][r.input.target].revoked

validate_document(d) ==
  /\ Cardinality(Held(d)) <= MAX_CAPABILITIES_PER_DOCUMENT
  /\ \A c \in Held(d) :
       /\ Cardinality(Children(d, c)) <= MAX_DIRECT_CAPABILITY_CHILDREN
       /\ capabilities[d][c].operations # {}
       /\ validate_capability_ancestry(d, c)
  /\ validate_root(d)
  /\ \A r \in ReceiptsOf(d) : validate_control_receipt(r)
  /\ Cardinality(ReceiptsOf(d)) <= MAX_CONTROL_RECEIPTS_PER_DOCUMENT
  /\ documents[d].control_revision = Cardinality(ReceiptsOf(d)) + 1

validate_capability_state ==
  /\ \A d \in Existing : validate_document(d)
  /\ Cardinality(AllHeld) <= MAX_GLOBAL_CAPABILITIES
  /\ Cardinality(control_receipts) <= MAX_GLOBAL_CONTROL_RECEIPTS

\* The foreign keys, checked before the semantic validation.
validate_foreign_keys ==
  /\ \A d \in Documents : Held(d) # {} => d \in Existing
  /\ \A r \in control_receipts : r.document \in Existing
  /\ \A r \in create_receipts :
       r.document \in Existing /\ create_authorities[r.authority] # Null

validate == validate_foreign_keys /\ validate_create_state /\ validate_capability_state

Crash ==
  /\ running
  /\ running' = FALSE
  /\ UNCHANGED <<documents, capabilities, control_receipts, create_receipts,
                 create_authorities>>

\* Opening fails, and the process exits, when the validation fails or when the
\* configured authority disagrees with the provisioned one.
Open(a, provision) ==
  /\ ~running
  /\ validate
  /\ create_authorities[a] \in {Null, provision}
  /\ create_authorities' = [create_authorities EXCEPT ![a] = provision]
  /\ running' = TRUE
  /\ UNCHANGED <<documents, capabilities, control_receipts, create_receipts>>
----------------------------------------------------------------------------
Init ==
  /\ documents = [d \in Documents |-> Null]
  /\ capabilities = [d \in Documents |-> [c \in CapabilityIds |-> Null]]
  /\ control_receipts = {}
  /\ create_receipts = {}
  /\ create_authorities = [a \in CreateAuthorities |-> Null]
  /\ running = FALSE

Create ==
  \E a \in CreateAuthorities, s \in Authenticators, q \in RequestIds,
     d \in Documents, c \in CapabilityIds, t \in Authenticators :
    create_document(a, s, q, d, c, t)

Grant ==
  \E d \in Documents, c \in CapabilityIds, s \in Authenticators,
     q \in RequestIds, input \in GrantInput :
    grant_capability(d, c, s, q, input)

Revoke ==
  \E d \in Documents, c \in CapabilityIds, s \in Authenticators,
     q \in RequestIds, input \in RevokeInput :
    revoke_capability(d, c, s, q, input)

Retire == \E d \in Documents : commit_retirement(d)

Restart == \E a \in CreateAuthorities, p \in CreateAuthority : Open(a, p)

Next == Create \/ Grant \/ Revoke \/ Retire \/ Crash \/ Restart

Spec == Init /\ [][Next]_vars
----------------------------------------------------------------------------
\* The tables keep the column types of the schema.
TypeOK ==
  /\ documents \in [Documents -> Document \cup {Null}]
  /\ capabilities \in [Documents -> [CapabilityIds -> Capability \cup {Null}]]
  /\ control_receipts \subseteq ControlReceipt /\ IsFiniteSet(control_receipts)
  /\ create_receipts \subseteq CreateReceipt /\ IsFiniteSet(create_receipts)
  /\ create_authorities \in [CreateAuthorities -> CreateAuthority \cup {Null}]
  /\ running \in BOOLEAN

\* Whatever sequence of transactions committed before a crash, the validation
\* that open runs accepts the tables: the store never refuses to start on a
\* state it wrote itself.
RecoveryAccepts == validate

\* A delegated capability is accounted for by exactly one grant receipt of its
\* parent, which recovery alone does not check.
GrantsAccounted ==
  \A d \in Documents : \A c \in Held(d) :
    ~IsRoot(d, c) =>
      \E r \in ReceiptsOf(d) :
        /\ r.issuer = capabilities[d][c].parent
        /\ \A other \in ReceiptsOf(d) :
             (other.input.operation = "grant" /\ other.input.descendant = c)
               <=> other = r

\* An exact retry of a committed create, grant or revoke answers AlreadyPresent,
\* and the same request identifier with other input answers RequestConflict,
\* also after the issuer was revoked, the document retired or the store
\* reopened.
ExactRetry ==
  /\ \A r \in control_receipts :
       LET secret == capabilities[r.document][r.issuer].verifier
           expected(input) ==
             IF r.input = input THEN "AlreadyPresent" ELSE "RequestConflict"
       IN  /\ \A input \in GrantInput :
                input.operations # {} =>
                  grant_capability_outcome(r.document, r.issuer, secret, r.request, input)
                    = expected(input)
           /\ \A input \in RevokeInput :
                revoke_capability_outcome(r.document, r.issuer, secret, r.request, input)
                  = expected(input)
  /\ \A r \in create_receipts :
       create_document_outcome(r.authority, create_authorities[r.authority].receipt,
                               r.request, r.document, r.root, r.verifier)
         = "AlreadyPresent"

\* A capability that may use an operation holds it from its ancestors: every
\* row between it and the root may use the operation too.
AuthorityConfined ==
  \A d \in Documents : \A c, a \in Held(d) : \A o \in Operations :
    /\ authorize(d, c, capabilities[d][c].verifier, o)
    /\ Reaches(d, c, a)
    => authorize(d, a, capabilities[d][a].verifier, o)

\* The unbounded recursive query that revokes rows and the bounded walk that
\* selects the subscriptions and passes to end agree on every subtree.
SubtreeIsWalk ==
  \A d \in Documents : \A t, c \in Held(d) :
    c \in Subtree(d, t) <=> is_descendant_or_self(d, t, c)

\* Authority that a capability lacks never comes back: not by granting its
\* identifier again, not by a retry, not by a restart.
AuthorityNeverReturns ==
  [][\A d \in Documents : \A c \in Held(d) : \A s \in Authenticators :
       \A o \in Operations :
         ~authorize(d, c, s, o) => ~authorize(d, c, s, o)']_vars

\* A revocation takes authority from the subtree of its target and from no
\* other capability, and the issuer is an ancestor of whatever it takes.
RevocationConfined ==
  [][\A r \in control_receipts' \ control_receipts : \A c \in Held(r.document) :
       capabilities'[r.document][c].revoked # capabilities[r.document][c].revoked
         => /\ r.input.operation = "revoke"
            /\ is_descendant_or_self(r.document, r.input.target, c)
            /\ is_descendant_or_self(r.document, r.issuer, c)]_vars
============================================================================
