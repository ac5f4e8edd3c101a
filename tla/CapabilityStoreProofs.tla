----------------------- MODULE CapabilityStoreProofs -----------------------
(***************************************************************************)
(* Proofs about CapabilityStore, for every value of its constants: the     *)
(* tables keep their types, and recovery accepts every state the store     *)
(* writes: TypeOK /\ validate is inductive.                                *)
(***************************************************************************)
EXTENDS CapabilityStore, FiniteSetTheorems, TLAPS

\* A capability row and a document row are records with these fields.
LEMMA RowTypes ==
  ASSUME TypeOK
  PROVE  /\ \A d \in Existing :
              /\ documents[d] \in Document
              /\ documents[d].state \in {"active", "retired"}
              /\ documents[d].control_revision \in 1..MAX_REVISION
              /\ documents[d].root \in CapabilityIds
         /\ \A d \in Documents : \A c \in Held(d) :
              /\ capabilities[d][c] \in Capability
              /\ capabilities[d][c].parent \in CapabilityIds \cup {Null}
              /\ capabilities[d][c].verifier \in Authenticators
              /\ capabilities[d][c].operations \in SUBSET Operations
              /\ capabilities[d][c].revoked \in BOOLEAN
              /\ capabilities[d][c].created_revision \in 1..MAX_REVISION
<1>1. \A d \in Existing : documents[d] \in Document
  BY DEF TypeOK, Existing
<1>2. \A d \in Documents : \A c \in Held(d) : capabilities[d][c] \in Capability
  BY DEF TypeOK, Held
<1>3. QED
  BY <1>1, <1>2 DEF Document, Capability

\* The types hold at first, and every action keeps them.
LEMMA InitType == Init => TypeOK
<1>1. IsFiniteSet({})
  BY FS_EmptySet
<1>2. QED
  BY <1>1 DEF Init, TypeOK

LEMMA CreateType ==
  ASSUME TypeOK, Create
  PROVE  TypeOK'
<1>1. PICK a \in CreateAuthorities, s \in Authenticators, q \in RequestIds,
           d \in Documents, c \in CapabilityIds, t \in Authenticators :
             create_document(a, s, q, d, c, t)
  BY DEF Create
<1> DEFINE doc == [state |-> "active", control_revision |-> 1, root |-> c]
           row == [parent |-> Null, verifier |-> t, operations |-> Operations,
                   revoked |-> FALSE, created_revision |-> 1]
           receipt == [authority |-> a, request |-> q, document |-> d,
                       root |-> c, verifier |-> t]
<1>2. 1 \in 1..MAX_REVISION
  BY RevisionAssumption, LimitsAssumption DEF Limits
<1>3. doc \in Document /\ row \in Capability /\ receipt \in CreateReceipt
  BY <1>2 DEF Document, Capability, CreateReceipt
<1>4. /\ documents' = [documents EXCEPT ![d] = doc]
      /\ capabilities' = [capabilities EXCEPT ![d][c] = row]
      /\ create_receipts' = create_receipts \cup {receipt}
      /\ UNCHANGED <<control_receipts, create_authorities, running>>
  BY <1>1 DEF create_document
<1> HIDE DEF doc, row, receipt
<1>5. IsFiniteSet(create_receipts')
  BY <1>4, FS_AddElement DEF TypeOK
<1>6. documents' \in [Documents -> Document \cup {Null}]
  BY <1>3, <1>4 DEF TypeOK
<1>7. capabilities' \in [Documents -> [CapabilityIds -> Capability \cup {Null}]]
  BY <1>3, <1>4 DEF TypeOK
<1>8. QED
  BY <1>3, <1>4, <1>5, <1>6, <1>7 DEF TypeOK

\* What the guards of grant and revoke say about the state they run in.
LEMMA GrantGuard ==
  ASSUME NEW d \in Documents, NEW i \in CapabilityIds, NEW s \in Authenticators,
         NEW q \in RequestIds, NEW input \in GrantInput,
         grant_capability_outcome(d, i, s, q, input) = "Inserted"
  PROVE  /\ input.operations # {}
         /\ \A r \in control_receipts : ~ControlKey(r, d, i, q)
         /\ authorize(d, i, s, "grant")
         /\ has_next_control_revision(d)
         /\ allows(capabilities[d][i].operations, input.operations)
         /\ input.descendant \notin Held(d)
         /\ issuer_has_descendant_capacity(d, i)
         /\ ~capability_limits_exceeded(d, i)
<1>1. resolve_control_receipt(d, i, s, q, input) = "Unresolved"
  BY DEF grant_capability_outcome, resolve_control_receipt
<1>2. \A r \in control_receipts : ~ControlKey(r, d, i, q)
  BY <1>1 DEF resolve_control_receipt
<1>3. QED
  BY <1>1, <1>2 DEF grant_capability_outcome

\* What a revocation that changes state has passed.
LEMMA RevokeGuard ==
  ASSUME NEW d \in Documents, NEW i \in CapabilityIds, NEW s \in Authenticators,
         NEW q \in RequestIds, NEW input \in RevokeInput,
         revoke_capability_outcome(d, i, s, q, input) = "Inserted"
  PROVE  /\ \A r \in control_receipts : ~ControlKey(r, d, i, q)
         /\ authorize(d, i, s, "revoke")
         /\ has_next_control_revision(d)
         /\ is_active_descendant(d, i, input.target)
         /\ ~control_limits_exceeded(d)
<1>1. resolve_control_receipt(d, i, s, q, input) = "Unresolved"
  BY DEF revoke_capability_outcome, resolve_control_receipt
<1>2. \A r \in control_receipts : ~ControlKey(r, d, i, q)
  BY <1>1 DEF resolve_control_receipt
<1>3. QED
  BY <1>1, <1>2 DEF revoke_capability_outcome

\* What a creation that changes state has passed.
LEMMA CreateGuard ==
  ASSUME NEW a, NEW as, NEW q, NEW d \in Documents, NEW root, NEW s,
         create_document_outcome(a, as, q, d, root, s) = "Inserted"
  PROVE  /\ create_authorities[a] # Null
         /\ \A r \in create_receipts : ~CreateKey(r, a, q)
         /\ documents[d] = Null
         /\ ~create_limits_exceeded(a)
BY DEF create_document_outcome

\* An authorized capability is a row of an active document.
LEMMA AuthorizedRow ==
  ASSUME NEW d \in Documents, NEW c, NEW s, NEW o, authorize(d, c, s, o)
  PROVE  c \in Held(d) /\ documents[d] # Null /\ documents[d].state = "active"
BY DEF authorize, authorize_document

\* A revision does not overflow.
LEMMA NextRevisionType ==
  ASSUME TypeOK, NEW d \in Documents, has_next_control_revision(d)
  PROVE  /\ d \in Existing
         /\ documents[d].control_revision \in Nat \ {0}
         /\ documents[d].control_revision + 1 \in 1..MAX_REVISION
         /\ [documents[d] EXCEPT !.control_revision = @ + 1] \in Document
<1>1. d \in Existing
  BY DEF has_next_control_revision, Existing
<1>2. /\ documents[d] \in Document
      /\ documents[d].control_revision \in 1..MAX_REVISION
  BY <1>1, RowTypes
<1>3. documents[d].control_revision + 1 \in 1..MAX_REVISION
  BY <1>2, RevisionAssumption DEF has_next_control_revision
<1>4. [documents[d] EXCEPT !.control_revision = @ + 1] \in Document
  BY <1>2, <1>3 DEF Document
<1>5. QED
  BY <1>1, <1>2, <1>3, <1>4, RevisionAssumption

LEMMA GrantType ==
  ASSUME TypeOK, Grant
  PROVE  TypeOK'
<1>1. PICK d \in Documents, i \in CapabilityIds, s \in Authenticators,
           q \in RequestIds, input \in GrantInput :
             grant_capability(d, i, s, q, input)
  BY DEF Grant
<1> DEFINE row == [parent |-> i, verifier |-> input.verifier,
                   operations |-> input.operations, revoked |-> FALSE,
                   created_revision |-> documents[d].control_revision + 1]
           receipt == [document |-> d, issuer |-> i, request |-> q, input |-> input]
           doc == [documents[d] EXCEPT !.control_revision = @ + 1]
<1>2. has_next_control_revision(d)
  BY <1>1, GrantGuard DEF grant_capability
<1>3. doc \in Document /\ row \in Capability /\ receipt \in ControlReceipt
  BY <1>2, NextRevisionType DEF Capability, ControlReceipt, GrantInput
<1>4. /\ documents' = [documents EXCEPT ![d] = doc]
      /\ capabilities' = [capabilities EXCEPT ![d][input.descendant] = row]
      /\ control_receipts' = control_receipts \cup {receipt}
      /\ UNCHANGED <<create_receipts, create_authorities, running>>
  BY <1>1 DEF grant_capability, insert_control_receipt, set_control_revision, TypeOK
<1>5. input.descendant \in CapabilityIds
  BY DEF GrantInput
<1> HIDE DEF doc, row, receipt
<1>6. IsFiniteSet(control_receipts')
  BY <1>4, FS_AddElement DEF TypeOK
<1>7. documents' \in [Documents -> Document \cup {Null}]
  BY <1>3, <1>4 DEF TypeOK
<1>8. capabilities' \in [Documents -> [CapabilityIds -> Capability \cup {Null}]]
  BY <1>3, <1>4, <1>5 DEF TypeOK
<1>9. QED
  BY <1>3, <1>4, <1>6, <1>7, <1>8 DEF TypeOK

LEMMA RevokeType ==
  ASSUME TypeOK, Revoke
  PROVE  TypeOK'
<1>1. PICK d \in Documents, i \in CapabilityIds, s \in Authenticators,
           q \in RequestIds, input \in RevokeInput :
             revoke_capability(d, i, s, q, input)
  BY DEF Revoke
<1> DEFINE rows == [c \in CapabilityIds |->
                      IF c \in Subtree(d, input.target)
                      THEN [capabilities[d][c] EXCEPT !.revoked = TRUE]
                      ELSE capabilities[d][c]]
           receipt == [document |-> d, issuer |-> i, request |-> q, input |-> input]
           doc == [documents[d] EXCEPT !.control_revision = @ + 1]
<1>2. has_next_control_revision(d)
  BY <1>1, RevokeGuard DEF revoke_capability
<1>3. doc \in Document /\ receipt \in ControlReceipt
  BY <1>2, NextRevisionType DEF ControlReceipt
<1>4. rows \in [CapabilityIds -> Capability \cup {Null}]
  <2>1. \A c \in Subtree(d, input.target) :
          [capabilities[d][c] EXCEPT !.revoked = TRUE] \in Capability
    BY RowTypes DEF Subtree, Capability
  <2>2. capabilities[d] \in [CapabilityIds -> Capability \cup {Null}]
    BY DEF TypeOK
  <2>3. QED
    BY <2>1, <2>2
<1>5. /\ documents' = [documents EXCEPT ![d] = doc]
      /\ capabilities' = [capabilities EXCEPT ![d] = rows]
      /\ control_receipts' = control_receipts \cup {receipt}
      /\ UNCHANGED <<create_receipts, create_authorities, running>>
  BY <1>1 DEF revoke_capability, insert_control_receipt, set_control_revision, TypeOK
<1> HIDE DEF doc, rows, receipt
<1>6. IsFiniteSet(control_receipts')
  BY <1>5, FS_AddElement DEF TypeOK
<1>7. documents' \in [Documents -> Document \cup {Null}]
  BY <1>3, <1>5 DEF TypeOK
<1>8. capabilities' \in [Documents -> [CapabilityIds -> Capability \cup {Null}]]
  BY <1>4, <1>5 DEF TypeOK
<1>9. QED
  BY <1>3, <1>5, <1>6, <1>7, <1>8 DEF TypeOK

LEMMA OtherType ==
  ASSUME TypeOK, Retire \/ Crash \/ Restart \/ UNCHANGED vars
  PROVE  TypeOK'
<1>1. ASSUME NEW d \in Documents, commit_retirement(d) PROVE TypeOK'
  <2>1. [documents[d] EXCEPT !.state = "retired"] \in Document
    BY <1>1, RowTypes DEF commit_retirement, Existing, Document
  <2>2. documents' \in [Documents -> Document \cup {Null}]
    BY <1>1, <2>1 DEF commit_retirement, TypeOK
  <2>3. QED
    BY <1>1, <2>2 DEF commit_retirement, TypeOK
<1>2. ASSUME Crash PROVE TypeOK'
  BY <1>2 DEF Crash, TypeOK
<1>3. ASSUME NEW a \in CreateAuthorities, NEW p \in CreateAuthority, Open(a, p)
      PROVE  TypeOK'
  BY <1>3 DEF Open, TypeOK
<1>4. ASSUME UNCHANGED vars PROVE TypeOK'
  BY <1>4 DEF vars, TypeOK
<1>5. QED
  BY <1>1, <1>2, <1>3, <1>4 DEF Retire, Restart

\* Every reachable state has the column types of the schema: no revision
\* overflows its width and no receipt names an identifier of another kind.
THEOREM TypeCorrect == Spec => []TypeOK
<1>1. TypeOK /\ [Next]_vars => TypeOK'
  BY CreateType, GrantType, RevokeType, OtherType DEF Next
<1>2. QED
  BY InitType, <1>1, PTL DEF Spec
----------------------------------------------------------------------------
\* The tables are finite, so that rows can be counted.
LEMMA TablesFinite ==
  ASSUME TypeOK
  PROVE  /\ IsFiniteSet(Existing)
         /\ IsFiniteSet(AllHeld)
         /\ IsFiniteSet(control_receipts)
         /\ IsFiniteSet(create_receipts)
         /\ \A d \in Documents : /\ IsFiniteSet(Held(d))
                                 /\ IsFiniteSet(ReceiptsOf(d))
                                 /\ \A c : IsFiniteSet(Children(d, c))
         /\ \A a : IsFiniteSet(CreatedBy(a))
<1>1. IsFiniteSet(control_receipts) /\ IsFiniteSet(create_receipts)
  BY DEF TypeOK
<1>2. Existing \subseteq Documents
  BY DEF Existing
<1>3. IsFiniteSet(Existing)
  BY <1>2, IdentifiersFinite, FS_Subset
<1>4. IsFiniteSet(Documents \X CapabilityIds)
  BY IdentifiersFinite, FS_Product
<1>5. AllHeld \subseteq Documents \X CapabilityIds
  BY DEF AllHeld
<1>6. IsFiniteSet(AllHeld)
  BY <1>4, <1>5, FS_Subset
<1>7. ASSUME NEW d \in Documents
      PROVE  /\ IsFiniteSet(Held(d))
             /\ IsFiniteSet(ReceiptsOf(d))
             /\ \A c : IsFiniteSet(Children(d, c))
  <2>1. Held(d) \subseteq CapabilityIds
    BY DEF Held
  <2>2. IsFiniteSet(Held(d))
    BY <2>1, IdentifiersFinite, FS_Subset
  <2>3. ReceiptsOf(d) \subseteq control_receipts
    BY DEF ReceiptsOf
  <2>4. IsFiniteSet(ReceiptsOf(d))
    BY <2>3, <1>1, FS_Subset
  <2>5. ASSUME NEW c PROVE IsFiniteSet(Children(d, c))
    <3>1. Children(d, c) \subseteq Held(d)
      BY DEF Children
    <3>2. QED
      BY <3>1, <2>2, FS_Subset
  <2>6. QED
    BY <2>2, <2>4, <2>5
<1>8. ASSUME NEW a PROVE IsFiniteSet(CreatedBy(a))
  <2>1. CreatedBy(a) \subseteq create_receipts
    BY DEF CreatedBy
  <2>2. QED
    BY <2>1, <1>1, FS_Subset
<1>9. QED
  BY <1>1, <1>3, <1>6, <1>7, <1>8

\* Inserting one row keeps a count within a limit it had not reached.
LEMMA CountInsert ==
  ASSUME NEW S, IsFiniteSet(S), NEW x, x \notin S,
         NEW limit \in Nat, ~(Cardinality(S) >= limit)
  PROVE  /\ Cardinality(S \cup {x}) = Cardinality(S) + 1
         /\ Cardinality(S \cup {x}) <= limit
<1>1. Cardinality(S) \in Nat
  BY FS_CardinalityType
<1>2. Cardinality(S \cup {x}) = Cardinality(S) + 1
  BY FS_AddElement
<1>3. QED
  BY <1>1, <1>2

\* An empty database is accepted.
LEMMA InitValid == Init => validate
<1> SUFFICES ASSUME Init PROVE validate
  OBVIOUS
<1>1. /\ Existing = {} /\ AllHeld = {} /\ control_receipts = {} /\ create_receipts = {}
      /\ \A d \in Documents : Held(d) = {}
  BY DEF Init, Existing, AllHeld, Held
<1>2. Cardinality({}) = 0
  BY FS_EmptySet
<1>3. /\ 0 <= MAX_GLOBAL_DOCUMENTS /\ 0 <= MAX_GLOBAL_CREATE_RECEIPTS
      /\ 0 <= MAX_GLOBAL_CAPABILITIES /\ 0 <= MAX_GLOBAL_CONTROL_RECEIPTS
  BY LimitsAssumption DEF Limits
<1>4. QED
  BY <1>1, <1>2, <1>3 DEF validate, validate_foreign_keys, validate_create_state,
     validate_capability_state

\* A document whose rows, receipts, root and revision a step leaves alone
\* stays valid.
LEMMA DocumentFrame ==
  ASSUME NEW d \in Documents, validate_document(d),
         capabilities'[d] = capabilities[d],
         ReceiptsOf(d)' = ReceiptsOf(d),
         documents'[d].root = documents[d].root,
         documents'[d].control_revision = documents[d].control_revision
  PROVE  validate_document(d)'
<1>1. Held(d)' = Held(d)
  BY DEF Held
<1>2. \A c \in Held(d) : Children(d, c)' = Children(d, c)
  BY <1>1 DEF Children
<1>3. \A c \in Held(d) : Reaches(d, c, documents[d].root)
                          => Reaches(d, c, documents[d].root)'
  BY <1>1 DEF Reaches, Walks
<1>4. \A c \in Held(d) : validate_capability_ancestry(d, c)'
  BY <1>1, <1>3 DEF validate_document, validate_capability_ancestry, ValidLink
<1>5. validate_root(d)'
  BY <1>1 DEF validate_document, validate_root, IsRoot
<1>6. \A r \in ReceiptsOf(d) : validate_control_receipt(r)'
  BY <1>1 DEF validate_document, validate_control_receipt, ReceiptsOf
<1>7. QED
  BY <1>1, <1>2, <1>4, <1>5, <1>6 DEF validate_document

\* Retirement, a crash, a restart and a stuttering step touch nothing that
\* recovery looks at, except that a restart may provision an authority.
LEMMA OtherValid ==
  ASSUME TypeOK, validate, Retire \/ Crash \/ Restart \/ UNCHANGED vars
  PROVE  validate'
<1> DEFINE Frame ==
      /\ UNCHANGED <<capabilities, control_receipts, create_receipts>>
      /\ Existing' = Existing
      /\ \A d \in Existing : /\ documents'[d].root = documents[d].root
                              /\ documents'[d].control_revision
                                   = documents[d].control_revision
      /\ \A a \in CreateAuthorities :
           create_authorities[a] # Null => create_authorities'[a] # Null
<1>1. Frame
  <2>1. ASSUME NEW d \in Documents, commit_retirement(d) PROVE Frame
    <3>1. [documents[d] EXCEPT !.state = "retired"] \in Document
      BY <2>1, RowTypes DEF commit_retirement, Existing, Document
    <3>2. documents' = [documents EXCEPT ![d] = [documents[d] EXCEPT !.state = "retired"]]
      BY <2>1 DEF commit_retirement, TypeOK
    <3>3. /\ [documents[d] EXCEPT !.state = "retired"].root = documents[d].root
          /\ [documents[d] EXCEPT !.state = "retired"].control_revision
               = documents[d].control_revision
      BY <2>1, RowTypes DEF commit_retirement, Existing, Document
    <3>4. Existing' = Existing
      BY <2>1, <3>1, <3>2, NullAssumption DEF commit_retirement, Existing, TypeOK
    <3>5. \A e \in Existing : /\ documents'[e].root = documents[e].root
                              /\ documents'[e].control_revision
                                   = documents[e].control_revision
      BY <3>2, <3>3 DEF TypeOK, Existing
    <3>6. QED
      BY <2>1, <3>4, <3>5 DEF commit_retirement
  <2>2. ASSUME Crash \/ UNCHANGED vars PROVE Frame
    BY <2>2 DEF Crash, vars, Existing
  <2>3. ASSUME NEW a \in CreateAuthorities, NEW p \in CreateAuthority, Open(a, p)
        PROVE  Frame
    BY <2>3, NullAssumption DEF Open, Existing, TypeOK
  <2>4. QED
    BY <2>1, <2>2, <2>3 DEF Retire, Restart
<1>2. /\ \A d \in Documents : Held(d)' = Held(d) /\ ReceiptsOf(d)' = ReceiptsOf(d)
      /\ AllHeld' = AllHeld
      /\ \A a : CreatedBy(a)' = CreatedBy(a)
  BY <1>1 DEF Held, ReceiptsOf, AllHeld, CreatedBy
<1>3. \A d \in Existing : validate_document(d)'
  BY <1>1, <1>2, DocumentFrame DEF validate, validate_capability_state, Existing
<1>4. validate_capability_state'
  BY <1>1, <1>2, <1>3 DEF validate, validate_capability_state
<1>5. \A r \in create_receipts : r.authority \in CreateAuthorities /\ r.document \in Documents
  BY DEF TypeOK, CreateReceipt
<1>6. validate_create_state'
  BY <1>1, <1>2, <1>5 DEF validate, validate_create_state, IsRoot
<1>7. validate_foreign_keys'
  BY <1>1, <1>2, <1>5 DEF validate, validate_foreign_keys
<1>8. QED
  BY <1>4, <1>6, <1>7 DEF validate

\* A created document is valid, and the documents, receipts and capabilities
\* of the others are not touched.
LEMMA CreateValid ==
  ASSUME TypeOK, validate, Create
  PROVE  validate'
<1>1. PICK a \in CreateAuthorities, s \in Authenticators, q \in RequestIds,
           d \in Documents, c \in CapabilityIds, t \in Authenticators :
             create_document(a, s, q, d, c, t)
  BY DEF Create
<1> DEFINE doc == [state |-> "active", control_revision |-> 1, root |-> c]
           row == [parent |-> Null, verifier |-> t, operations |-> Operations,
                   revoked |-> FALSE, created_revision |-> 1]
           receipt == [authority |-> a, request |-> q, document |-> d,
                       root |-> c, verifier |-> t]
<1>2. /\ documents' = [documents EXCEPT ![d] = doc]
      /\ capabilities' = [capabilities EXCEPT ![d][c] = row]
      /\ create_receipts' = create_receipts \cup {receipt}
      /\ UNCHANGED <<control_receipts, create_authorities>>
  BY <1>1 DEF create_document
<1>3. /\ create_authorities[a] # Null
      /\ \A r \in create_receipts : ~CreateKey(r, a, q)
      /\ documents[d] = Null
      /\ ~create_limits_exceeded(a)
  BY <1>1, CreateGuard DEF create_document
<1>4. /\ 1 \in 1..MAX_REVISION /\ 1 \in 1..MAX_CAPABILITY_DEPTH
      /\ Limits \subseteq Nat /\ 1 <= MAX_CAPABILITIES_PER_DOCUMENT
      /\ 0 <= MAX_DIRECT_CAPABILITY_CHILDREN
      /\ 0 <= MAX_CONTROL_RECEIPTS_PER_DOCUMENT
  BY RevisionAssumption, LimitsAssumption DEF Limits
<1>5. doc \in Document /\ row \in Capability
  BY <1>4 DEF Document, Capability
<1>6. doc # Null /\ row # Null /\ c # Null
  BY <1>5, NullAssumption
<1>7. /\ Existing' = Existing \cup {d} /\ d \notin Existing
      /\ documents'[d] = doc
      /\ \A e \in Existing : documents'[e] = documents[e]
  BY <1>2, <1>3, <1>6 DEF Existing, TypeOK
<1>8. Held(d) = {} /\ ReceiptsOf(d) = {}
  BY <1>7 DEF validate, validate_foreign_keys, ReceiptsOf
<1>9. /\ capabilities'[d][c] = row
      /\ \A e \in Documents : e # d => capabilities'[e] = capabilities[e]
      /\ \A k \in CapabilityIds : k # c => capabilities'[d][k] = capabilities[d][k]
  BY <1>2 DEF TypeOK
<1>10. /\ Held(d)' = {c}
       /\ \A e \in Documents : e # d => Held(e)' = Held(e)
  BY <1>6, <1>8, <1>9 DEF Held
<1>11. AllHeld' = AllHeld \cup {<<d, c>>} /\ <<d, c>> \notin AllHeld
  <2>1. \A k \in Documents \X CapabilityIds :
          capabilities'[k[1]][k[2]] # Null
            <=> capabilities[k[1]][k[2]] # Null \/ k = <<d, c>>
    BY <1>6, <1>9
  <2>2. capabilities[d][c] = Null
    BY <1>8 DEF Held
  <2>3. QED
    BY <2>1, <2>2 DEF AllHeld
<1>12. \A e \in Documents : ReceiptsOf(e)' = ReceiptsOf(e)
  BY <1>2 DEF ReceiptsOf
<1>13. validate_document(d)'
  <2>1. Cardinality({c}) = 1 /\ Cardinality({}) = 0
    BY FS_Singleton, FS_EmptySet
  <2>2. Children(d, c)' = {}
    BY <1>6, <1>9, <1>10 DEF Children
  <2>3. Reaches(d, c, c)'
    <3>1. [j \in 1..1 |-> c] \in Walks(d, 1, c, c)'
      BY <1>10 DEF Walks
    <3>2. QED
      BY <3>1, <1>4 DEF Reaches
  <2>4. validate_capability_ancestry(d, c)'
    BY <1>7, <1>9, <2>3 DEF validate_capability_ancestry, ValidLink
  <2>5. validate_root(d)'
    BY <1>7, <1>9, <1>10 DEF validate_root, IsRoot
  <2>6. ReceiptsOf(d)' = {}
    BY <1>8, <1>12
  <2>7. Operations # {}
    BY OperationsAssumption
  <2>8. \A k \in Held(d)' :
          /\ Cardinality(Children(d, k)') <= MAX_DIRECT_CAPABILITY_CHILDREN
          /\ capabilities'[d][k].operations # {}
          /\ validate_capability_ancestry(d, k)'
    BY <1>4, <1>9, <1>10, <2>1, <2>2, <2>4, <2>7
  <2>9. /\ Cardinality(Held(d)') <= MAX_CAPABILITIES_PER_DOCUMENT
        /\ Cardinality(ReceiptsOf(d)') <= MAX_CONTROL_RECEIPTS_PER_DOCUMENT
        /\ documents'[d].control_revision = Cardinality(ReceiptsOf(d)') + 1
    BY <1>4, <1>7, <1>10, <2>1, <2>6
  <2>10. QED
    BY <2>5, <2>6, <2>8, <2>9 DEF validate_document
<1>14. \A e \in Existing : validate_document(e)'
  BY <1>7, <1>9, <1>12, DocumentFrame DEF validate, validate_capability_state, Existing
<1>15. validate_capability_state'
  <2>1. Cardinality(AllHeld') <= MAX_GLOBAL_CAPABILITIES
    BY <1>3, <1>4, <1>11, TablesFinite, CountInsert DEF create_limits_exceeded, Limits
  <2>2. QED
    BY <1>2, <1>7, <1>13, <1>14, <2>1 DEF validate, validate_capability_state
<1>16. receipt \notin create_receipts
  BY <1>3 DEF CreateKey
<1>17. validate_create_state'
  <2>1. /\ Cardinality(Existing') = Cardinality(Existing) + 1
        /\ Cardinality(Existing') <= MAX_GLOBAL_DOCUMENTS
    BY <1>3, <1>4, <1>7, TablesFinite, CountInsert DEF create_limits_exceeded, Limits
  <2>2. /\ Cardinality(create_receipts') = Cardinality(create_receipts) + 1
        /\ Cardinality(create_receipts') <= MAX_GLOBAL_CREATE_RECEIPTS
    BY <1>2, <1>3, <1>4, <1>16, TablesFinite, CountInsert DEF create_limits_exceeded, Limits
  <2>3. CreatedBy(a)' = CreatedBy(a) \cup {receipt} /\ receipt \notin CreatedBy(a)
    BY <1>2, <1>16 DEF CreatedBy
  <2>4. Cardinality(CreatedBy(a)') <= MAX_DOCUMENTS_PER_CREATE_AUTHORITY
    BY <1>3, <1>4, <2>3, TablesFinite, CountInsert DEF create_limits_exceeded, Limits
  <2>5. \A b : b # a => CreatedBy(b)' = CreatedBy(b)
    BY <1>2 DEF CreatedBy
  <2>6. ASSUME NEW r \in create_receipts
        PROVE  /\ r.root \in Held(r.document)'
               /\ IsRoot(r.document, r.root)'
               /\ capabilities'[r.document][r.root].verifier = r.verifier
               /\ Cardinality(CreatedBy(r.authority)') <= MAX_DOCUMENTS_PER_CREATE_AUTHORITY
    <3>1. r.document \in Documents /\ r.document # d
      BY <1>7 DEF validate, validate_foreign_keys, TypeOK, CreateReceipt
    <3>2. QED
      BY <1>9, <1>10, <2>4, <2>5, <3>1 DEF validate, validate_create_state, IsRoot
  <2>7. /\ receipt.root \in Held(receipt.document)'
        /\ IsRoot(receipt.document, receipt.root)'
        /\ capabilities'[receipt.document][receipt.root].verifier = receipt.verifier
        /\ Cardinality(CreatedBy(receipt.authority)') <= MAX_DOCUMENTS_PER_CREATE_AUTHORITY
    BY <1>9, <1>10, <2>4 DEF IsRoot
  <2>8. Cardinality(Existing) = Cardinality(create_receipts)
    BY DEF validate, validate_create_state
  <2>9. QED
    BY <1>2, <2>1, <2>2, <2>6, <2>7, <2>8 DEF validate_create_state
<1>18. validate_foreign_keys'
  BY <1>2, <1>3, <1>7, <1>10 DEF validate, validate_foreign_keys
<1>19. QED
  BY <1>15, <1>17, <1>18 DEF validate

\* What grant and revoke do to the receipts and to the documents.
LEMMA ControlStep ==
  ASSUME TypeOK, NEW d \in Documents, NEW i \in CapabilityIds,
         NEW q \in RequestIds, NEW input \in GrantInput \cup RevokeInput,
         has_next_control_revision(d),
         \A r \in control_receipts : ~ControlKey(r, d, i, q),
         ~control_limits_exceeded(d),
         insert_control_receipt(d, i, q, input),
         set_control_revision(d)
  PROVE  LET receipt == [document |-> d, issuer |-> i, request |-> q, input |-> input]
         IN  /\ control_receipts' = control_receipts \cup {receipt}
             /\ ReceiptsOf(d)' = ReceiptsOf(d) \cup {receipt}
             /\ \A e \in Documents : e # d => ReceiptsOf(e)' = ReceiptsOf(e)
             /\ Cardinality(ReceiptsOf(d)') = Cardinality(ReceiptsOf(d)) + 1
             /\ Cardinality(ReceiptsOf(d)') <= MAX_CONTROL_RECEIPTS_PER_DOCUMENT
             /\ Cardinality(control_receipts') <= MAX_GLOBAL_CONTROL_RECEIPTS
             /\ Existing' = Existing
             /\ d \in Existing
             /\ documents'[d].root = documents[d].root
             /\ documents[d].control_revision \in Nat
             /\ documents'[d].control_revision = documents[d].control_revision + 1
             /\ \A e \in Documents : e # d => documents'[e] = documents[e]
<1> DEFINE receipt == [document |-> d, issuer |-> i, request |-> q, input |-> input]
           doc == [documents[d] EXCEPT !.control_revision = @ + 1]
<1>1. control_receipts' = control_receipts \cup {receipt}
  BY DEF insert_control_receipt
<1>2. receipt \notin control_receipts
  BY DEF ControlKey
<1>3. /\ ReceiptsOf(d)' = ReceiptsOf(d) \cup {receipt}
      /\ receipt \notin ReceiptsOf(d)
      /\ \A e \in Documents : e # d => ReceiptsOf(e)' = ReceiptsOf(e)
  BY <1>1, <1>2 DEF ReceiptsOf
<1>4. /\ MAX_CONTROL_RECEIPTS_PER_DOCUMENT \in Nat
      /\ MAX_GLOBAL_CONTROL_RECEIPTS \in Nat
  BY LimitsAssumption DEF Limits
<1>5. /\ Cardinality(ReceiptsOf(d)') = Cardinality(ReceiptsOf(d)) + 1
      /\ Cardinality(ReceiptsOf(d)') <= MAX_CONTROL_RECEIPTS_PER_DOCUMENT
  BY <1>3, <1>4, TablesFinite, CountInsert DEF control_limits_exceeded
<1>6. Cardinality(control_receipts') <= MAX_GLOBAL_CONTROL_RECEIPTS
  BY <1>1, <1>2, <1>4, TablesFinite, CountInsert DEF control_limits_exceeded
<1>7. d \in Existing /\ documents[d].control_revision \in Nat /\ doc \in Document
  BY NextRevisionType
<1>8. documents' = [documents EXCEPT ![d] = doc]
  BY DEF set_control_revision, TypeOK
<1>9. /\ doc.root = documents[d].root
      /\ doc.control_revision = documents[d].control_revision + 1
  BY <1>7, RowTypes DEF Document
<1>10. /\ documents'[d] = doc
       /\ \A e \in Documents : e # d => documents'[e] = documents[e]
  BY <1>8 DEF TypeOK
<1>11. Existing' = Existing
  BY <1>7, <1>10, NullAssumption DEF Existing
<1>12. QED
  BY <1>1, <1>3, <1>5, <1>6, <1>7, <1>9, <1>10, <1>11

\* Rows are never removed and keep their parents, so walks stay walks.
LEMMA WalksPersist ==
  ASSUME NEW d \in Documents, NEW c, NEW a,
         Held(d) \subseteq Held(d)',
         \A k \in Held(d) : capabilities'[d][k].parent = capabilities[d][k].parent,
         Reaches(d, c, a)
  PROVE  Reaches(d, c, a)'
<1>1. PICK n \in 1..MAX_CAPABILITY_DEPTH : Walks(d, n, c, a) # {}
  BY DEF Reaches
<1>2. PICK p : p \in Walks(d, n, c, a)
  BY <1>1
<1>3. n \in Nat
  BY LimitsAssumption DEF Limits
<1>4. p \in Walks(d, n, c, a)'
  <2>1. /\ p \in [1..n -> Held(d)] /\ p[1] = c /\ p[n] = a
        /\ \A j \in 1..(n - 1) : capabilities[d][p[j]].parent = p[j + 1]
    BY <1>2 DEF Walks
  <2>2. p \in [1..n -> Held(d)']
    BY <2>1
  <2>3. \A j \in 1..(n - 1) : p[j] \in Held(d)
    BY <1>3, <2>1
  <2>4. \A j \in 1..(n - 1) : capabilities'[d][p[j]].parent = p[j + 1]
    BY <2>1, <2>3
  <2>5. QED
    BY <2>1, <2>2, <2>4 DEF Walks
<1>5. QED
  BY <1>4 DEF Reaches

\* Create receipts stay valid while the rows they name keep their parent and
\* verifier.
LEMMA CreateStateFrame ==
  ASSUME validate, TypeOK, NEW d \in Documents,
         Existing' = Existing, create_receipts' = create_receipts,
         create_authorities' = create_authorities,
         \A e \in Documents : e # d => capabilities'[e] = capabilities[e],
         Held(d) \subseteq Held(d)',
         \A c \in Held(d) :
           /\ capabilities'[d][c].parent = capabilities[d][c].parent
           /\ capabilities'[d][c].verifier = capabilities[d][c].verifier
  PROVE  validate_create_state'
<1>1. \A e \in Documents : e # d => Held(e)' = Held(e)
  BY DEF Held
<1>2. \A a : CreatedBy(a)' = CreatedBy(a)
  BY DEF CreatedBy
<1>3. ASSUME NEW r \in create_receipts
      PROVE  /\ r.root \in Held(r.document)'
             /\ IsRoot(r.document, r.root)'
             /\ capabilities'[r.document][r.root].verifier = r.verifier
  <2>1. r.document \in Documents
    BY DEF TypeOK, CreateReceipt
  <2>2. /\ r.root \in Held(r.document)
        /\ capabilities[r.document][r.root].parent = Null
        /\ capabilities[r.document][r.root].verifier = r.verifier
    BY DEF validate, validate_create_state, IsRoot
  <2>3. CASE r.document = d
    BY <2>2, <2>3 DEF IsRoot
  <2>4. CASE r.document # d
    BY <1>1, <2>1, <2>2, <2>4 DEF IsRoot
  <2>5. QED
    BY <2>3, <2>4
<1>4. QED
  BY <1>2, <1>3 DEF validate, validate_create_state

\* A granted row hangs below a live issuer with room for it, is younger than
\* the issuer and carries no operation the issuer lacks.
LEMMA GrantValid ==
  ASSUME TypeOK, validate, Grant
  PROVE  validate'
<1>1. PICK d \in Documents, i \in CapabilityIds, s \in Authenticators,
           q \in RequestIds, input \in GrantInput :
             grant_capability(d, i, s, q, input)
  BY DEF Grant
<1> DEFINE k == input.descendant
           row == [parent |-> i, verifier |-> input.verifier,
                   operations |-> input.operations, revoked |-> FALSE,
                   created_revision |-> documents[d].control_revision + 1]
           receipt == [document |-> d, issuer |-> i, request |-> q, input |-> input]
<1>2. /\ input.operations # {}
      /\ \A r \in control_receipts : ~ControlKey(r, d, i, q)
      /\ authorize(d, i, s, "grant")
      /\ has_next_control_revision(d)
      /\ allows(capabilities[d][i].operations, input.operations)
      /\ k \notin Held(d)
      /\ issuer_has_descendant_capacity(d, i)
      /\ ~capability_limits_exceeded(d, i)
  BY <1>1, GrantGuard DEF grant_capability
<1>3. /\ capabilities' = [capabilities EXCEPT ![d][k] = row]
      /\ insert_control_receipt(d, i, q, input)
      /\ set_control_revision(d)
      /\ UNCHANGED <<create_receipts, create_authorities>>
  BY <1>1 DEF grant_capability
<1>4. /\ control_receipts' = control_receipts \cup {receipt}
      /\ ReceiptsOf(d)' = ReceiptsOf(d) \cup {receipt}
      /\ \A e \in Documents : e # d => ReceiptsOf(e)' = ReceiptsOf(e)
      /\ Cardinality(ReceiptsOf(d)') = Cardinality(ReceiptsOf(d)) + 1
      /\ Cardinality(ReceiptsOf(d)') <= MAX_CONTROL_RECEIPTS_PER_DOCUMENT
      /\ Cardinality(control_receipts') <= MAX_GLOBAL_CONTROL_RECEIPTS
      /\ Existing' = Existing
      /\ d \in Existing
      /\ documents'[d].root = documents[d].root
      /\ documents[d].control_revision \in Nat
      /\ documents'[d].control_revision = documents[d].control_revision + 1
      /\ \A e \in Documents : e # d => documents'[e] = documents[e]
  <2>1. ~control_limits_exceeded(d)
    BY <1>2 DEF capability_limits_exceeded
  <2>2. QED
    BY <1>2, <1>3, <2>1, ControlStep
<1>5. k \in CapabilityIds /\ row # Null /\ i # Null
  <2>1. k \in CapabilityIds /\ row \in Capability
    BY <1>2, NextRevisionType DEF Capability, GrantInput
  <2>2. QED
    BY <2>1, NullAssumption
<1>6. /\ capabilities'[d][k] = row
      /\ \A e \in Documents : e # d => capabilities'[e] = capabilities[e]
      /\ \A c \in CapabilityIds : c # k => capabilities'[d][c] = capabilities[d][c]
  BY <1>3, <1>5 DEF TypeOK
<1>7. /\ Held(d)' = Held(d) \cup {k}
      /\ \A c \in Held(d) : capabilities'[d][c] = capabilities[d][c]
      /\ \A e \in Documents : e # d => Held(e)' = Held(e)
  BY <1>2, <1>5, <1>6 DEF Held
<1>8. i \in Held(d) /\ ~capabilities[d][i].revoked
  <2>1. PICK a \in Held(d) : ReachesActive(d, i, a)
    BY <1>2 DEF authorize, authorize_document
  <2>2. PICK n \in 1..MAX_CAPABILITY_DEPTH :
          \E w \in Walks(d, n, i, a) : \A j \in 1..n : ~capabilities[d][w[j]].revoked
    BY <2>1 DEF ReachesActive
  <2>3. 1 \in 1..n
    BY LimitsAssumption DEF Limits
  <2>4. QED
    BY <1>2, <2>2, <2>3, AuthorizedRow DEF Walks
<1>9. /\ validate_document(d)
      /\ \A c \in Held(d) : validate_capability_ancestry(d, c)
      /\ validate_root(d)
  BY <1>4 DEF validate, validate_capability_state, validate_document
<1>10. \A c \in Held(d) : capabilities[d][c].parent # k
  BY <1>2, <1>5, <1>9, NullAssumption DEF validate_capability_ancestry, ValidLink
<1>11. Reaches(d, k, documents[d].root)'
  <2>1. PICK n \in 1..(MAX_CAPABILITY_DEPTH - 1), a \in Held(d) :
          IsRoot(d, a) /\ Walks(d, n, i, a) # {}
    BY <1>2 DEF issuer_has_descendant_capacity
  <2>2. PICK p : p \in Walks(d, n, i, a)
    BY <2>1
  <2>3. a = documents[d].root
    BY <1>9, <2>1 DEF validate_root
  <2> DEFINE w == [j \in 1..(n + 1) |-> IF j = 1 THEN k ELSE p[j - 1]]
  <2>4. n \in Nat /\ 1 <= n /\ n + 1 \in 1..MAX_CAPABILITY_DEPTH
    BY LimitsAssumption DEF Limits
  <2>5. /\ p \in [1..n -> Held(d)] /\ p[1] = i /\ p[n] = a
        /\ \A j \in 1..(n - 1) : capabilities[d][p[j]].parent = p[j + 1]
    BY <2>2 DEF Walks
  <2>6. w \in [1..(n + 1) -> Held(d)']
    <3>1. \A j \in 1..(n + 1) : j # 1 => j - 1 \in 1..n
      BY <2>4
    <3>2. QED
      BY <1>7, <2>5, <3>1
  <2>7. w[1] = k /\ w[n + 1] = documents'[d].root
    BY <1>4, <2>3, <2>4, <2>5
  <2>8. ASSUME NEW j \in 1..n PROVE capabilities'[d][w[j]].parent = w[j + 1]
    <3>1. w[j + 1] = p[j] /\ w[j] = IF j = 1 THEN k ELSE p[j - 1]
      <4>1. j \in 1..(n + 1) /\ j + 1 \in 1..(n + 1) /\ j + 1 # 1
        BY <2>4
      <4>2. (j + 1) - 1 = j
        BY <2>4
      <4>3. w[j] = IF j = 1 THEN k ELSE p[j - 1]
        BY <4>1
      <4>4. w[j + 1] = p[(j + 1) - 1]
        BY <4>1
      <4>5. QED
        BY <4>2, <4>3, <4>4
    <3>2. CASE j = 1
      BY <1>6, <2>5, <3>1, <3>2
    <3>3. CASE j # 1
      <4>1. j - 1 \in 1..(n - 1) /\ j - 1 \in 1..n /\ (j - 1) + 1 = j
        BY <2>4, <3>3
      <4>2. p[j - 1] \in Held(d) /\ capabilities[d][p[j - 1]].parent = p[j]
        BY <2>5, <4>1
      <4>3. QED
        BY <1>7, <3>1, <3>3, <4>2
    <3>4. QED
      BY <3>2, <3>3
  <2>9. w \in Walks(d, n + 1, k, documents[d].root)'
    <3>1. (n + 1) - 1 = n
      BY <2>4
    <3> HIDE DEF w
    <3>2. QED
      BY <2>6, <2>7, <2>8, <3>1 DEF Walks
  <2>10. QED
    BY <2>4, <2>9 DEF Reaches
<1>12. \A c \in Held(d) : validate_capability_ancestry(d, c)'
  <2>1. ASSUME NEW c \in Held(d) PROVE validate_capability_ancestry(d, c)'
    <3>1. Reaches(d, c, documents[d].root)'
      BY <1>4, <1>7, <1>9, WalksPersist DEF validate_capability_ancestry
    <3>2. ValidLink(d, c)'
      BY <1>7, <1>9 DEF validate_capability_ancestry, ValidLink
    <3>3. /\ capabilities[d][c].created_revision \in 1..MAX_REVISION
          /\ capabilities[d][c].created_revision <= documents[d].control_revision
      BY <1>9, RowTypes DEF validate_capability_ancestry
    <3>4. capabilities'[d][c].created_revision <= documents'[d].control_revision
      BY <1>4, <1>7, <3>3, RevisionAssumption
    <3>5. QED
      BY <1>4, <3>1, <3>2, <3>4 DEF validate_capability_ancestry
  <2>2. QED
    BY <2>1
<1>13. validate_capability_ancestry(d, k)'
  <2>1. /\ capabilities[d][i].created_revision \in 1..MAX_REVISION
        /\ capabilities[d][i].created_revision <= documents[d].control_revision
    BY <1>8, <1>9, RowTypes DEF validate_capability_ancestry
  <2>2. capabilities[d][i].created_revision < documents[d].control_revision + 1
    BY <1>4, <2>1, RevisionAssumption
  <2>3. ValidLink(d, k)'
    BY <1>2, <1>6, <1>7, <1>8, <2>2 DEF ValidLink, allows
  <2>4. capabilities'[d][k].created_revision <= documents'[d].control_revision
    BY <1>4, <1>6
  <2>5. QED
    BY <1>4, <1>11, <2>3, <2>4 DEF validate_capability_ancestry
<1>14. \A c \in Held(d)' : Cardinality(Children(d, c)') <= MAX_DIRECT_CAPABILITY_CHILDREN
  <2>1. Children(d, i)' = Children(d, i) \cup {k} /\ k \notin Children(d, i)
    BY <1>2, <1>6, <1>7 DEF Children
  <2>2. \A c \in Held(d) : c # i => Children(d, c)' = Children(d, c)
    BY <1>6, <1>7 DEF Children
  <2>3. Children(d, k)' = {}
    BY <1>2, <1>6, <1>7, <1>8, <1>10 DEF Children
  <2>4. MAX_DIRECT_CAPABILITY_CHILDREN \in Nat
    BY LimitsAssumption DEF Limits
  <2>5. Cardinality(Children(d, i)') <= MAX_DIRECT_CAPABILITY_CHILDREN
    BY <1>2, <2>1, <2>4, TablesFinite, CountInsert DEF capability_limits_exceeded
  <2>6. Cardinality(Children(d, k)') <= MAX_DIRECT_CAPABILITY_CHILDREN
    BY <2>3, <2>4, FS_EmptySet
  <2>7. QED
    BY <1>7, <1>9, <2>2, <2>5, <2>6 DEF validate_document
<1>15. /\ Cardinality(Held(d)') <= MAX_CAPABILITIES_PER_DOCUMENT
       /\ Cardinality(AllHeld') <= MAX_GLOBAL_CAPABILITIES
  <2>1. /\ MAX_CAPABILITIES_PER_DOCUMENT \in Nat
        /\ MAX_GLOBAL_CAPABILITIES \in Nat
    BY LimitsAssumption DEF Limits
  <2>2. Cardinality(Held(d)') <= MAX_CAPABILITIES_PER_DOCUMENT
    BY <1>2, <1>7, <2>1, TablesFinite, CountInsert DEF capability_limits_exceeded
  <2>3. capabilities[d][k] = Null
    BY <1>2, <1>5 DEF Held
  <2>4. \A x \in Documents \X CapabilityIds :
          capabilities'[x[1]][x[2]] # Null
            <=> capabilities[x[1]][x[2]] # Null \/ x = <<d, k>>
    BY <1>5, <1>6
  <2>5. AllHeld' = AllHeld \cup {<<d, k>>} /\ <<d, k>> \notin AllHeld
    BY <1>5, <2>3, <2>4 DEF AllHeld
  <2>6. QED
    BY <1>2, <2>1, <2>2, <2>5, TablesFinite, CountInsert DEF capability_limits_exceeded
<1>16. validate_root(d)'
  BY <1>4, <1>5, <1>6, <1>7, <1>9 DEF validate_root, IsRoot
<1>17. \A r \in ReceiptsOf(d)' : validate_control_receipt(r)'
  <2>1. \A r \in ReceiptsOf(d) : validate_control_receipt(r)'
    BY <1>7, <1>9 DEF validate_document, validate_control_receipt, ReceiptsOf
  <2>2. input.operation = "grant"
    BY DEF GrantInput
  <2>3. validate_control_receipt(receipt)'
    BY <1>2, <1>6, <1>7, <1>8, <2>2 DEF validate_control_receipt
  <2>4. QED
    BY <1>4, <2>1, <2>3
<1>18. validate_document(d)'
  <2>1. \A c \in Held(d)' : capabilities'[d][c].operations # {}
    BY <1>2, <1>6, <1>7, <1>9 DEF validate_document
  <2>2. documents'[d].control_revision = Cardinality(ReceiptsOf(d)') + 1
    BY <1>4, <1>9 DEF validate_document
  <2>3. QED
    BY <1>4, <1>7, <1>12, <1>13, <1>14, <1>15, <1>16, <1>17, <2>1, <2>2
       DEF validate_document
<1>19. \A e \in Existing : e # d => validate_document(e)'
  BY <1>4, <1>6, DocumentFrame DEF validate, validate_capability_state, Existing
<1>20. validate_capability_state'
  BY <1>4, <1>15, <1>18, <1>19 DEF validate_capability_state
<1>21. validate_create_state'
  BY <1>3, <1>4, <1>6, <1>7, CreateStateFrame
<1>22. validate_foreign_keys'
  BY <1>3, <1>4, <1>7 DEF validate, validate_foreign_keys
<1>23. QED
  BY <1>20, <1>21, <1>22 DEF validate

\* The rows that revoke marks hold the target and, with a row, its children.
LEMMA SubtreeClosed ==
  ASSUME NEW d \in Documents, NEW target \in Held(d)
  PROVE  /\ target \in Subtree(d, target)
         /\ \A c \in Subtree(d, target) : Children(d, c) \subseteq Subtree(d, target)
BY DEF Subtree, Children

\* Revocation marks whole subtrees and changes nothing else of a row.
LEMMA RevokeValid ==
  ASSUME TypeOK, validate, Revoke
  PROVE  validate'
<1>1. PICK d \in Documents, i \in CapabilityIds, s \in Authenticators,
           q \in RequestIds, input \in RevokeInput :
             revoke_capability(d, i, s, q, input)
  BY DEF Revoke
<1> DEFINE T == Subtree(d, input.target)
           rows == [c \in CapabilityIds |->
                      IF c \in T THEN [capabilities[d][c] EXCEPT !.revoked = TRUE]
                      ELSE capabilities[d][c]]
           receipt == [document |-> d, issuer |-> i, request |-> q, input |-> input]
<1>2. /\ \A r \in control_receipts : ~ControlKey(r, d, i, q)
      /\ authorize(d, i, s, "revoke")
      /\ has_next_control_revision(d)
      /\ is_active_descendant(d, i, input.target)
      /\ ~control_limits_exceeded(d)
  BY <1>1, RevokeGuard DEF revoke_capability
<1>3. /\ capabilities' = [capabilities EXCEPT ![d] = rows]
      /\ insert_control_receipt(d, i, q, input)
      /\ set_control_revision(d)
      /\ UNCHANGED <<create_receipts, create_authorities>>
  BY <1>1 DEF revoke_capability, TypeOK
<1>4. /\ control_receipts' = control_receipts \cup {receipt}
      /\ ReceiptsOf(d)' = ReceiptsOf(d) \cup {receipt}
      /\ \A e \in Documents : e # d => ReceiptsOf(e)' = ReceiptsOf(e)
      /\ Cardinality(ReceiptsOf(d)') = Cardinality(ReceiptsOf(d)) + 1
      /\ Cardinality(ReceiptsOf(d)') <= MAX_CONTROL_RECEIPTS_PER_DOCUMENT
      /\ Cardinality(control_receipts') <= MAX_GLOBAL_CONTROL_RECEIPTS
      /\ Existing' = Existing
      /\ d \in Existing
      /\ documents'[d].root = documents[d].root
      /\ documents[d].control_revision \in Nat
      /\ documents'[d].control_revision = documents[d].control_revision + 1
      /\ \A e \in Documents : e # d => documents'[e] = documents[e]
  BY <1>2, <1>3, ControlStep
<1>5. /\ \A e \in Documents : e # d => capabilities'[e] = capabilities[e]
      /\ \A c \in CapabilityIds : capabilities'[d][c] = rows[c]
  BY <1>3 DEF TypeOK
<1>6. input.target \in Held(d)
  <2>1. PICK n \in 1..MAX_CAPABILITY_DEPTH :
          \E w \in Walks(d, n, input.target, i) : TRUE
    BY <1>2 DEF is_active_descendant, ReachesActive
  <2>2. 1 \in 1..n
    BY LimitsAssumption DEF Limits
  <2>3. QED
    BY <2>1, <2>2 DEF Walks
<1>7. /\ T \subseteq Held(d)
      /\ input.target \in T
      /\ \A c \in T : Children(d, c) \subseteq T
  <2>1. T \subseteq Held(d)
    BY DEF Subtree
  <2>2. QED
    BY <1>6, <2>1, SubtreeClosed
<1> HIDE DEF T
<1>8. \A c \in Held(d) :
        /\ capabilities'[d][c] \in Capability
        /\ capabilities'[d][c].parent = capabilities[d][c].parent
        /\ capabilities'[d][c].verifier = capabilities[d][c].verifier
        /\ capabilities'[d][c].operations = capabilities[d][c].operations
        /\ capabilities'[d][c].created_revision = capabilities[d][c].created_revision
        /\ capabilities'[d][c].revoked <=> (capabilities[d][c].revoked \/ c \in T)
  <2>1. ASSUME NEW c \in Held(d)
        PROVE  /\ capabilities'[d][c] \in Capability
               /\ capabilities'[d][c].parent = capabilities[d][c].parent
               /\ capabilities'[d][c].verifier = capabilities[d][c].verifier
               /\ capabilities'[d][c].operations = capabilities[d][c].operations
               /\ capabilities'[d][c].created_revision = capabilities[d][c].created_revision
               /\ capabilities'[d][c].revoked <=> (capabilities[d][c].revoked \/ c \in T)
    <3>1. c \in CapabilityIds /\ capabilities[d][c] \in Capability
      BY RowTypes DEF Held
    <3>2. capabilities'[d][c] = IF c \in T THEN [capabilities[d][c] EXCEPT !.revoked = TRUE]
                                 ELSE capabilities[d][c]
      BY <1>5, <3>1
    <3>3. CASE c \in T
      BY <3>1, <3>2, <3>3 DEF Capability
    <3>4. CASE c \notin T
      BY <3>1, <3>2, <3>4 DEF Capability
    <3>5. QED
      BY <3>3, <3>4
  <2>2. QED
    BY <2>1
<1>9. /\ Held(d)' = Held(d)
      /\ \A e \in Documents : e # d => Held(e)' = Held(e)
  <2>1. \A c \in Held(d) : capabilities'[d][c] # Null
    BY <1>8, NullAssumption
  <2>2. \A c \in CapabilityIds : c \notin Held(d) => capabilities'[d][c] = capabilities[d][c]
    BY <1>5, <1>7
  <2>3. QED
    BY <1>5, <2>1, <2>2 DEF Held
<1>10. AllHeld' = AllHeld
  <2>1. \A x \in Documents \X CapabilityIds :
          capabilities'[x[1]][x[2]] # Null <=> capabilities[x[1]][x[2]] # Null
    BY <1>9 DEF Held
  <2>2. QED
    BY <2>1 DEF AllHeld
<1>11. /\ validate_document(d)
       /\ \A c \in Held(d) : validate_capability_ancestry(d, c)
       /\ validate_root(d)
  BY <1>4 DEF validate, validate_capability_state, validate_document
<1>12. ASSUME NEW c \in Held(d) PROVE validate_capability_ancestry(d, c)'
  <2>1. Reaches(d, c, documents[d].root)'
    BY <1>4, <1>8, <1>9, <1>11, WalksPersist DEF validate_capability_ancestry
  <2>2. ASSUME capabilities[d][c].parent # Null PROVE ValidLink(d, c)'
    <3> DEFINE b == capabilities[d][c].parent
    <3>1. /\ b \in Held(d)
          /\ capabilities[d][b].created_revision < capabilities[d][c].created_revision
          /\ allows(capabilities[d][b].operations, capabilities[d][c].operations)
          /\ capabilities[d][b].revoked => capabilities[d][c].revoked
      BY <1>11, <2>2 DEF validate_capability_ancestry, ValidLink
    <3>2. b \in T => c \in T
      BY <1>7 DEF Children
    <3>3. capabilities'[d][b].revoked => capabilities'[d][c].revoked
      BY <1>8, <3>1, <3>2
    <3>4. QED
      BY <1>8, <1>9, <3>1, <3>3 DEF ValidLink
  <2>3. ASSUME capabilities[d][c].parent = Null PROVE ValidLink(d, c)'
    BY <1>8, <2>3 DEF ValidLink
  <2>4. /\ capabilities[d][c].created_revision \in 1..MAX_REVISION
        /\ capabilities[d][c].created_revision <= documents[d].control_revision
    BY <1>11, RowTypes DEF validate_capability_ancestry
  <2>5. capabilities'[d][c].created_revision <= documents'[d].control_revision
    BY <1>4, <1>8, <2>4, RevisionAssumption
  <2>6. QED
    BY <1>4, <2>1, <2>2, <2>3, <2>5 DEF validate_capability_ancestry
<1>13. \A c \in Held(d) : Children(d, c)' = Children(d, c)
  BY <1>8, <1>9 DEF Children
<1>14. validate_root(d)'
  BY <1>4, <1>8, <1>9, <1>11 DEF validate_root, IsRoot
<1>15. \A r \in ReceiptsOf(d)' : validate_control_receipt(r)'
  <2>1. \A r \in ReceiptsOf(d) : validate_control_receipt(r)'
    BY <1>8, <1>9, <1>11 DEF validate_document, validate_control_receipt, ReceiptsOf
  <2>2. input.operation = "revoke"
    BY DEF RevokeInput
  <2>3. i \in Held(d)
    BY <1>2, AuthorizedRow
  <2>4. validate_control_receipt(receipt)'
    BY <1>6, <1>7, <1>8, <1>9, <2>2, <2>3 DEF validate_control_receipt
  <2>5. QED
    BY <1>4, <2>1, <2>4
<1>16. validate_document(d)'
  <2>1. \A c \in Held(d)' : capabilities'[d][c].operations # {}
    BY <1>8, <1>9, <1>11 DEF validate_document
  <2>2. documents'[d].control_revision = Cardinality(ReceiptsOf(d)') + 1
    BY <1>4, <1>11 DEF validate_document
  <2>3. QED
    BY <1>4, <1>9, <1>11, <1>12, <1>13, <1>14, <1>15, <2>1, <2>2 DEF validate_document
<1>17. \A e \in Existing : e # d => validate_document(e)'
  BY <1>4, <1>5, DocumentFrame DEF validate, validate_capability_state, Existing
<1>18. validate_capability_state'
  BY <1>4, <1>10, <1>16, <1>17 DEF validate, validate_capability_state
<1>19. validate_create_state'
  BY <1>3, <1>4, <1>5, <1>8, <1>9, CreateStateFrame
<1>20. validate_foreign_keys'
  BY <1>3, <1>4, <1>9 DEF validate, validate_foreign_keys
<1>21. QED
  BY <1>18, <1>19, <1>20 DEF validate

\* Recovery accepts every reachable state: a store that stops between any two
\* transactions opens again.
THEOREM RecoveryCorrect == Spec => []RecoveryAccepts
<1>1. Init => TypeOK /\ validate
  BY InitType, InitValid
<1>2. (TypeOK /\ validate) /\ [Next]_vars => (TypeOK /\ validate)'
  BY CreateType, GrantType, RevokeType, OtherType,
     CreateValid, GrantValid, RevokeValid, OtherValid DEF Next
<1>3. QED
  BY <1>1, <1>2, PTL DEF Spec, RecoveryAccepts
============================================================================
