--------------------- MODULE CapabilityAuthorityProofs ---------------------
(***************************************************************************)
(* Proofs about the authority that CapabilityStore keeps, for every value  *)
(* of its constants: who holds an operation holds it from its ancestors,   *)
(* authority that is lost stays lost, a revocation reaches one subtree,    *)
(* and every request is answered by the receipt it left.                   *)
(*                                                                         *)
(* All of it rests on the walks along parents.  A walk has no branches, so *)
(* two walks from one row agree as far as both go, and none goes beyond    *)
(* the root.                                                               *)
(*                                                                         *)
(* Then the store implements the oracle CapabilityModel, as long as no     *)
(* chain of delegations has as many rows as the depth limit: there the     *)
(* oracle's loop gives up one row earlier than the store's.  The oracle    *)
(* follows the same parents, so its walks are the store's; what remains is *)
(* that the two ask for different things on the way (revoked rows,         *)
(* recursive query, order of refusals) and still agree.                    *)
(***************************************************************************)
EXTENDS CapabilityRefinement, CapabilityStoreProofs, WellFoundedInduction

\* A nonempty set of numbers has a least element: a minimal counterexample does
\* the work of an induction along a walk.
LEMMA LeastElement ==
  ASSUME NEW T \in SUBSET Nat, T # {}
  PROVE  \E x \in T : \A y \in T : x <= y
<1>1. PICK x \in T : \A y \in T : ~(<<y, x>> \in OpToRel(<, Nat))
  BY NatLessThanWellFounded, WFMin, Zenon
<1>2. \A y \in T : ~(y < x)
  BY <1>1 DEF OpToRel
<1>3. QED
  BY <1>2

\* What a walk is.
LEMMA WalkFacts ==
  ASSUME NEW d, NEW n, NEW c, NEW a, NEW p \in Walks(d, n, c, a)
  PROVE  /\ \A i \in 1..n : p[i] \in Held(d)
         /\ p[1] = c
         /\ p[n] = a
         /\ \A i \in 1..(n - 1) : capabilities[d][p[i]].parent = p[i + 1]
BY DEF Walks

\* A row has one parent, so two walks from it agree as far as both go.
LEMMA WalksAgree ==
  ASSUME NEW d, NEW n \in Nat \ {0}, NEW m \in Nat \ {0}, n <= m,
         NEW c, NEW a, NEW b, NEW p \in Walks(d, n, c, a), NEW q \in Walks(d, m, c, b)
  PROVE  \A i \in 1..n : p[i] = q[i]
<1> DEFINE T == {i \in 1..n : p[i] # q[i]}
<1> SUFFICES ASSUME T # {} PROVE FALSE
  OBVIOUS
<1>1. PICK x \in T : \A y \in T : x <= y
  <2>1. T \in SUBSET Nat
    OBVIOUS
  <2>2. QED
    BY <2>1, LeastElement
<1>2. x \in 1..n /\ p[x] # q[x]
  OBVIOUS
<1>3. x # 1
  BY <1>2, WalkFacts
<1>4. /\ x - 1 \in 1..n /\ x - 1 \in 1..(n - 1) /\ x - 1 \in 1..(m - 1)
      /\ (x - 1) + 1 = x /\ ~(x <= x - 1)
  BY <1>2, <1>3
<1>5. p[x - 1] = q[x - 1]
  BY <1>1, <1>4
<1>6. capabilities[d][p[x - 1]].parent = p[x] /\ capabilities[d][q[x - 1]].parent = q[x]
  <2>1. capabilities[d][p[x - 1]].parent = p[(x - 1) + 1]
    BY <1>4, WalkFacts
  <2>2. capabilities[d][q[x - 1]].parent = q[(x - 1) + 1]
    BY <1>4, WalkFacts
  <2>3. QED
    BY <1>4, <2>1, <2>2
<1>7. QED
  BY <1>2, <1>5, <1>6

\* A row without a parent ends every walk.
LEMMA RootEndsWalk ==
  ASSUME NEW d, NEW n \in Nat \ {0}, NEW m \in Nat \ {0},
         NEW c, NEW a, NEW r, IsRoot(d, r),
         NEW p \in Walks(d, n, c, a), NEW q \in Walks(d, m, c, r)
  PROVE  n <= m
<1> SUFFICES ASSUME m < n PROVE FALSE
  OBVIOUS
<1>1. p[m] = r
  <2>1. m <= n /\ m \in 1..m
    OBVIOUS
  <2>2. \A i \in 1..m : q[i] = p[i]
    BY <2>1, WalksAgree
  <2>3. QED
    BY <2>1, <2>2, WalkFacts
<1>2. m \in 1..(n - 1) /\ m + 1 \in 1..n
  OBVIOUS
<1>3. capabilities[d][r].parent = p[m + 1] /\ p[m + 1] \in Held(d)
  BY <1>1, <1>2, WalkFacts
<1>4. QED
  BY <1>3, NullAssumption DEF IsRoot, Held

\* The rest of a walk is a walk.
LEMMA WalkSuffix ==
  ASSUME NEW d, NEW n \in Nat \ {0}, NEW c, NEW a, NEW p \in Walks(d, n, c, a), NEW i \in 1..n
  PROVE  [j \in 1..(n - i + 1) |-> p[i + j - 1]] \in Walks(d, n - i + 1, p[i], a)
<1> DEFINE l == n - i + 1
           q == [j \in 1..l |-> p[i + j - 1]]
<1>1. l \in Nat \ {0} /\ 1 \in 1..l /\ l \in 1..l /\ i + 1 - 1 = i /\ i + l - 1 = n
  OBVIOUS
<1>2. \A j \in 1..l : i + j - 1 \in 1..n
  OBVIOUS
<1>3. \A j \in 1..(l - 1) :
        /\ j \in 1..l /\ j + 1 \in 1..l
        /\ i + j - 1 \in 1..(n - 1) /\ (i + j - 1) + 1 = i + (j + 1) - 1
  OBVIOUS
<1> HIDE DEF l
<1>4. q \in [1..l -> Held(d)]
  BY <1>2, WalkFacts
<1>5. q[1] = p[i] /\ q[l] = a
  BY <1>1, WalkFacts
<1>6. ASSUME NEW j \in 1..(l - 1) PROVE capabilities[d][q[j]].parent = q[j + 1]
  <2>1. q[j] = p[i + j - 1] /\ q[j + 1] = p[i + (j + 1) - 1]
    BY <1>3
  <2>2. capabilities[d][p[i + j - 1]].parent = p[(i + j - 1) + 1]
    BY <1>3, WalkFacts
  <2>3. QED
    BY <1>3, <2>1, <2>2
<1>7. QED
  BY <1>4, <1>5, <1>6 DEF Walks, l

\* A walk from a row extends to its children.
LEMMA WalkFromChild ==
  ASSUME NEW d, NEW n \in Nat \ {0}, NEW c, NEW a, NEW p \in Walks(d, n, c, a),
         NEW k \in Children(d, c)
  PROVE  [j \in 1..(n + 1) |-> IF j = 1 THEN k ELSE p[j - 1]] \in Walks(d, n + 1, k, a)
<1> DEFINE q == [j \in 1..(n + 1) |-> IF j = 1 THEN k ELSE p[j - 1]]
<1>1. k \in Held(d) /\ capabilities[d][k].parent = c
  BY DEF Children
<1>2. /\ \A j \in 1..(n + 1) : j # 1 => j - 1 \in 1..n
      /\ 1 \in 1..(n + 1) /\ n + 1 \in 1..(n + 1) /\ n + 1 # 1 /\ (n + 1) - 1 = n
  OBVIOUS
<1>3. q \in [1..(n + 1) -> Held(d)]
  BY <1>1, <1>2, WalkFacts
<1>4. q[1] = k /\ q[n + 1] = a
  BY <1>2, WalkFacts
<1>5. ASSUME NEW j \in 1..((n + 1) - 1) PROVE capabilities[d][q[j]].parent = q[j + 1]
  <2>1. q[j + 1] = p[j] /\ j \in 1..n
    OBVIOUS
  <2>2. CASE j = 1
    BY <1>1, <1>4, <2>1, <2>2, WalkFacts
  <2>3. CASE j # 1
    <3>1. j - 1 \in 1..(n - 1) /\ (j - 1) + 1 = j /\ q[j] = p[j - 1]
      BY <2>1, <2>3
    <3>2. capabilities[d][p[j - 1]].parent = p[(j - 1) + 1]
      BY <3>1, WalkFacts
    <3>3. QED
      BY <2>1, <3>1, <3>2
  <2>4. QED
    BY <2>2, <2>3
<1>6. QED
  BY <1>3, <1>4, <1>5 DEF Walks

\* What recovery's validation says about a row: it hangs below the one root,
\* its operations are its parent's, and it is revoked if its parent is.
LEMMA RowsAreTrees ==
  ASSUME TypeOK, validate, NEW d \in Documents, NEW c \in Held(d)
  PROVE  /\ d \in Existing
         /\ documents[d].root \in Held(d)
         /\ IsRoot(d, documents[d].root)
         /\ IsRoot(d, c) => c = documents[d].root
         /\ Reaches(d, c, documents[d].root)
         /\ capabilities[d][c].parent # Null =>
              /\ capabilities[d][c].parent \in Held(d)
              /\ capabilities[d][c].operations
                   \subseteq capabilities[d][capabilities[d][c].parent].operations
<1>1. d \in Existing
  BY DEF validate, validate_foreign_keys
<1>2. validate_document(d)
  BY <1>1 DEF validate, validate_capability_state
<1>3. /\ documents[d].root \in Held(d)
      /\ IsRoot(d, documents[d].root)
      /\ IsRoot(d, c) => c = documents[d].root
  BY <1>2 DEF validate_document, validate_root
<1>4. Reaches(d, c, documents[d].root) /\ ValidLink(d, c)
  BY <1>2 DEF validate_document, validate_capability_ancestry
<1>5. QED
  BY <1>1, <1>3, <1>4 DEF ValidLink, allows

\* A row reaches another by a walk within the depth.
LEMMA ReachesByWalk ==
  ASSUME NEW d, NEW c, NEW a, Reaches(d, c, a)
  PROVE  \E n \in 1..MAX_CAPABILITY_DEPTH : n \in Nat \ {0} /\ \E p : p \in Walks(d, n, c, a)
<1>1. MAX_CAPABILITY_DEPTH \in Nat
  BY LimitsAssumption DEF Limits
<1>2. QED
  BY <1>1 DEF Reaches

\* Whatever the recursive query finds, the bounded walk finds too: a child of a
\* row that reaches t reaches t, because its walk to t is part of its walk to
\* the root.
LEMMA ChildReaches ==
  ASSUME TypeOK, validate, NEW d \in Documents, NEW t \in Held(d), NEW c \in Held(d),
         is_descendant_or_self(d, t, c), NEW k \in Children(d, c)
  PROVE  Reaches(d, k, t)
<1>1. MAX_CAPABILITY_DEPTH \in Nat \ {0}
  BY LimitsAssumption DEF Limits
<1>2. k \in Held(d)
  BY DEF Children
<1>3. PICK n, p : n \in Nat \ {0} /\ p \in Walks(d, n, c, t)
  <2>1. CASE c = t
    <3>1. [i \in 1..1 |-> t] \in Walks(d, 1, c, t)
      BY <2>1 DEF Walks
    <3>2. QED
      BY <3>1
  <2>2. CASE Reaches(d, c, t)
    BY <2>2, ReachesByWalk
  <2>3. QED
    BY <2>1, <2>2 DEF is_descendant_or_self
<1>4. PICK q : q \in Walks(d, n + 1, k, t)
  BY <1>3, WalkFromChild
<1>5. PICK m, w :
        /\ m \in 1..MAX_CAPABILITY_DEPTH /\ m \in Nat \ {0}
        /\ w \in Walks(d, m, k, documents[d].root)
  BY <1>2, RowsAreTrees, ReachesByWalk
<1>6. n + 1 <= m
  BY <1>2, <1>3, <1>4, <1>5, RootEndsWalk, RowsAreTrees
<1>7. n + 1 \in 1..MAX_CAPABILITY_DEPTH
  BY <1>1, <1>3, <1>5, <1>6
<1>8. QED
  BY <1>4, <1>7 DEF Reaches

\* A set that holds t and is closed under children holds every row that walks
\* to t: the last row of the walk that is outside would have its parent inside.
LEMMA WalkStaysInside ==
  ASSUME NEW d, NEW n \in Nat \ {0}, NEW c, NEW t, NEW p \in Walks(d, n, c, t),
         NEW S, t \in S, \A k \in S : Children(d, k) \subseteq S
  PROVE  c \in S
<1> DEFINE T == {j \in 0..(n - 1) : p[n - j] \notin S}
<1>1. T = {}
  <2> SUFFICES ASSUME T # {} PROVE FALSE
    OBVIOUS
  <2>1. PICK x \in T : \A y \in T : x <= y
    <3>1. T \in SUBSET Nat
      OBVIOUS
    <3>2. QED
      BY <3>1, LeastElement
  <2>2. x \in 0..(n - 1) /\ p[n - x] \notin S
    OBVIOUS
  <2>3. x # 0
    BY <2>2, WalkFacts
  <2>4. /\ x - 1 \in 0..(n - 1) /\ ~(x <= x - 1)
        /\ n - x \in 1..(n - 1) /\ n - x \in 1..n /\ (n - x) + 1 = n - (x - 1)
    BY <2>2, <2>3
  <2>5. p[n - (x - 1)] \in S
    BY <2>1, <2>4
  <2>6. p[n - x] \in Children(d, p[n - (x - 1)])
    <3>1. capabilities[d][p[n - x]].parent = p[(n - x) + 1] /\ p[n - x] \in Held(d)
      BY <2>4, WalkFacts
    <3>2. QED
      BY <2>4, <3>1 DEF Children
  <2>7. QED
    BY <2>2, <2>5, <2>6
<1>2. n - 1 \in 0..(n - 1) /\ n - (n - 1) = 1
  OBVIOUS
<1>3. p[1] \in S
  BY <1>1, <1>2
<1>4. QED
  BY <1>3, WalkFacts

\* The least set closed under children holds the rows with a walk to the target.
LEMMA SubtreeByWalk ==
  ASSUME TypeOK, validate, NEW d \in Documents, NEW t \in Held(d), NEW c \in Held(d)
  PROVE  c \in Subtree(d, t) <=> is_descendant_or_self(d, t, c)
<1>1. ASSUME c \in Subtree(d, t) PROVE is_descendant_or_self(d, t, c)
  <2> DEFINE S == {k \in Held(d) : is_descendant_or_self(d, t, k)}
  <2>1. S \in SUBSET Held(d) /\ t \in S
    BY DEF is_descendant_or_self
  <2>2. ASSUME NEW k \in S PROVE Children(d, k) \subseteq S
    BY ChildReaches DEF is_descendant_or_self, Children
  <2>3. c \in S
    BY <1>1, <2>1, <2>2 DEF Subtree
  <2>4. QED
    BY <2>3
<1>2. ASSUME Reaches(d, c, t) PROVE c \in Subtree(d, t)
  <2>1. PICK n, p : n \in Nat \ {0} /\ p \in Walks(d, n, c, t)
    BY <1>2, ReachesByWalk
  <2>2. ASSUME NEW S \in SUBSET Held(d), t \in S, \A k \in S : Children(d, k) \subseteq S
        PROVE  c \in S
    BY <2>1, <2>2, WalkStaysInside
  <2>3. QED
    BY <2>2 DEF Subtree
<1>3. QED
  BY <1>1, <1>2, SubtreeClosed DEF is_descendant_or_self

\* ---------------------------------------------------------------------------
\* Authority.

\* What authorize_document looks at: the row, the document, and a walk to the root
\* on which no row is revoked.
LEMMA AuthorizeMeans ==
  ASSUME NEW d, NEW c, NEW s, NEW o
  PROVE  authorize(d, c, s, o) <=>
           /\ c \in Held(d)
           /\ capabilities[d][c].verifier = s
           /\ o \in capabilities[d][c].operations
           /\ documents[d] # Null
           /\ documents[d].state = "active"
           /\ \E a \in Held(d), n \in 1..MAX_CAPABILITY_DEPTH :
                /\ IsRoot(d, a)
                /\ \E p \in Walks(d, n, c, a) : \A i \in 1..n : ~capabilities[d][p[i]].revoked
BY DEF authorize, authorize_document, ReachesActive

\* An operation that a row carries is carried by every row above it.
LEMMA OperationsFromAncestors ==
  ASSUME TypeOK, validate, NEW d \in Documents, NEW n \in Nat \ {0}, NEW c, NEW a,
         NEW p \in Walks(d, n, c, a), NEW o \in capabilities[d][c].operations
  PROVE  \A i \in 1..n : o \in capabilities[d][p[i]].operations
<1> DEFINE T == {i \in 1..n : o \notin capabilities[d][p[i]].operations}
<1> SUFFICES ASSUME T # {} PROVE FALSE
  OBVIOUS
<1>1. PICK x \in T : \A y \in T : x <= y
  <2>1. T \in SUBSET Nat
    OBVIOUS
  <2>2. QED
    BY <2>1, LeastElement
<1>2. x \in 1..n /\ o \notin capabilities[d][p[x]].operations
  OBVIOUS
<1>3. x # 1
  BY <1>2, WalkFacts
<1>4. x - 1 \in 1..n /\ x - 1 \in 1..(n - 1) /\ (x - 1) + 1 = x /\ ~(x <= x - 1)
  BY <1>2, <1>3
<1>5. o \in capabilities[d][p[x - 1]].operations
  BY <1>1, <1>4
<1>6. p[x - 1] \in Held(d) /\ p[x] \in Held(d) /\ capabilities[d][p[x - 1]].parent = p[x]
  <2>1. capabilities[d][p[x - 1]].parent = p[(x - 1) + 1]
    BY <1>4, WalkFacts
  <2>2. QED
    BY <1>2, <1>4, <2>1, WalkFacts
<1>7. p[x] # Null
  BY <1>6, NullAssumption DEF Held
<1>8. QED
  BY <1>2, <1>5, <1>6, <1>7, RowsAreTrees

\* Where a capability is authorized, each of its ancestors is.
LEMMA AncestorsAuthorized ==
  ASSUME TypeOK, validate, NEW d \in Documents, NEW c \in Held(d), NEW b \in Held(d), NEW s, NEW o,
         authorize(d, c, s, o), Reaches(d, c, b)
  PROVE  authorize(d, b, capabilities[d][b].verifier, o)
<1>1. MAX_CAPABILITY_DEPTH \in Nat
  BY LimitsAssumption DEF Limits
<1>2. PICK a, n, p :
        /\ a \in Held(d) /\ n \in 1..MAX_CAPABILITY_DEPTH
        /\ p \in Walks(d, n, c, a)
        /\ IsRoot(d, a)
        /\ \A i \in 1..n : ~capabilities[d][p[i]].revoked
  BY AuthorizeMeans
<1>3. n \in Nat \ {0}
  BY <1>1, <1>2
<1>4. PICK m, q : m \in Nat \ {0} /\ q \in Walks(d, m, c, b)
  BY ReachesByWalk
<1>5. m <= n
  BY <1>2, <1>3, <1>4, RootEndsWalk
<1>6. m \in 1..n /\ m \in 1..m
  BY <1>3, <1>4, <1>5
<1>7. p[m] = b
  <2>1. \A i \in 1..m : q[i] = p[i]
    BY <1>2, <1>3, <1>4, <1>5, WalksAgree
  <2>2. QED
    BY <1>4, <1>6, <2>1, WalkFacts
<1> DEFINE l == n - m + 1
           w == [j \in 1..l |-> p[m + j - 1]]
<1>8. w \in Walks(d, l, b, a)
  BY <1>2, <1>3, <1>6, <1>7, WalkSuffix
<1>9. l \in 1..MAX_CAPABILITY_DEPTH /\ \A j \in 1..l : m + j - 1 \in 1..n
  BY <1>1, <1>2, <1>3, <1>4, <1>6
<1>10. \A j \in 1..l : ~capabilities[d][w[j]].revoked
  BY <1>2, <1>9
<1>11. o \in capabilities[d][b].operations
  <2>1. o \in capabilities[d][c].operations
    BY AuthorizeMeans
  <2>2. QED
    BY <1>2, <1>3, <1>6, <1>7, <2>1, OperationsFromAncestors
<1>12. documents[d] # Null /\ documents[d].state = "active"
  BY AuthorizeMeans
<1> HIDE DEF l, w
<1>13. QED
  BY <1>2, <1>8, <1>9, <1>10, <1>11, <1>12, AuthorizeMeans

\* A step that adds rows only below those of the document, and unmarks none,
\* gives no row authority: its walk to the root is the one it had.
LEMMA NoAuthorityGained ==
  ASSUME TypeOK, validate, NEW d \in Documents,
         Held(d) \subseteq Held(d)',
         \A k \in Held(d) :
           /\ capabilities'[d][k].parent = capabilities[d][k].parent
           /\ capabilities'[d][k].verifier = capabilities[d][k].verifier
           /\ capabilities'[d][k].operations = capabilities[d][k].operations
           /\ capabilities[d][k].revoked => capabilities'[d][k].revoked,
         documents'[d].state = "active" => documents[d] # Null /\ documents[d].state = "active",
         NEW c \in Held(d), NEW s, NEW o, authorize(d, c, s, o)'
  PROVE  authorize(d, c, s, o)
<1>1. MAX_CAPABILITY_DEPTH \in Nat
  BY LimitsAssumption DEF Limits
<1>2. /\ capabilities'[d][c].verifier = s
      /\ o \in capabilities'[d][c].operations
      /\ documents'[d].state = "active"
  BY AuthorizeMeans DEF authorize, authorize_document
<1>3. PICK a, n, p :
        /\ a \in Held(d)' /\ n \in 1..MAX_CAPABILITY_DEPTH
        /\ p \in Walks(d, n, c, a)'
        /\ IsRoot(d, a)'
        /\ \A i \in 1..n : ~capabilities'[d][p[i]].revoked
  BY DEF authorize, authorize_document, ReachesActive
<1>4. n \in Nat \ {0}
  BY <1>1, <1>3
<1>5. /\ p \in [1..n -> Held(d)'] /\ p[1] = c /\ p[n] = a
      /\ \A i \in 1..(n - 1) : capabilities'[d][p[i]].parent = p[i + 1]
  BY <1>3 DEF Walks
<1>6. \A i \in 1..n : p[i] \in Held(d)
  <2> DEFINE T == {i \in 1..n : p[i] \notin Held(d)}
  <2> SUFFICES ASSUME T # {} PROVE FALSE
    OBVIOUS
  <2>1. PICK x \in T : \A y \in T : x <= y
    <3>1. T \in SUBSET Nat
      OBVIOUS
    <3>2. QED
      BY <3>1, LeastElement
  <2>2. x \in 1..n /\ p[x] \notin Held(d)
    OBVIOUS
  <2>3. x # 1
    BY <1>5, <2>2
  <2>4. x - 1 \in 1..n /\ x - 1 \in 1..(n - 1) /\ (x - 1) + 1 = x /\ ~(x <= x - 1)
    BY <1>4, <2>2, <2>3
  <2>5. p[x - 1] \in Held(d)
    BY <2>1, <2>4
  <2>6. capabilities[d][p[x - 1]].parent = p[x]
    <3>1. capabilities'[d][p[x - 1]].parent = p[(x - 1) + 1]
      BY <1>5, <2>4
    <3>2. QED
      BY <2>4, <2>5, <3>1
  <2>7. p[x] # Null
    <3>1. p[x] \in Held(d)'
      BY <1>5, <2>2
    <3>2. QED
      BY <3>1, NullAssumption DEF Held
  <2>8. QED
    BY <2>2, <2>5, <2>6, <2>7, RowsAreTrees
<1>7. p \in Walks(d, n, c, a)
  <2>1. p \in [1..n -> Held(d)]
    BY <1>5, <1>6
  <2>2. ASSUME NEW i \in 1..(n - 1) PROVE capabilities[d][p[i]].parent = p[i + 1]
    <3>1. i \in 1..n
      BY <1>4
    <3>2. QED
      BY <1>5, <1>6, <3>1
  <2>3. QED
    BY <1>5, <2>1, <2>2 DEF Walks
<1>8. a \in Held(d) /\ IsRoot(d, a)
  <2>1. n \in 1..n
    BY <1>4
  <2>2. a \in Held(d)
    BY <1>5, <1>6, <2>1
  <2>3. QED
    BY <1>3, <2>2 DEF IsRoot
<1>9. \A i \in 1..n : ~capabilities[d][p[i]].revoked
  BY <1>3, <1>6
<1>10. QED
  BY <1>2, <1>3, <1>7, <1>8, <1>9, AuthorizeMeans

\* What every step does to a document that has rows: none disappears, and of a
\* row only its revocation mark changes, in one direction.
LEMMA RowsPersist ==
  ASSUME TypeOK, validate, [Next]_vars, NEW d \in Documents, NEW k \in Held(d)
  PROVE  /\ k \in Held(d)'
         /\ capabilities'[d][k].parent = capabilities[d][k].parent
         /\ capabilities'[d][k].verifier = capabilities[d][k].verifier
         /\ capabilities'[d][k].operations = capabilities[d][k].operations
         /\ capabilities[d][k].revoked => capabilities'[d][k].revoked
         /\ documents'[d].state = "active" =>
              documents[d] # Null /\ documents[d].state = "active"
<1>1. d \in Existing
  BY RowsAreTrees
<1>2. ASSUME Create PROVE UNCHANGED <<documents[d], capabilities[d]>>
  <2>1. PICK a \in CreateAuthorities, s \in Authenticators, q \in RequestIds,
             e \in Documents, c \in CapabilityIds, t \in Authenticators :
               create_document(a, s, q, e, c, t)
    BY <1>2 DEF Create
  <2>2. e # d
    BY <1>1, <2>1, CreateGuard DEF create_document, Existing
  <2>3. QED
    BY <2>1, <2>2 DEF create_document, TypeOK
<1>3. ASSUME NEW e \in Documents, NEW i \in CapabilityIds, NEW s \in Authenticators,
             NEW q \in RequestIds, NEW input \in GrantInput, grant_capability(e, i, s, q, input)
      PROVE  /\ capabilities'[d][k] = capabilities[d][k]
             /\ documents'[d].state = documents[d].state
  <2>1. input.descendant \notin Held(e) /\ has_next_control_revision(e)
    BY <1>3, GrantGuard DEF grant_capability
  <2>2. e # d \/ input.descendant # k
    BY <2>1
  <2>3. capabilities'[d][k] = capabilities[d][k]
    BY <1>3, <2>2 DEF grant_capability, TypeOK, Held
  <2>4. [documents[e] EXCEPT !.control_revision = @ + 1].state = documents[e].state
    BY <2>1, NextRevisionType, RowTypes DEF Document
  <2>5. documents'[d].state = documents[d].state
    BY <1>3, <2>4 DEF grant_capability, set_control_revision, TypeOK
  <2>6. QED
    BY <2>3, <2>5
<1>4. ASSUME NEW e \in Documents, NEW i \in CapabilityIds, NEW s \in Authenticators,
             NEW q \in RequestIds, NEW input \in RevokeInput, revoke_capability(e, i, s, q, input)
      PROVE  /\ \/ capabilities'[d][k] = capabilities[d][k]
                \/ capabilities'[d][k] = [capabilities[d][k] EXCEPT !.revoked = TRUE]
             /\ documents'[d].state = documents[d].state
  <2>1. has_next_control_revision(e)
    BY <1>4, RevokeGuard DEF revoke_capability
  <2>2. [documents[e] EXCEPT !.control_revision = @ + 1].state = documents[e].state
    BY <2>1, NextRevisionType, RowTypes DEF Document
  <2>3. documents'[d].state = documents[d].state
    BY <1>4, <2>2 DEF revoke_capability, set_control_revision, TypeOK
  <2>4. QED
    BY <1>4, <2>3 DEF revoke_capability, TypeOK, Held
<1>5. ASSUME NEW e \in Documents, commit_retirement(e)
      PROVE  /\ UNCHANGED capabilities
             /\ documents'[d].state = "active" => documents[d].state = "active"
  <2>1. [documents[e] EXCEPT !.state = "retired"].state = "retired"
    BY <1>5, RowTypes DEF commit_retirement, Existing, Document
  <2>2. QED
    BY <1>5, <2>1 DEF commit_retirement, TypeOK
<1>6. ASSUME Crash \/ Restart \/ UNCHANGED vars PROVE UNCHANGED <<documents, capabilities>>
  BY <1>6 DEF Crash, Restart, Open, vars
<1>7. /\ \/ capabilities'[d][k] = capabilities[d][k]
         \/ capabilities'[d][k] = [capabilities[d][k] EXCEPT !.revoked = TRUE]
      /\ documents'[d].state = "active" => documents[d].state = "active"
  BY <1>2, <1>3, <1>4, <1>5, <1>6 DEF Next, Grant, Revoke, Retire
<1>8. capabilities[d][k] \in Capability /\ k \in CapabilityIds
  BY RowTypes DEF Held
<1>9. capabilities'[d][k] \in Capability
  BY <1>7, <1>8 DEF Capability
<1>10. k \in Held(d)'
  BY <1>8, <1>9, NullAssumption DEF Held
<1>11. QED
  BY <1>1, <1>7, <1>8, <1>10 DEF Capability, Existing

\* ---------------------------------------------------------------------------
\* Receipts.

\* A request identifier has one receipt per issuer, or per create authority.
KeysUnique ==
  /\ \A r1, r2 \in control_receipts :
       ControlKey(r1, r2.document, r2.issuer, r2.request) => r1 = r2
  /\ \A r1, r2 \in create_receipts : CreateKey(r1, r2.authority, r2.request) => r1 = r2

\* What a grant and a revocation do to the rows and to the receipts.
GrantStep(d, i, q, input) ==
  /\ control_receipts' = control_receipts \cup
       {[document |-> d, issuer |-> i, request |-> q, input |-> input]}
  /\ \A r \in control_receipts : ~ControlKey(r, d, i, q)
  /\ input.descendant \notin Held(d)
  /\ capabilities' = [capabilities EXCEPT
       ![d][input.descendant] =
          [parent |-> i, verifier |-> input.verifier,
           operations |-> input.operations, revoked |-> FALSE,
           created_revision |-> documents[d].control_revision + 1]]
  /\ create_receipts' = create_receipts

RevokeStep(d, i, q, input) ==
  /\ control_receipts' = control_receipts \cup
       {[document |-> d, issuer |-> i, request |-> q, input |-> input]}
  /\ \A r \in control_receipts : ~ControlKey(r, d, i, q)
  /\ is_active_descendant(d, i, input.target)
  /\ capabilities' = [capabilities EXCEPT
       ![d] = [c \in CapabilityIds |->
                 IF c \in Subtree(d, input.target)
                 THEN [capabilities[d][c] EXCEPT !.revoked = TRUE]
                 ELSE capabilities[d][c]]]
  /\ create_receipts' = create_receipts

\* Only a grant or a revocation writes a control receipt, and a step that writes
\* none changes rows only where it creates a document.
LEMMA ReceiptsGrow ==
  ASSUME [Next]_vars
  PROVE  \/ /\ control_receipts' = control_receipts
            /\ Create \/ UNCHANGED <<capabilities, create_receipts>>
         \/ \E d \in Documents, i \in CapabilityIds, q \in RequestIds :
              \/ \E input \in GrantInput : GrantStep(d, i, q, input)
              \/ \E input \in RevokeInput : RevokeStep(d, i, q, input)
<1>1. ASSUME Create PROVE control_receipts' = control_receipts
  BY <1>1 DEF Create, create_document
<1>2. ASSUME Retire \/ Crash \/ Restart \/ UNCHANGED vars
      PROVE  UNCHANGED <<control_receipts, capabilities, create_receipts>>
  BY <1>2 DEF Retire, commit_retirement, Crash, Restart, Open, vars
<1>3. ASSUME NEW d \in Documents, NEW i \in CapabilityIds, NEW s \in Authenticators,
             NEW q \in RequestIds, NEW input \in GrantInput, grant_capability(d, i, s, q, input)
      PROVE  GrantStep(d, i, q, input)
  <2>1. /\ \A r \in control_receipts : ~ControlKey(r, d, i, q)
        /\ input.descendant \notin Held(d)
    BY <1>3, GrantGuard DEF grant_capability
  <2>2. QED
    BY <1>3, <2>1 DEF grant_capability, insert_control_receipt, GrantStep
<1>4. ASSUME NEW d \in Documents, NEW i \in CapabilityIds, NEW s \in Authenticators,
             NEW q \in RequestIds, NEW input \in RevokeInput, revoke_capability(d, i, s, q, input)
      PROVE  RevokeStep(d, i, q, input)
  <2>1. /\ \A r \in control_receipts : ~ControlKey(r, d, i, q)
        /\ is_active_descendant(d, i, input.target)
    BY <1>4, RevokeGuard DEF revoke_capability
  <2>2. QED
    BY <1>4, <2>1 DEF revoke_capability, insert_control_receipt, RevokeStep
<1>5. QED
  BY <1>1, <1>2, <1>3, <1>4 DEF Next, Grant, Revoke

\* No two receipts share a key.
LEMMA KeysInductive ==
  ASSUME KeysUnique, [Next]_vars
  PROVE  KeysUnique'
<1>1. ASSUME NEW d, NEW i, NEW q, NEW input,
             control_receipts' = control_receipts \cup
               {[document |-> d, issuer |-> i, request |-> q, input |-> input]},
             \A r \in control_receipts : ~ControlKey(r, d, i, q),
             create_receipts' = create_receipts
      PROVE  KeysUnique'
  BY <1>1 DEF KeysUnique, ControlKey, CreateKey
<1>2. ASSUME Create PROVE KeysUnique'
  <2>1. PICK a \in CreateAuthorities, s \in Authenticators, q \in RequestIds,
             e \in Documents, c \in CapabilityIds, t \in Authenticators :
               create_document(a, s, q, e, c, t)
    BY <1>2 DEF Create
  <2>2. \A r \in create_receipts : ~CreateKey(r, a, q)
    BY <2>1, CreateGuard DEF create_document
  <2>3. QED
    BY <2>1, <2>2 DEF create_document, KeysUnique, ControlKey, CreateKey
<1>3. ASSUME UNCHANGED <<control_receipts, create_receipts>> PROVE KeysUnique'
  BY <1>3 DEF KeysUnique, ControlKey, CreateKey
<1>4. QED
  BY <1>1, <1>2, <1>3, ReceiptsGrow DEF GrantStep, RevokeStep

\* A retry meets its own receipt and no other, whatever became of the issuer.
LEMMA RetryAnswered ==
  ASSUME TypeOK, validate, KeysUnique
  PROVE  ExactRetry
<1>1. ASSUME NEW r \in control_receipts, NEW input
      PROVE  resolve_control_receipt(r.document, r.issuer,
               capabilities[r.document][r.issuer].verifier, r.request, input)
               = IF r.input = input THEN "AlreadyPresent" ELSE "RequestConflict"
  <2> DEFINE found == {x \in control_receipts :
                         ControlKey(x, r.document, r.issuer, r.request)}
  <2>1. found = {r}
    BY DEF KeysUnique, ControlKey
  <2>2. r.issuer \in Held(r.document)
    <3>1. r.document \in Existing /\ r \in ReceiptsOf(r.document)
      BY DEF validate, validate_foreign_keys, ReceiptsOf
    <3>2. QED
      BY <3>1 DEF validate, validate_capability_state, validate_document,
                  validate_control_receipt
  <2>3. QED
    BY <2>1, <2>2 DEF resolve_control_receipt
<1>2. ASSUME NEW r \in control_receipts, NEW input \in GrantInput, input.operations # {}
      PROVE  grant_capability_outcome(r.document, r.issuer,
               capabilities[r.document][r.issuer].verifier, r.request, input)
               = IF r.input = input THEN "AlreadyPresent" ELSE "RequestConflict"
  BY <1>1, <1>2 DEF grant_capability_outcome
<1>3. ASSUME NEW r \in control_receipts, NEW input \in RevokeInput
      PROVE  revoke_capability_outcome(r.document, r.issuer,
               capabilities[r.document][r.issuer].verifier, r.request, input)
               = IF r.input = input THEN "AlreadyPresent" ELSE "RequestConflict"
  BY <1>1 DEF revoke_capability_outcome
<1>4. ASSUME NEW r \in create_receipts
      PROVE  create_document_outcome(r.authority, create_authorities[r.authority].receipt,
               r.request, r.document, r.root, r.verifier) = "AlreadyPresent"
  <2>1. create_authorities[r.authority] # Null
    BY DEF validate, validate_foreign_keys
  <2>2. capabilities[r.document][r.root].verifier = r.verifier
    BY DEF validate, validate_create_state
  <2>3. r \in {x \in create_receipts : CreateKey(x, r.authority, r.request)}
    BY DEF CreateKey
  <2>4. QED
    BY <2>1, <2>2, <2>3 DEF create_document_outcome
<1>5. QED
  BY <1>2, <1>3, <1>4 DEF ExactRetry

\* The receipt of a grant names the row it made, so a new row has no receipt
\* but its own, and a receipt of an earlier row is never a later row's.
Accounted(d, c) ==
  \E r \in ReceiptsOf(d) :
    /\ r.issuer = capabilities[d][c].parent
    /\ \A other \in ReceiptsOf(d) :
         (other.input.operation = "grant" /\ other.input.descendant = c) <=> other = r

\* Grants stay accounted where neither rows nor receipts change,
LEMMA AccountedFrame ==
  ASSUME NEW d, NEW c, Accounted(d, c), NEW r,
         ReceiptsOf(d)' \in {ReceiptsOf(d), ReceiptsOf(d) \cup {r}},
         ~(r.input.operation = "grant" /\ r.input.descendant = c),
         capabilities'[d][c].parent = capabilities[d][c].parent
  PROVE  Accounted(d, c)'
BY DEF Accounted

\* where a document is created with its root,
LEMMA AccountedCreate ==
  ASSUME TypeOK, validate, GrantsAccounted, Create
  PROVE  GrantsAccounted'
<1>1. PICK a \in CreateAuthorities, s \in Authenticators, q \in RequestIds,
           e \in Documents, root \in CapabilityIds, t \in Authenticators :
             create_document(a, s, q, e, root, t)
  BY DEF Create
<1>2. Held(e) = {}
  <2>1. e \notin Existing
    BY <1>1, CreateGuard DEF create_document, Existing
  <2>2. QED
    BY <2>1 DEF validate, validate_foreign_keys
<1> DEFINE row == [parent |-> Null, verifier |-> t, operations |-> Operations,
                   revoked |-> FALSE, created_revision |-> 1]
<1>3. capabilities' = [capabilities EXCEPT ![e][root] = row] /\ UNCHANGED control_receipts
  BY <1>1 DEF create_document
<1>4. row.parent = Null
  OBVIOUS
<1> HIDE DEF row
<1>5. SUFFICES ASSUME NEW d \in Documents, NEW c \in Held(d)', ~IsRoot(d, c)'
               PROVE  Accounted(d, c)'
  BY DEF GrantsAccounted, Accounted
<1>6. ~(d = e /\ c = root)
  BY <1>3, <1>4, <1>5 DEF IsRoot, TypeOK
<1>7. c \in CapabilityIds /\ capabilities'[d][c] = capabilities[d][c]
  BY <1>3, <1>6 DEF TypeOK, Held
<1>8. c \in Held(d) /\ ~IsRoot(d, c)
  BY <1>5, <1>7 DEF Held, IsRoot
<1>9. Accounted(d, c)
  BY <1>8 DEF GrantsAccounted, Accounted
<1>10. ReceiptsOf(d)' = ReceiptsOf(d)
  BY <1>3 DEF ReceiptsOf
<1>11. QED
  BY <1>7, <1>9, <1>10 DEF Accounted

\* where a row and its receipt are inserted in one transaction,
LEMMA AccountedGrant ==
  ASSUME TypeOK, validate, GrantsAccounted,
         NEW e \in Documents, NEW i \in CapabilityIds, NEW q \in RequestIds,
         NEW input \in GrantInput, GrantStep(e, i, q, input)
  PROVE  GrantsAccounted'
<1> DEFINE k == input.descendant
           receipt == [document |-> e, issuer |-> i, request |-> q, input |-> input]
           row == [parent |-> i, verifier |-> input.verifier,
                   operations |-> input.operations, revoked |-> FALSE,
                   created_revision |-> documents[e].control_revision + 1]
<1>1. /\ control_receipts' = control_receipts \cup {receipt}
      /\ capabilities' = [capabilities EXCEPT ![e][k] = row]
      /\ k \notin Held(e)
  BY DEF GrantStep
<1>2. /\ receipt.document = e /\ receipt.issuer = i /\ row.parent = i
      /\ receipt.input.operation = "grant" /\ receipt.input.descendant = k
      /\ k \in CapabilityIds
  BY DEF GrantInput
<1> HIDE DEF receipt, row, k
<1>3. \A d : ReceiptsOf(d)' = IF d = e THEN ReceiptsOf(d) \cup {receipt} ELSE ReceiptsOf(d)
  BY <1>1, <1>2 DEF ReceiptsOf
<1>4. SUFFICES ASSUME NEW d \in Documents, NEW c \in Held(d)', ~IsRoot(d, c)'
               PROVE  Accounted(d, c)'
  BY DEF GrantsAccounted, Accounted
<1>5. CASE d = e /\ c = k
  <2>1. \A r \in ReceiptsOf(e) : r.input.operation = "grant" => r.input.descendant \in Held(e)
    <3> SUFFICES ASSUME NEW r \in ReceiptsOf(e), r.input.operation = "grant"
                 PROVE  r.input.descendant \in Held(e)
      OBVIOUS
    <3>1. r \in control_receipts /\ r.document = e
      BY DEF ReceiptsOf
    <3>2. e \in Existing
      BY <3>1 DEF validate, validate_foreign_keys
    <3>3. validate_control_receipt(r)
      BY <3>2 DEF validate, validate_capability_state, validate_document
    <3>4. QED
      BY <3>1, <3>3 DEF validate_control_receipt
  <2>2. capabilities'[e][k].parent = i
    BY <1>1, <1>2 DEF TypeOK
  <2>3. ReceiptsOf(e)' = ReceiptsOf(e) \cup {receipt}
    BY <1>3
  <2>4. \A other \in ReceiptsOf(e)' :
          (other.input.operation = "grant" /\ other.input.descendant = k) <=> other = receipt
    BY <1>1, <1>2, <2>1, <2>3
  <2>5. QED
    BY <1>2, <1>5, <2>2, <2>3, <2>4 DEF Accounted
<1>6. CASE ~(d = e /\ c = k)
  <2>1. c \in CapabilityIds /\ capabilities'[d][c] = capabilities[d][c]
    BY <1>1, <1>6 DEF TypeOK, Held
  <2>2. c \in Held(d) /\ ~IsRoot(d, c)
    BY <1>4, <2>1 DEF Held, IsRoot
  <2>3. Accounted(d, c)
    BY <2>2 DEF GrantsAccounted, Accounted
  <2>4. CASE d = e
    BY <1>2, <1>3, <1>6, <2>1, <2>3, <2>4, AccountedFrame
  <2>5. CASE d # e
    <3>1. ReceiptsOf(d)' = ReceiptsOf(d)
      BY <1>3, <2>5
    <3>2. QED
      BY <2>1, <2>3, <3>1 DEF Accounted
  <2>6. QED
    BY <2>4, <2>5
<1>7. QED
  BY <1>5, <1>6

\* where a revocation marks rows,
LEMMA AccountedRevoke ==
  ASSUME TypeOK, validate, GrantsAccounted,
         NEW e \in Documents, NEW i \in CapabilityIds, NEW q \in RequestIds,
         NEW input \in RevokeInput, RevokeStep(e, i, q, input)
  PROVE  GrantsAccounted'
<1> DEFINE receipt == [document |-> e, issuer |-> i, request |-> q, input |-> input]
<1>1. control_receipts' = control_receipts \cup {receipt}
  BY DEF RevokeStep
<1>2. receipt.document = e /\ receipt.input.operation # "grant"
  BY DEF RevokeInput
<1> HIDE DEF receipt
<1>3. \A d : ReceiptsOf(d)' = IF d = e THEN ReceiptsOf(d) \cup {receipt} ELSE ReceiptsOf(d)
  BY <1>1, <1>2 DEF ReceiptsOf
<1>4. SUFFICES ASSUME NEW d \in Documents, NEW c \in Held(d)', ~IsRoot(d, c)'
               PROVE  Accounted(d, c)'
  BY DEF GrantsAccounted, Accounted
<1>5. /\ c \in CapabilityIds
      /\ \/ capabilities'[d][c] = capabilities[d][c]
         \/ c \in Subtree(d, input.target)
            /\ capabilities'[d][c] = [capabilities[d][c] EXCEPT !.revoked = TRUE]
  BY DEF RevokeStep, TypeOK, Held
<1>6. c \in Held(d)
  BY <1>4, <1>5 DEF Held, Subtree
<1>7. capabilities'[d][c].parent = capabilities[d][c].parent
  <2>1. capabilities[d][c] \in Capability
    BY <1>6, RowTypes
  <2>2. QED
    BY <1>5, <2>1 DEF Capability
<1>8. Accounted(d, c)
  BY <1>4, <1>6, <1>7 DEF GrantsAccounted, Accounted, IsRoot
<1>9. QED
  BY <1>2, <1>3, <1>7, <1>8, AccountedFrame

\* and so in every step.
LEMMA AccountedInductive ==
  ASSUME TypeOK, validate, GrantsAccounted, [Next]_vars
  PROVE  GrantsAccounted'
<1>1. ASSUME UNCHANGED <<capabilities, control_receipts>> PROVE GrantsAccounted'
  BY <1>1 DEF GrantsAccounted, Held, IsRoot, ReceiptsOf
<1>2. QED
  BY <1>1, AccountedCreate, AccountedGrant, AccountedRevoke, ReceiptsGrow

\* ---------------------------------------------------------------------------
\* The theorems.

StoreInv == TypeOK /\ validate /\ KeysUnique /\ GrantsAccounted

\* The inductive invariant of this module.
LEMMA StoreInvariant == Spec => []StoreInv
<1>1. Init => KeysUnique /\ GrantsAccounted
  BY DEF Init, KeysUnique, GrantsAccounted, Held
<1>2. KeysUnique /\ [Next]_vars => KeysUnique'
  BY KeysInductive
<1>3. TypeOK /\ validate /\ GrantsAccounted /\ [Next]_vars => GrantsAccounted'
  BY AccountedInductive
<1>4. QED
  BY <1>1, <1>2, <1>3, TypeCorrect, RecoveryCorrect, PTL
     DEF Spec, StoreInv, RecoveryAccepts

\* The recursive query by which revoke_capability marks rows and the bounded
\* walk of is_descendant_or_self, by which subscriptions and passes are ended,
\* select the same rows, for every depth limit.
THEOREM SubtreeIsWalkCorrect == Spec => []SubtreeIsWalk
<1>1. StoreInv => SubtreeIsWalk
  BY SubtreeByWalk DEF StoreInv, SubtreeIsWalk
<1>2. QED
  BY <1>1, StoreInvariant, PTL

\* Whoever may use an operation holds it from ancestors that may all use it
\* (authorize_document, allows).
THEOREM AuthorityConfinedCorrect == Spec => []AuthorityConfined
<1>1. StoreInv => AuthorityConfined
  BY AncestorsAuthorized DEF StoreInv, AuthorityConfined
<1>2. QED
  BY <1>1, StoreInvariant, PTL

\* No step gives a capability authority that it lacks: revocation and
\* retirement are final, over grants, retries, crashes and restarts.
THEOREM AuthorityNeverReturnsCorrect == Spec => AuthorityNeverReturns
<1>1. ASSUME StoreInv, [Next]_vars, NEW d \in Documents, NEW c \in Held(d),
             NEW s \in Authenticators, NEW o \in Operations, authorize(d, c, s, o)'
      PROVE  authorize(d, c, s, o)
  <2>1. \A k \in Held(d) :
          /\ k \in Held(d)'
          /\ capabilities'[d][k].parent = capabilities[d][k].parent
          /\ capabilities'[d][k].verifier = capabilities[d][k].verifier
          /\ capabilities'[d][k].operations = capabilities[d][k].operations
          /\ capabilities[d][k].revoked => capabilities'[d][k].revoked
    BY <1>1, RowsPersist DEF StoreInv
  <2>2. documents'[d].state = "active" => documents[d] # Null /\ documents[d].state = "active"
    BY <1>1, RowsPersist DEF StoreInv
  <2>3. Held(d) \subseteq Held(d)'
    BY <2>1
  <2>4. QED
    BY <1>1, <2>1, <2>2, <2>3, NoAuthorityGained DEF StoreInv
<1>2. StoreInv /\ [Next]_vars =>
        [\A d \in Documents : \A c \in Held(d) : \A s \in Authenticators :
           \A o \in Operations :
             ~authorize(d, c, s, o) => ~authorize(d, c, s, o)']_vars
  BY <1>1
<1>3. QED
  BY <1>2, StoreInvariant, PTL DEF Spec, AuthorityNeverReturns

\* A revocation marks rows of its target's subtree alone, all of them below its
\* issuer, and no other step marks a row (revoke_capability).
THEOREM RevocationConfinedCorrect == Spec => RevocationConfined
<1>1. ASSUME StoreInv, [Next]_vars, NEW r \in control_receipts' \ control_receipts,
             NEW c \in Held(r.document),
             capabilities'[r.document][c].revoked # capabilities[r.document][c].revoked
      PROVE  /\ r.input.operation = "revoke"
             /\ is_descendant_or_self(r.document, r.input.target, c)
             /\ is_descendant_or_self(r.document, r.issuer, c)
  <2>1. ASSUME NEW d \in Documents, NEW i \in CapabilityIds, NEW q \in RequestIds,
               NEW input \in GrantInput, GrantStep(d, i, q, input)
        PROVE  FALSE
    <3>1. r.document = d
      BY <2>1 DEF GrantStep
    <3>2. c # input.descendant
      BY <2>1, <3>1 DEF GrantStep
    <3>3. capabilities'[d][c] = capabilities[d][c]
      BY <1>1, <2>1, <3>2 DEF GrantStep, StoreInv, TypeOK
    <3>4. QED
      BY <1>1, <3>1, <3>3
  <2>2. ASSUME NEW d \in Documents, NEW i \in CapabilityIds, NEW q \in RequestIds,
               NEW input \in RevokeInput, RevokeStep(d, i, q, input)
        PROVE  /\ r.input.operation = "revoke"
               /\ is_descendant_or_self(r.document, r.input.target, c)
               /\ is_descendant_or_self(r.document, r.issuer, c)
    <3>1. /\ r.document = d /\ r.issuer = i /\ r.input = input
          /\ r.input.operation = "revoke"
      BY <2>2 DEF RevokeStep, RevokeInput
    <3> DEFINE t == input.target
    <3>2. c \in Subtree(d, t)
      BY <1>1, <2>2, <3>1 DEF RevokeStep, StoreInv, TypeOK, Held
    <3>3. Reaches(d, t, i)
      BY <2>2 DEF RevokeStep, is_active_descendant, ReachesActive, Reaches
    <3>4. t \in Held(d) /\ i \in Held(d)
      <4>1. PICK n, p : n \in Nat \ {0} /\ p \in Walks(d, n, t, i)
        BY <3>3, ReachesByWalk
      <4>2. 1 \in 1..n /\ n \in 1..n
        BY <4>1
      <4>3. QED
        BY <4>1, <4>2, WalkFacts
    <3>5. is_descendant_or_self(d, t, c)
      BY <1>1, <3>1, <3>2, <3>4, SubtreeByWalk DEF StoreInv
    <3>6. t \in Subtree(d, i)
      BY <1>1, <3>3, <3>4, SubtreeByWalk DEF StoreInv, is_descendant_or_self
    <3>7. c \in Subtree(d, i)
      <4>1. Subtree(d, i) \in SUBSET Held(d)
        BY DEF Subtree
      <4>2. \A k \in Subtree(d, i) : Children(d, k) \subseteq Subtree(d, i)
        BY <3>4, SubtreeClosed
      <4>3. QED
        BY <3>2, <3>6, <4>1, <4>2 DEF Subtree
    <3>8. is_descendant_or_self(d, i, c)
      BY <1>1, <3>1, <3>4, <3>7, SubtreeByWalk DEF StoreInv
    <3>9. QED
      BY <3>1, <3>5, <3>8
  <2>3. QED
    BY <1>1, <2>1, <2>2, ReceiptsGrow
<1>2. StoreInv /\ [Next]_vars =>
        [\A r \in control_receipts' \ control_receipts : \A c \in Held(r.document) :
           capabilities'[r.document][c].revoked # capabilities[r.document][c].revoked
             => /\ r.input.operation = "revoke"
                /\ is_descendant_or_self(r.document, r.input.target, c)
                /\ is_descendant_or_self(r.document, r.issuer, c)]_vars
  BY <1>1
<1>3. QED
  BY <1>2, StoreInvariant, PTL DEF Spec, RevocationConfined

\* Every delegated row has exactly one grant receipt, of its parent
\* (grant_capability, insert_control_receipt).
THEOREM GrantsAccountedCorrect == Spec => []GrantsAccounted
BY StoreInvariant, PTL DEF StoreInv

\* A retry of what was committed is answered by its receipt, for good: also when
\* the issuer was revoked, the document retired or the store reopened
\* (resolve_control_receipt, create_document).
THEOREM ExactRetryCorrect == Spec => []ExactRetry
<1>1. StoreInv => ExactRetry
  BY RetryAnswered DEF StoreInv
<1>2. QED
  BY <1>1, StoreInvariant, PTL
----------------------------------------------------------------------------
\* The oracle's rows are the rows of the store, without the creation revision.
LEMMA OracleRow ==
  ASSUME TypeOK, NEW d \in Documents
  PROVE  /\ Oracle!Held(d) = Held(d)
         /\ \A c \in Held(d) :
              /\ OracleCapabilities[d][c].parent = capabilities[d][c].parent
              /\ OracleCapabilities[d][c].verifier = capabilities[d][c].verifier
              /\ OracleCapabilities[d][c].operations = capabilities[d][c].operations
              /\ OracleCapabilities[d][c].revoked = capabilities[d][c].revoked
<1>1. ASSUME NEW c \in Held(d)
      PROVE  /\ c \in CapabilityIds /\ OracleCapabilities[d][c] # Null
             /\ OracleCapabilities[d][c].parent = capabilities[d][c].parent
             /\ OracleCapabilities[d][c].verifier = capabilities[d][c].verifier
             /\ OracleCapabilities[d][c].operations = capabilities[d][c].operations
             /\ OracleCapabilities[d][c].revoked = capabilities[d][c].revoked
  <2>1. PICK k : k = capabilities[d][c]  OBVIOUS
  <2>2. PICK row : row = OracleCapabilities[d][c]  OBVIOUS
  <2>3. c \in CapabilityIds /\ k # Null  BY <2>1 DEF Held
  <2>4. row = [parent |-> k.parent, verifier |-> k.verifier,
               operations |-> k.operations, revoked |-> k.revoked]
    BY <2>1, <2>2, <2>3 DEF OracleCapabilities, OracleCapability
  <2>5. /\ k.parent \in CapabilityIds \cup {Null} /\ k.verifier \in Authenticators
        /\ k.operations \in SUBSET Operations /\ k.revoked \in BOOLEAN
    BY <2>1, RowTypes
  <2>6. /\ row.parent = k.parent /\ row.verifier = k.verifier
        /\ row.operations = k.operations /\ row.revoked = k.revoked
    BY <2>4
  <2>7. row \in [parent : CapabilityIds \cup {Null}, verifier : Authenticators,
                 operations : SUBSET Operations, revoked : BOOLEAN]
    BY <2>4, <2>5
  <2>8. row # Null  BY <2>7, NullIsNoOracleRow
  <2> QED  BY <2>1, <2>2, <2>3, <2>6, <2>8
<1>2. ASSUME NEW c \in CapabilityIds, c \notin Held(d)
      PROVE  OracleCapabilities[d][c] = Null
  BY <1>2 DEF Held, OracleCapabilities, OracleCapability
<1>3. Oracle!Held(d) = Held(d)
  BY <1>1, <1>2 DEF Oracle!Held, Held
<1> QED  BY <1>1, <1>3

\* The oracle's documents are the documents of the store.
LEMMA OracleDocumentRow ==
  ASSUME TypeOK, NEW d \in Documents
  PROVE  /\ OracleDocuments[d] = Null <=> documents[d] = Null
         /\ documents[d] # Null =>
              /\ OracleDocuments[d].revision = documents[d].control_revision
              /\ OracleDocuments[d].root_id = documents[d].root
<1>1. CASE documents[d] = Null  BY <1>1 DEF OracleDocuments, OracleDocument
<1>2. CASE documents[d] # Null
  <2>1. /\ documents[d].control_revision \in 1..MAX_REVISION
        /\ documents[d].root \in CapabilityIds
    BY <1>2, RowTypes DEF Existing
  <2>2. OracleDocuments[d] =
          [revision |-> documents[d].control_revision, root_id |-> documents[d].root]
    BY <1>2 DEF OracleDocuments, OracleDocument
  <2>3. OracleDocuments[d] \in [revision : 1..MAX_REVISION, root_id : CapabilityIds]
    BY <2>1, <2>2
  <2> QED  BY <1>2, <2>2, <2>3, NullIsNoOracleRow
<1> QED  BY <1>1, <1>2

\* Both programs follow the same parents.
LEMMA OracleWalks ==
  ASSUME TypeOK, NEW d \in Documents, NEW n \in Nat \ {0}, NEW c, NEW a
  PROVE  Oracle!Walks(d, n, c, a) = Walks(d, n, c, a)
<1>1. /\ Oracle!Held(d) = Held(d)
      /\ \A k \in Held(d) : OracleCapabilities[d][k].parent = capabilities[d][k].parent
  BY OracleRow
<1>2. ASSUME NEW p \in [1..n -> Held(d)], NEW i \in 1..(n - 1)
      PROVE  OracleCapabilities[d][p[i]].parent = capabilities[d][p[i]].parent
  <2>1. i \in 1..n  OBVIOUS
  <2>2. p[i] \in Held(d)  BY <2>1
  <2> QED  BY <2>2, <1>1
<1> QED  BY <1>1, <1>2 DEF Oracle!Walks, Walks

\* Below the limit every walk to the root leaves an iteration to spare.
LEMMA WalkBelowLimit ==
  ASSUME TypeOK, validate, NEW d \in Documents, NEW c, NEW a, BelowLimit(d, c),
         NEW n \in 1..MAX_CAPABILITY_DEPTH, NEW p \in Walks(d, n, c, a)
  PROVE  n \in 1..(MAX_CAPABILITY_DEPTH - 1)
<1>0. MAX_CAPABILITY_DEPTH \in Nat \ {0}  BY LimitsAssumption DEF Limits
<1>1. n \in Nat \ {0}  BY <1>0
<1>2. c \in Held(d)
  <2>1. p[1] = c /\ \A i \in 1..n : p[i] \in Held(d)  BY WalkFacts
  <2>2. 1 \in 1..n  BY <1>1
  <2> QED  BY <2>1, <2>2
<1>3. PICK m \in 1..(MAX_CAPABILITY_DEPTH - 1) : Walks(d, m, c, documents[d].root) # {}
  BY DEF BelowLimit
<1>4. PICK q : q \in Walks(d, m, c, documents[d].root)  BY <1>3
<1>5. IsRoot(d, documents[d].root)  BY <1>2, RowsAreTrees
<1>6. m \in Nat \ {0}  BY <1>0, <1>3
<1>7. n <= m  BY <1>1, <1>4, <1>5, <1>6, RootEndsWalk
<1> QED  BY <1>0, <1>1, <1>3, <1>6, <1>7

\* A row below the limit authorizes an operation in the store and in the oracle
\* alike; at the limit the oracle authorizes nothing.
LEMMA SameAuthorization ==
  ASSUME TypeOK, validate, NEW d \in Documents,
         documents[d] # Null, documents[d].state = "active",
         NEW c, NEW s, NEW o
  PROVE  Oracle!authorizes(d, c, s, o) <=> authorize(d, c, s, o) /\ BelowLimit(d, c)
<1>0. MAX_CAPABILITY_DEPTH \in Nat \ {0}  BY LimitsAssumption DEF Limits
<1>1. /\ Oracle!Held(d) = Held(d)
      /\ \A k \in Held(d) :
           /\ OracleCapabilities[d][k].parent = capabilities[d][k].parent
           /\ OracleCapabilities[d][k].verifier = capabilities[d][k].verifier
           /\ OracleCapabilities[d][k].operations = capabilities[d][k].operations
           /\ OracleCapabilities[d][k].revoked = capabilities[d][k].revoked
  BY OracleRow
<1>2. OracleDocuments[d] # Null  BY OracleDocumentRow
<1>3. \A a \in Held(d) : Oracle!IsRoot(d, a) <=> IsRoot(d, a)
  BY <1>1 DEF Oracle!IsRoot, IsRoot
<1>4. ASSUME NEW n \in Nat \ {0}, NEW a, NEW p \in Walks(d, n, c, a)
      PROVE  (\A i \in 1..n : ~OracleCapabilities[d][p[i]].revoked)
               <=> (\A i \in 1..n : ~capabilities[d][p[i]].revoked)
  <2>1. \A i \in 1..n : p[i] \in Held(d)  BY WalkFacts
  <2> QED  BY <2>1, <1>1
<1>5. ASSUME BelowLimit(d, c),
             NEW a \in Held(d), NEW n \in 1..MAX_CAPABILITY_DEPTH, IsRoot(d, a),
             NEW p \in Walks(d, n, c, a), \A i \in 1..n : ~capabilities[d][p[i]].revoked
      PROVE  \E m \in 1..(MAX_CAPABILITY_DEPTH - 1) : \E b \in Oracle!Held(d) :
               /\ Oracle!IsRoot(d, b)
               /\ \E q \in Oracle!Walks(d, m, c, b) :
                    \A i \in 1..m : ~OracleCapabilities[d][q[i]].revoked
  <2>1. n \in 1..(MAX_CAPABILITY_DEPTH - 1)  BY <1>5, WalkBelowLimit
  <2>2. n \in Nat \ {0}  BY <1>0
  <2>3. p \in Oracle!Walks(d, n, c, a)  BY <2>2, OracleWalks
  <2>4. \A i \in 1..n : ~OracleCapabilities[d][p[i]].revoked  BY <2>2, <1>4, <1>5
  <2> QED  BY <2>1, <2>3, <2>4, <1>1, <1>3, <1>5
<1>6. ASSUME NEW m \in 1..(MAX_CAPABILITY_DEPTH - 1), NEW b \in Oracle!Held(d),
             Oracle!IsRoot(d, b), NEW q \in Oracle!Walks(d, m, c, b),
             \A i \in 1..m : ~OracleCapabilities[d][q[i]].revoked
      PROVE  \E a \in Held(d), n \in 1..MAX_CAPABILITY_DEPTH :
                /\ IsRoot(d, a)
                /\ \E p \in Walks(d, n, c, a) : \A i \in 1..n : ~capabilities[d][p[i]].revoked
  <2>1. m \in 1..MAX_CAPABILITY_DEPTH /\ m \in Nat \ {0}  BY <1>0
  <2>2. q \in Walks(d, m, c, b)  BY <2>1, OracleWalks
  <2>3. \A i \in 1..m : ~capabilities[d][q[i]].revoked  BY <2>1, <2>2, <1>4, <1>6
  <2> QED  BY <2>1, <2>2, <2>3, <1>1, <1>3, <1>6
<1>7. ASSUME NEW m \in 1..(MAX_CAPABILITY_DEPTH - 1), NEW b \in Oracle!Held(d),
             Oracle!IsRoot(d, b), NEW q \in Oracle!Walks(d, m, c, b)
      PROVE  BelowLimit(d, c)
  <2>1. m \in Nat \ {0}  BY <1>0
  <2>2. q \in Walks(d, m, c, b)  BY <2>1, OracleWalks
  <2>3. b \in Held(d) /\ IsRoot(d, b)  BY <1>1, <1>3, <1>7
  <2>4. b = documents[d].root  BY <2>3, RowsAreTrees
  <2> QED  BY <2>2, <2>4 DEF BelowLimit
<1>8. Oracle!authorizes(d, c, s, o) <=>
        /\ c \in Held(d)
        /\ capabilities[d][c].verifier = s
        /\ o \in capabilities[d][c].operations
        /\ \E m \in 1..(MAX_CAPABILITY_DEPTH - 1) : \E b \in Oracle!Held(d) :
               /\ Oracle!IsRoot(d, b)
               /\ \E q \in Oracle!Walks(d, m, c, b) :
                    \A i \in 1..m : ~OracleCapabilities[d][q[i]].revoked
  BY <1>1, <1>2 DEF Oracle!authorizes
<1>9. authorize(d, c, s, o) <=>
        /\ c \in Held(d)
        /\ capabilities[d][c].verifier = s
        /\ o \in capabilities[d][c].operations
        /\ \E a \in Held(d), n \in 1..MAX_CAPABILITY_DEPTH :
                /\ IsRoot(d, a)
                /\ \E p \in Walks(d, n, c, a) : \A i \in 1..n : ~capabilities[d][p[i]].revoked
  BY AuthorizeMeans
<1> QED  BY <1>5, <1>6, <1>7, <1>8, <1>9

\* A receipt answers in the store as it answers in the oracle.
LEMMA SameReceiptAnswer ==
  ASSUME TypeOK, validate, NEW d \in Documents, documents[d] # Null,
         NEW i, NEW s, NEW q, NEW input
  PROVE  resolve_control_receipt(d, i, s, q, input) = Oracle!receipt_outcome(d, i, s, q, input)
<1>1. OracleDocuments[d] # Null  BY OracleDocumentRow
<1>2. /\ Oracle!Held(d) = Held(d)
      /\ i \in Held(d) => OracleCapabilities[d][i].verifier = capabilities[d][i].verifier
  BY OracleRow
<1>3. {r \in control_receipts : ControlKey(r, d, i, q)} =
        {r \in control_receipts : r.document = d /\ r.issuer = i /\ r.request = q}
  BY DEF ControlKey
<1>4. {r \in control_receipts : ControlKey(r, d, i, q)} # {} => i \in Held(d)
  <2>1. ASSUME NEW r \in control_receipts, ControlKey(r, d, i, q)
        PROVE  i \in Held(d)
    <3>1. r \in ReceiptsOf(d) /\ d \in Existing /\ r.document = d /\ r.issuer = i
      BY <2>1 DEF ReceiptsOf, ControlKey, Existing
    <3>2. validate_control_receipt(r)
      BY <3>1 DEF validate, validate_capability_state, validate_document
    <3> QED  BY <3>1, <3>2 DEF validate_control_receipt
  <2> QED  BY <2>1
<1> QED
  BY <1>1, <1>2, <1>3, <1>4 DEF resolve_control_receipt, Oracle!receipt_outcome

\* An active document never exhausts its revisions: a receipt is kept for each.
LEMMA RevisionsLeft ==
  ASSUME TypeOK, validate, NEW d \in Documents, documents[d] # Null
  PROVE  documents[d].control_revision \in Nat /\ documents[d].control_revision < MAX_REVISION
<1>1. /\ Cardinality(ReceiptsOf(d)) <= MAX_CONTROL_RECEIPTS_PER_DOCUMENT
      /\ documents[d].control_revision = Cardinality(ReceiptsOf(d)) + 1
  BY DEF validate, validate_capability_state, validate_document, Existing
<1>2. Cardinality(ReceiptsOf(d)) \in Nat  BY TablesFinite, FS_CardinalityType
<1>3. MAX_CONTROL_RECEIPTS_PER_DOCUMENT \in Nat  BY LimitsAssumption DEF Limits
<1> QED  BY <1>1, <1>2, <1>3, RevisionAssumption

\* Below the limit whoever is authorized may have another row beneath it, in
\* either program.
LEMMA SameCapacity ==
  ASSUME TypeOK, validate, BelowDepthLimit, NEW d \in Documents, NEW i \in Held(d)
  PROVE  issuer_has_descendant_capacity(d, i) /\ Oracle!issuer_has_descendant_capacity(d, i)
<1>1. PICK n \in 1..(MAX_CAPABILITY_DEPTH - 1) : Walks(d, n, i, documents[d].root) # {}
  BY DEF BelowDepthLimit, BelowLimit
<1>2. documents[d].root \in Held(d) /\ IsRoot(d, documents[d].root)  BY RowsAreTrees
<1>3. n \in Nat \ {0}  BY <1>1, LimitsAssumption DEF Limits
<1>4. Oracle!Walks(d, n, i, documents[d].root) # {}  BY <1>1, <1>3, OracleWalks
<1>5. documents[d].root \in Oracle!Held(d) /\ Oracle!IsRoot(d, documents[d].root)
  BY <1>2, OracleRow DEF IsRoot, Oracle!IsRoot
<1> QED
  BY <1>1, <1>2, <1>4, <1>5
  DEF issuer_has_descendant_capacity, Oracle!issuer_has_descendant_capacity

\* Both programs find the same descendants.
LEMMA SameDescendants ==
  ASSUME TypeOK, NEW d \in Documents, NEW a, NEW c
  PROVE  Oracle!is_descendant(d, a, c) <=> Reaches(d, c, a)
<1>1. MAX_CAPABILITY_DEPTH \in Nat  BY LimitsAssumption DEF Limits
<1>2. \A n \in 1..MAX_CAPABILITY_DEPTH : Oracle!Walks(d, n, c, a) = Walks(d, n, c, a)
  BY <1>1, OracleWalks
<1> QED  BY <1>2 DEF Oracle!is_descendant, Reaches

\* Above a row that is not revoked no row is: revocation marks subtrees.
LEMMA AncestorsLive ==
  ASSUME TypeOK, validate, NEW d \in Documents, NEW n \in Nat \ {0}, NEW c, NEW a,
         NEW p \in Walks(d, n, c, a), ~capabilities[d][c].revoked
  PROVE  \A i \in 1..n : ~capabilities[d][p[i]].revoked
<1> DEFINE T == {i \in 1..n : capabilities[d][p[i]].revoked}
<1> SUFFICES ASSUME T # {} PROVE FALSE
  OBVIOUS
<1>1. PICK x \in T : \A y \in T : x <= y
  <2>1. T \in SUBSET Nat
    OBVIOUS
  <2> QED  BY <2>1, LeastElement
<1>2. x \in 1..n /\ capabilities[d][p[x]].revoked
  OBVIOUS
<1>3. x # 1
  BY <1>2, WalkFacts
<1>4. x - 1 \in 1..n /\ x - 1 \in 1..(n - 1) /\ (x - 1) + 1 = x /\ ~(x <= x - 1)
  BY <1>2, <1>3
<1>5. ~capabilities[d][p[x - 1]].revoked
  BY <1>1, <1>4
<1>6. p[x - 1] \in Held(d) /\ p[x] \in Held(d) /\ capabilities[d][p[x - 1]].parent = p[x]
  <2>1. capabilities[d][p[x - 1]].parent = p[(x - 1) + 1]
    BY <1>4, WalkFacts
  <2> QED  BY <1>2, <1>4, <2>1, WalkFacts
<1>7. p[x] # Null
  BY <1>6, NullAssumption DEF Held
<1>8. ValidLink(d, p[x - 1])
  <2>1. d \in Existing  BY <1>6, RowsAreTrees
  <2> QED
    BY <1>6, <2>1
    DEF validate, validate_capability_state, validate_document, validate_capability_ancestry
<1> QED  BY <1>2, <1>5, <1>6, <1>7, <1>8 DEF ValidLink

\* The store looks for revoked rows on the whole way up to the issuer and the
\* oracle at the target alone; they agree.
LEMMA SameActiveDescendants ==
  ASSUME TypeOK, validate, NEW d \in Documents, NEW i, NEW t
  PROVE  is_active_descendant(d, i, t) <=> Oracle!is_active_descendant(d, i, t)
<1>0. MAX_CAPABILITY_DEPTH \in Nat  BY LimitsAssumption DEF Limits
<1>1. /\ Oracle!Held(d) = Held(d)
      /\ t \in Held(d) => OracleCapabilities[d][t].revoked = capabilities[d][t].revoked
  BY OracleRow
<1>2. Oracle!is_active_descendant(d, i, t) <=>
        t \in Held(d) /\ ~capabilities[d][t].revoked /\ Reaches(d, t, i)
  BY <1>1, SameDescendants DEF Oracle!is_active_descendant
<1>3. ASSUME NEW n \in 1..MAX_CAPABILITY_DEPTH, NEW p \in Walks(d, n, t, i),
             \A k \in 1..n : ~capabilities[d][p[k]].revoked
      PROVE  t \in Held(d) /\ ~capabilities[d][t].revoked /\ Reaches(d, t, i)
  <2>1. 1 \in 1..n  BY <1>0
  <2>2. t \in Held(d) /\ ~capabilities[d][t].revoked  BY <2>1, <1>3, WalkFacts
  <2> QED  BY <2>2 DEF Reaches
<1>4. ASSUME ~capabilities[d][t].revoked, NEW n \in 1..MAX_CAPABILITY_DEPTH,
             NEW p \in Walks(d, n, t, i)
      PROVE  \A k \in 1..n : ~capabilities[d][p[k]].revoked
  <2>1. n \in Nat \ {0}  BY <1>0
  <2> QED  BY <1>4, <2>1, AncestorsLive
<1> QED
  BY <1>2, <1>3, <1>4 DEF is_active_descendant, ReachesActive, Reaches

\* Below the limit the oracle and the store answer a grant alike.
LEMMA SameGrantAnswer ==
  ASSUME TypeOK, validate, BelowDepthLimit, NEW d \in Documents,
         documents[d] # Null, documents[d].state = "active",
         NEW i \in CapabilityIds, NEW s, NEW q, NEW input \in GrantInput,
         input.operations # {}
  PROVE  grant_capability_outcome(d, i, s, q, input) \in
           {Oracle!grant_outcome(d, i, s, q, input), "LimitExceeded"}
<1>1. resolve_control_receipt(d, i, s, q, input) = Oracle!receipt_outcome(d, i, s, q, input)
  BY SameReceiptAnswer
<1>2. authorize(d, i, s, "grant") <=> Oracle!authorizes(d, i, s, "grant")
  BY SameAuthorization, AuthorizedRow DEF BelowDepthLimit
<1>3. has_next_control_revision(d) /\ ~(OracleDocuments[d].revision >= MAX_REVISION)
  BY RevisionsLeft, RevisionAssumption, OracleDocumentRow DEF has_next_control_revision
<1>4. authorize(d, i, s, "grant") =>
        /\ i \in Held(d)
        /\ issuer_has_descendant_capacity(d, i)
        /\ Oracle!issuer_has_descendant_capacity(d, i)
        /\ allows(capabilities[d][i].operations, input.operations) <=>
             input.operations \subseteq OracleCapabilities[d][i].operations
  <2>1. SUFFICES ASSUME authorize(d, i, s, "grant")
                 PROVE  /\ i \in Held(d)
                        /\ issuer_has_descendant_capacity(d, i)
                        /\ Oracle!issuer_has_descendant_capacity(d, i)
                        /\ allows(capabilities[d][i].operations, input.operations) <=>
                             input.operations \subseteq OracleCapabilities[d][i].operations
    OBVIOUS
  <2>2. i \in Held(d)  BY <2>1, AuthorizedRow
  <2>3. OracleCapabilities[d][i].operations = capabilities[d][i].operations
    BY <2>2, OracleRow
  <2> QED  BY <2>2, <2>3, SameCapacity DEF allows
<1>5. Oracle!Held(d) = Held(d)  BY OracleRow
<1> QED
  BY <1>1, <1>2, <1>3, <1>4, <1>5 DEF grant_capability_outcome, Oracle!grant_outcome

\* Below the limit the oracle and the store answer a revocation alike.
LEMMA SameRevokeAnswer ==
  ASSUME TypeOK, validate, BelowDepthLimit, NEW d \in Documents,
         documents[d] # Null, documents[d].state = "active",
         NEW i \in CapabilityIds, NEW s, NEW q, NEW input \in RevokeInput
  PROVE  revoke_capability_outcome(d, i, s, q, input) \in
           {Oracle!revoke_outcome(d, i, s, q, input), "LimitExceeded"}
<1>1. resolve_control_receipt(d, i, s, q, input) = Oracle!receipt_outcome(d, i, s, q, input)
  BY SameReceiptAnswer
<1>2. authorize(d, i, s, "revoke") <=> Oracle!authorizes(d, i, s, "revoke")
  BY SameAuthorization, AuthorizedRow DEF BelowDepthLimit
<1>3. has_next_control_revision(d) /\ ~(OracleDocuments[d].revision >= MAX_REVISION)
  BY RevisionsLeft, RevisionAssumption, OracleDocumentRow DEF has_next_control_revision
<1>4. is_active_descendant(d, i, input.target) <=>
        Oracle!is_active_descendant(d, i, input.target)
  BY SameActiveDescendants
<1> QED
  BY <1>1, <1>2, <1>3, <1>4 DEF revoke_capability_outcome, Oracle!revoke_outcome
----------------------------------------------------------------------------
\* The rows of the oracle after a change of one row of the store.
LEMMA OracleRowWritten ==
  ASSUME TypeOK, NEW d \in Documents, NEW c \in CapabilityIds, NEW row \in Capability,
         capabilities' = [capabilities EXCEPT ![d][c] = row]
  PROVE  OracleCapabilities' =
           [OracleCapabilities EXCEPT
              ![d][c] = [parent |-> row.parent, verifier |-> row.verifier,
                         operations |-> row.operations, revoked |-> row.revoked]]
<1>1. row # Null  BY NullAssumption
<1>2. \A e \in Documents, k \in CapabilityIds :
        capabilities'[e][k] = IF e = d /\ k = c THEN row ELSE capabilities[e][k]
  BY DEF TypeOK
<1>3. \A e \in Documents, k \in CapabilityIds :
        OracleCapability(e, k)' =
          IF e = d /\ k = c
          THEN [parent |-> row.parent, verifier |-> row.verifier,
                operations |-> row.operations, revoked |-> row.revoked]
          ELSE OracleCapability(e, k)
  BY <1>1, <1>2 DEF OracleCapability
<1> QED  BY <1>3 DEF OracleCapabilities

\* A creation is a creation of the oracle.
LEMMA CreateRefines ==
  ASSUME TypeOK, validate, Create
  PROVE  Oracle!Next
<1>1. PICK a \in CreateAuthorities, s \in Authenticators, q \in RequestIds,
           d \in Documents, c \in CapabilityIds, t \in Authenticators :
             create_document(a, s, q, d, c, t)
  BY DEF Create
<1>2. documents[d] = Null
  BY <1>1, CreateGuard DEF create_document
<1>3. PICK row : row = [parent |-> Null, verifier |-> t, operations |-> Operations,
                        revoked |-> FALSE, created_revision |-> 1]
  OBVIOUS
<1>4. row \in Capability
  BY <1>3, RevisionAssumption, LimitsAssumption DEF Capability, Limits
<1>5. capabilities' = [capabilities EXCEPT ![d][c] = row]
  BY <1>1, <1>3 DEF create_document
<1>6. OracleCapabilities' =
        [OracleCapabilities EXCEPT
           ![d][c] = [parent |-> Null, verifier |-> t, operations |-> Operations,
                      revoked |-> FALSE]]
  <2>1. OracleCapabilities' =
          [OracleCapabilities EXCEPT
              ![d][c] = [parent |-> row.parent, verifier |-> row.verifier,
                         operations |-> row.operations, revoked |-> row.revoked]]
    BY <1>4, <1>5, OracleRowWritten
  <2>2. row.parent = Null /\ row.verifier = t /\ row.operations = Operations /\ row.revoked = FALSE
    BY <1>3
  <2> QED  BY <2>1, <2>2
<1>7. OracleDocuments' = [OracleDocuments EXCEPT ![d] = [revision |-> 1, root_id |-> c]]
  <2>1. PICK doc : doc = [state |-> "active", control_revision |-> 1, root |-> c]
    OBVIOUS
  <2>2. doc \in Document /\ doc # Null
    BY <2>1, RevisionAssumption, LimitsAssumption, NullAssumption DEF Document, Limits
  <2>3. documents' = [documents EXCEPT ![d] = doc]
    BY <1>1, <2>1 DEF create_document
  <2>4. \A e \in Documents : documents'[e] = IF e = d THEN doc ELSE documents[e]
    BY <2>3 DEF TypeOK
  <2>5. doc.control_revision = 1 /\ doc.root = c  BY <2>1
  <2>6. \A e \in Documents :
          OracleDocument(e)' =
            IF e = d THEN [revision |-> 1, root_id |-> c] ELSE OracleDocument(e)
    BY <2>2, <2>4, <2>5 DEF OracleDocument
  <2> QED  BY <2>6 DEF OracleDocuments
<1>8. OracleDocuments[d] = Null  BY <1>2, OracleDocumentRow
<1>9. Oracle!create_document(d, c, t)
  BY <1>1, <1>6, <1>7, <1>8
  DEF Oracle!create_document, Oracle!create_document_outcome, create_document
<1> QED  BY <1>9 DEF Oracle!Next

\* A control mutation counts one revision of the document.
LEMMA RevisionRefines ==
  ASSUME TypeOK, NEW d \in Documents, has_next_control_revision(d),
         NEW i, NEW q, NEW input, insert_control_receipt(d, i, q, input),
         set_control_revision(d)
  PROVE  Oracle!insert_receipt(d, i, q, input)
<1>1. /\ d \in Existing /\ documents[d].control_revision + 1 \in 1..MAX_REVISION
      /\ [documents[d] EXCEPT !.control_revision = @ + 1] \in Document
      /\ documents[d] \in Document /\ documents[d] # Null
  BY NextRevisionType, RowTypes DEF Existing
<1>2. PICK doc : doc = [documents[d] EXCEPT !.control_revision = @ + 1]
  OBVIOUS
<1>3. /\ doc # Null /\ doc.control_revision = documents[d].control_revision + 1
      /\ doc.root = documents[d].root
  BY <1>1, <1>2, NullAssumption DEF Document
<1>4. \A e \in Documents : documents'[e] = IF e = d THEN doc ELSE documents[e]
  BY <1>2 DEF TypeOK, set_control_revision
<1>5. OracleDocument(d) =
        [revision |-> documents[d].control_revision, root_id |-> documents[d].root]
  BY <1>1 DEF OracleDocument
<1>6. \A e \in Documents :
        OracleDocument(e)' =
          IF e = d THEN [OracleDocument(d) EXCEPT !.revision = @ + 1] ELSE OracleDocument(e)
  <2>1. OracleDocument(d)' =
          [revision |-> documents[d].control_revision + 1, root_id |-> documents[d].root]
    BY <1>3, <1>4 DEF OracleDocument
  <2>2. OracleDocument(d)' = [OracleDocument(d) EXCEPT !.revision = @ + 1]
    BY <2>1, <1>5
  <2>3. \A e \in Documents \ {d} : OracleDocument(e)' = OracleDocument(e)
    BY <1>4 DEF OracleDocument
  <2> QED  BY <2>2, <2>3
<1>7. OracleDocuments' = [OracleDocuments EXCEPT ![d].revision = @ + 1]
  BY <1>6 DEF OracleDocuments
<1> QED  BY <1>7 DEF Oracle!insert_receipt, insert_control_receipt

\* A grant is a grant of the oracle.
LEMMA GrantRefines ==
  ASSUME TypeOK, validate, BelowDepthLimit, Grant
  PROVE  Oracle!Next
<1>1. PICK d \in Documents, i \in CapabilityIds, s \in Authenticators,
           q \in RequestIds, input \in GrantInput :
             grant_capability(d, i, s, q, input)
  BY DEF Grant
<1>2. grant_capability_outcome(d, i, s, q, input) = "Inserted"
  BY <1>1 DEF grant_capability
<1>3. /\ input.operations # {} /\ authorize(d, i, s, "grant") /\ has_next_control_revision(d)
  BY <1>2, GrantGuard
<1>4. documents[d] # Null /\ documents[d].state = "active"
  BY <1>3, AuthorizedRow
<1>5. Oracle!grant_outcome(d, i, s, q, input) = "Inserted"
  BY <1>2, <1>3, <1>4, SameGrantAnswer
<1>6. PICK row : row = [parent |-> i, verifier |-> input.verifier,
                        operations |-> input.operations, revoked |-> FALSE,
                        created_revision |-> documents[d].control_revision + 1]
  OBVIOUS
<1>7. /\ input.descendant \in CapabilityIds /\ input.verifier \in Authenticators
      /\ input.operations \in SUBSET Operations
  BY DEF GrantInput
<1>8. documents[d].control_revision + 1 \in 1..MAX_REVISION  BY <1>3, NextRevisionType
<1>9. row \in Capability  BY <1>6, <1>7, <1>8 DEF Capability
<1>10. /\ capabilities' = [capabilities EXCEPT ![d][input.descendant] = row]
       /\ insert_control_receipt(d, i, q, input) /\ set_control_revision(d)
  BY <1>1, <1>6 DEF grant_capability
<1>11. OracleCapabilities' =
         [OracleCapabilities EXCEPT
            ![d][input.descendant] =
               [parent |-> i, verifier |-> input.verifier,
                operations |-> input.operations, revoked |-> FALSE]]
  <2>1. OracleCapabilities' =
          [OracleCapabilities EXCEPT
              ![d][input.descendant] =
                        [parent |-> row.parent, verifier |-> row.verifier,
                         operations |-> row.operations, revoked |-> row.revoked]]
    BY <1>7, <1>9, <1>10, OracleRowWritten
  <2>2. /\ row.parent = i /\ row.verifier = input.verifier
        /\ row.operations = input.operations /\ row.revoked = FALSE
    BY <1>6
  <2> QED  BY <2>1, <2>2
<1>12. Oracle!insert_receipt(d, i, q, input)  BY <1>3, <1>10, RevisionRefines
<1>13. Oracle!grant(d, i, s, q, input)  BY <1>5, <1>11, <1>12 DEF Oracle!grant
<1>14. input \in Oracle!GrantInput  BY DEF GrantInput, Oracle!GrantInput
<1> QED  BY <1>13, <1>14 DEF Oracle!Next

\* A revocation is a revocation of the oracle: the recursive query of the store
\* marks the rows that the oracle's walk finds.
LEMMA RevokeRefines ==
  ASSUME TypeOK, validate, BelowDepthLimit, Revoke
  PROVE  Oracle!Next
<1>1. PICK d \in Documents, i \in CapabilityIds, s \in Authenticators,
           q \in RequestIds, input \in RevokeInput :
             revoke_capability(d, i, s, q, input)
  BY DEF Revoke
<1>2. revoke_capability_outcome(d, i, s, q, input) = "Inserted"
  BY <1>1 DEF revoke_capability
<1>3. /\ authorize(d, i, s, "revoke") /\ has_next_control_revision(d)
      /\ is_active_descendant(d, i, input.target)
  BY <1>2, RevokeGuard
<1>4. documents[d] # Null /\ documents[d].state = "active"
  BY <1>3, AuthorizedRow
<1>5. Oracle!revoke_outcome(d, i, s, q, input) = "Inserted"
  BY <1>2, <1>4, SameRevokeAnswer
<1>6. PICK t \in CapabilityIds : t = input.target  BY DEF RevokeInput
<1>7. t \in Held(d)
  BY <1>3, <1>6, SameActiveDescendants, OracleRow DEF Oracle!is_active_descendant
<1>8. \A c \in CapabilityIds :
        c \in Subtree(d, t) <=> c \in Oracle!Held(d) /\ Oracle!is_descendant(d, t, c)
  <2>1. ASSUME NEW c \in Held(d)
        PROVE  c \in Subtree(d, t) <=> Reaches(d, c, t)
    <3>1. Reaches(d, t, t)
      <4>1. [k \in 1..1 |-> t] \in Walks(d, 1, t, t)  BY <1>7 DEF Walks
      <4>2. 1 \in 1..MAX_CAPABILITY_DEPTH  BY LimitsAssumption DEF Limits
      <4> QED  BY <4>1, <4>2 DEF Reaches
    <3> QED  BY <3>1, <1>7, SubtreeByWalk DEF is_descendant_or_self
  <2>2. Subtree(d, t) \subseteq Held(d)  BY DEF Subtree
  <2> QED  BY <2>1, <2>2, OracleRow, SameDescendants
<1>9. capabilities' = [capabilities EXCEPT
        ![d] = [c \in CapabilityIds |->
                  IF c \in Subtree(d, t)
                  THEN [capabilities[d][c] EXCEPT !.revoked = TRUE]
                  ELSE capabilities[d][c]]]
  BY <1>1, <1>6 DEF revoke_capability
<1>10. ASSUME NEW c \in CapabilityIds
       PROVE  OracleCapability(d, c)' =
                IF c \in Subtree(d, t)
                THEN [OracleCapability(d, c) EXCEPT !.revoked = TRUE]
                ELSE OracleCapability(d, c)
  <2>1. CASE c \notin Subtree(d, t)
    <3>1. capabilities'[d][c] = capabilities[d][c]  BY <1>9, <2>1 DEF TypeOK
    <3> QED  BY <2>1, <3>1 DEF OracleCapability
  <2>2. CASE c \in Subtree(d, t)
    <3>1. PICK k : k = capabilities[d][c]  OBVIOUS
    <3>2. k \in Capability /\ k # Null
      BY <2>2, <3>1, RowTypes DEF Subtree, Held
    <3>3. PICK row : row = [k EXCEPT !.revoked = TRUE]  OBVIOUS
    <3>4. capabilities'[d][c] = row  BY <1>9, <2>2, <3>1, <3>3 DEF TypeOK
    <3>5. /\ row \in Capability /\ row.parent = k.parent /\ row.verifier = k.verifier
          /\ row.operations = k.operations /\ row.revoked = TRUE
      BY <3>2, <3>3 DEF Capability
    <3>6. row # Null  BY <3>5, NullAssumption
    <3>7. OracleCapability(d, c)' =
            [parent |-> k.parent, verifier |-> k.verifier,
             operations |-> k.operations, revoked |-> TRUE]
      BY <3>4, <3>5, <3>6 DEF OracleCapability
    <3>8. OracleCapability(d, c) =
            [parent |-> k.parent, verifier |-> k.verifier,
             operations |-> k.operations, revoked |-> k.revoked]
      BY <3>1, <3>2 DEF OracleCapability
    <3>9. [OracleCapability(d, c) EXCEPT !.revoked = TRUE] =
            [parent |-> k.parent, verifier |-> k.verifier,
             operations |-> k.operations, revoked |-> TRUE]
      <4>1. PICK old : old = OracleCapability(d, c)  OBVIOUS
      <4>2. PICK x, r : x = TRUE /\ r = k.revoked  OBVIOUS
      <4>3. old = [parent |-> k.parent, verifier |-> k.verifier,
                   operations |-> k.operations, revoked |-> r]
        BY <3>8, <4>1, <4>2
      <4>4. [old EXCEPT !.revoked = x] =
              [parent |-> k.parent, verifier |-> k.verifier,
               operations |-> k.operations, revoked |-> x]
        BY <4>3
      <4> QED  BY <4>1, <4>2, <4>4
    <3> QED  BY <2>2, <3>7, <3>9
  <2> QED  BY <2>1, <2>2
<1>11. \A e \in Documents \ {d}, c \in CapabilityIds :
         OracleCapability(e, c)' = OracleCapability(e, c)
  <2>1. \A e \in Documents \ {d} : capabilities'[e] = capabilities[e]
    BY <1>9 DEF TypeOK
  <2> QED  BY <2>1 DEF OracleCapability
<1>12. OracleCapabilities' =
         [OracleCapabilities EXCEPT
            ![d] = [c \in CapabilityIds |->
                      IF c \in Oracle!Held(d) /\ Oracle!is_descendant(d, t, c)
                      THEN [OracleCapabilities[d][c] EXCEPT !.revoked = TRUE]
                      ELSE OracleCapabilities[d][c]]]
  <2>1. \A c \in CapabilityIds : OracleCapabilities[d][c] = OracleCapability(d, c)
    BY DEF OracleCapabilities
  <2>2. \A c \in CapabilityIds :
          OracleCapability(d, c)' =
            IF c \in Oracle!Held(d) /\ Oracle!is_descendant(d, t, c)
            THEN [OracleCapabilities[d][c] EXCEPT !.revoked = TRUE]
            ELSE OracleCapabilities[d][c]
    BY <1>8, <1>10, <2>1
  <2>3. PICK marked : marked =
          [c \in CapabilityIds |->
             IF c \in Oracle!Held(d) /\ Oracle!is_descendant(d, t, c)
             THEN [OracleCapabilities[d][c] EXCEPT !.revoked = TRUE]
             ELSE OracleCapabilities[d][c]]
    OBVIOUS
  <2>4. [c \in CapabilityIds |-> OracleCapability(d, c)'] = marked
    BY <2>2, <2>3
  <2>5. \A e \in Documents \ {d} :
          [c \in CapabilityIds |-> OracleCapability(e, c)'] =
            [c \in CapabilityIds |-> OracleCapability(e, c)]
    BY <1>11
  <2>6. OracleCapabilities' = [OracleCapabilities EXCEPT ![d] = marked]
    BY <2>4, <2>5 DEF OracleCapabilities
  <2> QED  BY <2>3, <2>6
<1>13. insert_control_receipt(d, i, q, input) /\ set_control_revision(d)
  BY <1>1 DEF revoke_capability
<1>14. Oracle!insert_receipt(d, i, q, input)  BY <1>3, <1>13, RevisionRefines
<1>15. Oracle!revoke(d, i, s, q, input)
  BY <1>5, <1>6, <1>12, <1>14 DEF Oracle!revoke
<1>16. input \in Oracle!RevokeInput  BY DEF RevokeInput, Oracle!RevokeInput
<1> QED  BY <1>15, <1>16 DEF Oracle!Next

\* Retirement, a crash and a restart change nothing that the oracle keeps.
LEMMA OthersStutter ==
  ASSUME TypeOK, Retire \/ Crash \/ Restart \/ UNCHANGED vars
  PROVE  UNCHANGED Oracle!vars
<1>1. capabilities' = capabilities /\ control_receipts' = control_receipts
  BY DEF Retire, commit_retirement, Crash, Restart, Open, vars
<1>2. OracleCapabilities' = OracleCapabilities
  BY <1>1 DEF OracleCapabilities, OracleCapability
<1>3. CASE documents' = documents
  BY <1>1, <1>2, <1>3 DEF Oracle!vars, OracleDocuments, OracleDocument
<1>4. ASSUME NEW d \in Documents, commit_retirement(d)
      PROVE  UNCHANGED Oracle!vars
  <2>1. documents[d] \in Document /\ documents[d] # Null
    BY <1>4, RowTypes DEF commit_retirement, Existing
  <2>2. PICK doc : doc = [documents[d] EXCEPT !.state = "retired"]  OBVIOUS
  <2>3. /\ doc # Null /\ doc.control_revision = documents[d].control_revision
        /\ doc.root = documents[d].root
    BY <2>1, <2>2, NullAssumption DEF Document
  <2>4. \A e \in Documents : documents'[e] = IF e = d THEN doc ELSE documents[e]
    BY <1>4, <2>2 DEF TypeOK, commit_retirement
  <2>5. \A e \in Documents : OracleDocument(e)' = OracleDocument(e)
    BY <2>1, <2>3, <2>4 DEF OracleDocument
  <2> QED  BY <1>1, <1>2, <2>5 DEF Oracle!vars, OracleDocuments
<1> QED
  BY <1>3, <1>4 DEF Retire, Crash, Restart, Open, vars
----------------------------------------------------------------------------
\* OracleAuthorizes: on an active document the oracle's authorizes gives a
\* capability the authority authorize_document gives it, but for the rows at the
\* depth limit, which the oracle denies.
THEOREM OracleAuthorizesCorrect == Spec => []OracleAuthorizes
<1>1. StoreInv => OracleAuthorizes
  BY SameAuthorization DEF StoreInv, OracleAuthorizes, Existing
<1> QED  BY <1>1, StoreInvariant, PTL

\* OracleGrantOutcome: wherever no chain has reached the depth limit,
\* grant_capability answers as the oracle does or that a limit is exceeded.
THEOREM OracleGrantOutcomeCorrect == Spec => [](BelowDepthLimit => OracleGrantOutcome)
<1>1. StoreInv /\ BelowDepthLimit => OracleGrantOutcome
  BY SameGrantAnswer DEF StoreInv, OracleGrantOutcome, Existing
<1> QED  BY <1>1, StoreInvariant, PTL

\* OracleRevokeOutcome: wherever no chain has reached the depth limit,
\* revoke_capability answers as the oracle does or that a limit is exceeded.
THEOREM OracleRevokeOutcomeCorrect == Spec => [](BelowDepthLimit => OracleRevokeOutcome)
<1>1. StoreInv /\ BelowDepthLimit => OracleRevokeOutcome
  BY SameRevokeAnswer DEF StoreInv, OracleRevokeOutcome, Existing
<1> QED  BY <1>1, StoreInvariant, PTL

\* OracleSpec: a behaviour whose chains stay below the depth limit is one of the
\* oracle: every committed create, grant and revoke is the oracle's, and
\* retirements, crashes and restarts are stutters.
THEOREM OracleSpecCorrect == Spec /\ []BelowDepthLimit => OracleSpec
<1>1. Init => Oracle!Init
  BY DEF Init, Oracle!Init, OracleDocuments, OracleDocument, OracleCapabilities, OracleCapability
<1>2. StoreInv /\ BelowDepthLimit /\ [Next]_vars => [Oracle!Next]_(Oracle!vars)
  <2> SUFFICES ASSUME StoreInv, BelowDepthLimit, [Next]_vars
               PROVE  [Oracle!Next]_(Oracle!vars)
    OBVIOUS
  <2>1. TypeOK /\ validate  BY DEF StoreInv
  <2>2. CASE Create  BY <2>1, <2>2, CreateRefines
  <2>3. CASE Grant  BY <2>1, <2>3, GrantRefines
  <2>4. CASE Revoke  BY <2>1, <2>4, RevokeRefines
  <2>5. CASE Retire \/ Crash \/ Restart \/ UNCHANGED vars  BY <2>1, <2>5, OthersStutter
  <2> QED  BY <2>2, <2>3, <2>4, <2>5 DEF Next
<1> QED  BY <1>1, <1>2, StoreInvariant, PTL DEF Spec, OracleSpec, Oracle!Spec
============================================================================
