------------------------- MODULE UpdatePassesProofs -------------------------
(***************************************************************************)
(* The passes and tokens of the update store, for every number of          *)
(* documents, updates, channels and tokens and every limit: a token is     *)
(* honoured for its own query and answered once, the owner of a pass gets  *)
(* a page that can be encoded, a restart is admitted, and the pages of a   *)
(* chain are what the oracle UpdateModel selects.                          *)
(*                                                                         *)
(* The argument is PassesInv.  It ties every pass to the tickets of its    *)
(* tokens (who it was minted for, what its chain delivered, what it was    *)
(* exchanged for), keeps a pass inside the window that it captured, lets a *)
(* token lead to one pass, and counts the passes against the limits.  The  *)
(* rows of a document are never altered and new ones lie behind all others *)
(* (TablesGrow), so what a window held when it was read is what it holds.  *)
(*                                                                         *)
(* The order: numbers, windows and pages; the limits; what each request    *)
(* answers in a state of the invariant; the properties that follow; then   *)
(* one lemma for every operation that it keeps the invariant.              *)
(***************************************************************************)
EXTENDS UpdateStoreProofs, FunctionTheorems, WellFoundedInduction

\* Who holds the pass may read: its channel is open and its authority stands.
Live(p) == p.channel \in channels /\ authorize(p.document, p.capability)

\* The position up to which an enumeration pass has read.
Through(p) == p.lower + p.current.next_ordinal

\* A token was minted for the query of the pass, in this mode.
TicketFor(token, mode, p, version) ==
  /\ token \in 1..Len(issued)
  /\ issued[token].mode = mode
  /\ issued[token].version = version
  /\ issued[token].channel = p.channel
  /\ issued[token].document = p.document
  /\ issued[token].capability = p.capability

\* What the version lacks in a window.
Lacking(d, version, after, through) ==
  {u \in Window(d, after, through) : Selected(d, u, version)}

\* An enumeration pass stands inside its window, its current token was never
\* exchanged and has delivered what lies before its position, and its retry
\* token was exchanged for the answer that the pass keeps.
EnumerationPassInv(p) ==
  /\ Live(p)
  /\ p.terminal <= Cardinality(Stored(p.document))
  /\ p.lower < Through(p) /\ Through(p) <= p.terminal
  /\ p.current.mode = IF Through(p) < p.terminal THEN "Continue" ELSE "AfterTail"
  /\ TicketFor(p.current.token, p.current.mode, p, Null)
  /\ issued[p.current.token].answer = Null
  /\ issued[p.current.token].delivered = Count(Window(p.document, 0, Through(p)))
  /\ issued[p.current.token].captured = p.terminal
  /\ p.retry # Null =>
       /\ p.retry.token # p.current.token
       /\ TicketFor(p.retry.token, p.retry.mode, p, Null)
       /\ issued[p.retry.token].answer = p.retry.response

\* The same of a vector pass; one that has ended keeps its last answer.
VectorPassInv(p) ==
  /\ Live(p)
  /\ p.terminal <= Cardinality(Stored(p.document))
  /\ p.current # Null =>
       /\ p.current.position < p.terminal
       /\ TicketFor(p.current.token, "Vector", p, p.version)
       /\ issued[p.current.token].answer = Null
       /\ issued[p.current.token].delivered =
            Count(Lacking(p.document, p.version, 0, p.current.position))
       /\ issued[p.current.token].captured = p.terminal
  /\ p.retry # Null =>
       /\ p.current # Null => p.retry.token # p.current.token
       /\ TicketFor(p.retry.token, "Vector", p, p.version)
       /\ issued[p.retry.token].answer = p.retry.response
  /\ p.current = Null =>
       /\ p.retry # Null
       /\ p.retry.response.has_more = FALSE /\ p.retry.response.next_cursor = Null
       /\ p.retry.response.updates \subseteq Stored(p.document)
       /\ Fits(p.document, p.retry.response.updates)

HasToken(p, token) ==
  p.current.token = token \/ (p.retry # Null /\ p.retry.token = token)

\* A token leads to one pass.
TokensUnique ==
  /\ \A p, q \in enumeration_passes : \A t \in 1..Len(issued) :
       HasToken(p, t) /\ HasToken(q, t) => p = q
  /\ \A p, q \in vector_passes : \A t \in 1..Len(issued) :
       vector_pass_contains_token(p, t) /\ vector_pass_contains_token(q, t) => p = q

\* What the chain of pages before a token of an enumeration has delivered.
EnumerationTicket(k) ==
  \E n \in 1..k.captured :
    /\ k.delivered = Count(Window(k.document, 0, n))
    /\ k.mode = "AfterTail" <=> n = k.captured

\* The same for a vector token; the last page delivers the rest.
VectorTicket(k) ==
  \E n \in 0..k.captured :
    /\ k.delivered = Count(Lacking(k.document, k.version, 0, n))
    /\ (k.answer # Null /\ ~k.answer.has_more) =>
         k.answer.updates = Lacking(k.document, k.version, n, k.captured)

TicketInv(k) ==
  /\ k.captured <= Cardinality(Stored(k.document))
  /\ k.mode # "Vector" => EnumerationTicket(k)
  /\ k.mode = "Vector" => VectorTicket(k)
  /\ k.answer # Null => k.answer.next_cursor \in {Null} \cup 1..Len(issued)

\* The limits of a table of passes.
WithinLimits(table) ==
  /\ IsFiniteSet(table)
  /\ Cardinality(table) <= MAX_PASSES
  /\ \A ch : Cardinality({p \in table : p.channel = ch}) <= MAX_PASSES_PER_CHANNEL
  /\ \A d : Cardinality({p \in table : p.document = d}) <= MAX_PASSES_PER_DOCUMENT
  /\ \A d, c : Cardinality({p \in {x \in table : x.document = d} : p.capability = c})
                 <= MAX_PASSES_PER_AUTHORITY
----------------------------------------------------------------------------
\* A nonempty set of numbers has a least element.
LEMMA LeastElement ==
  ASSUME NEW T \in SUBSET Nat, T # {}
  PROVE  \E x \in T : \A y \in T : x <= y
<1>1. PICK x \in T : \A y \in T : ~(<<y, x>> \in OpToRel(<, Nat))
  BY NatLessThanWellFounded, WFMin, Zenon
<1>2. \A y \in T : ~(y < x)  BY <1>1 DEF OpToRel
<1> QED  BY <1>2

\* Max is the greatest element of a bounded set of numbers.
LEMMA MaxMeans ==
  ASSUME NEW b \in Nat, NEW S \in SUBSET (0..b), S # {}
  PROVE  Max(S) \in S /\ \A y \in S : y <= Max(S)
<1>1. PICK T : T = {n \in 0..b : b - n \in S}  OBVIOUS
<1>2. T \in SUBSET Nat  BY <1>1
<1>3. \A y \in S : y \in Int /\ b - y \in 0..b /\ b - (b - y) = y  OBVIOUS
<1>4. T # {}  BY <1>1, <1>3
<1>5. PICK t \in T : \A n \in T : t <= n  BY <1>2, <1>4, LeastElement
<1>6. t \in 0..b /\ b - t \in S  BY <1>1
<1>7. \A y \in S : b - t >= y
  <2> TAKE y \in S
  <2>1. b - y \in T  BY <1>1, <1>3
  <2>2. t <= b - y  BY <1>5, <2>1
  <2> QED  BY <1>3, <1>6, <2>2
<1>8. Max(S) \in S /\ \A y \in S : Max(S) >= y  BY <1>6, <1>7 DEF Max
<1> QED  BY <1>3, <1>8

\* The smaller of two numbers.
LEMMA MinMeans ==
  ASSUME NEW a \in Int, NEW b \in Int
  PROVE  Min({a, b}) = IF a <= b THEN a ELSE b
<1>1. \E x \in {a, b} : \A y \in {a, b} : x =< y  OBVIOUS
<1>2. Min({a, b}) \in {a, b} /\ \A y \in {a, b} : Min({a, b}) =< y  BY <1>1 DEF Min
<1> QED  BY <1>2

\* The positions of a document are 1 to the number of its rows, each taken once.
LEMMA Positions ==
  ASSUME TablesInv, NEW d \in Documents
  PROVE  /\ Cardinality(Stored(d)) \in Nat /\ Cardinality(Stored(d)) < MAX_SEQUENCE
         /\ \A u \in Stored(d) : SequenceOf(d, u) \in 1..Cardinality(Stored(d))
         /\ \A n \in 1..Cardinality(Stored(d)) : \E u \in Stored(d) : SequenceOf(d, u) = n
         /\ \A u, v \in Stored(d) : SequenceOf(d, u) = SequenceOf(d, v) => u = v
<1>1. ContiguousPositions(d)  BY DEF TablesInv, validate
<1> QED  BY <1>1, StoredFinite DEF ContiguousPositions

\* high_water_sequence_in is the number of rows.
LEMMA HighWater ==
  ASSUME TablesInv, NEW d \in Documents
  PROVE  high_water_sequence_in(d) = Cardinality(Stored(d))
<1>1. PICK k \in Nat : k = Cardinality(Stored(d))  BY Positions
<1>2. {SequenceOf(d, u) : u \in Stored(d)} = 1..k
  BY <1>1, Positions
<1>3. PICK S : S = {SequenceOf(d, u) : u \in Stored(d)} \cup {0}  OBVIOUS
<1>4. S = 0..k  BY <1>2, <1>3
<1>6. k \in S /\ S \in SUBSET (0..k)  BY <1>4
<1>5. Max(S) \in S /\ \A y \in S : y <= Max(S)  BY <1>6, MaxMeans
<1>7. Max(S) = k  BY <1>4, <1>5, <1>6
<1> QED  BY <1>1, <1>3, <1>7 DEF high_water_sequence_in

\* A window of positions that are taken holds one row for each.
LEMMA WindowSize ==
  ASSUME TablesInv, NEW d \in Documents, NEW a \in Nat, NEW b \in Nat, a <= b,
         b <= Cardinality(Stored(d))
  PROVE  IsFiniteSet(Window(d, a, b)) /\ Cardinality(Window(d, a, b)) = b - a
<1> DEFINE W == Window(d, a, b)
           f == [u \in W |-> SequenceOf(d, u)]
<1>1. W \in SUBSET Stored(d)  BY DEF Window
<1>2. IsFiniteSet(W)  BY <1>1, StoredFinite, FS_Subset
<1>3. Cardinality(Stored(d)) \in Nat  BY StoredFinite
<1>4. \A u \in W : SequenceOf(d, u) \in (a + 1)..b
  BY <1>1, <1>3, Positions DEF Window
<1>5. f \in [W -> (a + 1)..b]  BY <1>4
<1>6. \A u, v \in W : f[u] = f[v] => u = v  BY <1>1, Positions
<1>7. \A n \in (a + 1)..b : \E u \in W : f[u] = n
  <2> TAKE n \in (a + 1)..b
  <2>1. n \in 1..Cardinality(Stored(d))  BY <1>3
  <2>2. PICK u \in Stored(d) : SequenceOf(d, u) = n  BY <2>1, Positions
  <2>3. u \in W  BY <2>2 DEF Window
  <2> QED  BY <2>2, <2>3
<1> HIDE DEF f, W
<1>8. f \in Bijection(W, (a + 1)..b)  BY <1>5, <1>6, <1>7, Fun_IsBij
<1>9. ExistsBijection(W, (a + 1)..b)  BY <1>8 DEF ExistsBijection
<1>10. Cardinality((a + 1)..b) = Cardinality(W)  BY <1>2, <1>9, FS_Bijection
<1>11. Cardinality((a + 1)..b) = b - a
  <2>1. a + 1 \in Int /\ b \in Int  OBVIOUS
  <2>2. Cardinality((a + 1)..b) = IF a + 1 > b THEN 0 ELSE b - (a + 1) + 1
    BY <2>1, FS_Interval
  <2> QED  BY <2>2
<1> QED  BY <1>2, <1>10, <1>11 DEF W

\* The next row of a window, and the windows that meet at a position.
LEMMA WindowParts ==
  ASSUME TablesInv, NEW d \in Documents, NEW a \in Nat, NEW n \in Nat, NEW b \in Nat,
         a <= n, n <= b
  PROVE  /\ Window(d, a, a) = {}
         /\ Window(d, a, n) \subseteq Stored(d)
         /\ Window(d, a, n) \cup Window(d, n, b) = Window(d, a, b)
         /\ Window(d, a, n) \cap Window(d, n, b) = {}
<1>1. \A u \in Stored(d) : SequenceOf(d, u) \in Nat  BY Positions
<1> QED  BY <1>1 DEF Window

\* The window of one position that is taken.
LEMMA WindowOfOne ==
  ASSUME TablesInv, NEW d \in Documents, NEW a \in Nat, a < Cardinality(Stored(d))
  PROVE  \E u \in Stored(d) : Window(d, a, a + 1) = {u}
<1>1. Cardinality(Stored(d)) \in Nat  BY Positions
<1>2. PICK u \in Stored(d) : SequenceOf(d, u) = a + 1  BY <1>1, Positions
<1>3. \A v \in Stored(d) : SequenceOf(d, v) \in Nat /\ (SequenceOf(d, v) = a + 1 => v = u)
  BY <1>2, Positions
<1>4. Window(d, a, a + 1) = {u}  BY <1>2, <1>3 DEF Window
<1> QED  BY <1>4
----------------------------------------------------------------------------
\* The ranges of a record that decodes are finitely many: one for each peer.
LEMMA RangesFinite ==
  ASSUME NEW r \in ValidRecords
  PROVE  IsFiniteSet(r.ranges)
<1> DEFINE f == [x \in r.ranges |-> x.peer]
<1>1. /\ r.ranges \subseteq [peer : Peers, start : Nat, end : Nat]
      /\ \A a, b \in r.ranges : a.peer = b.peer => a = b
  BY RecordAssumption DEF ValidRecords, decode_update_record, ValidRanges
<1>2. f \in [r.ranges -> Peers] /\ \A a, b \in r.ranges : f[a] = f[b] => a = b
  BY <1>1
<1>3. f \in Injection(r.ranges, Peers)  BY <1>2, Fun_IsInj
<1> QED  BY <1>3, RecordAssumption, FS_Injection

\* The index has one row for each range of a record.
LEMMA RangeRowsCount ==
  ASSUME NEW d, NEW u, NEW r \in ValidRecords
  PROVE  /\ IsFiniteSet(RangeRows(d, u, r))
         /\ Cardinality(RangeRows(d, u, r)) = Cardinality(r.ranges)
<1> DEFINE R == r.ranges
           T == RangeRows(d, u, r)
           f == [x \in R |-> [document |-> d, update |-> u, range |-> x]]
<1>1. f \in [R -> T] /\ \A a, b \in R : f[a] = f[b] => a = b
  BY DEF RangeRows
<1>2. \A t \in T : \E x \in R : f[x] = t  BY DEF RangeRows
<1>3. IsFiniteSet(R)  BY RangesFinite
<1> HIDE DEF f, T, R
<1>4. f \in Bijection(R, T)  BY <1>1, <1>2, Fun_IsBij
<1>5. ExistsBijection(R, T)  BY <1>4 DEF ExistsBijection
<1>6. IsFiniteSet(T) /\ Cardinality(T) = Cardinality(R)  BY <1>3, <1>5, FS_Bijection
<1> QED  BY <1>6 DEF R, T

\* The length of a page is a number, that of an empty page is 0, and an entry of
\* an accepted record fits (ensure_metadata_is_enumerable).
LEMMA PageLength ==
  ASSUME TablesInv, NEW d \in Documents, NEW S \in SUBSET Stored(d)
  PROVE  /\ Bytes(d, S) \in Nat
         /\ S = {} => Bytes(d, S) = 0
         /\ S # {} => metadata_byte_limit \in Nat
         /\ \A u : S = {u} => Fits(d, S)
<1> DEFINE Rows(u) == RangeRows(d, u, RecordOf(d, u))
           U == UNION {Rows(u) : u \in S}
<1>1. IsFiniteSet(S) /\ Cardinality(S) \in Nat
  BY StoredFinite, FS_Subset, FS_CardinalityType
<1>2. \A u \in S : RecordOf(d, u) \in ValidRecords
  BY StoredRow DEF TablesInv
<1>3. \A u \in S : IsFiniteSet(Rows(u)) /\ Cardinality(Rows(u)) = Cardinality(RecordOf(d, u).ranges)
  BY <1>2, RangeRowsCount
<1>4. IsFiniteSet(U)
  <2> DEFINE f == [u \in S |-> Rows(u)]
             Q == {Rows(u) : u \in S}
  <2>1. f \in [S -> Q] /\ \A q \in Q : \E u \in S : f[u] = q  OBVIOUS
  <2>2. \A q \in Q : IsFiniteSet(q)  BY <1>3
  <2> HIDE DEF f, Q
  <2>3. f \in Surjection(S, Q)  BY <2>1, Fun_IsSurj
  <2>4. IsFiniteSet(Q)  BY <1>1, <2>3, FS_Surjection
  <2>5. IsFiniteSet(UNION Q)  BY <2>2, <2>4, FS_UNION
  <2> QED  BY <2>5 DEF Q
<1>5. Cardinality(U) \in Nat  BY <1>4, FS_CardinalityType
<1>6. Bytes(d, S) = 22 * Cardinality(S) + 16 * Cardinality(U)
  <2>1. Bytes(d, S) = (16 + 2 + 4) * Cardinality(S) + 16 * Cardinality(U)
    BY DEF Bytes, IDENTIFIER_LENGTH, RANGE_LENGTH
  <2> QED  BY <2>1
<1> HIDE DEF U
<1>7. Bytes(d, S) \in Nat  BY <1>1, <1>5, <1>6
<1>8. S = {} => Bytes(d, S) = 0
  <2>1. S = {} => U = {}  BY DEF U
  <2>2. Cardinality({}) = 0  BY FS_EmptySet
  <2> QED  BY <1>6, <2>1, <2>2
<1>9. metadata_byte_limit \in Int
  BY UpdateConstants DEF metadata_byte_limit, response_base_length, CONTINUATION_LENGTH
<1>10. \A u \in S : 22 + 16 * Cardinality(RecordOf(d, u).ranges) <= metadata_byte_limit
  <2> TAKE u \in S
  <2>1. ensure_metadata_is_enumerable(RecordOf(d, u))
    BY <1>2 DEF ValidRecords, decode_update_record
  <2>2. 16 + 2 + 16 * Cardinality(RecordOf(d, u).ranges) + 4 <= metadata_byte_limit
    BY <2>1 DEF ensure_metadata_is_enumerable, metadata_encoded_length, IDENTIFIER_LENGTH,
                RANGE_LENGTH
  <2>3. Cardinality(RecordOf(d, u).ranges) \in Nat
    BY <1>2, RangesFinite, FS_CardinalityType
  <2> QED  BY <2>2, <2>3, <1>9
<1>11. S # {} => metadata_byte_limit \in Nat
  <2>1. \A u \in S : Cardinality(RecordOf(d, u).ranges) \in Nat
    BY <1>2, RangesFinite, FS_CardinalityType
  <2> QED  BY <2>1, <1>9, <1>10
<1>12. ASSUME NEW u, S = {u}  PROVE Fits(d, S)
  <2>1. U = Rows(u) /\ u \in S  BY <1>12 DEF U
  <2>2. Cardinality(U) = Cardinality(RecordOf(d, u).ranges)  BY <2>1, <1>3
  <2>3. Cardinality(S) = 1  BY <1>12, FS_Singleton
  <2>4. Bytes(d, S) = 22 + 16 * Cardinality(RecordOf(d, u).ranges)
    BY <1>5, <1>6, <2>2, <2>3
  <2> QED  BY <2>1, <2>4, <1>10 DEF Fits
<1> QED  BY <1>7, <1>8, <1>11, <1>12
----------------------------------------------------------------------------
\* A page of an enumeration: at least one row and as many as fit, from the
\* position where the pass stands, and the rows of the window are all there.
LEMMA EnumeratePage ==
  ASSUME TablesInv, NEW d \in Documents, NEW lower \in Nat, NEW terminal \in Nat,
         NEW ordinal \in Nat, lower + ordinal < terminal,
         terminal <= Cardinality(Stored(d))
  PROVE  \E n \in Nat :
           /\ ordinal < n /\ lower + n <= terminal
           /\ enumerate_in(d, lower, terminal, ordinal) =
                [error |-> Null, has_more |-> n < terminal - lower, next_ordinal |-> n,
                 updates |-> Window(d, lower + ordinal, lower + n)]
           /\ Window(d, lower + ordinal, lower + n) # {}
           /\ Fits(d, Window(d, lower + ordinal, lower + n))
<1> DEFINE window_length == terminal - lower
           scan_end == Min({ordinal + MAX_ENUMERATION_SCAN_RECORDS, window_length})
           Read(n) == Window(d, lower + ordinal, lower + n)
           S == {n \in ordinal..scan_end : Fits(d, Read(n))}
           next == Max(S)
           looked == Min({next + 1, scan_end})
<1>0. enumerate_in(d, lower, terminal, ordinal) =
        IF window_length <= 0 \/ ordinal >= window_length THEN [error |-> "InvalidCursor"]
        ELSE IF Cardinality(Read(looked)) # looked - ordinal THEN [error |-> "Corrupt"]
        ELSE [error |-> Null, has_more |-> next < window_length,
              next_ordinal |-> next, updates |-> Read(next)]
  BY Zenon DEF enumerate_in
<1>1. Cardinality(Stored(d)) \in Nat  BY Positions
<1>2. window_length \in Nat /\ ordinal < window_length  OBVIOUS
<1>3. MAX_ENUMERATION_SCAN_RECORDS \in Nat /\ MAX_ENUMERATION_SCAN_RECORDS > 0
  BY UpdateConstants
<1>4. scan_end \in Nat /\ ordinal + 1 <= scan_end /\ scan_end <= window_length
  BY <1>2, <1>3, MinMeans
<1> HIDE DEF scan_end, window_length
<1>5. ordinal + 1 \in S
  <2>1. lower + ordinal \in Nat /\ lower + ordinal < Cardinality(Stored(d))  BY <1>1
  <2>2. PICK u \in Stored(d) : Window(d, lower + ordinal, lower + ordinal + 1) = {u}
    BY <2>1, WindowOfOne
  <2>3. Read(ordinal + 1) = {u}
    <3>1. lower + (ordinal + 1) = lower + ordinal + 1  OBVIOUS
    <3> QED  BY <2>2, <3>1
  <2>4. Fits(d, Read(ordinal + 1))
    <3>1. {u} \in SUBSET Stored(d)  OBVIOUS
    <3>2. Fits(d, {u})  BY <3>1, PageLength
    <3> QED  BY <2>3, <3>2
  <2>5. ordinal + 1 \in ordinal..scan_end  BY <1>4
  <2> QED  BY <2>4, <2>5
<1>6. S \in SUBSET (0..scan_end)  BY <1>4
<1>7. \A n \in S : n \in Nat /\ Fits(d, Read(n)) /\ ordinal <= n /\ n <= scan_end  BY <1>4
<1> HIDE DEF S
<1>8. next \in S /\ ordinal + 1 <= next  BY <1>4, <1>5, <1>6, MaxMeans
<1>9. next \in Nat /\ ordinal < next /\ next <= scan_end  BY <1>7, <1>8
<1> HIDE DEF next
<1>10. looked \in Nat /\ ordinal < looked /\ looked <= scan_end  BY <1>4, <1>9, MinMeans
<1> HIDE DEF looked
<1>11. \A n \in Nat : ordinal < n /\ n <= window_length =>
         Cardinality(Read(n)) = n - ordinal /\ IsFiniteSet(Read(n))
  <2> SUFFICES ASSUME NEW n \in Nat, ordinal < n, n <= window_length
               PROVE  Cardinality(Read(n)) = n - ordinal /\ IsFiniteSet(Read(n))
    OBVIOUS
  <2>1. /\ lower + ordinal \in Nat /\ lower + n \in Nat /\ lower + ordinal <= lower + n
        /\ lower + n <= Cardinality(Stored(d))
    BY <1>1 DEF window_length
  <2>2. Cardinality(Read(n)) = (lower + n) - (lower + ordinal) /\ IsFiniteSet(Read(n))
    BY <2>1, WindowSize
  <2> QED  BY <2>2
<1>12. Cardinality(Read(looked)) = looked - ordinal  BY <1>4, <1>10, <1>11, <1>2
<1>13. Read(next) # {}
  <2>1. Cardinality(Read(next)) = next - ordinal  BY <1>4, <1>9, <1>11, <1>2
  <2>2. Cardinality({}) = 0  BY FS_EmptySet
  <2> HIDE DEF Read
  <2> QED  BY <2>1, <2>2, <1>9
<1>14. enumerate_in(d, lower, terminal, ordinal) =
         [error |-> Null, has_more |-> next < window_length,
          next_ordinal |-> next, updates |-> Read(next)]
  <2>1. ~(window_length <= 0 \/ ordinal >= window_length)  BY <1>2
  <2> HIDE DEF Read
  <2> QED  BY <1>0, <1>12, <2>1
<1>15. Fits(d, Read(next))  BY <1>7, <1>8
<1>16. lower + next <= terminal  BY <1>2, <1>4, <1>9 DEF window_length
<1> QED  BY <1>9, <1>13, <1>14, <1>15, <1>16 DEF window_length

\* A page of a vector backfill: it examines at least one row, and carries those
\* of the examined rows that the version lacks.
LEMMA BackfillPage ==
  ASSUME TablesInv, NEW d \in Documents, NEW version, NEW position \in Nat,
         NEW terminal \in Nat, position < terminal, terminal <= Cardinality(Stored(d))
  PROVE  \E n \in Nat :
           /\ position < n /\ n <= terminal
           /\ vector_backfill_in(d, position, terminal, version) =
                [error |-> Null, has_more |-> n < terminal,
                 last_examined_sequence |-> n,
                 updates |-> Lacking(d, version, position, n)]
           /\ Fits(d, Lacking(d, version, position, n))
<1> DEFINE rows == Window(d, position, terminal)
           Examined(n) == Window(d, position, n)
           Chosen(n) == {u \in Examined(n) : Selected(d, u, version)}
           Exists(n) == n = 0 \/ \E u \in Stored(d) : SequenceOf(d, u) = n
           S == {n \in position..terminal :
                   /\ Cardinality(Examined(n)) <= MAX_VECTOR_SCAN_RECORDS
                   /\ Fits(d, Chosen(n))}
           last == Max(S)
<1>0. vector_backfill_in(d, position, terminal, version) =
        IF \/ terminal = 0 \/ position > terminal
           \/ ~Exists(position) \/ ~Exists(terminal)
        THEN [error |-> "InvalidCursor"]
        ELSE [error |-> Null, has_more |-> Examined(last) # rows,
              last_examined_sequence |-> IF Examined(last) = {} THEN Null ELSE last,
              updates |-> Chosen(last)]
  BY Zenon DEF vector_backfill_in
<1>1. Cardinality(Stored(d)) \in Nat  BY Positions
<1>2. MAX_VECTOR_SCAN_RECORDS \in Nat /\ MAX_VECTOR_SCAN_RECORDS > 0  BY UpdateConstants
<1>3. \A n \in Nat : position <= n /\ n <= terminal =>
        Cardinality(Examined(n)) = n - position /\ IsFiniteSet(Examined(n))
  <2> SUFFICES ASSUME NEW n \in Nat, position <= n, n <= terminal
               PROVE  Cardinality(Examined(n)) = n - position /\ IsFiniteSet(Examined(n))
    OBVIOUS
  <2>1. n <= Cardinality(Stored(d))  BY <1>1
  <2> QED  BY <2>1, WindowSize
<1>4. position + 1 \in S
  <2>1. position + 1 \in position..terminal /\ position + 1 \in Nat  OBVIOUS
  <2>2. Cardinality(Examined(position + 1)) = 1
    <3>1. Cardinality(Examined(position + 1)) = (position + 1) - position  BY <1>3, <2>1
    <3> QED  BY <3>1
  <2>3. PICK u \in Stored(d) : Examined(position + 1) = {u}  BY <1>1, WindowOfOne
  <2>4. Fits(d, Chosen(position + 1))
    <3>0. Chosen(position + 1) = {} \/ Chosen(position + 1) = {u}  BY <2>3
    <3>1. {u} \in SUBSET Stored(d) /\ {} \in SUBSET Stored(d)  OBVIOUS
    <3>2. Fits(d, {u}) /\ metadata_byte_limit \in Nat  BY <3>1, PageLength
    <3>3. Bytes(d, {}) = 0  BY <3>1, PageLength
    <3>4. Fits(d, {})  BY <3>2, <3>3 DEF Fits
    <3> QED  BY <3>0, <3>2, <3>4
  <2> HIDE DEF Examined, Chosen
  <2> QED  BY <1>2, <2>1, <2>2, <2>4
<1>5. S \in SUBSET (0..terminal)  OBVIOUS
<1>6. \A n \in S : n \in Nat /\ position <= n /\ n <= terminal /\ Fits(d, Chosen(n))  OBVIOUS
<1> HIDE DEF S
<1>7. last \in S /\ position + 1 <= last  BY <1>4, <1>5, MaxMeans
<1>8. last \in Nat /\ position < last /\ last <= terminal /\ Fits(d, Chosen(last))
  BY <1>6, <1>7
<1> HIDE DEF last
<1>9. Exists(position) /\ Exists(terminal)
  <2>1. terminal \in 1..Cardinality(Stored(d))  BY <1>1
  <2>2. position = 0 \/ position \in 1..Cardinality(Stored(d))  BY <1>1
  <2> QED  BY <2>1, <2>2, Positions
<1>10. Examined(last) # {}
  <2>1. Cardinality(Examined(last)) = last - position  BY <1>3, <1>8
  <2>2. Cardinality({}) = 0  BY FS_EmptySet
  <2> HIDE DEF Examined
  <2> QED  BY <1>8, <2>1, <2>2
<1>11. Examined(last) # rows <=> last < terminal
  <2>1. Cardinality(Examined(last)) = last - position  BY <1>3, <1>8
  <2>2. Cardinality(rows) = terminal - position  BY <1>3
  <2>3. last = terminal => Examined(last) = rows  OBVIOUS
  <2> HIDE DEF Examined, rows
  <2> QED  BY <1>8, <2>1, <2>2, <2>3
<1>12. Chosen(last) = Lacking(d, version, position, last)  BY DEF Lacking
<1>13. vector_backfill_in(d, position, terminal, version) =
        [error |-> Null, has_more |-> Examined(last) # rows,
              last_examined_sequence |-> last, updates |-> Chosen(last)]
  <2>1. ~(terminal = 0 \/ position > terminal)  OBVIOUS
  <2> HIDE DEF Examined, rows, Exists, Chosen
  <2> QED  BY <1>0, <1>9, <1>10, <2>1
<1>14. (Examined(last) # rows) = (last < terminal)  BY <1>11, SMT
<1> HIDE DEF Examined, rows, Exists, Chosen
<1> QED  BY <1>8, <1>12, <1>13, <1>14

\* What an advance reads fits into a response, with its cursor.
LEMMA Encodable ==
  ASSUME TablesInv, NEW d \in Documents, NEW S \in SUBSET Stored(d), Fits(d, S),
         NEW has_more, NEW next_cursor
  PROVE  encoded_length(d, Response(has_more, next_cursor, S)) <= MAX_APPLICATION_PAYLOAD_LENGTH
<1>1. Bytes(d, S) \in Nat /\ MAX_APPLICATION_PAYLOAD_LENGTH \in Nat
  BY PageLength, UpdateConstants
<1>2. Bytes(d, S) + 37 <= MAX_APPLICATION_PAYLOAD_LENGTH
  BY <1>1 DEF Fits, metadata_byte_limit, response_base_length, CONTINUATION_LENGTH
<1>3. /\ Response(has_more, next_cursor, S).next_cursor = next_cursor
      /\ Response(has_more, next_cursor, S).updates = S
  BY DEF Response
<1>4. encoded_length(d, Response(has_more, next_cursor, S)) =
        (1 + 2 + (IF next_cursor = Null THEN 0 ELSE 32) + 2) + Bytes(d, S)
  BY <1>3 DEF encoded_length, response_base_length, CONTINUATION_LENGTH
<1> QED  BY <1>1, <1>2, <1>4
----------------------------------------------------------------------------
\* A strict part of a finite set is smaller.
LEMMA SmallerPart ==
  ASSUME NEW B, IsFiniteSet(B), NEW A \in SUBSET B
  PROVE  /\ IsFiniteSet(A) /\ Cardinality(A) \in Nat /\ Cardinality(B) \in Nat
         /\ Cardinality(A) <= Cardinality(B)
         /\ A # B => Cardinality(A) < Cardinality(B)
<1>1. IsFiniteSet(A) /\ Cardinality(A) <= Cardinality(B) /\ (Cardinality(A) = Cardinality(B) => A = B)
  BY FS_Subset
<1>2. Cardinality(A) \in Nat /\ Cardinality(B) \in Nat  BY <1>1, FS_CardinalityType
<1> QED  BY <1>1, <1>2

\* The parts of a table that the limits count.
OnChannel(T, ch) == {p \in T : p.channel = ch}
OfDocument(T, d) == {p \in T : p.document = d}
OfAuthority(T, d, c) == {p \in {x \in T : x.document = d} : p.capability = c}

\* The limits of passes are numbers.
LEMMA LimitsAreNumbers ==
  /\ MAX_PASSES \in Nat /\ MAX_PASSES_PER_CHANNEL \in Nat
  /\ MAX_PASSES_PER_DOCUMENT \in Nat /\ MAX_PASSES_PER_AUTHORITY \in Nat
BY UpdateConstants

\* The limits in terms of those parts.
LEMMA LimitsMean ==
  ASSUME NEW T
  PROVE  WithinLimits(T) <=>
           /\ IsFiniteSet(T)
           /\ Cardinality(T) <= MAX_PASSES
           /\ \A ch : Cardinality(OnChannel(T, ch)) <= MAX_PASSES_PER_CHANNEL
           /\ \A d : Cardinality(OfDocument(T, d)) <= MAX_PASSES_PER_DOCUMENT
           /\ \A d, c : Cardinality(OfAuthority(T, d, c)) <= MAX_PASSES_PER_AUTHORITY
BY Zenon DEF WithinLimits, OnChannel, OfDocument, OfAuthority

\* The same for the admission of one more pass.
LEMMA AdmitsMeans ==
  ASSUME NEW T, NEW ch, NEW d, NEW c
  PROVE  Admits(T, ch, d, c) <=>
           /\ Cardinality(T) < MAX_PASSES
           /\ Cardinality(OnChannel(T, ch)) < MAX_PASSES_PER_CHANNEL
           /\ Cardinality(OfDocument(T, d)) < MAX_PASSES_PER_DOCUMENT
           /\ Cardinality(OfAuthority(T, d, c)) < MAX_PASSES_PER_AUTHORITY
BY Zenon DEF Admits, OnChannel, OfDocument, OfAuthority

\* Passes that go leave a table within its limits.
LEMMA LimitsKept ==
  ASSUME NEW T, NEW S \in SUBSET T, WithinLimits(T)
  PROVE  WithinLimits(S)
<1>1. IsFiniteSet(T) /\ IsFiniteSet(S)  BY LimitsMean, SmallerPart
<1>2. Cardinality(S) <= MAX_PASSES
  BY <1>1, SmallerPart, LimitsMean, LimitsAreNumbers
<1>3. ASSUME NEW ch PROVE Cardinality(OnChannel(S, ch)) <= MAX_PASSES_PER_CHANNEL
  <2>1. OnChannel(S, ch) \in SUBSET OnChannel(T, ch) /\ OnChannel(T, ch) \in SUBSET T
    BY DEF OnChannel
  <2>2. IsFiniteSet(OnChannel(T, ch))  BY <1>1, <2>1, SmallerPart
  <2> QED  BY <2>1, <2>2, SmallerPart, LimitsMean, LimitsAreNumbers
<1>4. ASSUME NEW d PROVE Cardinality(OfDocument(S, d)) <= MAX_PASSES_PER_DOCUMENT
  <2>1. OfDocument(S, d) \in SUBSET OfDocument(T, d) /\ OfDocument(T, d) \in SUBSET T
    BY DEF OfDocument
  <2>2. IsFiniteSet(OfDocument(T, d))  BY <1>1, <2>1, SmallerPart
  <2> QED  BY <2>1, <2>2, SmallerPart, LimitsMean, LimitsAreNumbers
<1>5. ASSUME NEW d, NEW c PROVE Cardinality(OfAuthority(S, d, c)) <= MAX_PASSES_PER_AUTHORITY
  <2>1. OfAuthority(S, d, c) \in SUBSET OfAuthority(T, d, c) /\ OfAuthority(T, d, c) \in SUBSET T
    BY DEF OfAuthority
  <2>2. IsFiniteSet(OfAuthority(T, d, c))  BY <1>1, <2>1, SmallerPart
  <2> QED  BY <2>1, <2>2, SmallerPart, LimitsMean, LimitsAreNumbers
<1> QED  BY <1>1, <1>2, <1>3, <1>4, <1>5, LimitsMean

\* A pass that is gone leaves the room for its successor.
LEMMA RoomOfThePass ==
  ASSUME NEW T, NEW S \in SUBSET T, WithinLimits(T), NEW p \in T, p \notin S
  PROVE  Admits(S, p.channel, p.document, p.capability)
<1>1. IsFiniteSet(T)  BY LimitsMean
<1>2. Cardinality(S) < MAX_PASSES
  BY <1>1, SmallerPart, LimitsMean, LimitsAreNumbers
<1>3. Cardinality(OnChannel(S, p.channel)) < MAX_PASSES_PER_CHANNEL
  <2> DEFINE A == OnChannel(S, p.channel)
             B == OnChannel(T, p.channel)
  <2>1. A \in SUBSET B /\ B \in SUBSET T /\ A # B  BY DEF OnChannel
  <2>2. IsFiniteSet(B)  BY <1>1, <2>1, SmallerPart
  <2>3. Cardinality(B) <= MAX_PASSES_PER_CHANNEL  BY LimitsMean
  <2> HIDE DEF A, B
  <2>4. Cardinality(A) < MAX_PASSES_PER_CHANNEL
    BY <2>1, <2>2, <2>3, SmallerPart, LimitsAreNumbers
  <2> QED  BY <2>4 DEF A
<1>4. Cardinality(OfDocument(S, p.document)) < MAX_PASSES_PER_DOCUMENT
  <2> DEFINE A == OfDocument(S, p.document)
             B == OfDocument(T, p.document)
  <2>1. A \in SUBSET B /\ B \in SUBSET T /\ A # B  BY DEF OfDocument
  <2>2. IsFiniteSet(B)  BY <1>1, <2>1, SmallerPart
  <2>3. Cardinality(B) <= MAX_PASSES_PER_DOCUMENT  BY LimitsMean
  <2> HIDE DEF A, B
  <2>4. Cardinality(A) < MAX_PASSES_PER_DOCUMENT
    BY <2>1, <2>2, <2>3, SmallerPart, LimitsAreNumbers
  <2> QED  BY <2>4 DEF A
<1>5. Cardinality(OfAuthority(S, p.document, p.capability)) < MAX_PASSES_PER_AUTHORITY
  <2> DEFINE A == OfAuthority(S, p.document, p.capability)
             B == OfAuthority(T, p.document, p.capability)
  <2>1. A \in SUBSET B /\ B \in SUBSET T /\ A # B  BY DEF OfAuthority
  <2>2. IsFiniteSet(B)  BY <1>1, <2>1, SmallerPart
  <2>3. Cardinality(B) <= MAX_PASSES_PER_AUTHORITY  BY LimitsMean
  <2> HIDE DEF A, B
  <2>4. Cardinality(A) < MAX_PASSES_PER_AUTHORITY
    BY <2>1, <2>2, <2>3, SmallerPart, LimitsAreNumbers
  <2> QED  BY <2>4 DEF A
<1> QED  BY <1>2, <1>3, <1>4, <1>5, AdmitsMeans

\* One more element, below a limit.
LEMMA OneMore ==
  ASSUME NEW A, IsFiniteSet(A), NEW x, NEW m \in Nat, Cardinality(A) < m
  PROVE  Cardinality(A \cup {x}) <= m
<1>1. Cardinality(A) \in Nat  BY FS_CardinalityType
<1>2. Cardinality(A \cup {x}) = IF x \in A THEN Cardinality(A) ELSE Cardinality(A) + 1
  BY FS_AddElement
<1> QED  BY <1>1, <1>2

\* A pass that is admitted leaves a table within its limits.
LEMMA LimitsAfterAdmission ==
  ASSUME NEW T, WithinLimits(T), NEW p, Admits(T, p.channel, p.document, p.capability)
  PROVE  WithinLimits(T \cup {p})
<1> DEFINE U == T \cup {p}
<1>1. IsFiniteSet(T) /\ IsFiniteSet(U)  BY LimitsMean, FS_AddElement
<1>2. Cardinality(U) <= MAX_PASSES  BY <1>1, OneMore, AdmitsMeans, LimitsAreNumbers
<1>3. ASSUME NEW ch PROVE Cardinality(OnChannel(U, ch)) <= MAX_PASSES_PER_CHANNEL
  <2>1. OnChannel(T, ch) \in SUBSET T  BY DEF OnChannel
  <2>2. IsFiniteSet(OnChannel(T, ch))  BY <1>1, <2>1, SmallerPart
  <2>3. CASE p.channel = ch
    <3>1. OnChannel(U, ch) = OnChannel(T, ch) \cup {p}  BY <2>3 DEF OnChannel
    <3>2. Cardinality(OnChannel(T, ch)) < MAX_PASSES_PER_CHANNEL  BY <2>3, AdmitsMeans
    <3> QED  BY <2>2, <3>1, <3>2, OneMore, LimitsAreNumbers
  <2>4. CASE p.channel # ch
    <3>1. OnChannel(U, ch) = OnChannel(T, ch)  BY <2>4 DEF OnChannel
    <3> QED  BY <3>1, LimitsMean
  <2> QED  BY <2>3, <2>4
<1>4. ASSUME NEW d PROVE Cardinality(OfDocument(U, d)) <= MAX_PASSES_PER_DOCUMENT
  <2>1. OfDocument(T, d) \in SUBSET T  BY DEF OfDocument
  <2>2. IsFiniteSet(OfDocument(T, d))  BY <1>1, <2>1, SmallerPart
  <2>3. CASE p.document = d
    <3>1. OfDocument(U, d) = OfDocument(T, d) \cup {p}  BY <2>3 DEF OfDocument
    <3>2. Cardinality(OfDocument(T, d)) < MAX_PASSES_PER_DOCUMENT  BY <2>3, AdmitsMeans
    <3> QED  BY <2>2, <3>1, <3>2, OneMore, LimitsAreNumbers
  <2>4. CASE p.document # d
    <3>1. OfDocument(U, d) = OfDocument(T, d)  BY <2>4 DEF OfDocument
    <3> QED  BY <3>1, LimitsMean
  <2> QED  BY <2>3, <2>4
<1>5. ASSUME NEW d, NEW c PROVE Cardinality(OfAuthority(U, d, c)) <= MAX_PASSES_PER_AUTHORITY
  <2>1. OfAuthority(T, d, c) \in SUBSET T  BY DEF OfAuthority
  <2>2. IsFiniteSet(OfAuthority(T, d, c))  BY <1>1, <2>1, SmallerPart
  <2>3. CASE p.document = d /\ p.capability = c
    <3>1. OfAuthority(U, d, c) = OfAuthority(T, d, c) \cup {p}  BY <2>3 DEF OfAuthority
    <3>2. Cardinality(OfAuthority(T, d, c)) < MAX_PASSES_PER_AUTHORITY  BY <2>3, AdmitsMeans
    <3> QED  BY <2>2, <3>1, <3>2, OneMore, LimitsAreNumbers
  <2>4. CASE ~(p.document = d /\ p.capability = c)
    <3>1. OfAuthority(U, d, c) = OfAuthority(T, d, c)  BY <2>4 DEF OfAuthority
    <3> QED  BY <3>1, LimitsMean
  <2> QED  BY <2>3, <2>4
<1> QED  BY <1>1, <1>2, <1>3, <1>4, <1>5, LimitsMean

\* A pass that advances keeps its place in the table.
LEMMA LimitsAfterAdvance ==
  ASSUME NEW T, WithinLimits(T), NEW p \in T, NEW q,
         q.channel = p.channel, q.document = p.document, q.capability = p.capability
  PROVE  WithinLimits((T \ {p}) \cup {q})
<1>1. T \ {p} \in SUBSET T /\ p \notin T \ {p}  OBVIOUS
<1>2. WithinLimits(T \ {p})  BY <1>1, LimitsKept
<1>3. Admits(T \ {p}, q.channel, q.document, q.capability)
  BY <1>1, RoomOfThePass
<1> QED  BY <1>2, <1>3, LimitsAfterAdmission
----------------------------------------------------------------------------
\* The inductive invariant of the passes and tokens.
PassesInv ==
  /\ TypeOK
  /\ TablesInv
  /\ \A p \in enumeration_passes : EnumerationPassInv(p)
  /\ \A p \in vector_passes : VectorPassInv(p)
  /\ TokensUnique
  /\ \A t \in 1..Len(issued) : TicketInv(issued[t])
  /\ WithinLimits(enumeration_passes) /\ WithinLimits(vector_passes)

\* The types of the fields of an enumeration pass.
LEMMA EnumerationPassType ==
  ASSUME PassesInv, NEW p \in enumeration_passes
  PROVE  /\ p \in EnumerationPass
         /\ p.channel \in Channels /\ p.document \in Documents /\ p.capability \in Capabilities
         /\ p.lower \in Nat /\ p.terminal \in Nat /\ p.terminal > 0
         /\ p.current.next_ordinal \in Nat /\ p.current.next_ordinal > 0
         /\ p.current.mode \in Modes /\ p.current.token \in Nat
         /\ Through(p) \in Nat
         /\ p.retry # Null => p.retry \in EnumerationRetry
<1>1. p \in EnumerationPass  BY DEF PassesInv, TypeOK
<1>2. MAX_SEQUENCE \in Nat  BY UpdateConstants
<1>3. /\ p.channel \in Channels /\ p.document \in Documents /\ p.capability \in Capabilities
      /\ p.lower \in 0..MAX_SEQUENCE /\ p.terminal \in 1..MAX_SEQUENCE
      /\ p.current \in [mode : Modes, next_ordinal : 1..MAX_SEQUENCE, token : 1..MAX_TOKENS]
      /\ p.retry \in {Null} \cup EnumerationRetry
  BY <1>1 DEF EnumerationPass
<1>4. /\ p.current.next_ordinal \in 1..MAX_SEQUENCE /\ p.current.mode \in Modes
      /\ p.current.token \in 1..MAX_TOKENS
  BY <1>3
<1>5. MAX_TOKENS \in Nat  BY UpdateConstants
<1> QED  BY <1>1, <1>2, <1>3, <1>4, <1>5 DEF Through

\* The types of the fields of a vector pass.
LEMMA VectorPassType ==
  ASSUME PassesInv, NEW p \in vector_passes
  PROVE  /\ p \in VectorPass
         /\ p.channel \in Channels /\ p.document \in Documents /\ p.capability \in Capabilities
         /\ p.version \in Versions
         /\ p.terminal \in Nat /\ p.terminal > 0
         /\ p.current # Null =>
              /\ p.current \in VectorPosition
              /\ p.current.position \in Nat /\ p.current.position > 0
              /\ p.current.token \in Nat
         /\ p.retry # Null => p.retry \in VectorRetry
<1>1. p \in VectorPass  BY DEF PassesInv, TypeOK
<1>2. MAX_SEQUENCE \in Nat /\ MAX_TOKENS \in Nat  BY UpdateConstants
<1>3. /\ p.channel \in Channels /\ p.document \in Documents /\ p.capability \in Capabilities
      /\ p.version \in Versions /\ p.terminal \in 1..MAX_SEQUENCE
      /\ p.current \in {Null} \cup VectorPosition
      /\ p.retry \in {Null} \cup VectorRetry
  BY <1>1 DEF VectorPass
<1>4. p.current # Null => /\ p.current.position \in 1..MAX_SEQUENCE
                          /\ p.current.token \in 1..MAX_TOKENS
  BY <1>3 DEF VectorPosition
<1> QED  BY <1>1, <1>2, <1>3, <1>4

\* The history is a sequence, and mint_token is the next index.
LEMMA IssuedType ==
  ASSUME PassesInv
  PROVE  /\ issued \in Seq(Tickets) /\ Len(issued) \in Nat /\ Len(issued) <= MAX_TOKENS
         /\ mint_token = Len(issued) + 1 /\ mint_token \notin 1..Len(issued)
<1>1. issued \in Seq(Tickets) /\ Len(issued) <= MAX_TOKENS  BY DEF PassesInv, TypeOK
<1>2. Len(issued) \in Nat  BY <1>1
<1> QED  BY <1>1, <1>2 DEF mint_token

\* The element of a singleton.
LEMMA OnlyElement == \A p : (CHOOSE x \in {p} : TRUE) = p
  OBVIOUS

\* A page that an enumeration pass can be continued with: the window is the rest of
\* its own, or what was accepted since; n is the ordinal that the page ends at.
NextPage(p, lower, terminal, n) ==
  /\ \/ p.current.mode = "Continue" /\ lower = p.lower /\ terminal = p.terminal
     \/ /\ p.current.mode = "AfterTail" /\ lower = p.terminal
        /\ terminal = Cardinality(Stored(p.document))
  /\ lower \in Nat /\ terminal \in Nat /\ n \in Nat /\ n > 0
  /\ terminal <= Cardinality(Stored(p.document))
  /\ lower <= Through(p) /\ Through(p) < lower + n /\ lower + n <= terminal
  /\ Window(p.document, Through(p), lower + n) # {}
  /\ Fits(p.document, Window(p.document, Through(p), lower + n))

NextResponse(p, lower, terminal, n) ==
  Response(lower + n < terminal, mint_token, Window(p.document, Through(p), lower + n))

NextPass(p, lower, terminal, n) ==
  [channel |-> p.channel, document |-> p.document, capability |-> p.capability,
   current |-> [mode |-> IF lower + n < terminal THEN "Continue" ELSE "AfterTail",
                next_ordinal |-> n, token |-> mint_token],
   lower |-> lower, terminal |-> terminal,
   retry |-> [mode |-> p.current.mode, response |-> NextResponse(p, lower, terminal, n),
              token |-> p.current.token]]

\* A token that some enumeration pass knows leads to that pass alone.
LEMMA EnumerationFound ==
  ASSUME PassesInv, NEW mode, NEW token, NEW p \in enumeration_passes,
         enumeration_pass_contains_token(p, token, mode)
  PROVE  /\ {q \in enumeration_passes : enumeration_pass_contains_token(q, token, mode)} = {p}
         /\ token \in 1..Len(issued)
         /\ Retried(p, token, mode) => ~(p.current.token = token)
         /\ ~Retried(p, token, mode) => p.current.token = token /\ p.current.mode = mode
<1>1. EnumerationPassInv(p)  BY DEF PassesInv
<1>2. token \in 1..Len(issued)
  BY <1>1 DEF EnumerationPassInv, TicketFor, enumeration_pass_contains_token, Retried
<1>3. \A q \in enumeration_passes :
        enumeration_pass_contains_token(q, token, mode) => HasToken(q, token)
  BY DEF enumeration_pass_contains_token, Retried, HasToken
<1>4. \A q \in enumeration_passes : enumeration_pass_contains_token(q, token, mode) => q = p
  BY <1>2, <1>3 DEF PassesInv, TokensUnique
<1>5. /\ Retried(p, token, mode) => ~(p.current.token = token)
      /\ ~Retried(p, token, mode) => p.current.token = token /\ p.current.mode = mode
  BY <1>1 DEF EnumerationPassInv, enumeration_pass_contains_token, Retried
<1> QED  BY <1>2, <1>4, <1>5

\* The page that the current token of an enumeration pass leads to.
LEMMA NextPageExists ==
  ASSUME PassesInv, NEW p \in enumeration_passes,
         p.current.mode = "AfterTail" => p.terminal # Cardinality(Stored(p.document))
  PROVE  \E lower, terminal, n :
           /\ NextPage(p, lower, terminal, n)
           /\ NextWindow(p, p.current.mode).lower = lower
           /\ NextWindow(p, p.current.mode).terminal = terminal
           /\ enumerate_in(p.document, lower, terminal, NextWindow(p, p.current.mode).ordinal) =
                [error |-> Null, has_more |-> n < terminal - lower, next_ordinal |-> n,
                 updates |-> Window(p.document, Through(p), lower + n)]
<1>1. EnumerationPassInv(p) /\ TablesInv  BY DEF PassesInv
<1>2. PICK k \in Nat : k = Cardinality(Stored(p.document))
  BY EnumerationPassType, StoredFinite
<1>3. high_water_sequence_in(p.document) = k  BY <1>1, <1>2, HighWater, EnumerationPassType
<1>4. /\ p.lower \in Nat /\ p.terminal \in Nat /\ p.current.next_ordinal \in Nat
      /\ p.document \in Documents /\ Through(p) \in Nat
      /\ p.current.mode = "Continue" \/ p.current.mode = "AfterTail"
  BY EnumerationPassType DEF Modes
<1>5. /\ p.terminal <= k /\ p.lower < Through(p) /\ Through(p) <= p.terminal
      /\ Through(p) = p.lower + p.current.next_ordinal
      /\ p.current.mode = "Continue" => Through(p) < p.terminal
      /\ p.current.mode = "AfterTail" => Through(p) = p.terminal
  <2>1. "Continue" # "AfterTail"  OBVIOUS
  <2> QED  BY <1>1, <1>2, <1>4, <2>1 DEF EnumerationPassInv, Through
<1>6. CASE p.current.mode = "Continue"
  <2>1. PICK n \in Nat :
          /\ p.current.next_ordinal < n /\ p.lower + n <= p.terminal
          /\ enumerate_in(p.document, p.lower, p.terminal, p.current.next_ordinal) =
               [error |-> Null, has_more |-> n < p.terminal - p.lower, next_ordinal |-> n,
                updates |-> Window(p.document, Through(p), p.lower + n)]
          /\ Window(p.document, Through(p), p.lower + n) # {}
          /\ Fits(p.document, Window(p.document, Through(p), p.lower + n))
    <3>1. PICK a, b, o, e : a = p.lower /\ b = p.terminal /\ o = p.current.next_ordinal
                            /\ e = p.document
      OBVIOUS
    <3>2. /\ a \in Nat /\ b \in Nat /\ o \in Nat /\ e \in Documents /\ Through(p) = a + o
          /\ a + o < b /\ b <= Cardinality(Stored(e))
      BY <1>2, <1>4, <1>5, <1>6, <3>1
    <3>3. \E n \in Nat :
            /\ o < n /\ a + n <= b
            /\ enumerate_in(e, a, b, o) =
                 [error |-> Null, has_more |-> n < b - a, next_ordinal |-> n,
                  updates |-> Window(e, a + o, a + n)]
            /\ Window(e, a + o, a + n) # {}
            /\ Fits(e, Window(e, a + o, a + n))
      BY <1>1, <3>2, EnumeratePage, Zenon
    <3> QED  BY <3>1, <3>2, <3>3, Zenon
  <2>2. NextWindow(p, p.current.mode) =
          [lower |-> p.lower, terminal |-> p.terminal, ordinal |-> p.current.next_ordinal]
    BY <1>6 DEF NextWindow
  <2>3. NextPage(p, p.lower, p.terminal, n)
    BY <1>2, <1>4, <1>5, <1>6, <2>1 DEF NextPage
  <2> QED  BY <2>1, <2>2, <2>3
<1>7. CASE p.current.mode = "AfterTail"
  <2>0. p.terminal + 0 = p.terminal /\ p.terminal < k /\ 0 \in Nat  BY <1>2, <1>4, <1>5, <1>7
  <2>1. PICK n \in Nat :
          /\ 0 < n /\ p.terminal + n <= k
          /\ enumerate_in(p.document, p.terminal, k, 0) =
               [error |-> Null, has_more |-> n < k - p.terminal, next_ordinal |-> n,
                updates |-> Window(p.document, p.terminal + 0, p.terminal + n)]
          /\ Window(p.document, p.terminal + 0, p.terminal + n) # {}
          /\ Fits(p.document, Window(p.document, p.terminal + 0, p.terminal + n))
    <3>1. p.terminal + 0 < k /\ k <= Cardinality(Stored(p.document))  BY <1>2, <2>0
    <3> QED  BY <1>1, <1>4, <2>0, <3>1, EnumeratePage
  <2>2. NextWindow(p, p.current.mode) =
          [lower |-> p.terminal, terminal |-> k, ordinal |-> 0]
    BY <1>3, <1>7 DEF NextWindow
  <2>3. NextPage(p, p.terminal, k, n)
    BY <1>2, <1>4, <1>5, <1>7, <2>0, <2>1 DEF NextPage
  <2>4. enumerate_in(p.document, p.terminal, k, 0) =
               [error |-> Null, has_more |-> n < k - p.terminal, next_ordinal |-> n,
                updates |-> Window(p.document, Through(p), p.terminal + n)]
    BY <1>5, <1>7, <2>0, <2>1
  <2> QED  BY <2>2, <2>3, <2>4
<1> QED  BY <1>4, <1>6, <1>7

\* A pass, field by field.
PassOf(ch, d, c, current, lower, terminal, retry) ==
  [channel |-> ch, document |-> d, capability |-> c, current |-> current,
   lower |-> lower, terminal |-> terminal, retry |-> retry]

\* What a token of an enumeration is answered: refused, the answer that was kept,
\* an empty tail, or the next page, and the table that each leaves.
EnumerateTokenCases(ch, d, c, mode, token, result) ==
  \/ result.outcome # "Authorized" /\ result.passes = enumeration_passes
     /\ (authorize_read(ch, d, c) = "Authorized" =>
           ~ \E p \in enumeration_passes :
               enumeration_pass_contains_token(p, token, mode) /\ SameAuthority(p, ch, d, c))
  \/ \E p \in enumeration_passes :
       /\ SameAuthority(p, ch, d, c)
       /\ \/ /\ Retried(p, token, mode)
             /\ result = Answered(p.retry.response, enumeration_passes)
          \/ /\ p.current.token = token /\ p.current.mode = mode /\ mode = "AfterTail"
             /\ p.terminal = Cardinality(Stored(d))
             /\ result = Answered(EmptyResponse, enumeration_passes)
          \/ /\ p.current.token = token /\ p.current.mode = mode
             /\ \E lower, terminal, n :
                  /\ NextPage(p, lower, terminal, n)
                  /\ result = Answered(NextResponse(p, lower, terminal, n),
                                       (enumeration_passes \ {p})
                                         \cup {NextPass(p, lower, terminal, n)})

\* enumerate_from_token answers in one of these ways.
LEMMA EnumerateTokenResult ==
  ASSUME PassesInv, NEW ch, NEW d \in Documents, NEW c, NEW mode \in Modes, NEW token
  PROVE  EnumerateTokenCases(ch, d, c, mode, token, enumerate_from_token(ch, d, c, mode, token))
<1>a. PICK result : result = enumerate_from_token(ch, d, c, mode, token)  OBVIOUS
<1> SUFFICES EnumerateTokenCases(ch, d, c, mode, token, result)
  BY <1>a
<1> USE DEF EnumerateTokenCases
<1> DEFINE found == {p \in enumeration_passes : enumeration_pass_contains_token(p, token, mode)}
           pass == CHOOSE p \in found : TRUE
           window == NextWindow(pass, mode)
           page == enumerate_in(d, window.lower, window.terminal, window.ordinal)
           response == Response(page.has_more, mint_token, page.updates)
           advanced == AdvancedEnumeration(pass, mode, window, page, response)
<1>0. result =
      IF authorize_read(ch, d, c) # "Authorized"
      THEN Refused(authorize_read(ch, d, c), enumeration_passes)
      ELSE IF found = {} \/ ~SameAuthority(pass, ch, d, c)
      THEN Refused("InvalidContinuation", enumeration_passes)
      ELSE IF Retried(pass, token, mode)
      THEN Answered(pass.retry.response, enumeration_passes)
      ELSE IF window.terminal < pass.terminal
      THEN Refused("InvalidContinuation", enumeration_passes)
      ELSE IF mode = "AfterTail" /\ window.terminal = pass.terminal
      THEN Answered(EmptyResponse, enumeration_passes)
      ELSE IF page.error = "InvalidCursor"
      THEN Refused("InvalidContinuation", enumeration_passes \ {pass})
      ELSE IF page.error # Null \/ page.updates = {}
      THEN Refused("Corrupt", enumeration_passes)
      ELSE Answered(response, (enumeration_passes \ {pass}) \cup {advanced})
  BY <1>a, Zenon DEF enumerate_from_token
<1>1. CASE authorize_read(ch, d, c) # "Authorized"
  <2>1. result = Refused(authorize_read(ch, d, c), enumeration_passes)  BY <1>0, <1>1, Zenon
  <2> QED  BY <1>1, <2>1 DEF Refused
<1>2. CASE authorize_read(ch, d, c) = "Authorized" /\ found = {}
  <2>1. result = Refused("InvalidContinuation", enumeration_passes)  BY <1>0, <1>2, Zenon
  <2>2. "InvalidContinuation" # "Authorized"  OBVIOUS
  <2> QED  BY <1>2, <2>1, <2>2 DEF Refused
<1>3. CASE authorize_read(ch, d, c) = "Authorized" /\ found # {}
  <2>1. PICK p \in found : TRUE  BY <1>3
  <2>2. p \in enumeration_passes /\ enumeration_pass_contains_token(p, token, mode)  BY <2>1
  <2>3. found = {p} /\ (Retried(p, token, mode) => ~(p.current.token = token))
        /\ (~Retried(p, token, mode) => p.current.token = token /\ p.current.mode = mode)
    BY <2>2, EnumerationFound, Zenon
  <2>4. pass = p  BY <2>3, OnlyElement
  <2> HIDE DEF found, pass
  <2>5. result =
      IF ~SameAuthority(p, ch, d, c)
      THEN Refused("InvalidContinuation", enumeration_passes)
      ELSE IF Retried(p, token, mode)
      THEN Answered(p.retry.response, enumeration_passes)
      ELSE IF window.terminal < p.terminal
      THEN Refused("InvalidContinuation", enumeration_passes)
      ELSE IF mode = "AfterTail" /\ window.terminal = p.terminal
      THEN Answered(EmptyResponse, enumeration_passes)
      ELSE IF page.error = "InvalidCursor"
      THEN Refused("InvalidContinuation", enumeration_passes \ {p})
      ELSE IF page.error # Null \/ page.updates = {}
      THEN Refused("Corrupt", enumeration_passes)
      ELSE Answered(response, (enumeration_passes \ {p}) \cup {advanced})
    BY <1>0, <1>3, <2>4, Zenon
  <2>6. CASE ~SameAuthority(p, ch, d, c)
    <3>1. result = Refused("InvalidContinuation", enumeration_passes)  BY <2>5, <2>6, Zenon
    <3>2. "InvalidContinuation" # "Authorized"  OBVIOUS
    <3>3. ~ \E q \in enumeration_passes :
              enumeration_pass_contains_token(q, token, mode) /\ SameAuthority(q, ch, d, c)
      BY <2>3, <2>6 DEF found
    <3> QED  BY <3>1, <3>2, <3>3 DEF Refused
  <2>7. CASE SameAuthority(p, ch, d, c) /\ Retried(p, token, mode)
    <3>1. result = Answered(p.retry.response, enumeration_passes)  BY <2>5, <2>7, Zenon
    <3> QED  BY <2>2, <2>7, <3>1
  <2>8. CASE SameAuthority(p, ch, d, c) /\ ~Retried(p, token, mode)
    <3>1. p.document = d /\ p.current.token = token /\ p.current.mode = mode
      BY <2>3, <2>8 DEF SameAuthority
    <3>2. p.terminal \in Nat /\ p.terminal <= Cardinality(Stored(d))
      BY <2>2, <3>1, EnumerationPassType DEF PassesInv, EnumerationPassInv
    <3>3. Cardinality(Stored(d)) \in Nat /\ high_water_sequence_in(d) = Cardinality(Stored(d))
      BY StoredFinite, HighWater DEF PassesInv
    <3>4. window = NextWindow(p, mode)  BY <2>4
    <3>5. window.terminal \in Nat /\ ~(window.terminal < p.terminal)
          /\ (mode = "AfterTail" => window.terminal = Cardinality(Stored(d)))
      <4>1. "Continue" # "AfterTail"  OBVIOUS
      <4> QED  BY <3>1, <3>2, <3>3, <3>4, <4>1 DEF NextWindow, Modes
    <3>6. CASE mode = "AfterTail" /\ p.terminal = Cardinality(Stored(d))
      <4>1. result = Answered(EmptyResponse, enumeration_passes)
        BY <2>5, <2>8, <3>5, <3>6, Zenon
      <4> QED  BY <2>2, <2>8, <3>1, <3>6, <4>1
    <3>7. CASE ~(mode = "AfterTail" /\ p.terminal = Cardinality(Stored(d)))
      <4>1. PICK lower, terminal, n :
              /\ NextPage(p, lower, terminal, n)
              /\ NextWindow(p, mode).lower = lower
              /\ NextWindow(p, mode).terminal = terminal
              /\ enumerate_in(d, lower, terminal, NextWindow(p, mode).ordinal) =
                   [error |-> Null, has_more |-> n < terminal - lower, next_ordinal |-> n,
                    updates |-> Window(d, Through(p), lower + n)]
        BY <2>2, <3>1, <3>7, NextPageExists
      <4>2. page = [error |-> Null, has_more |-> n < terminal - lower, next_ordinal |-> n,
                    updates |-> Window(d, Through(p), lower + n)]
        BY <3>4, <4>1
      <4>3. lower \in Nat /\ terminal \in Nat /\ n \in Nat  BY <4>1 DEF NextPage
      <4>4. (n < terminal - lower) = (lower + n < terminal)  BY <4>3
      <4>5. /\ page.error = Null /\ page.updates = Window(d, Through(p), lower + n)
            /\ page.has_more = (lower + n < terminal) /\ page.next_ordinal = n
        BY <4>2, <4>4
      <4>6. window.lower = lower /\ window.terminal = terminal  BY <3>4, <4>1
      <4> HIDE DEF page, window
      <4>7. result = Answered(response, (enumeration_passes \ {p}) \cup {advanced})
        <5>1. Null # "InvalidCursor"  BY NullIsNoValue
        <5>2. page.updates # {}  BY <3>1, <4>1, <4>5 DEF NextPage
        <5>3. ~(mode = "AfterTail" /\ window.terminal = p.terminal)  BY <3>5, <3>7
        <5> HIDE DEF response, advanced
        <5> QED  BY <2>5, <2>8, <3>5, <4>5, <5>1, <5>2, <5>3, Zenon
      <4>8. response = NextResponse(p, lower, terminal, n)
        BY <3>1, <4>5, Zenon DEF NextResponse
      <4>9. advanced = NextPass(p, lower, terminal, n)
        <5>1. p \in EnumerationPass  BY <2>2, EnumerationPassType
        <5>2. PICK R : R = response  OBVIOUS
        <5>3. R.next_cursor = mint_token  BY <5>2 DEF Response
        <5>4. EnumerationMode(page) = IF lower + n < terminal THEN "Continue" ELSE "AfterTail"
          BY <4>5 DEF EnumerationMode
        <5>5. PICK m : m = EnumerationMode(page)  OBVIOUS
        <5>6. advanced =
                [p EXCEPT
                   !.current = [mode |-> m, next_ordinal |-> n, token |-> mint_token],
                   !.lower = lower, !.terminal = terminal,
                   !.retry = [mode |-> mode, response |-> R, token |-> p.current.token]]
          BY <2>4, <4>5, <4>6, <5>2, <5>3, <5>5, Zenon DEF AdvancedEnumeration, Position
        <5>7. NextPass(p, lower, terminal, n) =
                [channel |-> p.channel, document |-> p.document, capability |-> p.capability,
                 current |-> [mode |-> m, next_ordinal |-> n, token |-> mint_token],
                 lower |-> lower, terminal |-> terminal,
                 retry |-> [mode |-> mode, response |-> R, token |-> p.current.token]]
          BY <3>1, <4>8, <5>2, <5>4, <5>5, Zenon DEF NextPass
        <5> HIDE DEF advanced
        <5>8. PICK A, B : /\ A = [mode |-> m, next_ordinal |-> n, token |-> mint_token]
                          /\ B = [mode |-> mode, response |-> R, token |-> p.current.token]
          OBVIOUS
        <5>9. advanced = [p EXCEPT !.current = A, !.lower = lower, !.terminal = terminal, !.retry = B]
          BY <5>6, <5>8, Zenon
        <5>10. NextPass(p, lower, terminal, n) =
                 PassOf(p.channel, p.document, p.capability, A, lower, terminal, B)
          BY <5>7, <5>8, Zenon DEF PassOf
        <5>11. [p EXCEPT !.current = A, !.lower = lower, !.terminal = terminal, !.retry = B] =
                 PassOf(p.channel, p.document, p.capability, A, lower, terminal, B)
          <6>1. PICK x, y, z, k, l, t, r :
                  /\ x = p.channel /\ y = p.document /\ z = p.capability
                  /\ p = PassOf(x, y, z, k, l, t, r)
            BY <5>1 DEF EnumerationPass, PassOf
          <6>2. PICK q1 : q1 = [p EXCEPT !.current = A]  OBVIOUS
          <6>3. PICK q2 : q2 = [q1 EXCEPT !.lower = lower]  OBVIOUS
          <6>4. PICK q3 : q3 = [q2 EXCEPT !.terminal = terminal]  OBVIOUS
          <6>5. PICK q4 : q4 = [q3 EXCEPT !.retry = B]  OBVIOUS
          <6>6. q1 = PassOf(x, y, z, A, l, t, r)  BY ONLY <6>1, <6>2 DEF PassOf
          <6>7. q2 = PassOf(x, y, z, A, lower, t, r)  BY ONLY <6>3, <6>6 DEF PassOf
          <6>8. q3 = PassOf(x, y, z, A, lower, terminal, r)  BY ONLY <6>4, <6>7 DEF PassOf
          <6>9. q4 = PassOf(x, y, z, A, lower, terminal, B)  BY ONLY <6>5, <6>8 DEF PassOf
          <6>10. q4 = [p EXCEPT !.current = A, !.lower = lower, !.terminal = terminal, !.retry = B]
            BY ONLY <6>2, <6>3, <6>4, <6>5
          <6> QED  BY ONLY <6>1, <6>9, <6>10
        <5> QED  BY <5>9, <5>10, <5>11
      <4>10. result = Answered(NextResponse(p, lower, terminal, n),
                               (enumeration_passes \ {p}) \cup {NextPass(p, lower, terminal, n)})
        BY <4>7, <4>8, <4>9, Zenon
      <4> QED  BY <2>2, <2>8, <3>1, <4>1, <4>10, Zenon
    <3> QED  BY <3>6, <3>7
  <2> QED  BY <2>6, <2>7, <2>8
<1> QED  BY <1>1, <1>2, <1>3

\* The passes that a query leaves in place when it starts over.
OtherEnumerations(ch, d, c) == {p \in enumeration_passes : ~SameAuthority(p, ch, d, c)}

OtherBackfills(ch, d, c, version) ==
  {p \in vector_passes : ~(SameAuthority(p, ch, d, c) /\ p.version = version)}

\* The first page of an enumeration, and the pass that continues it.
FirstPage(d, n) ==
  /\ n \in Nat /\ 0 < n /\ n <= Cardinality(Stored(d))
  /\ Window(d, 0, n) # {} /\ Fits(d, Window(d, 0, n))

FirstResponse(d, n) == Response(n < Cardinality(Stored(d)), mint_token, Window(d, 0, n))

FirstPass(ch, d, c, n) ==
  PassOf(ch, d, c,
         [mode |-> IF n < Cardinality(Stored(d)) THEN "Continue" ELSE "AfterTail",
          next_ordinal |-> n, token |-> mint_token],
         0, Cardinality(Stored(d)), Null)

\* What an enumeration from the origin is answered.
EnumerateOriginCases(ch, d, c, result) ==
  \/ /\ authorize_read(ch, d, c) # "Authorized"
     /\ result.outcome # "Authorized" /\ result.passes = enumeration_passes
  \/ /\ authorize_read(ch, d, c) = "Authorized"
     /\ \/ result = Answered(EmptyResponse, OtherEnumerations(ch, d, c))
        \/ /\ ~Admits(OtherEnumerations(ch, d, c), ch, d, c)
           /\ result.outcome # "Authorized"
           /\ result.passes = OtherEnumerations(ch, d, c)
        \/ /\ Admits(OtherEnumerations(ch, d, c), ch, d, c)
           /\ \E n : /\ FirstPage(d, n)
                     /\ result = Answered(FirstResponse(d, n),
                                   OtherEnumerations(ch, d, c) \cup {FirstPass(ch, d, c, n)})

\* enumerate_from_origin answers in one of these ways.
LEMMA EnumerateOriginResult ==
  ASSUME TablesInv, NEW ch, NEW d \in Documents, NEW c
  PROVE  EnumerateOriginCases(ch, d, c, enumerate_from_origin(ch, d, c))
<1>a. PICK result : result = enumerate_from_origin(ch, d, c)  OBVIOUS
<1> SUFFICES EnumerateOriginCases(ch, d, c, result)
  BY <1>a
<1> USE DEF EnumerateOriginCases
<1> DEFINE kept == OtherEnumerations(ch, d, c)
           terminal == high_water_sequence_in(d)
           page == enumerate_in(d, 0, terminal, 0)
           pass == [channel |-> ch, document |-> d, capability |-> c,
                    current |-> Position(EnumerationMode(page), page.next_ordinal, mint_token),
                    lower |-> 0, terminal |-> terminal, retry |-> Null]
<1>0. result =
      IF authorize_read(ch, d, c) # "Authorized"
      THEN Refused(authorize_read(ch, d, c), enumeration_passes)
      ELSE IF terminal = 0 THEN Answered(EmptyResponse, kept)
      ELSE IF page.error # Null \/ page.updates = {} THEN Refused("Corrupt", kept)
      ELSE IF ~Admits(kept, ch, d, c) THEN Refused("Backpressure", kept)
      ELSE Answered(Response(page.has_more, mint_token, page.updates), kept \cup {pass})
  BY <1>a, Zenon DEF enumerate_from_origin, OtherEnumerations, can_admit_enumeration_pass
<1>1. CASE authorize_read(ch, d, c) # "Authorized"
  <2>1. result = Refused(authorize_read(ch, d, c), enumeration_passes)  BY <1>0, <1>1, Zenon
  <2> QED  BY <1>1, <2>1 DEF Refused
<1>2. CASE authorize_read(ch, d, c) = "Authorized" /\ terminal = 0
  <2>1. result = Answered(EmptyResponse, kept)  BY <1>0, <1>2, Zenon
  <2> QED  BY <1>2, <2>1, Zenon
<1>3. CASE authorize_read(ch, d, c) = "Authorized" /\ terminal # 0
  <2>1. PICK k \in Nat : k = Cardinality(Stored(d))  BY StoredFinite
  <2>2. terminal = k  BY <2>1, HighWater
  <2>3. k > 0 /\ 0 + 0 < k /\ 0 \in Nat /\ k <= Cardinality(Stored(d))  BY <1>3, <2>1, <2>2
  <2>4. PICK n \in Nat :
          /\ 0 < n /\ 0 + n <= k
          /\ enumerate_in(d, 0, k, 0) =
               [error |-> Null, has_more |-> n < k - 0, next_ordinal |-> n,
                updates |-> Window(d, 0 + 0, 0 + n)]
          /\ Window(d, 0 + 0, 0 + n) # {}
          /\ Fits(d, Window(d, 0 + 0, 0 + n))
    BY <2>3, EnumeratePage
  <2>5. 0 + n = n /\ k - 0 = k /\ 0 + 0 = 0  OBVIOUS
  <2>6. /\ page.error = Null /\ page.has_more = (n < k) /\ page.next_ordinal = n
        /\ page.updates = Window(d, 0, n)
    BY <2>2, <2>4, <2>5
  <2>7. FirstPage(d, n)  BY <2>1, <2>4, <2>5 DEF FirstPage
  <2>8. page.updates # {}  BY <2>6, <2>7 DEF FirstPage
  <2> HIDE DEF page
  <2>9. CASE ~Admits(kept, ch, d, c)
    <3>1. result = Refused("Backpressure", kept)
      BY <1>0, <1>3, <2>6, <2>8, <2>9, Zenon
    <3>2. "Backpressure" # "Authorized"  OBVIOUS
    <3> QED  BY <1>3, <2>9, <3>1, <3>2 DEF Refused
  <2>10. CASE Admits(kept, ch, d, c)
    <3>1. result = Answered(Response(page.has_more, mint_token, page.updates), kept \cup {pass})
      BY <1>0, <1>3, <2>6, <2>8, <2>10, Zenon
    <3>2. Response(page.has_more, mint_token, page.updates) = FirstResponse(d, n)
      BY <2>1, <2>6, Zenon DEF FirstResponse
    <3>3. EnumerationMode(page) = IF n < k THEN "Continue" ELSE "AfterTail"
      BY <2>6 DEF EnumerationMode
    <3>4. pass = FirstPass(ch, d, c, n)
      BY <2>1, <2>2, <2>6, <3>3, Zenon DEF FirstPass, PassOf, Position
    <3> HIDE DEF pass
    <3>5. result = Answered(FirstResponse(d, n), kept \cup {FirstPass(ch, d, c, n)})
      BY <3>1, <3>2, <3>4, Zenon
    <3> QED  BY <1>3, <2>7, <2>10, <3>5, Zenon
  <2> QED  BY <2>9, <2>10
<1> QED  BY <1>1, <1>2, <1>3
----------------------------------------------------------------------------
\* A scan by which a vector pass is continued; n is the last examined position.
NextScan(p, n) ==
  /\ n \in Nat /\ p.current.position < n /\ n <= p.terminal
  /\ Fits(p.document, Lacking(p.document, p.version, p.current.position, n))

ScanResponse(p, n) ==
  Response(n < p.terminal, IF n < p.terminal THEN mint_token ELSE Null,
           Lacking(p.document, p.version, p.current.position, n))

VectorPassOf(ch, d, c, version, current, terminal, retry) ==
  [channel |-> ch, document |-> d, capability |-> c, version |-> version,
   current |-> current, terminal |-> terminal, retry |-> retry]

ScannedPass(p, n) ==
  VectorPassOf(p.channel, p.document, p.capability, p.version,
               IF n < p.terminal THEN [position |-> n, token |-> mint_token] ELSE Null,
               p.terminal,
               [response |-> ScanResponse(p, n), token |-> p.current.token])

\* A token that some vector pass knows leads to that pass alone.
LEMMA VectorFound ==
  ASSUME PassesInv, NEW token, NEW p \in vector_passes, vector_pass_contains_token(p, token)
  PROVE  /\ {q \in vector_passes : vector_pass_contains_token(q, token)} = {p}
         /\ token \in 1..Len(issued)
         /\ ~(p.retry # Null /\ p.retry.token = token) => p.current # Null /\ p.current.token = token
<1>1. VectorPassInv(p)  BY DEF PassesInv
<1>2. token \in 1..Len(issued)
  BY <1>1 DEF VectorPassInv, TicketFor, vector_pass_contains_token
<1>3. \A q \in vector_passes : vector_pass_contains_token(q, token) => q = p
  BY <1>2 DEF PassesInv, TokensUnique
<1>4. ~(p.retry # Null /\ p.retry.token = token) => p.current # Null /\ p.current.token = token
  BY DEF vector_pass_contains_token
<1> QED  BY <1>2, <1>3, <1>4

\* What a token of a vector backfill is answered: refused, the answer that was
\* kept, or the next scan, and the table that each leaves.
VectorTokenCases(ch, d, c, version, token, result) ==
  \/ result.outcome # "Authorized" /\ result.passes = vector_passes
     /\ (authorize_read(ch, d, c) = "Authorized" =>
           ~ \E p \in vector_passes :
               /\ vector_pass_contains_token(p, token)
               /\ SameAuthority(p, ch, d, c) /\ p.version = version)
  \/ \E p \in vector_passes :
       /\ SameAuthority(p, ch, d, c) /\ p.version = version
       /\ \/ /\ p.retry # Null /\ p.retry.token = token
             /\ result = Answered(p.retry.response, vector_passes)
          \/ /\ p.current # Null /\ p.current.token = token
             /\ \E n : /\ NextScan(p, n)
                       /\ result = Answered(ScanResponse(p, n),
                                            (vector_passes \ {p}) \cup {ScannedPass(p, n)})

\* vector_from_token answers in one of these ways.
LEMMA VectorTokenResult ==
  ASSUME PassesInv, NEW ch, NEW d \in Documents, NEW c, NEW version, NEW token
  PROVE  VectorTokenCases(ch, d, c, version, token, vector_from_token(ch, d, c, version, token))
<1>a. PICK result : result = vector_from_token(ch, d, c, version, token)  OBVIOUS
<1> SUFFICES VectorTokenCases(ch, d, c, version, token, result)
  BY <1>a
<1> USE DEF VectorTokenCases
<1> DEFINE found == {p \in vector_passes : vector_pass_contains_token(p, token)}
           pass == CHOOSE p \in found : TRUE
           page == vector_backfill_in(d, pass.current.position, pass.terminal, version)
           response == Response(page.has_more, IF page.has_more THEN mint_token ELSE Null,
                                page.updates)
           advanced == AdvancedVector(pass, page, response)
<1>0. result =
      IF authorize_read(ch, d, c) # "Authorized"
      THEN Refused(authorize_read(ch, d, c), vector_passes)
      ELSE IF found = {} \/ ~SameAuthority(pass, ch, d, c) \/ pass.version # version
      THEN Refused("InvalidContinuation", vector_passes)
      ELSE IF pass.retry # Null /\ pass.retry.token = token
      THEN Answered(pass.retry.response, vector_passes)
      ELSE IF page.error = "InvalidCursor"
      THEN Refused("InvalidContinuation", vector_passes \ {pass})
      ELSE IF page.has_more /\ page.last_examined_sequence = Null
      THEN Refused("Corrupt", vector_passes)
      ELSE Answered(response, (vector_passes \ {pass}) \cup {advanced})
  BY <1>a, Zenon DEF vector_from_token
<1>1. CASE authorize_read(ch, d, c) # "Authorized"
  <2>1. result = Refused(authorize_read(ch, d, c), vector_passes)  BY <1>0, <1>1, Zenon
  <2> QED  BY <1>1, <2>1 DEF Refused
<1>2. CASE authorize_read(ch, d, c) = "Authorized" /\ found = {}
  <2>1. result = Refused("InvalidContinuation", vector_passes)  BY <1>0, <1>2, Zenon
  <2>2. "InvalidContinuation" # "Authorized"  OBVIOUS
  <2> QED  BY <1>2, <2>1, <2>2 DEF Refused
<1>3. CASE authorize_read(ch, d, c) = "Authorized" /\ found # {}
  <2>1. PICK p \in found : TRUE  BY <1>3
  <2>2. p \in vector_passes /\ vector_pass_contains_token(p, token)  BY <2>1
  <2>3. /\ found = {p}
        /\ ~(p.retry # Null /\ p.retry.token = token) => p.current # Null /\ p.current.token = token
    BY <2>2, VectorFound, Zenon
  <2>4. pass = p  BY <2>3, OnlyElement
  <2> HIDE DEF found, pass
  <2>5. result =
      IF ~SameAuthority(p, ch, d, c) \/ p.version # version
      THEN Refused("InvalidContinuation", vector_passes)
      ELSE IF p.retry # Null /\ p.retry.token = token
      THEN Answered(p.retry.response, vector_passes)
      ELSE IF page.error = "InvalidCursor"
      THEN Refused("InvalidContinuation", vector_passes \ {p})
      ELSE IF page.has_more /\ page.last_examined_sequence = Null
      THEN Refused("Corrupt", vector_passes)
      ELSE Answered(response, (vector_passes \ {p}) \cup {advanced})
    BY <1>0, <1>3, <2>4, Zenon
  <2>6. CASE ~SameAuthority(p, ch, d, c) \/ p.version # version
    <3>1. result = Refused("InvalidContinuation", vector_passes)  BY <2>5, <2>6, Zenon
    <3>2. "InvalidContinuation" # "Authorized"  OBVIOUS
    <3>3. ~ \E q \in vector_passes :
              /\ vector_pass_contains_token(q, token)
              /\ SameAuthority(q, ch, d, c) /\ q.version = version
      BY <2>3, <2>6 DEF found
    <3> QED  BY <3>1, <3>2, <3>3 DEF Refused
  <2>7. CASE /\ SameAuthority(p, ch, d, c) /\ p.version = version
             /\ p.retry # Null /\ p.retry.token = token
    <3>1. result = Answered(p.retry.response, vector_passes)  BY <2>5, <2>7, Zenon
    <3> QED  BY <2>2, <2>7, <3>1
  <2>8. CASE /\ SameAuthority(p, ch, d, c) /\ p.version = version
             /\ ~(p.retry # Null /\ p.retry.token = token)
    <3>1. p.document = d /\ p.version = version /\ p.current # Null /\ p.current.token = token
      BY <2>3, <2>8 DEF SameAuthority
    <3>2. /\ p.terminal \in Nat /\ p.current.position \in Nat
          /\ p.current.position < p.terminal /\ p.terminal <= Cardinality(Stored(d))
      BY <2>2, <3>1, VectorPassType DEF PassesInv, VectorPassInv
    <3>3. PICK a, b : a = p.current.position /\ b = p.terminal  OBVIOUS
    <3>4. PICK n \in Nat :
           /\ a < n /\ n <= b
           /\ vector_backfill_in(d, a, b, version) =
                [error |-> Null, has_more |-> n < b,
                 last_examined_sequence |-> n,
                 updates |-> Lacking(d, version, a, n)]
           /\ Fits(d, Lacking(d, version, a, n))
      BY <3>2, <3>3, BackfillPage DEF PassesInv
    <3>5. /\ page.error = Null /\ page.has_more = (n < b) /\ page.last_examined_sequence = n
          /\ page.updates = Lacking(d, version, a, n)
      BY <2>4, <3>3, <3>4
    <3>6. NextScan(p, n)  BY <3>1, <3>3, <3>4 DEF NextScan
    <3> HIDE DEF page
    <3>7. result = Answered(response, (vector_passes \ {p}) \cup {advanced})
      <4>1. Null # "InvalidCursor" /\ n # Null  BY NullIsNoValue, UpdateConstants
      <4> HIDE DEF response, advanced
      <4> QED  BY <2>5, <2>8, <3>5, <4>1, Zenon
    <3>8. response = ScanResponse(p, n)
      BY <3>1, <3>3, <3>5, Zenon DEF ScanResponse
    <3>9. advanced = ScannedPass(p, n)
      <4>1. p \in VectorPass  BY <2>2, VectorPassType
      <4>2. PICK R : R = response  OBVIOUS
      <4>3. n < b => R.next_cursor = mint_token
        <5>1. R.next_cursor = IF page.has_more THEN mint_token ELSE Null  BY <4>2 DEF Response
        <5> QED  BY <3>5, <5>1
      <4>4. PICK A, B :
              /\ A = IF n < b THEN [position |-> n, token |-> mint_token] ELSE Null
              /\ B = [response |-> R, token |-> p.current.token]
        OBVIOUS
      <4>5. advanced = [p EXCEPT !.current = A, !.retry = B]
        <5>1. (IF page.has_more
               THEN [position |-> page.last_examined_sequence, token |-> response.next_cursor]
               ELSE Null) = A
          <6> HIDE DEF response
          <6> QED  BY <3>5, <4>2, <4>3, <4>4, Zenon
        <5>2. [response |-> response, token |-> pass.current.token] = B
          BY <2>4, <4>2, <4>4, Zenon
        <5>3. advanced =
                [p EXCEPT !.current = IF page.has_more
                    THEN [position |-> page.last_examined_sequence, token |-> response.next_cursor]
                    ELSE Null,
                  !.retry = [response |-> response, token |-> pass.current.token]]
          BY <2>4, Zenon DEF AdvancedVector
        <5> HIDE DEF advanced, response
        <5> QED  BY <5>1, <5>2, <5>3, Zenon
      <4>6. ScannedPass(p, n) =
              VectorPassOf(p.channel, p.document, p.capability, p.version, A, p.terminal, B)
        BY <3>3, <3>8, <4>2, <4>4, Zenon DEF ScannedPass
      <4>7. [p EXCEPT !.current = A, !.retry = B] =
              VectorPassOf(p.channel, p.document, p.capability, p.version, A, p.terminal, B)
        <5>1. PICK x, y, z, v, k, t, r :
                /\ x = p.channel /\ y = p.document /\ z = p.capability /\ v = p.version
                /\ t = p.terminal /\ p = VectorPassOf(x, y, z, v, k, t, r)
          BY <4>1 DEF VectorPass, VectorPassOf
        <5>2. PICK q1 : q1 = [p EXCEPT !.current = A]  OBVIOUS
        <5>3. PICK q2 : q2 = [q1 EXCEPT !.retry = B]  OBVIOUS
        <5>4. q1 = VectorPassOf(x, y, z, v, A, t, r)  BY ONLY <5>1, <5>2 DEF VectorPassOf
        <5>5. q2 = VectorPassOf(x, y, z, v, A, t, B)  BY ONLY <5>3, <5>4 DEF VectorPassOf
        <5>6. q2 = [p EXCEPT !.current = A, !.retry = B]  BY ONLY <5>2, <5>3
        <5> QED  BY ONLY <5>1, <5>5, <5>6
      <4> HIDE DEF advanced
      <4> QED  BY <4>5, <4>6, <4>7
    <3>10. result = Answered(ScanResponse(p, n), (vector_passes \ {p}) \cup {ScannedPass(p, n)})
      BY <3>7, <3>8, <3>9, Zenon
    <3> QED  BY <2>2, <2>8, <3>1, <3>6, <3>10, Zenon
  <2> QED  BY <2>6, <2>7, <2>8
<1> QED  BY <1>1, <1>2, <1>3

\* The first scan of a vector backfill, and the pass that continues it.
FirstScan(d, version, n) ==
  /\ n \in Nat /\ 0 < n /\ n <= Cardinality(Stored(d))
  /\ Fits(d, Lacking(d, version, 0, n))

FirstVectorPass(ch, d, c, version, n) ==
  VectorPassOf(ch, d, c, version, [position |-> n, token |-> mint_token],
               Cardinality(Stored(d)), Null)

\* What a vector backfill from the origin is answered.
VectorOriginCases(ch, d, c, version, result) ==
  \/ /\ authorize_read(ch, d, c) # "Authorized"
     /\ result.outcome # "Authorized" /\ result.passes = vector_passes
  \/ /\ authorize_read(ch, d, c) = "Authorized"
     /\ \/ /\ Cardinality(Stored(d)) = 0
           /\ result = Answered(EmptyResponse, vector_passes)
        \/ /\ Cardinality(Stored(d)) # 0
           /\ result = Answered(Response(FALSE, Null, Lacking(d, version, 0, Cardinality(Stored(d)))),
                                vector_passes)
        \/ /\ ~Admits(OtherBackfills(ch, d, c, version), ch, d, c)
           /\ result.outcome # "Authorized"
           /\ result.passes = OtherBackfills(ch, d, c, version)
        \/ /\ Admits(OtherBackfills(ch, d, c, version), ch, d, c)
           /\ \E n : /\ FirstScan(d, version, n) /\ n < Cardinality(Stored(d))
                     /\ result = Answered(Response(TRUE, mint_token, Lacking(d, version, 0, n)),
                                   OtherBackfills(ch, d, c, version)
                                     \cup {FirstVectorPass(ch, d, c, version, n)})

\* vector_from_origin answers in one of these ways.
LEMMA VectorOriginResult ==
  ASSUME TablesInv, NEW ch, NEW d \in Documents, NEW c, NEW version
  PROVE  VectorOriginCases(ch, d, c, version, vector_from_origin(ch, d, c, version))
<1>a. PICK result : result = vector_from_origin(ch, d, c, version)  OBVIOUS
<1> SUFFICES VectorOriginCases(ch, d, c, version, result)
  BY <1>a
<1> USE DEF VectorOriginCases
<1> DEFINE kept == OtherBackfills(ch, d, c, version)
           terminal == high_water_sequence_in(d)
           page == vector_backfill_in(d, 0, terminal, version)
           pass == [channel |-> ch, document |-> d, capability |-> c, version |-> version,
                    current |-> [position |-> page.last_examined_sequence, token |-> mint_token],
                    terminal |-> terminal, retry |-> Null]
<1>0. result =
      IF authorize_read(ch, d, c) # "Authorized"
      THEN Refused(authorize_read(ch, d, c), vector_passes)
      ELSE IF terminal = 0 THEN Answered(EmptyResponse, vector_passes)
      ELSE IF page.error # Null THEN Refused("Error", vector_passes)
      ELSE IF ~page.has_more
      THEN Answered(Response(FALSE, Null, page.updates), vector_passes)
      ELSE IF page.last_examined_sequence = Null THEN Refused("Corrupt", vector_passes)
      ELSE IF ~Admits(kept, ch, d, c) THEN Refused("Backpressure", kept)
      ELSE Answered(Response(TRUE, mint_token, page.updates), kept \cup {pass})
  BY <1>a, Zenon DEF vector_from_origin, OtherBackfills, can_admit_vector_pass
<1>1. CASE authorize_read(ch, d, c) # "Authorized"
  <2>1. result = Refused(authorize_read(ch, d, c), vector_passes)  BY <1>0, <1>1, Zenon
  <2>2. result.outcome # "Authorized" /\ result.passes = vector_passes
    BY <1>1, <2>1 DEF Refused
  <2> QED  BY <1>1, <2>2, Zenon
<1>2. CASE authorize_read(ch, d, c) = "Authorized" /\ terminal = 0
  <2>1. result = Answered(EmptyResponse, vector_passes)  BY <1>0, <1>2, Zenon
  <2>2. Cardinality(Stored(d)) = 0  BY <1>2, HighWater
  <2> QED  BY <1>2, <2>1, <2>2, Zenon
<1>3. CASE authorize_read(ch, d, c) = "Authorized" /\ terminal # 0
  <2>1. PICK k \in Nat : k = Cardinality(Stored(d))  BY StoredFinite
  <2>2. terminal = k  BY <2>1, HighWater
  <2>3. k > 0 /\ 0 < k /\ 0 \in Nat /\ k <= Cardinality(Stored(d))  BY <1>3, <2>1, <2>2
  <2>4. PICK n \in Nat :
          /\ 0 < n /\ n <= k
          /\ vector_backfill_in(d, 0, k, version) =
               [error |-> Null, has_more |-> n < k, last_examined_sequence |-> n,
                updates |-> Lacking(d, version, 0, n)]
          /\ Fits(d, Lacking(d, version, 0, n))
    BY <2>3, BackfillPage
  <2>5. /\ page.error = Null /\ page.has_more = (n < k) /\ page.last_examined_sequence = n
        /\ page.updates = Lacking(d, version, 0, n)
    BY <2>2, <2>4
  <2>6. n # Null  BY UpdateConstants
  <2>7. FirstScan(d, version, n)  BY <2>1, <2>4 DEF FirstScan
  <2> HIDE DEF page
  <2>8. CASE ~(n < k)
    <3>1. result = Answered(Response(FALSE, Null, page.updates), vector_passes)
      BY <1>0, <1>3, <2>5, <2>8, Zenon
    <3>2. page.updates = Lacking(d, version, 0, Cardinality(Stored(d)))
      BY <2>1, <2>4, <2>5, <2>8
    <3>3. Cardinality(Stored(d)) # 0  BY <2>1, <2>3
    <3>4. result = Answered(Response(FALSE, Null, Lacking(d, version, 0, Cardinality(Stored(d)))),
                            vector_passes)
      BY <3>1, <3>2, Zenon
    <3> QED  BY <1>3, <3>3, <3>4, Zenon
  <2>9. CASE n < k /\ ~Admits(kept, ch, d, c)
    <3>1. result = Refused("Backpressure", kept)
      BY <1>0, <1>3, <2>5, <2>6, <2>9, Zenon
    <3>2. "Backpressure" # "Authorized"  OBVIOUS
    <3>3. result.outcome # "Authorized" /\ result.passes = kept
      BY <3>1, <3>2 DEF Refused
    <3> QED  BY <1>3, <2>9, <3>3, Zenon
  <2>10. CASE n < k /\ Admits(kept, ch, d, c)
    <3>1. result = Answered(Response(TRUE, mint_token, page.updates), kept \cup {pass})
      BY <1>0, <1>3, <2>5, <2>6, <2>10, Zenon
    <3>2. Response(TRUE, mint_token, page.updates) =
            Response(TRUE, mint_token, Lacking(d, version, 0, n))
      BY <2>5, Zenon
    <3>3. pass = FirstVectorPass(ch, d, c, version, n)
      BY <2>1, <2>2, <2>5, Zenon DEF FirstVectorPass, VectorPassOf
    <3> HIDE DEF pass
    <3>4. result = Answered(Response(TRUE, mint_token, Lacking(d, version, 0, n)),
                            kept \cup {FirstVectorPass(ch, d, c, version, n)})
      BY <3>1, <3>2, <3>3, Zenon
    <3>5. n < Cardinality(Stored(d))  BY <2>1, <2>10
    <3> QED  BY <1>3, <2>7, <2>10, <3>4, <3>5, Zenon
  <2> QED  BY <2>8, <2>9, <2>10
<1> QED  BY <1>1, <1>2, <1>3
----------------------------------------------------------------------------
\* A token is honoured only for its own query, with the answer it once had.
LEMMA TokenAnswersHold == PassesInv => TokenAnswers
<1> SUFFICES ASSUME PassesInv, NEW t \in 1..Len(issued), NEW ch \in Channels,
                    NEW d \in Documents, NEW c \in Capabilities
             PROVE  LET ticket == issued[t]
                        Faithful(result, mode, version) ==
                          result.outcome = "Authorized" =>
                            /\ ticket.mode = mode /\ ticket.version = version
                            /\ ticket.channel = ch /\ ticket.document = d /\ ticket.capability = c
                            /\ ticket.answer # Null => result.response = ticket.answer
                    IN  /\ \A mode \in {"Continue", "AfterTail"} :
                             Faithful(enumerate_from_token(ch, d, c, mode, t), mode, Null)
                        /\ \A version \in Versions :
                             Faithful(vector_from_token(ch, d, c, version, t), "Vector", version)
  BY Zenon DEF TokenAnswers
<1> DEFINE Faithful(result, mode, version) ==
             result.outcome = "Authorized" =>
               /\ issued[t].mode = mode /\ issued[t].version = version
               /\ issued[t].channel = ch /\ issued[t].document = d /\ issued[t].capability = c
               /\ issued[t].answer # Null => result.response = issued[t].answer
<1>1. ASSUME NEW mode \in {"Continue", "AfterTail"}
      PROVE  Faithful(enumerate_from_token(ch, d, c, mode, t), mode, Null)
  <2>1. PICK result : result = enumerate_from_token(ch, d, c, mode, t)  OBVIOUS
  <2>2. mode \in Modes  BY DEF Modes
  <2>3. CASE result.outcome # "Authorized"  BY <2>1, <2>3
  <2>4. ASSUME NEW p \in enumeration_passes, SameAuthority(p, ch, d, c),
               \/ Retried(p, t, mode) /\ result.response = p.retry.response
               \/ p.current.token = t /\ p.current.mode = mode
        PROVE  Faithful(result, mode, Null)
    <3>1. EnumerationPassInv(p)  BY DEF PassesInv
    <3>2. CASE Retried(p, t, mode) /\ result.response = p.retry.response
      BY <2>4, <3>1, <3>2 DEF EnumerationPassInv, TicketFor, Retried, SameAuthority
    <3>3. CASE p.current.token = t /\ p.current.mode = mode
      BY <2>4, <3>1, <3>3 DEF EnumerationPassInv, TicketFor, SameAuthority
    <3> QED  BY <2>4, <3>2, <3>3
  <2>5. result.outcome = "Authorized" =>
          \E p \in enumeration_passes :
            /\ SameAuthority(p, ch, d, c)
            /\ \/ Retried(p, t, mode) /\ result = Answered(p.retry.response, enumeration_passes)
               \/ p.current.token = t /\ p.current.mode = mode
    <3>1. EnumerateTokenCases(ch, d, c, mode, t, result)  BY <2>1, <2>2, EnumerateTokenResult
    <3> QED  BY <3>1, Zenon DEF EnumerateTokenCases
  <2>6. \A r, T : Answered(r, T).response = r  BY DEF Answered
  <2>7. result.outcome = "Authorized" => Faithful(result, mode, Null)
    <3> HIDE DEF Faithful
    <3> QED  BY <2>4, <2>5, <2>6
  <2> HIDE DEF Faithful
  <2>8. Faithful(result, mode, Null)
    <3>1. result.outcome # "Authorized" => Faithful(result, mode, Null)  BY Zenon DEF Faithful
    <3> QED  BY <2>7, <3>1
  <2> QED  BY <2>1, <2>8
<1>2. ASSUME NEW version \in Versions
      PROVE  Faithful(vector_from_token(ch, d, c, version, t), "Vector", version)
  <2>1. PICK result : result = vector_from_token(ch, d, c, version, t)  OBVIOUS
  <2>4. ASSUME NEW p \in vector_passes, SameAuthority(p, ch, d, c), p.version = version,
               \/ p.retry # Null /\ p.retry.token = t /\ result.response = p.retry.response
               \/ p.current # Null /\ p.current.token = t
        PROVE  Faithful(result, "Vector", version)
    <3>1. VectorPassInv(p)  BY DEF PassesInv
    <3>2. CASE p.retry # Null /\ p.retry.token = t /\ result.response = p.retry.response
      BY <2>4, <3>1, <3>2 DEF VectorPassInv, TicketFor, SameAuthority
    <3>3. CASE p.current # Null /\ p.current.token = t
      BY <2>4, <3>1, <3>3 DEF VectorPassInv, TicketFor, SameAuthority
    <3> QED  BY <2>4, <3>2, <3>3
  <2>5. result.outcome = "Authorized" =>
          \E p \in vector_passes :
            /\ SameAuthority(p, ch, d, c) /\ p.version = version
            /\ \/ /\ p.retry # Null /\ p.retry.token = t
                  /\ result = Answered(p.retry.response, vector_passes)
               \/ p.current # Null /\ p.current.token = t
    <3>1. VectorTokenCases(ch, d, c, version, t, result)  BY <2>1, VectorTokenResult
    <3> QED  BY <3>1, Zenon DEF VectorTokenCases
  <2>6. \A r, T : Answered(r, T).response = r  BY DEF Answered
  <2>7. result.outcome = "Authorized" => Faithful(result, "Vector", version)
    <3> HIDE DEF Faithful
    <3> QED  BY <2>4, <2>5, <2>6
  <2> HIDE DEF Faithful
  <2>8. Faithful(result, "Vector", version)
    <3>1. result.outcome # "Authorized" => Faithful(result, "Vector", version)
      BY Zenon DEF Faithful
    <3> QED  BY <2>7, <3>1
  <2> QED  BY <2>1, <2>8
<1> QED  BY <1>1, <1>2, Zenon

\* A query whose pass is in the table may read, and its document has rows.
LEMMA LiveReads ==
  ASSUME NEW p, Live(p)
  PROVE  authorize_read(p.channel, p.document, p.capability) = "Authorized"
BY DEF Live, authorize, authorize_read, recognizes

\* An empty page fits where a page of an accepted record does.
LEMMA EmptyFits ==
  ASSUME TablesInv, NEW d \in Documents, Stored(d) # {}
  PROVE  Fits(d, {})
<1>1. Stored(d) \in SUBSET Stored(d) /\ {} \in SUBSET Stored(d)  OBVIOUS
<1>2. metadata_byte_limit \in Nat  BY <1>1, PageLength
<1>3. Bytes(d, {}) = 0  BY <1>1, PageLength
<1> QED  BY <1>2, <1>3 DEF Fits

\* The rows of a window are stored rows.
LEMMA WindowStored ==
  ASSUME NEW d, NEW a, NEW b, NEW version
  PROVE  /\ Window(d, a, b) \in SUBSET Stored(d)
         /\ Lacking(d, version, a, b) \in SUBSET Stored(d)
         /\ Lacking(d, version, a, b) \in SUBSET Window(d, a, b)
BY DEF Window, Lacking

\* A client that starts over finds room.
LEMMA RestartAdmittedHolds == PassesInv => RestartAdmitted
<1> SUFFICES ASSUME PassesInv PROVE RestartAdmitted
  OBVIOUS
<1>0. TablesInv  BY DEF PassesInv
<1>1. \A r, T : Answered(r, T).outcome = "Authorized"  BY DEF Answered
<1>2. ASSUME NEW p \in enumeration_passes
      PROVE  enumerate_from_origin(p.channel, p.document, p.capability).outcome = "Authorized"
  <2>1. PICK kept : kept = OtherEnumerations(p.channel, p.document, p.capability)  OBVIOUS
  <2>2. kept \in SUBSET enumeration_passes /\ p \notin kept
    BY <2>1 DEF OtherEnumerations, SameAuthority
  <2>3. Admits(kept, p.channel, p.document, p.capability)
    BY <2>2, RoomOfThePass DEF PassesInv
  <2>4. authorize_read(p.channel, p.document, p.capability) = "Authorized"
    BY LiveReads DEF PassesInv, EnumerationPassInv
  <2>5. p.document \in Documents  BY EnumerationPassType
  <2>6. PICK result : result = enumerate_from_origin(p.channel, p.document, p.capability)  OBVIOUS
  <2>7. EnumerateOriginCases(p.channel, p.document, p.capability, result)
    BY <1>0, <2>5, <2>6, EnumerateOriginResult
  <2>8. \/ result = Answered(EmptyResponse, kept)
        \/ \E n : result = Answered(FirstResponse(p.document, n),
                            kept \cup {FirstPass(p.channel, p.document, p.capability, n)})
    BY <2>1, <2>3, <2>4, <2>7, Zenon DEF EnumerateOriginCases
  <2> QED  BY <1>1, <2>6, <2>8, Zenon
<1>3. ASSUME NEW p \in vector_passes
      PROVE  vector_from_origin(p.channel, p.document, p.capability, p.version).outcome = "Authorized"
  <2>1. PICK kept : kept = OtherBackfills(p.channel, p.document, p.capability, p.version)  OBVIOUS
  <2>2. kept \in SUBSET vector_passes /\ p \notin kept
    BY <2>1 DEF OtherBackfills, SameAuthority
  <2>3. Admits(kept, p.channel, p.document, p.capability)
    BY <2>2, RoomOfThePass DEF PassesInv
  <2>4. authorize_read(p.channel, p.document, p.capability) = "Authorized"
    BY LiveReads DEF PassesInv, VectorPassInv
  <2>5. p.document \in Documents  BY VectorPassType
  <2>6. PICK result : result = vector_from_origin(p.channel, p.document, p.capability, p.version)
    OBVIOUS
  <2>7. VectorOriginCases(p.channel, p.document, p.capability, p.version, result)
    BY <1>0, <2>5, <2>6, VectorOriginResult
  <2>8. \E r, T : result = Answered(r, T)
    BY <2>1, <2>3, <2>4, <2>7, Zenon DEF VectorOriginCases
  <2> QED  BY <1>1, <2>6, <2>8, Zenon
<1> QED  BY <1>2, <1>3 DEF RestartAdmitted

\* A comparison is a Boolean.
LEMMA Less == \A n, t : \E f \in BOOLEAN : f = (n < t)
<1>1. \A n, t : (n < t) \in BOOLEAN  OBVIOUS
<1> QED  BY <1>1, Zenon

\* The responses of an enumeration that can be encoded.
LEMMA EnumerationEncodes ==
  ASSUME PassesInv, NEW p \in enumeration_passes
  PROVE  /\ encode_enumerate_response(p.document, EmptyResponse)
         /\ \A lower, terminal, n : NextPage(p, lower, terminal, n) =>
              encode_enumerate_response(p.document, NextResponse(p, lower, terminal, n))
<1>0. TablesInv /\ EnumerationPassInv(p) /\ p.document \in Documents
  BY EnumerationPassType DEF PassesInv
<1>1. Fits(p.document, {})
  <2>1. p.terminal \in Nat /\ p.terminal > 0 /\ p.terminal <= Cardinality(Stored(p.document))
    BY <1>0, EnumerationPassType DEF EnumerationPassInv
  <2>2. Cardinality({}) = 0 /\ Cardinality(Stored(p.document)) \in Nat
    BY <1>0, FS_EmptySet, StoredFinite
  <2>3. Stored(p.document) # {}  BY <2>1, <2>2
  <2> QED  BY <1>0, <2>3, EmptyFits
<1>2. encode_enumerate_response(p.document, EmptyResponse)
  <2>1. {} \in SUBSET Stored(p.document)  OBVIOUS
  <2>2. encoded_length(p.document, EmptyResponse) <= MAX_APPLICATION_PAYLOAD_LENGTH
    BY <1>0, <1>1, <2>1, Encodable, Zenon DEF EmptyResponse
  <2>3. PICK f : f = FALSE  OBVIOUS
  <2>4. EmptyResponse = Response(f, Null, {})  BY <2>3, Zenon DEF EmptyResponse
  <2>5. EmptyResponse.has_more = f /\ EmptyResponse.next_cursor = Null /\ EmptyResponse.updates = {}
    BY <2>4 DEF Response
  <2> QED  BY <2>2, <2>3, <2>5, Zenon DEF encode_enumerate_response
<1>3. ASSUME NEW lower, NEW terminal, NEW n, NextPage(p, lower, terminal, n)
      PROVE  encode_enumerate_response(p.document, NextResponse(p, lower, terminal, n))
  <2>1. PICK S : S = Window(p.document, Through(p), lower + n)  OBVIOUS
  <2>2. S \in SUBSET Stored(p.document)  BY <2>1, WindowStored
  <2>3. S # {} /\ Fits(p.document, S)  BY <1>3, <2>1 DEF NextPage
  <2>4. mint_token # Null
    <3>1. mint_token \in Nat  BY IssuedType
    <3> QED  BY <3>1, UpdateConstants
  <2>5. PICK f \in BOOLEAN : f = (lower + n < terminal)  BY Less, Zenon
  <2>6. PICK R : R = Response(f, mint_token, S)  OBVIOUS
  <2>7. NextResponse(p, lower, terminal, n) = R
    BY <2>1, <2>5, <2>6, Zenon DEF NextResponse
  <2>8. encoded_length(p.document, R) <= MAX_APPLICATION_PAYLOAD_LENGTH
    BY <1>0, <2>2, <2>3, <2>6, Encodable
  <2>9. R.next_cursor = mint_token /\ R.updates = S  BY <2>6 DEF Response
  <2>10. encode_enumerate_response(p.document, R)
    BY <2>3, <2>4, <2>8, <2>9 DEF encode_enumerate_response
  <2> QED  BY <2>7, <2>10
<1> QED  BY <1>2, <1>3

\* Every pass that is kept can be continued, and the answer can be encoded.
LEMMA PassAnswersHold == PassesInv => PassAnswers
<1> SUFFICES ASSUME PassesInv PROVE PassAnswers
  OBVIOUS
<1>0. TablesInv  BY DEF PassesInv
<1>1. \A r, T : Answered(r, T).outcome = "Authorized" /\ Answered(r, T).response = r
  BY DEF Answered
<1>2. ASSUME NEW p \in enumeration_passes
      PROVE  LET result == enumerate_from_token(p.channel, p.document, p.capability,
                                                p.current.mode, p.current.token)
             IN  /\ result.outcome = "Authorized"
                 /\ encode_enumerate_response(p.document, result.response)
  <2>0. PICK mode, token : mode = p.current.mode /\ token = p.current.token  OBVIOUS
  <2>1. PICK result : result = enumerate_from_token(p.channel, p.document, p.capability, mode, token)
    OBVIOUS
  <2>2. EnumerationPassInv(p) /\ p.document \in Documents /\ mode \in Modes
    BY <2>0, EnumerationPassType DEF PassesInv
  <2>3. authorize_read(p.channel, p.document, p.capability) = "Authorized"
    BY <2>2, LiveReads DEF EnumerationPassInv
  <2>4. enumeration_pass_contains_token(p, token, mode) /\ SameAuthority(p, p.channel, p.document, p.capability)
    BY <2>0 DEF enumeration_pass_contains_token, SameAuthority
  <2>5. ~Retried(p, token, mode)
    BY <2>0, <2>2 DEF EnumerationPassInv, Retried
  <2>6. \A q \in enumeration_passes : enumeration_pass_contains_token(q, token, mode) => q = p
    BY <2>4, EnumerationFound
  <2>7. \/ result = Answered(EmptyResponse, enumeration_passes)
        \/ \E lower, terminal, n, T :
             /\ NextPage(p, lower, terminal, n)
             /\ result = Answered(NextResponse(p, lower, terminal, n), T)
    <3>1. \E q \in enumeration_passes :
         \/ /\ Retried(q, token, mode)
         \/ /\ q.current.token = token /\ q.current.mode = mode
            /\ result = Answered(EmptyResponse, enumeration_passes)
         \/ /\ q.current.token = token /\ q.current.mode = mode
            /\ \E lower, terminal, n :
                    /\ NextPage(q, lower, terminal, n)
                    /\ result = Answered(NextResponse(q, lower, terminal, n),
                                         (enumeration_passes \ {q})
                                           \cup {NextPass(q, lower, terminal, n)})
      <4>1. EnumerateTokenCases(p.channel, p.document, p.capability, mode, token, result)
        BY <2>1, <2>2, EnumerateTokenResult
      <4> QED  BY <2>3, <2>4, <4>1, Zenon DEF EnumerateTokenCases
    <3>2. \A q \in enumeration_passes :
            \/ Retried(q, token, mode)
            \/ q.current.token = token /\ q.current.mode = mode
            => enumeration_pass_contains_token(q, token, mode)
      BY DEF enumeration_pass_contains_token
    <3> QED  BY <2>5, <2>6, <3>1, <3>2, Zenon
  <2>8. result.outcome = "Authorized" /\ encode_enumerate_response(p.document, result.response)
    <3>1. CASE result = Answered(EmptyResponse, enumeration_passes)
      <4>1. encode_enumerate_response(p.document, EmptyResponse)  BY EnumerationEncodes
      <4> QED  BY <1>1, <3>1, <4>1
    <3>2. CASE \E lower, terminal, n, T :
                 /\ NextPage(p, lower, terminal, n)
                 /\ result = Answered(NextResponse(p, lower, terminal, n), T)
      <4>1. PICK lower, terminal, n, T :
              /\ NextPage(p, lower, terminal, n)
              /\ result = Answered(NextResponse(p, lower, terminal, n), T)
        BY <3>2
      <4>2. encode_enumerate_response(p.document, NextResponse(p, lower, terminal, n))
        BY <4>1, EnumerationEncodes
      <4> QED  BY <1>1, <4>1, <4>2
    <3> QED  BY <2>7, <3>1, <3>2
  <2> QED  BY <2>0, <2>1, <2>8, Zenon
<1>3. ASSUME NEW p \in vector_passes
      PROVE  LET token == IF p.current = Null THEN p.retry.token ELSE p.current.token
                 result == vector_from_token(p.channel, p.document, p.capability, p.version, token)
             IN  /\ result.outcome = "Authorized"
                 /\ encode_vector_backfill_response(p.document, result.response)
  <2>0. PICK token : token = IF p.current = Null THEN p.retry.token ELSE p.current.token  OBVIOUS
  <2>1. PICK result : result = vector_from_token(p.channel, p.document, p.capability, p.version, token)
    OBVIOUS
  <2>2. VectorPassInv(p) /\ p.document \in Documents
    BY VectorPassType DEF PassesInv
  <2>3. authorize_read(p.channel, p.document, p.capability) = "Authorized"
    BY <2>2, LiveReads DEF VectorPassInv
  <2>4. vector_pass_contains_token(p, token) /\ SameAuthority(p, p.channel, p.document, p.capability)
    BY <2>0, <2>2 DEF vector_pass_contains_token, SameAuthority, VectorPassInv
  <2>5. \A q \in vector_passes : vector_pass_contains_token(q, token) => q = p
    BY <2>4, VectorFound
  <2>6. \/ p.current = Null /\ result = Answered(p.retry.response, vector_passes)
        \/ \E n, T : NextScan(p, n) /\ result = Answered(ScanResponse(p, n), T)
    <3>1. \E q \in vector_passes :
         \/ /\ q.retry # Null /\ q.retry.token = token
            /\ result = Answered(q.retry.response, vector_passes)
         \/ /\ q.current # Null /\ q.current.token = token
            /\ \E n : /\ NextScan(q, n)
                      /\ result = Answered(ScanResponse(q, n),
                                           (vector_passes \ {q}) \cup {ScannedPass(q, n)})
      <4>1. VectorTokenCases(p.channel, p.document, p.capability, p.version, token, result)
        BY <2>1, <2>2, VectorTokenResult
      <4> QED  BY <2>3, <2>4, <4>1, Zenon DEF VectorTokenCases
    <3>2. \A q \in vector_passes :
            \/ q.retry # Null /\ q.retry.token = token
            \/ q.current # Null /\ q.current.token = token
            => vector_pass_contains_token(q, token)
      BY DEF vector_pass_contains_token
    <3>3. p.retry # Null /\ p.retry.token = token => p.current = Null
      BY <2>0, <2>2 DEF VectorPassInv
    <3> QED  BY <2>5, <3>1, <3>2, <3>3, Zenon
  <2>7. CASE p.current = Null /\ result = Answered(p.retry.response, vector_passes)
    <3>1. PICK R : R = p.retry.response  OBVIOUS
    <3>2. PICK f : f = FALSE  OBVIOUS
    <3>3. R \in Responses
      BY <2>2, <2>7, <3>1, VectorPassType DEF VectorPassInv, VectorRetry
    <3>4. R.has_more = f /\ R.next_cursor = Null /\ R.updates \in SUBSET Stored(p.document)
          /\ Fits(p.document, R.updates)
      BY <2>2, <2>7, <3>1, <3>2, Zenon DEF VectorPassInv
    <3>5. R = Response(f, Null, R.updates)  BY <3>3, <3>4 DEF Responses, Response
    <3>6. encoded_length(p.document, R) <= MAX_APPLICATION_PAYLOAD_LENGTH
      BY <1>0, <2>2, <3>2, <3>4, <3>5, Encodable, Zenon
    <3>7. encode_vector_backfill_response(p.document, R)
      BY <3>2, <3>4, <3>6, Zenon DEF encode_vector_backfill_response
    <3>8. result.outcome = "Authorized" /\ result.response = R  BY <1>1, <2>7, <3>1
    <3> QED  BY <2>0, <2>1, <3>7, <3>8
  <2>8. CASE \E n, T : NextScan(p, n) /\ result = Answered(ScanResponse(p, n), T)
    <3>1. PICK n, T : NextScan(p, n) /\ result = Answered(ScanResponse(p, n), T)  BY <2>8
    <3>2. PICK S : S = Lacking(p.document, p.version, p.current.position, n)  OBVIOUS
    <3>3. S \in SUBSET Stored(p.document) /\ Fits(p.document, S)
      BY <3>1, <3>2, WindowStored DEF NextScan
    <3>4. mint_token # Null
      <4>1. mint_token \in Nat  BY IssuedType
      <4> QED  BY <4>1, UpdateConstants
    <3>5. PICK f \in BOOLEAN : f = (n < p.terminal)  BY Less, Zenon
    <3>6. PICK cur : cur = IF f THEN mint_token ELSE Null  OBVIOUS
    <3>7. PICK R : R = Response(f, cur, S)  OBVIOUS
    <3>8. ScanResponse(p, n) = R
      BY <3>2, <3>5, <3>6, <3>7, Zenon DEF ScanResponse
    <3>9. encoded_length(p.document, R) <= MAX_APPLICATION_PAYLOAD_LENGTH
      BY <1>0, <2>2, <3>3, <3>7, Encodable
    <3>10. R.next_cursor = cur /\ R.has_more = f  BY <3>7 DEF Response
    <3>11. f <=> cur # Null  BY <3>4, <3>6
    <3>12. encode_vector_backfill_response(p.document, R)
      BY <3>9, <3>10, <3>11 DEF encode_vector_backfill_response
    <3>13. result.outcome = "Authorized" /\ result.response = R  BY <1>1, <3>1, <3>8
    <3> QED  BY <2>0, <2>1, <3>12, <3>13
  <2> QED  BY <2>6, <2>7, <2>8
<1> QED  BY <1>2, <1>3, Zenon DEF PassAnswers
----------------------------------------------------------------------------
\* The oracle's order of acceptance gives the update at each taken position.
LEMMA OracleOrder ==
  ASSUME TablesInv, NEW d \in Documents
  PROVE  /\ \A u \in Stored(d) : Order[d][SequenceOf(d, u)] = u
         /\ \A n \in 1..MAX_SEQUENCE : Order[d][n] # Null =>
              Order[d][n] \in Stored(d) /\ SequenceOf(d, Order[d][n]) = n
         /\ Null \notin Stored(d)
<1>0. MAX_SEQUENCE \in Nat  BY UpdateConstants
<1>1. \A n \in 1..MAX_SEQUENCE : Order[d][n] = UpdateAt(d, n)  BY DEF Order
<1>2. Null \notin Stored(d)  BY UpdateConstants DEF Stored
<1>3. ASSUME NEW u \in Stored(d)  PROVE UpdateAt(d, SequenceOf(d, u)) = u
  <2>1. {v \in Stored(d) : SequenceOf(d, v) = SequenceOf(d, u)} = {u}  BY Positions
  <2> QED  BY <2>1, OneOfMeans DEF UpdateAt
<1>4. ASSUME NEW u \in Stored(d)  PROVE SequenceOf(d, u) \in 1..MAX_SEQUENCE
  BY StoredRow DEF TablesInv
<1>5. ASSUME NEW n \in 1..MAX_SEQUENCE, Order[d][n] # Null
      PROVE  Order[d][n] \in Stored(d) /\ SequenceOf(d, Order[d][n]) = n
  <2>1. UpdateAt(d, n) # Null  BY <1>1, <1>5
  <2>2. {u \in Stored(d) : SequenceOf(d, u) = n} # {}  BY <2>1, OneOfMeans DEF UpdateAt
  <2>3. PICK u \in Stored(d) : SequenceOf(d, u) = n  BY <2>2
  <2>4. Order[d][n] = u  BY <1>1, <1>3, <2>3
  <2> QED  BY <2>3, <2>4
<1> QED  BY <1>1, <1>2, <1>3, <1>4, <1>5

\* A window of the oracle is a window of the store.
LEMMA OracleWindow ==
  ASSUME TablesInv, NEW d \in Documents, NEW a, NEW b
  PROVE  Oracle!acceptance_window(d, a, b) = Window(d, a, b)
<1>1. Oracle!acceptance_window(d, a, b) =
        {Order[d][n] : n \in {m \in 1..MAX_SEQUENCE :
           a < m /\ m <= b /\ Order[d][m] # Null}}
  BY DEF Oracle!acceptance_window, Order
<1>2. PICK W : W = {Order[d][n] : n \in {m \in 1..MAX_SEQUENCE :
                      a < m /\ m <= b /\ Order[d][m] # Null}}
  OBVIOUS
<1>3. ASSUME NEW u \in W  PROVE u \in Window(d, a, b)
  <2>1. PICK n \in 1..MAX_SEQUENCE : a < n /\ n <= b /\ Order[d][n] # Null /\ u = Order[d][n]
    BY <1>2
  <2> QED  BY <2>1, OracleOrder DEF Window
<1>4. ASSUME NEW u \in Window(d, a, b)  PROVE u \in W
  <2>1. u \in Stored(d) /\ a < SequenceOf(d, u) /\ SequenceOf(d, u) <= b  BY DEF Window
  <2>2. SequenceOf(d, u) \in 1..MAX_SEQUENCE  BY <2>1, StoredRow DEF TablesInv
  <2>3. PICK n \in 1..MAX_SEQUENCE : n = SequenceOf(d, u)  BY <2>2
  <2>4. Order[d][n] = u /\ u # Null  BY <2>1, <2>3, OracleOrder
  <2> QED  BY <1>2, <2>1, <2>3, <2>4
<1> QED  BY <1>1, <1>2, <1>3, <1>4

\* The oracle selects what the version lacks.
LEMMA OracleSelects ==
  ASSUME TablesInv, NEW d \in Documents, NEW version, NEW a, NEW b
  PROVE  Oracle!vector_backfill(d, version, a, b) = Lacking(d, version, a, b)
<1>1. Oracle!vector_backfill(d, version, a, b) =
        {u \in Oracle!acceptance_window(d, a, b) :
           \E range \in OracleRows[d][u].update.ranges : range.end > version[range.peer]}
  BY DEF Oracle!vector_backfill, OracleRows
<1>2. \A u \in Window(d, a, b) : OracleRows[d][u].update = RecordOf(d, u)
  BY OracleRow DEF Window, Stored
<1> QED  BY <1>1, <1>2, OracleWindow DEF Lacking, Selected

\* The oracle's highest position is the number of rows.
LEMMA OracleHighWater ==
  ASSUME TablesInv, NEW d \in Documents
  PROVE  Oracle!high_water_sequence(d) = Cardinality(Stored(d))
<1>1. PICK k \in Nat : k = Cardinality(Stored(d)) /\ k < MAX_SEQUENCE  BY Positions
<1>2. PICK taken : taken = {n \in 1..MAX_SEQUENCE : Order[d][n] # Null}  OBVIOUS
<1>3. Oracle!high_water_sequence(d) =
        IF taken = {} THEN 0 ELSE CHOOSE n \in taken : \A m \in taken : m <= n
  BY <1>2 DEF Oracle!high_water_sequence, Order
<1>4. taken = 1..k
  <2>0. MAX_SEQUENCE \in Nat  BY UpdateConstants
  <2>1. ASSUME NEW n \in taken PROVE n \in 1..k
    <3>1. Order[d][n] \in Stored(d) /\ SequenceOf(d, Order[d][n]) = n  BY <1>2, OracleOrder
    <3> QED  BY <1>1, <3>1, Positions
  <2>2. ASSUME NEW n \in 1..k PROVE n \in taken
    <3>1. PICK u \in Stored(d) : SequenceOf(d, u) = n  BY <1>1, Positions
    <3>2. Order[d][n] = u /\ u # Null  BY <3>1, OracleOrder
    <3> QED  BY <1>1, <1>2, <2>0, <3>2
  <2> QED  BY <2>1, <2>2
<1>5. CASE k = 0  BY <1>1, <1>3, <1>4, <1>5
<1>6. CASE k # 0
  <2>1. k \in taken /\ \A m \in taken : m <= k  BY <1>4, <1>6
  <2>2. \A n \in taken : (\A m \in taken : m <= n) => n = k  BY <1>4, <2>1
  <2> QED  BY <1>1, <1>3, <2>1, <2>2
<1> QED  BY <1>5, <1>6

\* What a history counts: the members once, and nothing else.
LEMMA Counted ==
  ASSUME NEW S \in SUBSET UpdateIds
  PROVE  /\ {u \in UpdateIds : Count(S)[u] > 0} = S
         /\ \A u \in UpdateIds : Count(S)[u] <= 1
BY DEF Count

\* The chain of an enumeration token has delivered a prefix of the oracle's window.
LEMMA EnumerationExactHolds == PassesInv => EnumerationExact
<1> SUFFICES ASSUME PassesInv, NEW t \in 1..Len(issued), issued[t].mode # "Vector"
             PROVE  LET ticket == issued[t]
                        delivered == {u \in UpdateIds : ticket.delivered[u] > 0}
                        window == Oracle!enumerate(ticket.document, 0, ticket.captured)
                    IN  /\ \A u \in UpdateIds : ticket.delivered[u] <= 1
                        /\ delivered = Oracle!enumerate(ticket.document, 0, Cardinality(delivered))
                        /\ delivered \subseteq window
                        /\ ticket.mode = "AfterTail" <=> delivered = window
  BY Zenon DEF EnumerationExact
<1>1. PICK k : k = issued[t]  OBVIOUS
<1>2. k \in Tickets  BY <1>1, IssuedType
<1>3. PICK d, b : d = k.document /\ b = k.captured  OBVIOUS
<1>4. d \in Documents /\ b \in 1..MAX_SEQUENCE /\ MAX_SEQUENCE \in Nat
  BY <1>2, <1>3, UpdateConstants DEF Tickets
<1>5. TablesInv /\ TicketInv(k)  BY <1>1 DEF PassesInv
<1>6. b <= Cardinality(Stored(d)) /\ EnumerationTicket(k)
  BY <1>1, <1>3, <1>5 DEF TicketInv
<1>7. PICK n \in 1..b : k.delivered = Count(Window(d, 0, n)) /\ (k.mode = "AfterTail" <=> n = b)
  BY <1>3, <1>6 DEF EnumerationTicket
<1>8. PICK S, W : S = Window(d, 0, n) /\ W = Window(d, 0, b)  OBVIOUS
<1>9. S \in SUBSET UpdateIds  BY <1>8 DEF Window, Stored
<1>10. {u \in UpdateIds : k.delivered[u] > 0} = S /\ \A u \in UpdateIds : k.delivered[u] <= 1
  BY <1>7, <1>8, <1>9, Counted
<1>11. Cardinality(Stored(d)) \in Nat  BY <1>4, StoredFinite
<1>12. Cardinality(S) = n /\ Cardinality(W) = b
  <2>1. 0 \in Nat /\ n \in Nat /\ b \in Nat /\ n <= Cardinality(Stored(d)) /\ 0 <= n /\ 0 <= b
    BY <1>4, <1>6, <1>11
  <2>2. Cardinality(S) = n - 0 /\ Cardinality(W) = b - 0
    BY <1>4, <1>5, <1>6, <1>8, <2>1, WindowSize
  <2> QED  BY <2>1, <2>2
<1>13. S \subseteq W
  <2>1. \A u \in Stored(d) : SequenceOf(d, u) \in Nat  BY <1>4, <1>5, Positions
  <2> QED  BY <1>4, <1>8, <2>1 DEF Window
<1>14. S = W <=> n = b  BY <1>8, <1>12
<1>15. Oracle!enumerate(d, 0, b) = W /\ Oracle!enumerate(d, 0, Cardinality(S)) = S
  BY <1>4, <1>5, <1>8, <1>12, OracleWindow DEF Oracle!enumerate
<1> QED  BY <1>1, <1>3, <1>7, <1>10, <1>13, <1>14, <1>15

\* What the version lacks, in windows that meet at a position.
LEMMA LackingParts ==
  ASSUME TablesInv, NEW d \in Documents, NEW version, NEW n \in Nat, NEW b \in Nat, n <= b
  PROVE  /\ Lacking(d, version, 0, n) \cap Lacking(d, version, n, b) = {}
         /\ Lacking(d, version, 0, n) \cup Lacking(d, version, n, b) = Lacking(d, version, 0, b)
<1>1. /\ Window(d, 0, n) \cup Window(d, n, b) = Window(d, 0, b)
      /\ Window(d, 0, n) \cap Window(d, n, b) = {}
  <2>1. 0 \in Nat /\ 0 <= n  OBVIOUS
  <2> QED  BY <2>1, WindowParts
<1> QED  BY <1>1 DEF Lacking

\* The chain of a vector token has delivered what the oracle selects.
LEMMA BackfillExactHolds == PassesInv => BackfillExact
<1> SUFFICES ASSUME PassesInv PROVE BackfillExact
  OBVIOUS
<1>0. TablesInv  BY DEF PassesInv
<1>1. ASSUME NEW t \in 1..Len(issued), issued[t].mode = "Vector"
      PROVE LET ticket == issued[t]
                delivered == {u \in UpdateIds : ticket.delivered[u] > 0}
                Selection(n) == Oracle!vector_backfill(ticket.document, ticket.version, 0, n)
            IN  /\ \A u \in UpdateIds : ticket.delivered[u] <= 1
                /\ \E n \in 0..ticket.captured : delivered = Selection(n)
                /\ (ticket.answer # Null /\ ~ticket.answer.has_more) =>
                     /\ delivered \cap ticket.answer.updates = {}
                     /\ delivered \cup ticket.answer.updates = Selection(ticket.captured)
  <2>1. PICK k : k = issued[t]  OBVIOUS
  <2>2. k \in Tickets  BY <2>1, IssuedType
  <2>3. PICK d, b, version : d = k.document /\ b = k.captured /\ version = k.version  OBVIOUS
  <2>4. d \in Documents /\ b \in 1..MAX_SEQUENCE /\ MAX_SEQUENCE \in Nat
    BY <2>2, <2>3, UpdateConstants DEF Tickets
  <2>5. VectorTicket(k)  BY <1>1, <2>1 DEF PassesInv, TicketInv
  <2>6. PICK n \in 0..b :
          /\ k.delivered = Count(Lacking(d, version, 0, n))
          /\ (k.answer # Null /\ ~k.answer.has_more) =>
               k.answer.updates = Lacking(d, version, n, b)
    BY <2>3, <2>5, Zenon DEF VectorTicket
  <2>7. PICK S : S = Lacking(d, version, 0, n)  OBVIOUS
  <2>8. S \in SUBSET UpdateIds  BY <2>7 DEF Lacking, Window, Stored
  <2>9. {u \in UpdateIds : k.delivered[u] > 0} = S /\ \A u \in UpdateIds : k.delivered[u] <= 1
    BY <2>6, <2>7, <2>8, Counted
  <2>10. \A m : Oracle!vector_backfill(d, version, 0, m) = Lacking(d, version, 0, m)
    BY <1>0, <2>4, OracleSelects
  <2>11. /\ S \cap Lacking(d, version, n, b) = {}
         /\ S \cup Lacking(d, version, n, b) = Lacking(d, version, 0, b)
    <3>1. n \in Nat /\ b \in Nat /\ n <= b  BY <2>4
    <3> QED  BY <1>0, <2>4, <2>7, <3>1, LackingParts
  <2>12. (k.answer # Null /\ ~k.answer.has_more) =>
           /\ S \cap k.answer.updates = {}
           /\ S \cup k.answer.updates = Oracle!vector_backfill(d, version, 0, b)
    BY <2>6, <2>10, <2>11, Zenon
  <2>13. S = Oracle!vector_backfill(d, version, 0, n)  BY <2>7, <2>10
  <2> QED  BY <2>1, <2>3, <2>9, <2>12, <2>13, Zenon
<1>2. ASSUME NEW ch \in Channels, NEW d \in Documents, NEW c \in Capabilities,
             NEW version \in Versions
      PROVE  LET result == vector_from_origin(ch, d, c, version)
             IN  (result.outcome = "Authorized" /\ ~result.response.has_more) =>
                   result.response.updates =
                     Oracle!vector_backfill(d, version, 0, Oracle!high_water_sequence(d))
  <2>1. PICK result : result = vector_from_origin(ch, d, c, version)  OBVIOUS
  <2>2. VectorOriginCases(ch, d, c, version, result)  BY <1>0, <2>1, VectorOriginResult
  <2>3. PICK k \in Nat : k = Cardinality(Stored(d))  BY StoredFinite
  <2>4. Oracle!vector_backfill(d, version, 0, Oracle!high_water_sequence(d)) = Lacking(d, version, 0, k)
    BY <1>0, <2>3, OracleHighWater, OracleSelects
  <2>5. PICK f, g : f = FALSE /\ g = TRUE  OBVIOUS
  <2>6. \A x, y, S, T : /\ Answered(Response(x, y, S), T).response.updates = S
                        /\ Answered(Response(x, y, S), T).response.has_more = x
    BY DEF Answered, Response
  <2>7. \/ result.outcome # "Authorized"
        \/ k = 0 /\ result = Answered(Response(f, Null, {}), vector_passes)
        \/ result = Answered(Response(f, Null, Lacking(d, version, 0, k)), vector_passes)
        \/ \E S, T : result = Answered(Response(g, mint_token, S), T)
    BY <2>2, <2>3, <2>5, Zenon DEF VectorOriginCases, EmptyResponse
  <2>8. CASE k = 0 /\ result = Answered(Response(f, Null, {}), vector_passes)
    <3>1. Lacking(d, version, 0, 0) = {}
      <4>1. 0 \in Nat /\ 0 <= 0  OBVIOUS
      <4>2. Window(d, 0, 0) = {}  BY <1>0, <4>1, WindowParts
      <4> QED  BY <4>2 DEF Lacking
    <3>2. result.response.updates = {}  BY <2>6, <2>8
    <3> QED  BY <2>1, <2>4, <2>8, <3>1, <3>2
  <2>9. CASE result = Answered(Response(f, Null, Lacking(d, version, 0, k)), vector_passes)
    <3>1. result.response.updates = Lacking(d, version, 0, k)  BY <2>6, <2>9
    <3> QED  BY <2>1, <2>4, <3>1
  <2>10. CASE \E S, T : result = Answered(Response(g, mint_token, S), T)
    <3>1. result.response.has_more = g  BY <2>6, <2>10
    <3>2. result.response.has_more  BY <2>5, <3>1, Zenon
    <3> QED  BY <2>1, <3>2
  <2> QED  BY <2>1, <2>7, <2>8, <2>9, <2>10
<1> QED  BY <1>1, <1>2, Zenon DEF BackfillExact
----------------------------------------------------------------------------
\* What TypeOK says beyond the tables.
PassesType ==
  /\ revoked \subseteq Documents \X Capabilities
  /\ retired \subseteq Documents
  /\ channels \subseteq Channels
  /\ enumeration_passes \subseteq EnumerationPass
  /\ vector_passes \subseteq VectorPass
  /\ issued \in Seq(Tickets) /\ Len(issued) <= MAX_TOKENS

\* The part of TypeOK that is about the tables follows from their invariant.
LEMMA TypeParts ==
  ASSUME TablesInv
  PROVE  TypeOK <=> PassesType
<1>1. /\ updates \in [Documents -> [UpdateIds -> {Null} \cup Row]]
      /\ acceptance_sequences \in [Documents -> {Null} \cup 1..MAX_SEQUENCE]
      /\ document_loro_peers \subseteq Documents \X Peers
  BY DEF TablesInv, TablesType
<1>2. ASSUME NEW row \in update_loro_ranges
      PROVE  row.document \in Documents /\ row.update \in Stored(row.document)
  <2>1. RangeRow(row)  BY RangesIndexedMeans DEF TablesInv, validate
  <2>2. PICK d \in Documents : \E u \in Stored(d) : row \in RangeRows(d, u, RecordOf(d, u))
    BY <2>1 DEF RangeRow
  <2>3. PICK u \in Stored(d) : row \in RangeRows(d, u, RecordOf(d, u))  BY <2>2
  <2>4. row.document = d /\ row.update = u  BY <2>3 DEF RangeRows
  <2> QED  BY <2>4
<1> QED  BY <1>1, <1>2 DEF TypeOK, PassesType

\* The same after a step.
LEMMA TypePartsNext == TablesInv' => (TypeOK' <=> PassesType')
<1>1. TablesInv => (TypeOK <=> PassesType)  BY TypeParts
<1> QED  BY <1>1, PTL

\* The rows of a document are never taken back or altered, and a new one has a
\* position behind all others: what was read stays what it was.
TablesGrow ==
  \A e \in Documents :
    /\ Stored(e) \subseteq Stored(e)'
    /\ Cardinality(Stored(e)) <= Cardinality(Stored(e)')
    /\ \A S \in SUBSET Stored(e) : Fits(e, S) => Fits(e, S)'
    /\ \A a, b : (b \in Nat /\ b <= Cardinality(Stored(e))) =>
         /\ Window(e, a, b)' = Window(e, a, b)
         /\ \A version : Lacking(e, version, a, b)' = Lacking(e, version, a, b)

\* Rows that keep their position and record, with the new ones behind.
LEMMA RowsKept ==
  ASSUME TablesInv, NEW e \in Documents, Stored(e) \subseteq Stored(e)',
         Cardinality(Stored(e)) <= Cardinality(Stored(e)'),
         \A v \in Stored(e) : SequenceOf(e, v)' = SequenceOf(e, v) /\ RecordOf(e, v)' = RecordOf(e, v),
         \A v \in Stored(e)' : v \notin Stored(e) => SequenceOf(e, v)' = Cardinality(Stored(e)) + 1
  PROVE  /\ \A S \in SUBSET Stored(e) : Fits(e, S) => Fits(e, S)'
         /\ \A a, b : (b \in Nat /\ b <= Cardinality(Stored(e))) =>
              /\ Window(e, a, b)' = Window(e, a, b)
              /\ \A version : Lacking(e, version, a, b)' = Lacking(e, version, a, b)
<1>1. ASSUME NEW S \in SUBSET Stored(e), Fits(e, S)  PROVE Fits(e, S)'
  <2>1. \A v \in S : RecordOf(e, v)' = RecordOf(e, v)  OBVIOUS
  <2>2. UNION {RangeRows(e, v, RecordOf(e, v)') : v \in S}
          = UNION {RangeRows(e, v, RecordOf(e, v)) : v \in S}
    BY <2>1
  <2>3. Bytes(e, S)' = Bytes(e, S)  BY <2>2 DEF Bytes, RangeRows
  <2> QED  BY <1>1, <2>3 DEF Fits, metadata_byte_limit, response_base_length, CONTINUATION_LENGTH
<1>2. ASSUME NEW a, NEW b, b \in Nat, b <= Cardinality(Stored(e))
      PROVE  Window(e, a, b)' = Window(e, a, b)
  <2>1. PICK k \in Nat : k = Cardinality(Stored(e))  BY Positions
  <2>2. \A v \in Stored(e)' : v \notin Stored(e) => ~(SequenceOf(e, v)' <= b)
    BY <1>2, <2>1
  <2> QED  BY <2>2 DEF Window
<1>3. ASSUME NEW a, NEW b, b \in Nat, b <= Cardinality(Stored(e)), NEW version
      PROVE  Lacking(e, version, a, b)' = Lacking(e, version, a, b)
  <2>1. Window(e, a, b)' = Window(e, a, b)  BY <1>2, <1>3
  <2>2. \A v \in Window(e, a, b) : RecordOf(e, v)' = RecordOf(e, v)  BY DEF Window
  <2>3. \A v \in Window(e, a, b) : Selected(e, v, version)' <=> Selected(e, v, version)
    BY <2>2 DEF Selected
  <2> QED  BY <2>1, <2>3 DEF Lacking
<1> QED  BY <1>1, <1>2, <1>3

\* Every step leaves what was read as it was.
LEMMA EveryStepGrows ==
  ASSUME TablesInv, TablesInv', [Next]_vars
  PROVE  TablesGrow
<1>1. CASE UNCHANGED tables
  <2>1. ASSUME NEW e \in Documents
        PROVE  /\ Stored(e)' = Stored(e)
               /\ \A v \in Stored(e) : SequenceOf(e, v)' = SequenceOf(e, v)
                                       /\ RecordOf(e, v)' = RecordOf(e, v)
    BY <1>1 DEF tables, Stored, SequenceOf, RecordOf
  <2>2. ASSUME NEW e \in Documents  PROVE Cardinality(Stored(e)) <= Cardinality(Stored(e)')
    BY <2>1, Positions
  <2> QED  BY <2>1, <2>2, RowsKept DEF TablesGrow
<1>2. ASSUME NEW d \in Documents, NEW c \in Capabilities, NEW u \in UpdateIds, NEW r \in Records,
             accept(d, c, u, r), NEW e \in Documents
      PROVE  /\ Stored(e) \subseteq Stored(e)'
             /\ Cardinality(Stored(e)) <= Cardinality(Stored(e)')
             /\ \A v \in Stored(e) : SequenceOf(e, v)' = SequenceOf(e, v)
                                     /\ RecordOf(e, v)' = RecordOf(e, v)
             /\ \A v \in Stored(e)' : v \notin Stored(e) =>
                  SequenceOf(e, v)' = Cardinality(Stored(e)) + 1
  <2>1. CASE e # d
    <3>1. /\ Stored(e)' = Stored(e)
          /\ \A v \in Stored(e) : SequenceOf(e, v)' = SequenceOf(e, v)
                                  /\ RecordOf(e, v)' = RecordOf(e, v)
      BY <1>2, <2>1, RowsAfterAccept
    <3>2. Cardinality(Stored(e)) \in Nat  BY Positions
    <3> QED  BY <3>1, <3>2
  <2>2. CASE e = d
    <3>1. /\ u \notin Stored(d) /\ Stored(d)' = Stored(d) \cup {u}
          /\ SequenceOf(d, u)' = next_sequence(d)
          /\ \A v \in Stored(d) : SequenceOf(d, v)' = SequenceOf(d, v)
                                  /\ RecordOf(d, v)' = RecordOf(d, v)
      BY <1>2, RowsAfterAccept
    <3>2. next_sequence(d) = Cardinality(Stored(d)) + 1  BY DEF TablesInv, CounterNext
    <3>3. Cardinality(Stored(d)) <= Cardinality(Stored(d)')
      <4>1. PICK A, B : A = Stored(d) /\ B = Stored(d)'  OBVIOUS
      <4>2. IsFiniteSet(A)  BY <4>1, StoredFinite
      <4>3. B = A \cup {u} /\ u \notin A  BY <3>1, <4>1
      <4>4. Cardinality(A) \in Nat /\ Cardinality(B) = Cardinality(A) + 1
        BY <4>2, <4>3, FS_AddElement, FS_CardinalityType
      <4> QED  BY <4>1, <4>4
    <3> QED  BY <2>2, <3>1, <3>2, <3>3
  <2> QED  BY <2>1, <2>2
<1>3. ASSUME NEW d \in Documents, NEW c \in Capabilities, NEW u \in UpdateIds, NEW r \in Records,
             accept(d, c, u, r)
      PROVE  TablesGrow
  <2> SUFFICES ASSUME NEW e \in Documents
               PROVE  /\ Stored(e) \subseteq Stored(e)'
                      /\ Cardinality(Stored(e)) <= Cardinality(Stored(e)')
                      /\ \A S \in SUBSET Stored(e) : Fits(e, S) => Fits(e, S)'
                      /\ \A a, b : (b \in Nat /\ b <= Cardinality(Stored(e))) =>
                           /\ Window(e, a, b)' = Window(e, a, b)
                           /\ \A version : Lacking(e, version, a, b)' = Lacking(e, version, a, b)
    BY Zenon DEF TablesGrow
  <2>1. /\ Stored(e) \subseteq Stored(e)'
        /\ Cardinality(Stored(e)) <= Cardinality(Stored(e)')
        /\ \A v \in Stored(e) : SequenceOf(e, v)' = SequenceOf(e, v)
                                /\ RecordOf(e, v)' = RecordOf(e, v)
        /\ \A v \in Stored(e)' : v \notin Stored(e) =>
             SequenceOf(e, v)' = Cardinality(Stored(e)) + 1
    BY <1>2, <1>3
  <2> QED  BY <2>1, RowsKept
<1> QED  BY <1>1, <1>3, OnlyAcceptWrites

\* Tokens are only added, and of the known ones at most X is exchanged.
IssuedKept(X) ==
  /\ Len(issued) \in Nat /\ Len(issued') \in Nat /\ Len(issued) <= Len(issued')
  /\ \A t \in 1..Len(issued) : t # X => issued'[t] = issued[t]

\* A ticket that is kept is still the one for a query.
LEMMA TicketForKept ==
  ASSUME NEW X, IssuedKept(X), NEW token, token # X, NEW mode, NEW p, NEW version,
         TicketFor(token, mode, p, version)
  PROVE  TicketFor(token, mode, p, version)' /\ issued'[token] = issued[token]
<1>1. token \in 1..Len(issued) /\ token \in 1..Len(issued')
  BY DEF TicketFor, IssuedKept
<1>2. issued'[token] = issued[token]  BY <1>1 DEF IssuedKept
<1> QED  BY <1>1, <1>2 DEF TicketFor

\* An enumeration pass that keeps its owner keeps its invariant, whatever is
\* accepted and whichever other token is exchanged.
LEMMA EnumerationPassKept ==
  ASSUME PassesInv, TablesGrow, NEW X, IssuedKept(X), NEW p \in enumeration_passes,
         Live(p)', ~HasToken(p, X)
  PROVE  EnumerationPassInv(p)'
<1>0. EnumerationPassInv(p)  BY DEF PassesInv
<1>1. p.document \in Documents /\ p.terminal \in Nat /\ Through(p) \in Nat
  BY EnumerationPassType
<1>2. PICK e, a, b : e = p.document /\ a = Through(p) /\ b = p.terminal  OBVIOUS
<1>3. /\ b <= Cardinality(Stored(e)) /\ a <= b /\ p.lower < a
      /\ p.current.mode = IF a < b THEN "Continue" ELSE "AfterTail"
  BY <1>0, <1>2 DEF EnumerationPassInv
<1>4. Cardinality(Stored(e)) \in Nat /\ Cardinality(Stored(e)') \in Nat
  <2>1. IsFiniteSet(Stored(e)) /\ IsFiniteSet(Stored(e)')
    <3>1. Stored(e) \in SUBSET UpdateIds /\ Stored(e)' \in SUBSET UpdateIds  BY DEF Stored
    <3> QED  BY <3>1, RecordAssumption, FS_Subset
  <2> QED  BY <2>1, FS_CardinalityType
<1>5. b <= Cardinality(Stored(e)')
  BY <1>1, <1>2, <1>3, <1>4 DEF TablesGrow
<1>6. Window(e, 0, a)' = Window(e, 0, a)
  <2>1. a \in Nat /\ a <= Cardinality(Stored(e))  BY <1>1, <1>2, <1>3, <1>4
  <2> QED  BY <1>1, <1>2, <2>1 DEF TablesGrow
<1>7. /\ TicketFor(p.current.token, p.current.mode, p, Null)'
      /\ issued'[p.current.token] = issued[p.current.token]
  <2>1. p.current.token # X  BY DEF HasToken
  <2> QED  BY <1>0, <2>1, TicketForKept DEF EnumerationPassInv
<1>8. /\ issued'[p.current.token].answer = Null
      /\ issued'[p.current.token].delivered = Count(Window(e, 0, a))'
      /\ issued'[p.current.token].captured = b
  <2>1. Count(Window(e, 0, a))' = Count(Window(e, 0, a))  BY <1>6 DEF Count
  <2> QED  BY <1>0, <1>2, <1>7, <2>1 DEF EnumerationPassInv
<1>9. p.retry # Null =>
       /\ p.retry.token # p.current.token
       /\ TicketFor(p.retry.token, p.retry.mode, p, Null)'
       /\ issued'[p.retry.token].answer = p.retry.response
  <2>1. p.retry # Null => p.retry.token # X  BY DEF HasToken
  <2> QED  BY <1>0, <2>1, TicketForKept DEF EnumerationPassInv
<1>10. Through(p)' = a  BY <1>2 DEF Through
<1> QED  BY <1>2, <1>3, <1>5, <1>7, <1>8, <1>9, <1>10 DEF EnumerationPassInv

\* The same of a vector pass.
LEMMA VectorPassKept ==
  ASSUME PassesInv, TablesGrow, NEW X, IssuedKept(X), NEW p \in vector_passes,
         Live(p)', ~vector_pass_contains_token(p, X)
  PROVE  VectorPassInv(p)'
<1>0. VectorPassInv(p)  BY DEF PassesInv
<1>1. p.document \in Documents /\ p.terminal \in Nat  BY VectorPassType
<1>2. PICK e, b, version : e = p.document /\ b = p.terminal /\ version = p.version  OBVIOUS
<1>3. b <= Cardinality(Stored(e))  BY <1>0, <1>2 DEF VectorPassInv
<1>4. Cardinality(Stored(e)) \in Nat /\ Cardinality(Stored(e)') \in Nat
  <2>1. IsFiniteSet(Stored(e)) /\ IsFiniteSet(Stored(e)')
    <3>1. Stored(e) \in SUBSET UpdateIds /\ Stored(e)' \in SUBSET UpdateIds  BY DEF Stored
    <3> QED  BY <3>1, RecordAssumption, FS_Subset
  <2> QED  BY <2>1, FS_CardinalityType
<1>5. b <= Cardinality(Stored(e)') /\ Stored(e) \subseteq Stored(e)'
  BY <1>1, <1>2, <1>3, <1>4 DEF TablesGrow
<1>6. ASSUME p.current # Null
      PROVE  /\ p.current.position < b
             /\ TicketFor(p.current.token, "Vector", p, version)'
             /\ issued'[p.current.token].answer = Null
             /\ issued'[p.current.token].delivered =
                  Count(Lacking(e, version, 0, p.current.position))'
             /\ issued'[p.current.token].captured = b
  <2>1. PICK a : a = p.current.position  OBVIOUS
  <2>2. a \in Nat /\ a < b  BY <1>0, <1>2, <1>6, <2>1, VectorPassType DEF VectorPassInv
  <2>3. Lacking(e, version, 0, a)' = Lacking(e, version, 0, a)
    <3>1. a <= Cardinality(Stored(e))  BY <1>1, <1>2, <1>3, <1>4, <2>2
    <3> QED  BY <1>1, <1>2, <2>2, <3>1 DEF TablesGrow
  <2>4. p.current.token # X  BY <1>6 DEF vector_pass_contains_token
  <2>5. /\ TicketFor(p.current.token, "Vector", p, version)'
        /\ issued'[p.current.token] = issued[p.current.token]
    BY <1>0, <1>2, <1>6, <2>4, TicketForKept DEF VectorPassInv
  <2>6. Count(Lacking(e, version, 0, a))' = Count(Lacking(e, version, 0, a))  BY <2>3 DEF Count
  <2> QED  BY <1>0, <1>2, <1>6, <2>1, <2>2, <2>5, <2>6 DEF VectorPassInv
<1>7. ASSUME p.retry # Null
      PROVE  /\ p.current # Null => p.retry.token # p.current.token
             /\ TicketFor(p.retry.token, "Vector", p, version)'
             /\ issued'[p.retry.token].answer = p.retry.response
  <2>1. p.retry.token # X  BY <1>7 DEF vector_pass_contains_token
  <2> QED  BY <1>0, <1>2, <1>7, <2>1, TicketForKept DEF VectorPassInv
<1>8. ASSUME p.current = Null
      PROVE  /\ p.retry # Null
             /\ p.retry.response.has_more = FALSE /\ p.retry.response.next_cursor = Null
             /\ p.retry.response.updates \subseteq Stored(e)'
             /\ Fits(e, p.retry.response.updates)'
  <2>1. /\ p.retry # Null
        /\ p.retry.response.has_more = FALSE /\ p.retry.response.next_cursor = Null
        /\ p.retry.response.updates \subseteq Stored(e)
        /\ Fits(e, p.retry.response.updates)
    BY <1>0, <1>2, <1>8, Zenon DEF VectorPassInv
  <2>2. PICK S : S = p.retry.response.updates  OBVIOUS
  <2>3. S \in SUBSET Stored(e) /\ Fits(e, S)  BY <2>1, <2>2
  <2>4. S \subseteq Stored(e)' /\ Fits(e, S)'  BY <1>1, <1>2, <1>5, <2>3 DEF TablesGrow
  <2> QED  BY <2>1, <2>2, <2>4, Zenon
<1> QED  BY <1>2, <1>5, <1>6, <1>7, <1>8, Zenon DEF VectorPassInv

\* A ticket that is kept keeps its invariant.
LEMMA TicketKept ==
  ASSUME PassesInv, TablesGrow, NEW X, IssuedKept(X), NEW t \in 1..Len(issued), NEW k,
         k = issued[t]
  PROVE  TicketInv(k)'
<1>1. TicketInv(k) /\ k \in Tickets  BY IssuedType DEF PassesInv
<1>2. PICK e, b, version : e = k.document /\ b = k.captured /\ version = k.version  OBVIOUS
<1>3. e \in Documents /\ b \in 1..MAX_SEQUENCE /\ MAX_SEQUENCE \in Nat
  BY <1>1, <1>2, UpdateConstants DEF Tickets
<1>4. b <= Cardinality(Stored(e)) /\ b \in Nat  BY <1>1, <1>2, <1>3 DEF TicketInv
<1>5. Cardinality(Stored(e)) \in Nat /\ Cardinality(Stored(e)') \in Nat
  <2>1. IsFiniteSet(Stored(e)) /\ IsFiniteSet(Stored(e)')
    <3>1. Stored(e) \in SUBSET UpdateIds /\ Stored(e)' \in SUBSET UpdateIds  BY DEF Stored
    <3> QED  BY <3>1, RecordAssumption, FS_Subset
  <2> QED  BY <2>1, FS_CardinalityType
<1>6. b <= Cardinality(Stored(e)')  BY <1>3, <1>4, <1>5 DEF TablesGrow
<1>7. \A a, n : (n \in Nat /\ n <= b) =>
        /\ Window(e, a, n)' = Window(e, a, n)
        /\ Lacking(e, version, a, n)' = Lacking(e, version, a, n)
  <2> SUFFICES ASSUME NEW a, NEW n, n \in Nat, n <= b
               PROVE  /\ Window(e, a, n)' = Window(e, a, n)
                      /\ Lacking(e, version, a, n)' = Lacking(e, version, a, n)
    OBVIOUS
  <2>1. n <= Cardinality(Stored(e))  BY <1>4, <1>5
  <2> QED  BY <1>3, <2>1 DEF TablesGrow
<1>8. ASSUME k.mode # "Vector"  PROVE EnumerationTicket(k)'
  <2>1. PICK n \in 1..b : k.delivered = Count(Window(e, 0, n)) /\ (k.mode = "AfterTail" <=> n = b)
    BY <1>1, <1>2, <1>8 DEF TicketInv, EnumerationTicket
  <2>2. Window(e, 0, n)' = Window(e, 0, n)  BY <1>4, <1>7
  <2>3. k.delivered = Count(Window(e, 0, n))'  BY <2>1, <2>2 DEF Count
  <2> QED  BY <1>2, <2>1, <2>3 DEF EnumerationTicket
<1>9. ASSUME k.mode = "Vector"  PROVE VectorTicket(k)'
  <2>1. PICK n \in 0..b :
          /\ k.delivered = Count(Lacking(e, version, 0, n))
          /\ (k.answer # Null /\ ~k.answer.has_more) =>
               k.answer.updates = Lacking(e, version, n, b)
    BY <1>1, <1>2, <1>9, Zenon DEF TicketInv, VectorTicket
  <2>2. Lacking(e, version, 0, n)' = Lacking(e, version, 0, n)  BY <1>4, <1>7
  <2>3. Lacking(e, version, n, b)' = Lacking(e, version, n, b)  BY <1>4, <1>7
  <2>4. k.delivered = Count(Lacking(e, version, 0, n))'  BY <2>1, <2>2 DEF Count
  <2> QED  BY <1>2, <2>1, <2>3, <2>4, Zenon DEF VectorTicket
<1>10. k.answer # Null => k.answer.next_cursor \in {Null} \cup 1..Len(issued')
  BY <1>1 DEF TicketInv, IssuedKept
<1> QED  BY <1>2, <1>6, <1>8, <1>9, <1>10 DEF TicketInv
----------------------------------------------------------------------------
\* What keeps the owner of a pass.
LEMMA LiveMeans ==
  ASSUME NEW p
  PROVE  Live(p) <=> /\ p.channel \in channels
                     /\ <<p.document, p.capability>> \notin revoked
                     /\ p.document \notin retired
<1>1. /\ "AuthorizationDenied" # "Authorized" /\ "RetiredDocument" # "Authorized"
  OBVIOUS
<1> QED  BY <1>1 DEF Live, authorize, authorize_document

\* A step that only drops passes, and drops those that lose their owner.
LEMMA PassesShrink ==
  ASSUME PassesInv, TablesInv', TablesGrow, PassesType', issued' = issued,
         enumeration_passes' \subseteq enumeration_passes, vector_passes' \subseteq vector_passes,
         \A p \in enumeration_passes' \cup vector_passes' : Live(p)'
  PROVE  PassesInv'
<1>1. IssuedKept(0)  BY IssuedType DEF IssuedKept
<1>2. ASSUME NEW p \in enumeration_passes'  PROVE EnumerationPassInv(p)'
  <2>1. p \in enumeration_passes /\ Live(p)'  OBVIOUS
  <2>2. ~HasToken(p, 0)
    BY <2>1, IssuedType DEF PassesInv, EnumerationPassInv, TicketFor, HasToken
  <2> QED  BY <1>1, <2>1, <2>2, EnumerationPassKept
<1>3. ASSUME NEW p \in vector_passes'  PROVE VectorPassInv(p)'
  <2>1. p \in vector_passes /\ Live(p)'  OBVIOUS
  <2>2. ~vector_pass_contains_token(p, 0)
    BY <2>1, IssuedType DEF PassesInv, VectorPassInv, TicketFor, vector_pass_contains_token
  <2> QED  BY <1>1, <2>1, <2>2, VectorPassKept
<1>4. TokensUnique'
  BY DEF PassesInv, TokensUnique, HasToken, vector_pass_contains_token
<1>5. ASSUME NEW t \in 1..Len(issued')  PROVE TicketInv(issued[t])'
  <2>1. PICK k : k = issued[t]  OBVIOUS
  <2>2. TicketInv(k)'  BY <1>1, <2>1, TicketKept
  <2>3. k = issued'[t]  BY <2>1
  <2> QED  BY <2>2, <2>3
<1>6. WithinLimits(enumeration_passes)' /\ WithinLimits(vector_passes)'
  <2>1. enumeration_passes' \in SUBSET enumeration_passes /\ vector_passes' \in SUBSET vector_passes
    OBVIOUS
  <2>2. WithinLimits(enumeration_passes') /\ WithinLimits(vector_passes')
    BY <2>1, LimitsKept DEF PassesInv
  <2> QED  BY <2>2 DEF WithinLimits
<1>7. TypeOK'  BY TypePartsNext
<1> QED  BY <1>2, <1>3, <1>4, <1>5, <1>6, <1>7 DEF PassesInv

\* A step that accepts an update leaves the passes alone.
LEMMA AcceptKeepsPasses ==
  ASSUME PassesInv, TablesInv', TablesGrow,
         UNCHANGED <<authority, channels, passes, issued>>
  PROVE  PassesInv'
<1>1. PassesType'
  BY TypeParts DEF PassesInv, PassesType, authority, passes
<1>2. ASSUME NEW p \in enumeration_passes' \cup vector_passes'  PROVE Live(p)'
  <2>1. Live(p)  BY DEF passes, PassesInv, EnumerationPassInv, VectorPassInv
  <2> QED  BY <2>1, LiveMeans DEF authority, Live, authorize, authorize_document
<1> QED  BY <1>1, <1>2, PassesShrink DEF passes

\* An idle pass expires.
LEMMA ExpireKeepsPasses ==
  ASSUME PassesInv, TablesInv', TablesGrow, Expire
  PROVE  PassesInv'
<1>0. /\ enumeration_passes' \subseteq enumeration_passes /\ vector_passes' \subseteq vector_passes
      /\ UNCHANGED <<authority, channels, issued>>
  BY DEF Expire, ExpireEnumeration, ExpireVector
<1>1. PassesType'
  BY <1>0, TypeParts DEF PassesInv, PassesType, authority
<1>2. ASSUME NEW p \in enumeration_passes' \cup vector_passes'  PROVE Live(p)'
  <2>1. Live(p)  BY <1>0 DEF PassesInv, EnumerationPassInv, VectorPassInv
  <2> QED  BY <1>0, <2>1 DEF authority, Live, authorize, authorize_document
<1> QED  BY <1>0, <1>1, <1>2, PassesShrink

\* A channel closes, and its passes go.
LEMMA DisconnectKeepsPasses ==
  ASSUME PassesInv, TablesInv', TablesGrow, Disconnect
  PROVE  PassesInv'
<1>0. PICK ch \in Channels : close_broker_channel(ch)  BY DEF Disconnect
<1>a. /\ enumeration_passes' = enumeration_passes \ {p \in Passes : p.channel = ch}
      /\ vector_passes' = vector_passes \ {p \in Passes : p.channel = ch}
      /\ channels' = channels \ {ch}
      /\ UNCHANGED <<authority, issued>>
  BY <1>0 DEF close_broker_channel, Purge
<1>1. PassesType'
  BY <1>a, TypeParts DEF PassesInv, PassesType, authority
<1>2. ASSUME NEW p \in enumeration_passes' \cup vector_passes'  PROVE Live(p)'
  <2>1. Live(p) /\ p.channel # ch
    BY <1>a DEF PassesInv, EnumerationPassInv, VectorPassInv, Passes
  <2> QED  BY <1>a, <2>1 DEF authority, Live, authorize, authorize_document
<1> QED  BY <1>a, <1>1, <1>2, PassesShrink

\* A revocation or a retirement commits, and the passes it ends go.
LEMMA ControlKeepsPasses ==
  ASSUME PassesInv, TablesInv', TablesGrow, Control
  PROVE  PassesInv'
<1>0. PassesType  BY TypeParts DEF PassesInv
<1>1. ASSUME NEW d \in Documents, NEW c \in Capabilities, revoke_capability(d, c)
      PROVE  PassesInv'
  <2>1. PICK gone : gone = {p \in Passes : p.document = d /\ p.capability \in Descendants[c]}
    OBVIOUS
  <2>2. /\ enumeration_passes' = enumeration_passes \ gone /\ vector_passes' = vector_passes \ gone
        /\ revoked' = revoked \cup ({d} \X Descendants[c])
        /\ UNCHANGED <<retired, channels, issued>>
    BY <1>1, <2>1 DEF revoke_capability, Purge
  <2>3. PassesType'
    <3>1. Descendants[c] \subseteq Capabilities  BY UpdateConstants
    <3>2. revoked' \subseteq Documents \X Capabilities  BY <1>0, <2>2, <3>1 DEF PassesType
    <3> QED  BY <1>0, <2>2, <3>2 DEF PassesType
  <2>4. ASSUME NEW p \in enumeration_passes' \cup vector_passes'  PROVE Live(p)'
    <3>1. Live(p) /\ p \in Passes /\ p \notin gone
      BY <2>2 DEF PassesInv, EnumerationPassInv, VectorPassInv, Passes
    <3>2. <<p.document, p.capability>> \notin revoked'
      <4>1. <<p.document, p.capability>> \notin revoked  BY <3>1, LiveMeans
      <4>2. ~(p.document = d /\ p.capability \in Descendants[c])  BY <2>1, <3>1
      <4> QED  BY <2>2, <4>1, <4>2
    <3>3. p.channel \in channels' /\ p.document \notin retired'  BY <2>2, <3>1, LiveMeans
    <3> QED  BY <3>2, <3>3 DEF Live, authorize, authorize_document
  <2> QED  BY <2>2, <2>3, <2>4, PassesShrink
<1>2. ASSUME NEW d \in Documents, publish_committed_retirement(d)
      PROVE  PassesInv'
  <2>1. PICK gone : gone = {p \in Passes : p.document = d}  OBVIOUS
  <2>2. /\ enumeration_passes' = enumeration_passes \ gone /\ vector_passes' = vector_passes \ gone
        /\ retired' = retired \cup {d}
        /\ UNCHANGED <<revoked, channels, issued>>
    BY <1>2, <2>1 DEF publish_committed_retirement, Purge
  <2>3. PassesType'  BY <1>0, <2>2 DEF PassesType
  <2>4. ASSUME NEW p \in enumeration_passes' \cup vector_passes'  PROVE Live(p)'
    <3>1. Live(p) /\ p \in Passes /\ p \notin gone
      BY <2>2 DEF PassesInv, EnumerationPassInv, VectorPassInv, Passes
    <3>2. p.document # d  BY <2>1, <3>1
    <3>3. /\ p.channel \in channels' /\ p.document \notin retired'
          /\ <<p.document, p.capability>> \notin revoked'
      BY <2>2, <3>1, <3>2, LiveMeans
    <3> QED  BY <3>3 DEF Live, authorize, authorize_document
  <2> QED  BY <2>2, <2>3, <2>4, PassesShrink
<1> QED  BY <1>1, <1>2 DEF Control

\* A restart forgets every pass.
LEMMA OpenKeepsPasses ==
  ASSUME PassesInv, TablesInv', TablesGrow, open
  PROVE  PassesInv'
<1>0. /\ enumeration_passes' = {} /\ vector_passes' = {} /\ channels' = Channels
      /\ UNCHANGED <<authority, issued>>
  BY DEF open
<1>1. PassesType'  BY <1>0, TypeParts DEF PassesInv, PassesType, authority
<1> QED  BY <1>0, <1>1, PassesShrink
----------------------------------------------------------------------------
\* A step that exchanges at most the token X, and puts at most one pass in a table
\* whose tokens are X and the new one.
LEMMA PassesReplaced ==
  ASSUME PassesInv, TablesInv', TablesGrow, UNCHANGED <<authority, channels>>,
         NEW X, IssuedKept(X), issued' \in Seq(Tickets), Len(issued') <= MAX_TOKENS,
         \A t \in 1..Len(issued') : (t = X \/ t \notin 1..Len(issued)) => TicketInv(issued[t])',
         NEW E, E \subseteq enumeration_passes, \A p \in E : ~HasToken(p, X),
         NEW A, enumeration_passes' = E \cup A, \A p, q \in A : p = q,
         \A p \in A : /\ p \in EnumerationPass /\ EnumerationPassInv(p)'
                      /\ \A t \in 1..Len(issued) : HasToken(p, t) => t = X,
         NEW V, V \subseteq vector_passes, \A p \in V : ~vector_pass_contains_token(p, X),
         NEW B, vector_passes' = V \cup B, \A p, q \in B : p = q,
         \A p \in B : /\ p \in VectorPass /\ VectorPassInv(p)'
                      /\ \A t \in 1..Len(issued) : vector_pass_contains_token(p, t) => t = X,
         WithinLimits(enumeration_passes'), WithinLimits(vector_passes')
  PROVE  PassesInv'
<1>1. ASSUME NEW p \in E  PROVE EnumerationPassInv(p)'
  <2>1. p \in enumeration_passes /\ Live(p)  BY DEF PassesInv, EnumerationPassInv
  <2>2. Live(p)'  BY <2>1 DEF authority, Live, authorize, authorize_document
  <2> QED  BY <2>1, <2>2, EnumerationPassKept
<1>2. ASSUME NEW p \in V  PROVE VectorPassInv(p)'
  <2>1. p \in vector_passes /\ Live(p)  BY DEF PassesInv, VectorPassInv
  <2>2. Live(p)'  BY <2>1 DEF authority, Live, authorize, authorize_document
  <2> QED  BY <2>1, <2>2, VectorPassKept
<1>3. ASSUME NEW t \in 1..Len(issued')  PROVE TicketInv(issued[t])'
  <2>1. CASE t = X \/ t \notin 1..Len(issued)  BY <2>1
  <2>2. CASE t # X /\ t \in 1..Len(issued)
    <3>1. PICK k : k = issued[t]  OBVIOUS
    <3>2. TicketInv(k)'  BY <2>2, <3>1, TicketKept
    <3>3. k = issued'[t]  BY <2>2, <3>1 DEF IssuedKept
    <3> QED  BY <3>2, <3>3
  <2> QED  BY <2>1, <2>2
<1>4. \A p \in E : \A t : HasToken(p, t) => t \in 1..Len(issued)
  BY DEF PassesInv, EnumerationPassInv, TicketFor, HasToken
<1>5. \A p \in V : \A t : vector_pass_contains_token(p, t) => t \in 1..Len(issued)
  BY DEF PassesInv, VectorPassInv, TicketFor, vector_pass_contains_token
<1>6. ASSUME NEW p \in enumeration_passes', NEW q \in enumeration_passes', NEW t \in 1..Len(issued'),
             HasToken(p, t), HasToken(q, t)
      PROVE  p = q
  <2>1. CASE p \in E /\ q \in E  BY <1>4, <1>6, <2>1 DEF PassesInv, TokensUnique
  <2>2. CASE p \in A /\ q \in A  BY <2>2
  <2>3. CASE p \in E /\ q \in A  BY <1>4, <1>6, <2>3
  <2>4. CASE p \in A /\ q \in E  BY <1>4, <1>6, <2>4
  <2> QED  BY <2>1, <2>2, <2>3, <2>4
<1>7. ASSUME NEW p \in vector_passes', NEW q \in vector_passes', NEW t \in 1..Len(issued'),
             vector_pass_contains_token(p, t), vector_pass_contains_token(q, t)
      PROVE  p = q
  <2>1. CASE p \in V /\ q \in V  BY <1>5, <1>7, <2>1 DEF PassesInv, TokensUnique
  <2>2. CASE p \in B /\ q \in B  BY <2>2
  <2>3. CASE p \in V /\ q \in B  BY <1>5, <1>7, <2>3
  <2>4. CASE p \in B /\ q \in V  BY <1>5, <1>7, <2>4
  <2> QED  BY <2>1, <2>2, <2>3, <2>4
<1>8. TokensUnique'
  BY <1>6, <1>7 DEF TokensUnique, HasToken, vector_pass_contains_token
<1>9. TypeOK'
  <2>1. PassesType  BY TypeParts DEF PassesInv
  <2>2. PassesType'  BY <2>1 DEF PassesType, authority
  <2> QED  BY <2>2, TypePartsNext
<1>10. WithinLimits(enumeration_passes)' /\ WithinLimits(vector_passes)'  BY DEF WithinLimits
<1>11. \A p \in enumeration_passes' : EnumerationPassInv(p)'  BY <1>1
<1>12. \A p \in vector_passes' : VectorPassInv(p)'  BY <1>2
<1> QED  BY <1>3, <1>8, <1>9, <1>10, <1>11, <1>12 DEF PassesInv

\* The fields of a ticket.
LEMMA TicketFields ==
  ASSUME NEW mode, NEW ch, NEW d, NEW c, NEW version, NEW delivered, NEW captured, NEW k,
         k = Ticket(mode, ch, d, c, version, delivered, captured)
  PROVE  /\ k.mode = mode /\ k.channel = ch /\ k.document = d /\ k.capability = c
         /\ k.version = version /\ k.delivered = delivered /\ k.captured = captured
         /\ k.answer = Null
  BY DEF Ticket

\* The tickets that are minted have their type.
LEMMA TicketType ==
  ASSUME NEW mode \in Modes \cup {"Vector"}, NEW ch \in Channels, NEW d \in Documents,
         NEW c \in Capabilities, NEW version \in {Null} \cup Versions, NEW S,
         NEW captured \in 1..MAX_SEQUENCE
  PROVE  Ticket(mode, ch, d, c, version, Count(S), captured) \in Tickets
<1>1. Count(S) \in [UpdateIds -> Nat]  BY DEF Count
<1>2. PICK f : f = Count(S)  OBVIOUS
<1>3. f \in [UpdateIds -> Nat]  BY <1>1, <1>2
<1>4. Ticket(mode, ch, d, c, version, f, captured) \in Tickets  BY <1>3 DEF Ticket, Tickets
<1> QED  BY <1>2, <1>4

\* An exchanged ticket keeps everything but its answer.
LEMMA ExchangedTicket ==
  ASSUME NEW k \in Tickets, NEW R \in Responses, NEW x, x = [k EXCEPT !.answer = R]
  PROVE  /\ x \in Tickets /\ x.answer = R
         /\ x.mode = k.mode /\ x.channel = k.channel /\ x.document = k.document
         /\ x.capability = k.capability /\ x.version = k.version
         /\ x.delivered = k.delivered /\ x.captured = k.captured
  BY DEF Tickets

\* Of two pages in a row, every update is counted once.
LEMMA CountsAdd ==
  ASSUME NEW S, NEW T, S \cap T = {}
  PROVE  Add(Count(S), T) = Count(S \cup T)
<1>1. \A u \in UpdateIds : Count(S)[u] + Count(T)[u] = Count(S \cup T)[u]
  BY DEF Count
<1> QED  BY <1>1 DEF Add, Count
----------------------------------------------------------------------------
\* A step that mints no token and only drops passes of live owners.
LEMMA ReadKeepsPasses ==
  ASSUME PassesInv, TablesInv', TablesGrow, UNCHANGED <<authority, channels, issued>>,
         enumeration_passes' \subseteq enumeration_passes, vector_passes' \subseteq vector_passes
  PROVE  PassesInv'
<1>1. PassesType'  BY TypeParts DEF PassesInv, PassesType, authority
<1>2. ASSUME NEW p \in enumeration_passes' \cup vector_passes'  PROVE Live(p)'
  <2>1. Live(p)  BY DEF PassesInv, EnumerationPassInv, VectorPassInv
  <2> QED  BY <2>1 DEF authority, Live, authorize, authorize_document
<1> QED  BY <1>1, <1>2, PassesShrink

\* The fields of a pass.
LEMMA PassFields ==
  ASSUME NEW ch, NEW d, NEW c, NEW current, NEW lower, NEW terminal, NEW retry, NEW q,
         q = PassOf(ch, d, c, current, lower, terminal, retry)
  PROVE  /\ q.channel = ch /\ q.document = d /\ q.capability = c /\ q.current = current
         /\ q.lower = lower /\ q.terminal = terminal /\ q.retry = retry
  BY DEF PassOf

\* Who is authorized to read keeps being so while nothing revokes it.
LEMMA ReaderIsLive ==
  ASSUME NEW ch, NEW d, NEW c, authorize_read(ch, d, c) = "Authorized",
         UNCHANGED <<authority, channels>>, NEW q,
         q.channel = ch, q.document = d, q.capability = c
  PROVE  Live(q)'
<1>1. "AuthorizationDenied" # "Authorized"  OBVIOUS
<1>2. ch \in channels /\ authorize_document(d, c) = "Authorized"
  BY <1>1 DEF authorize_read, recognizes
<1> QED  BY <1>2 DEF authority, Live, authorize, authorize_document

\* A pass over a window of the document whose token has delivered what lies before.
LEMMA NewEnumerationPass ==
  ASSUME TablesInv, TablesGrow, NEW ch, NEW d \in Documents, NEW c, NEW m, NEW T,
         NEW lower \in Nat, NEW terminal \in Nat, NEW n \in Nat, n > 0,
         lower + n <= terminal, terminal <= Cardinality(Stored(d)),
         m = IF lower + n < terminal THEN "Continue" ELSE "AfterTail",
         NEW retry, NEW q,
         q = PassOf(ch, d, c, [mode |-> m, next_ordinal |-> n, token |-> T],
                    lower, terminal, retry),
         Live(q)', T \in 1..Len(issued'),
         issued'[T] = Ticket(m, ch, d, c, Null, Count(Window(d, 0, lower + n)), terminal),
         retry # Null => /\ retry.token # T
                         /\ TicketFor(retry.token, retry.mode, q, Null)'
                         /\ issued'[retry.token].answer = retry.response
  PROVE  EnumerationPassInv(q)' /\ TicketInv(issued[T])'
<1>1. PICK a : a = lower + n  OBVIOUS
<1>2. a \in Nat /\ lower < a /\ a <= terminal /\ a > 0 /\ a \in 1..terminal
  BY <1>1
<1>3. Cardinality(Stored(d)) \in Nat  BY Positions
<1>4. Window(d, 0, a)' = Window(d, 0, a)
  <2>1. a <= Cardinality(Stored(d))  BY <1>2, <1>3
  <2> QED  BY <1>2, <2>1 DEF TablesGrow
<1>5. terminal <= Cardinality(Stored(d)')
  <2>1. IsFiniteSet(Stored(d)')
    <3>1. Stored(d)' \in SUBSET UpdateIds  BY DEF Stored
    <3> QED  BY <3>1, RecordAssumption, FS_Subset
  <2>2. Cardinality(Stored(d)') \in Nat  BY <2>1, FS_CardinalityType
  <2> QED  BY <1>3, <2>2 DEF TablesGrow
<1>6. PICK current : current = [mode |-> m, next_ordinal |-> n, token |-> T]  OBVIOUS
<1>7. current.mode = m /\ current.next_ordinal = n /\ current.token = T  BY <1>6
<1>8. /\ q.channel = ch /\ q.document = d /\ q.capability = c /\ q.current = current
      /\ q.lower = lower /\ q.terminal = terminal /\ q.retry = retry
  BY <1>6, PassFields
<1>9. Count(Window(d, 0, a))' = Count(Window(d, 0, a))  BY <1>4 DEF Count
<1>10. PICK k : k = issued'[T]  OBVIOUS
<1>11. /\ k.mode = m /\ k.channel = ch /\ k.document = d /\ k.capability = c
       /\ k.version = Null /\ k.delivered = Count(Window(d, 0, a))' /\ k.captured = terminal
       /\ k.answer = Null
  BY <1>1, <1>9, <1>10, TicketFields
<1>12. TicketFor(T, m, q, Null)'  BY <1>8, <1>10, <1>11 DEF TicketFor
<1>13. Through(q)' = a  BY <1>1, <1>7, <1>8 DEF Through
<1>14. EnumerationPassInv(q)'
  BY <1>1, <1>2, <1>5, <1>7, <1>8, <1>10, <1>11, <1>12, <1>13 DEF EnumerationPassInv
<1>15. EnumerationTicket(k)'
  <2>1. "Continue" # "AfterTail"  OBVIOUS
  <2>2. k.mode = "AfterTail" <=> a = k.captured  BY <1>1, <1>2, <1>11, <2>1
  <2> QED  BY <1>2, <1>11, <2>2 DEF EnumerationTicket
<1>16. TicketInv(k)'
  <2>1. "Continue" # "Vector" /\ "AfterTail" # "Vector"  OBVIOUS
  <2> QED  BY <1>5, <1>11, <1>15, <2>1 DEF TicketInv
<1> QED  BY <1>10, <1>14, <1>16

\* A pass of such a window, and its ticket, have their types.
LEMMA NewEnumerationType ==
  ASSUME TablesInv, NEW ch \in Channels, NEW d \in Documents, NEW c \in Capabilities,
         NEW m \in Modes, NEW T \in 1..MAX_TOKENS,
         NEW lower \in Nat, NEW terminal \in Nat, NEW n \in Nat, n > 0,
         lower + n <= terminal, terminal <= Cardinality(Stored(d)),
         NEW retry \in {Null} \cup EnumerationRetry, NEW S
  PROVE  /\ PassOf(ch, d, c, [mode |-> m, next_ordinal |-> n, token |-> T],
                   lower, terminal, retry) \in EnumerationPass
         /\ Ticket(m, ch, d, c, Null, Count(S), terminal) \in Tickets
<1>1. /\ MAX_SEQUENCE \in Nat /\ Cardinality(Stored(d)) \in Nat
      /\ Cardinality(Stored(d)) < MAX_SEQUENCE
  BY Positions, UpdateConstants
<1>2. lower \in 0..MAX_SEQUENCE /\ terminal \in 1..MAX_SEQUENCE /\ n \in 1..MAX_SEQUENCE
  BY <1>1
<1>3. PICK current : current = [mode |-> m, next_ordinal |-> n, token |-> T]  OBVIOUS
<1>4. current \in [mode : Modes, next_ordinal : 1..MAX_SEQUENCE, token : 1..MAX_TOKENS]
  BY <1>2, <1>3
<1>5. PassOf(ch, d, c, current, lower, terminal, retry) \in EnumerationPass
  BY <1>2, <1>4 DEF PassOf, EnumerationPass
<1>6. Ticket(m, ch, d, c, Null, Count(S), terminal) \in Tickets
  <2>1. m \in Modes \cup {"Vector"} /\ Null \in {Null} \cup Versions  OBVIOUS
  <2> QED  BY <1>2, <2>1, TicketType
<1> QED  BY <1>3, <1>5, <1>6
----------------------------------------------------------------------------
\* What appending a ticket leaves.
LEMMA IssuedAppended ==
  ASSUME PassesInv, Len(issued) < MAX_TOKENS, NEW X, NEW base \in Seq(Tickets),
         Len(base) = Len(issued), \A t \in 1..Len(issued) : t # X => base[t] = issued[t],
         NEW k \in Tickets, issued' = Append(base, k)
  PROVE  /\ IssuedKept(X) /\ issued' \in Seq(Tickets)
         /\ Len(issued') = mint_token /\ mint_token <= MAX_TOKENS /\ mint_token \in 1..MAX_TOKENS
         /\ mint_token \in 1..Len(issued') /\ issued'[mint_token] = k
         /\ \A t \in 1..Len(issued) : issued'[t] = base[t]
         /\ \A t \in 1..Len(issued') : t \notin 1..Len(issued) => t = mint_token
<1>1. Len(issued) \in Nat /\ mint_token = Len(issued) + 1 /\ MAX_TOKENS \in Nat
  BY IssuedType, UpdateConstants
<1>2. /\ issued' \in Seq(Tickets) /\ Len(issued') = Len(issued) + 1
      /\ issued'[Len(issued) + 1] = k
      /\ \A t \in 1..Len(issued) : issued'[t] = base[t]
  BY <1>1
<1> QED  BY <1>1, <1>2 DEF IssuedKept

\* A step that replaces one enumeration pass.
LEMMA EnumerationReplaced ==
  ASSUME PassesInv, TablesInv', TablesGrow, UNCHANGED <<authority, channels, vector_passes>>,
         NEW X, IssuedKept(X), issued' \in Seq(Tickets), Len(issued') <= MAX_TOKENS,
         \A t \in 1..Len(issued') : (t = X \/ t \notin 1..Len(issued)) => TicketInv(issued[t])',
         NEW E, E \subseteq enumeration_passes, \A p \in E : ~HasToken(p, X),
         NEW q, enumeration_passes' = E \cup {q}, q \in EnumerationPass, EnumerationPassInv(q)',
         \A t \in 1..Len(issued) : HasToken(q, t) => t = X,
         \A p \in vector_passes : ~vector_pass_contains_token(p, X),
         WithinLimits(enumeration_passes')
  PROVE  PassesInv'
<1>1. PICK A, V, B : A = {q} /\ V = vector_passes /\ B = {}  OBVIOUS
<1>2. /\ enumeration_passes' = E \cup A /\ \A x, y \in A : x = y
      /\ \A p \in A : /\ p \in EnumerationPass /\ EnumerationPassInv(p)'
                      /\ \A t \in 1..Len(issued) : HasToken(p, t) => t = X
  BY <1>1
<1>3. /\ V \subseteq vector_passes /\ \A p \in V : ~vector_pass_contains_token(p, X)
      /\ vector_passes' = V \cup B /\ \A x, y \in B : x = y
      /\ \A p \in B : /\ p \in VectorPass /\ VectorPassInv(p)'
                      /\ \A t \in 1..Len(issued) : vector_pass_contains_token(p, t) => t = X
  BY <1>1
<1>4. WithinLimits(vector_passes')  BY DEF PassesInv
<1>5. UNCHANGED <<authority, channels>>  OBVIOUS
<1> HIDE <1>1
<1> QED  BY <1>2, <1>3, <1>4, <1>5, PassesReplaced, Zenon

\* An enumeration from the origin keeps the invariant.
LEMMA EnumerateOriginKeepsPasses ==
  ASSUME PassesInv, TablesInv', TablesGrow, NEW ch \in Channels, NEW d \in Documents,
         NEW c \in Capabilities, EnumerateOrigin(ch, d, c)
  PROVE  PassesInv'
<1>1. PICK result : result = enumerate_from_origin(ch, d, c)  OBVIOUS
<1>2. /\ Len(issued) < MAX_TOKENS
      /\ enumeration_passes' = result.passes
      /\ issued' =
           IF Minted(result)
           THEN Append(issued,
                  Ticket(ModeOf(result.response), ch, d, c, Null,
                         Count(result.response.updates), high_water_sequence_in(d)))
           ELSE issued
      /\ UNCHANGED <<authority, channels, vector_passes>>
  BY <1>1, Zenon DEF EnumerateOrigin
<1>3. PICK K : K = OtherEnumerations(ch, d, c)  OBVIOUS
<1>4. K \subseteq enumeration_passes  BY <1>3 DEF OtherEnumerations
<1>5. TablesInv  BY DEF PassesInv
<1>6. EnumerateOriginCases(ch, d, c, result)  BY <1>1, <1>5, EnumerateOriginResult
<1>7. \/ result.outcome # "Authorized" /\ result.passes = enumeration_passes
      \/ result.outcome # "Authorized" /\ result.passes = K
      \/ result = Answered(EmptyResponse, K)
      \/ /\ authorize_read(ch, d, c) = "Authorized" /\ Admits(K, ch, d, c)
         /\ \E n : /\ FirstPage(d, n)
                   /\ result = Answered(FirstResponse(d, n), K \cup {FirstPass(ch, d, c, n)})
  BY <1>3, <1>6, Zenon DEF EnumerateOriginCases
<1>8. ASSUME ~Minted(result), result.passes \subseteq enumeration_passes  PROVE PassesInv'
  BY <1>2, <1>8, ReadKeepsPasses
<1>9. CASE result.outcome # "Authorized" /\ result.passes = enumeration_passes
  BY <1>8, <1>9 DEF Minted
<1>10. CASE result.outcome # "Authorized" /\ result.passes = K
  BY <1>4, <1>8, <1>10 DEF Minted
<1>11. CASE result = Answered(EmptyResponse, K)
  <2>1. result.passes = K /\ result.response = EmptyResponse  BY <1>11 DEF Answered
  <2>2. result.response.next_cursor = Null  BY <2>1 DEF EmptyResponse, Response
  <2>3. mint_token # Null  BY IssuedType, UpdateConstants
  <2> QED  BY <1>4, <1>8, <2>1, <2>2, <2>3 DEF Minted
<1>12. ASSUME authorize_read(ch, d, c) = "Authorized", Admits(K, ch, d, c), NEW n,
              FirstPage(d, n),
              result = Answered(FirstResponse(d, n), K \cup {FirstPass(ch, d, c, n)})
       PROVE  PassesInv'
  <2>1. PICK k \in Nat : k = Cardinality(Stored(d))  BY <1>5, Positions
  <2>2. n \in Nat /\ n > 0 /\ n <= k /\ 0 + n = n /\ 0 \in Nat  BY <1>12, <2>1 DEF FirstPage
  <2>3. PICK m : m = IF n < k THEN "Continue" ELSE "AfterTail"  OBVIOUS
  <2>4. m \in Modes  BY <2>3 DEF Modes
  <2>5. PICK q : q = FirstPass(ch, d, c, n)  OBVIOUS
  <2>6. q = PassOf(ch, d, c, [mode |-> m, next_ordinal |-> n, token |-> mint_token], 0, k, Null)
    BY <2>1, <2>3, <2>5, Zenon DEF FirstPass
  <2>7. PICK R : R = FirstResponse(d, n)  OBVIOUS
  <2>8. R.next_cursor = mint_token /\ R.updates = Window(d, 0, n) /\ (R.has_more <=> n < k)
    <3>1. PICK f : f = (n < k)  BY Less
    <3>2. R = Response(f, mint_token, Window(d, 0, n))
      BY <2>1, <2>7, <3>1, Zenon DEF FirstResponse
    <3>3. R.has_more = f /\ R.next_cursor = mint_token /\ R.updates = Window(d, 0, n)
      BY <3>2 DEF Response
    <3> QED  BY <3>1, <3>3
  <2>9. result.outcome = "Authorized" /\ result.response = R /\ result.passes = K \cup {q}
    BY <1>12, <2>5, <2>7 DEF Answered
  <2>10. Minted(result)  BY <2>8, <2>9 DEF Minted
  <2>11. ModeOf(R) = m  BY <2>3, <2>8 DEF ModeOf
  <2>12. high_water_sequence_in(d) = k  BY <1>5, <2>1, HighWater
  <2>13. PICK ticket : ticket = Ticket(m, ch, d, c, Null, Count(Window(d, 0, n)), k)  OBVIOUS
  <2>14. issued' = Append(issued, ticket)
    BY <1>2, <2>8, <2>9, <2>10, <2>11, <2>12, <2>13
  <2>15. issued \in Seq(Tickets) /\ Len(issued) \in Nat /\ mint_token \in 1..MAX_TOKENS
    BY <1>2, IssuedType, UpdateConstants
  <2>16. q \in EnumerationPass /\ ticket \in Tickets
    <3>1. k <= Cardinality(Stored(d)) /\ 0 + n <= k /\ Null \in {Null} \cup EnumerationRetry
      BY <2>1, <2>2
    <3> QED  BY <1>5, <2>2, <2>4, <2>6, <2>13, <2>15, <3>1, NewEnumerationType
  <2>17. /\ IssuedKept(0) /\ issued' \in Seq(Tickets) /\ Len(issued') <= MAX_TOKENS
         /\ mint_token \in 1..Len(issued') /\ issued'[mint_token] = ticket
         /\ \A t \in 1..Len(issued') : t \notin 1..Len(issued) => t = mint_token
    BY <1>2, <2>14, <2>15, <2>16, IssuedAppended
  <2>18. /\ q.channel = ch /\ q.document = d /\ q.capability = c /\ q.retry = Null
         /\ q.current.token = mint_token
    BY <2>6, PassFields
  <2>19. Live(q)'  BY <1>2, <1>12, <2>18, ReaderIsLive
  <2>20. PICK T : T = mint_token  OBVIOUS
  <2>21. EnumerationPassInv(q)' /\ TicketInv(issued[T])'
    <3>1. /\ q = PassOf(ch, d, c, [mode |-> m, next_ordinal |-> n, token |-> T], 0, k, Null)
          /\ T \in 1..Len(issued')
          /\ issued'[T] = Ticket(m, ch, d, c, Null, Count(Window(d, 0, 0 + n)), k)
          /\ k <= Cardinality(Stored(d)) /\ 0 + n <= k
          /\ m = IF 0 + n < k THEN "Continue" ELSE "AfterTail"
      BY <2>1, <2>2, <2>3, <2>6, <2>13, <2>17, <2>20
    <3> QED  BY <1>5, <2>2, <2>19, <3>1, NewEnumerationPass
  <2>22. \A t \in 1..Len(issued) : ~HasToken(q, t)
    BY <2>18, IssuedType DEF HasToken
  <2>23. \A p \in K : ~HasToken(p, 0)
    BY <1>4, IssuedType DEF PassesInv, EnumerationPassInv, TicketFor, HasToken
  <2>24. \A p \in vector_passes : ~vector_pass_contains_token(p, 0)
    BY IssuedType DEF PassesInv, VectorPassInv, TicketFor, vector_pass_contains_token
  <2>25. WithinLimits(enumeration_passes') /\ WithinLimits(vector_passes')
    <3>1. WithinLimits(K)  BY <1>4, LimitsKept DEF PassesInv
    <3>2. WithinLimits(K \cup {q})  BY <1>12, <2>18, <3>1, LimitsAfterAdmission
    <3> QED  BY <1>2, <2>9, <3>2 DEF PassesInv
  <2>26. \A t \in 1..Len(issued') : (t = 0 \/ t \notin 1..Len(issued)) => TicketInv(issued[t])'
    BY <2>17, <2>20, <2>21
  <2>27. /\ enumeration_passes' = K \cup {q} /\ UNCHANGED <<authority, channels, vector_passes>>
         /\ \A t \in 1..Len(issued) : HasToken(q, t) => t = 0
    BY <1>2, <2>9, <2>22
  <2> QED  BY <1>4, <2>16, <2>17, <2>21, <2>23, <2>24, <2>25, <2>26, <2>27, EnumerationReplaced
<1> QED  BY <1>7, <1>9, <1>10, <1>11, <1>12
----------------------------------------------------------------------------
\* The history in which one token is exchanged for a page.
ExchangedFor(token, R) == [issued EXCEPT ![token].answer = R]

\* The exchange only sets the answer of its token.
LEMMA IssuedExchanged ==
  ASSUME PassesInv, NEW token \in 1..Len(issued), NEW R \in Responses, NEW base,
         base = ExchangedFor(token, R)
  PROVE  /\ base \in Seq(Tickets) /\ Len(base) = Len(issued)
         /\ \A t \in 1..Len(issued) : t # token => base[t] = issued[t]
         /\ base[token] \in Tickets /\ base[token].answer = R
         /\ base[token].mode = issued[token].mode /\ base[token].channel = issued[token].channel
         /\ base[token].document = issued[token].document
         /\ base[token].capability = issued[token].capability
         /\ base[token].version = issued[token].version
         /\ base[token].delivered = issued[token].delivered
         /\ base[token].captured = issued[token].captured
<1>1. issued \in Seq(Tickets) /\ Len(issued) \in Nat  BY IssuedType
<1>2. PICK k : k = issued[token]  OBVIOUS
<1>3. k \in Tickets  BY <1>1, <1>2
<1>4. PICK x : x = [k EXCEPT !.answer = R]  OBVIOUS
<1>5. /\ x \in Tickets /\ x.answer = R
      /\ x.mode = k.mode /\ x.channel = k.channel /\ x.document = k.document
      /\ x.capability = k.capability /\ x.version = k.version
      /\ x.delivered = k.delivered /\ x.captured = k.captured
  BY <1>3, <1>4, ExchangedTicket
<1>6. base = [issued EXCEPT ![token] = x]  BY <1>2, <1>4 DEF ExchangedFor
<1>7. /\ base \in Seq(Tickets) /\ Len(base) = Len(issued) /\ base[token] = x
      /\ \A t \in 1..Len(issued) : t # token => base[t] = issued[t]
  BY <1>1, <1>5, <1>6
<1> QED  BY <1>2, <1>5, <1>7

\* No answer that is kept carries the token that is minted next.
LEMMA KeptAnswerMintsNothing ==
  ASSUME PassesInv, NEW t \in 1..Len(issued), NEW R, R = issued[t].answer, R # Null
  PROVE  R.next_cursor # mint_token
<1>1. R.next_cursor \in {Null} \cup 1..Len(issued)  BY DEF PassesInv, TicketInv
<1>2. mint_token \notin 1..Len(issued) /\ mint_token # Null  BY IssuedType, UpdateConstants
<1> QED  BY <1>1, <1>2

\* A token of an enumeration that is refused, retried or at an empty tail.
LEMMA EnumerateTokenUnmoved ==
  ASSUME PassesInv, NEW token, NEW ch, NEW d, NEW c, NEW mode, NEW result,
         \/ result.outcome # "Authorized" /\ result.passes = enumeration_passes
         \/ \E p \in enumeration_passes :
              /\ Retried(p, token, mode)
              /\ result = Answered(p.retry.response, enumeration_passes)
         \/ result = Answered(EmptyResponse, enumeration_passes)
  PROVE  ~Minted(result) /\ Exchanged(token, result, enumeration_passes) = issued
<1>1. CASE result.outcome # "Authorized" /\ result.passes = enumeration_passes
  BY <1>1 DEF Minted, Exchanged
<1>2. ASSUME NEW p \in enumeration_passes, Retried(p, token, mode),
             result = Answered(p.retry.response, enumeration_passes)
      PROVE  ~Minted(result) /\ Exchanged(token, result, enumeration_passes) = issued
  <2>1. PICK R : R = p.retry.response  OBVIOUS
  <2>2. p.retry # Null /\ p.retry \in EnumerationRetry
    BY <1>2, EnumerationPassType DEF Retried
  <2>3. R \in Responses /\ R # Null  BY <2>1, <2>2, NullIsNoValue DEF EnumerationRetry
  <2>4. p.retry.token \in 1..Len(issued) /\ issued[p.retry.token].answer = R
    BY <2>1, <2>2 DEF PassesInv, EnumerationPassInv, TicketFor
  <2>5. R.next_cursor # mint_token  BY <2>3, <2>4, KeptAnswerMintsNothing
  <2>6. result.response = R /\ result.passes = enumeration_passes
    BY <1>2, <2>1 DEF Answered
  <2> QED  BY <2>5, <2>6 DEF Minted, Exchanged
<1>3. CASE result = Answered(EmptyResponse, enumeration_passes)
  <2>1. result.response = EmptyResponse /\ result.passes = enumeration_passes
    BY <1>3 DEF Answered
  <2>2. result.response.next_cursor = Null  BY <2>1 DEF EmptyResponse, Response
  <2>3. mint_token # Null  BY IssuedType, UpdateConstants
  <2> QED  BY <2>1, <2>2, <2>3 DEF Minted, Exchanged
<1> QED  BY <1>1, <1>2, <1>3

\* The pages of an enumeration have the type of a response.
LEMMA NextResponseType ==
  ASSUME NEW p, NEW lower, NEW terminal, NEW n, mint_token \in 1..MAX_TOKENS, NEW R,
         R = NextResponse(p, lower, terminal, n)
  PROVE  /\ R \in Responses /\ R.next_cursor = mint_token
         /\ R.updates = Window(p.document, Through(p), lower + n)
         /\ R.has_more <=> lower + n < terminal
<1>1. PICK f \in BOOLEAN : f = (lower + n < terminal)  BY Less
<1>2. PICK S : S = Window(p.document, Through(p), lower + n)  OBVIOUS
<1>3. S \in SUBSET UpdateIds  BY <1>2 DEF Window, Stored
<1>4. PICK T : T = mint_token  OBVIOUS
<1>5. R = Response(f, T, S)  BY <1>1, <1>2, <1>4, Zenon DEF NextResponse
<1>6. R \in Responses /\ R.has_more = f /\ R.next_cursor = T /\ R.updates = S
  BY <1>3, <1>4, <1>5 DEF Response, Responses
<1> QED  BY <1>1, <1>2, <1>4, <1>6

\* A token of an enumeration that is exchanged for the next page.
LEMMA EnumerateAdvances ==
  ASSUME PassesInv, TablesInv', TablesGrow, UNCHANGED <<authority, channels, vector_passes>>,
         Len(issued) < MAX_TOKENS, NEW p \in enumeration_passes,
         NEW lower, NEW terminal, NEW n, NextPage(p, lower, terminal, n),
         NEW R, R = NextResponse(p, lower, terminal, n),
         NEW token, token = p.current.token,
         NEW q, q = NextPass(p, lower, terminal, n),
         enumeration_passes' = (enumeration_passes \ {p}) \cup {q},
         issued' = Append(ExchangedFor(token, R),
                     Ticket(ModeOf(R), p.channel, p.document, p.capability, Null,
                            Add(issued[token].delivered, R.updates), terminal))
  PROVE  PassesInv'
<1>1. EnumerationPassInv(p) /\ TablesInv  BY DEF PassesInv
<1>2. PICK ch, d, c, mode, T, a :
        /\ ch = p.channel /\ d = p.document /\ c = p.capability /\ mode = p.current.mode
        /\ T = mint_token /\ a = Through(p)
  OBVIOUS
<1>3. /\ ch \in Channels /\ d \in Documents /\ c \in Capabilities /\ mode \in Modes /\ a \in Nat
  BY <1>2, EnumerationPassType
<1>4. /\ lower \in Nat /\ terminal \in Nat /\ n \in Nat /\ n > 0
      /\ terminal <= Cardinality(Stored(d)) /\ a <= lower + n /\ lower + n <= terminal
      /\ lower + n \in Nat
  <2>1. /\ lower \in Nat /\ terminal \in Nat /\ n \in Nat /\ n > 0
        /\ terminal <= Cardinality(Stored(d)) /\ a < lower + n /\ lower + n <= terminal
    BY <1>2 DEF NextPage
  <2> QED  BY <1>3, <2>1
<1>5. /\ token \in 1..Len(issued) /\ issued[token].answer = Null
      /\ issued[token].mode = mode /\ issued[token].version = Null
      /\ issued[token].channel = ch /\ issued[token].document = d /\ issued[token].capability = c
      /\ issued[token].delivered = Count(Window(d, 0, a))
  BY <1>1, <1>2 DEF EnumerationPassInv, TicketFor
<1>6. T \in 1..MAX_TOKENS /\ T \notin 1..Len(issued) /\ Len(issued) \in Nat /\ MAX_TOKENS \in Nat
  BY <1>2, IssuedType, UpdateConstants
<1>7. R \in Responses /\ R.next_cursor = T /\ R.updates = Window(d, a, lower + n)
      /\ (R.has_more <=> lower + n < terminal)
  BY <1>2, <1>6, NextResponseType
<1>8. PICK m : m = IF lower + n < terminal THEN "Continue" ELSE "AfterTail"  OBVIOUS
<1>9. ModeOf(R) = m /\ m \in Modes  BY <1>7, <1>8 DEF ModeOf, Modes
<1>10. Add(issued[token].delivered, R.updates) = Count(Window(d, 0, lower + n))
  <2>1. /\ Window(d, 0, a) \cup Window(d, a, lower + n) = Window(d, 0, lower + n)
        /\ Window(d, 0, a) \cap Window(d, a, lower + n) = {}
    <3>1. 0 \in Nat /\ 0 <= a  BY <1>3
    <3> QED  BY <1>1, <1>3, <1>4, <3>1, WindowParts
  <2>2. Add(Count(Window(d, 0, a)), Window(d, a, lower + n)) =
          Count(Window(d, 0, a) \cup Window(d, a, lower + n))
    BY <2>1, CountsAdd
  <2> QED  BY <1>5, <1>7, <2>1, <2>2
<1>11. PICK base, ticket :
         /\ base = ExchangedFor(token, R)
         /\ ticket = Ticket(m, ch, d, c, Null, Count(Window(d, 0, lower + n)), terminal)
  OBVIOUS
<1>12. issued' = Append(base, ticket)  BY <1>2, <1>9, <1>10, <1>11
<1>13. PICK retry : retry = [mode |-> mode, response |-> R, token |-> token]  OBVIOUS
<1>14. /\ retry.mode = mode /\ retry.response = R /\ retry.token = token
       /\ retry \in EnumerationRetry
  BY <1>3, <1>5, <1>6, <1>7, <1>13 DEF EnumerationRetry
<1>15. q = PassOf(ch, d, c, [mode |-> m, next_ordinal |-> n, token |-> T], lower, terminal, retry)
  BY <1>2, <1>8, <1>13, Zenon DEF NextPass, PassOf
<1>16. q \in EnumerationPass /\ ticket \in Tickets
  BY <1>1, <1>3, <1>4, <1>6, <1>9, <1>11, <1>14, <1>15, NewEnumerationType
<1>17. /\ base \in Seq(Tickets) /\ Len(base) = Len(issued)
       /\ \A t \in 1..Len(issued) : t # token => base[t] = issued[t]
       /\ base[token] \in Tickets /\ base[token].answer = R
       /\ base[token].mode = mode /\ base[token].channel = ch
       /\ base[token].document = d /\ base[token].capability = c /\ base[token].version = Null
       /\ base[token].delivered = issued[token].delivered
       /\ base[token].captured = issued[token].captured
  <2>1. token \in 1..Len(issued) /\ R \in Responses /\ base = ExchangedFor(token, R) /\ PassesInv
    BY <1>5, <1>7, <1>11
  <2>2. /\ base \in Seq(Tickets) /\ Len(base) = Len(issued)
        /\ \A t \in 1..Len(issued) : t # token => base[t] = issued[t]
        /\ base[token] \in Tickets /\ base[token].answer = R
        /\ base[token].mode = issued[token].mode /\ base[token].channel = issued[token].channel
        /\ base[token].document = issued[token].document
        /\ base[token].capability = issued[token].capability
        /\ base[token].version = issued[token].version
        /\ base[token].delivered = issued[token].delivered
        /\ base[token].captured = issued[token].captured
    BY ONLY <2>1, IssuedExchanged
  <2> QED  BY <1>5, <2>2, Zenon
<1>18. /\ IssuedKept(token) /\ issued' \in Seq(Tickets) /\ Len(issued') = T /\ Len(issued') <= MAX_TOKENS
       /\ T \in 1..Len(issued') /\ issued'[T] = ticket
       /\ \A t \in 1..Len(issued) : issued'[t] = base[t]
       /\ \A t \in 1..Len(issued') : t \notin 1..Len(issued) => t = T
  <2>1. /\ base \in Seq(Tickets) /\ Len(base) = Len(issued)
        /\ \A t \in 1..Len(issued) : t # token => base[t] = issued[t]
        /\ ticket \in Tickets /\ PassesInv /\ Len(issued) < MAX_TOKENS
        /\ issued' = Append(base, ticket)
    BY <1>12, <1>16, <1>17
  <2>2. /\ IssuedKept(token) /\ issued' \in Seq(Tickets)
        /\ Len(issued') = mint_token /\ mint_token <= MAX_TOKENS
        /\ mint_token \in 1..Len(issued') /\ issued'[mint_token] = ticket
        /\ \A t \in 1..Len(issued) : issued'[t] = base[t]
        /\ \A t \in 1..Len(issued') : t \notin 1..Len(issued) => t = mint_token
    BY ONLY <2>1, IssuedAppended
  <2> QED  BY <1>2, <2>2
<1>19. /\ q.channel = ch /\ q.document = d /\ q.capability = c /\ q.retry = retry
       /\ q.current.token = T
  BY <1>15, PassFields
<1>20. Live(q)'
  <2>1. Live(p)  BY <1>1 DEF EnumerationPassInv
  <2> QED  BY <1>2, <1>19, <2>1 DEF authority, Live, authorize, authorize_document
<1>21. token \in 1..Len(issued') /\ issued'[token] = base[token]  BY <1>5, <1>6, <1>18
<1>22. EnumerationPassInv(q)' /\ TicketInv(issued[T])'
  <2>1. TicketFor(retry.token, retry.mode, q, Null)'
    <3>1. TicketFor(token, mode, q, Null)'  BY <1>17, <1>19, <1>21 DEF TicketFor
    <3> QED  BY <1>14, <3>1
  <2>2. retry.token # T /\ issued'[retry.token].answer = retry.response
    BY <1>5, <1>6, <1>14, <1>17, <1>21
  <2>3. issued'[T] = Ticket(m, ch, d, c, Null, Count(Window(d, 0, lower + n)), terminal)
    BY <1>11, <1>18
  <2>4. /\ TablesInv /\ TablesGrow /\ T \in 1..Len(issued')
        /\ lower \in Nat /\ terminal \in Nat /\ n \in Nat /\ n > 0
        /\ lower + n <= terminal /\ terminal <= Cardinality(Stored(d))
        /\ retry # Null => /\ retry.token # T
                          /\ TicketFor(retry.token, retry.mode, q, Null)'
                          /\ issued'[retry.token].answer = retry.response
    BY <1>1, <1>4, <1>18, <2>1, <2>2
  <2> QED  BY ONLY <1>3, <1>8, <1>15, <1>20, <2>3, <2>4, NewEnumerationPass
<1>23. TicketInv(issued[token])'
  <2>1. PICK k, x : k = issued[token] /\ x = base[token]  OBVIOUS
  <2>2. TicketInv(k)'  BY <1>5, <1>18, <2>1, TicketKept
  <2>3. /\ x.mode = k.mode /\ x.document = k.document /\ x.delivered = k.delivered
        /\ x.captured = k.captured /\ x.answer = R /\ k.mode # "Vector"
    <3>1. "Continue" # "Vector" /\ "AfterTail" # "Vector"  OBVIOUS
    <3> QED  BY <1>3, <1>5, <1>17, <2>1, <3>1 DEF Modes
  <2>4. EnumerationTicket(x)'  BY <2>2, <2>3 DEF TicketInv, EnumerationTicket
  <2>5. TicketInv(x)'  BY <1>7, <1>18, <2>2, <2>3, <2>4 DEF TicketInv
  <2> QED  BY <1>21, <2>1, <2>5
<1>24. \A t \in 1..Len(issued') : (t = token \/ t \notin 1..Len(issued)) => TicketInv(issued[t])'
  BY <1>18, <1>22, <1>23
<1>25. \A t \in 1..Len(issued) : HasToken(q, t) => t = token
  BY <1>6, <1>14, <1>19 DEF HasToken
<1>26. PICK E : E = enumeration_passes \ {p}  OBVIOUS
<1>27. E \subseteq enumeration_passes /\ \A x \in E : ~HasToken(x, token)
  <2>1. HasToken(p, token)  BY DEF HasToken
  <2> QED  BY <1>5, <1>26, <2>1 DEF PassesInv, TokensUnique
<1>28. \A x \in vector_passes : ~vector_pass_contains_token(x, token)
  <2>1. \A x \in vector_passes :
          vector_pass_contains_token(x, token) => issued[token].mode = "Vector"
    BY DEF PassesInv, VectorPassInv, TicketFor, vector_pass_contains_token
  <2>2. mode # "Vector"
    <3>1. "Continue" # "Vector" /\ "AfterTail" # "Vector"  OBVIOUS
    <3> QED  BY <1>3, <3>1 DEF Modes
  <2> QED  BY <1>5, <2>1, <2>2
<1>29. WithinLimits(enumeration_passes')
  <2>1. q.channel = p.channel /\ q.document = p.document /\ q.capability = p.capability
    BY <1>2, <1>19
  <2>2. WithinLimits(enumeration_passes)  BY DEF PassesInv
  <2>3. WithinLimits((enumeration_passes \ {p}) \cup {q})
    BY <2>1, <2>2, LimitsAfterAdvance, Zenon
  <2> QED  BY <2>3
<1>30. enumeration_passes' = E \cup {q}  BY <1>26
<1>31. PassesInv /\ TablesInv' /\ TablesGrow /\ UNCHANGED <<authority, channels, vector_passes>>
  OBVIOUS
<1>32. /\ IssuedKept(token) /\ issued' \in Seq(Tickets) /\ Len(issued') <= MAX_TOKENS
       /\ q \in EnumerationPass /\ EnumerationPassInv(q)'
  BY <1>16, <1>18, <1>22
<1> QED
  BY ONLY <1>24, <1>25, <1>27, <1>28, <1>29, <1>30, <1>31, <1>32, EnumerationReplaced

\* A continuation of an enumeration keeps the invariant.
LEMMA EnumerateTokenKeepsPasses ==
  ASSUME PassesInv, TablesInv', TablesGrow, NEW ch \in Channels, NEW d \in Documents,
         NEW c \in Capabilities, NEW mode \in Modes, NEW token,
         EnumerateToken(ch, d, c, mode, token)
  PROVE  PassesInv'
<1>1. PICK result : result = enumerate_from_token(ch, d, c, mode, token)  OBVIOUS
<1>2. PICK captured :
        captured = IF mode = "AfterTail" THEN high_water_sequence_in(d) ELSE issued[token].captured
  OBVIOUS
<1>3. /\ Presentable(token)
      /\ enumeration_passes' = result.passes
      /\ issued' =
           IF Minted(result)
           THEN Append(Exchanged(token, result, enumeration_passes),
                  Ticket(ModeOf(result.response), ch, d, c, Null,
                         Add(issued[token].delivered, result.response.updates), captured))
           ELSE Exchanged(token, result, enumeration_passes)
      /\ UNCHANGED <<authority, channels, vector_passes>>
  BY <1>1, <1>2, Zenon DEF EnumerateToken
<1>4. EnumerateTokenCases(ch, d, c, mode, token, result)  BY <1>1, EnumerateTokenResult
<1>5. \/ \/ result.outcome # "Authorized" /\ result.passes = enumeration_passes
         \/ \E p \in enumeration_passes :
              /\ Retried(p, token, mode)
              /\ result = Answered(p.retry.response, enumeration_passes)
         \/ result = Answered(EmptyResponse, enumeration_passes)
      \/ \E p \in enumeration_passes :
           /\ SameAuthority(p, ch, d, c) /\ p.current.token = token /\ p.current.mode = mode
           /\ \E lower, terminal, n :
                /\ NextPage(p, lower, terminal, n)
                /\ result = Answered(NextResponse(p, lower, terminal, n),
                              (enumeration_passes \ {p}) \cup {NextPass(p, lower, terminal, n)})
  BY <1>4, Zenon DEF EnumerateTokenCases
<1>6. ASSUME \/ result.outcome # "Authorized" /\ result.passes = enumeration_passes
             \/ \E p \in enumeration_passes :
                  /\ Retried(p, token, mode)
                  /\ result = Answered(p.retry.response, enumeration_passes)
             \/ result = Answered(EmptyResponse, enumeration_passes)
      PROVE  PassesInv'
  <2>1. ~Minted(result) /\ Exchanged(token, result, enumeration_passes) = issued
    BY <1>6, EnumerateTokenUnmoved
  <2>2. result.passes = enumeration_passes  BY <1>6 DEF Answered
  <2> QED  BY <1>3, <2>1, <2>2, ReadKeepsPasses
<1>7. ASSUME NEW p \in enumeration_passes, SameAuthority(p, ch, d, c),
             p.current.token = token, p.current.mode = mode, NEW lower, NEW terminal, NEW n,
             NextPage(p, lower, terminal, n),
             result = Answered(NextResponse(p, lower, terminal, n),
                        (enumeration_passes \ {p}) \cup {NextPass(p, lower, terminal, n)})
      PROVE  PassesInv'
  <2>1. EnumerationPassInv(p) /\ TablesInv  BY DEF PassesInv
  <2>2. PICK R, q : R = NextResponse(p, lower, terminal, n) /\ q = NextPass(p, lower, terminal, n)
    OBVIOUS
  <2>3. /\ result.outcome = "Authorized" /\ result.response = R
        /\ result.passes = (enumeration_passes \ {p}) \cup {q}
    BY <1>7, <2>2 DEF Answered
  <2>4. Len(issued) < MAX_TOKENS  BY <1>3 DEF Presentable
  <2>5. mint_token \in 1..MAX_TOKENS  BY <2>4, IssuedType, UpdateConstants
  <2>6. R.next_cursor = mint_token  BY <2>2, <2>5, NextResponseType
  <2>7. Minted(result)  BY <2>3, <2>6 DEF Minted
  <2>8. q \notin enumeration_passes
    <3>1. q.current.token = mint_token  BY <2>2 DEF NextPass
    <3> QED  BY <3>1, IssuedType DEF PassesInv, EnumerationPassInv, TicketFor
  <2>9. result.passes # enumeration_passes  BY <2>3, <2>8
  <2>10. issued[token].answer = Null /\ issued[token].captured = p.terminal
    BY <1>7, <2>1 DEF EnumerationPassInv
  <2>11. Exchanged(token, result, enumeration_passes) = ExchangedFor(token, R)
    BY <2>3, <2>9, <2>10 DEF Exchanged, ExchangedFor
  <2>12. p.channel = ch /\ p.document = d /\ p.capability = c  BY <1>7 DEF SameAuthority
  <2>13. captured = terminal
    <3>1. "Continue" # "AfterTail"  OBVIOUS
    <3>2. high_water_sequence_in(d) = Cardinality(Stored(d))  BY <2>1, HighWater
    <3> QED  BY <1>2, <1>7, <2>10, <2>12, <3>1, <3>2 DEF NextPage
  <2>14. issued' = Append(ExchangedFor(token, R),
                     Ticket(ModeOf(R), p.channel, p.document, p.capability, Null,
                            Add(issued[token].delivered, R.updates), terminal))
    BY <1>3, <2>3, <2>7, <2>11, <2>12, <2>13, Zenon
  <2>15. enumeration_passes' = (enumeration_passes \ {p}) \cup {q}  BY <1>3, <2>3
  <2> QED  BY <1>3, <1>7, <2>2, <2>4, <2>14, <2>15, EnumerateAdvances
<1> QED  BY <1>5, <1>6, <1>7
----------------------------------------------------------------------------
\* A step that replaces one vector pass.
LEMMA VectorReplaced ==
  ASSUME PassesInv, TablesInv', TablesGrow, UNCHANGED <<authority, channels, enumeration_passes>>,
         NEW X, IssuedKept(X), issued' \in Seq(Tickets), Len(issued') <= MAX_TOKENS,
         \A t \in 1..Len(issued') : (t = X \/ t \notin 1..Len(issued)) => TicketInv(issued[t])',
         NEW V, V \subseteq vector_passes, \A p \in V : ~vector_pass_contains_token(p, X),
         NEW q, vector_passes' = V \cup {q}, q \in VectorPass, VectorPassInv(q)',
         \A t \in 1..Len(issued) : vector_pass_contains_token(q, t) => t = X,
         \A p \in enumeration_passes : ~HasToken(p, X),
         WithinLimits(vector_passes')
  PROVE  PassesInv'
<1>1. PICK B, E, A : B = {q} /\ E = enumeration_passes /\ A = {}  OBVIOUS
<1>2. /\ E \subseteq enumeration_passes /\ \A p \in E : ~HasToken(p, X)
      /\ enumeration_passes' = E \cup A /\ \A x, y \in A : x = y
      /\ \A p \in A : /\ p \in EnumerationPass /\ EnumerationPassInv(p)'
                      /\ \A t \in 1..Len(issued) : HasToken(p, t) => t = X
  BY <1>1
<1>3. /\ vector_passes' = V \cup B /\ \A x, y \in B : x = y
      /\ \A p \in B : /\ p \in VectorPass /\ VectorPassInv(p)'
                      /\ \A t \in 1..Len(issued) : vector_pass_contains_token(p, t) => t = X
  BY <1>1
<1>4. WithinLimits(enumeration_passes')  BY DEF PassesInv
<1>5. UNCHANGED <<authority, channels>>  OBVIOUS
<1> HIDE <1>1
<1> QED  BY <1>2, <1>3, <1>4, <1>5, PassesReplaced, Zenon

\* The fields of a vector pass.
LEMMA VectorPassFields ==
  ASSUME NEW ch, NEW d, NEW c, NEW version, NEW current, NEW terminal, NEW retry, NEW q,
         q = VectorPassOf(ch, d, c, version, current, terminal, retry)
  PROVE  /\ q.channel = ch /\ q.document = d /\ q.capability = c /\ q.version = version
         /\ q.current = current /\ q.terminal = terminal /\ q.retry = retry
  BY DEF VectorPassOf

\* What a step leaves of a window that was captured.
LEMMA CapturedKept ==
  ASSUME TablesInv, TablesGrow, NEW d \in Documents, NEW terminal \in Nat,
         terminal <= Cardinality(Stored(d))
  PROVE  /\ terminal <= Cardinality(Stored(d)') /\ Stored(d) \subseteq Stored(d)'
         /\ \A version, a, n : (n \in Nat /\ n <= terminal) =>
              Lacking(d, version, a, n)' = Lacking(d, version, a, n)
<1>1. Cardinality(Stored(d)) \in Nat  BY Positions
<1>2. Cardinality(Stored(d)') \in Nat
  <2>1. IsFiniteSet(Stored(d)')
    <3>1. Stored(d)' \in SUBSET UpdateIds  BY DEF Stored
    <3> QED  BY <3>1, RecordAssumption, FS_Subset
  <2> QED  BY <2>1, FS_CardinalityType
<1>3. terminal <= Cardinality(Stored(d)') /\ Stored(d) \subseteq Stored(d)'
  BY <1>1, <1>2 DEF TablesGrow
<1>4. ASSUME NEW version, NEW a, NEW n, n \in Nat, n <= terminal
      PROVE  Lacking(d, version, a, n)' = Lacking(d, version, a, n)
  <2>1. n <= Cardinality(Stored(d))  BY <1>1, <1>4
  <2> QED  BY <1>4, <2>1 DEF TablesGrow
<1> QED  BY <1>3, <1>4

\* A vector pass that goes on, and the ticket of its token.
LEMMA NewVectorPass ==
  ASSUME TablesInv, TablesGrow, NEW ch, NEW d \in Documents, NEW c, NEW version, NEW T,
         NEW terminal \in Nat, NEW n \in Nat, n < terminal, terminal <= Cardinality(Stored(d)),
         NEW retry, NEW q,
         q = VectorPassOf(ch, d, c, version, [position |-> n, token |-> T], terminal, retry),
         [position |-> n, token |-> T] # Null,
         Live(q)', T \in 1..Len(issued'),
         issued'[T] = Ticket("Vector", ch, d, c, version, Count(Lacking(d, version, 0, n)), terminal),
         retry # Null => /\ retry.token # T
                         /\ TicketFor(retry.token, "Vector", q, version)'
                         /\ issued'[retry.token].answer = retry.response
  PROVE  VectorPassInv(q)' /\ TicketInv(issued[T])'
<1>1. /\ terminal <= Cardinality(Stored(d)')
      /\ Lacking(d, version, 0, n)' = Lacking(d, version, 0, n)
  BY CapturedKept
<1>2. PICK current : current = [position |-> n, token |-> T]  OBVIOUS
<1>3. current.position = n /\ current.token = T /\ current # Null  BY <1>2
<1>4. /\ q.channel = ch /\ q.document = d /\ q.capability = c /\ q.version = version
      /\ q.current = current /\ q.terminal = terminal /\ q.retry = retry
  BY <1>2, VectorPassFields
<1>5. Count(Lacking(d, version, 0, n))' = Count(Lacking(d, version, 0, n))  BY <1>1 DEF Count
<1>6. PICK k : k = issued'[T]  OBVIOUS
<1>7. /\ k.mode = "Vector" /\ k.channel = ch /\ k.document = d /\ k.capability = c
      /\ k.version = version /\ k.delivered = Count(Lacking(d, version, 0, n))'
      /\ k.captured = terminal /\ k.answer = Null
  BY <1>5, <1>6, TicketFields
<1>8. TicketFor(T, "Vector", q, version)'  BY <1>4, <1>6, <1>7 DEF TicketFor
<1>9. VectorPassInv(q)'
  BY <1>1, <1>3, <1>4, <1>6, <1>7, <1>8 DEF VectorPassInv
<1>10. VectorTicket(k)'
  <2>1. n \in 0..k.captured  BY <1>7
  <2> QED  BY <1>7, <2>1 DEF VectorTicket
<1>11. TicketInv(k)'  BY <1>1, <1>7, <1>10 DEF TicketInv
<1> QED  BY <1>6, <1>9, <1>11

\* Its types.
LEMMA NewVectorType ==
  ASSUME TablesInv, NEW ch \in Channels, NEW d \in Documents, NEW c \in Capabilities,
         NEW version \in Versions, NEW T \in 1..MAX_TOKENS,
         NEW terminal \in Nat, NEW n \in Nat, n > 0, n < terminal,
         terminal <= Cardinality(Stored(d)), NEW retry \in {Null} \cup VectorRetry, NEW S
  PROVE  /\ VectorPassOf(ch, d, c, version, [position |-> n, token |-> T], terminal, retry)
              \in VectorPass
         /\ [position |-> n, token |-> T] # Null
         /\ Ticket("Vector", ch, d, c, version, Count(S), terminal) \in Tickets
<1>1. /\ MAX_SEQUENCE \in Nat /\ Cardinality(Stored(d)) \in Nat
      /\ Cardinality(Stored(d)) < MAX_SEQUENCE
  BY Positions, UpdateConstants
<1>2. terminal \in 1..MAX_SEQUENCE /\ n \in 1..MAX_SEQUENCE  BY <1>1
<1>3. PICK current : current = [position |-> n, token |-> T]  OBVIOUS
<1>4. current \in VectorPosition  BY <1>2, <1>3 DEF VectorPosition
<1>5. current # Null  BY <1>4, NullIsNoValue
<1>6. VectorPassOf(ch, d, c, version, current, terminal, retry) \in VectorPass
  BY <1>2, <1>4 DEF VectorPassOf, VectorPass
<1>7. Ticket("Vector", ch, d, c, version, Count(S), terminal) \in Tickets
  <2>1. "Vector" \in Modes \cup {"Vector"} /\ version \in {Null} \cup Versions  OBVIOUS
  <2> QED  BY <1>2, <2>1, TicketType
<1> QED  BY <1>3, <1>5, <1>6, <1>7

\* A vector backfill from the origin keeps the invariant.
LEMMA VectorOriginKeepsPasses ==
  ASSUME PassesInv, TablesInv', TablesGrow, NEW ch \in Channels, NEW d \in Documents,
         NEW c \in Capabilities, NEW version \in Versions, VectorOrigin(ch, d, c, version)
  PROVE  PassesInv'
<1>1. PICK result : result = vector_from_origin(ch, d, c, version)  OBVIOUS
<1>2. /\ Len(issued) < MAX_TOKENS
      /\ vector_passes' = result.passes
      /\ issued' =
           IF Minted(result)
           THEN Append(issued,
                  Ticket("Vector", ch, d, c, version,
                         Count(result.response.updates), high_water_sequence_in(d)))
           ELSE issued
      /\ UNCHANGED <<authority, channels, enumeration_passes>>
  BY <1>1, Zenon DEF VectorOrigin
<1>3. PICK K, rest : /\ K = OtherBackfills(ch, d, c, version)
                     /\ rest = Lacking(d, version, 0, Cardinality(Stored(d)))
  OBVIOUS
<1>4. K \subseteq vector_passes  BY <1>3 DEF OtherBackfills
<1>5. TablesInv  BY DEF PassesInv
<1>6. VectorOriginCases(ch, d, c, version, result)  BY <1>1, <1>5, VectorOriginResult
<1>7. \/ result.outcome # "Authorized" /\ result.passes = vector_passes
      \/ result.outcome # "Authorized" /\ result.passes = K
      \/ result = Answered(EmptyResponse, vector_passes)
      \/ result = Answered(Response(FALSE, Null, rest), vector_passes)
      \/ /\ authorize_read(ch, d, c) = "Authorized" /\ Admits(K, ch, d, c)
         /\ \E n : /\ FirstScan(d, version, n) /\ n < Cardinality(Stored(d))
                   /\ result = Answered(Response(TRUE, mint_token, Lacking(d, version, 0, n)),
                                        K \cup {FirstVectorPass(ch, d, c, version, n)})
  BY <1>3, <1>6, Zenon DEF VectorOriginCases
<1>8. ASSUME ~Minted(result), result.passes \subseteq vector_passes  PROVE PassesInv'
  BY <1>2, <1>8, ReadKeepsPasses
<1>9. CASE result.outcome # "Authorized" /\ result.passes = vector_passes
  BY <1>8, <1>9 DEF Minted
<1>10. CASE result.outcome # "Authorized" /\ result.passes = K
  BY <1>4, <1>8, <1>10 DEF Minted
<1>11. ASSUME NEW S, NEW f, result = Answered(Response(f, Null, S), vector_passes)
       PROVE  PassesInv'
  <2>1. result.passes = vector_passes /\ result.response = Response(f, Null, S)
    BY <1>11 DEF Answered
  <2>2. result.response.next_cursor = Null  BY <2>1 DEF Response
  <2>3. mint_token # Null  BY IssuedType, UpdateConstants
  <2> QED  BY <1>8, <2>1, <2>2, <2>3 DEF Minted
<1>12. ASSUME authorize_read(ch, d, c) = "Authorized", Admits(K, ch, d, c), NEW n,
              FirstScan(d, version, n), n < Cardinality(Stored(d)),
              result = Answered(Response(TRUE, mint_token, Lacking(d, version, 0, n)),
                                K \cup {FirstVectorPass(ch, d, c, version, n)})
       PROVE  PassesInv'
  <2>1. PICK k \in Nat : k = Cardinality(Stored(d))  BY <1>5, Positions
  <2>2. n \in Nat /\ n > 0 /\ n < k /\ k <= Cardinality(Stored(d))
    BY <1>12, <2>1 DEF FirstScan
  <2>3. PICK T, f : T = mint_token /\ f = TRUE  OBVIOUS
  <2>4. PICK S : S = Lacking(d, version, 0, n)  OBVIOUS
  <2>5. PICK R : R = Response(f, T, S)  OBVIOUS
  <2>6. R.next_cursor = T /\ R.updates = S  BY <2>5 DEF Response
  <2>7. PICK q : q = FirstVectorPass(ch, d, c, version, n)  OBVIOUS
  <2>8. q = VectorPassOf(ch, d, c, version, [position |-> n, token |-> T], k, Null)
    BY <2>1, <2>3, <2>7, Zenon DEF FirstVectorPass
  <2>9. result = Answered(R, K \cup {q})  BY <1>12, <2>3, <2>4, <2>5, <2>7
  <2>10. result.outcome = "Authorized" /\ result.response = R /\ result.passes = K \cup {q}
    BY ONLY <2>9 DEF Answered
  <2>11. Minted(result)  BY <2>3, <2>6, <2>10 DEF Minted
  <2>12. high_water_sequence_in(d) = k  BY <1>5, <2>1, HighWater
  <2>13. PICK ticket :
           ticket = Ticket("Vector", ch, d, c, version, Count(Lacking(d, version, 0, n)), k)
    OBVIOUS
  <2>14. issued' = Append(issued, ticket)
    BY <1>2, <2>4, <2>6, <2>10, <2>11, <2>12, <2>13
  <2>15. /\ issued \in Seq(Tickets) /\ Len(issued) \in Nat /\ T \in 1..MAX_TOKENS
         /\ T \notin 1..Len(issued)
    BY <1>2, <2>3, IssuedType, UpdateConstants
  <2>16. q \in VectorPass /\ ticket \in Tickets /\ [position |-> n, token |-> T] # Null
    <3>1. Null \in {Null} \cup VectorRetry  OBVIOUS
    <3> QED  BY <1>5, <2>2, <2>8, <2>13, <2>15, <3>1, NewVectorType
  <2>17. /\ IssuedKept(0) /\ issued' \in Seq(Tickets) /\ Len(issued') <= MAX_TOKENS
         /\ T \in 1..Len(issued') /\ issued'[T] = ticket
         /\ \A t \in 1..Len(issued') : t \notin 1..Len(issued) => t = T
    BY <1>2, <2>3, <2>14, <2>15, <2>16, IssuedAppended
  <2>18. /\ q.channel = ch /\ q.document = d /\ q.capability = c /\ q.retry = Null
         /\ q.current.token = T
    BY <2>8, VectorPassFields
  <2>19. Live(q)'  BY <1>2, <1>12, <2>18, ReaderIsLive
  <2>20. VectorPassInv(q)' /\ TicketInv(issued[T])'
    <3>1. /\ T \in 1..Len(issued') /\ TablesInv /\ TablesGrow
          /\ issued'[T] = Ticket("Vector", ch, d, c, version, Count(Lacking(d, version, 0, n)), k)
          /\ [position |-> n, token |-> T] # Null /\ k \in Nat /\ d \in Documents
      BY <1>5, <2>1, <2>13, <2>16, <2>17
    <3> QED  BY ONLY <2>2, <2>8, <2>19, <3>1, NewVectorPass
  <2>21. \A t \in 1..Len(issued) : vector_pass_contains_token(q, t) => t = 0
    BY <2>15, <2>18 DEF vector_pass_contains_token
  <2>22. \A p \in K : ~vector_pass_contains_token(p, 0)
    BY <1>4, IssuedType DEF PassesInv, VectorPassInv, TicketFor, vector_pass_contains_token
  <2>23. \A p \in enumeration_passes : ~HasToken(p, 0)
    BY IssuedType DEF PassesInv, EnumerationPassInv, TicketFor, HasToken
  <2>24. WithinLimits(vector_passes')
    <3>1. WithinLimits(K)  BY <1>4, LimitsKept DEF PassesInv
    <3>2. WithinLimits(K \cup {q})  BY <1>12, <2>18, <3>1, LimitsAfterAdmission
    <3> QED  BY <1>2, <2>10, <3>2
  <2>25. \A t \in 1..Len(issued') : (t = 0 \/ t \notin 1..Len(issued)) => TicketInv(issued[t])'
    BY <2>17, <2>20
  <2>26. /\ vector_passes' = K \cup {q} /\ UNCHANGED <<authority, channels, enumeration_passes>>
         /\ PassesInv /\ TablesInv' /\ TablesGrow
         /\ IssuedKept(0) /\ issued' \in Seq(Tickets) /\ Len(issued') <= MAX_TOKENS
         /\ q \in VectorPass /\ VectorPassInv(q)'
    BY <1>2, <2>10, <2>16, <2>17, <2>20
  <2> QED  BY ONLY <1>4, <2>21, <2>22, <2>23, <2>24, <2>25, <2>26, VectorReplaced
<1>13. result = Answered(EmptyResponse, vector_passes) =>
         \E S, f : result = Answered(Response(f, Null, S), vector_passes)
  BY Zenon DEF EmptyResponse
<1>14. result = Answered(Response(FALSE, Null, rest), vector_passes) =>
         \E S, f : result = Answered(Response(f, Null, S), vector_passes)
  BY Zenon
<1> QED  BY <1>7, <1>9, <1>10, <1>11, <1>12, <1>13, <1>14
----------------------------------------------------------------------------
\* The pages of a vector backfill have the type of a response.
LEMMA ScanResponseType ==
  ASSUME NEW p, NEW n, NEW T, T \in 1..MAX_TOKENS, T = mint_token, NEW R, R = ScanResponse(p, n)
  PROVE  /\ R \in Responses /\ R.updates = Lacking(p.document, p.version, p.current.position, n)
         /\ R.has_more <=> n < p.terminal
         /\ R.next_cursor = IF n < p.terminal THEN T ELSE Null
<1>1. PICK f \in BOOLEAN : f = (n < p.terminal)  BY Less
<1>2. PICK S : S = Lacking(p.document, p.version, p.current.position, n)  OBVIOUS
<1>3. S \in SUBSET UpdateIds  BY <1>2 DEF Lacking, Window, Stored
<1>4. PICK x : x = IF n < p.terminal THEN T ELSE Null  OBVIOUS
<1>5. R = Response(f, x, S)  BY <1>1, <1>2, <1>4, Zenon DEF ScanResponse
<1>6. x \in {Null} \cup 1..MAX_TOKENS  BY <1>4
<1>7. R \in Responses /\ R.has_more = f /\ R.next_cursor = x /\ R.updates = S
  BY <1>3, <1>5, <1>6 DEF Response, Responses
<1> QED  BY <1>1, <1>2, <1>4, <1>7

\* A token of a vector backfill that is refused or retried.
LEMMA VectorTokenUnmoved ==
  ASSUME PassesInv, NEW token, NEW result,
         \/ result.outcome # "Authorized" /\ result.passes = vector_passes
         \/ \E p \in vector_passes :
              p.retry # Null /\ result = Answered(p.retry.response, vector_passes)
  PROVE  ~Minted(result) /\ Exchanged(token, result, vector_passes) = issued
<1>1. CASE result.outcome # "Authorized" /\ result.passes = vector_passes
  BY <1>1 DEF Minted, Exchanged
<1>2. ASSUME NEW p \in vector_passes, p.retry # Null,
             result = Answered(p.retry.response, vector_passes)
      PROVE  ~Minted(result) /\ Exchanged(token, result, vector_passes) = issued
  <2>1. PICK R : R = p.retry.response  OBVIOUS
  <2>2. p.retry \in VectorRetry  BY <1>2, VectorPassType
  <2>3. R \in Responses /\ R # Null  BY <2>1, <2>2, NullIsNoValue DEF VectorRetry
  <2>4. p.retry.token \in 1..Len(issued) /\ issued[p.retry.token].answer = R
    BY <1>2, <2>1 DEF PassesInv, VectorPassInv, TicketFor
  <2>5. R.next_cursor # mint_token  BY <2>3, <2>4, KeptAnswerMintsNothing
  <2>6. result.response = R /\ result.passes = vector_passes  BY <1>2, <2>1 DEF Answered
  <2> QED  BY <2>5, <2>6 DEF Minted, Exchanged
<1> QED  BY <1>1, <1>2

\* What is known of a vector pass whose token is exchanged for the next scan.
Scanned(p, n, R, token, q) ==
  /\ p \in vector_passes /\ p.current # Null /\ token = p.current.token
  /\ NextScan(p, n) /\ R = ScanResponse(p, n) /\ q = ScannedPass(p, n)
  /\ vector_passes' = (vector_passes \ {p}) \cup {q}
  /\ Len(issued) < MAX_TOKENS /\ UNCHANGED <<authority, channels, enumeration_passes>>

\* Of it and its token.
LEMMA ScannedToken ==
  ASSUME PassesInv, NEW p, NEW n, NEW R, NEW token, NEW q, Scanned(p, n, R, token, q)
  PROVE  /\ p.channel \in Channels /\ p.document \in Documents /\ p.capability \in Capabilities
         /\ p.version \in Versions /\ p.current.position \in Nat /\ p.terminal \in Nat
         /\ n \in Nat /\ p.current.position < n /\ n <= p.terminal /\ n > 0
         /\ p.terminal <= Cardinality(Stored(p.document))
         /\ Live(p) /\ TicketFor(token, "Vector", p, p.version)
         /\ issued[token].answer = Null /\ issued[token].captured = p.terminal
         /\ issued[token].delivered = Count(Lacking(p.document, p.version, 0, p.current.position))
         /\ mint_token \in 1..MAX_TOKENS /\ mint_token \notin 1..Len(issued)
         /\ R \in Responses
         /\ R.updates = Lacking(p.document, p.version, p.current.position, n)
         /\ R.has_more <=> n < p.terminal
         /\ R.next_cursor = IF n < p.terminal THEN mint_token ELSE Null
<1>1. p \in vector_passes /\ VectorPassInv(p)  BY DEF Scanned, PassesInv
<1>2. /\ p.channel \in Channels /\ p.document \in Documents /\ p.capability \in Capabilities
      /\ p.version \in Versions /\ p.current.position \in Nat /\ p.terminal \in Nat
  BY <1>1, VectorPassType DEF Scanned
<1>3. n \in Nat /\ p.current.position < n /\ n <= p.terminal  BY DEF Scanned, NextScan
<1>4. n > 0  BY <1>2, <1>3
<1>5. /\ p.terminal <= Cardinality(Stored(p.document))
      /\ Live(p) /\ TicketFor(token, "Vector", p, p.version)
      /\ issued[token].answer = Null /\ issued[token].captured = p.terminal
      /\ issued[token].delivered = Count(Lacking(p.document, p.version, 0, p.current.position))
  BY <1>1 DEF Scanned, VectorPassInv
<1>6. mint_token \in 1..MAX_TOKENS /\ mint_token \notin 1..Len(issued)
  BY IssuedType, UpdateConstants DEF Scanned
<1>7. R = ScanResponse(p, n)  BY DEF Scanned
<1>8. /\ R \in Responses
      /\ R.updates = Lacking(p.document, p.version, p.current.position, n)
      /\ R.has_more <=> n < p.terminal
      /\ R.next_cursor = IF n < p.terminal THEN mint_token ELSE Null
  BY <1>6, <1>7, ScanResponseType
<1> QED  BY <1>2, <1>3, <1>4, <1>5, <1>6, <1>8

\* The other passes do not know the token.
LEMMA ScannedOthers ==
  ASSUME PassesInv, NEW p, NEW n, NEW R, NEW token, NEW q, Scanned(p, n, R, token, q)
  PROVE  /\ \A x \in vector_passes \ {p} : ~vector_pass_contains_token(x, token)
         /\ \A x \in enumeration_passes : ~HasToken(x, token)
<1>1. /\ p \in vector_passes /\ p.current # Null /\ p.current.token = token
      /\ TicketFor(token, "Vector", p, p.version)
  BY ScannedToken DEF Scanned
<1>2. token \in 1..Len(issued) /\ issued[token].mode = "Vector"  BY <1>1 DEF TicketFor
<1>3. vector_pass_contains_token(p, token)  BY <1>1 DEF vector_pass_contains_token
<1>4. \A x \in vector_passes \ {p} : ~vector_pass_contains_token(x, token)
  BY <1>1, <1>2, <1>3 DEF PassesInv, TokensUnique
<1>5. ASSUME NEW x \in enumeration_passes, HasToken(x, token)  PROVE FALSE
  <2>1. issued[token].mode \in Modes
    <3>1. x.current.mode \in Modes /\ (x.retry # Null => x.retry \in EnumerationRetry)
      BY EnumerationPassType
    <3>2. x.retry # Null => x.retry.mode \in Modes  BY <3>1 DEF EnumerationRetry
    <3> QED  BY <1>5, <3>1, <3>2 DEF PassesInv, EnumerationPassInv, TicketFor, HasToken
  <2>2. "Continue" # "Vector" /\ "AfterTail" # "Vector"  OBVIOUS
  <2> QED  BY <1>2, <2>1, <2>2 DEF Modes
<1> QED  BY <1>4, <1>5

\* The ticket of the token that was exchanged for a scan.
LEMMA ScannedTicket ==
  ASSUME PassesInv, TablesGrow, NEW p, NEW n, NEW R, NEW token, NEW q,
         Scanned(p, n, R, token, q), NEW x, x = ExchangedFor(token, R)[token],
         R.next_cursor \in {Null} \cup 1..Len(issued')
  PROVE  TicketInv(x)'
<1>1. PICK d, version, a, b :
        d = p.document /\ version = p.version /\ a = p.current.position /\ b = p.terminal
  OBVIOUS
<1>2. /\ d \in Documents /\ a \in Nat /\ b \in Nat /\ n \in Nat /\ a < n /\ n <= b
      /\ b <= Cardinality(Stored(d)) /\ TicketFor(token, "Vector", p, version)
      /\ issued[token].captured = b /\ R \in Responses
      /\ issued[token].delivered = Count(Lacking(d, version, 0, a))
      /\ R.updates = Lacking(d, version, a, n) /\ (R.has_more <=> n < b)
  BY <1>1, ScannedToken
<1>3. PICK base : base = ExchangedFor(token, R)  OBVIOUS
<1>4. /\ x.answer = R /\ x.mode = "Vector" /\ x.document = d /\ x.version = version
      /\ x.delivered = Count(Lacking(d, version, 0, a)) /\ x.captured = b
  <2>1. token \in 1..Len(issued) /\ R \in Responses /\ base = ExchangedFor(token, R) /\ PassesInv
    BY <1>2, <1>3 DEF TicketFor
  <2>2. /\ base[token].answer = R /\ base[token].mode = issued[token].mode
        /\ base[token].document = issued[token].document
        /\ base[token].version = issued[token].version
        /\ base[token].delivered = issued[token].delivered
        /\ base[token].captured = issued[token].captured
    BY ONLY <2>1, IssuedExchanged
  <2> QED  BY <1>1, <1>2, <1>3, <2>2 DEF TicketFor
<1>5. TablesInv  BY DEF PassesInv
<1>6. /\ b <= Cardinality(Stored(d)')
      /\ Lacking(d, version, 0, a)' = Lacking(d, version, 0, a)
      /\ Lacking(d, version, a, b)' = Lacking(d, version, a, b)
  <2>1. a <= b /\ b <= b  BY <1>2
  <2> QED  BY <1>2, <1>5, <2>1, CapturedKept
<1>7. Count(Lacking(d, version, 0, a))' = Count(Lacking(d, version, 0, a))  BY <1>6 DEF Count
<1>8. ~R.has_more => R.updates = Lacking(d, version, a, b)  BY <1>2
<1>9. VectorTicket(x)'
  <2>1. a \in 0..x.captured  BY <1>2, <1>4
  <2> QED  BY <1>4, <1>6, <1>7, <1>8, <2>1 DEF VectorTicket
<1> QED  BY <1>4, <1>6, <1>9 DEF TicketInv

\* A token of a vector backfill that is exchanged for a scan with more to come.
LEMMA VectorAdvances ==
  ASSUME PassesInv, TablesInv', TablesGrow, NEW p, NEW n, NEW R, NEW token, NEW q,
         Scanned(p, n, R, token, q), n < p.terminal,
         issued' = Append(ExchangedFor(token, R),
                     Ticket("Vector", p.channel, p.document, p.capability, p.version,
                            Add(issued[token].delivered, R.updates), issued[token].captured))
  PROVE  PassesInv'
<1>1. PICK ch, d, c, version, a, b, T :
        /\ ch = p.channel /\ d = p.document /\ c = p.capability /\ version = p.version
        /\ a = p.current.position /\ b = p.terminal /\ T = mint_token
  OBVIOUS
<1>2. /\ ch \in Channels /\ d \in Documents /\ c \in Capabilities /\ version \in Versions
      /\ a \in Nat /\ b \in Nat /\ n \in Nat /\ a < n /\ n < b /\ n > 0
      /\ b <= Cardinality(Stored(d)) /\ Live(p) /\ TicketFor(token, "Vector", p, version)
      /\ issued[token].captured = b /\ issued[token].delivered = Count(Lacking(d, version, 0, a))
      /\ T \in 1..MAX_TOKENS /\ T \notin 1..Len(issued)
      /\ R \in Responses /\ R.updates = Lacking(d, version, a, n) /\ R.next_cursor = T
  BY <1>1, ScannedToken
<1>3. /\ p \in vector_passes /\ p.current # Null /\ token = p.current.token
      /\ vector_passes' = (vector_passes \ {p}) \cup {q} /\ q = ScannedPass(p, n)
      /\ R = ScanResponse(p, n)
      /\ Len(issued) < MAX_TOKENS /\ UNCHANGED <<authority, channels, enumeration_passes>>
  BY DEF Scanned
<1>4. token \in 1..Len(issued)  BY <1>2 DEF TicketFor
<1>5. TablesInv  BY DEF PassesInv
<1>6. Add(issued[token].delivered, R.updates) = Count(Lacking(d, version, 0, n))
  <2>1. /\ Lacking(d, version, 0, a) \cap Lacking(d, version, a, n) = {}
        /\ Lacking(d, version, 0, a) \cup Lacking(d, version, a, n) = Lacking(d, version, 0, n)
    <3>1. a <= n  BY <1>2
    <3> QED  BY <1>2, <1>5, <3>1, LackingParts
  <2>2. Add(Count(Lacking(d, version, 0, a)), Lacking(d, version, a, n)) =
          Count(Lacking(d, version, 0, a) \cup Lacking(d, version, a, n))
    BY <2>1, CountsAdd
  <2> QED  BY <1>2, <2>1, <2>2
<1>7. PICK base, ticket :
        /\ base = ExchangedFor(token, R)
        /\ ticket = Ticket("Vector", ch, d, c, version, Count(Lacking(d, version, 0, n)), b)
  OBVIOUS
<1>8. issued' = Append(base, ticket)  BY <1>1, <1>2, <1>6, <1>7
<1>9. PICK retry : retry = [response |-> R, token |-> token]  OBVIOUS
<1>10. Len(issued) \in Nat /\ MAX_TOKENS \in Nat  BY IssuedType, UpdateConstants
<1>11. retry.response = R /\ retry.token = token /\ retry \in VectorRetry
  BY <1>2, <1>3, <1>4, <1>9, <1>10 DEF VectorRetry
<1>12. q = VectorPassOf(ch, d, c, version, [position |-> n, token |-> T], b, retry)
  <2>1. (IF n < p.terminal THEN [position |-> n, token |-> mint_token] ELSE Null)
          = [position |-> n, token |-> T]
    BY <1>1, Zenon
  <2> QED  BY <1>1, <1>3, <1>9, <2>1, Zenon DEF ScannedPass
<1>13. /\ q \in VectorPass /\ ticket \in Tickets /\ [position |-> n, token |-> T] # Null
  BY <1>2, <1>5, <1>7, <1>11, <1>12, NewVectorType
<1>14. /\ base \in Seq(Tickets) /\ Len(base) = Len(issued)
       /\ \A t \in 1..Len(issued) : t # token => base[t] = issued[t]
       /\ base[token].answer = R /\ base[token].mode = issued[token].mode
       /\ base[token].channel = issued[token].channel
       /\ base[token].document = issued[token].document
       /\ base[token].capability = issued[token].capability
       /\ base[token].version = issued[token].version
  <2>1. token \in 1..Len(issued) /\ R \in Responses /\ base = ExchangedFor(token, R) /\ PassesInv
    BY <1>2, <1>4, <1>7
  <2> QED  BY ONLY <2>1, IssuedExchanged
<1>15. /\ IssuedKept(token) /\ issued' \in Seq(Tickets) /\ Len(issued') = T
       /\ Len(issued') <= MAX_TOKENS /\ T \in 1..Len(issued') /\ issued'[T] = ticket
       /\ \A t \in 1..Len(issued) : issued'[t] = base[t]
       /\ \A t \in 1..Len(issued') : t \notin 1..Len(issued) => t = T
  <2>1. /\ base \in Seq(Tickets) /\ Len(base) = Len(issued)
        /\ \A t \in 1..Len(issued) : t # token => base[t] = issued[t]
        /\ ticket \in Tickets /\ PassesInv /\ Len(issued) < MAX_TOKENS
        /\ issued' = Append(base, ticket)
    BY <1>3, <1>8, <1>13, <1>14
  <2>2. /\ IssuedKept(token) /\ issued' \in Seq(Tickets)
        /\ Len(issued') = mint_token /\ mint_token <= MAX_TOKENS
        /\ mint_token \in 1..Len(issued') /\ issued'[mint_token] = ticket
        /\ \A t \in 1..Len(issued) : issued'[t] = base[t]
        /\ \A t \in 1..Len(issued') : t \notin 1..Len(issued) => t = mint_token
    BY ONLY <2>1, IssuedAppended
  <2> QED  BY <1>1, <2>2
<1>16. /\ q.channel = ch /\ q.document = d /\ q.capability = c /\ q.version = version
       /\ q.retry = retry /\ q.current.token = T
  BY <1>12, VectorPassFields
<1>17. Live(q)'
  BY <1>1, <1>2, <1>3, <1>16 DEF authority, Live, authorize, authorize_document
<1>18. token \in 1..Len(issued') /\ issued'[token] = base[token]
  BY <1>4, <1>10, <1>15 DEF IssuedKept
<1>19. VectorPassInv(q)' /\ TicketInv(issued[T])'
  <2>1. TicketFor(retry.token, "Vector", q, version)'
    <3>1. TicketFor(token, "Vector", q, version)'
      BY <1>1, <1>2, <1>14, <1>16, <1>18 DEF TicketFor
    <3> QED  BY <1>11, <3>1
  <2>2. /\ TablesInv /\ TablesGrow /\ T \in 1..Len(issued') /\ d \in Documents
        /\ b \in Nat /\ n \in Nat /\ n < b /\ b <= Cardinality(Stored(d))
        /\ [position |-> n, token |-> T] # Null
        /\ retry # Null => /\ retry.token # T
                          /\ TicketFor(retry.token, "Vector", q, version)'
                          /\ issued'[retry.token].answer = retry.response
    BY <1>2, <1>4, <1>5, <1>11, <1>13, <1>14, <1>15, <1>18, <2>1
  <2>3. issued'[T] = Ticket("Vector", ch, d, c, version, Count(Lacking(d, version, 0, n)), b)
    BY <1>7, <1>15
  <2> QED  BY ONLY <1>12, <1>17, <2>2, <2>3, NewVectorPass
<1>20. TicketInv(issued[token])'
  <2>1. PICK x : x = base[token]  OBVIOUS
  <2>2. /\ x = ExchangedFor(token, R)[token] /\ R.next_cursor \in {Null} \cup 1..Len(issued')
        /\ PassesInv /\ TablesGrow /\ Scanned(p, n, R, token, q)
    BY <1>2, <1>7, <1>15, <2>1
  <2>3. TicketInv(x)'  BY ONLY <2>2, ScannedTicket
  <2> QED  BY <1>18, <2>1, <2>3
<1>21. \A t \in 1..Len(issued') : (t = token \/ t \notin 1..Len(issued)) => TicketInv(issued[t])'
  BY <1>15, <1>19, <1>20
<1>22. \A t \in 1..Len(issued) : vector_pass_contains_token(q, t) => t = token
  BY <1>2, <1>11, <1>16 DEF vector_pass_contains_token
<1>23. PICK V : V = vector_passes \ {p}  OBVIOUS
<1>24. /\ V \subseteq vector_passes /\ vector_passes' = V \cup {q}
       /\ \A x \in V : ~vector_pass_contains_token(x, token)
       /\ \A x \in enumeration_passes : ~HasToken(x, token)
  BY <1>3, <1>23, ScannedOthers
<1>25. WithinLimits(vector_passes')
  <2>1. q.channel = p.channel /\ q.document = p.document /\ q.capability = p.capability
    BY <1>1, <1>16
  <2>2. WithinLimits(vector_passes)  BY DEF PassesInv
  <2>3. WithinLimits((vector_passes \ {p}) \cup {q})
    BY <1>3, <2>1, <2>2, LimitsAfterAdvance, Zenon
  <2> QED  BY <1>3, <2>3
<1>26. /\ PassesInv /\ TablesInv' /\ TablesGrow
       /\ UNCHANGED <<authority, channels, enumeration_passes>>
       /\ IssuedKept(token) /\ issued' \in Seq(Tickets) /\ Len(issued') <= MAX_TOKENS
       /\ q \in VectorPass /\ VectorPassInv(q)'
  BY <1>3, <1>13, <1>15, <1>19
<1> QED  BY ONLY <1>21, <1>22, <1>24, <1>25, <1>26, VectorReplaced

\* A token of a vector backfill that is exchanged for the last scan.
LEMMA VectorEnds ==
  ASSUME PassesInv, TablesInv', TablesGrow, NEW p, NEW n, NEW R, NEW token, NEW q,
         Scanned(p, n, R, token, q), ~(n < p.terminal), issued' = ExchangedFor(token, R)
  PROVE  PassesInv'
<1>1. PICK ch, d, c, version, a, b :
        /\ ch = p.channel /\ d = p.document /\ c = p.capability /\ version = p.version
        /\ a = p.current.position /\ b = p.terminal
  OBVIOUS
<1>2. /\ ch \in Channels /\ d \in Documents /\ c \in Capabilities /\ version \in Versions
      /\ a \in Nat /\ b \in Nat /\ n \in Nat /\ a < n /\ n > 0 /\ n <= b
      /\ b <= Cardinality(Stored(d)) /\ Live(p) /\ TicketFor(token, "Vector", p, version)
      /\ R \in Responses /\ R.updates = Lacking(d, version, a, n) /\ R.next_cursor = Null
      /\ ~R.has_more
  BY <1>1, ScannedToken
<1>3. /\ p \in vector_passes /\ p.current # Null /\ token = p.current.token
      /\ vector_passes' = (vector_passes \ {p}) \cup {q} /\ q = ScannedPass(p, n)
      /\ R = ScanResponse(p, n) /\ NextScan(p, n)
      /\ Len(issued) < MAX_TOKENS /\ UNCHANGED <<authority, channels, enumeration_passes>>
  BY DEF Scanned
<1>4. token \in 1..Len(issued)  BY <1>2 DEF TicketFor
<1>5. TablesInv  BY DEF PassesInv
<1>6. PICK base : base = ExchangedFor(token, R)  OBVIOUS
<1>7. /\ base \in Seq(Tickets) /\ Len(base) = Len(issued)
      /\ \A t \in 1..Len(issued) : t # token => base[t] = issued[t]
      /\ base[token].answer = R /\ base[token].mode = issued[token].mode
      /\ base[token].channel = issued[token].channel
      /\ base[token].document = issued[token].document
      /\ base[token].capability = issued[token].capability
      /\ base[token].version = issued[token].version
  <2>1. token \in 1..Len(issued) /\ R \in Responses /\ base = ExchangedFor(token, R) /\ PassesInv
    BY <1>2, <1>4, <1>6
  <2> QED  BY ONLY <2>1, IssuedExchanged
<1>8. Len(issued) \in Nat /\ MAX_TOKENS \in Nat  BY IssuedType, UpdateConstants
<1>9. /\ IssuedKept(token) /\ issued' \in Seq(Tickets) /\ Len(issued') <= MAX_TOKENS
      /\ Len(issued') = Len(issued) /\ issued' = base
  BY <1>3, <1>6, <1>7, <1>8 DEF IssuedKept
<1>10. PICK retry : retry = [response |-> R, token |-> token]  OBVIOUS
<1>11. retry.response = R /\ retry.token = token /\ retry \in VectorRetry /\ retry # Null
  BY <1>2, <1>3, <1>4, <1>8, <1>10, NullIsNoValue DEF VectorRetry
<1>12. q = VectorPassOf(ch, d, c, version, Null, b, retry)
  <2>1. (IF n < p.terminal THEN [position |-> n, token |-> mint_token] ELSE Null) = Null
    BY Zenon
  <2> QED  BY <1>1, <1>3, <1>10, <2>1, Zenon DEF ScannedPass
<1>13. /\ q.channel = ch /\ q.document = d /\ q.capability = c /\ q.version = version
       /\ q.current = Null /\ q.terminal = b /\ q.retry = retry
  BY <1>12, VectorPassFields
<1>14. q \in VectorPass
  <2>1. /\ MAX_SEQUENCE \in Nat /\ Cardinality(Stored(d)) \in Nat
        /\ Cardinality(Stored(d)) < MAX_SEQUENCE
    BY <1>2, <1>5, Positions, UpdateConstants
  <2>2. b \in 1..MAX_SEQUENCE  BY <1>2, <2>1
  <2> QED  BY <1>2, <1>11, <1>12, <2>2 DEF VectorPassOf, VectorPass
<1>15. Live(q)'
  BY <1>1, <1>2, <1>3, <1>13 DEF authority, Live, authorize, authorize_document
<1>16. VectorPassInv(q)'
  <2>1. b <= Cardinality(Stored(d)') /\ Stored(d) \subseteq Stored(d)'
    BY <1>2, <1>5, CapturedKept
  <2>2. PICK S : S = R.updates  OBVIOUS
  <2>3. S \in SUBSET Stored(d)  BY <1>2, <2>2 DEF Lacking, Window
  <2>4. Fits(d, S)  BY <1>1, <1>2, <1>3, <2>2 DEF NextScan
  <2>5. S \subseteq Stored(d)' /\ Fits(d, S)'  BY <1>2, <2>1, <2>3, <2>4 DEF TablesGrow
  <2>6. TicketFor(token, "Vector", q, version)'
    BY <1>1, <1>2, <1>4, <1>7, <1>9, <1>13 DEF TicketFor
  <2>7. issued'[token].answer = R  BY <1>7, <1>9
  <2>8. R.has_more \in BOOLEAN  BY <1>2 DEF Responses
  <2>9. R.has_more = FALSE  BY <1>2, <2>8
  <2>10. /\ q.retry.token = token /\ q.retry.response = R  BY <1>11, <1>13
  <2>11. /\ q.retry.response.has_more = FALSE /\ q.retry.response.next_cursor = Null
         /\ q.retry.response.updates = S
    BY <1>2, <2>2, <2>9, <2>10, Zenon
  <2>12. /\ q.retry.response.updates \subseteq Stored(q.document)'
         /\ Fits(q.document, q.retry.response.updates)'
    BY <1>13, <2>5, <2>11
  <2>13. TicketFor(q.retry.token, "Vector", q, q.version)'
    BY <1>13, <2>6, <2>10
  <2>14. issued'[q.retry.token].answer = q.retry.response  BY <2>7, <2>10
  <2>15. q.terminal <= Cardinality(Stored(q.document)')  BY <1>13, <2>1
  <2> QED
    BY ONLY <1>11, <1>13, <1>15, <2>11, <2>12, <2>13, <2>14, <2>15, Zenon DEF VectorPassInv
<1>17. TicketInv(issued[token])'
  <2>1. PICK x : x = base[token]  OBVIOUS
  <2>2. /\ x = ExchangedFor(token, R)[token] /\ R.next_cursor \in {Null} \cup 1..Len(issued')
        /\ PassesInv /\ TablesGrow /\ Scanned(p, n, R, token, q)
    BY <1>2, <1>6, <2>1
  <2>3. TicketInv(x)'  BY ONLY <2>2, ScannedTicket
  <2>4. issued'[token] = x  BY <1>9, <2>1
  <2> QED  BY <2>3, <2>4
<1>18. \A t \in 1..Len(issued') : (t = token \/ t \notin 1..Len(issued)) => TicketInv(issued[t])'
  BY <1>9, <1>17
<1>19. \A t \in 1..Len(issued) : vector_pass_contains_token(q, t) => t = token
  BY <1>11, <1>13 DEF vector_pass_contains_token
<1>20. PICK V : V = vector_passes \ {p}  OBVIOUS
<1>21. /\ V \subseteq vector_passes /\ vector_passes' = V \cup {q}
       /\ \A x \in V : ~vector_pass_contains_token(x, token)
       /\ \A x \in enumeration_passes : ~HasToken(x, token)
  BY <1>3, <1>20, ScannedOthers
<1>22. WithinLimits(vector_passes')
  <2>1. q.channel = p.channel /\ q.document = p.document /\ q.capability = p.capability
    BY <1>1, <1>13
  <2>2. WithinLimits(vector_passes)  BY DEF PassesInv
  <2>3. WithinLimits((vector_passes \ {p}) \cup {q})
    BY <1>3, <2>1, <2>2, LimitsAfterAdvance, Zenon
  <2> QED  BY <1>3, <2>3
<1>23. /\ PassesInv /\ TablesInv' /\ TablesGrow
       /\ UNCHANGED <<authority, channels, enumeration_passes>>
       /\ IssuedKept(token) /\ issued' \in Seq(Tickets) /\ Len(issued') <= MAX_TOKENS
       /\ q \in VectorPass /\ VectorPassInv(q)'
  BY <1>3, <1>9, <1>14, <1>16
<1> QED  BY ONLY <1>18, <1>19, <1>21, <1>22, <1>23, VectorReplaced

\* A continuation of a vector backfill keeps the invariant.
LEMMA VectorTokenKeepsPasses ==
  ASSUME PassesInv, TablesInv', TablesGrow, NEW ch \in Channels, NEW d \in Documents,
         NEW c \in Capabilities, NEW version \in Versions, NEW token,
         VectorToken(ch, d, c, version, token)
  PROVE  PassesInv'
<1>1. PICK result : result = vector_from_token(ch, d, c, version, token)  OBVIOUS
<1>2. /\ Presentable(token)
      /\ vector_passes' = result.passes
      /\ issued' =
           IF Minted(result)
           THEN Append(Exchanged(token, result, vector_passes),
                  Ticket("Vector", ch, d, c, version,
                         Add(issued[token].delivered, result.response.updates),
                         issued[token].captured))
           ELSE Exchanged(token, result, vector_passes)
      /\ UNCHANGED <<authority, channels, enumeration_passes>>
  BY <1>1, Zenon DEF VectorToken
<1>3. VectorTokenCases(ch, d, c, version, token, result)  BY <1>1, VectorTokenResult
<1>4. \/ \/ result.outcome # "Authorized" /\ result.passes = vector_passes
         \/ \E p \in vector_passes :
              p.retry # Null /\ result = Answered(p.retry.response, vector_passes)
      \/ \E p \in vector_passes :
           /\ SameAuthority(p, ch, d, c) /\ p.version = version
           /\ p.current # Null /\ p.current.token = token
           /\ \E n : /\ NextScan(p, n)
                     /\ result = Answered(ScanResponse(p, n),
                                          (vector_passes \ {p}) \cup {ScannedPass(p, n)})
  BY <1>3, Zenon DEF VectorTokenCases
<1>5. ASSUME \/ result.outcome # "Authorized" /\ result.passes = vector_passes
             \/ \E p \in vector_passes :
                  p.retry # Null /\ result = Answered(p.retry.response, vector_passes)
      PROVE  PassesInv'
  <2>1. ~Minted(result) /\ Exchanged(token, result, vector_passes) = issued
    BY <1>5, VectorTokenUnmoved
  <2>2. result.passes = vector_passes  BY <1>5 DEF Answered
  <2> QED  BY <1>2, <2>1, <2>2, ReadKeepsPasses
<1>6. ASSUME NEW p \in vector_passes, SameAuthority(p, ch, d, c), p.version = version,
             p.current # Null, p.current.token = token, NEW n, NextScan(p, n),
             result = Answered(ScanResponse(p, n), (vector_passes \ {p}) \cup {ScannedPass(p, n)})
      PROVE  PassesInv'
  <2>1. PICK R, q : R = ScanResponse(p, n) /\ q = ScannedPass(p, n)  OBVIOUS
  <2>2. /\ result.outcome = "Authorized" /\ result.response = R
        /\ result.passes = (vector_passes \ {p}) \cup {q}
    BY <1>6, <2>1 DEF Answered
  <2>3. Scanned(p, n, R, token, q)
    BY <1>2, <1>6, <2>1, <2>2 DEF Scanned, Presentable
  <2>4. /\ mint_token \notin 1..Len(issued) /\ mint_token # Null
        /\ R.next_cursor = IF n < p.terminal THEN mint_token ELSE Null
        /\ TicketFor(token, "Vector", p, p.version) /\ issued[token].answer = Null
    BY <2>3, ScannedToken, IssuedType, UpdateConstants
  <2>5. Minted(result) <=> n < p.terminal  BY <2>2, <2>4 DEF Minted
  <2>6. q \notin vector_passes
    <3>1. PICK retry, current :
            /\ retry = [response |-> R, token |-> token]
            /\ current = IF n < p.terminal THEN [position |-> n, token |-> mint_token] ELSE Null
      OBVIOUS
    <3>2. q = VectorPassOf(p.channel, p.document, p.capability, p.version, current, p.terminal, retry)
      BY <1>6, <2>1, <3>1, Zenon DEF ScannedPass
    <3>3. q.retry = retry /\ q.current = current  BY <3>2, VectorPassFields
    <3>4. CASE n < p.terminal
      <4>1. q.current.token = mint_token  BY <3>1, <3>3, <3>4
      <4>2. ASSUME q \in vector_passes  PROVE FALSE
        <5>1. q.current # Null => q.current.token \in 1..Len(issued)
          BY <4>2 DEF PassesInv, VectorPassInv, TicketFor
        <5>2. q.current = Null  BY <2>4, <4>1, <5>1
        <5>3. p.current.position \in Nat /\ n \in Nat /\ p.terminal \in Nat /\ n > 0
              /\ p.document \in Documents
              /\ p.terminal <= Cardinality(Stored(p.document)) /\ mint_token \in 1..MAX_TOKENS
          BY <2>3, ScannedToken
        <5>4. MAX_SEQUENCE \in Nat /\ p.terminal < MAX_SEQUENCE
          BY <5>3, Positions, UpdateConstants DEF PassesInv
        <5>5. n \in 1..MAX_SEQUENCE  BY <3>4, <5>3, <5>4
        <5>6. current \in VectorPosition  BY <3>1, <3>4, <5>3, <5>5 DEF VectorPosition
        <5> QED  BY <3>3, <5>2, <5>6, NullIsNoValue
      <4> QED  BY <4>2
    <3>5. CASE ~(n < p.terminal)
      <4>1. q.current = Null  BY <3>1, <3>3, <3>5
      <4>2. ASSUME q \in vector_passes  PROVE FALSE
        <5>1. q # p  BY <1>6, <4>1
        <5>2. vector_pass_contains_token(q, token)
          <6>1. q.retry # Null  BY <4>1, <4>2 DEF PassesInv, VectorPassInv
          <6>2. q.retry.token = token  BY <3>1, <3>3
          <6> QED  BY <6>1, <6>2 DEF vector_pass_contains_token
        <5> QED  BY <2>3, <4>2, <5>1, <5>2, ScannedOthers
      <4> QED  BY <4>2
    <3> QED  BY <3>4, <3>5
  <2>7. result.passes # vector_passes  BY <2>2, <2>6
  <2>8. Exchanged(token, result, vector_passes) = ExchangedFor(token, R)
    BY <2>2, <2>4, <2>7 DEF Exchanged, ExchangedFor
  <2>9. p.channel = ch /\ p.document = d /\ p.capability = c  BY <1>6 DEF SameAuthority
  <2>10. CASE n < p.terminal
    <3>1. issued' = Append(ExchangedFor(token, R),
                     Ticket("Vector", p.channel, p.document, p.capability, p.version,
                            Add(issued[token].delivered, R.updates), issued[token].captured))
      BY <1>2, <1>6, <2>2, <2>5, <2>8, <2>9, <2>10, Zenon
    <3> QED  BY <2>3, <2>10, <3>1, VectorAdvances
  <2>11. CASE ~(n < p.terminal)
    <3>1. issued' = ExchangedFor(token, R)  BY <1>2, <2>5, <2>8, <2>11, Zenon
    <3> QED  BY <2>3, <2>11, <3>1, VectorEnds
  <2> QED  BY <2>10, <2>11
<1> QED  BY <1>4, <1>5, <1>6
----------------------------------------------------------------------------
\* The store starts without passes and tokens.
LEMMA PassesInit == Init => PassesInv
<1> SUFFICES ASSUME Init PROVE PassesInv
  OBVIOUS
<1>1. TablesInv  BY TablesInit
<1>2. /\ enumeration_passes = {} /\ vector_passes = {} /\ issued = <<>>
      /\ revoked = {} /\ retired = {} /\ channels = Channels
  BY DEF Init
<1>3. issued \in Seq(Tickets) /\ Len(issued) = 0 /\ MAX_TOKENS \in Nat
  BY <1>2, UpdateConstants
<1>4. PassesType  BY <1>2, <1>3 DEF PassesType
<1>5. TypeOK  BY <1>1, <1>4, TypeParts
<1>6. WithinLimits({})
  <2>1. IsFiniteSet({}) /\ Cardinality({}) = 0  BY FS_EmptySet
  <2>2. /\ \A ch : {p \in {} : p.channel = ch} = {}
        /\ \A d : {p \in {} : p.document = d} = {}
        /\ \A d, c : {p \in {x \in {} : x.document = d} : p.capability = c} = {}
    OBVIOUS
  <2>3. /\ 0 <= MAX_PASSES /\ 0 <= MAX_PASSES_PER_CHANNEL
        /\ 0 <= MAX_PASSES_PER_DOCUMENT /\ 0 <= MAX_PASSES_PER_AUTHORITY
    BY LimitsAreNumbers
  <2> QED  BY <2>1, <2>2, <2>3, Zenon DEF WithinLimits
<1>7. 1..Len(issued) = {}  BY <1>3
<1> QED  BY <1>1, <1>2, <1>5, <1>6, <1>7 DEF PassesInv, TokensUnique

\* Every step of the store keeps the invariant of the passes and tokens.
LEMMA PassesInductive == PassesInv /\ [Next]_vars => PassesInv'
<1> SUFFICES ASSUME PassesInv, [Next]_vars PROVE PassesInv'
  OBVIOUS
<1>1. TablesInv  BY DEF PassesInv
<1>2. TablesInv'  BY <1>1, TablesInductive
<1>3. TablesGrow  BY <1>1, <1>2, EveryStepGrows
<1>4. CASE Accept
  <2>1. UNCHANGED <<authority, channels, passes, issued>>  BY <1>4 DEF Accept, accept
  <2> QED  BY <1>2, <1>3, <2>1, AcceptKeepsPasses
<1>5. CASE Enumerate
  <2>1. PICK d \in Documents, q \in Queries :
          \/ EnumerateOrigin(q[1], d, q[2])
          \/ \E mode \in {"Continue", "AfterTail"}, token \in 1..MAX_TOKENS :
               EnumerateToken(q[1], d, q[2], mode, token)
    BY <1>5 DEF Enumerate
  <2>2. q[1] \in Channels /\ q[2] \in Capabilities  BY UpdateConstants
  <2>3. CASE EnumerateOrigin(q[1], d, q[2])
    BY <1>2, <1>3, <2>2, <2>3, EnumerateOriginKeepsPasses
  <2>4. ASSUME NEW mode \in {"Continue", "AfterTail"}, NEW token,
               EnumerateToken(q[1], d, q[2], mode, token)
        PROVE  PassesInv'
    BY <1>2, <1>3, <2>2, <2>4, EnumerateTokenKeepsPasses DEF Modes
  <2> QED  BY <2>1, <2>3, <2>4
<1>6. CASE Backfill
  <2>1. PICK d \in Documents, q \in Queries :
          /\ q[3] # Null
          /\ \/ VectorOrigin(q[1], d, q[2], q[3])
             \/ \E token \in 1..MAX_TOKENS : VectorToken(q[1], d, q[2], q[3], token)
    BY <1>6 DEF Backfill
  <2>2. q[1] \in Channels /\ q[2] \in Capabilities /\ q[3] \in Versions
    BY <2>1, UpdateConstants
  <2>3. CASE VectorOrigin(q[1], d, q[2], q[3])
    BY <1>2, <1>3, <2>2, <2>3, VectorOriginKeepsPasses
  <2>4. ASSUME NEW token, VectorToken(q[1], d, q[2], q[3], token)  PROVE PassesInv'
    BY <1>2, <1>3, <2>2, <2>4, VectorTokenKeepsPasses
  <2> QED  BY <2>1, <2>3, <2>4
<1>7. CASE Expire  BY <1>2, <1>3, <1>7, ExpireKeepsPasses
<1>8. CASE Control  BY <1>2, <1>3, <1>8, ControlKeepsPasses
<1>9. CASE Disconnect  BY <1>2, <1>3, <1>9, DisconnectKeepsPasses
<1>10. CASE open  BY <1>2, <1>3, <1>10, OpenKeepsPasses
<1>11. CASE UNCHANGED vars
  <2>1. UNCHANGED <<authority, channels, passes, issued>>  BY <1>11 DEF vars
  <2> QED  BY <1>2, <1>3, <2>1, AcceptKeepsPasses
<1> QED
  BY <1>4, <1>5, <1>6, <1>7, <1>8, <1>9, <1>10, <1>11 DEF Next

\* The passes and tokens, in every reachable state.
LEMMA PassesCorrect == Spec => []PassesInv
  BY PassesInit, PassesInductive, PTL DEF Spec

\* TypeOK: the tables, passes and tokens of store.rs keep their shape, and a pass
\* never holds a position outside the domain of acceptance sequences.
THEOREM UpdateTypeCorrect == Spec => []TypeOK
<1>1. PassesInv => TypeOK  BY DEF PassesInv
<1> QED  BY <1>1, PassesCorrect, PTL

\* TokenAnswers: enumerate_authorized and vector_backfill_authorized honour a token
\* only for the query and channel it was minted for, and answer a retry with the
\* page of the first exchange.
THEOREM TokenAnswersCorrect == Spec => []TokenAnswers
  BY PassesCorrect, TokenAnswersHold, PTL

\* PassAnswers: the owner of every pass that the store keeps is answered with a page
\* that the wire codec can encode.
THEOREM PassAnswersCorrect == Spec => []PassAnswers
  BY PassesCorrect, PassAnswersHold, PTL

\* RestartAdmitted: a client that starts over is never refused for the pass that it
\* leaves behind, whatever the limits and however full the table.
THEOREM RestartAdmittedCorrect == Spec => []RestartAdmitted
  BY PassesCorrect, RestartAdmittedHolds, PTL

\* EnumerationExact: a chain of enumeration pages delivers the oracle's window, each
\* update once, under every interleaving of acceptance, retry, purge and restart.
THEOREM EnumerationExactCorrect == Spec => []EnumerationExact
  BY PassesCorrect, EnumerationExactHolds, PTL

\* BackfillExact: a chain of vector pages delivers what the oracle selects for the
\* version, each update once.
THEOREM BackfillExactCorrect == Spec => []BackfillExact
  BY PassesCorrect, BackfillExactHolds, PTL
=============================================================================
