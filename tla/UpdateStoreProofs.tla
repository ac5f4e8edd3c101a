-------------------------- MODULE UpdateStoreProofs -------------------------
(***************************************************************************)
(* The update tables, for every number of documents, updates, peers and    *)
(* passes: they always pass the checks of recovery, they change only as    *)
(* the oracle UpdateModel changes, and they answer as the oracle answers.  *)
(* Only accept writes them; every other operation is a stutter.            *)
(***************************************************************************)
EXTENDS UpdateRefinement, FiniteSetTheorems, TLAPS

TablesType ==
  /\ updates \in [Documents -> [UpdateIds -> {Null} \cup Row]]
  /\ acceptance_sequences \in [Documents -> {Null} \cup 1..MAX_SEQUENCE]
  /\ document_loro_peers \subseteq Documents \X Peers

\* What validate leaves open: a document without updates has no position taken.
CounterNext == \A d \in Documents : next_sequence(d) = Cardinality(Stored(d)) + 1

\* The inductive invariant of the tables.
TablesInv == TablesType /\ CounterNext /\ validate

\* The rows that the records of the updates table call for in either index.
RangeRow(row) ==
  \E d \in Documents : \E u \in Stored(d) : row \in RangeRows(d, u, RecordOf(d, u))

PeerRow(row) == \E d \in Documents : \E p \in StoredPeers(d) : row = <<d, p>>

\* The constants of the tables are numbers.
LEMMA Constants == MAX_SEQUENCE \in Nat \ {0} /\ MAX_LORO_PEERS \in Nat \ {0}
  BY UpdateConstants

\* The rows of a document are finitely many: identifiers have a fixed width.
LEMMA StoredFinite ==
  ASSUME NEW d \in Documents
  PROVE  /\ IsFiniteSet(Stored(d)) /\ Cardinality(Stored(d)) \in Nat
<1>1. Stored(d) \in SUBSET UpdateIds  BY DEF Stored
<1>2. IsFiniteSet(Stored(d))  BY <1>1, RecordAssumption, FS_Subset
<1> QED  BY <1>2, FS_CardinalityType

\* A stored row has a position and a record that decodes.
LEMMA StoredRow ==
  ASSUME TablesType, NEW d \in Documents, NEW u \in Stored(d)
  PROVE  /\ u \in UpdateIds
         /\ SequenceOf(d, u) \in 1..MAX_SEQUENCE
         /\ RecordOf(d, u) \in ValidRecords
<1>1. u \in UpdateIds /\ updates[d][u] \in Row  BY DEF Stored, TablesType
<1> QED  BY <1>1 DEF Row, SequenceOf, RecordOf

\* A record that decodes names peers of the domain.
LEMMA PeersInDomain ==
  ASSUME NEW r \in ValidRecords
  PROVE  /\ PeersOf(r) \subseteq Peers
         /\ r \in Records
BY RecordAssumption DEF ValidRecords, PeersOf

\* The rows of the range index, one by one.
LEMMA RangesIndexedMeans ==
  RangesIndexed <=> \A row : row \in update_loro_ranges <=> RangeRow(row)
BY DEF RangesIndexed, RangeRow

\* The rows of the peer index, one by one.
LEMMA PeersIndexedMeans ==
  PeersIndexed <=> \A row : row \in document_loro_peers <=> PeerRow(row)
BY DEF PeersIndexed, PeerRow

\* The peers of a document, as the index gives them.
LEMMA IndexedPeers ==
  ASSUME TablesType, PeersIndexed, NEW d \in Documents
  PROVE  /\ {p \in Peers : <<d, p>> \in document_loro_peers} = StoredPeers(d)
         /\ StoredPeers(d) \subseteq Peers
<1>1. StoredPeers(d) \subseteq Peers
  BY StoredRow, PeersInDomain DEF StoredPeers
<1>2. ASSUME NEW p \in Peers
      PROVE  <<d, p>> \in document_loro_peers <=> p \in StoredPeers(d)
  <2>1. <<d, p>> \in document_loro_peers <=>
          \E e \in Documents : \E q \in StoredPeers(e) : <<d, p>> = <<e, q>>
    BY PeersIndexedMeans DEF PeerRow
  <2> QED  BY <2>1
<1> QED  BY <1>1, <1>2
----------------------------------------------------------------------------
\* Only an acceptance changes the tables.
LEMMA OnlyAcceptWrites ==
  ASSUME [Next]_vars
  PROVE  \/ \E d \in Documents, c \in Capabilities, u \in UpdateIds, r \in Records :
              accept(d, c, u, r)
         \/ UNCHANGED tables
<1>1. CASE Accept  BY <1>1 DEF Accept
<1>2. CASE Enumerate
  BY <1>2 DEF Enumerate, EnumerateOrigin, EnumerateToken, tables
<1>3. CASE Backfill
  BY <1>3 DEF Backfill, VectorOrigin, VectorToken, tables
<1>4. CASE Expire  BY <1>4 DEF Expire, ExpireEnumeration, ExpireVector, tables
<1>5. CASE Control
  BY <1>5 DEF Control, revoke_capability, publish_committed_retirement, tables
<1>6. CASE Disconnect  BY <1>6 DEF Disconnect, close_broker_channel, tables
<1>7. CASE open  BY <1>7 DEF open, tables
<1>8. CASE UNCHANGED vars  BY <1>8 DEF vars, tables
<1> QED  BY <1>1, <1>2, <1>3, <1>4, <1>5, <1>6, <1>7, <1>8 DEF Next

\* What an acceptance that inserts was admitted on, and what it writes.
LEMMA AcceptMeans ==
  ASSUME TablesInv, NEW d \in Documents, NEW c \in Capabilities,
         NEW u \in UpdateIds, NEW r \in Records, accept(d, c, u, r)
  PROVE  /\ r \in ValidRecords
         /\ updates[d][u] = Null
         /\ next_sequence(d) \in Nat /\ 1 <= next_sequence(d)
         /\ next_sequence(d) < MAX_SEQUENCE
         /\ Cardinality(PeerUnion(d, r)) <= MAX_LORO_PEERS
         /\ acceptance_sequences' =
              [acceptance_sequences EXCEPT ![d] = next_sequence(d) + 1]
         /\ updates' =
              [updates EXCEPT ![d][u] =
                 [acceptance_sequence |-> next_sequence(d), encoded_record |-> r]]
<1>1. /\ accept_outcome(d, c, u, r) = "Inserted"
  BY DEF accept
<1>2. /\ r \in ValidRecords
      /\ u \notin Stored(d)
      /\ checked_next(next_sequence(d)) # Null
      /\ ~(Cardinality(PeerUnion(d, r)) > MAX_LORO_PEERS)
  <2>1. /\ "Inserted" # "Malformed" /\ "Inserted" # "AuthorizationDenied"
        /\ "Inserted" # "AlreadyPresent" /\ "Inserted" # "IdentifierConflict"
        /\ "Inserted" # "CounterExhausted" /\ "Inserted" # "LimitExceeded"
    OBVIOUS
  <2> QED  BY <1>1, <2>1 DEF accept_outcome
<1>3. next_sequence(d) < MAX_SEQUENCE /\ checked_next(next_sequence(d)) = next_sequence(d) + 1
  BY <1>2 DEF checked_next
<1>4. next_sequence(d) \in Nat /\ 1 <= next_sequence(d)
  BY Constants DEF TablesInv, TablesType, next_sequence
<1>5. IsFiniteSet(PeerUnion(d, r))
  <2>1. PeerUnion(d, r) \in SUBSET Peers  BY <1>2, PeersInDomain DEF PeerUnion
  <2> QED  BY <2>1, RecordAssumption, FS_Subset
<1>6. Cardinality(PeerUnion(d, r)) <= MAX_LORO_PEERS
  BY <1>2, <1>5, FS_CardinalityType, Constants
<1> QED  BY <1>2, <1>3, <1>4, <1>6 DEF accept, Stored
----------------------------------------------------------------------------
\* The rows after an acceptance: one more, at the next position.
LEMMA RowsAfterAccept ==
  ASSUME TablesInv, NEW d \in Documents, NEW c \in Capabilities,
         NEW u \in UpdateIds, NEW r \in Records, accept(d, c, u, r)
  PROVE  /\ TablesType'
         /\ u \notin Stored(d) /\ Stored(d)' = Stored(d) \cup {u}
         /\ SequenceOf(d, u)' = next_sequence(d) /\ RecordOf(d, u)' = r
         /\ \A v \in Stored(d) :
              updates'[d][v] = updates[d][v] /\ SequenceOf(d, v)' = SequenceOf(d, v)
                /\ RecordOf(d, v)' = RecordOf(d, v)
         /\ \A e \in Documents \ {d} :
              /\ updates'[e] = updates[e]
              /\ Stored(e)' = Stored(e)
              /\ \A v \in Stored(e) :
                   SequenceOf(e, v)' = SequenceOf(e, v) /\ RecordOf(e, v)' = RecordOf(e, v)
<1> DEFINE row == [acceptance_sequence |-> next_sequence(d), encoded_record |-> r]
<1>1. /\ r \in ValidRecords /\ updates[d][u] = Null
      /\ next_sequence(d) \in Nat /\ 1 <= next_sequence(d)
      /\ next_sequence(d) < MAX_SEQUENCE
      /\ acceptance_sequences' =
           [acceptance_sequences EXCEPT ![d] = next_sequence(d) + 1]
      /\ updates' = [updates EXCEPT ![d][u] = row]
  BY AcceptMeans
<1>2. row \in Row
  BY <1>1, Constants DEF Row
<1>3. row # Null  BY <1>2, NullIsNoRow
<1>4. /\ updates \in [Documents -> [UpdateIds -> {Null} \cup Row]]
      /\ acceptance_sequences \in [Documents -> {Null} \cup 1..MAX_SEQUENCE]
      /\ document_loro_peers \subseteq Documents \X Peers
  BY DEF TablesInv, TablesType
<1> HIDE DEF row
<1>5. TablesType'
  <2>1. updates' \in [Documents -> [UpdateIds -> {Null} \cup Row]]
    BY <1>1, <1>2, <1>4
  <2>2. acceptance_sequences' \in [Documents -> {Null} \cup 1..MAX_SEQUENCE]
    <3>1. next_sequence(d) + 1 \in 1..MAX_SEQUENCE  BY <1>1, Constants
    <3> QED  BY <1>1, <1>4, <3>1
  <2>3. document_loro_peers' \subseteq Documents \X Peers
    BY <1>1, <1>4, PeersInDomain DEF accept
  <2> QED  BY <2>1, <2>2, <2>3 DEF TablesType
<1>6. /\ updates'[d][u] = row
      /\ \A v \in UpdateIds \ {u} : updates'[d][v] = updates[d][v]
      /\ \A e \in Documents \ {d} : updates'[e] = updates[e]
  BY <1>1, <1>4
<1>7. u \notin Stored(d) /\ Stored(d)' = Stored(d) \cup {u}
  BY <1>1, <1>3, <1>6 DEF Stored
<1>8. SequenceOf(d, u)' = next_sequence(d) /\ RecordOf(d, u)' = r
  BY <1>6 DEF SequenceOf, RecordOf, row
<1>9. \A v \in Stored(d) :
        updates'[d][v] = updates[d][v] /\ SequenceOf(d, v)' = SequenceOf(d, v)
                /\ RecordOf(d, v)' = RecordOf(d, v)
  BY <1>1, <1>6 DEF Stored, SequenceOf, RecordOf
<1>10. \A e \in Documents \ {d} :
              /\ updates'[e] = updates[e]
              /\ Stored(e)' = Stored(e)
              /\ \A v \in Stored(e) :
                   SequenceOf(e, v)' = SequenceOf(e, v) /\ RecordOf(e, v)' = RecordOf(e, v)
  BY <1>6 DEF Stored, SequenceOf, RecordOf
<1> QED  BY <1>5, <1>7, <1>8, <1>9, <1>10

\* Positions stay contiguous and the counter stays behind them.
LEMMA PositionsAfterAccept ==
  ASSUME TablesInv, NEW d \in Documents, NEW c \in Capabilities,
         NEW u \in UpdateIds, NEW r \in Records, accept(d, c, u, r),
         NEW e \in Documents
  PROVE  /\ ContiguousPositions(e)'
         /\ CounterFollows(e)'
         /\ next_sequence(e)' = (Cardinality(Stored(e)) + 1)'
<1>1. /\ ContiguousPositions(e) /\ CounterFollows(e)
      /\ next_sequence(e) = Cardinality(Stored(e)) + 1
      /\ acceptance_sequences \in [Documents -> {Null} \cup 1..MAX_SEQUENCE]
  BY DEF TablesInv, TablesType, validate, CounterNext
<1>2. /\ next_sequence(d) \in Nat /\ 1 <= next_sequence(d)
      /\ next_sequence(d) < MAX_SEQUENCE
      /\ acceptance_sequences' =
           [acceptance_sequences EXCEPT ![d] = next_sequence(d) + 1]
  BY AcceptMeans
<1>3. CASE e # d
  <2>1. /\ Stored(e)' = Stored(e)
        /\ \A v \in Stored(e) : SequenceOf(e, v)' = SequenceOf(e, v)
        /\ acceptance_sequences'[e] = acceptance_sequences[e]
    BY <1>1, <1>2, <1>3, RowsAfterAccept
  <2> QED  BY <1>1, <2>1 DEF ContiguousPositions, CounterFollows, next_sequence
<1>4. CASE e = d
  <2> DEFINE k == Cardinality(Stored(d))
  <2>1. /\ k \in Nat /\ IsFiniteSet(Stored(d)) /\ next_sequence(d) = k + 1
        /\ MAX_SEQUENCE \in Nat
    BY <1>1, <1>4, StoredFinite, Constants
  <2>2. /\ u \notin Stored(d) /\ Stored(d)' = Stored(d) \cup {u}
        /\ SequenceOf(d, u)' = k + 1
        /\ \A v \in Stored(d) : SequenceOf(d, v)' = SequenceOf(d, v)
    BY <2>1, RowsAfterAccept
  <2>3. Cardinality(Stored(d))' = k + 1
    BY <2>1, <2>2, FS_AddElement
  <2>4. acceptance_sequences'[d] = k + 2 /\ k + 2 # Null
    BY <1>1, <1>2, <2>1, UpdateConstants
  <2>5. /\ \A v, w \in Stored(d) : SequenceOf(d, v) = SequenceOf(d, w) => v = w
        /\ {SequenceOf(d, v) : v \in Stored(d)} = 1..k
    BY <1>1, <1>4 DEF ContiguousPositions
  <2> HIDE DEF k
  <2>6. \A v \in Stored(d) : SequenceOf(d, v) \in 1..k  BY <2>5
  <2>7. \A v, w \in Stored(d)' : SequenceOf(d, v)' = SequenceOf(d, w)' => v = w
    BY <2>1, <2>2, <2>5, <2>6
  <2>8. {SequenceOf(d, v)' : v \in Stored(d)'} = 1..(k + 1)
    <3>1. ASSUME NEW v \in Stored(d)'  PROVE SequenceOf(d, v)' \in 1..(k + 1)
      BY <2>1, <2>2, <2>6
    <3>2. ASSUME NEW n \in 1..(k + 1)
          PROVE  \E v \in Stored(d)' : SequenceOf(d, v)' = n
      <4>1. CASE n = k + 1  BY <4>1, <2>2
      <4>2. CASE n # k + 1
        <5>1. n \in 1..k  BY <4>2, <2>1
        <5>2. PICK v \in Stored(d) : SequenceOf(d, v) = n  BY <5>1, <2>5
        <5> QED  BY <5>2, <2>2
      <4> QED  BY <4>1, <4>2
    <3> QED  BY <3>1, <3>2
  <2>9. k + 1 < MAX_SEQUENCE  BY <1>2, <2>1
  <2> QED
    BY <1>4, <2>1, <2>3, <2>4, <2>7, <2>8, <2>9
    DEF ContiguousPositions, CounterFollows, next_sequence
<1> QED  BY <1>3, <1>4

\* The two Loro indexes gain exactly the ranges and the peers of the record.
LEMMA IndexesAfterAccept ==
  ASSUME TablesInv, NEW d \in Documents, NEW c \in Capabilities,
         NEW u \in UpdateIds, NEW r \in Records, accept(d, c, u, r)
  PROVE  /\ RangesIndexed'
         /\ PeersIndexed'
         /\ \A e \in Documents : Cardinality(StoredPeers(e))' <= MAX_LORO_PEERS
<1>1. TablesType /\ RangesIndexed /\ PeersIndexed
  BY DEF TablesInv, validate
<1>2. /\ r \in ValidRecords
      /\ Cardinality(PeerUnion(d, r)) <= MAX_LORO_PEERS
  BY AcceptMeans
<1>3. /\ Stored(d)' = Stored(d) \cup {u} /\ RecordOf(d, u)' = r
      /\ \A v \in Stored(d) : RecordOf(d, v)' = RecordOf(d, v)
      /\ \A e \in Documents \ {d} :
           Stored(e)' = Stored(e) /\ \A v \in Stored(e) : RecordOf(e, v)' = RecordOf(e, v)
  BY RowsAfterAccept
<1>4. /\ update_loro_ranges' = update_loro_ranges \cup RangeRows(d, u, r)
      /\ document_loro_peers' = document_loro_peers \cup {<<d, p>> : p \in PeersOf(r)}
  BY DEF accept
<1>5. RangesIndexed'
  <2>1. ASSUME NEW row
        PROVE  row \in update_loro_ranges' <=> RangeRow(row)'
    <3>1. row \in update_loro_ranges <=> RangeRow(row)
      BY <1>1, RangesIndexedMeans
    <3>2. ASSUME row \in update_loro_ranges'
          PROVE  RangeRow(row)'
      <4>1. CASE row \in RangeRows(d, u, r)  BY <4>1, <1>3 DEF RangeRow, RangeRows
      <4>2. CASE row \in update_loro_ranges
        <5>1. PICK e \in Documents : \E v \in Stored(e) : row \in RangeRows(e, v, RecordOf(e, v))
          BY <4>2, <3>1 DEF RangeRow
        <5>2. PICK v \in Stored(e) : row \in RangeRows(e, v, RecordOf(e, v))  BY <5>1
        <5>3. v \in Stored(e)' /\ RecordOf(e, v)' = RecordOf(e, v)  BY <1>3
        <5> QED  BY <5>2, <5>3 DEF RangeRow, RangeRows
      <4> QED  BY <3>2, <4>1, <4>2, <1>4
    <3>3. ASSUME RangeRow(row)'
          PROVE  row \in update_loro_ranges'
      <4>0. PICK e \in Documents : \E v \in Stored(e)' : (row \in RangeRows(e, v, RecordOf(e, v)))'
        BY <3>3 DEF RangeRow
      <4>1. PICK v \in Stored(e)' : (row \in RangeRows(e, v, RecordOf(e, v)))'  BY <4>0
      <4>2. CASE e = d /\ v = u  BY <4>1, <4>2, <1>3, <1>4 DEF RangeRows
      <4>3. CASE ~(e = d /\ v = u)
        <5>1. v \in Stored(e) /\ RecordOf(e, v)' = RecordOf(e, v)  BY <4>3, <1>3
        <5> QED  BY <4>1, <5>1, <3>1, <1>4 DEF RangeRow, RangeRows
      <4> QED  BY <4>2, <4>3
    <3> QED  BY <3>2, <3>3
  <2> QED  BY <2>1 DEF RangesIndexed, RangeRow
<1>6. /\ StoredPeers(d)' = StoredPeers(d) \cup PeersOf(r)
      /\ \A e \in Documents \ {d} : StoredPeers(e)' = StoredPeers(e)
  <2>1. StoredPeers(d)' \subseteq StoredPeers(d) \cup PeersOf(r)
    BY <1>3 DEF StoredPeers, PeersOf
  <2>2. StoredPeers(d) \subseteq StoredPeers(d)'
    BY <1>3 DEF StoredPeers, PeersOf
  <2>3. PeersOf(r) \subseteq StoredPeers(d)'
    BY <1>3 DEF StoredPeers, PeersOf
  <2>4. \A e \in Documents \ {d} : StoredPeers(e)' = StoredPeers(e)
    BY <1>3 DEF StoredPeers, PeersOf
  <2> QED  BY <2>1, <2>2, <2>3, <2>4
<1>7. PeersIndexed'
  <2>1. ASSUME NEW row
        PROVE  row \in document_loro_peers' <=> PeerRow(row)'
    <3>1. row \in document_loro_peers <=> PeerRow(row)
      BY <1>1, PeersIndexedMeans
    <3>2. row \in {<<d, p>> : p \in PeersOf(r)} <=> \E p \in PeersOf(r) : row = <<d, p>>
      OBVIOUS
    <3>3. PeerRow(row)' <=> (PeerRow(row) \/ \E p \in PeersOf(r) : row = <<d, p>>)
      BY <1>6 DEF PeerRow
    <3> QED  BY <3>1, <3>2, <3>3, <1>4
  <2> QED  BY <2>1 DEF PeersIndexed, PeerRow
<1>8. PeerUnion(d, r) = StoredPeers(d)'
  BY <1>1, <1>6, IndexedPeers DEF PeerUnion
<1>9. \A e \in Documents : Cardinality(StoredPeers(e))' <= MAX_LORO_PEERS
  BY <1>2, <1>6, <1>8 DEF TablesInv, validate
<1> QED  BY <1>5, <1>7, <1>9

\* Every step keeps the invariant.
LEMMA TablesInductive == TablesInv /\ [Next]_vars => TablesInv'
<1> SUFFICES ASSUME TablesInv, [Next]_vars PROVE TablesInv'
  OBVIOUS
<1>1. CASE UNCHANGED tables
  <2> USE <1>1 DEF tables
  <2>1. TablesType'  BY DEF TablesInv, TablesType
  <2>2. \A d \in Documents :
          Stored(d)' = Stored(d) /\ next_sequence(d)' = next_sequence(d)
            /\ StoredPeers(d)' = StoredPeers(d)
    BY DEF Stored, next_sequence, StoredPeers, PeersOf, RecordOf
  <2>3. \A d \in Documents : ContiguousPositions(d)' = ContiguousPositions(d)
    BY DEF Stored, ContiguousPositions, SequenceOf
  <2>4. \A d \in Documents : CounterFollows(d)' = CounterFollows(d)
    BY DEF Stored, CounterFollows
  <2>5. RangesIndexed' = RangesIndexed
    BY DEF Stored, RangesIndexed, RangeRows, RecordOf
  <2>6. PeersIndexed' = PeersIndexed
    BY DEF Stored, PeersIndexed, StoredPeers, PeersOf, RecordOf
  <2>7. \A d \in Documents : \A u \in Stored(d)' : RecordOf(d, u)' \in ValidRecords
    BY <2>1 DEF TablesType, Stored, RecordOf, Row
  <2> QED
    BY <2>1, <2>2, <2>3, <2>4, <2>5, <2>6, <2>7 DEF TablesInv, CounterNext, validate
<1>2. ASSUME NEW d \in Documents, NEW c \in Capabilities,
             NEW u \in UpdateIds, NEW r \in Records, accept(d, c, u, r)
      PROVE  TablesInv'
  <2>1. TablesType'  BY <1>2, RowsAfterAccept
  <2>2. \A e \in Documents :
          ContiguousPositions(e)' /\ CounterFollows(e)'
            /\ next_sequence(e)' = (Cardinality(Stored(e)) + 1)'
    BY <1>2, PositionsAfterAccept
  <2>3. /\ RangesIndexed' /\ PeersIndexed'
        /\ \A e \in Documents : Cardinality(StoredPeers(e))' <= MAX_LORO_PEERS
    BY <1>2, IndexesAfterAccept
  <2>4. \A e \in Documents : \A v \in Stored(e)' : RecordOf(e, v)' \in ValidRecords
    BY <2>1 DEF TablesType, Stored, RecordOf, Row
  <2> QED  BY <2>1, <2>2, <2>3, <2>4 DEF TablesInv, CounterNext, validate
<1> QED  BY <1>1, <1>2, OnlyAcceptWrites

\* The empty tables satisfy it.
LEMMA TablesInit == Init => TablesInv
<1> SUFFICES ASSUME Init PROVE TablesInv
  OBVIOUS
<1>1. \A d \in Documents : Stored(d) = {} /\ acceptance_sequences[d] = Null
  BY DEF Init, Stored
<1>2. TablesType  BY DEF Init, TablesType
<1>3. Cardinality({}) = 0  BY FS_EmptySet
<1>4. CounterNext  BY <1>1, <1>3 DEF CounterNext, next_sequence
<1>5. \A d \in Documents : StoredPeers(d) = {}  BY <1>1 DEF StoredPeers
<1>6. ASSUME NEW d \in Documents  PROVE ContiguousPositions(d) /\ CounterFollows(d)
  <2>1. 1..0 = {}  OBVIOUS
  <2> QED  BY <1>1, <1>3, <2>1, Constants DEF ContiguousPositions, CounterFollows
<1>7. RangesIndexed /\ PeersIndexed
  BY <1>1, <1>5, RangesIndexedMeans, PeersIndexedMeans DEF Init, RangeRow, PeerRow
<1> QED
  BY <1>1, <1>2, <1>3, <1>4, <1>5, <1>6, <1>7, Constants DEF TablesInv, validate

\* The tables satisfy the invariant in every reachable state.
LEMMA TablesCorrect == Spec => []TablesInv
  BY TablesInit, TablesInductive, PTL DEF Spec

\* UpdateRecovery: whenever the process ends, validate accepts the update tables
\* on the next open, for every number of documents, updates and peers.
THEOREM UpdateRecoveryCorrect == Spec => []UpdateRecovery
<1>1. TablesInv => UpdateRecovery  BY DEF TablesInv, UpdateRecovery
<1> QED  BY <1>1, TablesCorrect, PTL
----------------------------------------------------------------------------
\* The oracle's abstract state, named so that it can be primed.
Order == [d \in Documents |-> [n \in 1..MAX_SEQUENCE |-> UpdateAt(d, n)]]
OraclePeers == [d \in Documents |-> {p \in Peers : <<d, p>> \in document_loro_peers}]
OracleRows == [d \in Documents |-> [u \in UpdateIds |-> OracleUpdate(d, u)]]

\* The update at a position where there is one, or none.
LEMMA OneOfMeans == OneOf({}) = Null /\ \A u : OneOf({u}) = u
<1>1. \A u : {u} # {} /\ (CHOOSE v \in {u} : TRUE) = u
  OBVIOUS
<1> QED  BY <1>1 DEF OneOf

\* The positions that are taken lie below the next one.
LEMMA PositionsTaken ==
  ASSUME TablesInv, NEW d \in Documents
  PROVE  \A u \in Stored(d) : SequenceOf(d, u) \in Nat /\ SequenceOf(d, u) < next_sequence(d)
<1>1. {SequenceOf(d, u) : u \in Stored(d)} = 1..Cardinality(Stored(d))
  BY DEF TablesInv, validate, ContiguousPositions
<1>2. Cardinality(Stored(d)) \in Nat /\ next_sequence(d) = Cardinality(Stored(d)) + 1
  BY StoredFinite DEF TablesInv, CounterNext
<1>3. \A u \in Stored(d) : SequenceOf(d, u) \in 1..Cardinality(Stored(d))  BY <1>1
<1> QED  BY <1>2, <1>3

\* The oracle's instance of FiniteSets counts as FiniteSets does.
LEMMA SameCardinality == \A S : Oracle!Cardinality(S) = Cardinality(S)
  BY DEF Oracle!Cardinality, Cardinality

\* The store and the oracle count the same peers.
LEMMA SamePeerCount ==
  ASSUME TablesInv, NEW d \in Documents, NEW r \in ValidRecords
  PROVE  /\ Cardinality(OraclePeers[d]) + Cardinality(PeersOf(r) \ OraclePeers[d])
              = Cardinality(PeerUnion(d, r))
         /\ OraclePeers[d] \cup (PeersOf(r) \ OraclePeers[d]) = PeerUnion(d, r)
<1> DEFINE A == OraclePeers[d]
           B == PeersOf(r) \ A
<1>1. A = {p \in Peers : <<d, p>> \in document_loro_peers}  BY DEF OraclePeers
<1>2. A \cup B = PeerUnion(d, r)  BY <1>1 DEF PeerUnion
<1>3. A \in SUBSET Peers /\ B \in SUBSET Peers  BY <1>1, PeersInDomain
<1> HIDE DEF A, B
<1>4. IsFiniteSet(A) /\ IsFiniteSet(B)  BY <1>3, RecordAssumption, FS_Subset
<1>5. A \cap B = {}  BY DEF B
<1>6. Cardinality(A \cup B) = Cardinality(A) + Cardinality(B)
  <2>1. Cardinality(A \cup B) = Cardinality(A) + Cardinality(B) - Cardinality(A \cap B)
    BY <1>4, FS_Union
  <2>2. Cardinality(A \cap B) = 0  BY <1>5, FS_EmptySet
  <2>3. Cardinality(A) \in Nat /\ Cardinality(B) \in Nat  BY <1>4, FS_CardinalityType
  <2> QED  BY <2>1, <2>2, <2>3
<1> QED  BY <1>2, <1>6 DEF A, B

\* The oracle's row of an update is the stored one.
LEMMA OracleRow ==
  ASSUME NEW d \in Documents, NEW u \in UpdateIds
  PROVE  /\ updates[d][u] = Null => OracleRows[d][u] = Null
         /\ updates[d][u] # Null =>
              /\ OracleRows[d][u] = [sequence |-> SequenceOf(d, u), update |-> RecordOf(d, u)]
              /\ OracleRows[d][u].update = RecordOf(d, u)
BY DEF OracleRows, OracleUpdate

\* The oracle knows of an update exactly when the store does.
LEMMA StoredIsRow ==
  ASSUME TablesType, NEW d \in Documents, NEW u \in UpdateIds
  PROVE  u \in Stored(d) <=> OracleRows[d][u] # Null
<1>1. CASE updates[d][u] = Null  BY <1>1, OracleRow DEF Stored
<1>2. CASE updates[d][u] # Null
  <2>1. u \in Stored(d)  BY <1>2 DEF Stored
  <2>2. SequenceOf(d, u) \in 1..MAX_SEQUENCE /\ RecordOf(d, u) \in Records
    BY <2>1, StoredRow, PeersInDomain
  <2>3. OracleRows[d][u] \in [sequence : 1..MAX_SEQUENCE, update : Records]
    <3>1. OracleRows[d][u] = [sequence |-> SequenceOf(d, u), update |-> RecordOf(d, u)]
      BY <1>2, OracleRow
    <3> QED  BY <2>2, <3>1
  <2> QED  BY <2>1, <2>3, NullIsNoOracleRow
<1> QED  BY <1>1, <1>2

\* An authorized, well-formed update is answered as the oracle answers it.
LEMMA SameAnswer ==
  ASSUME TablesInv, NEW d \in Documents, NEW c \in Capabilities, NEW u \in UpdateIds,
         NEW r \in ValidRecords, authorize(d, c)
  PROVE  accept_outcome(d, c, u, r) = Oracle!accept_outcome(d, u, r)
<1>1. Oracle!sequence(d) = next_sequence(d)
  BY DEF Oracle!sequence, next_sequence
<1>2. checked_next(next_sequence(d)) = Null <=> next_sequence(d) = MAX_SEQUENCE
  <2>1. next_sequence(d) \in 1..MAX_SEQUENCE
    BY Constants DEF TablesInv, TablesType, next_sequence
  <2> QED  BY <2>1, UpdateConstants, Constants DEF checked_next
<1>3. Cardinality(OraclePeers[d]) + Cardinality(Oracle!AdditionalPeers(d, r))
        = Cardinality(PeerUnion(d, r))
  BY SamePeerCount DEF Oracle!AdditionalPeers, OraclePeers, PeersOf
<1>4. Oracle!accept_outcome(d, u, r) =
        IF OracleRows[d][u] # Null
        THEN IF OracleRows[d][u].update = r THEN "AlreadyPresent" ELSE "IdentifierConflict"
        ELSE IF next_sequence(d) = MAX_SEQUENCE THEN "CounterExhausted"
        ELSE IF Cardinality(PeerUnion(d, r)) > MAX_LORO_PEERS THEN "LimitExceeded"
        ELSE "Inserted"
  BY <1>1, <1>3, SameCardinality DEF Oracle!accept_outcome, OracleRows, OraclePeers
<1>5. accept_outcome(d, c, u, r) =
        IF u \in Stored(d)
        THEN IF RecordOf(d, u) = r THEN "AlreadyPresent" ELSE "IdentifierConflict"
        ELSE IF next_sequence(d) = MAX_SEQUENCE THEN "CounterExhausted"
        ELSE IF Cardinality(PeerUnion(d, r)) > MAX_LORO_PEERS THEN "LimitExceeded"
        ELSE "Inserted"
  BY <1>2 DEF accept_outcome
<1>6. u \in Stored(d) <=> OracleRows[d][u] # Null
  BY StoredIsRow DEF TablesInv
<1>7. u \in Stored(d) => OracleRows[d][u].update = RecordOf(d, u)
  BY OracleRow DEF Stored
<1> QED  BY <1>4, <1>5, <1>6, <1>7

\* OracleAnswers: fetch and accept answer what the oracle answers in the abstract
\* state, exact retry, conflict, exhaustion and the peer limit included.
THEOREM OracleAnswersCorrect == Spec => []OracleAnswers
<1>1. TablesInv => OracleAnswers
  <2> SUFFICES ASSUME TablesInv, NEW d \in Documents, NEW c \in Capabilities,
                      NEW u \in UpdateIds, authorize(d, c)
               PROVE  /\ fetch_outcome(d, c, u) = Oracle!fetch(d, u)
                      /\ \A r \in ValidRecords :
                           accept_outcome(d, c, u, r) = Oracle!accept_outcome(d, u, r)
    BY DEF OracleAnswers
  <2>1. fetch_outcome(d, c, u) = Oracle!fetch(d, u)
    <3>1. Oracle!fetch(d, u) =
            IF OracleRows[d][u] = Null THEN "NotFound" ELSE OracleRows[d][u].update.payload
      BY DEF Oracle!fetch, OracleRows
    <3>2. fetch_outcome(d, c, u) =
            IF u \in Stored(d) THEN RecordOf(d, u).payload ELSE "NotFound"
      BY DEF fetch_outcome
    <3>3. u \in Stored(d) <=> OracleRows[d][u] # Null  BY StoredIsRow DEF TablesInv
    <3>4. u \in Stored(d) => OracleRows[d][u].update = RecordOf(d, u)
      BY OracleRow DEF Stored
    <3> QED  BY <3>1, <3>2, <3>3, <3>4
  <2> QED  BY <2>1, SameAnswer
<1> QED  BY <1>1, TablesCorrect, PTL

\* An acceptance of the store is the oracle's acceptance of the same record.
LEMMA AcceptRefines ==
  ASSUME TablesInv, TablesInv', NEW d \in Documents, NEW c \in Capabilities,
         NEW u \in UpdateIds, NEW r \in Records, accept(d, c, u, r)
  PROVE  Oracle!accept(d, u, r)
<1>0. PICK n \in Nat : n = next_sequence(d)
  BY AcceptMeans
<1>1. /\ accept_outcome(d, c, u, r) = "Inserted"
      /\ r \in ValidRecords /\ authorize(d, c)
  <2>1. "Inserted" # "Malformed" /\ "Inserted" # "AuthorizationDenied"  OBVIOUS
  <2> QED  BY <2>1 DEF accept, accept_outcome
<1>2. Oracle!accept_outcome(d, u, r) = "Inserted"  BY <1>1, SameAnswer
<1>3. Oracle!sequence(d) = n
  BY <1>0 DEF Oracle!sequence, next_sequence
<1>4. /\ n \in Nat /\ 1 <= n /\ n < MAX_SEQUENCE
      /\ acceptance_sequences' = [acceptance_sequences EXCEPT ![d] = n + 1]
  BY <1>0, AcceptMeans
<1>5. /\ u \notin Stored(d) /\ Stored(d)' = Stored(d) \cup {u}
      /\ SequenceOf(d, u)' = n /\ RecordOf(d, u)' = r
      /\ \A v \in Stored(d) :
           /\ updates'[d][v] = updates[d][v]
           /\ SequenceOf(d, v)' = SequenceOf(d, v) /\ RecordOf(d, v)' = RecordOf(d, v)
      /\ \A e \in Documents \ {d} :
           /\ updates'[e] = updates[e]
           /\ Stored(e)' = Stored(e)
           /\ \A v \in Stored(e) :
                SequenceOf(e, v)' = SequenceOf(e, v) /\ RecordOf(e, v)' = RecordOf(e, v)
  BY <1>0, RowsAfterAccept
<1>6. OraclePeers' = [OraclePeers EXCEPT ![d] = @ \cup (PeersOf(r) \ @)]
  <2>1. /\ document_loro_peers' = document_loro_peers \cup {<<d, p>> : p \in PeersOf(r)}
        /\ PeersOf(r) \subseteq Peers
    BY <1>1, PeersInDomain DEF accept
  <2>2. ASSUME NEW e \in Documents, e # d
        PROVE  {p \in Peers : <<e, p>> \in document_loro_peers'}
                 = {p \in Peers : <<e, p>> \in document_loro_peers}
    BY <2>1, <2>2
  <2>3. {p \in Peers : <<d, p>> \in document_loro_peers'}
          = {p \in Peers : <<d, p>> \in document_loro_peers} \cup PeersOf(r)
    BY <2>1
  <2>4. \A e \in Documents :
          OraclePeers'[e] = IF e = d THEN OraclePeers[d] \cup (PeersOf(r) \ OraclePeers[d])
                            ELSE OraclePeers[e]
    BY <2>2, <2>3 DEF OraclePeers
  <2>5. /\ OraclePeers' = [e \in Documents |-> OraclePeers'[e]]
        /\ OraclePeers = [e \in Documents |-> OraclePeers[e]]
    BY DEF OraclePeers
  <2> QED  BY <2>4, <2>5
<1>7. OracleRows' = [OracleRows EXCEPT ![d][u] = [sequence |-> n, update |-> r]]
  <2>1. ASSUME NEW v \in UpdateIds
        PROVE  OracleUpdate(d, v)' =
                 IF v = u THEN [sequence |-> n, update |-> r] ELSE OracleUpdate(d, v)
    <3>1. CASE v = u  BY <3>1, <1>5 DEF OracleUpdate, Stored
    <3>2. CASE v # u  BY <3>2, <1>5 DEF OracleUpdate, Stored
    <3> QED  BY <3>1, <3>2
  <2>2. ASSUME NEW e \in Documents \ {d}, NEW v \in UpdateIds
        PROVE  OracleUpdate(e, v)' = OracleUpdate(e, v)
    BY <1>5 DEF OracleUpdate, Stored, SequenceOf, RecordOf
  <2> QED  BY <2>1, <2>2 DEF OracleRows
<1>8. Order' = [Order EXCEPT ![d][n] = u]
  <2>1. ASSUME NEW m \in 1..MAX_SEQUENCE
        PROVE  UpdateAt(d, m)' = IF m = n THEN u ELSE UpdateAt(d, m)
    <3>1. CASE m = n
      <4>1. ASSUME NEW v \in Stored(d)', SequenceOf(d, v)' = n  PROVE v = u
        BY <4>1, <1>4, <1>5, PositionsTaken, <1>0
      <4>2. {v \in Stored(d)' : SequenceOf(d, v)' = n} = {u}
        BY <1>5, <4>1
      <4>3. UpdateAt(d, n)' = u
        BY <4>2, OneOfMeans DEF UpdateAt
      <4> QED  BY <3>1, <4>3
    <3>2. CASE m # n
      <4>1. {v \in Stored(d)' : SequenceOf(d, v)' = m} = {v \in Stored(d) : SequenceOf(d, v) = m}
        BY <3>2, <1>5
      <4> QED  BY <3>2, <4>1 DEF UpdateAt
    <3> QED  BY <3>1, <3>2
  <2>2. ASSUME NEW e \in Documents \ {d}, NEW m \in 1..MAX_SEQUENCE
        PROVE  UpdateAt(e, m)' = UpdateAt(e, m)
    <3>1. {v \in Stored(e)' : SequenceOf(e, v)' = m} = {v \in Stored(e) : SequenceOf(e, v) = m}
      BY <1>5
    <3> QED  BY <3>1 DEF UpdateAt
  <2>3. n \in 1..MAX_SEQUENCE  BY <1>4, Constants
  <2> QED  BY <2>1, <2>2, <2>3 DEF Order
<1> QED
  BY <1>2, <1>3, <1>4, <1>6, <1>7, <1>8
  DEF Oracle!accept, Oracle!AdditionalPeers, PeersOf, Order, OraclePeers, OracleRows

\* The oracle sees no other step.
LEMMA TablesKeepOracle == UNCHANGED tables => UNCHANGED Oracle!vars
  BY DEF tables, Oracle!vars, UpdateAt, OracleUpdate, Stored, SequenceOf, RecordOf

\* OracleUpdates: under the mapping of UpdateRefinement the store is an
\* implementation of the oracle, for every number of documents and updates.
THEOREM OracleUpdatesCorrect == Spec => OracleUpdates
<1>1. Init => Oracle!Init
  <2> SUFFICES ASSUME Init PROVE Oracle!Init
    OBVIOUS
  <2>1. \A d \in Documents, n \in 1..MAX_SEQUENCE : UpdateAt(d, n) = Null
    BY OneOfMeans DEF Init, UpdateAt, Stored
  <2>2. \A d \in Documents, u \in UpdateIds : OracleUpdate(d, u) = Null
    BY DEF Init, OracleUpdate
  <2> QED  BY <2>1, <2>2 DEF Init, Oracle!Init
<1>2. TablesInv /\ TablesInv' /\ [Next]_vars => [Oracle!Next]_Oracle!vars
  <2> SUFFICES ASSUME TablesInv, TablesInv', [Next]_vars
               PROVE  Oracle!Next \/ UNCHANGED Oracle!vars
    OBVIOUS
  <2> QED  BY OnlyAcceptWrites, AcceptRefines, TablesKeepOracle DEF Oracle!Next
<1> QED  BY <1>1, <1>2, TablesCorrect, PTL DEF Spec, OracleUpdates, Oracle!Spec
============================================================================
