---------------------------- MODULE UpdateStore -----------------------------
(***************************************************************************)
(* The update side of renee-stored (store.rs): acceptance of immutable     *)
(* updates, and the passes by which a client reads their metadata page by  *)
(* page with opaque continuation tokens.                                   *)
(*                                                                         *)
(* The tables are durable and change in one transaction.  The passes are   *)
(* in memory: a restart forgets them, a closed channel, a revocation and a *)
(* retirement purge them, and a pass that idles expires.  A call on the    *)
(* store is one step, because the service keeps it behind a mutex.         *)
(*                                                                         *)
(* A page is the set of update identifiers whose metadata it carries; its  *)
(* order has no meaning (renee-model/src/lib.rs:524).  A capability is one *)
(* with the read and update operations, presented with its authenticator;  *)
(* CapabilityStore models how it comes to hold them.  A token is the index *)
(* at which it was minted, so tokens never collide.  A channel identity    *)
(* is used once in the life of a process: the channels are open from the   *)
(* start of the process, and close.                                        *)
(***************************************************************************)
EXTENDS Integers, Sequences, FiniteSets, FiniteSetsExt

CONSTANTS
  Documents, UpdateIds, Peers, Capabilities, Channels, Null,
  Records,      \* encoded records a client may send, malformed ones too
  Versions,     \* Loro oplog versions a client may present
  Descendants,  \* a capability and everything delegated from it
  Queries,      \* bound of the model: the <<channel, capability, version>> that
                \* are read from; the version of an enumeration is Null
  MAX_SEQUENCE,                    \* u64::MAX
  MAX_LORO_PEERS,
  MAX_LORO_COUNTER,
  MAX_UPDATE_OPERATIONS,
  MAX_APPLICATION_PAYLOAD_LENGTH,
  MAX_ENUMERATION_SCAN_RECORDS,
  MAX_VECTOR_SCAN_RECORDS,
  MAX_PASSES,                      \* the limits of either table of passes
  MAX_PASSES_PER_CHANNEL,
  MAX_PASSES_PER_DOCUMENT,
  MAX_PASSES_PER_AUTHORITY,
  MAX_TOKENS                       \* bound of the model: tokens minted

VARIABLES
  updates,               \* document -> update -> row, or Null
  acceptance_sequences,  \* document -> next_sequence, or Null
  update_loro_ranges,    \* rows [document, update, range]
  document_loro_peers,   \* rows <<document, peer>>
  revoked,               \* <<document, capability>> without authority
  retired,               \* documents that are retired
  channels,              \* the channels that are open
  enumeration_passes,
  vector_passes,
  issued                 \* history: what each minted token stands for

tables == <<updates, acceptance_sequences, update_loro_ranges, document_loro_peers>>
authority == <<revoked, retired>>
passes == <<enumeration_passes, vector_passes>>
vars == <<tables, authority, channels, passes, issued>>

ASSUME UpdateConstants ==
  /\ {MAX_LORO_PEERS, MAX_LORO_COUNTER, MAX_UPDATE_OPERATIONS,
      MAX_APPLICATION_PAYLOAD_LENGTH, MAX_ENUMERATION_SCAN_RECORDS,
      MAX_VECTOR_SCAN_RECORDS, MAX_PASSES, MAX_PASSES_PER_CHANNEL,
      MAX_PASSES_PER_DOCUMENT, MAX_PASSES_PER_AUTHORITY, MAX_SEQUENCE}
       \subseteq Nat \ {0}
  /\ Versions \subseteq [Peers -> 0..MAX_LORO_COUNTER]
  /\ Descendants \in [Capabilities -> SUBSET Capabilities]
  /\ \A c \in Capabilities : c \in Descendants[c]
  /\ Queries \subseteq Channels \X Capabilities \X (Versions \cup {Null})
  /\ Null \notin UpdateIds \cup Nat \cup Versions
  /\ MAX_TOKENS \in Nat

\* Identifiers and peers have a fixed width, and an encoded record names public
\* ranges and carries a payload, of which the length is kept.
ASSUME RecordAssumption ==
  /\ IsFiniteSet(UpdateIds) /\ IsFiniteSet(Peers)
  /\ Records \subseteq
       [ranges : SUBSET [peer : Peers, start : Nat, end : Nat], payload : Nat]
----------------------------------------------------------------------------
\* Lengths of the wire format, in bytes.
IDENTIFIER_LENGTH == 16
CAPABILITY_AUTHORITY_LENGTH == 48
RANGE_LENGTH == 16
RECORD_FIXED_LENGTH == 50
CONTINUATION_LENGTH == 32
MAX_UPDATE_RECORD_LENGTH == MAX_APPLICATION_PAYLOAD_LENGTH - CAPABILITY_AUTHORITY_LENGTH

\* has_more, the cursor with its length, and the number of entries.
response_base_length(cursor_length) == 1 + 2 + cursor_length + 2

\* The dispatcher reserves the room of a cursor in every page.
metadata_byte_limit ==
  MAX_APPLICATION_PAYLOAD_LENGTH - response_base_length(CONTINUATION_LENGTH)

metadata_encoded_length(record) ==
  IDENTIFIER_LENGTH + 2 + RANGE_LENGTH * Cardinality(record.ranges) + 4

ensure_metadata_is_enumerable(record) ==
  metadata_encoded_length(record) <= metadata_byte_limit

\* LoroRange::new
ValidRange(range) ==
  /\ range.start <= MAX_LORO_COUNTER
  /\ range.end <= MAX_LORO_COUNTER
  /\ range.start < range.end
  /\ range.end - range.start <= MAX_UPDATE_OPERATIONS

\* PublicLoroRanges::new
ValidRanges(ranges) ==
  /\ ranges # {}
  /\ Cardinality(ranges) <= MAX_LORO_PEERS
  /\ \A a, b \in ranges : a.peer = b.peer => a = b
  /\ MapThenSumSet(LAMBDA range : range.end - range.start, ranges)
       <= MAX_UPDATE_OPERATIONS

\* Whether decode_update_record accepts the bytes.
decode_update_record(record) ==
  /\ RECORD_FIXED_LENGTH + RANGE_LENGTH * Cardinality(record.ranges) + record.payload
       <= MAX_UPDATE_RECORD_LENGTH
  /\ \A range \in record.ranges : ValidRange(range)
  /\ ValidRanges(record.ranges)
  /\ record.payload > 0
  /\ ensure_metadata_is_enumerable(record)

ValidRecords == {r \in Records : decode_update_record(r)}

Row == [acceptance_sequence : 1..MAX_SEQUENCE,
        encoded_record : ValidRecords]

ASSUME NullIsNoRow == Null \notin Row
----------------------------------------------------------------------------
\* Acceptance.

Stored(d) == {u \in UpdateIds : updates[d][u] # Null}

SequenceOf(d, u) == updates[d][u].acceptance_sequence

RecordOf(d, u) == updates[d][u].encoded_record

\* The rows of a document in a window of acceptance positions.
Window(d, after, through) ==
  {u \in Stored(d) : after < SequenceOf(d, u) /\ SequenceOf(d, u) <= through}

\* Mutant of checked_next: the end of the domain is not looked at.
checked_next_unchecked(sequence) == sequence + 1

checked_next(sequence) == IF sequence < MAX_SEQUENCE THEN sequence + 1 ELSE Null

next_sequence(d) ==
  IF acceptance_sequences[d] = Null THEN 1 ELSE acceptance_sequences[d]

PeersOf(record) == {range.peer : range \in record.ranges}

\* insert_document_loro_peers: the union after the update.
PeerUnion(d, record) ==
  {p \in Peers : <<d, p>> \in document_loro_peers} \cup PeersOf(record)

authorize_document(d, c) ==
  IF <<d, c>> \in revoked THEN "AuthorizationDenied"
  ELSE IF d \in retired THEN "RetiredDocument"
  ELSE "Authorized"

authorize(d, c) == authorize_document(d, c) = "Authorized"

\* Mutant of accept_outcome: the peers of the document are not counted.
accept_outcome_unlimited(d, c, u, record) ==
  IF record \notin ValidRecords THEN "Malformed"
  ELSE IF ~authorize(d, c) THEN "AuthorizationDenied"
  ELSE IF u \in Stored(d)
  THEN IF RecordOf(d, u) = record THEN "AlreadyPresent" ELSE "IdentifierConflict"
  ELSE IF checked_next(next_sequence(d)) = Null THEN "CounterExhausted"
  ELSE "Inserted"

\* Mutant of accept_outcome: a retry is recognised by its identifier alone.
accept_outcome_by_id(d, c, u, record) ==
  IF record \notin ValidRecords THEN "Malformed"
  ELSE IF ~authorize(d, c) THEN "AuthorizationDenied"
  ELSE IF u \in Stored(d) THEN "AlreadyPresent"
  ELSE IF checked_next(next_sequence(d)) = Null THEN "CounterExhausted"
  ELSE IF Cardinality(PeerUnion(d, record)) > MAX_LORO_PEERS THEN "LimitExceeded"
  ELSE "Inserted"

accept_outcome(d, c, u, record) ==
  IF record \notin ValidRecords THEN "Malformed"
  ELSE IF ~authorize(d, c) THEN "AuthorizationDenied"
  ELSE IF u \in Stored(d)
  THEN IF RecordOf(d, u) = record THEN "AlreadyPresent" ELSE "IdentifierConflict"
  ELSE IF checked_next(next_sequence(d)) = Null THEN "CounterExhausted"
  ELSE IF Cardinality(PeerUnion(d, record)) > MAX_LORO_PEERS THEN "LimitExceeded"
  ELSE "Inserted"

\* insert_update_ranges
RangeRows(d, u, record) ==
  {[document |-> d, update |-> u, range |-> range] : range \in record.ranges}

\* Mutant of accept: the counter of the document is not stored.
accept_uncounted(d, c, u, record) ==
  /\ accept_outcome(d, c, u, record) = "Inserted"
  /\ updates' =
       [updates EXCEPT ![d][u] =
          [acceptance_sequence |-> next_sequence(d), encoded_record |-> record]]
  /\ update_loro_ranges' = update_loro_ranges \cup RangeRows(d, u, record)
  /\ document_loro_peers' =
       document_loro_peers \cup {<<d, p>> : p \in PeersOf(record)}
  /\ UNCHANGED <<acceptance_sequences, authority, channels, passes, issued>>

accept(d, c, u, record) ==
  /\ accept_outcome(d, c, u, record) = "Inserted"
  /\ acceptance_sequences' =
       [acceptance_sequences EXCEPT ![d] = checked_next(next_sequence(d))]
  /\ updates' =
       [updates EXCEPT ![d][u] =
          [acceptance_sequence |-> next_sequence(d), encoded_record |-> record]]
  /\ update_loro_ranges' = update_loro_ranges \cup RangeRows(d, u, record)
  /\ document_loro_peers' =
       document_loro_peers \cup {<<d, p>> : p \in PeersOf(record)}
  /\ UNCHANGED <<authority, channels, passes, issued>>

\* fetch_authorized: the payload of one update.
fetch_outcome(d, c, u) ==
  IF ~authorize(d, c) THEN "AuthorizationDenied"
  ELSE IF u \in Stored(d) THEN RecordOf(d, u).payload
  ELSE "NotFound"
----------------------------------------------------------------------------
\* Pages.

\* high_water_sequence_in; 0 when the document has no update.
high_water_sequence_in(d) == Max({SequenceOf(d, u) : u \in Stored(d)} \cup {0})

\* The metadata_encoded_length of the entries of a page together: the fixed part
\* of each entry, and the ranges of all of them.
Bytes(d, S) ==
  (IDENTIFIER_LENGTH + 2 + 4) * Cardinality(S)
    + RANGE_LENGTH * Cardinality(UNION {RangeRows(d, u, RecordOf(d, u)) : u \in S})

Fits(d, S) == Bytes(d, S) <= metadata_byte_limit

\* The positions of a window are read one by one, until the scan bound or the
\* first entry that does not fit.
enumerate_in(d, lower, terminal, ordinal) ==
  LET window_length == terminal - lower
      scan_end == Min({ordinal + MAX_ENUMERATION_SCAN_RECORDS, window_length})
      Read(n) == Window(d, lower + ordinal, lower + n)
      next == Max({n \in ordinal..scan_end : Fits(d, Read(n))})
      looked == Min({next + 1, scan_end})
  IN  IF window_length <= 0 \/ ordinal >= window_length THEN [error |-> "InvalidCursor"]
      ELSE IF Cardinality(Read(looked)) # looked - ordinal THEN [error |-> "Corrupt"]
      ELSE [error |-> Null, has_more |-> next < window_length,
            next_ordinal |-> next, updates |-> Read(next)]

\* Mutant of Selected: off by one at the end of what the version covers.
Selected_inclusive(d, u, version) ==
  \E range \in RecordOf(d, u).ranges : range.end >= version[range.peer]

\* Some range of the update ends beyond what the version covers of its peer;
\* end_counter_for is 0 for a peer that the version does not name.
Selected(d, u, version) ==
  \E range \in RecordOf(d, u).ranges : range.end > version[range.peer]

\* The rows of a window are scanned in order, until the scan bound or the
\* first selected entry that does not fit.
vector_backfill_in(d, position, terminal, version) ==
  LET rows == Window(d, position, terminal)
      Examined(n) == Window(d, position, n)
      Chosen(n) == {u \in Examined(n) : Selected(d, u, version)}
      Exists(n) == n = 0 \/ \E u \in Stored(d) : SequenceOf(d, u) = n
      last == Max({n \in position..terminal :
                     /\ Cardinality(Examined(n)) <= MAX_VECTOR_SCAN_RECORDS
                     /\ Fits(d, Chosen(n))})
  IN  IF \/ terminal = 0 \/ position > terminal
         \/ ~Exists(position) \/ ~Exists(terminal)
      THEN [error |-> "InvalidCursor"]
      ELSE [error |-> Null, has_more |-> Examined(last) # rows,
            last_examined_sequence |-> IF Examined(last) = {} THEN Null ELSE last,
            updates |-> Chosen(last)]

Response(has_more, next_cursor, S) ==
  [has_more |-> has_more, next_cursor |-> next_cursor, updates |-> S]

EmptyResponse == Response(FALSE, Null, {})

encoded_length(d, response) ==
  response_base_length(IF response.next_cursor = Null THEN 0 ELSE CONTINUATION_LENGTH)
    + Bytes(d, response.updates)

\* Whether the response of the dispatcher can be encoded.
encode_enumerate_response(d, response) ==
  /\ response.has_more => response.updates # {}
  /\ (response.next_cursor # Null) <=> (response.updates # {})
  /\ encoded_length(d, response) <= MAX_APPLICATION_PAYLOAD_LENGTH

encode_vector_backfill_response(d, response) ==
  /\ response.has_more <=> (response.next_cursor # Null)
  /\ encoded_length(d, response) <= MAX_APPLICATION_PAYLOAD_LENGTH
----------------------------------------------------------------------------
\* Passes and tokens.

recognizes(ch) == ch \in channels

Admits(table, ch, d, c) ==
  LET OfDocument == {p \in table : p.document = d}
  IN  /\ Cardinality(table) < MAX_PASSES
      /\ Cardinality({p \in table : p.channel = ch}) < MAX_PASSES_PER_CHANNEL
      /\ Cardinality(OfDocument) < MAX_PASSES_PER_DOCUMENT
      /\ Cardinality({p \in OfDocument : p.capability = c}) < MAX_PASSES_PER_AUTHORITY

\* Mutant of can_admit_enumeration_pass: the pass that goes is still counted.
can_admit_before_removal(table, ch, d, c) == Admits(enumeration_passes, ch, d, c)

can_admit_enumeration_pass(table, ch, d, c) == Admits(table, ch, d, c)

can_admit_vector_pass(table, ch, d, c) == Admits(table, ch, d, c)

mint_token == Len(issued) + 1

Position(mode, next_ordinal, token) ==
  [mode |-> mode, next_ordinal |-> next_ordinal, token |-> token]

Retried(p, token, mode) ==
  p.retry # Null /\ p.retry.token = token /\ p.retry.mode = mode

enumeration_pass_contains_token(p, token, mode) ==
  \/ p.current.token = token /\ p.current.mode = mode
  \/ Retried(p, token, mode)

vector_pass_contains_token(p, token) ==
  \/ p.current # Null /\ p.current.token = token
  \/ p.retry # Null /\ p.retry.token = token

\* Mutant of SameAuthority: a token is good on every channel.
SameAuthority_any_channel(p, ch, d, c) == p.document = d /\ p.capability = c

SameAuthority(p, ch, d, c) == p.channel = ch /\ p.document = d /\ p.capability = c

\* The result of a call: its outcome, its response, and the table of passes
\* that it leaves.
Refused(outcome, table) == [outcome |-> outcome, passes |-> table]

Answered(response, table) ==
  [outcome |-> "Authorized", response |-> response, passes |-> table]

authorize_read(ch, d, c) ==
  IF recognizes(ch) THEN authorize_document(d, c) ELSE "AuthorizationDenied"

EnumerationMode(page) == IF page.has_more THEN "Continue" ELSE "AfterTail"

\* enumerate_authorized from the origin: the passes of the same query go first,
\* whether or not the new one is admitted.
enumerate_from_origin(ch, d, c) ==
  LET kept == {p \in enumeration_passes : ~SameAuthority(p, ch, d, c)}
      terminal == high_water_sequence_in(d)
      page == enumerate_in(d, 0, terminal, 0)
      pass == [channel |-> ch, document |-> d, capability |-> c,
               current |-> Position(EnumerationMode(page), page.next_ordinal, mint_token),
               lower |-> 0, terminal |-> terminal, retry |-> Null]
  IN  IF authorize_read(ch, d, c) # "Authorized"
      THEN Refused(authorize_read(ch, d, c), enumeration_passes)
      ELSE IF terminal = 0 THEN Answered(EmptyResponse, kept)
      ELSE IF page.error # Null \/ page.updates = {} THEN Refused("Corrupt", kept)
      ELSE IF ~can_admit_enumeration_pass(kept, ch, d, c) THEN Refused("Backpressure", kept)
      ELSE Answered(Response(page.has_more, mint_token, page.updates), kept \cup {pass})

\* Mutant of NextWindow: the end of the window is read again for every page.
NextWindow_moving(pass, mode) ==
  IF mode = "Continue"
  THEN [lower |-> pass.lower, terminal |-> high_water_sequence_in(pass.document),
        ordinal |-> pass.current.next_ordinal]
  ELSE [lower |-> pass.terminal, terminal |-> high_water_sequence_in(pass.document),
        ordinal |-> 0]

\* The window that a token leads to: the rest of its own, or after the tail
\* what was accepted since.
NextWindow(pass, mode) ==
  IF mode = "Continue"
  THEN [lower |-> pass.lower, terminal |-> pass.terminal,
        ordinal |-> pass.current.next_ordinal]
  ELSE [lower |-> pass.terminal, terminal |-> high_water_sequence_in(pass.document),
        ordinal |-> 0]

\* The pass after one more page: its successor token is current and the
\* answer is kept for a retry of this one.
AdvancedEnumeration(pass, mode, window, page, response) ==
  [pass EXCEPT
     !.current = Position(EnumerationMode(page), page.next_ordinal, response.next_cursor),
     !.lower = window.lower,
     !.terminal = window.terminal,
     !.retry = [mode |-> mode, response |-> response, token |-> pass.current.token]]

\* enumerate_authorized with a continuation of either mode.
enumerate_from_token(ch, d, c, mode, token) ==
  LET found == {p \in enumeration_passes : enumeration_pass_contains_token(p, token, mode)}
      pass == CHOOSE p \in found : TRUE
      window == NextWindow(pass, mode)
      page == enumerate_in(d, window.lower, window.terminal, window.ordinal)
      response == Response(page.has_more, mint_token, page.updates)
      advanced == AdvancedEnumeration(pass, mode, window, page, response)
  IN  IF authorize_read(ch, d, c) # "Authorized"
      THEN Refused(authorize_read(ch, d, c), enumeration_passes)
      ELSE IF found = {} \/ ~SameAuthority(pass, ch, d, c)
      THEN Refused("InvalidContinuation", enumeration_passes)
      ELSE IF Retried(pass, token, mode)
      THEN Answered(pass.retry.response, enumeration_passes)
      ELSE IF window.terminal < pass.terminal
      THEN Refused("InvalidContinuation", enumeration_passes)
      ELSE IF mode = "AfterTail" /\ window.terminal = pass.terminal
      THEN Answered(EmptyResponse, enumeration_passes)
      ELSE IF page.error = "InvalidCursor"
      THEN Refused("InvalidContinuation", enumeration_passes \ {pass})
      ELSE IF page.error # Null \/ page.updates = {}
      THEN Refused("Corrupt", enumeration_passes)
      ELSE Answered(response, (enumeration_passes \ {pass}) \cup {advanced})

\* vector_backfill_authorized from the origin.  Only a scan that goes on makes
\* a pass, and only then do the passes of the same query go.
vector_from_origin(ch, d, c, version) ==
  LET terminal == high_water_sequence_in(d)
      page == vector_backfill_in(d, 0, terminal, version)
      kept == {p \in vector_passes : ~(SameAuthority(p, ch, d, c) /\ p.version = version)}
      pass == [channel |-> ch, document |-> d, capability |-> c, version |-> version,
               current |-> [position |-> page.last_examined_sequence, token |-> mint_token],
               terminal |-> terminal, retry |-> Null]
  IN  IF authorize_read(ch, d, c) # "Authorized"
      THEN Refused(authorize_read(ch, d, c), vector_passes)
      ELSE IF terminal = 0 THEN Answered(EmptyResponse, vector_passes)
      ELSE IF page.error # Null THEN Refused("Error", vector_passes)
      ELSE IF ~page.has_more
      THEN Answered(Response(FALSE, Null, page.updates), vector_passes)
      ELSE IF page.last_examined_sequence = Null THEN Refused("Corrupt", vector_passes)
      ELSE IF ~can_admit_vector_pass(kept, ch, d, c) THEN Refused("Backpressure", kept)
      ELSE Answered(Response(TRUE, mint_token, page.updates), kept \cup {pass})

AdvancedVector(pass, page, response) ==
  [pass EXCEPT
     !.current = IF page.has_more
                 THEN [position |-> page.last_examined_sequence, token |-> response.next_cursor]
                 ELSE Null,
     !.retry = [response |-> response, token |-> pass.current.token]]

\* vector_backfill_authorized with a continuation.
vector_from_token(ch, d, c, version, token) ==
  LET found == {p \in vector_passes : vector_pass_contains_token(p, token)}
      pass == CHOOSE p \in found : TRUE
      page == vector_backfill_in(d, pass.current.position, pass.terminal, version)
      response == Response(page.has_more, IF page.has_more THEN mint_token ELSE Null,
                           page.updates)
      advanced == AdvancedVector(pass, page, response)
  IN  IF authorize_read(ch, d, c) # "Authorized"
      THEN Refused(authorize_read(ch, d, c), vector_passes)
      ELSE IF found = {} \/ ~SameAuthority(pass, ch, d, c) \/ pass.version # version
      THEN Refused("InvalidContinuation", vector_passes)
      ELSE IF pass.retry # Null /\ pass.retry.token = token
      THEN Answered(pass.retry.response, vector_passes)
      ELSE IF page.error = "InvalidCursor"
      THEN Refused("InvalidContinuation", vector_passes \ {pass})
      ELSE IF page.has_more /\ page.last_examined_sequence = Null
      THEN Refused("Corrupt", vector_passes)
      ELSE Answered(response, (vector_passes \ {pass}) \cup {advanced})
----------------------------------------------------------------------------
\* History.  A token remembers the query it belongs to, how often its chain of
\* pages has delivered each update, the highest position when the window of
\* its query was captured, and the first page it was exchanged for.

Count(S) == [u \in UpdateIds |-> IF u \in S THEN 1 ELSE 0]

Add(delivered, S) == [u \in UpdateIds |-> delivered[u] + Count(S)[u]]

Ticket(mode, ch, d, c, version, delivered, captured) ==
  [mode |-> mode, channel |-> ch, document |-> d, capability |-> c,
   version |-> version, delivered |-> delivered, captured |-> captured,
   answer |-> Null]

Minted(result) ==
  result.outcome = "Authorized" /\ result.response.next_cursor = mint_token

\* A token is known to the client, and a new one can be minted.
Presentable(token) == token \in 1..Len(issued) /\ Len(issued) < MAX_TOKENS

Exchanged(token, result, table) ==
  IF result.outcome = "Authorized" /\ result.passes # table /\ issued[token].answer = Null
  THEN [issued EXCEPT ![token].answer = result.response]
  ELSE issued

\* The mode of the token of a response.
ModeOf(response) == IF response.has_more THEN "Continue" ELSE "AfterTail"
----------------------------------------------------------------------------
\* Requests.

EnumerateOrigin(ch, d, c) ==
  LET result == enumerate_from_origin(ch, d, c)
  IN  /\ Len(issued) < MAX_TOKENS
      /\ enumeration_passes' = result.passes
      /\ issued' =
           IF Minted(result)
           THEN Append(issued,
                  Ticket(ModeOf(result.response), ch, d, c, Null,
                         Count(result.response.updates), high_water_sequence_in(d)))
           ELSE issued
      /\ UNCHANGED <<tables, authority, channels, vector_passes>>

EnumerateToken(ch, d, c, mode, token) ==
  LET result == enumerate_from_token(ch, d, c, mode, token)
      exchanged == Exchanged(token, result, enumeration_passes)
      captured == IF mode = "AfterTail" THEN high_water_sequence_in(d)
                  ELSE issued[token].captured
  IN  /\ Presentable(token)
      /\ enumeration_passes' = result.passes
      /\ issued' =
           IF Minted(result)
           THEN Append(exchanged,
                  Ticket(ModeOf(result.response), ch, d, c, Null,
                         Add(issued[token].delivered, result.response.updates), captured))
           ELSE exchanged
      /\ UNCHANGED <<tables, authority, channels, vector_passes>>

VectorOrigin(ch, d, c, version) ==
  LET result == vector_from_origin(ch, d, c, version)
  IN  /\ Len(issued) < MAX_TOKENS
      /\ vector_passes' = result.passes
      /\ issued' =
           IF Minted(result)
           THEN Append(issued,
                  Ticket("Vector", ch, d, c, version,
                         Count(result.response.updates), high_water_sequence_in(d)))
           ELSE issued
      /\ UNCHANGED <<tables, authority, channels, enumeration_passes>>

VectorToken(ch, d, c, version, token) ==
  LET result == vector_from_token(ch, d, c, version, token)
      exchanged == Exchanged(token, result, vector_passes)
  IN  /\ Presentable(token)
      /\ vector_passes' = result.passes
      /\ issued' =
           IF Minted(result)
           THEN Append(exchanged,
                  Ticket("Vector", ch, d, c, version,
                         Add(issued[token].delivered, result.response.updates),
                         issued[token].captured))
           ELSE exchanged
      /\ UNCHANGED <<tables, authority, channels, enumeration_passes>>
----------------------------------------------------------------------------
\* Everything else that touches the passes.

\* ENUMERATION_PASS_IDLE_TTL and VECTOR_PASS_IDLE_TTL: time passes between two
\* calls, and the next call drops the pass before it looks at the table.
ExpireEnumeration(pass) ==
  /\ enumeration_passes' = enumeration_passes \ {pass}
  /\ UNCHANGED <<tables, authority, channels, vector_passes, issued>>

ExpireVector(pass) ==
  /\ vector_passes' = vector_passes \ {pass}
  /\ UNCHANGED <<tables, authority, channels, enumeration_passes, issued>>

Passes == enumeration_passes \cup vector_passes

Purge(gone) ==
  /\ enumeration_passes' = enumeration_passes \ gone
  /\ vector_passes' = vector_passes \ gone

close_broker_channel(ch) ==
  /\ recognizes(ch)
  /\ channels' = channels \ {ch}
  /\ Purge({p \in Passes : p.channel = ch})
  /\ UNCHANGED <<tables, authority, issued>>

\* Mutant of revoke_capability: only the passes of the target go.
revoke_capability_shallow(d, c) ==
  /\ <<d, c>> \notin revoked
  /\ d \notin retired
  /\ revoked' = revoked \cup ({d} \X Descendants[c])
  /\ Purge({p \in Passes : p.document = d /\ p.capability = c})
  /\ UNCHANGED <<tables, retired, channels, issued>>

\* revoke_capability commits, and drops the passes of the subtree.
revoke_capability(d, c) ==
  /\ <<d, c>> \notin revoked
  /\ d \notin retired
  /\ revoked' = revoked \cup ({d} \X Descendants[c])
  /\ Purge({p \in Passes : p.document = d /\ p.capability \in Descendants[c]})
  /\ UNCHANGED <<tables, retired, channels, issued>>

publish_committed_retirement(d) ==
  /\ d \notin retired
  /\ retired' = retired \cup {d}
  /\ Purge({p \in Passes : p.document = d})
  /\ UNCHANGED <<tables, revoked, channels, issued>>
----------------------------------------------------------------------------
\* Recovery: the checks of validate on the update tables.

ContiguousPositions(d) ==
  /\ \A u, v \in Stored(d) : SequenceOf(d, u) = SequenceOf(d, v) => u = v
  /\ {SequenceOf(d, u) : u \in Stored(d)} = 1..Cardinality(Stored(d))
  /\ Cardinality(Stored(d)) < MAX_SEQUENCE

RangesIndexed ==
  update_loro_ranges =
    UNION {UNION {RangeRows(d, u, RecordOf(d, u)) : u \in Stored(d)} : d \in Documents}

StoredPeers(d) == UNION {PeersOf(RecordOf(d, u)) : u \in Stored(d)}

PeersIndexed ==
  document_loro_peers = UNION {{d} \X StoredPeers(d) : d \in Documents}

CounterFollows(d) ==
  Stored(d) # {} => acceptance_sequences[d] = Cardinality(Stored(d)) + 1

validate ==
  /\ \A d \in Documents :
       /\ ContiguousPositions(d)
       /\ \A u \in Stored(d) : RecordOf(d, u) \in ValidRecords
       /\ Cardinality(StoredPeers(d)) <= MAX_LORO_PEERS
       /\ CounterFollows(d)
  /\ RangesIndexed
  /\ PeersIndexed

\* The process ends between two transactions and starts again: the tables are
\* what was committed, the passes are gone and channels are numbered anew.
open ==
  /\ validate
  /\ channels' = Channels
  /\ enumeration_passes' = {}
  /\ vector_passes' = {}
  /\ UNCHANGED <<tables, authority, issued>>
----------------------------------------------------------------------------
Init ==
  /\ updates = [d \in Documents |-> [u \in UpdateIds |-> Null]]
  /\ acceptance_sequences = [d \in Documents |-> Null]
  /\ update_loro_ranges = {}
  /\ document_loro_peers = {}
  /\ revoked = {}
  /\ retired = {}
  /\ channels = Channels
  /\ enumeration_passes = {}
  /\ vector_passes = {}
  /\ issued = <<>>

Accept ==
  \E d \in Documents, c \in Capabilities, u \in UpdateIds, r \in Records :
    accept(d, c, u, r)

Enumerate ==
  \E d \in Documents, q \in {x \in Queries : x[3] = Null} :
    \/ EnumerateOrigin(q[1], d, q[2])
    \/ \E mode \in {"Continue", "AfterTail"}, token \in 1..MAX_TOKENS :
         EnumerateToken(q[1], d, q[2], mode, token)

Backfill ==
  \E d \in Documents, q \in {x \in Queries : x[3] # Null} :
    \/ VectorOrigin(q[1], d, q[2], q[3])
    \/ \E token \in 1..MAX_TOKENS : VectorToken(q[1], d, q[2], q[3], token)

Expire ==
  \/ \E pass \in enumeration_passes : ExpireEnumeration(pass)
  \/ \E pass \in vector_passes : ExpireVector(pass)

Control ==
  \/ \E d \in Documents, c \in Capabilities : revoke_capability(d, c)
  \/ \E d \in Documents : publish_committed_retirement(d)

Disconnect == \E ch \in Channels : close_broker_channel(ch)

Next == Accept \/ Enumerate \/ Backfill \/ Expire \/ Control \/ Disconnect \/ open

Spec == Init /\ [][Next]_vars
----------------------------------------------------------------------------
\* Properties.

Responses ==
  [has_more : BOOLEAN, next_cursor : {Null} \cup 1..MAX_TOKENS, updates : SUBSET UpdateIds]

Modes == {"Continue", "AfterTail"}

EnumerationRetry == [mode : Modes, response : Responses, token : 1..MAX_TOKENS]

EnumerationPass ==
  [channel : Channels, document : Documents, capability : Capabilities,
   current : [mode : Modes, next_ordinal : 1..MAX_SEQUENCE, token : 1..MAX_TOKENS],
   lower : 0..MAX_SEQUENCE, terminal : 1..MAX_SEQUENCE,
   retry : {Null} \cup EnumerationRetry]

VectorPosition == [position : 1..MAX_SEQUENCE, token : 1..MAX_TOKENS]

VectorRetry == [response : Responses, token : 1..MAX_TOKENS]

VectorPass ==
  [channel : Channels, document : Documents, capability : Capabilities,
   version : Versions, current : {Null} \cup VectorPosition,
   terminal : 1..MAX_SEQUENCE, retry : {Null} \cup VectorRetry]

Tickets ==
  [mode : Modes \cup {"Vector"}, channel : Channels, document : Documents,
   capability : Capabilities, version : {Null} \cup Versions,
   delivered : [UpdateIds -> Nat], captured : 1..MAX_SEQUENCE,
   answer : {Null} \cup Responses]

ASSUME NullIsNoValue ==
  /\ Null \notin EnumerationRetry \cup VectorPosition \cup VectorRetry \cup Responses
  /\ Null # "InvalidCursor"

\* The tables, passes and tokens have the shape that store.rs declares.
TypeOK ==
  /\ updates \in [Documents -> [UpdateIds -> {Null} \cup Row]]
  /\ acceptance_sequences \in [Documents -> {Null} \cup 1..MAX_SEQUENCE]
  /\ \A row \in update_loro_ranges :
       row.document \in Documents /\ row.update \in Stored(row.document)
  /\ document_loro_peers \subseteq Documents \X Peers
  /\ revoked \subseteq Documents \X Capabilities
  /\ retired \subseteq Documents
  /\ channels \subseteq Channels
  /\ enumeration_passes \subseteq EnumerationPass
  /\ vector_passes \subseteq VectorPass
  /\ issued \in Seq(Tickets) /\ Len(issued) <= MAX_TOKENS

\* Whenever the process ends, the store opens again: acceptance keeps the
\* positions of a document contiguous, its counter right behind them, and the
\* two Loro indexes equal to what validate recomputes from the records.
UpdateRecovery == validate

\* A token is honoured only for the query and on the channel it was minted for,
\* and once it was exchanged for a page it never gives another one: a retry is
\* answered with the same page and the same next cursor, or not at all.
TokenAnswers ==
  \A t \in 1..Len(issued) : \A ch \in Channels, d \in Documents, c \in Capabilities :
    LET ticket == issued[t]
        Faithful(result, mode, version) ==
          result.outcome = "Authorized" =>
            /\ ticket.mode = mode /\ ticket.version = version
            /\ ticket.channel = ch /\ ticket.document = d /\ ticket.capability = c
            /\ ticket.answer # Null => result.response = ticket.answer
    IN  /\ \A mode \in {"Continue", "AfterTail"} :
             Faithful(enumerate_from_token(ch, d, c, mode, t), mode, Null)
        /\ \A version \in Versions :
             Faithful(vector_from_token(ch, d, c, version, t), "Vector", version)

\* Every pass that the store keeps can be continued by its owner, and what the
\* owner is answered can be encoded: no pass outlives its channel, its
\* authority or its document, and no accepted record, however long, makes a
\* page that is empty or too long.
PassAnswers ==
  /\ \A p \in enumeration_passes :
       LET result == enumerate_from_token(p.channel, p.document, p.capability,
                                          p.current.mode, p.current.token)
       IN  /\ result.outcome = "Authorized"
           /\ encode_enumerate_response(p.document, result.response)
  /\ \A p \in vector_passes :
       LET token == IF p.current = Null THEN p.retry.token ELSE p.current.token
           result == vector_from_token(p.channel, p.document, p.capability, p.version, token)
       IN  /\ result.outcome = "Authorized"
           /\ encode_vector_backfill_response(p.document, result.response)

\* A client that lost its place starts over without being turned away for the
\* pass it leaves behind, however full the table is.
RestartAdmitted ==
  /\ \A p \in enumeration_passes :
       enumerate_from_origin(p.channel, p.document, p.capability).outcome = "Authorized"
  /\ \A p \in vector_passes :
       vector_from_origin(p.channel, p.document, p.capability, p.version).outcome = "Authorized"
============================================================================
