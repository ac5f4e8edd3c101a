# Verification of renee

renee is a synchronization and persistence service for encrypted documents. This
directory holds TLA+ specifications of its core, the TLC instances that
model-check them and TLAPS proofs of the central safety properties. Every
definition is translated from the Rust source; `PROJECT.json` names the lines.

## The system

```
 client --WebTransport--> gatewayd --pipes--> sessiond --TCP--> stored --SQLite--> disk
                              ^                                    ^
                              +------------ supervisord -----------+
```

| Component | State | Operations | Interacts with | What is hard | What makes it correct |
|---|---|---|---|---|---|
| Capability tables (`renee-stored/src/store.rs`) | documents, delegation tree, create and control receipts, create authorities | create, grant, revoke, authorize, recovery validation, provisioning | connection loop (calls under one mutex), subscriptions and passes that end with a revocation | receipts answered after the issuer lost its authority; limits tested before and validated after; walks bounded by depth; restart | recovery accepts what was written; authority is attenuated, confined and never returns; exact retry |
| Capability oracle (`renee-model`) | the same tree without storage | create, grant, revoke, authorizes | conformance tests compare the service with it | agreement at the limits | the store implements it |
| Update subscriptions (`subscription.rs`, `main.rs` of stored) | registry, atomic state per subscription, two bounded queues, forwarding tasks, emission gates | subscribe, notify, cancel, revoke under exclusion, forward, write, close | store mutex, one task per subscription, one loop per connection | revocation against writes in progress, full queues, cancellation, weak gate entries, slow peers | nothing is emitted on revoked authority; no wakeup is lost silently; no one waits forever |
| Update store (`store.rs`) | acceptance sequences, updates, peers and ranges, enumeration and vector passes | accept, enumerate, vector backfill, fetch | subscriptions (notify), revocation (ends passes) | pages interleaved with acceptance, replayed pages, token expiry, restart | contiguous sequences; a pass skips and repeats nothing |
| Request dispatch (`main.rs` of stored) | none of its own | one handler per message | everything in stored | preflight before a wait | decisions are taken again under the mutex |
| Verifiers (`verifier.rs`) | none | derive, verify | capability tables | domain separation | digests differ between domains |
| Supervisor (`renee-supervisord`) | child processes, restart budgets | start group, monitor, restart, shut down | stored and gatewayd by pipes | sliding window, deadlines, order | stored outlives gatewayd; restarts are bounded |
| Gateway relay (`renee-gatewayd/src/main.rs`) | request tasks, pending correlations, a session process | accept stream, relay, answer, shut down | client and sessiond | two queues in a circle, acknowledgement before events | every request is answered once or the session ends |
| Certificate rotation (`identity.rs`) | control key, manifest, leaves | prepare, rotate, persist | gateway start, clock | crash between leaf and manifest, downtime | windows overlap, epochs are consecutive |
| Session negotiation (`renee-sessiond`) | negotiated flag | hello, relay | gateway, stored | order of messages | nothing is relayed before negotiation |
| Types and wire codec (`renee-types`, `renee-wire`) | none | encode, decode | everyone | canonical forms | decoding inverts encoding |
| Subject, conformance tests, vector tool | - | - | - | - | test equipment |

## Modules

| Module | Models |
|---|---|
| `CapabilityStore` | the control tables of `store.rs`: one action per transaction, plus crash and open |
| `CapabilityModel` | `CapabilityModel` of `renee-model`, the abstract specification |
| `CapabilityRefinement` | the mapping from the store's tables to the oracle's state |
| `CapabilityStoreProofs` | theorems about `CapabilityStore`: types and recovery |
| `CapabilityAuthorityProofs` | authority and receipts, and the refinement of `CapabilityModel`; extends the former and `CapabilityRefinement` |
| `UpdateStoreProofs` | the update tables and the refinement of `UpdateModel`; extends `UpdateRefinement` |
| `UpdatePassesProofs` | passes, pages and tokens; extends `UpdateStoreProofs` |
| `SubscriptionsProofs`, `RelayProofs`, `CertificateRotationProofs`, `SupervisorProofs` | theorems about the module of that name |
| `Subscriptions` | registry, connection loop, forwarding tasks and emission gates |
| `UpdateStore` | acceptance, fetch, enumeration and vector passes of `store.rs`, recovery of the update tables |
| `UpdateModel` | `UpdateModel` of `renee-model`, the abstract specification |
| `UpdateRefinement` | the mapping from the update tables to the oracle, and pages compared with it |
| `Relay` | one public connection: dispatcher and request tasks of gatewayd, the pipes, the loop of sessiond with its negotiation |
| `CertificateRotation` | `identity.rs`: the files, the process that prepares and serves them, the clock |
| `Supervisor` | the loop of supervisord and its two children |
| `MCCapabilityStore`, `MCCapabilityRefinement`, `MCSubscriptions`, `MCUpdateStore`, `MCRelay` | instances for TLC |

`Subscriptions`, `UpdateStore` and `Relay` meet at narrow interfaces. `UpdateStore`
and `Subscriptions` take from `CapabilityStore` that a revocation removes a
subtree (`Descendants`); `Relay` takes from `Subscriptions` that an event follows
the acknowledgement of its subscription on the broker channel, and that a stalled
emission ends that channel.

### CapabilityStore

Variables are the tables. A transaction runs under the store's mutex and SQLite
makes it atomic, so an operation is one action. The answer of an operation is
given by `create_document_outcome`, `grant_capability_outcome` and
`revoke_capability_outcome`, which keep the order of the early returns: a receipt
answers before authority is looked at, authority before limits. Only `Inserted`
changes state. `Crash` may stop the process between any two transactions; `Open`
runs `validate` (foreign keys, create state, capability state, ancestry,
receipts) and provisions the configured authority, and is disabled where the
code exits with an error.

Abstractions:

- An authenticator stands for its live and receipt digests. SHA-256 is taken to
  be injective; the digests of a row are keyed by the document and capability that
  key the row.
- Loops that follow parents are sets of walks of bounded length. `Subtree` is
  the least set closed under children, which is what the recursive query of
  revoke computes.
- `MAX_DOCUMENT_CONTROL_BYTES` and `MAX_GLOBAL_CONTROL_BYTES` are left out. With
  1024 capabilities of at most 436 bytes and 4096 receipts of at most 131 bytes
  (1023 grants, the rest revocations of 49) a document stays below 0.75 MiB of the
  1 MiB allowed, and the global row limits stay below 12 MB of 16 MiB. The
  count limits always answer first.
- The state column of a create authority is always 0 in this version.
- Retirement is a step of the model although only tests of the store make it:
  every operation handles the retired state.

### CapabilityModel and CapabilityRefinement

The oracle has no create authorities, limits, retirement or restarts; the mapping
forgets what it does not keep, so that `Crash`, `Restart` and `Retire` stutter.
`OracleSpec` is the oracle's specification under the mapping. `BelowDepthLimit` says
that every row reaches its root in fewer than `MAX_CAPABILITY_DEPTH` steps.

The two programs differ at the depth limit, which `capability_tree` reaches and
`OracleAuthorizes` describes; `oracle_refinement` stays below it. `authorizes` of `renee-model` iterates 64 times but spends
the last iteration on noticing that the root has no parent, so it accepts chains of
63 rows; the store grants and authorizes chains of 64. A grant by an issuer at the
limit is therefore `AuthorizationDenied` in the oracle and `LimitExceeded` in the
store, whose own test (`store.rs:6047`) expects the latter. Neither makes the store
accept more than its limits.

### Subscriptions

A connection is in one `phase`: selecting, writing an acknowledgement or a
response, waiting for a cancelled task, entering or holding the read lock for a
notification, or passing through the stages of a revocation (admitted,
excluding, mutating). A forwarding task is held, polling, forwarding,
overflowing or done. `gate_wait` and `gate_hold` are tokio's first-come
first-served read/write lock; `gate_map` is the registry's weak map, and a gate
without a strong reference (`References`) may be replaced by a new allocation.
Calls on the store are atomic, everything around them interleaves.

Abstractions: the delegation tree is a constant (`Descendants`), because grants do
not touch the registry, and a capability in `revoked` has lost its authority. A
revocation may be refused under exclusion for reasons outside this module. A
write to a peer that does not read is a step not taken; `stop` is
the end of the loop by end of input, a failed or timed-out write or a saturated
gate. A finished task is counted against the task limit until it ends, not until
the loop reaps it. Retirement and broker shutdown are left out: the first has no
caller, the second is the exit of the process. The ghost variables `due`,
`delivered` and `seen` record what a peer is owed and was sent.

### UpdateStore, UpdateModel, UpdateRefinement

The variables are the four update tables, the two in-memory tables of passes, the
open channels, and what control has revoked or retired. `accept_outcome` keeps
the order of the code: decoding, authority, exact retry or conflict, exhausted
counter, peer limit. A request for a page is `EnumerateOrigin`, `EnumerateToken`,
`VectorOrigin` or `VectorToken`; each is the whole handler, and
`enumerate_from_origin`, `enumerate_from_token`, `vector_from_origin` and
`vector_from_token` give its outcome, its response and the table of passes it leaves,
refusals that drop a pass included. `enumerate_in` and `vector_backfill_in` cut a
page by records and by encoded bytes; the lengths are those of `update.rs`.

Abstractions:

- A page is a set: its order has no meaning. A payload is its length.
- A token is the index at which it was minted, hence unique; the code draws 32
  random bytes. `issued` is history: what each token stands for, what its chain of
  pages has delivered, and the page it was exchanged for first.
- An idle pass may expire at any time (`Expire`), which covers every value of the
  lifetimes; the code drops it in the next call, before it looks at the table.
- Channels are open from the start of the process, and close. `open` is crash and
  restart together: the passes are forgotten, the tables validated.
- A capability holds the read and update operations; revocation and retirement are
  reduced to the authority they remove and the passes they purge. Retirement has no
  caller outside the tests of the store.
- `Queries` names the clients that read, `MAX_TOKENS` the tokens they are given.

In `UpdateModel` the oracle keeps positions, peers and counters; the mapping reads
them off the tables. `OracleUpdates` is its specification under the mapping;
`OracleAnswers` compares the answers, and `EnumerationExact` and `BackfillExact`
compare what chains of pages delivered with the oracle's windows.

### Relay

`gateway` is where the dispatcher of `relay_session` is: at its select, in
`write_body` to the session, in the delivery of an acknowledgement, writing an event,
or ended. Only at the select does it see new streams, outputs, finished tasks and
the closed connection. A task reads a request, queues it, waits under its
correlation identifier and writes the response. `session` is where the loop of
sessiond is; `negotiated` is its flag: before a hello, and for a hello after
it, the answer is a protocol error and nothing reaches the store.
`EmissionStalled` is the timeout of the store that cannot write an event.

Abstractions: capacities count frames, also those of a pipe, which holds bytes
(64 KiB are sixteen requests of the largest size, fewer than the 64 requests a
connection may have). Each pipe has a reader that takes a frame and then waits for
room in its queue; the frame in its hand counts as one that is still in the pipe,
which is a pipe of one frame more. After the dispatcher ended, sessiond works off what
it has and fails at its next write, until `shutdown_session` ends it at a moment of its
own; the end of its input is one such moment. `Requests` bounds what a client sends. The requests on
the broker channel are not bounded: the socket holds all that a connection may
have outstanding. The store is external: it answers, sends events for what it
acknowledged, stalls, or is lost. Correlation is modelled by what the code
looks at: `pending` is keyed by the identifier, and the stream in a message only
records which request it answers, for the property.

### CertificateRotation

One step per durable write (`load_or_create_control_key`, each leaf,
`persist_manifest`), because each file is replaced atomically and synchronized and the
process may crash in between; `Stop` is that crash, an error of `prepare`, or the
end of the rotation timer. `now` is the instant `prepare` was called with and
stays what it was while `clock` goes on. `MAX_DOWNTIME` is a promise of the
environment: how long the gateway is without a serving process. `ShortDowntime`
states how much of it the code's steps and lifetimes leave room for; the passing
run satisfies it and the other does not.

### Supervisor

`loop` and `at` are the position of `run`, `start_group`, `monitor_children`,
`restart` and `shutdown_children` in one sequential program; `child` is a process with
the handle on it. `Exit` lets a child end at any time, seen only when it is polled.
`TakeShutdown` is the select of `run`: it drops what the other branch was doing,
which kills processes whose handles it owns. Instants are kept as ages, so that time
is unbounded; an age beyond the window is one value, because eviction does not tell
older ones apart. Restart delays are shorter than the unit of time. A process whose
handle is dropped is gone at once; really it has been sent the signal that kills it.

## Runs

| Run | States | Shows |
|---|---|---|
| `capability_tree` | 15 071 | one document, four capabilities, depth 3, fan-out 2, five receipts: every property of `CapabilityStore`, and the oracle's authority at the depth limit |
| `capability_limits` | 87 041 | two documents, secrets and create authorities against global limits of two and three: recovery |
| `oracle_refinement` | 13 557 | two secrets, three capabilities below the depth limit: the store implements the oracle and answers as it does |
| `subscription_races` | about 1 000 000 | two connections, two subscription identities, two capabilities, two updates, both queues of one, one waiter: the safety properties |
| `subscription_ends` | 172 536 | one connection, two subscriptions at once: what must eventually happen |
| `revocation_liveness` | 33 584 | two connections, revocations and a notification compete for the gate |
| `update_passes` | 192 676 | three updates of four identifiers and five records, two clients, pages of at most two, three tokens, tables of two passes with one per authority: acceptance, pages, tokens, recovery, refinement of the oracle |
| `certificate_rotation` | 43 490 | three rotations with lifetime 8, step 4, skew 1 and at most one unit without a gateway |
| `certificate_downtime` | violated | the same gateway, five units without a process: finding 1 |
| `supervisor` | 576 338 | two children, two ports, two failures in a window of two units, shutdown at any point |
| `relay` | 1 067 332 | a greeting, a subscription, two more requests, two tasks at a time, identifiers used again, four events, queues and pipes of one frame: routing, order, and that full pipes that close the circle are the only way to keep a request or a closed connection |
| `relay_backpressure` | violated | the same instance, in which the circle closes: finding 2 |

Bounds. Every limit of the code is a constant that the instances set low enough
to be reached and crossed by one: a chain at the depth limit with a sibling, a
full fan-out, a receipt table that fills before the capabilities do, queues of
one that a second update overflows. Two connections suffice for a writer and a
revocation, the roles that meet at a gate; two gates suffice to see a document's
gate freed and replaced. `MAX_REVISION` exceeds the receipts a document may keep,
as 2^64 - 1 does, so `CounterExhausted` is not reached, as in the program.
Update instances use four positions, so that the counter is exhausted after three
updates; records of one and two ranges, one that names a third peer over the limit
of two, and two malformed ones; and a frame of 131 bytes, which cuts pages by bytes
as well as by records and just admits the longest record. Three tokens suffice for a
chain of pages with a retry, for the tail and what follows it, and for two clients at
once. In `certificate_rotation` the clock covers three epoch steps. In `supervisor`
ages saturate, so nothing but the number of failures is bounded, and the budget
bounds those. In `relay` capacities of one make every queue full as soon as it is
used. The circle has six places: two requests (one in the dispatcher's write, one in the
input pipe) and four events fill it, which are the bounds of that instance. A greeting
of the wrong version is not among its requests; it is answered like a request that
precedes the greeting and like a second greeting, which are.

Symmetry is used only where no temporal property is checked, or where it
permutes identifiers that the property treats alike (`UpdateIds` in
`update_passes`, whose refinement is a step property). Deadlock is
checked for the capability store; the other instances stop when every connection is
closed, the supervisor has exited, or a bound of the model is reached.

Properties, and the code they are about:

- `RecoveryAccepts`: `validate` accepts every reachable state, hence `open` never
  refuses a database the store wrote.
- `GrantsAccounted`: one grant receipt per delegated capability.
- `ExactRetry`: a committed request repeated is `AlreadyPresent`, with other input
  `RequestConflict`, whatever happened since.
- `AuthorityConfined`, `AuthorityNeverReturns`, `RevocationConfined`: delegation
  attenuates, revocation is final and reaches the subtree of its target only.
- `SubtreeIsWalk`: the unbounded query and the bounded walk agree.
- `OracleAuthorizes`: the oracle gives a capability the authority the store gives it,
  but for a row at the depth limit, which it denies.
- `OracleSpec`, `OracleGrantOutcome`, `OracleRevokeOutcome`: below that limit the store
  takes the steps of the oracle and answers as it does.
- `EmissionAuthorized`, `OneGatePerDocument`: no notification is being written
  for a revoked capability, because writers and revocations share one gate.
- `NoSilentLoss`, `QuietAfterEnd`: an active subscription owes nothing it has not
  under way; nothing follows the end that the peer was told of.
- `EndIsReported`, `CancellationEnds`, `ControlProceeds`: liveness.
- `UpdateRecovery`: `validate` accepts every reachable state of the update tables:
  contiguous positions, the counter behind them, both Loro indexes.
- `OracleUpdates`, `OracleAnswers`: the store accepts, refuses and returns what the
  oracle does, at the limits too.
- `EnumerationExact`: the pages of a chain deliver each update of the captured window
  once and nothing accepted later; the tail is announced with the last of them.
- `BackfillExact`: the pages of a vector pass deliver exactly what the oracle selects.
- `TokenAnswers`: a token is good for its query on its channel only, and a retry gets
  the same page or none.
- `PassAnswers`: a pass that is kept can be continued and its page can be encoded, so
  that none outlives its channel, authority or document.
- `RestartAdmitted`: a client that starts over is not turned away for its own pass.
- `RoutedToRequester`: a response reaches the stream whose request it answers.
- `AckBeforeEvents`: no event is written before the acknowledgement was delivered.
- `SettlesUnlessWedged`: a request that was read is answered or the connection ends, and
  a closed connection releases its session, unless everyone waits for everyone
  (`Wedged`, finding 2).
- `ConnectionReleased`: the release without the exception, as the comment of
  `shutdown_session` has it (violated).
- `ManifestAccepted`: the files on disk are accepted by the next start.
- `ServesValid`, `ServesAdvertised`: a leaf is served within its window, and it is one
  that the predecessor advertised.
- `AddressesAgree`: gateway and store agree on the store's address, and the gateway
  stays where the first READY record said.
- `RestartIntensity`: the restart budget bounds the spawns of a role in a window.
- `DrainOrder`, `ShutdownCompletes`: the store stops after the gateway, and shutdown
  ends with no child left.

Fairness. `WF` of `Serve`, `Forward` and `acquire`: the tokio runtime polls every
ready task. `Serve` may be replaced by the end of the connection. For the write
that holds a gate the code guarantees this by `SUBSCRIPTION_EMISSION_TIMEOUT`, so
`ControlProceeds` needs nothing of the peer; for other writes it is an assumption
that the peer reads or disconnects. `SF` of `send_overflow`: a sender that waits
on a tokio channel is handed the next free place before `try_send` sees it.
Requests are not fair: no client has to send one.

In `Relay` every task of the gateway and of the session that can run does (`WF`). The
client is assumed to read what is written to it and to end the streams it opened, and
the store to answer: the relay has no timeout for either. In `Supervisor` the loop is
weakly fair because the readiness timeout and the shutdown deadline end its waits;
`TakeShutdown` is strongly fair because a select polls its ready branches in random
order, and a future that stays ready through endless selects is taken. Children are
not fair: one that ignores the end of its input is killed at the deadline.

## Findings

1. `certificate_downtime`, `ManifestAccepted`. `rotate_manifest` (`identity.rs:141`)
   starts the next leaf a fixed step after `now`, whatever is left of the leaf
   it promotes. A gateway started at least seven days after its next leaf began, and
   before that leaf ends, persists two leaves that do not overlap, against the
   comment "two overlapping leaves" of `prepare` (`identity.rs:59`); every later
   start refuses the manifest. `identity.rs` is part of debug builds only.
2. `relay_backpressure`, `ConnectionReleased`. The dispatcher awaits its write to
   the session inside a select branch (`gatewayd/src/main.rs:406`). When requests
   and events are under way at once, the input pipe, the session, the output pipe,
   its reader and the output queue can all be full, each waiting for the next one.
   The dispatcher then does not see that the client closes, so that
   `shutdown_session`, whose comment promises that a deadline "prevents a wedged child
   from retaining gateway resources" (`main.rs:562-563`), is never reached. The timeout of
   the store ends the broker channel, which the blocked session does not notice.
   `relay` shows that nothing else keeps a connection or a request.

## Proofs

TLAPS proves 34 theorems, each for every value of the constants that satisfies the
named assumptions of the module; TLC evaluates those on every run. Sets of
identifiers are of any size (finite where a cardinality is compared), limits and
capacities are any positive numbers. An invariant is seldom
inductive as it stands; each proof module defines the strengthening that is.

| Theorem | Module | States |
|---|---|---|
| `TypeCorrect` | `CapabilityStoreProofs` | `[]TypeOK` |
| `RecoveryCorrect` | `CapabilityStoreProofs` | `[]RecoveryAccepts` |
| `SubtreeIsWalkCorrect`, `AuthorityConfinedCorrect` | `CapabilityAuthorityProofs` | the invariants |
| `GrantsAccountedCorrect`, `ExactRetryCorrect` | `CapabilityAuthorityProofs` | the invariants |
| `AuthorityNeverReturnsCorrect`, `RevocationConfinedCorrect` | `CapabilityAuthorityProofs` | the action properties |
| `OracleAuthorizesCorrect` | `CapabilityAuthorityProofs` | the invariant |
| `OracleGrantOutcomeCorrect`, `OracleRevokeOutcomeCorrect` | `CapabilityAuthorityProofs` | `[](BelowDepthLimit => ...)` of the invariants |
| `OracleSpecCorrect` | `CapabilityAuthorityProofs` | `Spec /\ []BelowDepthLimit => OracleSpec`: the store implements the capability oracle |
| `TypeCorrect`, `EmissionAuthorizedCorrect`, `OneGatePerDocumentCorrect`, `NoSilentLossCorrect`, `QuietAfterEndCorrect` | `SubscriptionsProofs` | the invariants |
| `UpdateRecoveryCorrect`, `OracleAnswersCorrect` | `UpdateStoreProofs` | the invariants |
| `OracleUpdatesCorrect` | `UpdateStoreProofs` | the store implements the update oracle |
| `UpdateTypeCorrect`, `TokenAnswersCorrect`, `PassAnswersCorrect`, `RestartAdmittedCorrect` | `UpdatePassesProofs` | the invariants |
| `EnumerationExactCorrect`, `BackfillExactCorrect` | `UpdatePassesProofs` | chains of pages deliver what the oracle selects |
| `RoutedToRequesterCorrect`, `AckBeforeEventsCorrect` | `RelayProofs` | the invariants |
| `ManifestAcceptedCorrect`, `ServesValidCorrect` | `CertificateRotationProofs` | the invariants, from `ShortDowntime` |
| `ServesAdvertisedCorrect` | `CertificateRotationProofs` | the action property, from `ShortDowntime` |
| `AddressesAgreeCorrect`, `DrainOrderCorrect`, `RestartIntensityCorrect` | `SupervisorProofs` | the invariants |

### Capability store

Assumptions: identifiers are finite in number, `Operations` contains grant and
revoke, `Null` is no row, limits are positive, and `MAX_REVISION` exceeds the receipts
a document may keep.

Recovery. The inductive invariant is `TypeOK /\ validate`. It is needed as a whole:
that a revision cannot run past `MAX_REVISION` follows from the receipt count that
`validate` ties it to; that a new row's walk to the root stays within the depth
follows from `issuer_has_descendant_capacity` and from the persistence of walks
under an insert (`WalksPersist`); that revoked parents have revoked children follows
from `Subtree` being closed under children (`SubtreeClosed`). One lemma per action:
`CreateValid`, `GrantValid`, `RevokeValid`, and `OtherValid` for retirement, crash
and open.

Authority. `StoreInv` adds `KeysUnique` (no two receipts share a key) and
`GrantsAccounted` to that; the second needs the first, because a grant must
not find its row accounted for already. The rest is about walks: a row has one parent, so two walks
from it agree as far as both go (`WalksAgree`), and none goes beyond the root. From
this a capability that lost its authority has a revoked row on its only walk to the
root, which no step removes. Facts along a walk would be inductions over its length;
they are proved from the least position at which they fail (`LeastElement`), which
the provers can use.

The oracle. In states of `StoreInv` the oracle's loop and the store's follow the same
parents, so a row authorizes in one where it does in the other as long as both
reach the root. The oracle needs one iteration more than the chain has rows, the store
does not: a row on a shorter chain (`BelowLimit`) has the same authority in both, a row
at the limit has none in the oracle, which is `OracleAuthorizes`. The other three theorems
take as hypothesis that no chain is at the limit (`BelowDepthLimit`). It is not an
invariant, because the store grants chains of exactly `MAX_CAPABILITY_DEPTH` rows, and
without it they are false at that length (see CapabilityRefinement). Outcomes and steps follow, action by action. The two refuse in
different orders, which does not show because an active document never exhausts its
revisions (`RevisionsLeft`); the store looks for revoked rows on the whole way up to the
issuer and the oracle at the target alone, which agree because no live row has a
revoked ancestor (`AncestorsLive`); and what the store looks at besides can only
answer `LimitExceeded`. A revocation marks the same rows because its recursive query
selects what a bounded walk reaches (`SubtreeByWalk`).

### Subscriptions

Assumptions: `Descendants` is reflexive, transitive and within a document; `Null`
is no identifier, entry or event; capacities are positive; and `Gates` has a gate for every
document (`GateAssumption`: an allocation never fails).

`SubscriptionInv` is the conjunction of what each proof needs of the others:

- `ConnInv`, `EventInv`, `TaskInv`: what the phase of a connection, a queued event and
  the place of a forwarding task say about the subscription they name;
- `RegistryInv`: a subscription that may still emit is in the registry, where a
  revocation finds it. Without it `EmissionAuthorized` is not inductive: the write
  lock keeps a revocation away from a write in progress, the registry keeps a
  later write away from a revocation that is done;
- `WaitInv`, `HoldInv`: who writes holds the gate of its subscription, who mutates holds
  it alone, and a place in line is for one purpose;
- `GateInv`: every strong reference to a gate is to the one its document's entry names,
  so that writers and revocations of a document do meet. It gives
  `OneGatePerDocument`, and survives replacement because a gate without a reference
  is the only one replaced;
- `LossInv`: an update that is due to an active subscription was delivered or is in one of the
  four places on its way, and nothing else is.

### Update store

Assumptions: identifiers and peers are finite in number, a record has the shape of
the wire format (`RecordAssumption`), the bound on tokens is a number, and `Null` is
no row, response, position or retry of the store or the oracle (`NullIsNoRow`,
`NullIsNoValue`).

`TablesInv` is the type of the tables, `validate`, and `CounterNext`: the next position is
one more than the number of updates. `validate` alone does not say so of a document
without updates, and an accept there would break it. `OnlyAcceptWrites` shows
that every operation but `accept` leaves the tables alone, so that pages, tokens,
channels, revocation and restart stutter in the oracle; one accept is one step of
the oracle because the position it takes is free and the peers it adds are the
record's.

Passes and tokens. The invariant is `PassesInv`, the types and `TablesInv` with

- `EnumerationPassInv`, `VectorPassInv`: the holder of a pass is connected and
  authorized; the pass stands inside the window it captured; its current token was
  minted for its query, never exchanged, and its chain delivered just what lies before
  the position; its retry token was exchanged for the page that the pass keeps.
  A vector pass at its end keeps a last page that fits a frame;
- `TokensUnique`: a token leads to one pass, so the pass a request finds is the one
  its token was minted for;
- `TicketInv`: what the history says of a token that no pass holds any more.
  `EnumerationExact` and `BackfillExact` are about those too;
- `WithinLimits`: the tables of passes obey their four limits. `RestartAdmitted` needs
  them: dropping one's own pass must make enough room in each.

`TablesGrow` says that no step alters a row and that a new one takes a position behind
all others, so a window that was read never changes and `delivered` stays what it
counted while updates are accepted between pages. A page is never empty because an
accepted record fits one alone (`ensure_metadata_is_enumerable`), and the next page
starts where it ended; so a chain needs no induction over its length, only the
position of its last token. What a request answers in a state of the invariant is
stated once per request; the properties, and that each operation keeps the invariant,
follow from these.

### Relay

Assumptions: capacities are positive and `Null` is neither a stream nor an
identifier. `RelayInv` says, while the dispatcher runs:

- `TaskInv`: a request is queued once, and what `pending` names waits under that identifier;
- `TransitInv`: a request or its answer is at one of seven places between the dispatcher's
  write and its output queue, at that one once, and its stream is the one pending under its identifier. So an
  identifier that is used again cannot meet an old answer: it is refused while one is
  on its way, which is what `RoutedToRequester` needs;
- `OrderInv`: along the three queues and the session's hand an event is behind the
  acknowledgement of its subscription, or that was routed. The dispatcher takes nothing
  while it delivers an acknowledgement, so an event that it takes follows one that was
  written: `AckBeforeEvents`.

After the dispatcher ended nothing of this is needed, and only the two properties stay.

### Certificate rotation

Assumptions: lifetime, step and skew are such that first leaves overlap, epochs are
numbers, and `Null` is neither. The theorems assume `ShortDowntime`, a promise of the
environment that the code needs (finding 1 is what happens without it):
a gateway is not missing for as long as an epoch step, and the lifetime of a leaf
exceeds the step by three times that downtime and by one with the clock skew.
`RotationInv` carries a manifest's margin (`Sound`: the leaves overlap by more than the delay
of a rotation timer) through every durable write, with the clock relative to the last
process that served; `AdvertisedInv` says that at most one rotation lies between two
processes that serve.

### Supervisor

Assumptions: `AnyPort` and `Null` are no addresses, the window is positive.
`GroupInv` ties the state of a child to the position of the loop (`LoopInv`) and the
addresses to each other (`AddressInv`), which gives `DrainOrder` and `AddressesAgree`.
`RestartIntensity` compares two sequences of ages: `Matched` pairs each spawn but the
first with a failure that is no older than the spawn before it and still in the budget, and
`Covered` says that the failure which the next spawn follows is there already.
The budget's length bounds the spawns in a window.

### Only model-checked

- Liveness, which is outside the prover's reach: `EndIsReported`, `CancellationEnds`,
  `ControlProceeds`, `SettlesUnlessWedged`, `ShutdownCompletes`.
- The two findings, which are violations.

## Plan

Every module of the plan is written and model-checked, and every safety invariant,
action property and refinement that a passing run checks is proved. Liveness stays
with TLC.

## Not modelled

- Byte layouts of the wire, of tables and of verifier inputs, argument parsing and the
  text of readiness lines: pure encoding, covered by the repository's vectors.
- Error codes of the dispatcher, beyond the outcomes they are chosen from.
- The admission of connections and the TLS endpoint of the gateway (library code).
- The crash of the supervisor itself: nothing in the code handles it.
- `renee-subject`, the conformance tests and the vector tool: test equipment that
  drives the services, and the test barriers compiled in for them.
