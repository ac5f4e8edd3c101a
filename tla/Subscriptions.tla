--------------------------- MODULE Subscriptions ----------------------------
(***************************************************************************)
(* Update subscriptions of renee-stored: the registry of subscription.rs   *)
(* and the connection loop, forwarding tasks and emission gates of         *)
(* main.rs.                                                                *)
(*                                                                         *)
(* Every connection runs one loop that reads requests and writes to its    *)
(* peer.  A subscription has a bounded queue that accept fills, a task     *)
(* that moves wakeups from that queue to the connection's bounded event    *)
(* queue, and a state that only ever leaves ACTIVE once.  The registry and *)
(* the durable tables are behind one mutex, so a call on the store is one  *)
(* step.  A per-document read/write lock, the emission gate, lets a        *)
(* revocation exclude the writes of notifications.                         *)
(*                                                                         *)
(* A capability stands for its document and identifier; Descendants is its *)
(* subtree.  A blocked write to the peer is a step that is not taken.      *)
(***************************************************************************)
EXTENDS Naturals, FiniteSets, Sequences

CONSTANTS
  Connections,      \* broker channels with their connection tasks
  SubscriptionIds,  \* identities the registry hands out, each once
  Documents,
  Capabilities,
  Updates,          \* update identifiers
  Gates,            \* allocations of an emission gate, reused once freed
  Null,
  DocumentOf,       \* the document of a capability
  Descendants,      \* a capability and everything delegated from it
  UPDATE_NOTIFICATION_QUEUE_CAPACITY,
  CONNECTION_EVENT_QUEUE_CAPACITY,
  MAX_UPDATE_SUBSCRIPTIONS,
  MAX_UPDATE_SUBSCRIPTIONS_PER_CHANNEL,
  MAX_UPDATE_SUBSCRIPTIONS_PER_DOCUMENT,
  MAX_CONTROL_WAITERS_PER_DOCUMENT

VARIABLES
  revoked,     \* capabilities revoked in the store
  accepted,    \* <<document, update>> pairs in the store
  registered,  \* the registry's entries
  owner,       \* subscription -> connection, capability and gate, or Null
  state,       \* the atomic state a subscription's holders share
  queue,       \* wakeups that the task has not received
  gate_map,    \* document -> the gate its weak entry points to
  gate_wait,   \* gate -> connections in line for its lock
  gate_hold,   \* gate -> connections that hold its lock
  task,        \* where the forwarding task of a subscription is
  observed,    \* the event that a forwarding task has in hand
  cancelled,   \* subscriptions whose task was told to stop
  conn,        \* where the loop of a connection is, and on what
  events,      \* event queue of a connection
  due,         \* updates accepted since the subscription was registered
  delivered,   \* updates whose notification was written to the peer
  seen         \* what the peer knows of a subscription

registry == <<registered, owner, state, queue>>
gates == <<gate_map, gate_wait, gate_hold>>
tasks == <<task, observed, cancelled>>
history == <<due, delivered, seen>>
vars == <<revoked, accepted, registry, gates, tasks, conn, events, history>>

ASSUME CapabilityAssumption ==
  /\ DocumentOf \in [Capabilities -> Documents]
  /\ Descendants \in [Capabilities -> SUBSET Capabilities]
  /\ \A c \in Capabilities :
       /\ c \in Descendants[c]
       /\ \A k \in Descendants[c] :
            Descendants[k] \subseteq Descendants[c] /\ DocumentOf[k] = DocumentOf[c]

ASSUME NullIsNoIdentifier ==
  Null \notin SubscriptionIds \cup Capabilities \cup Updates \cup Gates

\* A gate can be allocated for every document at the same time.
ASSUME GateAssumption ==
  /\ IsFiniteSet(Documents) /\ IsFiniteSet(Gates)
  /\ Cardinality(Documents) <= Cardinality(Gates)

ASSUME BoundsAssumption ==
  {UPDATE_NOTIFICATION_QUEUE_CAPACITY, CONNECTION_EVENT_QUEUE_CAPACITY,
   MAX_UPDATE_SUBSCRIPTIONS, MAX_UPDATE_SUBSCRIPTIONS_PER_CHANNEL,
   MAX_UPDATE_SUBSCRIPTIONS_PER_DOCUMENT, MAX_CONTROL_WAITERS_PER_DOCUMENT}
    \subseteq Nat \ {0}
----------------------------------------------------------------------------
Event ==
  [sub : SubscriptionIds, kind : {"notification"}, update : Updates]
    \cup [sub : SubscriptionIds, kind : {"overflow", "invalidated"}]

\* An entry of the registry, and the holders of a subscription, know these.
Entry == [connection : Connections, capability : Capabilities, gate : Gates]

ASSUME NullIsNoValue == Null \notin Entry \cup Event

States == {"ACTIVE", "OVERFLOWED", "CANCELLED", "REVOKED", "CHANNEL_LOST"}

\* idle: selecting; ack: a subscription is registered, its acknowledgement not
\* written; cancelling: waiting for a task to end; enter, write: waiting for
\* and holding the read lock of a gate; admitted, excluding, mutating: a
\* revocation before, waiting for and holding the write lock; reply: a
\* response is not written; closing: the loop ended; closed: lease dropped.
Phases == {"idle", "ack", "cancelling", "enter", "write", "admitted",
           "excluding", "mutating", "reply", "closing", "closed"}

At(phase, arg) == [phase |-> phase, arg |-> arg, gate |-> Null]

DocumentOfSub(s) == DocumentOf[owner[s].capability]

\* The lease of a channel lives until close_broker_channel drops it.
LeaseHeld(ch) == conn[ch].phase # "closed"

\* The event queue of a connection lives as long as its loop.
LoopRuns(ch) == conn[ch].phase \notin {"closing", "closed"}

\* cancel() and dropping a subscription close its receiver.
ReceiverClosed(s) == task[s] \in {"overflowing", "done"}

\* invalidate: compare-and-exchange from ACTIVE.
invalidate(S, reason) ==
  [s \in SubscriptionIds |->
     IF s \in S /\ state[s] = "ACTIVE" THEN reason ELSE state[s]]

\* Mutant of is_authorized: the state is not looked at.
is_authorized_by_lease(s) == LeaseHeld(owner[s].connection)

is_authorized(s) == LeaseHeld(owner[s].connection) /\ state[s] = "ACTIVE"

\* The biased select takes a request only when no event is queued.
TakesRequest(ch) == conn[ch].phase = "idle" /\ events[ch] = <<>>
----------------------------------------------------------------------------
\* Emission gates.

EmissionOf(ch) == conn[ch].phase \in {"enter", "write"}

\* The notifications of a connection that hold a clone of their subscription's
\* emission: queued, or dequeued and not yet written.
Emissions(ch) ==
  {e \in {events[ch][i] : i \in 1..Len(events[ch])} : e.kind = "notification"}
    \cup (IF EmissionOf(ch) THEN {conn[ch].arg} ELSE {})

\* Strong references to the gate of a document: its live subscriptions with
\* their tasks, their emissions, and the revocations in progress.
References(d) ==
  LET live == {s \in SubscriptionIds : owner[s] # Null /\ task[s] # "done"}
      emitting == {e.sub : e \in UNION {Emissions(ch) : ch \in Connections}}
      control == {ch \in Connections : conn[ch].gate # Null}
  IN  {owner[s].gate : s \in {x \in live \cup emitting : DocumentOfSub(x) = d}}
        \cup {conn[ch].gate : ch \in {x \in control : DocumentOf[conn[x].arg] = d}}

HasReference(g) == \E d \in Documents : g \in References(d)

\* Mutant of emission_gate: the weak entry is never upgraded.
emission_gate_fresh(d) == CHOOSE g \in Gates : ~HasReference(g)

emission_gate(d) ==
  IF gate_map[d] # Null /\ HasReference(gate_map[d])
  THEN gate_map[d]
  ELSE CHOOSE g \in Gates : ~HasReference(g)

\* control_admission, a semaphore that try_acquire_owned takes from.
ControlWaiters(g) == {ch \in Connections : conn[ch].gate = g}

\* Mutant of Release: the guard of the lock is leaked.
Release_never(ch) == UNCHANGED gate_hold

Release(ch) ==
  gate_hold' = [g \in Gates |-> gate_hold[g] \ {ch}]

\* Mutant of CanAcquire: a revocation takes the read lock.
CanAcquire_shared(g, ch) == \A h \in gate_hold[g] : conn[h].phase # "mutating"

\* An emission reads the gate, a revocation excludes everyone. tokio's RwLock is
\* first come, first served: whoever is first in line gets the lock when its
\* holders allow.
CanAcquire(g, ch) ==
  IF conn[ch].phase = "enter"
  THEN \A h \in gate_hold[g] : conn[h].phase # "mutating"
  ELSE gate_hold[g] = {}
----------------------------------------------------------------------------
\* Requests, each a call on the store under its mutex.

\* prune keeps the entries that are active, on a live channel and not closed.
Pruned ==
  {s \in registered : /\ state[s] = "ACTIVE"
                      /\ LeaseHeld(owner[s].connection)
                      /\ ~ReceiverClosed(s)}

RunningTasks(ch) ==
  {s \in SubscriptionIds :
     owner[s] # Null /\ owner[s].connection = ch /\ task[s] # "done"}

AtSubscriptionLimit(ch, d) ==
  \/ Cardinality(Pruned) >= MAX_UPDATE_SUBSCRIPTIONS
  \/ Cardinality({s \in Pruned : owner[s].connection = ch})
       >= MAX_UPDATE_SUBSCRIPTIONS_PER_CHANNEL
  \/ Cardinality({s \in Pruned : DocumentOfSub(s) = d})
       >= MAX_UPDATE_SUBSCRIPTIONS_PER_DOCUMENT

TooManyTasks(ch) ==
  Cardinality(RunningTasks(ch)) >= MAX_UPDATE_SUBSCRIPTIONS_PER_CHANNEL

\* Too many tasks or no authority: answered without touching the registry.
subscribe_refused(ch, c) ==
  /\ TakesRequest(ch)
  /\ TooManyTasks(ch) \/ c \in revoked
  /\ conn' = [conn EXCEPT ![ch] = At("reply", Null)]
  /\ UNCHANGED <<revoked, accepted, registry, gates, tasks, events, history>>

subscribe_backpressure(ch, c) ==
  /\ TakesRequest(ch)
  /\ ~TooManyTasks(ch)
  /\ c \notin revoked
  /\ AtSubscriptionLimit(ch, DocumentOf[c])
  /\ registered' = Pruned
  /\ conn' = [conn EXCEPT ![ch] = At("reply", Null)]
  /\ UNCHANGED <<revoked, accepted, owner, state, queue, gates, tasks, events, history>>

subscribe_updates(ch, c, s) ==
  LET g == emission_gate(DocumentOf[c])
  IN  /\ TakesRequest(ch)
      /\ ~TooManyTasks(ch)
      /\ c \notin revoked
      /\ ~AtSubscriptionLimit(ch, DocumentOf[c])
      /\ owner[s] = Null
      /\ registered' = Pruned \cup {s}
      /\ owner' = [owner EXCEPT ![s] = [connection |-> ch, capability |-> c, gate |-> g]]
      /\ gate_map' = [gate_map EXCEPT ![DocumentOf[c]] = g]
      /\ task' = [task EXCEPT ![s] = "held"]
      /\ conn' = [conn EXCEPT ![ch] = At("ack", s)]
      /\ UNCHANGED <<revoked, accepted, state, queue, gate_wait, gate_hold,
                     observed, cancelled, events, history>>

\* notify: what becomes of the entries of the registry.
Notified(d) ==
  {s \in Pruned : DocumentOfSub(s) = d
                    /\ Len(queue[s]) < UPDATE_NOTIFICATION_QUEUE_CAPACITY}

\* Mutant of Overflowing: a wakeup that finds the queue full is dropped.
Overflowing_dropped(d) == {}

Overflowing(d) ==
  {s \in Pruned : DocumentOfSub(s) = d
                    /\ Len(queue[s]) >= UPDATE_NOTIFICATION_QUEUE_CAPACITY}

accept(ch, c, u) ==
  LET d == DocumentOf[c]
  IN  /\ TakesRequest(ch)
      /\ c \notin revoked
      /\ <<d, u>> \notin accepted
      /\ accepted' = accepted \cup {<<d, u>>}
      /\ queue' = [s \in SubscriptionIds |->
                     IF s \in Notified(d) THEN Append(queue[s], u) ELSE queue[s]]
      /\ state' = invalidate(Overflowing(d), "OVERFLOWED")
      /\ registered' = Pruned \ Overflowing(d)
      /\ due' = [s \in SubscriptionIds |->
                   IF owner[s] # Null /\ DocumentOfSub(s) = d /\ state[s] = "ACTIVE"
                   THEN due[s] \cup {u} ELSE due[s]]
      /\ conn' = [conn EXCEPT ![ch] = At("reply", Null)]
      /\ UNCHANGED <<revoked, owner, gates, tasks, events, delivered, seen>>

\* The other requests leave the registry alone: create, grant, the reads, and
\* an update that is refused or already present.
handle_request(ch) ==
  /\ TakesRequest(ch)
  /\ conn' = [conn EXCEPT ![ch] = At("reply", Null)]
  /\ UNCHANGED <<revoked, accepted, registry, gates, tasks, events, history>>

\* A revocation that the preflight resolves is answered without exclusion.
preflight_revoke_capability(ch, target) ==
  /\ TakesRequest(ch)
  /\ conn' = [conn EXCEPT ![ch] = IF target \in revoked THEN At("reply", Null)
                                  ELSE At("admitted", target)]
  /\ UNCHANGED <<revoked, accepted, registry, gates, tasks, events, history>>

\* Looking up the gate, and waiting for its write lock when the bound on
\* waiting control requests allows.
exclude(ch) ==
  LET d == DocumentOf[conn[ch].arg]
      g == emission_gate(d)
  IN  /\ conn[ch].phase = "admitted"
      /\ Cardinality(ControlWaiters(g)) < MAX_CONTROL_WAITERS_PER_DOCUMENT
      /\ gate_map' = [gate_map EXCEPT ![d] = g]
      /\ gate_wait' = [gate_wait EXCEPT ![g] = Append(@, ch)]
      /\ conn' = [conn EXCEPT ![ch] = [@ EXCEPT !.phase = "excluding", !.gate = g]]
      /\ UNCHANGED <<revoked, accepted, registry, gate_hold, tasks, events, history>>

\* The revocation under exclusion decides again: meanwhile it may have become
\* a retry, lost its authority or met a limit.
revoke_capability(ch) ==
  LET target  == conn[ch].arg
      subtree == Descendants[target]
      ended   == {s \in registered : /\ owner[s].capability \in subtree
                                     /\ is_authorized(s)}
  IN  /\ conn[ch].phase = "mutating"
      /\ \/ UNCHANGED <<revoked, registered, state>>
         \/ /\ target \notin revoked
            /\ revoked' = revoked \cup subtree
            /\ state' = invalidate(ended, "REVOKED")
            /\ registered' = registered \ ended
      /\ Release(ch)
      /\ conn' = [conn EXCEPT ![ch] = At("reply", Null)]
      /\ UNCHANGED <<accepted, owner, queue, gate_map, gate_wait, tasks, events, history>>

cancel_subscription(ch, s) ==
  /\ TakesRequest(ch)
  /\ owner[s] # Null
  /\ owner[s].connection = ch
  /\ seen[s] = "acked"
  /\ cancelled' = cancelled \cup {s}
  /\ conn' = [conn EXCEPT ![ch] = At("cancelling", s)]
  /\ UNCHANGED <<revoked, accepted, registry, gates, task, observed, events, history>>
----------------------------------------------------------------------------
\* The writes of a connection.

write_ack(ch) ==
  LET s == conn[ch].arg
  IN  /\ conn[ch].phase = "ack"
      /\ seen' = [seen EXCEPT ![s] = "acked"]
      /\ task' = [task EXCEPT ![s] = "polling"]
      /\ conn' = [conn EXCEPT ![ch] = At("idle", Null)]
      /\ UNCHANGED <<revoked, accepted, registry, gates, observed, cancelled, events,
                     due, delivered>>

write_cancelled(ch) ==
  LET s == conn[ch].arg
  IN  /\ conn[ch].phase = "cancelling"
      /\ task[s] = "done"
      /\ seen' = [seen EXCEPT ![s] = "ended"]
      /\ conn' = [conn EXCEPT ![ch] = At("idle", Null)]
      /\ UNCHANGED <<revoked, accepted, registry, gates, tasks, events, due, delivered>>

write_response(ch) ==
  /\ conn[ch].phase = "reply"
  /\ conn' = [conn EXCEPT ![ch] = At("idle", Null)]
  /\ UNCHANGED <<revoked, accepted, registry, gates, tasks, events, history>>

write_terminal_event(ch) ==
  LET e == Head(events[ch])
  IN  /\ conn[ch].phase = "idle"
      /\ events[ch] # <<>>
      /\ e.kind # "notification"
      /\ events' = [events EXCEPT ![ch] = Tail(@)]
      /\ seen' = [seen EXCEPT ![e.sub] = "ended"]
      /\ UNCHANGED <<revoked, accepted, registry, gates, tasks, conn, due, delivered>>

\* A dequeued notification asks for the read lock of its document's gate.
enter_emission(ch) ==
  LET e == Head(events[ch])
  IN  /\ conn[ch].phase = "idle"
      /\ events[ch] # <<>>
      /\ e.kind = "notification"
      /\ events' = [events EXCEPT ![ch] = Tail(@)]
      /\ gate_wait' = [gate_wait EXCEPT ![owner[e.sub].gate] = Append(@, ch)]
      /\ conn' = [conn EXCEPT ![ch] = At("enter", e)]
      /\ UNCHANGED <<revoked, accepted, registry, gate_map, gate_hold, tasks, history>>

\* First in line acquires the gate.  A notification is then checked once more:
\* it is written, or dropped with the lock.
acquire(g) ==
  LET ch == Head(gate_wait[g])
  IN  /\ gate_wait[g] # <<>>
      /\ CanAcquire(g, ch)
      /\ gate_wait' = [gate_wait EXCEPT ![g] = Tail(@)]
      /\ \/ /\ conn[ch].phase = "enter"
            /\ is_authorized(conn[ch].arg.sub)
            /\ gate_hold' = [gate_hold EXCEPT ![g] = @ \cup {ch}]
            /\ conn' = [conn EXCEPT ![ch].phase = "write"]
         \/ /\ conn[ch].phase = "enter"
            /\ ~is_authorized(conn[ch].arg.sub)
            /\ conn' = [conn EXCEPT ![ch] = At("idle", Null)]
            /\ UNCHANGED gate_hold
         \/ /\ conn[ch].phase = "excluding"
            /\ gate_hold' = [gate_hold EXCEPT ![g] = @ \cup {ch}]
            /\ conn' = [conn EXCEPT ![ch].phase = "mutating"]
      /\ UNCHANGED <<revoked, accepted, registry, gate_map, tasks, events, history>>

write_notification(ch) ==
  LET e == conn[ch].arg
  IN  /\ conn[ch].phase = "write"
      /\ delivered' = [delivered EXCEPT ![e.sub] = @ \cup {e.update}]
      /\ Release(ch)
      /\ conn' = [conn EXCEPT ![ch] = At("idle", Null)]
      /\ UNCHANGED <<revoked, accepted, registry, gate_map, gate_wait, tasks, events,
                     due, seen>>

\* The loop ends: the peer closed, a write failed or stalled for
\* SUBSCRIPTION_EMISSION_TIMEOUT, or too many control requests wait.  The event
\* queue is dropped, and a subscription that was not yet given to a task.
stop(ch) ==
  LET held == {s \in SubscriptionIds : conn[ch].phase = "ack" /\ s = conn[ch].arg}
  IN  /\ \/ TakesRequest(ch)
         \/ conn[ch].phase \in {"ack", "reply", "write"}
         \/ conn[ch].phase = "cancelling" /\ task[conn[ch].arg] = "done"
         \/ /\ conn[ch].phase = "idle"
            /\ events[ch] # <<>>
            /\ Head(events[ch]).kind # "notification"
         \/ /\ conn[ch].phase = "admitted"
            /\ Cardinality(ControlWaiters(emission_gate(DocumentOf[conn[ch].arg])))
                 >= MAX_CONTROL_WAITERS_PER_DOCUMENT
      /\ events' = [events EXCEPT ![ch] = <<>>]
      /\ state' = invalidate(held, "CANCELLED")
      /\ task' = [s \in SubscriptionIds |-> IF s \in held THEN "done" ELSE task[s]]
      /\ Release(ch)
      /\ conn' = [conn EXCEPT ![ch] = At("closing", Null)]
      /\ UNCHANGED <<revoked, accepted, registered, owner, queue, gate_map, gate_wait,
                     observed, cancelled, history>>

close_channel(ch) ==
  LET lost == {s \in registered : owner[s].connection = ch}
  IN  /\ conn[ch].phase = "closing"
      /\ registered' = registered \ lost
      /\ state' = invalidate(lost, "CHANNEL_LOST")
      /\ conn' = [conn EXCEPT ![ch] = At("closed", Null)]
      /\ UNCHANGED <<revoked, accepted, owner, queue, gates, tasks, events, history>>
----------------------------------------------------------------------------
\* The forwarding task of a subscription.

\* Returning drops the subscription, which cancels it.
Finish(s) ==
  /\ task' = [task EXCEPT ![s] = "done"]
  /\ observed' = [observed EXCEPT ![s] = Null]
  /\ state' = invalidate({s}, "CANCELLED")

poll_cancelled(s) ==
  /\ task[s] = "polling"
  /\ s \in cancelled
  /\ Finish(s)
  /\ UNCHANGED <<revoked, accepted, registered, owner, queue, gates, cancelled, conn,
                 events, history>>

terminal_subscription_event(s) ==
  IF state[s] = "OVERFLOWED" THEN [sub |-> s, kind |-> "overflow"]
  ELSE [sub |-> s, kind |-> "invalidated"]

\* next() reports the end of the subscription before any queued wakeup.
poll_ended(s) ==
  /\ task[s] = "polling"
  /\ s \notin cancelled
  /\ state[s] # "ACTIVE"
  /\ IF state[s] \in {"OVERFLOWED", "REVOKED"}
     THEN /\ observed' = [observed EXCEPT ![s] = terminal_subscription_event(s)]
          /\ task' = [task EXCEPT ![s] = "forwarding"]
          /\ UNCHANGED state
     ELSE Finish(s)
  /\ UNCHANGED <<revoked, accepted, registered, owner, queue, gates, cancelled, conn,
                 events, history>>

poll_notification(s) ==
  /\ task[s] = "polling"
  /\ s \notin cancelled
  /\ state[s] = "ACTIVE"
  /\ queue[s] # <<>>
  /\ observed' = [observed EXCEPT ![s] = [sub |-> s, kind |-> "notification",
                                          update |-> Head(queue[s])]]
  /\ queue' = [queue EXCEPT ![s] = Tail(@)]
  /\ task' = [task EXCEPT ![s] = "forwarding"]
  /\ UNCHANGED <<revoked, accepted, registered, owner, state, gates, cancelled, conn,
                 events, history>>

\* Mutants of HasEventSpace: off by one in either direction.
HasEventSpace_late(ch) == Len(events[ch]) <= CONNECTION_EVENT_QUEUE_CAPACITY
HasEventSpace_early(ch) == Len(events[ch]) + 1 < CONNECTION_EVENT_QUEUE_CAPACITY

HasEventSpace(ch) == Len(events[ch]) < CONNECTION_EVENT_QUEUE_CAPACITY

\* try_send: queued; refused by a full queue, which ends the subscription; or
\* refused because the loop ended.
forward(s) ==
  LET ch == owner[s].connection
  IN  /\ task[s] = "forwarding"
      /\ \/ /\ LoopRuns(ch) /\ HasEventSpace(ch)
            /\ events' = [events EXCEPT ![ch] = Append(@, observed[s])]
            /\ IF observed[s].kind = "notification"
               THEN /\ task' = [task EXCEPT ![s] = "polling"]
                    /\ observed' = [observed EXCEPT ![s] = Null]
                    /\ UNCHANGED state
               ELSE Finish(s)
         \/ /\ LoopRuns(ch) /\ ~HasEventSpace(ch)
            /\ state' = invalidate({s}, "CANCELLED")
            /\ task' = [task EXCEPT ![s] = "overflowing"]
            /\ observed' = [observed EXCEPT ![s] = Null]
            /\ UNCHANGED events
         \/ ~LoopRuns(ch) /\ Finish(s) /\ UNCHANGED events
      /\ UNCHANGED <<revoked, accepted, registered, owner, queue, gates, cancelled, conn,
                     history>>

\* Mutant of send_overflow: the wait for room does not look at the cancellation.
send_overflow_uncancelled(s) ==
  LET ch == owner[s].connection
  IN  /\ task[s] = "overflowing"
      /\ \/ /\ LoopRuns(ch) /\ HasEventSpace(ch)
            /\ events' =
                 [events EXCEPT ![ch] = Append(@, [sub |-> s, kind |-> "overflow"])]
         \/ ~LoopRuns(ch) /\ UNCHANGED events
      /\ Finish(s)
      /\ UNCHANGED <<revoked, accepted, registered, owner, queue, gates, cancelled, conn,
                     history>>

\* The overflow event waits for room, unless the task is told to stop.
send_overflow(s) ==
  LET ch == owner[s].connection
  IN  /\ task[s] = "overflowing"
      /\ \/ s \in cancelled /\ UNCHANGED events
         \/ /\ s \notin cancelled /\ LoopRuns(ch) /\ HasEventSpace(ch)
            /\ events' =
                 [events EXCEPT ![ch] = Append(@, [sub |-> s, kind |-> "overflow"])]
         \/ s \notin cancelled /\ ~LoopRuns(ch) /\ UNCHANGED events
      /\ Finish(s)
      /\ UNCHANGED <<revoked, accepted, registered, owner, queue, gates, cancelled, conn,
                     history>>

\* The end of the loop aborts its tasks.
abort(s) ==
  /\ task[s] \in {"polling", "forwarding", "overflowing"}
  /\ ~LoopRuns(owner[s].connection)
  /\ Finish(s)
  /\ UNCHANGED <<revoked, accepted, registered, owner, queue, gates, cancelled, conn,
                 events, history>>
----------------------------------------------------------------------------
Init ==
  /\ revoked = {}
  /\ accepted = {}
  /\ registered = {}
  /\ owner = [s \in SubscriptionIds |-> Null]
  /\ state = [s \in SubscriptionIds |-> "ACTIVE"]
  /\ queue = [s \in SubscriptionIds |-> <<>>]
  /\ gate_map = [d \in Documents |-> Null]
  /\ gate_wait = [g \in Gates |-> <<>>]
  /\ gate_hold = [g \in Gates |-> {}]
  /\ task = [s \in SubscriptionIds |-> "none"]
  /\ observed = [s \in SubscriptionIds |-> Null]
  /\ cancelled = {}
  /\ conn = [ch \in Connections |-> At("idle", Null)]
  /\ events = [ch \in Connections |-> <<>>]
  /\ due = [s \in SubscriptionIds |-> {}]
  /\ delivered = [s \in SubscriptionIds |-> {}]
  /\ seen = [s \in SubscriptionIds |-> "none"]

Request(ch) ==
  \/ \E c \in Capabilities :
       \/ subscribe_refused(ch, c)
       \/ subscribe_backpressure(ch, c)
       \/ \E s \in SubscriptionIds : subscribe_updates(ch, c, s)
       \/ \E u \in Updates : accept(ch, c, u)
       \/ preflight_revoke_capability(ch, c)
  \/ handle_request(ch)
  \/ \E s \in SubscriptionIds : cancel_subscription(ch, s)

\* What the loop does once it took a request or an event.
Serve(ch) ==
  \/ write_ack(ch)
  \/ write_cancelled(ch)
  \/ write_response(ch)
  \/ write_terminal_event(ch)
  \/ enter_emission(ch)
  \/ write_notification(ch)
  \/ exclude(ch)
  \/ revoke_capability(ch)
  \/ close_channel(ch)

Forward(s) ==
  \/ poll_cancelled(s)
  \/ poll_ended(s)
  \/ poll_notification(s)
  \/ forward(s)
  \/ abort(s)

Next ==
  \/ \E ch \in Connections : Request(ch) \/ Serve(ch) \/ stop(ch)
  \/ \E s \in SubscriptionIds : Forward(s) \/ send_overflow(s)
  \/ \E g \in Gates : acquire(g)

Spec == Init /\ [][Next]_vars

\* The runtime runs every task that can run; a peer reads what is written to it
\* or its connection ends, which the emission timeout enforces for the writes
\* that hold a gate.  A full event queue gives room first to the senders that
\* wait for it, so that send_overflow is not overtaken forever.
Fairness ==
  /\ \A ch \in Connections :
       WF_vars(Serve(ch) \/ (conn[ch].phase # "idle" /\ stop(ch)))
  /\ \A s \in SubscriptionIds : WF_vars(Forward(s)) /\ SF_vars(send_overflow(s))
  /\ \A g \in Gates : WF_vars(acquire(g))

FairSpec == Spec /\ Fairness
----------------------------------------------------------------------------
\* Every variable has the type of the field it models, and no queue outgrows
\* its capacity.
TypeOK ==
  /\ revoked \subseteq Capabilities
  /\ accepted \subseteq Documents \X Updates
  /\ registered \subseteq SubscriptionIds
  /\ owner \in [SubscriptionIds -> Entry \cup {Null}]
  /\ state \in [SubscriptionIds -> States]
  /\ queue \in [SubscriptionIds -> Seq(Updates)]
  /\ \A s \in SubscriptionIds : Len(queue[s]) <= UPDATE_NOTIFICATION_QUEUE_CAPACITY
  /\ gate_map \in [Documents -> Gates \cup {Null}]
  /\ gate_wait \in [Gates -> Seq(Connections)]
  /\ gate_hold \in [Gates -> SUBSET Connections]
  /\ task \in [SubscriptionIds ->
                 {"none", "held", "polling", "forwarding", "overflowing", "done"}]
  /\ observed \in [SubscriptionIds -> Event \cup {Null}]
  /\ cancelled \subseteq SubscriptionIds
  /\ conn \in [Connections ->
                 [phase : Phases, gate : Gates \cup {Null},
                  arg : SubscriptionIds \cup Capabilities \cup Event \cup {Null}]]
  /\ events \in [Connections -> Seq(Event)]
  /\ \A ch \in Connections : Len(events[ch]) <= CONNECTION_EVENT_QUEUE_CAPACITY
  /\ due \in [SubscriptionIds -> SUBSET Updates]
  /\ delivered \in [SubscriptionIds -> SUBSET Updates]
  /\ seen \in [SubscriptionIds -> {"none", "acked", "ended"}]

\* While a notification is being written, the capability it is written for is
\* not revoked: once a revocation committed, nothing more is emitted on the
\* authority it took away.
EmissionAuthorized ==
  \A ch \in Connections :
    conn[ch].phase = "write" => owner[conn[ch].arg.sub].capability \notin revoked

\* A document has one gate at a time: whoever holds a gate of the document holds
\* the one that the next revocation will wait for, although the registry keeps
\* only a weak reference to it.
OneGatePerDocument == \A d \in Documents : References(d) \subseteq {gate_map[d]}

\* The updates on their way to the peer of a subscription.
Underway(s) ==
  LET inhand == IF observed[s] # Null /\ observed[s].kind = "notification"
                THEN {observed[s]} ELSE {}
      emitted == {e \in Emissions(owner[s].connection) : e.sub = s}
  IN  {queue[s][i] : i \in 1..Len(queue[s])}
        \cup {e.update : e \in inhand \cup emitted}

\* An active subscription has lost no wakeup: every update accepted since its
\* registration, the time before the acknowledgement included, was delivered or
\* is on its way.
NoSilentLoss ==
  \A s \in SubscriptionIds :
    (/\ owner[s] # Null
     /\ state[s] = "ACTIVE"
     /\ LoopRuns(owner[s].connection))
      => due[s] = delivered[s] \cup Underway(s)

\* After the end of a subscription was written to its peer (an overflow, an
\* invalidation or the answer to its cancellation) no notification follows.
QuietAfterEnd ==
  \A ch \in Connections :
    conn[ch].phase = "write" => seen[conn[ch].arg.sub] = "acked"

\* A subscription that stopped being complete is reported to its peer, unless
\* the connection ends.
EndIsReported ==
  \A s \in SubscriptionIds :
    (seen[s] = "acked" /\ state[s] # "ACTIVE")
      ~> \/ seen[s] = "ended"
         \/ owner[s] # Null /\ ~LeaseHeld(owner[s].connection)

\* A revocation that waits for the gate gets it: writers of notifications hold
\* it for a bounded time and newer ones queue behind.
ControlProceeds ==
  \A ch \in Connections :
    conn[ch].phase = "excluding" ~> conn[ch].phase # "excluding"

\* The loop that waits for a cancelled task to end is not waited for by that
\* task, although only the loop drains the queue the task may be blocked on.
CancellationEnds ==
  \A ch \in Connections :
    conn[ch].phase = "cancelling" ~> conn[ch].phase # "cancelling"
============================================================================
