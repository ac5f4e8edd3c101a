------------------------- MODULE SubscriptionsProofs ------------------------
(***************************************************************************)
(* Emission gates and subscriptions, for every number of connections,      *)
(* subscriptions, documents and updates and every capacity of the queues:  *)
(* nothing is emitted on revoked authority, a document has one gate, an    *)
(* active subscription loses no wakeup, and none follows its end.          *)
(***************************************************************************)
EXTENDS Subscriptions, FiniteSetTheorems, FunctionTheorems, TLAPS

\* The entries of a queue, and a queue in which none is twice.
Items(q) == {q[i] : i \in 1..Len(q)}

Distinct(q) == \A i, j \in 1..Len(q) : q[i] = q[j] => i = j

Owned(s, ch) ==
  s \in SubscriptionIds /\ owner[s] # Null /\ owner[s].connection = ch

\* What the loop of a connection is at, in each of its phases.
ConnInv ==
  \A ch \in Connections :
    /\ conn[ch].phase = "ack" =>
         Owned(conn[ch].arg, ch) /\ task[conn[ch].arg] = "held"
    /\ conn[ch].phase = "cancelling" => Owned(conn[ch].arg, ch)
    /\ EmissionOf(ch) =>
         /\ conn[ch].arg \in Event /\ conn[ch].arg.kind = "notification"
         /\ Owned(conn[ch].arg.sub, ch) /\ seen[conn[ch].arg.sub] # "none"
    /\ conn[ch].phase \in {"admitted", "excluding", "mutating"} =>
         conn[ch].arg \in Capabilities
    /\ conn[ch].gate # Null <=> conn[ch].phase \in {"excluding", "mutating"}

\* Events are queued by acknowledged subscriptions of the connection, and one
\* that reports an end comes from a subscription that is no longer active.
EventInv ==
  \A ch \in Connections : \A e \in Items(events[ch]) :
    /\ Owned(e.sub, ch) /\ seen[e.sub] # "none"
    /\ e.kind # "notification" => state[e.sub] # "ACTIVE"

\* The forwarding task: it has an event in hand exactly while it forwards, and
\* an active subscription neither waits to report its end nor ended.
TaskInv ==
  \A s \in SubscriptionIds :
    /\ owner[s] = Null <=> task[s] = "none"
    /\ task[s] = "forwarding" =>
         /\ observed[s] \in Event /\ observed[s].sub = s
         /\ observed[s].kind # "notification" => state[s] # "ACTIVE"
    /\ task[s] # "forwarding" => observed[s] = Null
    /\ task[s] \in {"overflowing", "done"} => state[s] # "ACTIVE"
    /\ task[s] \in {"polling", "forwarding", "overflowing"} => seen[s] # "none"
    /\ seen[s] = "ended" => state[s] # "ACTIVE"

\* A subscription that could still emit is in the registry, where a revocation
\* finds it, and none of its authority was revoked.
RegistryInv ==
  \A s \in SubscriptionIds :
    (owner[s] # Null /\ is_authorized(s)) =>
      s \in registered /\ owner[s].capability \notin revoked

\* Whoever waits in line for a gate waits for it once, and for this one.
WaitInv ==
  \A g \in Gates :
    /\ Distinct(gate_wait[g])
    /\ \A ch \in Items(gate_wait[g]) :
         \/ conn[ch].phase = "enter" /\ owner[conn[ch].arg.sub].gate = g
         \/ conn[ch].phase = "excluding" /\ conn[ch].gate = g

\* Who writes holds the gate of its subscription, who mutates holds it alone.
HoldInv ==
  \A ch \in Connections :
    /\ conn[ch].phase = "write" => ch \in gate_hold[owner[conn[ch].arg.sub].gate]
    /\ conn[ch].phase = "mutating" => gate_hold[conn[ch].gate] = {ch}

Gated(s) == owner[s].gate = gate_map[DocumentOfSub(s)]

\* Every strong reference to a gate is to the one its document's entry names.
GateInv ==
  /\ \A s \in SubscriptionIds : (owner[s] # Null /\ task[s] # "done") => Gated(s)
  /\ \A ch \in Connections :
       /\ \A e \in Items(events[ch]) : e.kind = "notification" => Gated(e.sub)
       /\ EmissionOf(ch) => Gated(conn[ch].arg.sub)
       /\ conn[ch].gate # Null => conn[ch].gate = gate_map[DocumentOf[conn[ch].arg]]

\* An update on its way to the peer, wherever it is.
OnWay(s, u) ==
  LET ch == owner[s].connection
  IN  \/ u \in Items(queue[s])
      \/ observed[s] # Null /\ observed[s].kind = "notification" /\ observed[s].update = u
      \/ \E e \in Items(events[ch]) : e.kind = "notification" /\ e.sub = s /\ e.update = u
      \/ EmissionOf(ch) /\ conn[ch].arg.sub = s /\ conn[ch].arg.update = u

\* NoSilentLoss update by update, and a subscription that was not handed out
\* has no update due and is not in the registry.
LossInv ==
  \A s \in SubscriptionIds :
    /\ owner[s] = Null =>
         s \notin registered /\ due[s] = {} /\ delivered[s] = {} /\ queue[s] = <<>>
    /\ (owner[s] # Null /\ state[s] = "ACTIVE" /\ LoopRuns(owner[s].connection)) =>
         \A u : u \in due[s] <=> (u \in delivered[s] \/ OnWay(s, u))

\* The inductive invariant.
LoopInv == TypeOK /\ ConnInv /\ EventInv /\ TaskInv
SubscriptionInv == LoopInv /\ RegistryInv /\ WaitInv /\ HoldInv /\ GateInv
                     /\ EmissionAuthorized /\ QuietAfterEnd /\ LossInv
----------------------------------------------------------------------------
\* Queues.

\* The entries of a queue are what it is a queue of.
LEMMA ItemsTyped == ASSUME NEW S, NEW q \in Seq(S)  PROVE Items(q) \subseteq S
  BY DEF Items

\* An empty queue has no entries.
LEMMA ItemsEmpty == Items(<<>>) = {}
  BY DEF Items

\* An entry that is appended is one more, and not twice if it was not there.
LEMMA ItemsAppend ==
  ASSUME NEW S, NEW q \in Seq(S), NEW x \in S
  PROVE  /\ Append(q, x) \in Seq(S) /\ Len(Append(q, x)) = Len(q) + 1
         /\ Items(Append(q, x)) = Items(q) \cup {x}
         /\ (Distinct(q) /\ x \notin Items(q)) => Distinct(Append(q, x))
<1>1. /\ Append(q, x) \in Seq(S) /\ Len(Append(q, x)) = Len(q) + 1 /\ Len(q) \in Nat
      /\ \A i \in 1..Len(q) : Append(q, x)[i] = q[i]
      /\ Append(q, x)[Len(q) + 1] = x
  OBVIOUS
<1>2. Items(Append(q, x)) = Items(q) \cup {x}
  <2>1. ASSUME NEW i \in 1..(Len(q) + 1)  PROVE Append(q, x)[i] \in Items(q) \cup {x}
    BY <1>1 DEF Items
  <2>2. Items(q) \subseteq Items(Append(q, x)) /\ x \in Items(Append(q, x))
    BY <1>1 DEF Items
  <2> QED  BY <1>1, <2>1, <2>2 DEF Items
<1>3. (Distinct(q) /\ x \notin Items(q)) => Distinct(Append(q, x))
  BY <1>1 DEF Distinct, Items
<1> QED  BY <1>1, <1>2, <1>3

\* Without its head a queue has every other entry.
LEMMA ItemsTail ==
  ASSUME NEW S, NEW q \in Seq(S), q # <<>>
  PROVE  /\ Head(q) \in S /\ Tail(q) \in Seq(S) /\ Len(Tail(q)) < Len(q)
         /\ Items(q) = Items(Tail(q)) \cup {Head(q)}
         /\ Distinct(q) => Distinct(Tail(q)) /\ Head(q) \notin Items(Tail(q))
<1>1. /\ Head(q) \in S /\ Tail(q) \in Seq(S) /\ Len(Tail(q)) = Len(q) - 1
      /\ Len(q) \in Nat \ {0} /\ Head(q) = q[1]
      /\ \A i \in 1..(Len(q) - 1) : Tail(q)[i] = q[i + 1]
  OBVIOUS
<1>2. Items(q) = Items(Tail(q)) \cup {Head(q)}
  <2>1. ASSUME NEW i \in 1..Len(q)  PROVE q[i] \in Items(Tail(q)) \cup {Head(q)}
    <3>1. CASE i = 1  BY <3>1, <1>1
    <3>2. CASE i # 1
      <4>1. i - 1 \in 1..Len(Tail(q)) /\ Tail(q)[i - 1] = q[i]  BY <3>2, <1>1
      <4> QED  BY <4>1 DEF Items
    <3> QED  BY <3>1, <3>2
  <2>2. ASSUME NEW i \in 1..Len(Tail(q))  PROVE Tail(q)[i] \in Items(q)
    <3>1. i + 1 \in 1..Len(q) /\ Tail(q)[i] = q[i + 1]  BY <1>1
    <3> QED  BY <3>1 DEF Items
  <2>3. Head(q) \in Items(q)  BY <1>1 DEF Items
  <2> QED  BY <2>1, <2>2, <2>3 DEF Items
<1>3. ASSUME Distinct(q)  PROVE Distinct(Tail(q)) /\ Head(q) \notin Items(Tail(q))
  <2>1. \A i, j \in 1..Len(q) : q[i] = q[j] => i = j  BY <1>3 DEF Distinct
  <2>2. \A i \in 1..Len(Tail(q)) : i + 1 \in 1..Len(q) /\ Tail(q)[i] = q[i + 1]  BY <1>1
  <2>3. ASSUME NEW i \in 1..Len(Tail(q)), NEW j \in 1..Len(Tail(q)), Tail(q)[i] = Tail(q)[j]
        PROVE  i = j
    <3>1. i + 1 = j + 1  BY <2>1, <2>2, <2>3
    <3> QED  BY <3>1, <1>1
  <2>4. ASSUME NEW i \in 1..Len(Tail(q))  PROVE Tail(q)[i] # Head(q)
    <3>1. 1 \in 1..Len(q) /\ i + 1 # 1  BY <1>1
    <3> QED  BY <1>1, <2>1, <2>2, <3>1
  <2> QED  BY <2>3, <2>4 DEF Distinct, Items
<1> QED  BY <1>1, <1>2, <1>3
----------------------------------------------------------------------------
\* Emission gates.

\* Nobody refers to the gate of a document.
Unreferenced(d) ==
  /\ \A s \in SubscriptionIds : (owner[s] # Null /\ task[s] # "done") => DocumentOfSub(s) # d
  /\ \A ch \in Connections :
       /\ \A e \in Items(events[ch]) : e.kind = "notification" => DocumentOfSub(e.sub) # d
       /\ EmissionOf(ch) => DocumentOfSub(conn[ch].arg.sub) # d
       /\ conn[ch].gate # Null => DocumentOf[conn[ch].arg] # d

\* The gate of a subscription that was handed out, and its document.
LEMMA OwnerTyped ==
  ASSUME TypeOK, NEW s \in SubscriptionIds, owner[s] # Null
  PROVE  /\ owner[s].connection \in Connections
         /\ owner[s].capability \in Capabilities
         /\ owner[s].gate \in Gates
         /\ DocumentOfSub(s) \in Documents
<1>1. owner[s] \in [connection : Connections, capability : Capabilities, gate : Gates]
  BY DEF TypeOK, Entry
<1> QED  BY <1>1, CapabilityAssumption DEF DocumentOfSub

\* The strong references of a document are its live subscriptions, their
\* emissions and the revocations in progress.
LEMMA ReferencesMeans ==
  ASSUME LoopInv, NEW d \in Documents
  PROVE  /\ \A s \in SubscriptionIds :
              (owner[s] # Null /\ task[s] # "done" /\ DocumentOfSub(s) = d)
                => owner[s].gate \in References(d)
         /\ \A ch \in Connections :
              /\ \A e \in Items(events[ch]) :
                   (e.kind = "notification" /\ DocumentOfSub(e.sub) = d)
                     => owner[e.sub].gate \in References(d)
              /\ (EmissionOf(ch) /\ DocumentOfSub(conn[ch].arg.sub) = d)
                   => owner[conn[ch].arg.sub].gate \in References(d)
              /\ (conn[ch].gate # Null /\ DocumentOf[conn[ch].arg] = d)
                   => conn[ch].gate \in References(d)
         /\ GateInv => References(d) \subseteq {gate_map[d]}
<1> DEFINE live == {s \in SubscriptionIds : owner[s] # Null /\ task[s] # "done"}
           emitting == {e.sub : e \in UNION {Emissions(ch) : ch \in Connections}}
           control == {ch \in Connections : conn[ch].gate # Null}
<1>1. References(d) =
        {owner[s].gate : s \in {x \in live \cup emitting : DocumentOfSub(x) = d}}
          \cup {conn[ch].gate : ch \in {x \in control : DocumentOf[conn[x].arg] = d}}
  BY DEF References
<1>2. \A ch \in Connections :
        Emissions(ch) = {e \in Items(events[ch]) : e.kind = "notification"}
                          \cup (IF EmissionOf(ch) THEN {conn[ch].arg} ELSE {})
  BY DEF Emissions, Items
<1>3. ASSUME NEW ch \in Connections, NEW e \in Emissions(ch)  PROVE e.sub \in emitting
  OBVIOUS
<1>4. ASSUME NEW s \in emitting
      PROVE  \E ch \in Connections :
               \/ \E e \in Items(events[ch]) : e.kind = "notification" /\ s = e.sub
               \/ EmissionOf(ch) /\ s = conn[ch].arg.sub
  <2>1. PICK e \in UNION {Emissions(ch) : ch \in Connections} : s = e.sub  OBVIOUS
  <2>2. PICK ch \in Connections : e \in Emissions(ch)  BY <2>1
  <2> QED  BY <1>2, <2>1, <2>2
<1>5. \A s \in live \cup emitting : DocumentOfSub(s) = d => owner[s].gate \in References(d)
  BY <1>1
<1>6. \A ch \in control : DocumentOf[conn[ch].arg] = d => conn[ch].gate \in References(d)
  BY <1>1
<1>7. ASSUME GateInv  PROVE References(d) \subseteq {gate_map[d]}
  <2>1. \A s \in emitting : Gated(s)  BY <1>4, <1>7 DEF GateInv
  <2>2. \A s \in live : Gated(s)  BY <1>7 DEF GateInv
  <2>3. \A ch \in control : conn[ch].gate = gate_map[DocumentOf[conn[ch].arg]]
    BY <1>7 DEF GateInv
  <2> HIDE DEF live, emitting, control
  <2> QED  BY <1>1, <2>1, <2>2, <2>3 DEF Gated
<1> HIDE DEF emitting
<1> QED  BY <1>2, <1>3, <1>5, <1>6, <1>7

\* A document to whose gate nobody refers finds one to which nobody does.
LEMMA FreeGate ==
  ASSUME LoopInv, GateInv, NEW d \in Documents, References(d) = {}
  PROVE  \E g \in Gates : ~HasReference(g)
<1> DEFINE Others == Documents \ {d}
<1>1. /\ IsFiniteSet(Others) /\ Cardinality(Others) = Cardinality(Documents) - 1
      /\ Cardinality(Documents) \in Nat /\ Cardinality(Gates) \in Nat
      /\ Cardinality(Documents) <= Cardinality(Gates)
  BY GateAssumption, FS_RemoveElement, FS_CardinalityType
<1>2. SUFFICES ASSUME \A g \in Gates : HasReference(g)  PROVE FALSE
  OBVIOUS
<1>3. Cardinality(Documents) # 0
  BY GateAssumption, FS_EmptySet
<1>4. Gates # {}
  BY <1>1, <1>3, FS_EmptySet
<1>5. \A g \in Gates : \E e \in Others : gate_map[e] = g
  BY <1>2, ReferencesMeans DEF HasReference
<1>6. PICK g0 \in Gates : TRUE  BY <1>4
<1> DEFINE f == [e \in Others |-> IF gate_map[e] \in Gates THEN gate_map[e] ELSE g0]
<1>7. f \in Surjection(Others, Gates)
  BY <1>5 DEF Surjection
<1> HIDE DEF Others, f
<1>8. Cardinality(Gates) <= Cardinality(Others)
  BY <1>1, <1>7, FS_Surjection
<1> QED  BY <1>1, <1>3, <1>8

\* emission_gate upgrades the weak entry while anybody refers to the gate, so
\* that it changes the entry of a document only when nobody does.
LEMMA EmissionGate ==
  ASSUME LoopInv, GateInv, NEW d \in Documents
  PROVE  /\ emission_gate(d) \in Gates
         /\ emission_gate(d) = gate_map[d] \/ Unreferenced(d)
<1>1. gate_map[d] \in Gates \cup {Null}
  BY DEF LoopInv, TypeOK
<1>2. CASE gate_map[d] # Null /\ HasReference(gate_map[d])
  BY <1>1, <1>2 DEF emission_gate
<1>3. CASE ~(gate_map[d] # Null /\ HasReference(gate_map[d]))
  <2>1. References(d) \subseteq {gate_map[d]}  BY ReferencesMeans
  <2>2. gate_map[d] # Null => References(d) = {}
    BY <1>3, <2>1 DEF HasReference
  <2>3. Null \notin Gates  BY NullIsNoIdentifier
  <2>4. \A s \in SubscriptionIds : owner[s] # Null => owner[s].gate \in Gates
    BY OwnerTyped DEF LoopInv
  <2>5. \A ch \in Connections : conn[ch].gate # Null => conn[ch].gate \in Gates
    BY DEF LoopInv, TypeOK
  <2>6. \A ch \in Connections :
          /\ \A e \in Items(events[ch]) : owner[e.sub].gate \in Gates
          /\ EmissionOf(ch) => owner[conn[ch].arg.sub].gate \in Gates
    BY <2>4 DEF LoopInv, ConnInv, EventInv, Owned
  <2>7. References(d) \cap Gates = {}
    BY <2>1, <2>2, <2>3
  <2>8. Unreferenced(d)
    BY <2>4, <2>5, <2>6, <2>7, ReferencesMeans DEF Unreferenced
  <2>9. References(d) = {}
    BY <2>1, <2>2, <2>4, <2>5, <2>6, <2>8
    DEF References, Unreferenced, Emissions, Items
  <2>10. emission_gate(d) = CHOOSE g \in Gates : ~HasReference(g)
    BY <1>3 DEF emission_gate
  <2> QED  BY <2>8, <2>9, <2>10, FreeGate
<1> QED  BY <1>2, <1>3

\* While neither owners nor entries change, a gate stays the one of its document.
LEMMA GatedKept ==
  ASSUME UNCHANGED <<owner, gate_map>>
  PROVE  \A s : Gated(s)' <=> Gated(s)
BY DEF Gated, DocumentOfSub
----------------------------------------------------------------------------
\* Type correctness.

\* The capacities are numbers.
LEMMA Capacities ==
  /\ UPDATE_NOTIFICATION_QUEUE_CAPACITY \in Nat
  /\ CONNECTION_EVENT_QUEUE_CAPACITY \in Nat
BY BoundsAssumption

\* invalidate only ever ends a subscription, and for its reason.
LEMMA InvalidateMeans ==
  ASSUME TypeOK, NEW S, NEW reason \in States \ {"ACTIVE"}
  PROVE  /\ invalidate(S, reason) \in [SubscriptionIds -> States]
         /\ \A s \in SubscriptionIds :
              /\ s \in S => invalidate(S, reason)[s] # "ACTIVE"
              /\ s \notin S => invalidate(S, reason)[s] = state[s]
              /\ invalidate(S, reason)[s] = "ACTIVE" => state[s] = "ACTIVE"
              /\ invalidate(S, reason)[s] \in {state[s], reason}
BY DEF TypeOK, invalidate

\* The event at the head of a queue.
LEMMA HeadEvent ==
  ASSUME LoopInv, NEW ch \in Connections, events[ch] # <<>>
  PROVE  /\ Head(events[ch]) \in Event /\ Head(events[ch]).sub \in SubscriptionIds
         /\ Head(events[ch]) \in Items(events[ch])
         /\ Tail(events[ch]) \in Seq(Event)
         /\ Items(events[ch]) = Items(Tail(events[ch])) \cup {Head(events[ch])}
         /\ Len(Tail(events[ch])) <= CONNECTION_EVENT_QUEUE_CAPACITY
<1>1. events[ch] \in Seq(Event) /\ Len(events[ch]) <= CONNECTION_EVENT_QUEUE_CAPACITY
  BY DEF LoopInv, TypeOK
<1>2. /\ Head(events[ch]) \in Event /\ Tail(events[ch]) \in Seq(Event)
      /\ Len(Tail(events[ch])) < Len(events[ch])
      /\ Items(events[ch]) = Items(Tail(events[ch])) \cup {Head(events[ch])}
  BY <1>1, ItemsTail
<1>3. Head(events[ch]).sub \in SubscriptionIds  BY <1>2 DEF Event
<1>4. Len(Tail(events[ch])) \in Nat /\ Len(events[ch]) \in Nat  BY <1>1, <1>2
<1> QED  BY <1>1, <1>2, <1>3, <1>4, Capacities

\* An event that a task appends to the queue of its connection.
LEMMA QueuedEvent ==
  ASSUME LoopInv, NEW ch \in Connections, NEW e \in Event, HasEventSpace(ch),
         events' = [events EXCEPT ![ch] = Append(@, e)]
  PROVE  /\ events' \in [Connections -> Seq(Event)]
         /\ \A k \in Connections : Len(events'[k]) <= CONNECTION_EVENT_QUEUE_CAPACITY
         /\ \A k \in Connections :
              Items(events'[k]) = IF k = ch THEN Items(events[ch]) \cup {e} ELSE Items(events[k])
<1>1. /\ events \in [Connections -> Seq(Event)]
      /\ \A k \in Connections : Len(events[k]) <= CONNECTION_EVENT_QUEUE_CAPACITY
  BY DEF LoopInv, TypeOK
<1>2. /\ Append(events[ch], e) \in Seq(Event) /\ Len(Append(events[ch], e)) = Len(events[ch]) + 1
      /\ Items(Append(events[ch], e)) = Items(events[ch]) \cup {e}
  BY <1>1, ItemsAppend
<1>3. Len(events[ch]) + 1 <= CONNECTION_EVENT_QUEUE_CAPACITY
  <2>1. Len(events[ch]) \in Nat  BY <1>1
  <2> QED  BY <2>1, Capacities DEF HasEventSpace
<1>4. \A k \in Connections :
        events'[k] = IF k = ch THEN Append(events[ch], e) ELSE events[k]
  BY <1>1
<1>5. events' \in [Connections -> Seq(Event)]
  BY <1>1, <1>2
<1> QED  BY <1>1, <1>2, <1>3, <1>4, <1>5

\* A dequeued event leaves a queue of events.
LEMMA DequeuedEvent ==
  ASSUME LoopInv, NEW ch \in Connections, events[ch] # <<>>,
         events' = [events EXCEPT ![ch] = Tail(@)]
  PROVE  /\ events' \in [Connections -> Seq(Event)]
         /\ \A k \in Connections : Len(events'[k]) <= CONNECTION_EVENT_QUEUE_CAPACITY
         /\ \A k \in Connections :
              events'[k] = IF k = ch THEN Tail(events[ch]) ELSE events[k]
         /\ \A k \in Connections : Items(events'[k]) \subseteq Items(events[k])
         /\ Items(events[ch]) = Items(events'[ch]) \cup {Head(events[ch])}
<1>1. /\ events \in [Connections -> Seq(Event)]
      /\ \A k \in Connections : Len(events[k]) <= CONNECTION_EVENT_QUEUE_CAPACITY
  BY DEF LoopInv, TypeOK
<1>2. /\ Tail(events[ch]) \in Seq(Event)
      /\ Len(Tail(events[ch])) <= CONNECTION_EVENT_QUEUE_CAPACITY
      /\ Items(events[ch]) = Items(Tail(events[ch])) \cup {Head(events[ch])}
  BY HeadEvent
<1>3. \A k \in Connections :
        events'[k] = IF k = ch THEN Tail(events[ch]) ELSE events[k]
  BY <1>1
<1>4. events' \in [Connections -> Seq(Event)]
  BY <1>1, <1>2
<1> QED  BY <1>1, <1>2, <1>3, <1>4

\* The event that a forwarding task has in hand.
LEMMA EventInHand ==
  ASSUME LoopInv, NEW s \in SubscriptionIds, task[s] = "forwarding"
  PROVE  /\ observed[s] \in Event /\ observed[s].sub = s
         /\ owner[s] # Null /\ owner[s].connection \in Connections
         /\ owner[s].gate \in Gates
BY OwnerTyped DEF LoopInv, TaskInv

\* The events that report the end of a subscription.
LEMMA TerminalEvents ==
  ASSUME NEW s \in SubscriptionIds
  PROVE  /\ [sub |-> s, kind |-> "overflow"] \in Event
         /\ [sub |-> s, kind |-> "invalidated"] \in Event
         /\ terminal_subscription_event(s) \in Event
         /\ \A u \in Updates : [sub |-> s, kind |-> "notification", update |-> u] \in Event
BY DEF Event, terminal_subscription_event

\* Who is first in line for a gate.
LEMMA FirstInLine ==
  ASSUME TypeOK, WaitInv, NEW g \in Gates, gate_wait[g] # <<>>
  PROVE  /\ Head(gate_wait[g]) \in Connections
         /\ Tail(gate_wait[g]) \in Seq(Connections)
         /\ Items(gate_wait[g]) = Items(Tail(gate_wait[g])) \cup {Head(gate_wait[g])}
         /\ Distinct(Tail(gate_wait[g]))
         /\ Head(gate_wait[g]) \notin Items(Tail(gate_wait[g]))
<1>1. gate_wait[g] \in Seq(Connections) /\ Distinct(gate_wait[g])
  BY DEF TypeOK, WaitInv
<1> QED  BY <1>1, ItemsTail

\* The steps of the specification, one by one.
LEMMA Steps ==
  ASSUME [Next]_vars
  PROVE  \/ \E ch \in Connections : Request(ch)
         \/ \E ch \in Connections : Serve(ch)
         \/ \E ch \in Connections : stop(ch)
         \/ \E s \in SubscriptionIds : Forward(s)
         \/ \E s \in SubscriptionIds : send_overflow(s)
         \/ \E g \in Gates : acquire(g)
         \/ UNCHANGED vars
BY DEF Next

\* The requests keep the types.
LEMMA TypeRequest ==
  ASSUME SubscriptionInv, NEW ch \in Connections, Request(ch)
  PROVE  TypeOK'
<1> USE DEF registry, gates, tasks, history, At, Phases
<1>1. TypeOK /\ LoopInv /\ GateInv  BY DEF SubscriptionInv, LoopInv
<1>2. ASSUME NEW c \in Capabilities, subscribe_refused(ch, c)  PROVE TypeOK'
  BY <1>1, <1>2 DEF TypeOK, subscribe_refused
<1>3. ASSUME NEW c \in Capabilities, subscribe_backpressure(ch, c)  PROVE TypeOK'
  BY <1>1, <1>3 DEF TypeOK, subscribe_backpressure, Pruned
<1>4. ASSUME NEW c \in Capabilities, NEW s \in SubscriptionIds, subscribe_updates(ch, c, s)
      PROVE  TypeOK'
  <2>1. DocumentOf[c] \in Documents  BY CapabilityAssumption
  <2>2. emission_gate(DocumentOf[c]) \in Gates  BY <1>1, <2>1, EmissionGate
  <2>3. owner' \in [SubscriptionIds -> Entry \cup {Null}]
    BY <1>1, <1>4, <2>2 DEF TypeOK, subscribe_updates, Entry
  <2>4. gate_map' \in [Documents -> Gates \cup {Null}]
    BY <1>1, <1>4, <2>2 DEF TypeOK, subscribe_updates
  <2> QED  BY <1>1, <1>4, <2>3, <2>4 DEF TypeOK, subscribe_updates, Pruned
<1>5. ASSUME NEW c \in Capabilities, NEW u \in Updates, accept(ch, c, u)  PROVE TypeOK'
  <2> DEFINE d == DocumentOf[c]
  <2>1. state' \in [SubscriptionIds -> States]
    BY <1>1, <1>5, InvalidateMeans DEF accept, States
  <2>2. ASSUME NEW s \in SubscriptionIds
        PROVE  queue'[s] \in Seq(Updates) /\ Len(queue'[s]) <= UPDATE_NOTIFICATION_QUEUE_CAPACITY
    <3>1. /\ queue[s] \in Seq(Updates) /\ Len(queue[s]) <= UPDATE_NOTIFICATION_QUEUE_CAPACITY
          /\ Len(queue[s]) \in Nat
      BY <1>1 DEF TypeOK
    <3>2. queue'[s] = IF s \in Notified(d) THEN Append(queue[s], u) ELSE queue[s]
      BY <1>5 DEF accept
    <3>3. CASE s \in Notified(d)
      <4>1. Len(queue[s]) + 1 <= UPDATE_NOTIFICATION_QUEUE_CAPACITY
        BY <3>1, <3>3, Capacities DEF Notified
      <4> QED  BY <3>1, <3>2, <3>3, <4>1, ItemsAppend
    <3> QED  BY <3>1, <3>2, <3>3
  <2>3. queue' \in [SubscriptionIds -> Seq(Updates)]
    BY <1>5, <2>2 DEF accept
  <2>4. due' \in [SubscriptionIds -> SUBSET Updates]
    BY <1>1, <1>5 DEF accept, TypeOK
  <2>5. accepted' \subseteq Documents \X Updates
    BY <1>1, <1>5, CapabilityAssumption DEF accept, TypeOK
  <2> QED  BY <1>1, <1>5, <2>1, <2>2, <2>3, <2>4, <2>5 DEF TypeOK, accept, Pruned
<1>6. ASSUME NEW c \in Capabilities, preflight_revoke_capability(ch, c)  PROVE TypeOK'
  BY <1>1, <1>6 DEF TypeOK, preflight_revoke_capability
<1>7. ASSUME handle_request(ch)  PROVE TypeOK'
  BY <1>1, <1>7 DEF TypeOK, handle_request
<1>8. ASSUME NEW s \in SubscriptionIds, cancel_subscription(ch, s)  PROVE TypeOK'
  BY <1>1, <1>8 DEF TypeOK, cancel_subscription
<1> QED  BY <1>2, <1>3, <1>4, <1>5, <1>6, <1>7, <1>8 DEF Request

\* Letting go of a gate, or of none.
LEMMA ReleaseTyped ==
  ASSUME TypeOK, NEW ch \in Connections, Release(ch)
  PROVE  /\ gate_hold' \in [Gates -> SUBSET Connections]
         /\ \A g \in Gates : gate_hold'[g] = gate_hold[g] \ {ch}
BY DEF TypeOK, Release

\* The steps of a connection loop keep the types.
LEMMA TypeServe ==
  ASSUME SubscriptionInv, NEW ch \in Connections, Serve(ch) \/ stop(ch)
  PROVE  TypeOK'
<1> USE DEF registry, gates, tasks, history, At, Phases
<1>1. TypeOK /\ LoopInv /\ GateInv /\ ConnInv  BY DEF SubscriptionInv, LoopInv
<1>2. ASSUME write_ack(ch)  PROVE TypeOK'
  BY <1>1, <1>2 DEF TypeOK, write_ack
<1>3. ASSUME write_cancelled(ch)  PROVE TypeOK'
  BY <1>1, <1>3 DEF TypeOK, write_cancelled
<1>4. ASSUME write_response(ch)  PROVE TypeOK'
  BY <1>1, <1>4 DEF TypeOK, write_response
<1>5. ASSUME write_terminal_event(ch)  PROVE TypeOK'
  <2>1. /\ events' \in [Connections -> Seq(Event)]
        /\ \A k \in Connections : Len(events'[k]) <= CONNECTION_EVENT_QUEUE_CAPACITY
    BY <1>1, <1>5, DequeuedEvent DEF write_terminal_event
  <2> QED  BY <1>1, <1>5, <2>1 DEF TypeOK, write_terminal_event
<1>6. ASSUME enter_emission(ch)  PROVE TypeOK'
  <2> DEFINE e == Head(events[ch])
             g == owner[e.sub].gate
  <2>1. /\ events' \in [Connections -> Seq(Event)]
        /\ \A k \in Connections : Len(events'[k]) <= CONNECTION_EVENT_QUEUE_CAPACITY
    BY <1>1, <1>6, DequeuedEvent DEF enter_emission
  <2>2. e \in Event /\ e \in Items(events[ch])
    BY <1>1, <1>6, HeadEvent DEF enter_emission
  <2>3. g \in Gates
    BY <1>1, <2>2, OwnerTyped DEF LoopInv, EventInv, Owned
  <2>4. gate_wait' \in [Gates -> Seq(Connections)]
    BY <1>1, <1>6, <2>3 DEF enter_emission, TypeOK
  <2>5. conn' \in [Connections ->
                 [phase : Phases, gate : Gates \cup {Null},
                  arg : SubscriptionIds \cup Capabilities \cup Event \cup {Null}]]
    BY <1>1, <1>6, <2>2 DEF enter_emission, TypeOK
  <2> QED  BY <1>1, <1>6, <2>1, <2>4, <2>5 DEF TypeOK, enter_emission
<1>7. ASSUME write_notification(ch)  PROVE TypeOK'
  <2>1. conn[ch].arg \in Event /\ conn[ch].arg.kind = "notification"
    BY <1>1, <1>7 DEF ConnInv, EmissionOf, write_notification
  <2>2. conn[ch].arg.update \in Updates  BY <2>1 DEF Event
  <2>3. gate_hold' \in [Gates -> SUBSET Connections]
    BY <1>1, <1>7, ReleaseTyped DEF write_notification
  <2>4. delivered' \in [SubscriptionIds -> SUBSET Updates]
    BY <1>1, <1>7, <2>2 DEF TypeOK, write_notification
  <2> QED  BY <1>1, <1>7, <2>3, <2>4 DEF TypeOK, write_notification
<1>8. ASSUME exclude(ch)  PROVE TypeOK'
  <2> DEFINE d == DocumentOf[conn[ch].arg]
             g == emission_gate(d)
  <2>1. conn[ch].arg \in Capabilities
    BY <1>1, <1>8 DEF ConnInv, exclude
  <2>2. d \in Documents  BY <2>1, CapabilityAssumption
  <2>3. g \in Gates  BY <1>1, <2>2, EmissionGate
  <2>4. /\ gate_map' = [gate_map EXCEPT ![d] = g]
        /\ gate_wait' = [gate_wait EXCEPT ![g] = Append(@, ch)]
        /\ conn' = [conn EXCEPT ![ch] = [@ EXCEPT !.phase = "excluding", !.gate = g]]
        /\ UNCHANGED <<revoked, accepted, registry, gate_hold, tasks, events, history>>
    BY <1>8 DEF exclude
  <2> HIDE DEF d, g
  <2>5. gate_wait' \in [Gates -> Seq(Connections)] /\ gate_map' \in [Documents -> Gates \cup {Null}]
    <3>1. /\ gate_wait \in [Gates -> Seq(Connections)]
          /\ gate_map \in [Documents -> Gates \cup {Null}]
      BY <1>1 DEF TypeOK
    <3>2. Append(gate_wait[g], ch) \in Seq(Connections)  BY <2>3, <3>1
    <3> QED  BY <2>3, <2>4, <3>1, <3>2
  <2>6. conn' \in [Connections ->
                 [phase : Phases, gate : Gates \cup {Null},
                  arg : SubscriptionIds \cup Capabilities \cup Event \cup {Null}]]
    <3>1. conn \in [Connections ->
                 [phase : Phases, gate : Gates \cup {Null},
                  arg : SubscriptionIds \cup Capabilities \cup Event \cup {Null}]]
      BY <1>1 DEF TypeOK
    <3> QED  BY <2>3, <2>4, <3>1
  <2> QED  BY <1>1, <2>4, <2>5, <2>6 DEF TypeOK
<1>9. ASSUME revoke_capability(ch)  PROVE TypeOK'
  <2>1. gate_hold' \in [Gates -> SUBSET Connections]
    BY <1>1, <1>9, ReleaseTyped DEF revoke_capability
  <2>2. state' \in [SubscriptionIds -> States]
    BY <1>1, <1>9, InvalidateMeans DEF revoke_capability, States, TypeOK
  <2>3. conn[ch].arg \in Capabilities
    BY <1>1, <1>9 DEF ConnInv, revoke_capability
  <2>4. revoked' \subseteq Capabilities /\ registered' \subseteq SubscriptionIds
    BY <1>1, <1>9, <2>3, CapabilityAssumption DEF TypeOK, revoke_capability
  <2> QED  BY <1>1, <1>9, <2>1, <2>2, <2>4 DEF TypeOK, revoke_capability
<1>10. ASSUME close_channel(ch)  PROVE TypeOK'
  <2>1. state' \in [SubscriptionIds -> States]
    BY <1>1, <1>10, InvalidateMeans DEF close_channel, States
  <2> QED  BY <1>1, <1>10, <2>1 DEF TypeOK, close_channel
<1>11. ASSUME stop(ch)  PROVE TypeOK'
  <2>1. gate_hold' \in [Gates -> SUBSET Connections]
    BY <1>1, <1>11, ReleaseTyped DEF stop
  <2>2. state' \in [SubscriptionIds -> States]
    BY <1>1, <1>11, InvalidateMeans DEF stop, States
  <2>3. /\ events' \in [Connections -> Seq(Event)]
        /\ \A k \in Connections : Len(events'[k]) <= CONNECTION_EVENT_QUEUE_CAPACITY
    <3>1. /\ events' = [events EXCEPT ![ch] = <<>>]
          /\ <<>> \in Seq(Event) /\ Len(<<>>) = 0
      BY <1>11 DEF stop
    <3> QED  BY <1>1, <3>1, Capacities DEF TypeOK
  <2>4. task' \in [SubscriptionIds ->
                 {"none", "held", "polling", "forwarding", "overflowing", "done"}]
    BY <1>1, <1>11 DEF stop, TypeOK
  <2>5. conn' = [conn EXCEPT ![ch] = At("closing", Null)]
        /\ UNCHANGED <<revoked, accepted, registered, owner, queue, gate_map, gate_wait,
                     observed, cancelled, history>>
    BY <1>11 DEF stop
  <2> QED  BY <1>1, <2>1, <2>2, <2>3, <2>4, <2>5 DEF TypeOK
<1> QED
  BY <1>2, <1>3, <1>4, <1>5, <1>6, <1>7, <1>8, <1>9, <1>10, <1>11 DEF Serve

\* The forwarding tasks keep the types, and the event queues their capacity.
LEMMA TypeTask ==
  ASSUME SubscriptionInv, NEW s \in SubscriptionIds, Forward(s) \/ send_overflow(s)
  PROVE  TypeOK'
<1> USE DEF registry, gates, tasks, history
<1>1. TypeOK /\ LoopInv /\ TaskInv  BY DEF SubscriptionInv, LoopInv
<1>2. ASSUME Finish(s)
      PROVE  /\ state' \in [SubscriptionIds -> States]
             /\ task' \in [SubscriptionIds ->
                  {"none", "held", "polling", "forwarding", "overflowing", "done"}]
             /\ observed' \in [SubscriptionIds -> Event \cup {Null}]
  <2>1. state' \in [SubscriptionIds -> States]
    BY <1>1, <1>2, InvalidateMeans DEF Finish, States
  <2> QED  BY <1>1, <1>2, <2>1 DEF Finish, TypeOK
<1>3. ASSUME poll_cancelled(s)  PROVE TypeOK'
  BY <1>1, <1>2, <1>3 DEF TypeOK, poll_cancelled
<1>4. ASSUME poll_ended(s)  PROVE TypeOK'
  <2>1. CASE Finish(s)  BY <1>1, <1>2, <1>4, <2>1 DEF TypeOK, poll_ended
  <2>2. CASE /\ observed' = [observed EXCEPT ![s] = terminal_subscription_event(s)]
             /\ task' = [task EXCEPT ![s] = "forwarding"]
             /\ UNCHANGED state
    <3>1. observed' \in [SubscriptionIds -> Event \cup {Null}]
      BY <1>1, <2>2, TerminalEvents DEF TypeOK
    <3> QED  BY <1>1, <1>4, <2>2, <3>1 DEF TypeOK, poll_ended
  <2> QED  BY <1>4, <2>1, <2>2 DEF poll_ended
<1>5. ASSUME poll_notification(s)  PROVE TypeOK'
  <2>1. queue[s] \in Seq(Updates) /\ queue[s] # <<>> /\ Len(queue[s]) \in Nat
        /\ Len(queue[s]) <= UPDATE_NOTIFICATION_QUEUE_CAPACITY
    BY <1>1, <1>5 DEF TypeOK, poll_notification
  <2>2. /\ Head(queue[s]) \in Updates /\ Tail(queue[s]) \in Seq(Updates)
        /\ Len(Tail(queue[s])) < Len(queue[s])
    BY <2>1, ItemsTail
  <2>3. Len(Tail(queue[s])) \in Nat  BY <2>2
  <2>4. Len(Tail(queue[s])) <= UPDATE_NOTIFICATION_QUEUE_CAPACITY
    BY <2>1, <2>2, <2>3, Capacities
  <2>5. observed' \in [SubscriptionIds -> Event \cup {Null}]
    BY <1>1, <1>5, <2>2, TerminalEvents DEF TypeOK, poll_notification
  <2>6. /\ queue' \in [SubscriptionIds -> Seq(Updates)]
        /\ \A t \in SubscriptionIds : Len(queue'[t]) <= UPDATE_NOTIFICATION_QUEUE_CAPACITY
    BY <1>1, <1>5, <2>2, <2>4 DEF TypeOK, poll_notification
  <2> QED  BY <1>1, <1>5, <2>5, <2>6 DEF TypeOK, poll_notification
<1>6. ASSUME forward(s)  PROVE TypeOK'
  <2> DEFINE ch == owner[s].connection
  <2>1. ch \in Connections /\ observed[s] \in Event
    BY <1>1, <1>6, EventInHand DEF forward
  <2>2. /\ events' \in [Connections -> Seq(Event)]
        /\ \A k \in Connections : Len(events'[k]) <= CONNECTION_EVENT_QUEUE_CAPACITY
    <3>1. CASE HasEventSpace(ch) /\ events' = [events EXCEPT ![ch] = Append(@, observed[s])]
      BY <1>1, <2>1, <3>1, QueuedEvent
    <3>2. CASE UNCHANGED events  BY <1>1, <3>2 DEF TypeOK
    <3> QED  BY <1>6, <3>1, <3>2 DEF forward
  <2>3. CASE Finish(s)  BY <1>1, <1>2, <1>6, <2>2, <2>3 DEF TypeOK, forward
  <2>4. CASE /\ task' = [task EXCEPT ![s] = "polling"]
             /\ observed' = [observed EXCEPT ![s] = Null]
             /\ UNCHANGED state
    BY <1>1, <1>6, <2>2, <2>4 DEF TypeOK, forward
  <2>5. CASE /\ state' = invalidate({s}, "CANCELLED")
             /\ task' = [task EXCEPT ![s] = "overflowing"]
             /\ observed' = [observed EXCEPT ![s] = Null]
    <3>1. state' \in [SubscriptionIds -> States]
      BY <1>1, <2>5, InvalidateMeans DEF States
    <3> QED  BY <1>1, <1>6, <2>2, <2>5, <3>1 DEF TypeOK, forward
  <2> QED  BY <1>6, <2>3, <2>4, <2>5 DEF forward
<1>7. ASSUME abort(s)  PROVE TypeOK'
  BY <1>1, <1>2, <1>7 DEF TypeOK, abort
<1>8. ASSUME send_overflow(s)  PROVE TypeOK'
  <2> DEFINE ch == owner[s].connection
             e == [sub |-> s, kind |-> "overflow"]
  <2>1. ch \in Connections /\ e \in Event
    BY <1>1, <1>8, OwnerTyped, TerminalEvents DEF send_overflow, TaskInv
  <2> HIDE DEF e
  <2>2. /\ events' \in [Connections -> Seq(Event)]
        /\ \A k \in Connections : Len(events'[k]) <= CONNECTION_EVENT_QUEUE_CAPACITY
    <3>1. CASE HasEventSpace(ch) /\ events' = [events EXCEPT ![ch] = Append(@, e)]
      BY <1>1, <2>1, <3>1, QueuedEvent
    <3>2. CASE UNCHANGED events  BY <1>1, <3>2 DEF TypeOK
    <3> QED  BY <1>8, <3>1, <3>2 DEF send_overflow, e
  <2> QED  BY <1>1, <1>2, <1>8, <2>2 DEF TypeOK, send_overflow
<1> QED  BY <1>3, <1>4, <1>5, <1>6, <1>7, <1>8 DEF Forward

\* Whoever takes a gate keeps the types.
LEMMA TypeAcquire ==
  ASSUME SubscriptionInv, NEW g \in Gates, acquire(g)
  PROVE  TypeOK'
<1> USE DEF registry, gates, tasks, history, At, Phases
<1>1. TypeOK /\ WaitInv  BY DEF SubscriptionInv, LoopInv
<1> DEFINE ch == Head(gate_wait[g])
<1>2. ch \in Connections /\ Tail(gate_wait[g]) \in Seq(Connections)
  BY <1>1, FirstInLine DEF acquire
<1>3. /\ gate_wait' = [gate_wait EXCEPT ![g] = Tail(@)]
      /\ \/ conn' = [conn EXCEPT ![ch].phase = "write"]
         \/ conn' = [conn EXCEPT ![ch] = At("idle", Null)]
         \/ conn' = [conn EXCEPT ![ch].phase = "mutating"]
      /\ gate_hold' = [gate_hold EXCEPT ![g] = @ \cup {ch}] \/ gate_hold' = gate_hold
      /\ UNCHANGED <<revoked, accepted, registry, gate_map, tasks, events, history>>
  BY DEF acquire
<1> HIDE DEF ch
<1>4. gate_wait' \in [Gates -> Seq(Connections)]  BY <1>1, <1>2, <1>3 DEF TypeOK
<1>5. gate_hold' \in [Gates -> SUBSET Connections]
  <2>1. gate_hold \in [Gates -> SUBSET Connections]  BY <1>1 DEF TypeOK
  <2> QED  BY <1>2, <1>3, <2>1
<1>6. conn' \in [Connections ->
                 [phase : Phases, gate : Gates \cup {Null},
                  arg : SubscriptionIds \cup Capabilities \cup Event \cup {Null}]]
  <2>1. conn \in [Connections ->
                 [phase : Phases, gate : Gates \cup {Null},
                  arg : SubscriptionIds \cup Capabilities \cup Event \cup {Null}]]
    BY <1>1 DEF TypeOK
  <2>2. CASE conn' = [conn EXCEPT ![ch].phase = "write"]  BY <1>2, <2>1, <2>2
  <2>3. CASE conn' = [conn EXCEPT ![ch] = At("idle", Null)]  BY <1>2, <2>1, <2>3
  <2>4. CASE conn' = [conn EXCEPT ![ch].phase = "mutating"]  BY <1>2, <2>1, <2>4
  <2> QED  BY <1>3, <2>2, <2>3, <2>4
<1> QED  BY <1>1, <1>3, <1>4, <1>5, <1>6 DEF TypeOK
----------------------------------------------------------------------------
\* What the steps that take several forms do.

\* First in line takes the gate for a write, is dropped, or takes it alone.
LEMMA AcquireMeans ==
  ASSUME SubscriptionInv, NEW g \in Gates, acquire(g)
  PROVE  LET ch == Head(gate_wait[g]) IN
         /\ ch \in Connections
         /\ ch \in Items(gate_wait[g]) /\ ch \notin Items(gate_wait'[g])
         /\ gate_wait' \in [Gates -> Seq(Connections)]
         /\ \A h \in Gates : Items(gate_wait'[h]) \subseteq Items(gate_wait[h])
         /\ \A h \in Gates : Distinct(gate_wait'[h])
         /\ \A k \in Connections \ {ch} : conn'[k] = conn[k]
         /\ \/ /\ conn[ch].phase = "enter" /\ is_authorized(conn[ch].arg.sub)
               /\ owner[conn[ch].arg.sub].gate = g
               /\ \A h \in gate_hold[g] : conn[h].phase # "mutating"
               /\ gate_hold' = [gate_hold EXCEPT ![g] = @ \cup {ch}]
               /\ conn'[ch] = [conn[ch] EXCEPT !.phase = "write"]
            \/ /\ conn[ch].phase = "enter" /\ ~is_authorized(conn[ch].arg.sub)
               /\ gate_hold' = gate_hold
               /\ conn'[ch] = At("idle", Null)
            \/ /\ conn[ch].phase = "excluding" /\ conn[ch].gate = g
               /\ gate_hold[g] = {}
               /\ gate_hold' = [gate_hold EXCEPT ![g] = @ \cup {ch}]
               /\ conn'[ch] = [conn[ch] EXCEPT !.phase = "mutating"]
         /\ UNCHANGED <<revoked, accepted, registry, gate_map, tasks, events, history>>
<1> DEFINE ch == Head(gate_wait[g])
<1>1. TypeOK /\ WaitInv  BY DEF SubscriptionInv, LoopInv
<1>2. /\ ch \in Connections /\ Tail(gate_wait[g]) \in Seq(Connections)
      /\ Items(gate_wait[g]) = Items(Tail(gate_wait[g])) \cup {ch}
      /\ Distinct(Tail(gate_wait[g])) /\ ch \notin Items(Tail(gate_wait[g]))
  BY <1>1, FirstInLine DEF acquire
<1>3. /\ gate_wait \in [Gates -> Seq(Connections)]
      /\ gate_wait' = [gate_wait EXCEPT ![g] = Tail(@)]
      /\ \A h \in Gates : Distinct(gate_wait[h])
  BY <1>1 DEF TypeOK, acquire, WaitInv
<1>4. \A h \in Gates : gate_wait'[h] = IF h = g THEN Tail(gate_wait[g]) ELSE gate_wait[h]
  BY <1>3
<1>5. /\ CanAcquire(g, ch)
      /\ \/ /\ conn[ch].phase = "enter" /\ is_authorized(conn[ch].arg.sub)
            /\ gate_hold' = [gate_hold EXCEPT ![g] = @ \cup {ch}]
            /\ conn' = [conn EXCEPT ![ch].phase = "write"]
         \/ /\ conn[ch].phase = "enter" /\ ~is_authorized(conn[ch].arg.sub)
            /\ gate_hold' = gate_hold
            /\ conn' = [conn EXCEPT ![ch] = At("idle", Null)]
         \/ /\ conn[ch].phase = "excluding"
            /\ gate_hold' = [gate_hold EXCEPT ![g] = @ \cup {ch}]
            /\ conn' = [conn EXCEPT ![ch].phase = "mutating"]
      /\ UNCHANGED <<revoked, accepted, registry, gate_map, tasks, events, history>>
  BY DEF acquire
<1>6. \/ conn[ch].phase = "enter" /\ owner[conn[ch].arg.sub].gate = g
      \/ conn[ch].phase = "excluding" /\ conn[ch].gate = g
  BY <1>1, <1>2 DEF WaitInv
<1>7. conn \in [Connections ->
                 [phase : Phases, gate : Gates \cup {Null},
                  arg : SubscriptionIds \cup Capabilities \cup Event \cup {Null}]]
  BY <1>1 DEF TypeOK
<1> HIDE DEF ch
<1>8. gate_wait' \in [Gates -> Seq(Connections)]  BY <1>2, <1>3
<1>9. /\ \A h \in Gates : Items(gate_wait'[h]) \subseteq Items(gate_wait[h])
      /\ \A h \in Gates : Distinct(gate_wait'[h])
      /\ ch \in Items(gate_wait[g]) /\ ch \notin Items(gate_wait'[g])
  BY <1>2, <1>3, <1>4
<1>10. CASE conn[ch].phase = "enter"
  <2>1. \A h \in gate_hold[g] : conn[h].phase # "mutating"  BY <1>5, <1>10 DEF CanAcquire
  <2>2. owner[conn[ch].arg.sub].gate = g  BY <1>6, <1>10
  <2> QED  BY <1>2, <1>5, <1>7, <1>8, <1>9, <1>10, <2>1, <2>2 DEF ch
<1>11. CASE conn[ch].phase = "excluding"
  <2>1. gate_hold[g] = {}  BY <1>5, <1>11 DEF CanAcquire
  <2>2. conn[ch].gate = g  BY <1>6, <1>11
  <2> QED  BY <1>2, <1>5, <1>7, <1>8, <1>9, <1>11, <2>1, <2>2 DEF ch
<1> QED  BY <1>6, <1>10, <1>11

\* A revocation looks up the gate of its document and lines up for it.
LEMMA ExcludeMeans ==
  ASSUME SubscriptionInv, NEW ch \in Connections, exclude(ch)
  PROVE  LET d == DocumentOf[conn[ch].arg]
             g == emission_gate(d) IN
         /\ conn[ch].phase = "admitted" /\ conn[ch].arg \in Capabilities
         /\ d \in Documents /\ g \in Gates /\ g # Null
         /\ g = gate_map[d] \/ Unreferenced(d)
         /\ gate_map' = [gate_map EXCEPT ![d] = g]
         /\ gate_wait' = [gate_wait EXCEPT ![g] = Append(@, ch)]
         /\ conn'[ch].phase = "excluding" /\ conn'[ch].arg = conn[ch].arg /\ conn'[ch].gate = g
         /\ \A k \in Connections \ {ch} : conn'[k] = conn[k]
         /\ UNCHANGED <<revoked, accepted, registry, gate_hold, tasks, events, history>>
<1> DEFINE d == DocumentOf[conn[ch].arg]
           g == emission_gate(d)
<1>1. TypeOK /\ LoopInv /\ ConnInv /\ GateInv  BY DEF SubscriptionInv, LoopInv
<1>2. /\ conn[ch].phase = "admitted"
      /\ gate_map' = [gate_map EXCEPT ![d] = g]
      /\ gate_wait' = [gate_wait EXCEPT ![g] = Append(@, ch)]
      /\ conn' = [conn EXCEPT ![ch] = [@ EXCEPT !.phase = "excluding", !.gate = g]]
      /\ UNCHANGED <<revoked, accepted, registry, gate_hold, tasks, events, history>>
  BY DEF exclude
<1>3. conn[ch].arg \in Capabilities  BY <1>1, <1>2 DEF ConnInv
<1>4. d \in Documents  BY <1>3, CapabilityAssumption
<1>5. g \in Gates /\ (g = gate_map[d] \/ Unreferenced(d))  BY <1>1, <1>4, EmissionGate
<1>6. g # Null  BY <1>5, NullIsNoIdentifier
<1>7. conn \in [Connections ->
                 [phase : Phases, gate : Gates \cup {Null},
                  arg : SubscriptionIds \cup Capabilities \cup Event \cup {Null}]]
  BY <1>1 DEF TypeOK
<1> HIDE DEF d, g
<1>8. /\ conn'[ch].phase = "excluding" /\ conn'[ch].arg = conn[ch].arg /\ conn'[ch].gate = g
      /\ \A k \in Connections \ {ch} : conn'[k] = conn[k]
  BY <1>2, <1>7
<1> QED  BY <1>2, <1>3, <1>4, <1>5, <1>6, <1>8 DEF d, g

\* A registration hands out a new subscription with the gate of its document.
LEMMA SubscribeMeans ==
  ASSUME SubscriptionInv, NEW ch \in Connections, NEW c \in Capabilities,
         NEW s \in SubscriptionIds, subscribe_updates(ch, c, s)
  PROVE  LET d == DocumentOf[c]
             g == emission_gate(d) IN
         /\ conn[ch].phase = "idle" /\ events[ch] = <<>> /\ c \notin revoked
         /\ owner[s] = Null
         /\ d \in Documents /\ g \in Gates
         /\ g = gate_map[d] \/ Unreferenced(d)
         /\ owner'[s] # Null /\ owner'[s].connection = ch
         /\ owner'[s].capability = c /\ owner'[s].gate = g
         /\ \A t \in SubscriptionIds \ {s} : owner'[t] = owner[t]
         /\ gate_map' = [gate_map EXCEPT ![d] = g]
         /\ registered' = Pruned \cup {s}
         /\ task' = [task EXCEPT ![s] = "held"]
         /\ conn' = [conn EXCEPT ![ch] = At("ack", s)]
         /\ UNCHANGED <<revoked, accepted, state, queue, gate_wait, gate_hold,
                        observed, cancelled, events, history>>
<1> DEFINE d == DocumentOf[c]
           g == emission_gate(d)
<1>1. TypeOK /\ LoopInv /\ GateInv  BY DEF SubscriptionInv, LoopInv
<1>2. d \in Documents  BY CapabilityAssumption
<1>3. g \in Gates /\ (g = gate_map[d] \/ Unreferenced(d))  BY <1>1, <1>2, EmissionGate
<1>4. /\ conn[ch].phase = "idle" /\ events[ch] = <<>> /\ c \notin revoked
      /\ owner[s] = Null
      /\ owner' = [owner EXCEPT ![s] = [connection |-> ch, capability |-> c, gate |-> g]]
      /\ gate_map' = [gate_map EXCEPT ![d] = g]
      /\ registered' = Pruned \cup {s}
      /\ task' = [task EXCEPT ![s] = "held"]
      /\ conn' = [conn EXCEPT ![ch] = At("ack", s)]
      /\ UNCHANGED <<revoked, accepted, state, queue, gate_wait, gate_hold,
                     observed, cancelled, events, history>>
  BY DEF subscribe_updates, TakesRequest
<1> HIDE DEF d, g
<1>5. /\ owner'[s] = [connection |-> ch, capability |-> c, gate |-> g]
      /\ \A t \in SubscriptionIds \ {s} : owner'[t] = owner[t]
  BY <1>1, <1>4 DEF TypeOK
<1>6. owner'[s] # Null  BY <1>3, <1>5, NullIsNoValue DEF Entry
<1> QED  BY <1>2, <1>3, <1>4, <1>5, <1>6 DEF d, g

\* A loop that lets go of its gate, or of none, leaves the other holders be.
LEMMA ReleaseKeeps ==
  ASSUME TypeOK, ConnInv, HoldInv, NEW ch \in Connections, Release(ch), UNCHANGED owner,
         conn'[ch].phase \notin {"write", "mutating"},
         \A k \in Connections \ {ch} : conn'[k] = conn[k]
  PROVE  HoldInv'
<1>1. \A h \in Gates : gate_hold'[h] = gate_hold[h] \ {ch}
  BY ReleaseTyped
<1>2. ASSUME NEW k \in Connections, conn[k].phase = "write"
      PROVE  owner[conn[k].arg.sub].gate \in Gates
  BY <1>2, OwnerTyped DEF ConnInv, EmissionOf, Owned
<1>3. ASSUME NEW k \in Connections, conn[k].phase = "mutating"  PROVE conn[k].gate \in Gates
  BY <1>3 DEF ConnInv, TypeOK
<1> QED  BY <1>1, <1>2, <1>3 DEF HoldInv
----------------------------------------------------------------------------
\* Every step preserves each part of the invariant.

\* The loops, their queues and the forwarding tasks keep their invariants.
LEMMA LoopKept ==
  ASSUME SubscriptionInv, [Next]_vars
  PROVE  (ConnInv /\ EventInv /\ TaskInv)'
<1> USE DEF registry, gates, tasks, history, At
<1>1. TypeOK /\ LoopInv /\ ConnInv /\ EventInv /\ TaskInv
  BY DEF SubscriptionInv, LoopInv
<1>2. ASSUME NEW ch \in Connections, NEW c \in Capabilities, subscribe_refused(ch, c)
      PROVE  (ConnInv /\ EventInv /\ TaskInv)'
  BY <1>1, <1>2, NullIsNoIdentifier, HeadEvent, DequeuedEvent, ItemsEmpty
  DEF subscribe_refused, TypeOK, ConnInv, EventInv, TaskInv, Owned, EmissionOf,
       TakesRequest
<1>3. ASSUME NEW ch \in Connections, NEW c \in Capabilities, subscribe_backpressure(ch, c)
      PROVE  (ConnInv /\ EventInv /\ TaskInv)'
  BY <1>1, <1>3, NullIsNoIdentifier, HeadEvent, DequeuedEvent, ItemsEmpty
  DEF subscribe_backpressure, Pruned, TypeOK, ConnInv, EventInv, TaskInv, Owned,
       EmissionOf, TakesRequest
<1>4. ASSUME NEW ch \in Connections, NEW c \in Capabilities, NEW s \in SubscriptionIds, subscribe_updates(ch, c, s)
      PROVE  (ConnInv /\ EventInv /\ TaskInv)'
  <2>1. /\ conn[ch].phase = "idle" /\ owner[s] = Null
        /\ owner'[s] # Null /\ owner'[s].connection = ch
        /\ \A t \in SubscriptionIds \ {s} : owner'[t] = owner[t]
        /\ task' = [task EXCEPT ![s] = "held"]
        /\ conn' = [conn EXCEPT ![ch] = At("ack", s)]
        /\ UNCHANGED <<state, events, observed, seen>>
    BY <1>4, SubscribeMeans
  <2>2. ConnInv'
    <3>1. \A t, k : Owned(t, k) => Owned(t, k)' /\ task'[t] = task[t]
      BY <1>1, <2>1 DEF Owned, TypeOK
    <3>2. Owned(s, ch)' /\ task'[s] = "held"  BY <1>1, <2>1 DEF Owned, TypeOK
    <3>3. /\ conn'[ch].phase = "ack" /\ conn'[ch].arg = s /\ conn'[ch].gate = Null
          /\ \A k \in Connections \ {ch} : conn'[k] = conn[k]
      BY <1>1, <2>1 DEF TypeOK
    <3> QED  BY <1>1, <2>1, <3>1, <3>2, <3>3 DEF ConnInv, EmissionOf
  <2>3. EventInv'  BY <1>1, <2>1 DEF EventInv, Owned
  <2>4. TaskInv'  BY <1>1, <2>1 DEF TypeOK, TaskInv
  <2> QED  BY <2>2, <2>3, <2>4
<1>5. ASSUME NEW ch \in Connections, NEW c \in Capabilities, NEW u \in Updates, accept(ch, c, u)
      PROVE  (ConnInv /\ EventInv /\ TaskInv)'
  BY <1>1, <1>5, NullIsNoIdentifier, HeadEvent, DequeuedEvent, ItemsEmpty
  DEF accept, Pruned, invalidate, Overflowing, TypeOK, ConnInv, EventInv, TaskInv, Owned,
       EmissionOf, TakesRequest
<1>6. ASSUME NEW ch \in Connections, NEW c \in Capabilities, preflight_revoke_capability(ch, c)
      PROVE  (ConnInv /\ EventInv /\ TaskInv)'
  BY <1>1, <1>6, NullIsNoIdentifier, HeadEvent, DequeuedEvent, ItemsEmpty
  DEF preflight_revoke_capability, TypeOK, ConnInv, EventInv, TaskInv, Owned, EmissionOf,
       TakesRequest
<1>7. ASSUME NEW ch \in Connections, handle_request(ch)
      PROVE  (ConnInv /\ EventInv /\ TaskInv)'
  BY <1>1, <1>7, NullIsNoIdentifier, HeadEvent, DequeuedEvent, ItemsEmpty
  DEF handle_request, TypeOK, ConnInv, EventInv, TaskInv, Owned, EmissionOf,
       TakesRequest
<1>8. ASSUME NEW ch \in Connections, NEW s \in SubscriptionIds, cancel_subscription(ch, s)
      PROVE  (ConnInv /\ EventInv /\ TaskInv)'
  <2>1. ConnInv'
    BY <1>1, <1>8 DEF cancel_subscription, TypeOK, ConnInv, Owned, EmissionOf
  <2>2. EventInv'  BY <1>1, <1>8 DEF cancel_subscription, EventInv, Owned
  <2>3. TaskInv'  BY <1>1, <1>8 DEF cancel_subscription, TaskInv
  <2> QED  BY <2>1, <2>2, <2>3
<1>9. ASSUME NEW ch \in Connections, write_ack(ch)
      PROVE  (ConnInv /\ EventInv /\ TaskInv)'
  BY <1>1, <1>9, NullIsNoIdentifier, HeadEvent, DequeuedEvent, ItemsEmpty
  DEF write_ack, TypeOK, ConnInv, EventInv, TaskInv, Owned, EmissionOf, TakesRequest
<1>10. ASSUME NEW ch \in Connections, write_cancelled(ch)
      PROVE  (ConnInv /\ EventInv /\ TaskInv)'
  BY <1>1, <1>10, NullIsNoIdentifier, HeadEvent, DequeuedEvent, ItemsEmpty
  DEF write_cancelled, TypeOK, ConnInv, EventInv, TaskInv, Owned, EmissionOf,
       TakesRequest
<1>11. ASSUME NEW ch \in Connections, write_response(ch)
      PROVE  (ConnInv /\ EventInv /\ TaskInv)'
  BY <1>1, <1>11, NullIsNoIdentifier, HeadEvent, DequeuedEvent, ItemsEmpty
  DEF write_response, TypeOK, ConnInv, EventInv, TaskInv, Owned, EmissionOf,
       TakesRequest
<1>12. ASSUME NEW ch \in Connections, write_terminal_event(ch)
      PROVE  (ConnInv /\ EventInv /\ TaskInv)'
  BY <1>1, <1>12, NullIsNoIdentifier, HeadEvent, DequeuedEvent, ItemsEmpty
  DEF write_terminal_event, TypeOK, ConnInv, EventInv, TaskInv, Owned, EmissionOf,
       TakesRequest
<1>13. ASSUME NEW ch \in Connections, enter_emission(ch)
      PROVE  (ConnInv /\ EventInv /\ TaskInv)'
  <2> DEFINE e == Head(events[ch])
  <2>1. /\ e \in Event /\ e.kind = "notification" /\ e \in Items(events[ch])
        /\ \A k \in Connections : Items(events'[k]) \subseteq Items(events[k])
        /\ conn' = [conn EXCEPT ![ch] = At("enter", e)]
        /\ UNCHANGED <<owner, state, task, observed, seen>>
    BY <1>1, <1>13, HeadEvent, DequeuedEvent DEF enter_emission
  <2> HIDE DEF e
  <2>2. ConnInv'
    BY <1>1, <2>1 DEF TypeOK, ConnInv, EventInv, Owned, EmissionOf
  <2>3. EventInv'  BY <1>1, <2>1 DEF EventInv, Owned
  <2>4. TaskInv'  BY <1>1, <2>1 DEF TaskInv
  <2> QED  BY <2>2, <2>3, <2>4
<1>14. ASSUME NEW ch \in Connections, write_notification(ch)
      PROVE  (ConnInv /\ EventInv /\ TaskInv)'
  BY <1>1, <1>14, NullIsNoIdentifier, HeadEvent, DequeuedEvent, ItemsEmpty
  DEF write_notification, Release, TypeOK, ConnInv, EventInv, TaskInv, Owned, EmissionOf,
       TakesRequest
<1>15. ASSUME NEW ch \in Connections, exclude(ch)
      PROVE  (ConnInv /\ EventInv /\ TaskInv)'
  <2>1. /\ conn[ch].phase = "admitted" /\ conn[ch].arg \in Capabilities
        /\ conn'[ch].phase = "excluding" /\ conn'[ch].arg = conn[ch].arg
        /\ conn'[ch].gate # Null
        /\ \A k \in Connections \ {ch} : conn'[k] = conn[k]
        /\ UNCHANGED <<owner, state, task, observed, seen, events>>
    BY <1>15, ExcludeMeans
  <2>2. ConnInv'  BY <1>1, <2>1 DEF ConnInv, Owned, EmissionOf
  <2>3. EventInv'  BY <1>1, <2>1 DEF EventInv, Owned
  <2>4. TaskInv'  BY <1>1, <2>1 DEF TaskInv
  <2> QED  BY <2>2, <2>3, <2>4
<1>16. ASSUME NEW ch \in Connections, revoke_capability(ch)
      PROVE  (ConnInv /\ EventInv /\ TaskInv)'
  BY <1>1, <1>16, NullIsNoIdentifier, HeadEvent, DequeuedEvent, ItemsEmpty
  DEF revoke_capability, Release, invalidate, TypeOK, ConnInv, EventInv, TaskInv, Owned,
       EmissionOf, TakesRequest
<1>17. ASSUME NEW ch \in Connections, close_channel(ch)
      PROVE  (ConnInv /\ EventInv /\ TaskInv)'
  BY <1>1, <1>17, NullIsNoIdentifier, HeadEvent, DequeuedEvent, ItemsEmpty
  DEF close_channel, invalidate, TypeOK, ConnInv, EventInv, TaskInv, Owned, EmissionOf,
       TakesRequest
<1>18. ASSUME NEW ch \in Connections, stop(ch)
      PROVE  (ConnInv /\ EventInv /\ TaskInv)'
  BY <1>1, <1>18, NullIsNoIdentifier, HeadEvent, DequeuedEvent, ItemsEmpty
  DEF stop, Release, invalidate, TypeOK, ConnInv, EventInv, TaskInv, Owned, EmissionOf,
       TakesRequest
<1>19. ASSUME NEW s \in SubscriptionIds, poll_cancelled(s)
      PROVE  (ConnInv /\ EventInv /\ TaskInv)'
  BY <1>1, <1>19, NullIsNoIdentifier, HeadEvent, DequeuedEvent, ItemsEmpty
  DEF poll_cancelled, Finish, invalidate, TypeOK, ConnInv, EventInv, TaskInv, Owned,
       EmissionOf, TakesRequest
<1>20. ASSUME NEW s \in SubscriptionIds, poll_ended(s)
      PROVE  (ConnInv /\ EventInv /\ TaskInv)'
  <2>1. CASE Finish(s)
    BY <1>1, <1>20, <2>1
    DEF poll_ended, Finish, invalidate, TypeOK, ConnInv, EventInv, TaskInv, Owned, EmissionOf
  <2>2. CASE /\ observed' = [observed EXCEPT ![s] = terminal_subscription_event(s)]
             /\ task' = [task EXCEPT ![s] = "forwarding"]
             /\ UNCHANGED state
    <3>1. terminal_subscription_event(s) \in Event /\ terminal_subscription_event(s).sub = s
      BY TerminalEvents DEF terminal_subscription_event
    <3>2. /\ task[s] = "polling" /\ state[s] # "ACTIVE"
          /\ UNCHANGED <<owner, seen, conn, events>>
      BY <1>20 DEF poll_ended
    <3>3. ConnInv' /\ EventInv'
      BY <1>1, <2>2, <3>2 DEF TypeOK, ConnInv, EventInv, TaskInv, Owned, EmissionOf
    <3>4. TaskInv'  BY <1>1, <2>2, <3>1, <3>2 DEF TypeOK, TaskInv
    <3> QED  BY <3>3, <3>4
  <2> QED  BY <1>20, <2>1, <2>2 DEF poll_ended
<1>21. ASSUME NEW s \in SubscriptionIds, poll_notification(s)
      PROVE  (ConnInv /\ EventInv /\ TaskInv)'
  <2> DEFINE e == [sub |-> s, kind |-> "notification", update |-> Head(queue[s])]
  <2>1. Head(queue[s]) \in Updates
    BY <1>1, <1>21, ItemsTail DEF TypeOK, poll_notification
  <2>2. e \in Event /\ e.sub = s /\ e.kind = "notification"  BY <2>1, TerminalEvents
  <2>3. /\ task[s] = "polling"
        /\ observed' = [observed EXCEPT ![s] = e]
        /\ task' = [task EXCEPT ![s] = "forwarding"]
        /\ UNCHANGED <<owner, seen, conn, events, state>>
    BY <1>21 DEF poll_notification
  <2> HIDE DEF e
  <2>4. ConnInv' /\ EventInv'
    BY <1>1, <2>3 DEF TypeOK, ConnInv, EventInv, TaskInv, Owned, EmissionOf
  <2>5. TaskInv'  BY <1>1, <2>2, <2>3 DEF TypeOK, TaskInv
  <2> QED  BY <2>4, <2>5
<1>22. ASSUME NEW s \in SubscriptionIds, forward(s)
      PROVE  (ConnInv /\ EventInv /\ TaskInv)'
  <2> DEFINE ch == owner[s].connection
  <2>1. /\ ch \in Connections /\ owner[s] # Null
        /\ observed[s] \in Event /\ observed[s].sub = s
        /\ observed[s].kind # "notification" => state[s] # "ACTIVE"
        /\ task[s] = "forwarding" /\ seen[s] # "none"
        /\ UNCHANGED <<owner, seen, conn>>
    BY <1>1, <1>22, EventInHand DEF forward, TaskInv
  <2>2. ConnInv' /\ TaskInv'
    BY <1>1, <1>22, <2>1
    DEF forward, Finish, invalidate, TypeOK, ConnInv, TaskInv, Owned, EmissionOf
  <2>3. \A t \in SubscriptionIds : state[t] # "ACTIVE" => state'[t] # "ACTIVE"
    BY <1>1, <1>22 DEF forward, Finish, invalidate, TypeOK
  <2>4. \A k \in Connections : Items(events'[k]) \subseteq
          IF k = ch THEN Items(events[k]) \cup {observed[s]} ELSE Items(events[k])
    <3>1. CASE HasEventSpace(ch) /\ events' = [events EXCEPT ![ch] = Append(@, observed[s])]
      BY <1>1, <2>1, <3>1, QueuedEvent
    <3> QED  BY <1>22, <3>1 DEF forward
  <2>5. EventInv'
    BY <1>1, <2>1, <2>3, <2>4 DEF EventInv, Owned
  <2> QED  BY <2>2, <2>5
<1>23. ASSUME NEW s \in SubscriptionIds, abort(s)
      PROVE  (ConnInv /\ EventInv /\ TaskInv)'
  BY <1>1, <1>23, NullIsNoIdentifier, HeadEvent, DequeuedEvent, ItemsEmpty
  DEF abort, Finish, invalidate, TypeOK, ConnInv, EventInv, TaskInv, Owned, EmissionOf,
       TakesRequest
<1>24. ASSUME NEW s \in SubscriptionIds, send_overflow(s)
      PROVE  (ConnInv /\ EventInv /\ TaskInv)'
  <2> DEFINE ch == owner[s].connection
             e == [sub |-> s, kind |-> "overflow"]
  <2>1. /\ ch \in Connections /\ owner[s] # Null /\ e \in Event /\ e.sub = s
        /\ task[s] = "overflowing" /\ seen[s] # "none" /\ state[s] # "ACTIVE"
        /\ UNCHANGED <<owner, seen, conn>>
    BY <1>1, <1>24, OwnerTyped, TerminalEvents DEF send_overflow, TaskInv
  <2>2. ConnInv' /\ TaskInv'
    BY <1>1, <1>24, <2>1
    DEF send_overflow, Finish, invalidate, TypeOK, ConnInv, TaskInv, Owned, EmissionOf
  <2>3. \A t \in SubscriptionIds : state[t] # "ACTIVE" => state'[t] # "ACTIVE"
    BY <1>1, <1>24 DEF send_overflow, Finish, invalidate, TypeOK
  <2>4. \/ events' = [events EXCEPT ![ch] = Append(@, e)] /\ HasEventSpace(ch)
        \/ UNCHANGED events
    BY <1>24 DEF send_overflow
  <2> HIDE DEF e
  <2>5. \A k \in Connections : Items(events'[k]) \subseteq
          IF k = ch THEN Items(events[k]) \cup {e} ELSE Items(events[k])
    <3>1. CASE HasEventSpace(ch) /\ events' = [events EXCEPT ![ch] = Append(@, e)]
      <4>1. \A k \in Connections :
              Items(events'[k]) = IF k = ch THEN Items(events[ch]) \cup {e} ELSE Items(events[k])
        BY <1>1, <2>1, <3>1, QueuedEvent
      <4> QED  BY <4>1
    <3> QED  BY <2>4, <3>1
  <2>6. EventInv'
    BY <1>1, <2>1, <2>3, <2>5 DEF EventInv, Owned
  <2> QED  BY <2>2, <2>6
<1>25. ASSUME NEW g \in Gates, acquire(g)
      PROVE  (ConnInv /\ EventInv /\ TaskInv)'
  <2> DEFINE ch == Head(gate_wait[g])
  <2>1. /\ ch \in Connections
        /\ \A k \in Connections \ {ch} : conn'[k] = conn[k]
        /\ \/ conn[ch].phase = "enter" /\ conn'[ch] = [conn[ch] EXCEPT !.phase = "write"]
           \/ conn'[ch] = At("idle", Null)
           \/ conn[ch].phase = "excluding" /\ conn'[ch] = [conn[ch] EXCEPT !.phase = "mutating"]
        /\ UNCHANGED <<owner, state, task, observed, seen, events>>
    BY <1>25, AcquireMeans
  <2>2. conn[ch] \in [phase : Phases, gate : Gates \cup {Null},
                      arg : SubscriptionIds \cup Capabilities \cup Event \cup {Null}]
    BY <1>1, <2>1 DEF TypeOK
  <2> HIDE DEF ch
  <2>3. ConnInv'  BY <1>1, <2>1, <2>2 DEF ConnInv, Owned, EmissionOf
  <2>4. EventInv'  BY <1>1, <2>1 DEF EventInv, Owned
  <2>5. TaskInv'  BY <1>1, <2>1 DEF TaskInv
  <2> QED  BY <2>3, <2>4, <2>5
<1>26. CASE UNCHANGED vars
  BY <1>1, <1>26 DEF vars, TypeOK, ConnInv, EventInv, TaskInv, Owned, EmissionOf, TakesRequest
<1>27. ASSUME NEW ch \in Connections, Request(ch) PROVE (ConnInv /\ EventInv /\ TaskInv)'
  BY <1>27, <1>2, <1>3, <1>4, <1>5, <1>6, <1>7, <1>8 DEF Request
<1>28. ASSUME NEW ch \in Connections, Serve(ch) PROVE (ConnInv /\ EventInv /\ TaskInv)'
  BY <1>28, <1>9, <1>10, <1>11, <1>12, <1>13, <1>14, <1>15, <1>16, <1>17 DEF Serve
<1>29. ASSUME NEW s \in SubscriptionIds, Forward(s) PROVE (ConnInv /\ EventInv /\ TaskInv)'
  BY <1>29, <1>19, <1>20, <1>21, <1>22, <1>23 DEF Forward
<1> QED
  BY Steps, <1>26, <1>27, <1>28, <1>29, <1>18, <1>24, <1>25

\* The registry keeps every subscription that may emit, and the gates their lines
\* and holders.
LEMMA LocksKept ==
  ASSUME SubscriptionInv, [Next]_vars
  PROVE  (RegistryInv /\ WaitInv /\ HoldInv)'
<1> USE DEF registry, gates, tasks, history, At
<1>1. /\ TypeOK /\ LoopInv /\ ConnInv /\ EventInv /\ TaskInv
      /\ RegistryInv /\ WaitInv /\ HoldInv
  BY DEF SubscriptionInv, LoopInv
<1>2. ASSUME NEW ch \in Connections, NEW c \in Capabilities, subscribe_refused(ch, c)
      PROVE  (RegistryInv /\ WaitInv /\ HoldInv)'
  BY <1>1, <1>2, NullIsNoIdentifier, ItemsTyped
  DEF subscribe_refused, TypeOK, ConnInv, TaskInv, RegistryInv, WaitInv, HoldInv,
       is_authorized, LeaseHeld, ReceiverClosed, Owned, EmissionOf, TakesRequest
<1>3. ASSUME NEW ch \in Connections, NEW c \in Capabilities, subscribe_backpressure(ch, c)
      PROVE  (RegistryInv /\ WaitInv /\ HoldInv)'
  BY <1>1, <1>3, NullIsNoIdentifier, ItemsTyped
  DEF subscribe_backpressure, Pruned, TypeOK, ConnInv, TaskInv, RegistryInv, WaitInv,
       HoldInv, is_authorized, LeaseHeld, ReceiverClosed, Owned, EmissionOf, TakesRequest
<1>4. ASSUME NEW ch \in Connections, NEW c \in Capabilities, NEW s \in SubscriptionIds, subscribe_updates(ch, c, s)
      PROVE  (RegistryInv /\ WaitInv /\ HoldInv)'
  <2>1. /\ conn[ch].phase = "idle" /\ owner[s] = Null /\ c \notin revoked
        /\ owner'[s].connection = ch /\ owner'[s].capability = c
        /\ \A t \in SubscriptionIds \ {s} : owner'[t] = owner[t]
        /\ registered' = Pruned \cup {s}
        /\ conn' = [conn EXCEPT ![ch] = At("ack", s)]
        /\ UNCHANGED <<revoked, state, gate_wait, gate_hold>>
    BY <1>4, SubscribeMeans
  <2>2. RegistryInv'
    BY <1>1, <2>1
    DEF TypeOK, TaskInv, RegistryInv, Pruned, is_authorized, LeaseHeld, ReceiverClosed
  <2>3. /\ conn'[ch].phase = "ack"
        /\ \A k \in Connections \ {ch} : conn'[k] = conn[k]
    BY <1>1, <2>1 DEF TypeOK
  <2>4. \A k \in Connections : EmissionOf(k) =>
          owner'[conn[k].arg.sub] = owner[conn[k].arg.sub]
    BY <1>1, <2>1 DEF ConnInv, Owned
  <2>5. WaitInv'
    <3>1. ASSUME NEW k \in Gates, NEW j \in Items(gate_wait[k])
          PROVE  \/ conn'[j].phase = "enter" /\ owner'[conn'[j].arg.sub].gate = k
                 \/ conn'[j].phase = "excluding" /\ conn'[j].gate = k
      <4>1. \/ conn[j].phase = "enter" /\ owner[conn[j].arg.sub].gate = k
            \/ conn[j].phase = "excluding" /\ conn[j].gate = k
        BY <1>1 DEF WaitInv
      <4>2. j \in Connections /\ j # ch
        BY <1>1, <2>1, <4>1, ItemsTyped DEF TypeOK
      <4> QED  BY <2>3, <2>4, <4>1, <4>2 DEF EmissionOf
    <3> QED  BY <1>1, <2>1, <3>1 DEF WaitInv
  <2>6. HoldInv'
    BY <1>1, <2>1, <2>3, <2>4 DEF HoldInv, EmissionOf
  <2> QED  BY <2>2, <2>5, <2>6
<1>5. ASSUME NEW ch \in Connections, NEW c \in Capabilities, NEW u \in Updates, accept(ch, c, u)
      PROVE  (RegistryInv /\ WaitInv /\ HoldInv)'
  BY <1>1, <1>5, NullIsNoIdentifier, ItemsTyped
  DEF accept, Pruned, invalidate, Overflowing, TypeOK, ConnInv, TaskInv, RegistryInv,
       WaitInv, HoldInv, is_authorized, LeaseHeld, ReceiverClosed, Owned, EmissionOf,
       TakesRequest
<1>6. ASSUME NEW ch \in Connections, NEW c \in Capabilities, preflight_revoke_capability(ch, c)
      PROVE  (RegistryInv /\ WaitInv /\ HoldInv)'
  BY <1>1, <1>6, NullIsNoIdentifier, ItemsTyped
  DEF preflight_revoke_capability, TypeOK, ConnInv, TaskInv, RegistryInv, WaitInv,
       HoldInv, is_authorized, LeaseHeld, ReceiverClosed, Owned, EmissionOf, TakesRequest
<1>7. ASSUME NEW ch \in Connections, handle_request(ch)
      PROVE  (RegistryInv /\ WaitInv /\ HoldInv)'
  BY <1>1, <1>7, NullIsNoIdentifier, ItemsTyped
  DEF handle_request, TypeOK, ConnInv, TaskInv, RegistryInv, WaitInv, HoldInv,
       is_authorized, LeaseHeld, ReceiverClosed, Owned, EmissionOf, TakesRequest
<1>8. ASSUME NEW ch \in Connections, NEW s \in SubscriptionIds, cancel_subscription(ch, s)
      PROVE  (RegistryInv /\ WaitInv /\ HoldInv)'
  BY <1>1, <1>8, NullIsNoIdentifier, ItemsTyped
  DEF cancel_subscription, TypeOK, ConnInv, TaskInv, RegistryInv, WaitInv, HoldInv,
       is_authorized, LeaseHeld, ReceiverClosed, Owned, EmissionOf, TakesRequest
<1>9. ASSUME NEW ch \in Connections, write_ack(ch)
      PROVE  (RegistryInv /\ WaitInv /\ HoldInv)'
  BY <1>1, <1>9, NullIsNoIdentifier, ItemsTyped
  DEF write_ack, TypeOK, ConnInv, TaskInv, RegistryInv, WaitInv, HoldInv, is_authorized,
       LeaseHeld, ReceiverClosed, Owned, EmissionOf, TakesRequest
<1>10. ASSUME NEW ch \in Connections, write_cancelled(ch)
      PROVE  (RegistryInv /\ WaitInv /\ HoldInv)'
  BY <1>1, <1>10, NullIsNoIdentifier, ItemsTyped
  DEF write_cancelled, TypeOK, ConnInv, TaskInv, RegistryInv, WaitInv, HoldInv,
       is_authorized, LeaseHeld, ReceiverClosed, Owned, EmissionOf, TakesRequest
<1>11. ASSUME NEW ch \in Connections, write_response(ch)
      PROVE  (RegistryInv /\ WaitInv /\ HoldInv)'
  BY <1>1, <1>11, NullIsNoIdentifier, ItemsTyped
  DEF write_response, TypeOK, ConnInv, TaskInv, RegistryInv, WaitInv, HoldInv,
       is_authorized, LeaseHeld, ReceiverClosed, Owned, EmissionOf, TakesRequest
<1>12. ASSUME NEW ch \in Connections, write_terminal_event(ch)
      PROVE  (RegistryInv /\ WaitInv /\ HoldInv)'
  BY <1>1, <1>12, NullIsNoIdentifier, ItemsTyped
  DEF write_terminal_event, TypeOK, ConnInv, TaskInv, RegistryInv, WaitInv, HoldInv,
       is_authorized, LeaseHeld, ReceiverClosed, Owned, EmissionOf, TakesRequest
<1>13. ASSUME NEW ch \in Connections, enter_emission(ch)
      PROVE  (RegistryInv /\ WaitInv /\ HoldInv)'
  <2> DEFINE e == Head(events[ch])
             h == owner[e.sub].gate
  <2>1. /\ conn[ch].phase = "idle" /\ conn' = [conn EXCEPT ![ch] = At("enter", e)]
        /\ gate_wait' = [gate_wait EXCEPT ![h] = Append(@, ch)]
        /\ UNCHANGED <<revoked, registered, owner, state, gate_hold>>
    BY <1>13 DEF enter_emission
  <2>2. h \in Gates
    <3>1. e \in Items(events[ch])  BY <1>1, <1>13, HeadEvent DEF enter_emission
    <3> QED  BY <1>1, <3>1, OwnerTyped DEF EventInv, Owned
  <2>3. \A k \in Gates : ch \notin Items(gate_wait[k])
    BY <1>1, <2>1 DEF WaitInv
  <2>4. \A k \in Gates :
          /\ Distinct(gate_wait'[k])
          /\ Items(gate_wait'[k]) = IF k = h THEN Items(gate_wait[k]) \cup {ch}
                                    ELSE Items(gate_wait[k])
    <3>1. gate_wait \in [Gates -> Seq(Connections)] /\ \A k \in Gates : Distinct(gate_wait[k])
      BY <1>1 DEF TypeOK, WaitInv
    <3>2. /\ Items(Append(gate_wait[h], ch)) = Items(gate_wait[h]) \cup {ch}
          /\ Distinct(Append(gate_wait[h], ch))
      BY <2>2, <2>3, <3>1, ItemsAppend
    <3> QED  BY <2>1, <2>2, <3>1, <3>2
  <2>5. conn'[ch].phase = "enter" /\ owner[conn'[ch].arg.sub].gate = h
    BY <1>1, <2>1 DEF TypeOK
  <2>6. \A k \in Connections \ {ch} : conn'[k] = conn[k]
    BY <1>1, <2>1 DEF TypeOK
  <2>7. /\ conn[ch].phase = "idle"
        /\ UNCHANGED <<revoked, registered, owner, state, gate_hold>>
    BY <2>1
  <2> HIDE DEF h, e
  <2>8. RegistryInv'
    BY <1>1, <2>5, <2>6, <2>7, OwnerTyped DEF RegistryInv, is_authorized, LeaseHeld
  <2>9. WaitInv'
    <3>1. ASSUME NEW k \in Gates, NEW j \in Items(gate_wait'[k])
          PROVE  \/ conn'[j].phase = "enter" /\ owner'[conn'[j].arg.sub].gate = k
                 \/ conn'[j].phase = "excluding" /\ conn'[j].gate = k
      <4>1. CASE j = ch  BY <2>3, <2>4, <2>5, <2>7, <4>1
      <4>2. CASE j # ch
        <5>1. j \in Items(gate_wait[k]) /\ j \in Connections
          BY <1>1, <2>4, <4>2, ItemsTyped DEF TypeOK
        <5> QED  BY <1>1, <2>6, <2>7, <4>2, <5>1 DEF WaitInv
      <4> QED  BY <4>1, <4>2
    <3> QED  BY <2>4, <3>1 DEF WaitInv
  <2>10. HoldInv'
    BY <1>1, <2>5, <2>6, <2>7 DEF HoldInv
  <2> QED  BY <2>8, <2>9, <2>10
<1>14. ASSUME NEW ch \in Connections, write_notification(ch)
      PROVE  (RegistryInv /\ WaitInv /\ HoldInv)'
  <2>1. /\ conn'[ch].phase = "idle"
        /\ \A k \in Connections \ {ch} : conn'[k] = conn[k]
    BY <1>1, <1>14 DEF write_notification, TypeOK
  <2>2. HoldInv'  BY <1>1, <1>14, <2>1, ReleaseKeeps DEF write_notification
  <2>3. WaitInv'
    BY <1>1, <1>14, <2>1, ItemsTyped DEF write_notification, TypeOK, WaitInv, TakesRequest
  <2>4. RegistryInv'
    BY <1>1, <1>14, <2>1, OwnerTyped
    DEF write_notification, TypeOK, RegistryInv, is_authorized, LeaseHeld, TakesRequest
  <2> QED  BY <2>2, <2>3, <2>4
<1>15. ASSUME NEW ch \in Connections, exclude(ch)
      PROVE  (RegistryInv /\ WaitInv /\ HoldInv)'
  <2> DEFINE d == DocumentOf[conn[ch].arg]
             h == emission_gate(d)
  <2>1. /\ conn[ch].phase = "admitted" /\ conn'[ch].phase = "excluding" /\ conn'[ch].gate = h
        /\ h \in Gates
        /\ gate_wait' = [gate_wait EXCEPT ![h] = Append(@, ch)]
        /\ \A k \in Connections \ {ch} : conn'[k] = conn[k]
        /\ UNCHANGED <<revoked, registered, owner, state, gate_hold>>
    BY <1>15, ExcludeMeans
  <2> HIDE DEF h, d
  <2>2. \A k \in Gates : ch \notin Items(gate_wait[k])
    BY <1>1, <2>1 DEF WaitInv
  <2>3. \A k \in Gates :
          /\ Distinct(gate_wait'[k])
          /\ Items(gate_wait'[k]) = IF k = h THEN Items(gate_wait[k]) \cup {ch}
                                    ELSE Items(gate_wait[k])
    <3>1. gate_wait \in [Gates -> Seq(Connections)] /\ \A k \in Gates : Distinct(gate_wait[k])
      BY <1>1 DEF TypeOK, WaitInv
    <3>2. /\ Items(Append(gate_wait[h], ch)) = Items(gate_wait[h]) \cup {ch}
          /\ Distinct(Append(gate_wait[h], ch))
      BY <2>1, <2>2, <3>1, ItemsAppend
    <3> QED  BY <2>1, <3>1, <3>2
  <2>4. RegistryInv'
    BY <1>1, <2>1, OwnerTyped DEF RegistryInv, is_authorized, LeaseHeld
  <2>5. WaitInv'
    <3>1. ASSUME NEW k \in Gates, NEW j \in Items(gate_wait'[k])
          PROVE  \/ conn'[j].phase = "enter" /\ owner'[conn'[j].arg.sub].gate = k
                 \/ conn'[j].phase = "excluding" /\ conn'[j].gate = k
      <4>1. CASE j = ch  BY <2>1, <2>2, <2>3, <4>1
      <4>2. CASE j # ch
        <5>1. j \in Items(gate_wait[k]) /\ j \in Connections
          BY <1>1, <2>3, <4>2, ItemsTyped DEF TypeOK
        <5> QED  BY <1>1, <2>1, <4>2, <5>1 DEF WaitInv
      <4> QED  BY <4>1, <4>2
    <3> QED  BY <2>3, <3>1 DEF WaitInv
  <2>6. HoldInv'
    BY <1>1, <2>1 DEF HoldInv
  <2> QED  BY <2>4, <2>5, <2>6
<1>16. ASSUME NEW ch \in Connections, revoke_capability(ch)
      PROVE  (RegistryInv /\ WaitInv /\ HoldInv)'
  <2> DEFINE subtree == Descendants[conn[ch].arg]
             ended == {t \in registered : /\ owner[t].capability \in subtree
                                          /\ is_authorized(t)}
  <2>1. /\ conn[ch].phase = "mutating" /\ conn' = [conn EXCEPT ![ch] = At("reply", Null)]
        /\ \/ UNCHANGED <<revoked, registered, state>>
           \/ /\ revoked' = revoked \cup subtree
              /\ state' = invalidate(ended, "REVOKED")
              /\ registered' = registered \ ended
        /\ Release(ch)
        /\ UNCHANGED <<owner, gate_wait>>
    BY <1>16 DEF revoke_capability
  <2>2. /\ conn'[ch].phase = "reply"
        /\ \A k \in Connections \ {ch} : conn'[k] = conn[k]
    BY <1>1, <2>1 DEF TypeOK
  <2>3. ASSUME NEW t \in SubscriptionIds, owner'[t] # Null, is_authorized(t)'
        PROVE  t \in registered' /\ owner'[t].capability \notin revoked'
    <3>1. owner[t] # Null /\ owner[t].connection \in Connections
      BY <1>1, <2>1, <2>3, OwnerTyped
    <3>2. /\ state'[t] = "ACTIVE" /\ LeaseHeld(owner[t].connection)
      BY <2>1, <2>2, <2>3, <3>1 DEF is_authorized, LeaseHeld
    <3>3. CASE UNCHANGED <<revoked, registered, state>>
      BY <1>1, <2>1, <3>1, <3>2, <3>3 DEF RegistryInv, is_authorized
    <3>4. CASE /\ revoked' = revoked \cup subtree
               /\ state' = invalidate(ended, "REVOKED")
               /\ registered' = registered \ ended
      <4>1. "REVOKED" \in States \ {"ACTIVE"}  BY DEF States
      <4>2. state[t] = "ACTIVE" /\ t \notin ended
        BY <1>1, <3>2, <3>4, <4>1, InvalidateMeans
      <4>3. t \in registered /\ owner[t].capability \notin revoked /\ is_authorized(t)
        BY <1>1, <3>1, <3>2, <4>2 DEF RegistryInv, is_authorized
      <4> QED  BY <2>1, <3>4, <4>2, <4>3
    <3> QED  BY <2>1, <3>3, <3>4
  <2>4. RegistryInv'  BY <2>3 DEF RegistryInv
  <2>5. WaitInv'
    BY <1>1, <2>1, <2>2, ItemsTyped DEF TypeOK, WaitInv
  <2>6. HoldInv'
    BY <1>1, <2>1, <2>2, ReleaseKeeps
  <2> QED  BY <2>4, <2>5, <2>6
<1>17. ASSUME NEW ch \in Connections, close_channel(ch)
      PROVE  (RegistryInv /\ WaitInv /\ HoldInv)'
  BY <1>1, <1>17, NullIsNoIdentifier, ItemsTyped
  DEF close_channel, invalidate, TypeOK, ConnInv, TaskInv, RegistryInv, WaitInv, HoldInv,
       is_authorized, LeaseHeld, ReceiverClosed, Owned, EmissionOf, TakesRequest
<1>18. ASSUME NEW ch \in Connections, stop(ch)
      PROVE  (RegistryInv /\ WaitInv /\ HoldInv)'
  <2>1. /\ conn'[ch].phase = "closing"
        /\ \A k \in Connections \ {ch} : conn'[k] = conn[k]
    BY <1>1, <1>18 DEF stop, TypeOK
  <2>2. HoldInv'  BY <1>1, <1>18, <2>1, ReleaseKeeps DEF stop
  <2>3. WaitInv'
    BY <1>1, <1>18, <2>1, ItemsTyped DEF stop, TypeOK, WaitInv, TakesRequest
  <2>4. RegistryInv'
    BY <1>1, <1>18, <2>1, OwnerTyped
    DEF stop, TypeOK, RegistryInv, is_authorized, LeaseHeld, invalidate, TakesRequest
  <2> QED  BY <2>2, <2>3, <2>4
<1>19. ASSUME NEW s \in SubscriptionIds, poll_cancelled(s)
      PROVE  (RegistryInv /\ WaitInv /\ HoldInv)'
  BY <1>1, <1>19, NullIsNoIdentifier, ItemsTyped
  DEF poll_cancelled, Finish, invalidate, TypeOK, ConnInv, TaskInv, RegistryInv, WaitInv,
       HoldInv, is_authorized, LeaseHeld, ReceiverClosed, Owned, EmissionOf, TakesRequest
<1>20. ASSUME NEW s \in SubscriptionIds, poll_ended(s)
      PROVE  (RegistryInv /\ WaitInv /\ HoldInv)'
  BY <1>1, <1>20, NullIsNoIdentifier, ItemsTyped
  DEF poll_ended, Finish, invalidate, terminal_subscription_event, TypeOK, ConnInv,
       TaskInv, RegistryInv, WaitInv, HoldInv, is_authorized, LeaseHeld, ReceiverClosed,
       Owned, EmissionOf, TakesRequest
<1>21. ASSUME NEW s \in SubscriptionIds, poll_notification(s)
      PROVE  (RegistryInv /\ WaitInv /\ HoldInv)'
  BY <1>1, <1>21, NullIsNoIdentifier, ItemsTyped
  DEF poll_notification, TypeOK, ConnInv, TaskInv, RegistryInv, WaitInv, HoldInv,
       is_authorized, LeaseHeld, ReceiverClosed, Owned, EmissionOf, TakesRequest
<1>22. ASSUME NEW s \in SubscriptionIds, forward(s)
      PROVE  (RegistryInv /\ WaitInv /\ HoldInv)'
  BY <1>1, <1>22, NullIsNoIdentifier, ItemsTyped
  DEF forward, Finish, invalidate, TypeOK, ConnInv, TaskInv, RegistryInv, WaitInv,
       HoldInv, is_authorized, LeaseHeld, ReceiverClosed, Owned, EmissionOf, TakesRequest
<1>23. ASSUME NEW s \in SubscriptionIds, abort(s)
      PROVE  (RegistryInv /\ WaitInv /\ HoldInv)'
  BY <1>1, <1>23, NullIsNoIdentifier, ItemsTyped
  DEF abort, Finish, invalidate, TypeOK, ConnInv, TaskInv, RegistryInv, WaitInv, HoldInv,
       is_authorized, LeaseHeld, ReceiverClosed, Owned, EmissionOf, TakesRequest
<1>24. ASSUME NEW s \in SubscriptionIds, send_overflow(s)
      PROVE  (RegistryInv /\ WaitInv /\ HoldInv)'
  BY <1>1, <1>24, NullIsNoIdentifier, ItemsTyped
  DEF send_overflow, Finish, invalidate, TypeOK, ConnInv, TaskInv, RegistryInv, WaitInv,
       HoldInv, is_authorized, LeaseHeld, ReceiverClosed, Owned, EmissionOf, TakesRequest
<1>25. ASSUME NEW g \in Gates, acquire(g)
      PROVE  (RegistryInv /\ WaitInv /\ HoldInv)'
  <2> DEFINE ch == Head(gate_wait[g])
  <2>1. /\ ch \in Connections /\ ch \in Items(gate_wait[g]) /\ ch \notin Items(gate_wait'[g])
        /\ \A h \in Gates : Items(gate_wait'[h]) \subseteq Items(gate_wait[h])
        /\ \A h \in Gates : Distinct(gate_wait'[h])
        /\ \A k \in Connections \ {ch} : conn'[k] = conn[k]
        /\ UNCHANGED <<revoked, registered, owner, state>>
    BY <1>25, AcquireMeans
  <2>2. \/ /\ conn[ch].phase = "enter" /\ owner[conn[ch].arg.sub].gate = g
           /\ \A h \in gate_hold[g] : conn[h].phase # "mutating"
           /\ gate_hold' = [gate_hold EXCEPT ![g] = @ \cup {ch}]
           /\ conn'[ch] = [conn[ch] EXCEPT !.phase = "write"]
        \/ /\ conn[ch].phase = "enter"
           /\ gate_hold' = gate_hold
           /\ conn'[ch] = At("idle", Null)
        \/ /\ conn[ch].phase = "excluding" /\ conn[ch].gate = g
           /\ gate_hold[g] = {}
           /\ gate_hold' = [gate_hold EXCEPT ![g] = @ \cup {ch}]
           /\ conn'[ch] = [conn[ch] EXCEPT !.phase = "mutating"]
    BY <1>25, AcquireMeans
  <2>3. /\ conn[ch] \in [phase : Phases, gate : Gates \cup {Null},
                      arg : SubscriptionIds \cup Capabilities \cup Event \cup {Null}]
        /\ gate_hold \in [Gates -> SUBSET Connections]
        /\ gate_wait \in [Gates -> Seq(Connections)]
    BY <1>1, <2>1 DEF TypeOK
  <2> HIDE DEF ch
  <2>4. conn'[ch].phase # "closed" /\ conn[ch].phase # "closed"  BY <2>2, <2>3
  <2>5. RegistryInv'
    BY <1>1, <2>1, <2>4, OwnerTyped DEF RegistryInv, is_authorized, LeaseHeld
  <2>6. \A h \in Gates : ch \notin Items(gate_wait'[h])
    <3>1. ASSUME NEW h \in Gates, ch \in Items(gate_wait[h])  PROVE h = g
      BY <1>1, <2>1, <3>1 DEF WaitInv
    <3> QED  BY <2>1, <3>1
  <2>7. WaitInv'
    <3>1. ASSUME NEW k \in Gates, NEW j \in Items(gate_wait'[k])
          PROVE  \/ conn'[j].phase = "enter" /\ owner'[conn'[j].arg.sub].gate = k
                 \/ conn'[j].phase = "excluding" /\ conn'[j].gate = k
      <4>1. j # ch /\ j \in Items(gate_wait[k]) /\ j \in Connections
        BY <2>1, <2>3, <2>6, ItemsTyped
      <4> QED  BY <1>1, <2>1, <4>1 DEF WaitInv
    <3> QED  BY <2>1, <3>1 DEF WaitInv
  <2>8. \A k \in Connections \ {ch} :
          /\ conn[k].phase = "write" => owner[conn[k].arg.sub].gate \in Gates
          /\ conn[k].phase = "mutating" => conn[k].gate \in Gates /\ k \in gate_hold[conn[k].gate]
    BY <1>1, OwnerTyped DEF ConnInv, EmissionOf, Owned, TypeOK, HoldInv
  <2>9. CASE gate_hold' = gate_hold /\ conn'[ch] = At("idle", Null)
    BY <1>1, <2>1, <2>5, <2>7, <2>9 DEF HoldInv
  <2>10. CASE /\ conn[ch].phase = "enter" /\ owner[conn[ch].arg.sub].gate = g
              /\ \A h \in gate_hold[g] : conn[h].phase # "mutating"
              /\ gate_hold' = [gate_hold EXCEPT ![g] = @ \cup {ch}]
              /\ conn'[ch] = [conn[ch] EXCEPT !.phase = "write"]
    <3>1. conn'[ch].phase = "write" /\ conn'[ch].arg = conn[ch].arg  BY <2>3, <2>10
    <3>2. HoldInv'
      BY <1>1, <2>1, <2>3, <2>8, <2>10, <3>1 DEF HoldInv
    <3> QED  BY <2>5, <2>7, <3>2
  <2>11. CASE /\ conn[ch].phase = "excluding" /\ conn[ch].gate = g
              /\ gate_hold[g] = {}
              /\ gate_hold' = [gate_hold EXCEPT ![g] = @ \cup {ch}]
              /\ conn'[ch] = [conn[ch] EXCEPT !.phase = "mutating"]
    <3>1. conn'[ch].phase = "mutating" /\ conn'[ch].gate = g  BY <2>3, <2>11
    <3>2. gate_hold'[g] = {ch} /\ \A h \in Gates \ {g} : gate_hold'[h] = gate_hold[h]
      BY <2>3, <2>11
    <3>3. ASSUME NEW k \in Connections, k # ch, conn[k].phase = "mutating"
          PROVE  gate_hold'[conn[k].gate] = {k}
      BY <1>1, <2>8, <2>11, <3>3, <3>2 DEF HoldInv
    <3>4. ASSUME NEW k \in Connections, k # ch, conn[k].phase = "write"
          PROVE  k \in gate_hold'[owner[conn[k].arg.sub].gate]
      BY <1>1, <2>8, <2>11, <3>4, <3>2 DEF HoldInv
    <3>5. HoldInv'
      BY <2>1, <3>1, <3>3, <3>4, <3>2 DEF HoldInv
    <3> QED  BY <2>5, <2>7, <3>5
  <2> QED  BY <2>2, <2>9, <2>10, <2>11
<1>26. CASE UNCHANGED vars
  BY <1>1, <1>26 DEF vars, TypeOK, ConnInv, TaskInv, RegistryInv, WaitInv, HoldInv, is_authorized, LeaseHeld,
       ReceiverClosed, Owned, EmissionOf, TakesRequest
<1>27. ASSUME NEW ch \in Connections, Request(ch) PROVE (RegistryInv /\ WaitInv /\ HoldInv)'
  BY <1>27, <1>2, <1>3, <1>4, <1>5, <1>6, <1>7, <1>8 DEF Request
<1>28. ASSUME NEW ch \in Connections, Serve(ch) PROVE (RegistryInv /\ WaitInv /\ HoldInv)'
  BY <1>28, <1>9, <1>10, <1>11, <1>12, <1>13, <1>14, <1>15, <1>16, <1>17 DEF Serve
<1>29. ASSUME NEW s \in SubscriptionIds, Forward(s) PROVE (RegistryInv /\ WaitInv /\ HoldInv)'
  BY <1>29, <1>19, <1>20, <1>21, <1>22, <1>23 DEF Forward
<1> QED
  BY Steps, <1>26, <1>27, <1>28, <1>29, <1>18, <1>24, <1>25

\* A gate is replaced only when nobody refers to it.
LEMMA GateKept ==
  ASSUME SubscriptionInv, [Next]_vars
  PROVE  (GateInv)'
<1> USE DEF registry, gates, tasks, history, At
<1>1. TypeOK /\ LoopInv /\ ConnInv /\ EventInv /\ TaskInv /\ GateInv
  BY DEF SubscriptionInv, LoopInv
<1>2. ASSUME NEW ch \in Connections, NEW c \in Capabilities, subscribe_refused(ch, c)
      PROVE  (GateInv)'
  BY <1>1, <1>2, NullIsNoIdentifier, ItemsEmpty, GatedKept, DequeuedEvent, HeadEvent
  DEF subscribe_refused, TypeOK, ConnInv, EventInv, TaskInv, GateInv, Owned, EmissionOf,
       TakesRequest
<1>3. ASSUME NEW ch \in Connections, NEW c \in Capabilities, subscribe_backpressure(ch, c)
      PROVE  (GateInv)'
  <2>1. /\ UNCHANGED <<owner, gate_map, task, events>>
        /\ conn' = [conn EXCEPT ![ch] = At("reply", Null)]
    BY <1>3 DEF subscribe_backpressure
  <2>2. /\ conn'[ch].phase = "reply" /\ conn'[ch].gate = Null
        /\ \A k \in Connections \ {ch} : conn'[k] = conn[k]
    BY <1>1, <2>1 DEF TypeOK
  <2> QED  BY <1>1, <2>1, <2>2, GatedKept DEF GateInv, EmissionOf
<1>4. ASSUME NEW ch \in Connections, NEW c \in Capabilities, NEW s \in SubscriptionIds, subscribe_updates(ch, c, s)
      PROVE  (GateInv)'
  <2> DEFINE d == DocumentOf[c]
             h == emission_gate(d)
  <2>1. /\ owner[s] = Null /\ d \in Documents
        /\ h = gate_map[d] \/ Unreferenced(d)
        /\ owner'[s].capability = c /\ owner'[s].gate = h
        /\ \A t \in SubscriptionIds \ {s} : owner'[t] = owner[t]
        /\ gate_map' = [gate_map EXCEPT ![d] = h]
        /\ task' = [task EXCEPT ![s] = "held"]
        /\ conn' = [conn EXCEPT ![ch] = At("ack", s)]
        /\ UNCHANGED events
    BY <1>4, SubscribeMeans
  <2>2. \A x : x # d => gate_map'[x] = gate_map[x]
    BY <1>1, <2>1 DEF TypeOK
  <2>3. Gated(s)'
    BY <1>1, <2>1 DEF TypeOK, Gated, DocumentOfSub
  <2> HIDE DEF h, d
  <2>4. h = gate_map[d] => gate_map' = gate_map
    BY <1>1, <2>1 DEF TypeOK
  <2>5. \A t \in SubscriptionIds \ {s} :
          (Gated(t) /\ (h = gate_map[d] \/ DocumentOfSub(t) # d)) => Gated(t)'
    <3>1. \A t \in SubscriptionIds \ {s} : DocumentOfSub(t)' = DocumentOfSub(t)
      BY <2>1 DEF DocumentOfSub
    <3> QED  BY <2>1, <2>2, <2>4, <3>1 DEF Gated
  <2>6. /\ conn'[ch].phase = "ack" /\ conn'[ch].gate = Null
        /\ \A k \in Connections \ {ch} : conn'[k] = conn[k]
        /\ \A t \in SubscriptionIds \ {s} : task'[t] = task[t]
    BY <1>1, <2>1 DEF TypeOK
  <2>7. \A t \in SubscriptionIds : (owner'[t] # Null /\ task'[t] # "done") => Gated(t)'
    BY <1>1, <2>1, <2>3, <2>5, <2>6 DEF GateInv, Unreferenced
  <2>8. \A k \in Connections : \A e \in Items(events'[k]) :
          e.kind = "notification" => Gated(e.sub)'
    BY <1>1, <2>1, <2>5 DEF GateInv, Unreferenced, EventInv, Owned
  <2>9. ASSUME NEW k \in Connections, EmissionOf(k)'
        PROVE  Gated(conn[k].arg.sub)' /\ conn'[k] = conn[k]
    <3>1. k # ch /\ EmissionOf(k) /\ conn'[k] = conn[k]
      BY <2>6, <2>9 DEF EmissionOf
    <3>2. PICK t \in SubscriptionIds \ {s} : t = conn[k].arg.sub
      BY <1>1, <2>1, <3>1 DEF ConnInv, Owned
    <3>3. Gated(t) /\ (h = gate_map[d] \/ DocumentOfSub(t) # d)
      BY <1>1, <2>1, <3>1, <3>2 DEF GateInv, Unreferenced
    <3>4. Gated(t)'  BY <2>5, <3>3
    <3> QED  BY <3>1, <3>2, <3>4
  <2>10. \A k \in Connections :
           conn'[k].gate # Null => conn'[k].gate = gate_map'[DocumentOf[conn'[k].arg]]
    BY <1>1, <2>1, <2>2, <2>4, <2>6 DEF GateInv, Unreferenced
  <2> QED  BY <2>7, <2>8, <2>9, <2>10 DEF GateInv
<1>5. ASSUME NEW ch \in Connections, NEW c \in Capabilities, NEW u \in Updates, accept(ch, c, u)
      PROVE  (GateInv)'
  BY <1>1, <1>5, NullIsNoIdentifier, ItemsEmpty, GatedKept, DequeuedEvent, HeadEvent
  DEF accept, Pruned, invalidate, Overflowing, TypeOK, ConnInv, EventInv, TaskInv,
       GateInv, Owned, EmissionOf, TakesRequest
<1>6. ASSUME NEW ch \in Connections, NEW c \in Capabilities, preflight_revoke_capability(ch, c)
      PROVE  (GateInv)'
  <2>1. /\ UNCHANGED <<owner, gate_map, task, events>>
        /\ conn'[ch] \in {At("reply", Null), At("admitted", c)}
        /\ \A k \in Connections \ {ch} : conn'[k] = conn[k]
    BY <1>1, <1>6 DEF preflight_revoke_capability, TypeOK
  <2>2. conn'[ch].phase \notin {"enter", "write"} /\ conn'[ch].gate = Null
    BY <2>1
  <2> QED  BY <1>1, <2>1, <2>2, GatedKept DEF GateInv, EmissionOf
<1>7. ASSUME NEW ch \in Connections, handle_request(ch)
      PROVE  (GateInv)'
  BY <1>1, <1>7, NullIsNoIdentifier, ItemsEmpty, GatedKept, DequeuedEvent, HeadEvent
  DEF handle_request, TypeOK, ConnInv, EventInv, TaskInv, GateInv, Owned, EmissionOf,
       TakesRequest
<1>8. ASSUME NEW ch \in Connections, NEW s \in SubscriptionIds, cancel_subscription(ch, s)
      PROVE  (GateInv)'
  BY <1>1, <1>8, NullIsNoIdentifier, ItemsEmpty, GatedKept, DequeuedEvent, HeadEvent
  DEF cancel_subscription, TypeOK, ConnInv, EventInv, TaskInv, GateInv, Owned,
       EmissionOf, TakesRequest
<1>9. ASSUME NEW ch \in Connections, write_ack(ch)
      PROVE  (GateInv)'
  BY <1>1, <1>9, NullIsNoIdentifier, ItemsEmpty, GatedKept, DequeuedEvent, HeadEvent
  DEF write_ack, TypeOK, ConnInv, EventInv, TaskInv, GateInv, Owned, EmissionOf,
       TakesRequest
<1>10. ASSUME NEW ch \in Connections, write_cancelled(ch)
      PROVE  (GateInv)'
  BY <1>1, <1>10, NullIsNoIdentifier, ItemsEmpty, GatedKept, DequeuedEvent, HeadEvent
  DEF write_cancelled, TypeOK, ConnInv, EventInv, TaskInv, GateInv, Owned, EmissionOf,
       TakesRequest
<1>11. ASSUME NEW ch \in Connections, write_response(ch)
      PROVE  (GateInv)'
  BY <1>1, <1>11, NullIsNoIdentifier, ItemsEmpty, GatedKept, DequeuedEvent, HeadEvent
  DEF write_response, TypeOK, ConnInv, EventInv, TaskInv, GateInv, Owned, EmissionOf,
       TakesRequest
<1>12. ASSUME NEW ch \in Connections, write_terminal_event(ch)
      PROVE  (GateInv)'
  BY <1>1, <1>12, NullIsNoIdentifier, ItemsEmpty, GatedKept, DequeuedEvent, HeadEvent
  DEF write_terminal_event, TypeOK, ConnInv, EventInv, TaskInv, GateInv, Owned,
       EmissionOf, TakesRequest
<1>13. ASSUME NEW ch \in Connections, enter_emission(ch)
      PROVE  (GateInv)'
  <2>1. /\ UNCHANGED <<owner, gate_map, task>>
        /\ conn'[ch].phase = "enter" /\ conn'[ch].gate = Null
        /\ conn'[ch].arg = Head(events[ch])
        /\ \A k \in Connections \ {ch} : conn'[k] = conn[k]
    BY <1>1, <1>13 DEF enter_emission, TypeOK
  <2>2. /\ Head(events[ch]) \in Items(events[ch]) /\ Head(events[ch]).kind = "notification"
        /\ \A k \in Connections : Items(events'[k]) \subseteq Items(events[k])
    BY <1>1, <1>13, HeadEvent, DequeuedEvent DEF enter_emission
  <2>3. Gated(Head(events[ch]).sub)
    BY <1>1, <2>2 DEF GateInv
  <2> QED  BY <1>1, <2>1, <2>2, <2>3, GatedKept DEF GateInv, EmissionOf
<1>14. ASSUME NEW ch \in Connections, write_notification(ch)
      PROVE  (GateInv)'
  BY <1>1, <1>14, NullIsNoIdentifier, ItemsEmpty, GatedKept, DequeuedEvent, HeadEvent
  DEF write_notification, Release, TypeOK, ConnInv, EventInv, TaskInv, GateInv, Owned,
       EmissionOf, TakesRequest
<1>15. ASSUME NEW ch \in Connections, exclude(ch)
      PROVE  (GateInv)'
  <2> DEFINE d == DocumentOf[conn[ch].arg]
             h == emission_gate(d)
  <2>1. /\ conn'[ch].phase = "excluding" /\ conn'[ch].arg = conn[ch].arg /\ conn'[ch].gate = h
        /\ h = gate_map[d] \/ Unreferenced(d)
        /\ gate_map' = [gate_map EXCEPT ![d] = h] /\ d \in Documents
        /\ \A k \in Connections \ {ch} : conn'[k] = conn[k]
        /\ UNCHANGED <<owner, task, events>>
    BY <1>15, ExcludeMeans
  <2>2. \A x : x # d => gate_map'[x] = gate_map[x]
    BY <1>1, <2>1 DEF TypeOK
  <2>3. gate_map'[DocumentOf[conn'[ch].arg]] = h
    BY <1>1, <2>1 DEF TypeOK
  <2> HIDE DEF h, d
  <2>4. \A t : (Gated(t) /\ (h = gate_map[d] \/ DocumentOfSub(t) # d)) => Gated(t)'
    <3>1. \A t : DocumentOfSub(t)' = DocumentOfSub(t)  BY <2>1 DEF DocumentOfSub
    <3>2. h = gate_map[d] => gate_map' = gate_map
      BY <1>1, <2>1 DEF TypeOK
    <3> QED  BY <2>1, <2>2, <3>1, <3>2 DEF Gated
  <2>5. \A k \in Connections \ {ch} :
          conn[k].gate # Null => conn'[k].gate = gate_map'[DocumentOf[conn'[k].arg]]
    <3>1. h = gate_map[d] => gate_map' = gate_map
      BY <1>1, <2>1 DEF TypeOK
    <3> QED  BY <1>1, <2>1, <2>2, <3>1 DEF GateInv, Unreferenced
  <2> QED  BY <1>1, <2>1, <2>3, <2>4, <2>5 DEF GateInv, Unreferenced, EmissionOf
<1>16. ASSUME NEW ch \in Connections, revoke_capability(ch)
      PROVE  (GateInv)'
  BY <1>1, <1>16, NullIsNoIdentifier, ItemsEmpty, GatedKept, DequeuedEvent, HeadEvent
  DEF revoke_capability, Release, invalidate, TypeOK, ConnInv, EventInv, TaskInv,
       GateInv, Owned, EmissionOf, TakesRequest
<1>17. ASSUME NEW ch \in Connections, close_channel(ch)
      PROVE  (GateInv)'
  BY <1>1, <1>17, NullIsNoIdentifier, ItemsEmpty, GatedKept, DequeuedEvent, HeadEvent
  DEF close_channel, invalidate, TypeOK, ConnInv, EventInv, TaskInv, GateInv, Owned,
       EmissionOf, TakesRequest
<1>18. ASSUME NEW ch \in Connections, stop(ch)
      PROVE  (GateInv)'
  BY <1>1, <1>18, NullIsNoIdentifier, ItemsEmpty, GatedKept, DequeuedEvent, HeadEvent
  DEF stop, Release, invalidate, TypeOK, ConnInv, EventInv, TaskInv, GateInv, Owned,
       EmissionOf, TakesRequest
<1>19. ASSUME NEW s \in SubscriptionIds, poll_cancelled(s)
      PROVE  (GateInv)'
  BY <1>1, <1>19, NullIsNoIdentifier, ItemsEmpty, GatedKept, DequeuedEvent, HeadEvent
  DEF poll_cancelled, Finish, invalidate, TypeOK, ConnInv, EventInv, TaskInv, GateInv,
       Owned, EmissionOf, TakesRequest
<1>20. ASSUME NEW s \in SubscriptionIds, poll_ended(s)
      PROVE  (GateInv)'
  BY <1>1, <1>20, NullIsNoIdentifier, ItemsEmpty, GatedKept, DequeuedEvent, HeadEvent
  DEF poll_ended, Finish, invalidate, terminal_subscription_event, TypeOK, ConnInv,
       EventInv, TaskInv, GateInv, Owned, EmissionOf, TakesRequest
<1>21. ASSUME NEW s \in SubscriptionIds, poll_notification(s)
      PROVE  (GateInv)'
  BY <1>1, <1>21, NullIsNoIdentifier, ItemsEmpty, GatedKept, DequeuedEvent, HeadEvent
  DEF poll_notification, TypeOK, ConnInv, EventInv, TaskInv, GateInv, Owned, EmissionOf,
       TakesRequest
<1>22. ASSUME NEW s \in SubscriptionIds, forward(s)
      PROVE  (GateInv)'
  <2>1. task[s] = "forwarding" /\ owner[s] # Null
    BY <1>1, <1>22, EventInHand DEF forward
  <2>2. PICK ch \in Connections : ch = owner[s].connection
    BY <1>1, <2>1, EventInHand
  <2>3. PICK o \in Event : o = observed[s] /\ o.sub = s
    BY <1>1, <2>1, EventInHand
  <2>4. /\ UNCHANGED <<owner, gate_map, conn>>
        /\ \/ HasEventSpace(ch) /\ events' = [events EXCEPT ![ch] = Append(@, o)]
           \/ UNCHANGED events
        /\ \A t \in SubscriptionIds \ {s} : task'[t] = task[t]
    BY <1>1, <1>22, <2>2, <2>3 DEF forward, Finish, TypeOK
  <2>5. Gated(s)  BY <1>1, <2>1 DEF GateInv
  <2>6. \A k \in Connections : \A e \in Items(events'[k]) :
          e \in Items(events[k]) \/ e = o
    <3>1. CASE UNCHANGED events  BY <3>1
    <3>2. CASE HasEventSpace(ch) /\ events' = [events EXCEPT ![ch] = Append(@, o)]
      <4>1. \A k \in Connections :
              Items(events'[k]) = IF k = ch THEN Items(events[ch]) \cup {o} ELSE Items(events[k])
        BY <1>1, <3>2, QueuedEvent
      <4> QED  BY <4>1
    <3> QED  BY <2>4, <3>1, <3>2
  <2> QED  BY <1>1, <2>1, <2>3, <2>4, <2>5, <2>6, GatedKept DEF GateInv, EmissionOf
<1>23. ASSUME NEW s \in SubscriptionIds, abort(s)
      PROVE  (GateInv)'
  BY <1>1, <1>23, NullIsNoIdentifier, ItemsEmpty, GatedKept, DequeuedEvent, HeadEvent
  DEF abort, Finish, invalidate, TypeOK, ConnInv, EventInv, TaskInv, GateInv, Owned,
       EmissionOf, TakesRequest
<1>24. ASSUME NEW s \in SubscriptionIds, send_overflow(s)
      PROVE  (GateInv)'
  <2>1. PICK ch \in Connections : ch = owner[s].connection
    BY <1>1, <1>24, OwnerTyped DEF send_overflow, TaskInv
  <2>2. PICK e \in Event : e = [sub |-> s, kind |-> "overflow"]
    BY TerminalEvents
  <2>3. /\ UNCHANGED <<owner, gate_map, conn>>
        /\ \/ HasEventSpace(ch) /\ events' = [events EXCEPT ![ch] = Append(@, e)]
           \/ UNCHANGED events
        /\ task' = [task EXCEPT ![s] = "done"]
    BY <1>24, <2>1, <2>2 DEF send_overflow, Finish
  <2>4. \A k \in Connections : \A x \in Items(events'[k]) :
          x \in Items(events[k]) \/ x.kind # "notification"
    <3>1. CASE UNCHANGED events  BY <3>1
    <3>2. CASE HasEventSpace(ch) /\ events' = [events EXCEPT ![ch] = Append(@, e)]
      <4>1. e.kind = "overflow"  BY <2>2
      <4>2. \A k \in Connections :
              Items(events'[k]) = IF k = ch THEN Items(events[ch]) \cup {e} ELSE Items(events[k])
        BY <1>1, <3>2, QueuedEvent
      <4> QED  BY <4>1, <4>2
    <3> QED  BY <2>3, <3>1, <3>2
  <2>5. \A t \in SubscriptionIds : task'[t] # "done" => task[t] # "done"
    BY <1>1, <2>3 DEF TypeOK
  <2> QED  BY <1>1, <2>3, <2>4, <2>5, GatedKept DEF GateInv, EmissionOf
<1>25. ASSUME NEW g \in Gates, acquire(g)
      PROVE  (GateInv)'
  <2>1. PICK ch \in Connections : ch = Head(gate_wait[g])
    BY <1>25, AcquireMeans
  <2>2. /\ \A k \in Connections \ {ch} : conn'[k] = conn[k]
        /\ UNCHANGED <<owner, gate_map, task, events>>
        /\ \/ conn[ch].phase = "enter" /\ conn'[ch] = [conn[ch] EXCEPT !.phase = "write"]
           \/ conn'[ch] = At("idle", Null)
           \/ conn[ch].phase = "excluding" /\ conn'[ch] = [conn[ch] EXCEPT !.phase = "mutating"]
    BY <1>25, <2>1, AcquireMeans
  <2>3. conn[ch] \in [phase : Phases, gate : Gates \cup {Null},
                      arg : SubscriptionIds \cup Capabilities \cup Event \cup {Null}]
    BY <1>1 DEF TypeOK
  <2>4. /\ conn'[ch].phase \in {"enter", "write"} =>
             conn[ch].phase \in {"enter", "write"} /\ conn'[ch].arg = conn[ch].arg
        /\ conn'[ch].gate # Null =>
             conn'[ch].gate = conn[ch].gate /\ conn'[ch].arg = conn[ch].arg
    BY <2>2, <2>3
  <2> QED  BY <1>1, <2>2, <2>4, GatedKept DEF GateInv, EmissionOf
<1>26. CASE UNCHANGED vars
  BY <1>1, <1>26, GatedKept DEF vars, GateInv, EmissionOf
<1>27. ASSUME NEW ch \in Connections, Request(ch) PROVE (GateInv)'
  BY <1>27, <1>2, <1>3, <1>4, <1>5, <1>6, <1>7, <1>8 DEF Request
<1>28. ASSUME NEW ch \in Connections, Serve(ch) PROVE (GateInv)'
  BY <1>28, <1>9, <1>10, <1>11, <1>12, <1>13, <1>14, <1>15, <1>16, <1>17 DEF Serve
<1>29. ASSUME NEW s \in SubscriptionIds, Forward(s) PROVE (GateInv)'
  BY <1>29, <1>19, <1>20, <1>21, <1>22, <1>23 DEF Forward
<1> QED
  BY Steps, <1>26, <1>27, <1>28, <1>29, <1>18, <1>24, <1>25

\* Who writes a notification was authorized when it took the gate, and while it
\* holds the gate no revocation of its document commits.
LEMMA SafetyKept ==
  ASSUME SubscriptionInv, [Next]_vars
  PROVE  (EmissionAuthorized /\ QuietAfterEnd)'
<1> USE DEF registry, gates, tasks, history, At
<1>1. /\ TypeOK /\ LoopInv /\ ConnInv /\ EventInv /\ TaskInv /\ RegistryInv
      /\ HoldInv /\ GateInv /\ EmissionAuthorized /\ QuietAfterEnd
  BY DEF SubscriptionInv, LoopInv
<1>2. ASSUME NEW ch \in Connections, NEW c \in Capabilities, subscribe_refused(ch, c)
      PROVE  (EmissionAuthorized /\ QuietAfterEnd)'
  BY <1>1, <1>2, NullIsNoIdentifier, HeadEvent
  DEF subscribe_refused, TypeOK, ConnInv, EventInv, TaskInv, RegistryInv,
       EmissionAuthorized, QuietAfterEnd, is_authorized, LeaseHeld, ReceiverClosed, Owned,
       EmissionOf, TakesRequest
<1>3. ASSUME NEW ch \in Connections, NEW c \in Capabilities, subscribe_backpressure(ch, c)
      PROVE  (EmissionAuthorized /\ QuietAfterEnd)'
  BY <1>1, <1>3, NullIsNoIdentifier, HeadEvent
  DEF subscribe_backpressure, Pruned, TypeOK, ConnInv, EventInv, TaskInv, RegistryInv,
       EmissionAuthorized, QuietAfterEnd, is_authorized, LeaseHeld, ReceiverClosed, Owned,
       EmissionOf, TakesRequest
<1>4. ASSUME NEW ch \in Connections, NEW c \in Capabilities, NEW s \in SubscriptionIds, subscribe_updates(ch, c, s)
      PROVE  (EmissionAuthorized /\ QuietAfterEnd)'
  BY <1>1, <1>4, NullIsNoIdentifier, HeadEvent
  DEF subscribe_updates, Pruned, TypeOK, ConnInv, EventInv, TaskInv, RegistryInv,
       EmissionAuthorized, QuietAfterEnd, is_authorized, LeaseHeld, ReceiverClosed, Owned,
       EmissionOf, TakesRequest
<1>5. ASSUME NEW ch \in Connections, NEW c \in Capabilities, NEW u \in Updates, accept(ch, c, u)
      PROVE  (EmissionAuthorized /\ QuietAfterEnd)'
  BY <1>1, <1>5, NullIsNoIdentifier, HeadEvent
  DEF accept, Pruned, invalidate, Overflowing, TypeOK, ConnInv, EventInv, TaskInv,
       RegistryInv, EmissionAuthorized, QuietAfterEnd, is_authorized, LeaseHeld,
       ReceiverClosed, Owned, EmissionOf, TakesRequest
<1>6. ASSUME NEW ch \in Connections, NEW c \in Capabilities, preflight_revoke_capability(ch, c)
      PROVE  (EmissionAuthorized /\ QuietAfterEnd)'
  BY <1>1, <1>6, NullIsNoIdentifier, HeadEvent
  DEF preflight_revoke_capability, TypeOK, ConnInv, EventInv, TaskInv, RegistryInv,
       EmissionAuthorized, QuietAfterEnd, is_authorized, LeaseHeld, ReceiverClosed, Owned,
       EmissionOf, TakesRequest
<1>7. ASSUME NEW ch \in Connections, handle_request(ch)
      PROVE  (EmissionAuthorized /\ QuietAfterEnd)'
  BY <1>1, <1>7, NullIsNoIdentifier, HeadEvent
  DEF handle_request, TypeOK, ConnInv, EventInv, TaskInv, RegistryInv,
       EmissionAuthorized, QuietAfterEnd, is_authorized, LeaseHeld, ReceiverClosed, Owned,
       EmissionOf, TakesRequest
<1>8. ASSUME NEW ch \in Connections, NEW s \in SubscriptionIds, cancel_subscription(ch, s)
      PROVE  (EmissionAuthorized /\ QuietAfterEnd)'
  BY <1>1, <1>8, NullIsNoIdentifier, HeadEvent
  DEF cancel_subscription, TypeOK, ConnInv, EventInv, TaskInv, RegistryInv,
       EmissionAuthorized, QuietAfterEnd, is_authorized, LeaseHeld, ReceiverClosed, Owned,
       EmissionOf, TakesRequest
<1>9. ASSUME NEW ch \in Connections, write_ack(ch)
      PROVE  (EmissionAuthorized /\ QuietAfterEnd)'
  BY <1>1, <1>9, NullIsNoIdentifier, HeadEvent
  DEF write_ack, TypeOK, ConnInv, EventInv, TaskInv, RegistryInv, EmissionAuthorized,
       QuietAfterEnd, is_authorized, LeaseHeld, ReceiverClosed, Owned, EmissionOf,
       TakesRequest
<1>10. ASSUME NEW ch \in Connections, write_cancelled(ch)
      PROVE  (EmissionAuthorized /\ QuietAfterEnd)'
  <2>1. /\ conn[ch].phase = "cancelling" /\ conn'[ch].phase = "idle"
        /\ \A k \in Connections \ {ch} : conn'[k] = conn[k]
        /\ seen' = [seen EXCEPT ![conn[ch].arg] = "ended"]
        /\ UNCHANGED <<revoked, owner>>
    BY <1>1, <1>10 DEF write_cancelled, TypeOK
  <2>2. ASSUME NEW k \in Connections \ {ch}, conn[k].phase = "write"
        PROVE  seen'[conn[k].arg.sub] = seen[conn[k].arg.sub]
    <3>1. Owned(conn[ch].arg, ch) /\ Owned(conn[k].arg.sub, k)
      BY <1>1, <2>1, <2>2 DEF ConnInv, EmissionOf
    <3>2. conn[ch].arg # conn[k].arg.sub  BY <3>1, <2>2 DEF Owned
    <3> QED  BY <1>1, <2>1, <3>1, <3>2 DEF TypeOK, Owned
  <2> QED  BY <1>1, <2>1, <2>2 DEF EmissionAuthorized, QuietAfterEnd
<1>11. ASSUME NEW ch \in Connections, write_response(ch)
      PROVE  (EmissionAuthorized /\ QuietAfterEnd)'
  BY <1>1, <1>11, NullIsNoIdentifier, HeadEvent
  DEF write_response, TypeOK, ConnInv, EventInv, TaskInv, RegistryInv,
       EmissionAuthorized, QuietAfterEnd, is_authorized, LeaseHeld, ReceiverClosed, Owned,
       EmissionOf, TakesRequest
<1>12. ASSUME NEW ch \in Connections, write_terminal_event(ch)
      PROVE  (EmissionAuthorized /\ QuietAfterEnd)'
  <2>1. PICK s \in SubscriptionIds : s = Head(events[ch]).sub /\ Owned(s, ch)
    BY <1>1, <1>12, HeadEvent DEF write_terminal_event, EventInv
  <2>2. /\ conn[ch].phase = "idle"
        /\ seen' = [seen EXCEPT ![s] = "ended"]
        /\ UNCHANGED <<conn, revoked, owner>>
    BY <1>12, <2>1 DEF write_terminal_event
  <2>3. ASSUME NEW k \in Connections, conn[k].phase = "write"
        PROVE  seen'[conn[k].arg.sub] = seen[conn[k].arg.sub]
    BY <1>1, <2>1, <2>2, <2>3 DEF TypeOK, ConnInv, EmissionOf, Owned
  <2> QED  BY <1>1, <2>2, <2>3 DEF EmissionAuthorized, QuietAfterEnd
<1>13. ASSUME NEW ch \in Connections, enter_emission(ch)
      PROVE  (EmissionAuthorized /\ QuietAfterEnd)'
  BY <1>1, <1>13, NullIsNoIdentifier, HeadEvent
  DEF enter_emission, TypeOK, ConnInv, EventInv, TaskInv, RegistryInv,
       EmissionAuthorized, QuietAfterEnd, is_authorized, LeaseHeld, ReceiverClosed, Owned,
       EmissionOf, TakesRequest
<1>14. ASSUME NEW ch \in Connections, write_notification(ch)
      PROVE  (EmissionAuthorized /\ QuietAfterEnd)'
  BY <1>1, <1>14, NullIsNoIdentifier, HeadEvent
  DEF write_notification, Release, TypeOK, ConnInv, EventInv, TaskInv, RegistryInv,
       EmissionAuthorized, QuietAfterEnd, is_authorized, LeaseHeld, ReceiverClosed, Owned,
       EmissionOf, TakesRequest
<1>15. ASSUME NEW ch \in Connections, exclude(ch)
      PROVE  (EmissionAuthorized /\ QuietAfterEnd)'
  BY <1>1, <1>15, NullIsNoIdentifier, HeadEvent
  DEF exclude, TypeOK, ConnInv, EventInv, TaskInv, RegistryInv, EmissionAuthorized,
       QuietAfterEnd, is_authorized, LeaseHeld, ReceiverClosed, Owned, EmissionOf,
       TakesRequest
<1>16. ASSUME NEW ch \in Connections, revoke_capability(ch)
      PROVE  (EmissionAuthorized /\ QuietAfterEnd)'
  <2>1. /\ conn[ch].phase = "mutating" /\ conn'[ch].phase = "reply"
        /\ \A k \in Connections \ {ch} : conn'[k] = conn[k]
        /\ revoked' \in {revoked, revoked \cup Descendants[conn[ch].arg]}
        /\ UNCHANGED <<owner, seen>>
    BY <1>1, <1>16 DEF revoke_capability, TypeOK
  <2>2. /\ conn[ch].arg \in Capabilities /\ conn[ch].gate # Null
        /\ gate_hold[conn[ch].gate] = {ch}
        /\ conn[ch].gate = gate_map[DocumentOf[conn[ch].arg]]
    BY <1>1, <2>1 DEF ConnInv, HoldInv, GateInv
  <2>3. ASSUME NEW k \in Connections, k # ch, conn[k].phase = "write"
        PROVE  owner[conn[k].arg.sub].capability \notin Descendants[conn[ch].arg]
    <3>1. PICK s \in SubscriptionIds : s = conn[k].arg.sub /\ Gated(s)
      BY <1>1, <2>3 DEF ConnInv, GateInv, EmissionOf, Owned
    <3>2. k \in gate_hold[owner[s].gate]  BY <1>1, <2>3, <3>1 DEF HoldInv
    <3>3. SUFFICES ASSUME owner[s].capability \in Descendants[conn[ch].arg]
                   PROVE  FALSE
      BY <3>1
    <3>4. DocumentOfSub(s) = DocumentOf[conn[ch].arg]
      BY <2>2, <3>3, CapabilityAssumption DEF DocumentOfSub
    <3>5. owner[s].gate = conn[ch].gate  BY <2>2, <3>1, <3>4 DEF Gated
    <3> QED  BY <2>2, <2>3, <3>2, <3>5
  <2> QED  BY <1>1, <2>1, <2>3 DEF EmissionAuthorized, QuietAfterEnd
<1>17. ASSUME NEW ch \in Connections, close_channel(ch)
      PROVE  (EmissionAuthorized /\ QuietAfterEnd)'
  BY <1>1, <1>17, NullIsNoIdentifier, HeadEvent
  DEF close_channel, invalidate, TypeOK, ConnInv, EventInv, TaskInv, RegistryInv,
       EmissionAuthorized, QuietAfterEnd, is_authorized, LeaseHeld, ReceiverClosed, Owned,
       EmissionOf, TakesRequest
<1>18. ASSUME NEW ch \in Connections, stop(ch)
      PROVE  (EmissionAuthorized /\ QuietAfterEnd)'
  BY <1>1, <1>18, NullIsNoIdentifier, HeadEvent
  DEF stop, Release, invalidate, TypeOK, ConnInv, EventInv, TaskInv, RegistryInv,
       EmissionAuthorized, QuietAfterEnd, is_authorized, LeaseHeld, ReceiverClosed, Owned,
       EmissionOf, TakesRequest
<1>19. ASSUME NEW s \in SubscriptionIds, poll_cancelled(s)
      PROVE  (EmissionAuthorized /\ QuietAfterEnd)'
  BY <1>1, <1>19, NullIsNoIdentifier, HeadEvent
  DEF poll_cancelled, Finish, invalidate, TypeOK, ConnInv, EventInv, TaskInv,
       RegistryInv, EmissionAuthorized, QuietAfterEnd, is_authorized, LeaseHeld,
       ReceiverClosed, Owned, EmissionOf, TakesRequest
<1>20. ASSUME NEW s \in SubscriptionIds, poll_ended(s)
      PROVE  (EmissionAuthorized /\ QuietAfterEnd)'
  BY <1>1, <1>20, NullIsNoIdentifier, HeadEvent
  DEF poll_ended, Finish, invalidate, terminal_subscription_event, TypeOK, ConnInv,
       EventInv, TaskInv, RegistryInv, EmissionAuthorized, QuietAfterEnd, is_authorized,
       LeaseHeld, ReceiverClosed, Owned, EmissionOf, TakesRequest
<1>21. ASSUME NEW s \in SubscriptionIds, poll_notification(s)
      PROVE  (EmissionAuthorized /\ QuietAfterEnd)'
  BY <1>1, <1>21, NullIsNoIdentifier, HeadEvent
  DEF poll_notification, TypeOK, ConnInv, EventInv, TaskInv, RegistryInv,
       EmissionAuthorized, QuietAfterEnd, is_authorized, LeaseHeld, ReceiverClosed, Owned,
       EmissionOf, TakesRequest
<1>22. ASSUME NEW s \in SubscriptionIds, forward(s)
      PROVE  (EmissionAuthorized /\ QuietAfterEnd)'
  BY <1>1, <1>22, NullIsNoIdentifier, HeadEvent
  DEF forward, Finish, invalidate, TypeOK, ConnInv, EventInv, TaskInv, RegistryInv,
       EmissionAuthorized, QuietAfterEnd, is_authorized, LeaseHeld, ReceiverClosed, Owned,
       EmissionOf, TakesRequest
<1>23. ASSUME NEW s \in SubscriptionIds, abort(s)
      PROVE  (EmissionAuthorized /\ QuietAfterEnd)'
  BY <1>1, <1>23, NullIsNoIdentifier, HeadEvent
  DEF abort, Finish, invalidate, TypeOK, ConnInv, EventInv, TaskInv, RegistryInv,
       EmissionAuthorized, QuietAfterEnd, is_authorized, LeaseHeld, ReceiverClosed, Owned,
       EmissionOf, TakesRequest
<1>24. ASSUME NEW s \in SubscriptionIds, send_overflow(s)
      PROVE  (EmissionAuthorized /\ QuietAfterEnd)'
  BY <1>1, <1>24, NullIsNoIdentifier, HeadEvent
  DEF send_overflow, Finish, invalidate, TypeOK, ConnInv, EventInv, TaskInv, RegistryInv,
       EmissionAuthorized, QuietAfterEnd, is_authorized, LeaseHeld, ReceiverClosed, Owned,
       EmissionOf, TakesRequest
<1>25. ASSUME NEW g \in Gates, acquire(g)
      PROVE  (EmissionAuthorized /\ QuietAfterEnd)'
  <2>1. PICK ch \in Connections : ch = Head(gate_wait[g])
    BY <1>25, AcquireMeans
  <2>2. /\ \A k \in Connections \ {ch} : conn'[k] = conn[k]
        /\ UNCHANGED <<revoked, owner, seen>>
        /\ \/ /\ conn[ch].phase = "enter" /\ is_authorized(conn[ch].arg.sub)
              /\ conn'[ch] = [conn[ch] EXCEPT !.phase = "write"]
           \/ conn'[ch] = At("idle", Null)
           \/ conn'[ch] = [conn[ch] EXCEPT !.phase = "mutating"]
    BY <1>25, <2>1, AcquireMeans
  <2>3. conn[ch] \in [phase : Phases, gate : Gates \cup {Null},
                      arg : SubscriptionIds \cup Capabilities \cup Event \cup {Null}]
    BY <1>1 DEF TypeOK
  <2>4. conn'[ch].phase = "write" =>
          /\ conn[ch].phase = "enter" /\ is_authorized(conn[ch].arg.sub)
          /\ conn'[ch].arg = conn[ch].arg
    BY <2>2, <2>3
  <2>5. (conn[ch].phase = "enter" /\ is_authorized(conn[ch].arg.sub)) =>
          /\ owner[conn[ch].arg.sub].capability \notin revoked
          /\ seen[conn[ch].arg.sub] = "acked"
    <3>1. SUFFICES ASSUME conn[ch].phase = "enter", is_authorized(conn[ch].arg.sub)
                   PROVE  /\ owner[conn[ch].arg.sub].capability \notin revoked
                          /\ seen[conn[ch].arg.sub] = "acked"
      OBVIOUS
    <3>2. PICK s \in SubscriptionIds : s = conn[ch].arg.sub /\ owner[s] # Null /\ seen[s] # "none"
      BY <1>1, <3>1 DEF ConnInv, EmissionOf, Owned
    <3>3. is_authorized(s)  BY <3>1, <3>2
    <3>4. owner[s].capability \notin revoked  BY <1>1, <3>2, <3>3 DEF RegistryInv
    <3>5. seen[s] = "acked"
      BY <1>1, <3>2, <3>3 DEF TypeOK, TaskInv, is_authorized
    <3> QED  BY <3>2, <3>4, <3>5
  <2> QED  BY <1>1, <2>2, <2>4, <2>5 DEF EmissionAuthorized, QuietAfterEnd
<1>26. CASE UNCHANGED vars
  BY <1>1, <1>26 DEF vars, TypeOK, ConnInv, EventInv, TaskInv, RegistryInv, EmissionAuthorized, QuietAfterEnd,
       is_authorized, LeaseHeld, ReceiverClosed, Owned, EmissionOf, TakesRequest
<1>27. ASSUME NEW ch \in Connections, Request(ch) PROVE (EmissionAuthorized /\ QuietAfterEnd)'
  BY <1>27, <1>2, <1>3, <1>4, <1>5, <1>6, <1>7, <1>8 DEF Request
<1>28. ASSUME NEW ch \in Connections, Serve(ch) PROVE (EmissionAuthorized /\ QuietAfterEnd)'
  BY <1>28, <1>9, <1>10, <1>11, <1>12, <1>13, <1>14, <1>15, <1>16, <1>17 DEF Serve
<1>29. ASSUME NEW s \in SubscriptionIds, Forward(s) PROVE (EmissionAuthorized /\ QuietAfterEnd)'
  BY <1>29, <1>19, <1>20, <1>21, <1>22, <1>23 DEF Forward
<1> QED
  BY Steps, <1>26, <1>27, <1>28, <1>29, <1>18, <1>24, <1>25

\* An update that is due stays on its way until it is delivered, or the
\* subscription ends.
LEMMA LossKept ==
  ASSUME SubscriptionInv, [Next]_vars
  PROVE  (LossInv)'
<1> USE DEF registry, gates, tasks, history, At
<1>1. TypeOK /\ LoopInv /\ ConnInv /\ EventInv /\ TaskInv /\ RegistryInv /\ LossInv
  BY DEF SubscriptionInv, LoopInv
<1>2. ASSUME NEW ch \in Connections, NEW c \in Capabilities, subscribe_refused(ch, c)
      PROVE  (LossInv)'
  BY <1>1, <1>2, NullIsNoIdentifier, ItemsEmpty
  DEF subscribe_refused, TypeOK, ConnInv, EventInv, TaskInv, LossInv, OnWay, LoopRuns,
       Owned, EmissionOf, TakesRequest
<1>3. ASSUME NEW ch \in Connections, NEW c \in Capabilities, subscribe_backpressure(ch, c)
      PROVE  (LossInv)'
  BY <1>1, <1>3, NullIsNoIdentifier, ItemsEmpty
  DEF subscribe_backpressure, Pruned, TypeOK, ConnInv, EventInv, TaskInv, LossInv, OnWay,
       LoopRuns, Owned, EmissionOf, TakesRequest
<1>4. ASSUME NEW ch \in Connections, NEW c \in Capabilities, NEW s \in SubscriptionIds, subscribe_updates(ch, c, s)
      PROVE  (LossInv)'
  <2>1. /\ conn[ch].phase = "idle" /\ owner[s] = Null
        /\ owner'[s] # Null /\ owner'[s].connection = ch
        /\ \A t \in SubscriptionIds \ {s} : owner'[t] = owner[t]
        /\ registered' = Pruned \cup {s}
        /\ conn' = [conn EXCEPT ![ch] = At("ack", s)]
        /\ UNCHANGED <<state, queue, observed, events, due, delivered>>
    BY <1>4, SubscribeMeans
  <2>2. /\ conn'[ch].phase = "ack"
        /\ \A k \in Connections \ {ch} : conn'[k] = conn[k]
    BY <1>1, <2>1 DEF TypeOK
  <2>3. /\ due[s] = {} /\ delivered[s] = {} /\ Items(queue[s]) = {} /\ observed[s] = Null
    BY <1>1, <2>1, ItemsEmpty DEF LossInv, TaskInv
  <2>4. \A u : ~OnWay(s, u)'
    <3>1. \A e \in Items(events[ch]) : e.sub # s
      BY <1>1, <2>1 DEF EventInv, Owned
    <3> QED  BY <2>1, <2>2, <2>3, <3>1 DEF OnWay, EmissionOf
  <2>5. ASSUME NEW t \in SubscriptionIds \ {s}
        PROVE  /\ owner'[t] = Null =>
                    t \notin registered' /\ due'[t] = {} /\ delivered'[t] = {} /\ queue'[t] = <<>>
               /\ (owner'[t] # Null /\ state'[t] = "ACTIVE" /\ LoopRuns(owner[t].connection)') =>
                    \A u : u \in due'[t] <=> (u \in delivered'[t] \/ OnWay(t, u)')
    <3>1. owner'[t] = Null => t \notin registered'
      BY <1>1, <2>1 DEF LossInv, Pruned
    <3>2. ASSUME owner[t] # Null
          PROVE  /\ LoopRuns(owner[t].connection)' <=> LoopRuns(owner[t].connection)
                 /\ \A u : OnWay(t, u)' <=> OnWay(t, u)
      <4>1. PICK k \in Connections : k = owner[t].connection
        BY <1>1, <3>2, OwnerTyped
      <4>2. /\ LoopRuns(k)' <=> LoopRuns(k)
            /\ EmissionOf(k)' <=> EmissionOf(k)
            /\ EmissionOf(k) => conn'[k] = conn[k]
        BY <2>1, <2>2 DEF LoopRuns, EmissionOf
      <4>3. owner'[t] = owner[t]  BY <2>1
      <4>4. \A u : OnWay(t, u)' <=> OnWay(t, u)
        BY <2>1, <4>1, <4>2, <4>3 DEF OnWay
      <4> QED  BY <4>1, <4>2, <4>3, <4>4 DEF LoopRuns
    <3> QED  BY <1>1, <2>1, <3>1, <3>2 DEF LossInv
  <2> QED  BY <2>1, <2>3, <2>4, <2>5 DEF LossInv
<1>5. ASSUME NEW ch \in Connections, NEW c \in Capabilities, NEW u \in Updates, accept(ch, c, u)
      PROVE  (LossInv)'
  <2> DEFINE d == DocumentOf[c]
  <2>1. /\ conn[ch].phase = "idle" /\ conn'[ch].phase = "reply"
        /\ \A k \in Connections \ {ch} : conn'[k] = conn[k]
        /\ UNCHANGED <<owner, observed, events, delivered>>
    BY <1>1, <1>5 DEF accept, TakesRequest, TypeOK
  <2>2. /\ state' = invalidate(Overflowing(d), "OVERFLOWED")
        /\ registered' = Pruned \ Overflowing(d)
        /\ \A t \in SubscriptionIds :
             /\ queue'[t] = IF t \in Notified(d) THEN Append(queue[t], u) ELSE queue[t]
             /\ due'[t] = IF owner[t] # Null /\ DocumentOfSub(t) = d /\ state[t] = "ACTIVE"
                          THEN due[t] \cup {u} ELSE due[t]
    BY <1>1, <1>5 DEF accept, TypeOK
  <2> HIDE DEF d
  <2>3. ASSUME NEW t \in SubscriptionIds, owner[t] = Null
        PROVE  t \notin registered' /\ due'[t] = {} /\ delivered'[t] = {} /\ queue'[t] = <<>>
    BY <1>1, <2>1, <2>2, <2>3 DEF LossInv, Pruned, Notified
  <2>4. ASSUME NEW t \in SubscriptionIds, owner[t] # Null, state'[t] = "ACTIVE",
               LoopRuns(owner[t].connection)', NEW v
        PROVE  v \in due'[t] <=> (v \in delivered'[t] \/ OnWay(t, v)')
    <3>1. PICK k \in Connections : k = owner[t].connection
      BY <1>1, <2>4, OwnerTyped
    <3>2. /\ LoopRuns(k) /\ LeaseHeld(k) /\ (EmissionOf(k)' <=> EmissionOf(k))
          /\ EmissionOf(k) => conn'[k] = conn[k]
      <4>1. LoopRuns(k)'  BY <2>1, <2>4, <3>1
      <4> QED  BY <2>1, <4>1 DEF LoopRuns, LeaseHeld, EmissionOf
    <3>3. state[t] = "ACTIVE" /\ t \notin Overflowing(d)
      <4>1. "OVERFLOWED" \in States \ {"ACTIVE"}  BY DEF States
      <4> QED  BY <1>1, <2>2, <2>4, <4>1, InvalidateMeans
    <3>4. v \in due[t] <=> (v \in delivered[t] \/ OnWay(t, v))
      BY <1>1, <2>4, <3>1, <3>2, <3>3 DEF LossInv
    <3>5. CASE DocumentOfSub(t) = d
      <4>1. t \in registered
        BY <1>1, <2>4, <3>1, <3>2, <3>3 DEF RegistryInv, is_authorized
      <4>2. t \in Pruned
        BY <1>1, <3>1, <3>2, <3>3, <4>1 DEF Pruned, ReceiverClosed, TaskInv
      <4>3. queue[t] \in Seq(Updates) /\ Len(queue[t]) \in Nat
        BY <1>1 DEF TypeOK
      <4>4. t \in Notified(d)
        BY <3>3, <3>5, <4>2, <4>3, Capacities DEF Notified, Overflowing
      <4>5. Items(queue'[t]) = Items(queue[t]) \cup {u}
        <5>1. Items(Append(queue[t], u)) = Items(queue[t]) \cup {u}
          BY <4>3, ItemsAppend
        <5> QED  BY <2>2, <4>4, <5>1
      <4>6. OnWay(t, v)' <=> (OnWay(t, v) \/ v = u)
        BY <2>1, <3>1, <3>2, <4>5 DEF OnWay
      <4>7. v \in due'[t] <=> (v \in due[t] \/ v = u)
        BY <2>2, <2>4, <3>3, <3>5
      <4> QED  BY <2>1, <3>4, <4>6, <4>7
    <3>6. CASE DocumentOfSub(t) # d
      <4>1. queue'[t] = queue[t] /\ due'[t] = due[t]
        BY <2>2, <3>6 DEF Notified
      <4>2. OnWay(t, v)' <=> OnWay(t, v)
        BY <2>1, <3>1, <3>2, <4>1 DEF OnWay
      <4> QED  BY <2>1, <3>4, <4>1, <4>2
    <3> QED  BY <3>5, <3>6
  <2> QED  BY <2>1, <2>3, <2>4 DEF LossInv
<1>6. ASSUME NEW ch \in Connections, NEW c \in Capabilities, preflight_revoke_capability(ch, c)
      PROVE  (LossInv)'
  BY <1>1, <1>6, NullIsNoIdentifier, ItemsEmpty
  DEF preflight_revoke_capability, TypeOK, ConnInv, EventInv, TaskInv, LossInv, OnWay,
       LoopRuns, Owned, EmissionOf, TakesRequest
<1>7. ASSUME NEW ch \in Connections, handle_request(ch)
      PROVE  (LossInv)'
  BY <1>1, <1>7, NullIsNoIdentifier, ItemsEmpty
  DEF handle_request, TypeOK, ConnInv, EventInv, TaskInv, LossInv, OnWay, LoopRuns,
       Owned, EmissionOf, TakesRequest
<1>8. ASSUME NEW ch \in Connections, NEW s \in SubscriptionIds, cancel_subscription(ch, s)
      PROVE  (LossInv)'
  <2>1. /\ conn[ch].phase = "idle" /\ conn'[ch].phase = "cancelling"
        /\ \A k \in Connections \ {ch} : conn'[k] = conn[k]
        /\ UNCHANGED <<registered, owner, state, queue, observed, events, due, delivered>>
    BY <1>1, <1>8 DEF cancel_subscription, TakesRequest, TypeOK
  <2> QED
    BY <1>1, <2>1, OwnerTyped DEF LossInv, OnWay, LoopRuns, EmissionOf
<1>9. ASSUME NEW ch \in Connections, write_ack(ch)
      PROVE  (LossInv)'
  BY <1>1, <1>9, NullIsNoIdentifier, ItemsEmpty
  DEF write_ack, TypeOK, ConnInv, EventInv, TaskInv, LossInv, OnWay, LoopRuns, Owned,
       EmissionOf, TakesRequest
<1>10. ASSUME NEW ch \in Connections, write_cancelled(ch)
      PROVE  (LossInv)'
  BY <1>1, <1>10, NullIsNoIdentifier, ItemsEmpty
  DEF write_cancelled, TypeOK, ConnInv, EventInv, TaskInv, LossInv, OnWay, LoopRuns,
       Owned, EmissionOf, TakesRequest
<1>11. ASSUME NEW ch \in Connections, write_response(ch)
      PROVE  (LossInv)'
  BY <1>1, <1>11, NullIsNoIdentifier, ItemsEmpty
  DEF write_response, TypeOK, ConnInv, EventInv, TaskInv, LossInv, OnWay, LoopRuns,
       Owned, EmissionOf, TakesRequest
<1>12. ASSUME NEW ch \in Connections, write_terminal_event(ch)
      PROVE  (LossInv)'
  <2>1. /\ UNCHANGED <<registered, owner, state, queue, observed, conn, due, delivered>>
        /\ Head(events[ch]).kind # "notification"
        /\ \A k \in Connections : Items(events'[k]) \subseteq Items(events[k])
        /\ \A k \in Connections : Items(events[k]) \subseteq Items(events'[k]) \cup {Head(events[ch])}
    BY <1>1, <1>12, DequeuedEvent DEF write_terminal_event
  <2>2. \A t \in SubscriptionIds : owner[t] # Null => \A u : OnWay(t, u)' <=> OnWay(t, u)
    BY <1>1, <2>1, OwnerTyped DEF OnWay, EmissionOf
  <2> QED
    BY <1>1, <2>1, <2>2 DEF LossInv, LoopRuns
<1>13. ASSUME NEW ch \in Connections, enter_emission(ch)
      PROVE  (LossInv)'
  <2>1. PICK e \in Event : e = Head(events[ch])
    BY <1>1, <1>13, HeadEvent DEF enter_emission
  <2>2. /\ UNCHANGED <<registered, owner, state, queue, observed, due, delivered>>
        /\ e.kind = "notification"
        /\ conn[ch].phase = "idle" /\ conn'[ch].phase = "enter" /\ conn'[ch].arg = e
        /\ \A k \in Connections \ {ch} : conn'[k] = conn[k]
        /\ \A k \in Connections \ {ch} : events'[k] = events[k]
        /\ Items(events[ch]) = Items(events'[ch]) \cup {e}
    BY <1>1, <1>13, <2>1, DequeuedEvent DEF enter_emission, TypeOK
  <2>3. \A t \in SubscriptionIds : owner[t] # Null => \A u : OnWay(t, u)' <=> OnWay(t, u)
    BY <1>1, <2>2, OwnerTyped DEF OnWay, EmissionOf
  <2>4. \A k \in Connections : LoopRuns(k)' <=> LoopRuns(k)
    BY <2>2 DEF LoopRuns
  <2> QED
    BY <1>1, <2>2, <2>3, <2>4, OwnerTyped DEF LossInv
<1>14. ASSUME NEW ch \in Connections, write_notification(ch)
      PROVE  (LossInv)'
  BY <1>1, <1>14, NullIsNoIdentifier, ItemsEmpty
  DEF write_notification, Release, TypeOK, ConnInv, EventInv, TaskInv, LossInv, OnWay,
       LoopRuns, Owned, EmissionOf, TakesRequest
<1>15. ASSUME NEW ch \in Connections, exclude(ch)
      PROVE  (LossInv)'
  BY <1>1, <1>15, NullIsNoIdentifier, ItemsEmpty
  DEF exclude, TypeOK, ConnInv, EventInv, TaskInv, LossInv, OnWay, LoopRuns, Owned,
       EmissionOf, TakesRequest
<1>16. ASSUME NEW ch \in Connections, revoke_capability(ch)
      PROVE  (LossInv)'
  BY <1>1, <1>16, NullIsNoIdentifier, ItemsEmpty
  DEF revoke_capability, Release, invalidate, TypeOK, ConnInv, EventInv, TaskInv,
       LossInv, OnWay, LoopRuns, Owned, EmissionOf, TakesRequest
<1>17. ASSUME NEW ch \in Connections, close_channel(ch)
      PROVE  (LossInv)'
  BY <1>1, <1>17, NullIsNoIdentifier, ItemsEmpty
  DEF close_channel, invalidate, TypeOK, ConnInv, EventInv, TaskInv, LossInv, OnWay,
       LoopRuns, Owned, EmissionOf, TakesRequest
<1>18. ASSUME NEW ch \in Connections, stop(ch)
      PROVE  (LossInv)'
  BY <1>1, <1>18, NullIsNoIdentifier, ItemsEmpty
  DEF stop, Release, invalidate, TypeOK, ConnInv, EventInv, TaskInv, LossInv, OnWay,
       LoopRuns, Owned, EmissionOf, TakesRequest
<1>19. ASSUME NEW s \in SubscriptionIds, poll_cancelled(s)
      PROVE  (LossInv)'
  BY <1>1, <1>19, NullIsNoIdentifier, ItemsEmpty
  DEF poll_cancelled, Finish, invalidate, TypeOK, ConnInv, EventInv, TaskInv, LossInv,
       OnWay, LoopRuns, Owned, EmissionOf, TakesRequest
<1>20. ASSUME NEW s \in SubscriptionIds, poll_ended(s)
      PROVE  (LossInv)'
  <2>1. /\ UNCHANGED <<registered, owner, queue, conn, events, due, delivered>>
        /\ state[s] # "ACTIVE"
        /\ \A t \in SubscriptionIds \ {s} : observed'[t] = observed[t]
        /\ \A t \in SubscriptionIds : state'[t] = state[t]
    BY <1>1, <1>20 DEF poll_ended, Finish, invalidate, TypeOK
  <2>2. \A t \in SubscriptionIds \ {s} : \A u : OnWay(t, u)' <=> OnWay(t, u)
    BY <2>1 DEF OnWay, EmissionOf
  <2> QED
    BY <1>1, <2>1, <2>2 DEF LossInv, LoopRuns
<1>21. ASSUME NEW s \in SubscriptionIds, poll_notification(s)
      PROVE  (LossInv)'
  <2>1. /\ UNCHANGED <<registered, owner, state, conn, events, due, delivered>>
        /\ \A t \in SubscriptionIds \ {s} : observed'[t] = observed[t] /\ queue'[t] = queue[t]
        /\ observed[s] = Null /\ owner[s] # Null
    BY <1>1, <1>21 DEF poll_notification, TypeOK, TaskInv
  <2>2. /\ queue[s] \in Seq(Updates) /\ queue[s] # <<>> /\ queue'[s] = Tail(queue[s])
        /\ observed'[s] = [sub |-> s, kind |-> "notification", update |-> Head(queue[s])]
    BY <1>1, <1>21 DEF poll_notification, TypeOK
  <2>3. PICK v \in Updates : v = Head(queue[s])  BY <2>2, ItemsTail
  <2>4. Items(queue[s]) = Items(queue'[s]) \cup {v}  BY <2>2, <2>3, ItemsTail
  <2>5. observed'[s] \in Event  BY <2>2, <2>3, TerminalEvents
  <2>6. observed'[s] # Null /\ observed'[s].kind = "notification" /\ observed'[s].update = v
    BY <2>2, <2>3, <2>5, NullIsNoValue
  <2>7. \A u : OnWay(s, u)' <=> OnWay(s, u)
    BY <2>1, <2>4, <2>6 DEF OnWay, EmissionOf
  <2>8. \A t \in SubscriptionIds \ {s} : \A u : OnWay(t, u)' <=> OnWay(t, u)
    BY <2>1 DEF OnWay, EmissionOf
  <2> QED
    BY <1>1, <2>1, <2>7, <2>8 DEF LossInv, LoopRuns
<1>22. ASSUME NEW s \in SubscriptionIds, forward(s)
      PROVE  (LossInv)'
  <2>1. task[s] = "forwarding" /\ owner[s] # Null
    BY <1>1, <1>22, EventInHand DEF forward
  <2>2. PICK ch \in Connections : ch = owner[s].connection
    BY <1>1, <2>1, EventInHand
  <2>3. PICK o \in Event : o = observed[s] /\ o.sub = s
    BY <1>1, <2>1, EventInHand
  <2>4. /\ UNCHANGED <<registered, owner, queue, conn, due, delivered>>
        /\ \A t \in SubscriptionIds \ {s} : observed'[t] = observed[t] /\ state'[t] = state[t]
        /\ observed'[s] = Null
        /\ \/ HasEventSpace(ch) /\ events' = [events EXCEPT ![ch] = Append(@, o)]
           \/ UNCHANGED events
    BY <1>1, <1>22, <2>2, <2>3 DEF forward, Finish, invalidate, TypeOK
  <2>5. state'[s] = "ACTIVE" =>
          /\ state[s] = "ACTIVE" /\ o.kind = "notification"
          /\ HasEventSpace(ch) /\ events' = [events EXCEPT ![ch] = Append(@, o)]
    BY <1>1, <1>22, <2>2, <2>3 DEF forward, Finish, invalidate, TypeOK
  <2>6. HasEventSpace(ch) /\ events' = [events EXCEPT ![ch] = Append(@, o)] =>
          \A k \in Connections :
            Items(events'[k]) = IF k = ch THEN Items(events[ch]) \cup {o} ELSE Items(events[k])
    BY <1>1, QueuedEvent
  <2>7. ASSUME NEW t \in SubscriptionIds \ {s}, owner[t] # Null
        PROVE  \A u : OnWay(t, u)' <=> OnWay(t, u)
    <3>1. PICK k \in Connections : k = owner[t].connection  BY <1>1, <2>7, OwnerTyped
    <3>2. \A e : e.sub = t => (e \in Items(events'[k]) <=> e \in Items(events[k]))
      BY <2>3, <2>4, <2>6
    <3> QED  BY <2>4, <3>1, <3>2 DEF OnWay, EmissionOf
  <2>8. ASSUME state'[s] = "ACTIVE"
        PROVE  state[s] = "ACTIVE" /\ \A u : OnWay(s, u)' <=> OnWay(s, u)
    <3>1. Items(events'[ch]) = Items(events[ch]) \cup {o}  BY <2>5, <2>6, <2>8
    <3>2. observed[s] # Null  BY <2>3, NullIsNoValue
    <3> QED  BY <2>2, <2>3, <2>4, <2>5, <2>8, <3>1, <3>2 DEF OnWay, EmissionOf
  <2> QED
    BY <1>1, <2>1, <2>4, <2>7, <2>8 DEF LossInv, LoopRuns
<1>23. ASSUME NEW s \in SubscriptionIds, abort(s)
      PROVE  (LossInv)'
  BY <1>1, <1>23, NullIsNoIdentifier, ItemsEmpty
  DEF abort, Finish, invalidate, TypeOK, ConnInv, EventInv, TaskInv, LossInv, OnWay,
       LoopRuns, Owned, EmissionOf, TakesRequest
<1>24. ASSUME NEW s \in SubscriptionIds, send_overflow(s)
      PROVE  (LossInv)'
  <2>1. PICK ch \in Connections : ch = owner[s].connection
    BY <1>1, <1>24, OwnerTyped DEF send_overflow, TaskInv
  <2>2. PICK e \in Event : e = [sub |-> s, kind |-> "overflow"]
    BY TerminalEvents
  <2>3. /\ UNCHANGED <<registered, owner, queue, conn, due, delivered>>
        /\ \A t \in SubscriptionIds \ {s} : observed'[t] = observed[t] /\ state'[t] = state[t]
        /\ state'[s] # "ACTIVE" /\ owner[s] # Null
        /\ \/ HasEventSpace(ch) /\ events' = [events EXCEPT ![ch] = Append(@, e)]
           \/ UNCHANGED events
    BY <1>1, <1>24, <2>1, <2>2 DEF send_overflow, Finish, invalidate, TypeOK, TaskInv
  <2>4. HasEventSpace(ch) /\ events' = [events EXCEPT ![ch] = Append(@, e)] =>
          \A k \in Connections :
            Items(events'[k]) = IF k = ch THEN Items(events[ch]) \cup {e} ELSE Items(events[k])
    BY <1>1, QueuedEvent
  <2>5. ASSUME NEW t \in SubscriptionIds \ {s}, owner[t] # Null
        PROVE  \A u : OnWay(t, u)' <=> OnWay(t, u)
    <3>1. PICK k \in Connections : k = owner[t].connection  BY <1>1, <2>5, OwnerTyped
    <3>2. \A x : x.sub = t => (x \in Items(events'[k]) <=> x \in Items(events[k]))
      BY <2>2, <2>3, <2>4
    <3> QED  BY <2>3, <3>1, <3>2 DEF OnWay, EmissionOf
  <2> QED
    BY <1>1, <2>3, <2>5 DEF LossInv, LoopRuns
<1>25. ASSUME NEW g \in Gates, acquire(g)
      PROVE  (LossInv)'
  <2>1. PICK ch \in Connections : ch = Head(gate_wait[g])
    BY <1>25, AcquireMeans
  <2>2. /\ \A k \in Connections \ {ch} : conn'[k] = conn[k]
        /\ UNCHANGED <<registered, owner, state, queue, observed, events, due, delivered>>
        /\ \/ conn[ch].phase = "enter" /\ conn'[ch] = [conn[ch] EXCEPT !.phase = "write"]
           \/ /\ conn[ch].phase = "enter" /\ ~is_authorized(conn[ch].arg.sub)
              /\ conn'[ch] = At("idle", Null)
           \/ conn[ch].phase = "excluding" /\ conn'[ch] = [conn[ch] EXCEPT !.phase = "mutating"]
    BY <1>25, <2>1, AcquireMeans
  <2>3. conn[ch] \in [phase : Phases, gate : Gates \cup {Null},
                      arg : SubscriptionIds \cup Capabilities \cup Event \cup {Null}]
    BY <1>1 DEF TypeOK
  <2>4. /\ conn[ch].phase \in {"enter", "excluding"}
        /\ conn'[ch].phase \in {"write", "idle", "mutating"}
        /\ conn'[ch].phase = "write" => conn[ch].phase = "enter" /\ conn'[ch].arg = conn[ch].arg
        /\ conn'[ch].phase = "idle" => conn[ch].phase = "enter" /\ ~is_authorized(conn[ch].arg.sub)
        /\ conn'[ch].phase = "mutating" => conn[ch].phase = "excluding"
    BY <2>2, <2>3
  <2>5. \A k \in Connections : LoopRuns(k)' <=> LoopRuns(k)
    BY <2>2, <2>4 DEF LoopRuns
  <2>6. ASSUME NEW t \in SubscriptionIds, owner[t] # Null, state[t] = "ACTIVE"
        PROVE  \A u : OnWay(t, u)' <=> OnWay(t, u)
    <3>1. PICK k \in Connections : k = owner[t].connection  BY <1>1, <2>6, OwnerTyped
    <3>2. CASE k # ch
      BY <2>2, <3>1, <3>2 DEF OnWay, EmissionOf
    <3>3. CASE k = ch
      <4>1. (conn[ch].phase = "enter" /\ conn[ch].arg.sub = t) => is_authorized(conn[ch].arg.sub)
        BY <2>6, <3>1, <3>3 DEF is_authorized, LeaseHeld
      <4>2. \A u : (EmissionOf(ch) /\ conn[ch].arg.sub = t /\ conn[ch].arg.update = u)'
                     <=> (EmissionOf(ch) /\ conn[ch].arg.sub = t /\ conn[ch].arg.update = u)
        BY <2>4, <4>1 DEF EmissionOf
      <4> QED  BY <2>2, <3>1, <3>3, <4>2 DEF OnWay
    <3> QED  BY <3>2, <3>3
  <2> QED
    BY <1>1, <2>2, <2>5, <2>6, OwnerTyped DEF LossInv
<1>26. CASE UNCHANGED vars
  BY <1>1, <1>26 DEF vars, TypeOK, ConnInv, EventInv, TaskInv, LossInv, OnWay, LoopRuns, Owned, EmissionOf,
       TakesRequest
<1>27. ASSUME NEW ch \in Connections, Request(ch) PROVE (LossInv)'
  BY <1>27, <1>2, <1>3, <1>4, <1>5, <1>6, <1>7, <1>8 DEF Request
<1>28. ASSUME NEW ch \in Connections, Serve(ch) PROVE (LossInv)'
  BY <1>28, <1>9, <1>10, <1>11, <1>12, <1>13, <1>14, <1>15, <1>16, <1>17 DEF Serve
<1>29. ASSUME NEW s \in SubscriptionIds, Forward(s) PROVE (LossInv)'
  BY <1>29, <1>19, <1>20, <1>21, <1>22, <1>23 DEF Forward
<1> QED
  BY Steps, <1>26, <1>27, <1>28, <1>29, <1>18, <1>24, <1>25
----------------------------------------------------------------------------
\* The invariant of every behaviour, and what follows from it.

\* Nothing is registered, queued or held to begin with.
LEMMA SubscriptionInit == Init => SubscriptionInv
<1>1. SUFFICES ASSUME Init  PROVE SubscriptionInv
  OBVIOUS
<1>2. TypeOK
  BY <1>1, Capacities DEF Init, TypeOK, At, Phases, States
<1>3. /\ \A s \in SubscriptionIds :
           /\ owner[s] = Null /\ state[s] = "ACTIVE" /\ queue[s] = <<>> /\ task[s] = "none"
           /\ observed[s] = Null /\ seen[s] = "none" /\ due[s] = {} /\ delivered[s] = {}
      /\ \A ch \in Connections :
           conn[ch].phase = "idle" /\ conn[ch].gate = Null /\ Items(events[ch]) = {}
      /\ \A g \in Gates : gate_wait[g] = <<>> /\ Items(gate_wait[g]) = {}
      /\ registered = {}
  BY <1>1, ItemsEmpty DEF Init, At
<1>4. ConnInv /\ EventInv /\ TaskInv
  BY <1>3 DEF ConnInv, EventInv, TaskInv, EmissionOf
<1>5. RegistryInv /\ HoldInv /\ GateInv
  BY <1>3 DEF RegistryInv, HoldInv, GateInv, EmissionOf
<1>6. WaitInv
  BY <1>3 DEF WaitInv, Distinct
<1>7. EmissionAuthorized /\ QuietAfterEnd /\ LossInv
  BY <1>3 DEF EmissionAuthorized, QuietAfterEnd, LossInv
<1> QED  BY <1>2, <1>4, <1>5, <1>6, <1>7 DEF SubscriptionInv, LoopInv

\* Every step preserves the invariant.
LEMMA SubscriptionInductive ==
  ASSUME SubscriptionInv, [Next]_vars
  PROVE  SubscriptionInv'
<1>1. TypeOK'
  <2>1. CASE UNCHANGED vars
    BY <2>1 DEF SubscriptionInv, LoopInv, TypeOK, vars, registry, gates, tasks, history
  <2> QED  BY <2>1, Steps, TypeRequest, TypeServe, TypeTask, TypeAcquire
<1> QED
  BY <1>1, LoopKept, LocksKept, GateKept, SafetyKept, LossKept DEF SubscriptionInv, LoopInv

\* The invariant holds in every state.
LEMMA SubscriptionCorrect == Spec => []SubscriptionInv
<1>1. SubscriptionInv /\ [Next]_vars => SubscriptionInv'  BY SubscriptionInductive
<1> QED  BY SubscriptionInit, <1>1, PTL DEF Spec

\* For every number of connections, subscriptions, documents and updates, and
\* every capacity: the variables keep their types, and neither accept nor a
\* forwarding task makes a queue outgrow its capacity.
THEOREM TypeCorrect == Spec => []TypeOK
<1>1. SubscriptionInv => TypeOK  BY DEF SubscriptionInv, LoopInv
<1> QED  BY SubscriptionCorrect, <1>1, PTL

\* The connection loop never writes a notification on revoked authority: it
\* checks the subscription again under the read lock of the gate, which a
\* revocation of the document must take exclusively before it commits.
THEOREM EmissionAuthorizedCorrect == Spec => []EmissionAuthorized
<1>1. SubscriptionInv => EmissionAuthorized  BY DEF SubscriptionInv
<1> QED  BY SubscriptionCorrect, <1>1, PTL

\* A document has one emission gate at a time, although emission_gate keeps only
\* a weak reference to it: the entry is replaced only when nobody holds it.
THEOREM OneGatePerDocumentCorrect == Spec => []OneGatePerDocument
<1>1. ASSUME SubscriptionInv  PROVE OneGatePerDocument
  <2>1. LoopInv /\ GateInv  BY <1>1 DEF SubscriptionInv
  <2> QED  BY <2>1, ReferencesMeans DEF OneGatePerDocument
<1>2. SubscriptionInv => OneGatePerDocument  BY <1>1
<1> QED  BY SubscriptionCorrect, <1>2, PTL

\* No notification of a subscription follows the event or the answer that told
\* its peer that it ended.
THEOREM QuietAfterEndCorrect == Spec => []QuietAfterEnd
<1>1. SubscriptionInv => QuietAfterEnd  BY DEF SubscriptionInv
<1> QED  BY SubscriptionCorrect, <1>1, PTL

\* An active subscription loses no wakeup: accept queues it or ends the
\* subscription, and it is never dropped on the way from the registry's queue
\* through the forwarding task and the event queue to the peer.
THEOREM NoSilentLossCorrect == Spec => []NoSilentLoss
<1>1. ASSUME SubscriptionInv  PROVE NoSilentLoss
  <2>1. LossInv  BY <1>1 DEF SubscriptionInv
  <2>2. ASSUME NEW s \in SubscriptionIds
        PROVE  \A u : u \in Underway(s) <=> OnWay(s, u)
    <3> DEFINE ch == owner[s].connection
               inhand == IF observed[s] # Null /\ observed[s].kind = "notification"
                         THEN {observed[s]} ELSE {}
               emitted == {e \in Emissions(ch) : e.sub = s}
    <3>1. Underway(s) = Items(queue[s]) \cup {e.update : e \in inhand \cup emitted}
      BY DEF Underway, Items
    <3>2. Emissions(ch) = {e \in Items(events[ch]) : e.kind = "notification"}
                            \cup (IF EmissionOf(ch) THEN {conn[ch].arg} ELSE {})
      BY DEF Emissions, Items
    <3>3. \A u : u \in {e.update : e \in inhand \cup emitted} <=>
                   \/ \E e \in inhand : u = e.update
                   \/ \E e \in emitted : u = e.update
      OBVIOUS
    <3>4. \A u : (\E e \in emitted : u = e.update) <=>
                   \/ \E e \in Items(events[ch]) :
                        e.kind = "notification" /\ e.sub = s /\ e.update = u
                   \/ EmissionOf(ch) /\ conn[ch].arg.sub = s /\ conn[ch].arg.update = u
      BY <3>2
    <3>5. \A u : (\E e \in inhand : u = e.update) <=>
                   /\ observed[s] # Null /\ observed[s].kind = "notification"
                   /\ observed[s].update = u
      OBVIOUS
    <3> HIDE DEF inhand, emitted
    <3> QED  BY <3>1, <3>3, <3>4, <3>5 DEF OnWay
  <2> QED  BY <2>1, <2>2 DEF NoSilentLoss, LossInv
<1>2. SubscriptionInv => NoSilentLoss  BY <1>1
<1> QED  BY SubscriptionCorrect, <1>2, PTL
============================================================================
