---------------------------- MODULE RelayProofs -----------------------------
(***************************************************************************)
(* The relay of a public connection, for every number of streams, any use  *)
(* of correlation identifiers and every capacity of the pipes and queues:  *)
(* a response reaches the stream that asked, and no event of a             *)
(* subscription overtakes its acknowledgement.                             *)
(***************************************************************************)
EXTENDS Relay, TLAPS

Items(q) == {q[i] : i \in 1..Len(q)}

Distinct(q) == \A i, j \in 1..Len(q) : q[i] = q[j] => i = j

\* What the queues and pipes carry: a request or its answer, an event, or the end.
Bearing(m) == m.type \notin {"event", "closed"}

Frame ==
  [type : {"request", "server_hello", "protocol_error", "ack", "answer", "manifest", "event"},
   stream : Streams]
    \cup [type : {"closed"}, stream : {Null}]

\* The streams whose request or answer is in a queue of frames, each once.
Borne(q) == {m.stream : m \in {x \in Items(q) : Bearing(x)}}

Once(q) ==
  \A i, j \in 1..Len(q) :
    (Bearing(q[i]) /\ Bearing(q[j]) /\ q[i].stream = q[j].stream) => i = j

Tasks == {"none", "reading", "queued", "pending", "routed", "finished", "failed", "joined",
          "reset"}

RelayType ==
  /\ task \in [Streams -> Tasks]
  /\ correlation \in [Streams -> Correlations \cup {Null}]
  /\ requests \in Seq(Streams)
  /\ pending \in [Correlations -> Streams \cup {Null}]
  /\ response \in [Streams -> Frame \cup {Null}]
  /\ gateway \in [at : {"select", "writing", "delivering", "event", "ended"},
                  on : Streams \cup {Null}]
  /\ outputs \in Seq(Frame)
  /\ input_pipe \in Seq(Streams)
  /\ output_pipe \in Seq(Frame)
  /\ session \in [at : {"recv", "output", "store", "gone", "eof", "reaped"},
                  on : Frame \cup {Null}]
  /\ session.at \in {"output", "store"} => session.on \in Frame
  /\ session.at = "store" => session.on.type = "request"
  /\ relay \in Seq(Frame)
  /\ inbox \in Seq(Streams)
  /\ subscribed \subseteq Streams
  /\ emitted \subseteq Streams
  /\ gateway.at \in {"writing", "delivering", "event"} => gateway.on \in Streams

\* A request waits in the dispatcher's queue once, and under its own identifier.
TaskInv ==
  /\ \A s \in Streams : task[s] # "none" => correlation[s] \in Correlations
  /\ \A s \in Items(requests) : task[s] = "queued"
  /\ Distinct(requests)
  /\ \A c \in Correlations :
       pending[c] # Null => correlation[pending[c]] = c /\ task[pending[c]] = "pending"

\* The streams whose request or answer is at each place between the dispatcher
\* and the store.
Writing == IF gateway.at = "writing" THEN {gateway.on} ELSE {}
InSession ==
  IF session.at \in {"output", "store"} /\ Bearing(session.on) THEN {session.on.stream} ELSE {}

Apart(A, B, C, D, E, F, G) ==
  /\ A \cap (B \cup C \cup D \cup E \cup F \cup G) = {}
  /\ B \cap (C \cup D \cup E \cup F \cup G) = {}
  /\ C \cap (D \cup E \cup F \cup G) = {}
  /\ D \cap (E \cup F \cup G) = {}
  /\ E \cap (F \cup G) = {}
  /\ F \cap G = {}

\* A request or its answer is at one place, and its stream waits for it.
TransitInv ==
  /\ Distinct(input_pipe) /\ Distinct(inbox)
  /\ Once(relay) /\ Once(output_pipe) /\ Once(outputs)
  /\ Apart(Writing, Items(input_pipe), Borne(relay), InSession, Items(inbox),
           Borne(output_pipe), Borne(outputs))
  /\ \A s \in Writing \cup Items(input_pipe) \cup Borne(relay) \cup InSession \cup Items(inbox)
                \cup Borne(output_pipe) \cup Borne(outputs) :
       /\ s \in Streams /\ correlation[s] \in Correlations
       /\ pending[correlation[s]] = s

\* Acknowledgements in a queue, and a queue in which the events of a stream
\* that is not in S follow its acknowledgement.
Acks(q) == {m.stream : m \in {x \in Items(q) : x.type = "ack"}}

EventsFollow(q, S) ==
  \A j \in 1..Len(q) :
    q[j].type = "event" =>
      \/ q[j].stream \in S
      \/ \E i \in 1..Len(q) : i < j /\ q[i].type = "ack" /\ q[i].stream = q[j].stream

\* The acknowledgement of a stream was delivered, or the dispatcher waits for
\* that; and the streams whose acknowledgement got as far as each queue.
AckWritten(s) == response[s] = Message("ack", s) /\ task[s] \in {"finished", "joined"}
AckRouted ==
  {s \in Streams : \/ AckWritten(s)
                   \/ /\ gateway.at = "delivering" /\ gateway.on = s
                      /\ response[s] = Message("ack", s)}
SessionAck(x) == IF x.at = "output" /\ x.on.type = "ack" THEN {x.on.stream} ELSE {}

\* With acknowledgements that were routed, the dispatcher's queue, the pipe, the
\* session, its queue and the subscriptions: an event follows the acknowledgement.
Ordered(routed, queue, pipe, x, incoming, subscriptions) ==
  /\ EventsFollow(queue, routed)
  /\ EventsFollow(pipe, routed \cup Acks(queue))
  /\ (x.at = "output" /\ x.on.type = "event") =>
       x.on.stream \in routed \cup Acks(queue) \cup Acks(pipe)
  /\ EventsFollow(incoming, routed \cup Acks(queue) \cup Acks(pipe) \cup SessionAck(x))
  /\ subscriptions \subseteq
       routed \cup Acks(queue) \cup Acks(pipe) \cup SessionAck(x) \cup Acks(incoming)

\* No event overtakes the acknowledgement of its subscription.
OrderInv ==
  /\ Ordered(AckRouted, outputs, output_pipe, session, relay, subscribed)
  /\ gateway.at = "event" => AckWritten(gateway.on)

\* The inductive invariant.
RelayInv ==
  /\ RelayType
  /\ RoutedToRequester
  /\ AckBeforeEvents
  /\ gateway.at # "ended" => TaskInv /\ TransitInv /\ OrderInv
----------------------------------------------------------------------------
\* Queues.

\* The entries of a queue are what it is a queue of.
LEMMA ItemsTyped == ASSUME NEW S, NEW q \in Seq(S)  PROVE Items(q) \subseteq S
BY DEF Items

\* A queue without its head.
LEMMA TailOf ==
  ASSUME NEW S, NEW q \in Seq(S), q # <<>>
  PROVE  /\ Head(q) \in S /\ Head(q) = q[1] /\ 1 \in 1..Len(q)
         /\ Tail(q) \in Seq(S) /\ Len(q) \in Nat
         /\ Len(Tail(q)) \in Nat /\ Len(Tail(q)) + 1 = Len(q)
         /\ \A i \in 1..Len(Tail(q)) : i + 1 \in 1..Len(q) /\ Tail(q)[i] = q[i + 1]
         /\ \A i \in 1..Len(q) : i # 1 => i - 1 \in 1..Len(Tail(q)) /\ q[i] = Tail(q)[i - 1]
<1>1. /\ Len(q) \in Nat \ {0} /\ Tail(q) \in Seq(S) /\ Len(Tail(q)) = Len(q) - 1
      /\ Head(q) = q[1] /\ Head(q) \in S
      /\ \A i \in 1..(Len(q) - 1) : Tail(q)[i] = q[i + 1]
  OBVIOUS
<1>2. \A i \in 1..Len(q) : i # 1 => i - 1 \in 1..(Len(q) - 1) /\ Tail(q)[i - 1] = q[i]
  BY <1>1
<1> QED  BY <1>1, <1>2

\* A queue with one more entry.
LEMMA AppendOf ==
  ASSUME NEW S, NEW q \in Seq(S), NEW x \in S
  PROVE  /\ Append(q, x) \in Seq(S) /\ Len(q) \in Nat /\ Len(Append(q, x)) = Len(q) + 1
         /\ \A i \in 1..Len(q) : i \in 1..Len(Append(q, x)) /\ Append(q, x)[i] = q[i]
         /\ Len(q) + 1 \in 1..Len(Append(q, x)) /\ Append(q, x)[Len(q) + 1] = x
         /\ \A i \in 1..Len(Append(q, x)) : i \in 1..Len(q) \/ i = Len(q) + 1
OBVIOUS

\* What is taken from a queue was in it once.
LEMMA ItemsTail ==
  ASSUME NEW S, NEW q \in Seq(S), q # <<>>
  PROVE  /\ Head(q) \in S /\ Tail(q) \in Seq(S) /\ Head(q) \in Items(q)
         /\ Items(q) = Items(Tail(q)) \cup {Head(q)}
         /\ Items(q) \subseteq S
         /\ Distinct(q) => Distinct(Tail(q)) /\ Items(Tail(q)) = Items(q) \ {Head(q)}
<1>1. Items(q) = Items(Tail(q)) \cup {Head(q)}
  <2>1. ASSUME NEW i \in 1..Len(q)  PROVE q[i] \in Items(Tail(q)) \cup {Head(q)}
    BY TailOf DEF Items
  <2>2. ASSUME NEW i \in 1..Len(Tail(q))  PROVE Tail(q)[i] \in Items(q)
    BY TailOf DEF Items
  <2>3. Head(q) \in Items(q)  BY TailOf DEF Items
  <2> QED  BY <2>1, <2>2, <2>3 DEF Items
<1>2. Items(q) \subseteq S  BY DEF Items
<1>3. ASSUME Distinct(q)  PROVE Distinct(Tail(q)) /\ Head(q) \notin Items(Tail(q))
  <2>1. \A i, j \in 1..Len(q) : q[i] = q[j] => i = j  BY <1>3 DEF Distinct
  <2>2. ASSUME NEW i \in 1..Len(Tail(q)), NEW j \in 1..Len(Tail(q)), Tail(q)[i] = Tail(q)[j]
        PROVE  i = j
    <3>1. i + 1 = j + 1  BY <2>1, <2>2, TailOf
    <3> QED  BY <3>1, TailOf
  <2>3. ASSUME NEW i \in 1..Len(Tail(q))  PROVE Tail(q)[i] # Head(q)
    <3>1. i + 1 # 1  BY TailOf
    <3> QED  BY <2>1, <3>1, TailOf
  <2> QED  BY <2>2, <2>3 DEF Distinct, Items
<1> QED  BY <1>1, <1>2, <1>3, TailOf

\* What is appended is in the queue, once if it was not there.
LEMMA ItemsAppend ==
  ASSUME NEW S, NEW q \in Seq(S), NEW x \in S
  PROVE  /\ Append(q, x) \in Seq(S)
         /\ Items(Append(q, x)) = Items(q) \cup {x}
         /\ (Distinct(q) /\ x \notin Items(q)) => Distinct(Append(q, x))
<1>1. Items(Append(q, x)) = Items(q) \cup {x}
  BY AppendOf DEF Items
<1>2. (Distinct(q) /\ x \notin Items(q)) => Distinct(Append(q, x))
  BY AppendOf DEF Distinct, Items
<1> QED  BY <1>1, <1>2, AppendOf

\* The same for the streams that a queue of frames bears.
LEMMA BorneTail ==
  ASSUME NEW q \in Seq(Frame), q # <<>>, Once(q)
  PROVE  /\ Once(Tail(q))
         /\ Bearing(Head(q)) => /\ Head(q).stream \in Borne(q)
                                /\ Borne(Tail(q)) = Borne(q) \ {Head(q).stream}
         /\ ~Bearing(Head(q)) => Borne(Tail(q)) = Borne(q)
<1>1. /\ Head(q) = q[1] /\ 1 \in 1..Len(q)
      /\ \A i \in 1..Len(Tail(q)) : i + 1 \in 1..Len(q) /\ Tail(q)[i] = q[i + 1]
      /\ Items(q) = Items(Tail(q)) \cup {Head(q)}
      /\ Len(Tail(q)) \in Nat
  BY TailOf, ItemsTail
<1>2. \A i, j \in 1..Len(q) :
        (Bearing(q[i]) /\ Bearing(q[j]) /\ q[i].stream = q[j].stream) => i = j
  BY DEF Once
<1>3. Once(Tail(q))
  <2>1. SUFFICES ASSUME NEW i \in 1..Len(Tail(q)), NEW j \in 1..Len(Tail(q)),
                        Bearing(Tail(q)[i]), Bearing(Tail(q)[j]),
                        Tail(q)[i].stream = Tail(q)[j].stream
                 PROVE  i = j
    BY DEF Once
  <2>2. i + 1 = j + 1  BY <1>1, <1>2, <2>1
  <2> QED  BY <2>2, <1>1
<1>4. ASSUME Bearing(Head(q)), NEW m \in Items(Tail(q)), Bearing(m)
      PROVE  m.stream # Head(q).stream
  <2>1. PICK i \in 1..Len(Tail(q)) : m = Tail(q)[i]  BY DEF Items
  <2>2. m = q[i + 1] /\ i + 1 \in 1..Len(q) /\ i + 1 # 1  BY <1>1, <2>1
  <2> QED  BY <1>1, <1>2, <1>4, <2>2
<1> HIDE DEF Bearing
<1>5. Bearing(Head(q)) => Borne(q) = Borne(Tail(q)) \cup {Head(q).stream}
  BY <1>1 DEF Borne
<1>6. ~Bearing(Head(q)) => Borne(q) = Borne(Tail(q))
  BY <1>1 DEF Borne
<1>7. Bearing(Head(q)) => Head(q).stream \notin Borne(Tail(q))
  BY <1>4 DEF Borne
<1> QED  BY <1>3, <1>5, <1>6, <1>7

\* What a queue of frames bears when a frame is appended.
LEMMA BorneAppend ==
  ASSUME NEW q \in Seq(Frame), NEW m \in Frame, Once(q), Bearing(m) => m.stream \notin Borne(q)
  PROVE  /\ Once(Append(q, m))
         /\ Bearing(m) => Borne(Append(q, m)) = Borne(q) \cup {m.stream}
         /\ ~Bearing(m) => Borne(Append(q, m)) = Borne(q)
<1>1. Items(Append(q, m)) = Items(q) \cup {m}  BY ItemsAppend
<1>2. ASSUME Bearing(m), NEW i \in 1..Len(q), Bearing(q[i])  PROVE q[i].stream # m.stream
  BY <1>2 DEF Borne, Items
<1>3. Once(Append(q, m))
  BY <1>2, AppendOf DEF Once
<1>4. /\ Bearing(m) => Borne(Append(q, m)) = Borne(q) \cup {m.stream}
      /\ ~Bearing(m) => Borne(Append(q, m)) = Borne(q)
  BY <1>1 DEF Borne
<1> QED  BY <1>3, <1>4

\* Events that follow their acknowledgements, in a queue that is used.
LEMMA FollowTail ==
  ASSUME NEW q \in Seq(Frame), q # <<>>, NEW S, EventsFollow(q, S)
  PROVE  /\ Head(q).type = "event" => Head(q).stream \in S
         /\ Head(q).type = "ack" =>
              /\ EventsFollow(Tail(q), S \cup {Head(q).stream})
              /\ Acks(q) = Acks(Tail(q)) \cup {Head(q).stream}
         /\ Head(q).type # "ack" => EventsFollow(Tail(q), S) /\ Acks(q) = Acks(Tail(q))
<1>1. /\ Head(q) = q[1] /\ 1 \in 1..Len(q) /\ Len(q) \in Nat
      /\ Len(Tail(q)) \in Nat
      /\ \A i \in 1..Len(Tail(q)) : i + 1 \in 1..Len(q) /\ Tail(q)[i] = q[i + 1]
      /\ \A i \in 1..Len(q) : i # 1 => i - 1 \in 1..Len(Tail(q)) /\ q[i] = Tail(q)[i - 1]
      /\ Items(q) = Items(Tail(q)) \cup {Head(q)}
  BY TailOf, ItemsTail
<1>2. Head(q).type = "event" => Head(q).stream \in S
  BY <1>1 DEF EventsFollow
<1>3. ASSUME NEW j \in 1..Len(Tail(q)), Tail(q)[j].type = "event"
      PROVE  \/ Tail(q)[j].stream \in S
             \/ Head(q).type = "ack" /\ Tail(q)[j].stream = Head(q).stream
             \/ \E i \in 1..Len(Tail(q)) :
                  i < j /\ Tail(q)[i].type = "ack" /\ Tail(q)[i].stream = Tail(q)[j].stream
  <2>1. j + 1 \in 1..Len(q) /\ Tail(q)[j] = q[j + 1]  BY <1>1
  <2>2. SUFFICES ASSUME Tail(q)[j].stream \notin S
                 PROVE  \/ Head(q).type = "ack" /\ Tail(q)[j].stream = Head(q).stream
                        \/ \E i \in 1..Len(Tail(q)) :
                             /\ i < j /\ Tail(q)[i].type = "ack"
                             /\ Tail(q)[i].stream = Tail(q)[j].stream
    OBVIOUS
  <2>3. PICK i \in 1..Len(q) : i < j + 1 /\ q[i].type = "ack" /\ q[i].stream = Tail(q)[j].stream
    BY <1>3, <2>1, <2>2 DEF EventsFollow
  <2>4. CASE i = 1  BY <1>1, <2>3, <2>4
  <2>5. CASE i # 1
    <3>1. i - 1 \in 1..Len(Tail(q)) /\ q[i] = Tail(q)[i - 1] /\ i - 1 < j  BY <1>1, <2>3, <2>5
    <3> QED  BY <2>3, <3>1
  <2> QED  BY <2>4, <2>5
<1>4. Head(q).type = "ack" => Acks(q) = Acks(Tail(q)) \cup {Head(q).stream}
  BY <1>1 DEF Acks
<1>5. Head(q).type # "ack" => Acks(q) = Acks(Tail(q))
  BY <1>1 DEF Acks
<1> QED  BY <1>2, <1>3, <1>4, <1>5 DEF EventsFollow

\* An event is appended behind its acknowledgement.
LEMMA FollowAppend ==
  ASSUME NEW q \in Seq(Frame), NEW m \in Frame, NEW S, EventsFollow(q, S),
         m.type = "event" => m.stream \in S \cup Acks(q)
  PROVE  /\ EventsFollow(Append(q, m), S)
         /\ m.type = "ack" => Acks(Append(q, m)) = Acks(q) \cup {m.stream}
         /\ m.type # "ack" => Acks(Append(q, m)) = Acks(q)
<1>1. /\ Len(q) \in Nat
      /\ \A i \in 1..Len(q) : i \in 1..Len(Append(q, m)) /\ Append(q, m)[i] = q[i]
      /\ Append(q, m)[Len(q) + 1] = m
      /\ \A i \in 1..Len(Append(q, m)) : i \in 1..Len(q) \/ i = Len(q) + 1
      /\ Items(Append(q, m)) = Items(q) \cup {m}
  BY AppendOf, ItemsAppend
<1>2. ASSUME NEW j \in 1..Len(q), Append(q, m)[j].type = "event"
      PROVE  \/ Append(q, m)[j].stream \in S
             \/ \E i \in 1..Len(Append(q, m)) :
                  /\ i < j /\ Append(q, m)[i].type = "ack"
                  /\ Append(q, m)[i].stream = Append(q, m)[j].stream
  BY <1>1, <1>2 DEF EventsFollow
<1>3. ASSUME m.type = "event"
      PROVE  \/ m.stream \in S
             \/ \E i \in 1..Len(Append(q, m)) :
                  /\ i < Len(q) + 1 /\ Append(q, m)[i].type = "ack"
                  /\ Append(q, m)[i].stream = m.stream
  <2>1. SUFFICES ASSUME m.stream \in Acks(q)
                 PROVE  \E i \in 1..Len(Append(q, m)) :
                          /\ i < Len(q) + 1 /\ Append(q, m)[i].type = "ack"
                          /\ Append(q, m)[i].stream = m.stream
    BY <1>3
  <2>2. PICK x \in Items(q) : x.type = "ack" /\ x.stream = m.stream  BY <2>1 DEF Acks
  <2>3. PICK i \in 1..Len(q) : q[i] = x  BY DEF Items
  <2> QED  BY <1>1, <2>2, <2>3
<1>4. EventsFollow(Append(q, m), S)
  BY <1>1, <1>2, <1>3 DEF EventsFollow
<1>5. m.type = "ack" => Acks(Append(q, m)) = Acks(q) \cup {m.stream}
  BY <1>1 DEF Acks
<1>6. m.type # "ack" => Acks(Append(q, m)) = Acks(q)
  BY <1>1 DEF Acks
<1> QED  BY <1>4, <1>5, <1>6

\* More acknowledgements ahead of a queue do no harm.
LEMMA FollowMore ==
  ASSUME NEW q, NEW S, NEW T, S \subseteq T, EventsFollow(q, S)
  PROVE  EventsFollow(q, T)
BY DEF EventsFollow

\* The messages of the model are frames.
LEMMA Frames ==
  /\ \A s \in Streams :
       /\ \A t \in {"request", "server_hello", "protocol_error", "ack", "answer",
                     "manifest", "event"} : Message(t, s) \in Frame
       /\ \A t : Message(t, s).type = t /\ Message(t, s).stream = s
  /\ Message("closed", Null) \in Frame /\ Message("closed", Null).type = "closed"
  /\ \A m \in Frame : m.type # "closed" => m.stream \in Streams /\ m = Message(m.type, m.stream)
BY DEF Frame, Message

\* What a client may send.
LEMMA RequestOf ==
  ASSUME NEW s \in Streams, NEW r \in Requests[s]
  PROVE  r.correlation \in Correlations
<1>1. Requests[s] \subseteq Request  BY RelayConstants DEF Streams
<1> QED  BY <1>1 DEF Request

\* The end of the dispatcher.
LEMMA EndTyped ==
  ASSUME RelayType, End
  PROVE  /\ task' \in [Streams -> Tasks] /\ gateway' = At("ended", Null)
         /\ \A s \in Streams : task[s] \in {"finished", "joined"} => task'[s] = task[s]
         /\ \A s \in Streams : task'[s] \in {"finished", "joined"} => task'[s] = task[s]
BY DEF RelayType, End, Tasks
----------------------------------------------------------------------------
\* Every step preserves each part of the invariant.

\* The queues and the tasks keep their types.
LEMMA TypeKept ==
  ASSUME RelayInv, [Next]_vars
  PROVE  RelayType'
<1> USE DEF gateway_vars, pipes, session_vars, store_vars, At
<1>1. RelayType  BY DEF RelayInv
<1>2. ASSUME NEW s \in Streams, AcceptBi(s)  PROVE RelayType'
  <2>1. CASE End /\ UNCHANGED <<kind, correlation>>
    BY <1>1, <1>2, <2>1, EndTyped DEF AcceptBi, RelayType
  <2>2. CASE /\ task' = [task EXCEPT ![s] = "reading"] /\ UNCHANGED gateway
             /\ \E r \in Requests[s] : correlation' = [correlation EXCEPT ![s] = r.correlation]
    BY <1>1, <1>2, <2>2, RequestOf DEF AcceptBi, RelayType, Tasks
  <2> QED  BY <1>2, <2>1, <2>2 DEF AcceptBi
<1>3. ASSUME NEW s \in Streams, ReadRequest(s)  PROVE RelayType'
  <2>1. Append(requests, s) \in Seq(Streams)  BY <1>1, AppendOf DEF RelayType
  <2> QED  BY <1>1, <1>3, <2>1 DEF ReadRequest, RelayType, Tasks
<1>4. ASSUME NEW s \in Streams, WriteResponse(s)  PROVE RelayType'
  BY <1>1, <1>4, EndTyped
  DEF WriteResponse, RelayType, Tasks
<1>5. ASSUME NEW s \in Streams, JoinNext(s)  PROVE RelayType'
  <2>1. CASE End  BY <1>1, <1>5, <2>1, EndTyped DEF JoinNext, RelayType
  <2>2. CASE task' = [task EXCEPT ![s] = "joined"] /\ UNCHANGED gateway
    BY <1>1, <1>5, <2>2 DEF JoinNext, RelayType, Tasks
  <2> QED  BY <1>5, <2>1, <2>2 DEF JoinNext
<1>6. ASSUME NEW s \in Streams, StoreEvent(s)  PROVE RelayType'
  <2>1. Append(relay, Message("event", s)) \in Seq(Frame)
    BY <1>1, Frames, AppendOf DEF RelayType
  <2> QED  BY <1>1, <1>6, <2>1 DEF StoreEvent, RelayType
<1>7. ASSUME RecvRequest  PROVE RelayType'
  <2>1. PICK s \in Streams : s = Head(requests)  BY <1>1, <1>7, TailOf DEF RecvRequest, RelayType
  <2>2. Tail(requests) \in Seq(Streams)  BY <1>1, <1>7, TailOf DEF RecvRequest, RelayType
  <2>3. /\ requests' = Tail(requests)
        /\ UNCHANGED <<correlation, outputs, pipes, session_vars, store_vars, emitted>>
        /\ \/ End /\ UNCHANGED <<pending, response>>
           \/ /\ response' = [response EXCEPT ![s] = Message("manifest", s)]
              /\ task' = [task EXCEPT ![s] = "routed"]
              /\ UNCHANGED <<pending, gateway>>
           \/ /\ pending' = [pending EXCEPT ![correlation[s]] = s]
              /\ gateway' = At("writing", s)
              /\ task' = [task EXCEPT ![s] = "pending"]
              /\ UNCHANGED response
    BY <1>7, <2>1 DEF RecvRequest
  <2>4. Message("manifest", s) \in Frame  BY Frames
  <2>5. CASE End /\ UNCHANGED <<pending, response>>
    BY <1>1, <2>2, <2>3, <2>5, EndTyped DEF RelayType
  <2>6. CASE /\ response' = [response EXCEPT ![s] = Message("manifest", s)]
             /\ task' = [task EXCEPT ![s] = "routed"]
             /\ UNCHANGED <<pending, gateway>>
    BY <1>1, <2>2, <2>3, <2>4, <2>6 DEF RelayType, Tasks
  <2>7. CASE /\ pending' = [pending EXCEPT ![correlation[s]] = s]
             /\ gateway' = At("writing", s)
             /\ task' = [task EXCEPT ![s] = "pending"]
             /\ UNCHANGED response
    BY <1>1, <2>2, <2>3, <2>7 DEF RelayType, Tasks
  <2> QED  BY <2>3, <2>5, <2>6, <2>7
<1>8. ASSUME WriteRequest  PROVE RelayType'
  <2>1. gateway.on \in Streams /\ Append(input_pipe, gateway.on) \in Seq(Streams)
    BY <1>1, <1>8, AppendOf DEF WriteRequest, RelayType
  <2>2. CASE End /\ UNCHANGED input_pipe
    BY <1>1, <1>8, <2>2, EndTyped DEF WriteRequest, RelayType
  <2>3. CASE /\ input_pipe' = Append(input_pipe, gateway.on)
             /\ gateway' = At("select", Null) /\ UNCHANGED task
    BY <1>1, <1>8, <2>1, <2>3 DEF WriteRequest, RelayType
  <2> QED  BY <1>8, <2>2, <2>3 DEF WriteRequest
<1>9. ASSUME RecvOutput  PROVE RelayType'
  <2>1. PICK m \in Frame : m = Head(outputs)  BY <1>1, <1>9, TailOf DEF RecvOutput, RelayType
  <2>2. Tail(outputs) \in Seq(Frame)  BY <1>1, <1>9, TailOf DEF RecvOutput, RelayType
  <2>3. /\ outputs' = Tail(outputs)
        /\ UNCHANGED <<correlation, requests, pipes, session_vars, store_vars, emitted>>
        /\ \/ /\ m.type = "event" /\ gateway' = At("event", m.stream)
              /\ UNCHANGED <<task, pending, response>>
           \/ End /\ UNCHANGED <<pending, response>>
           \/ /\ m.type \notin {"event", "closed"} /\ pending[correlation[m.stream]] # Null
              /\ route(m)
    BY <1>9, <2>1 DEF RecvOutput
  <2>4. m.type # "closed" => m.stream \in Streams  BY Frames
  <2>5. m.type \notin {"event", "closed"} => correlation[m.stream] \in Correlations
    BY <1>9, <2>1, ItemsTail
    DEF RelayInv, RelayType, RecvOutput, Selecting, TransitInv, Borne, Bearing
  <2>6. CASE m.type = "event" /\ gateway' = At("event", m.stream)
             /\ UNCHANGED <<task, pending, response>>
    BY <1>1, <2>2, <2>3, <2>4, <2>6 DEF RelayType
  <2>7. CASE End /\ UNCHANGED <<pending, response>>
    BY <1>1, <2>2, <2>3, <2>7, EndTyped DEF RelayType
  <2>8. CASE route(m) /\ pending[correlation[m.stream]] # Null /\ m.type \notin {"event", "closed"}
    <3>1. pending[correlation[m.stream]] \in Streams  BY <1>1, <2>5, <2>8 DEF RelayType
    <3> QED  BY <1>1, <2>2, <2>3, <2>8, <3>1 DEF RelayType, route, Tasks
  <2> QED  BY <2>3, <2>6, <2>7, <2>8
<1>10. ASSUME WriteEvent  PROVE RelayType'
  BY <1>1, <1>10, EndTyped
  DEF WriteEvent, End, RelayType, Tasks
<1>11. ASSUME Delivered  PROVE RelayType'
  BY <1>1, <1>11, EndTyped
  DEF Delivered, End, RelayType, Tasks
<1>12. ASSUME Closed  PROVE RelayType'
  BY <1>1, <1>12, EndTyped
  DEF Closed, End, RelayType, Tasks
<1>13. ASSUME shutdown_session  PROVE RelayType'
  BY <1>1, <1>13, EndTyped
  DEF shutdown_session, RelayType, Tasks
<1>14. ASSUME ReadOutput  PROVE RelayType'
  <2>1. output_pipe # <<>> =>
          Tail(output_pipe) \in Seq(Frame) /\ Append(outputs, Head(output_pipe)) \in Seq(Frame)
    BY <1>1, TailOf, AppendOf DEF RelayType
  <2>2. Append(outputs, Message("closed", Null)) \in Seq(Frame)
    BY <1>1, Frames, AppendOf DEF RelayType
  <2>3. \/ /\ output_pipe # <<>> /\ outputs' = Append(outputs, Head(output_pipe))
           /\ output_pipe' = Tail(output_pipe) /\ UNCHANGED session
        \/ /\ outputs' = Append(outputs, Message("closed", Null))
           /\ session' = At("eof", Null) /\ UNCHANGED output_pipe
    BY <1>14 DEF ReadOutput
  <2>4. UNCHANGED <<task, correlation, requests, pending, response, gateway, input_pipe, relay,
                    store_vars, emitted>>
    BY <1>14 DEF ReadOutput
  <2>5. CASE UNCHANGED session
    BY <1>1, <2>1, <2>2, <2>3, <2>4, <2>5 DEF RelayType
  <2>6. CASE session' = At("eof", Null)
    <3>1. session'.at = "eof" /\ session' \in [at : {"eof"}, on : {Null}]  BY <2>6
    <3> QED  BY <1>1, <2>1, <2>2, <2>3, <2>4, <3>1 DEF RelayType
  <2> QED  BY <2>3, <2>5, <2>6
<1>15. ASSUME ReadInput  PROVE RelayType'
  <2>1. Head(input_pipe) \in Streams /\ Tail(input_pipe) \in Seq(Streams)
    BY <1>1, <1>15, TailOf DEF ReadInput, RelayType
  <2>2. Append(relay, Message("request", Head(input_pipe))) \in Seq(Frame)
    BY <1>1, <2>1, Frames, AppendOf DEF RelayType
  <2> QED  BY <1>1, <1>15, <2>1, <2>2 DEF ReadInput, RelayType
<1>16. ASSUME SessionRecv  PROVE RelayType'
  <2>1. PICK m \in Frame : m = Head(relay)  BY <1>1, <1>16, TailOf DEF SessionRecv, RelayType
  <2>2. Tail(relay) \in Seq(Frame)  BY <1>1, <1>16, TailOf DEF SessionRecv, RelayType
  <2>3. m.type = "request" => Message(negotiate(m.stream), m.stream) \in Frame
    BY Frames DEF negotiate
  <2>4. /\ relay' = Tail(relay)
        /\ \/ m.type = "request" /\ session' = At("output", Message(negotiate(m.stream), m.stream))
           \/ m.type = "request" /\ session' = At("store", m)
           \/ session' \in {At("gone", Null), At("output", m)}
        /\ UNCHANGED <<gateway_vars, pipes, store_vars, emitted>>
    BY <1>16, <2>1 DEF SessionRecv
  <2> QED  BY <1>1, <2>1, <2>2, <2>3, <2>4 DEF RelayType
<1>17. ASSUME SessionOutput  PROVE RelayType'
  <2>1. Append(output_pipe, session.on) \in Seq(Frame)
    BY <1>1, <1>17, AppendOf DEF SessionOutput, RelayType
  <2>2. PICK end \in {"recv", "gone"} : session' = At(end, Null)
    BY <1>17 DEF SessionOutput
  <2>3. session'.at = end /\ session' \in [at : {"recv", "gone"}, on : {Null}]  BY <2>2
  <2>4. output_pipe' \in Seq(Frame)
    BY <1>1, <1>17, <2>1 DEF SessionOutput, RelayType
  <2> QED  BY <1>1, <1>17, <2>3, <2>4 DEF SessionOutput, RelayType
<1>18. ASSUME SessionForward  PROVE RelayType'
  <2>1. store = "open" => Append(inbox, session.on.stream) \in Seq(Streams)
    BY <1>1, <1>18, Frames, AppendOf DEF SessionForward, RelayType
  <2>2. PICK end \in {"recv", "gone"} : session' = At(end, Null)
    BY <1>18 DEF SessionForward
  <2>3. session'.at = end /\ session' \in [at : {"recv", "gone"}, on : {Null}]  BY <2>2
  <2> QED  BY <1>1, <1>18, <2>1, <2>3 DEF SessionForward, RelayType
<1>19. ASSUME StoreAnswer  PROVE RelayType'
  <2>1. PICK s \in Streams : s = Head(inbox)  BY <1>1, <1>19, TailOf DEF StoreAnswer, RelayType
  <2>2. Tail(inbox) \in Seq(Streams)  BY <1>1, <1>19, TailOf DEF StoreAnswer, RelayType
  <2>3. \A t \in {"ack", "answer"} : Append(relay, Message(t, s)) \in Seq(Frame)
    BY <1>1, Frames, AppendOf DEF RelayType
  <2> QED  BY <1>1, <1>19, <2>1, <2>2, <2>3 DEF StoreAnswer, RelayType
<1>20. ASSUME StoreLost  PROVE RelayType'
  BY <1>1, <1>20, EndTyped
  DEF StoreLost, RelayType, Tasks
<1>21. ASSUME EmissionStalled  PROVE RelayType'
  BY <1>1, <1>21, EndTyped
  DEF EmissionStalled, RelayType, Tasks
<1>22. ASSUME StoreClosed  PROVE RelayType'
  <2>1. Append(relay, Message("closed", Null)) \in Seq(Frame)
    BY <1>1, Frames, AppendOf DEF RelayType
  <2> QED  BY <1>1, <1>22, <2>1 DEF StoreClosed, RelayType
<1>23. ASSUME ClientCloses  PROVE RelayType'
  BY <1>1, <1>23, EndTyped
  DEF ClientCloses, RelayType, Tasks
<1>24. CASE UNCHANGED vars
  BY <1>1, <1>24 DEF vars, RelayType, Tasks
<1> QED
  BY <1>2, <1>3, <1>4, <1>5, <1>6, <1>7, <1>8, <1>9, <1>10, <1>11, <1>12, <1>13, <1>14,
       <1>15, <1>16, <1>17, <1>18, <1>19, <1>20, <1>21, <1>22, <1>23, <1>24
  DEF Next, Dispatcher, Session

\* A dispatcher that ended stays so, and one that did not has not executed End.
LEMMA StillRuns ==
  ASSUME RelayInv, [Next]_vars, gateway'.at # "ended"
  PROVE  gateway.at # "ended" /\ TaskInv /\ TransitInv /\ OrderInv /\ ~End
<1> USE DEF gateway_vars, pipes, session_vars, store_vars, At
<1>1. ~End  BY DEF End
<1>2. gateway.at # "ended"
  BY <1>1 DEF Next, Dispatcher, Session, AcceptBi, ReadRequest, WriteResponse, JoinNext,
     StoreEvent, RecvRequest, WriteRequest, RecvOutput, WriteEvent, Delivered, Closed,
     shutdown_session, ReadOutput, ReadInput, SessionRecv, SessionOutput, SessionForward,
     StoreAnswer, StoreLost, EmissionStalled, StoreClosed, ClientCloses, vars, Selecting
<1> QED  BY <1>1, <1>2 DEF RelayInv

\* A request waits in one place under its own identifier.
LEMMA TaskKept ==
  ASSUME RelayInv, [Next]_vars, gateway'.at # "ended"
  PROVE  TaskInv'
<1> USE DEF gateway_vars, pipes, session_vars, store_vars, At
<1>1. /\ RelayType /\ TaskInv /\ TransitInv /\ OrderInv /\ ~End
      /\ gateway.at # "ended" /\ gateway'.at # "ended"
  BY StillRuns DEF RelayInv
<1>2. Items(requests) \subseteq Streams  BY <1>1, ItemsTyped DEF RelayType
<1>3. ASSUME NEW s \in Streams, AcceptBi(s)  PROVE TaskInv'
  <2>0. s >= s
    <3>1. s \in Nat  BY RelayConstants DEF Streams
    <3> QED  BY <3>1
  <2>1. /\ task[s] = "none" /\ task' = [task EXCEPT ![s] = "reading"]
        /\ UNCHANGED <<requests, pending>>
    BY <1>1, <1>3, <2>0 DEF AcceptBi
  <2>2. PICK r \in Requests[s] : correlation' = [correlation EXCEPT ![s] = r.correlation]
    BY <1>1, <1>3 DEF AcceptBi
  <2>3. /\ task'[s] = "reading" /\ correlation'[s] \in Correlations
        /\ \A x \in Streams \ {s} : task'[x] = task[x] /\ correlation'[x] = correlation[x]
    BY <1>1, <2>1, <2>2, RequestOf DEF RelayType
  <2>4. \A x \in Items(requests) : x \in Streams \ {s}
    BY <1>1, <1>2, <2>1 DEF TaskInv
  <2>5. \A c \in Correlations : pending[c] # Null => pending[c] \in Streams \ {s}
    BY <1>1, <2>1 DEF RelayType, TaskInv
  <2> QED  BY <1>1, <2>1, <2>3, <2>4, <2>5 DEF TaskInv
<1>4. ASSUME NEW s \in Streams, ReadRequest(s)  PROVE TaskInv'
  <2>1. /\ task[s] = "reading" /\ UNCHANGED <<correlation, pending>>
        /\ \/ task' = [task EXCEPT ![s] = "queued"] /\ requests' = Append(requests, s)
           \/ /\ UNCHANGED requests
              /\ \E end \in {"finished", "failed"} : task' = [task EXCEPT ![s] = end]
    BY <1>4 DEF ReadRequest
  <2>2. /\ \A x \in Streams \ {s} : task'[x] = task[x]
        /\ requests' = Append(requests, s) => task'[s] = "queued"
        /\ requests' = Append(requests, s) \/ requests' = requests
    <3>1. requests' = requests => requests' # Append(requests, s)
      <4>1. Len(Append(requests, s)) = Len(requests) + 1 /\ Len(requests) \in Nat
        BY <1>1, AppendOf DEF RelayType
      <4> QED  BY <4>1
    <3> QED  BY <1>1, <2>1, <3>1 DEF RelayType
  <2>3. s \notin Items(requests) /\ Items(requests) \subseteq Streams
    BY <1>1, <1>2, <2>1 DEF TaskInv
  <2>4. Items(requests') \subseteq Items(requests) \cup {s} /\ Distinct(requests')
        /\ (s \in Items(requests') => requests' = Append(requests, s))
    <3>1. /\ Items(Append(requests, s)) = Items(requests) \cup {s}
          /\ Distinct(Append(requests, s)) /\ Distinct(requests)
      BY <1>1, <2>3, ItemsAppend DEF RelayType, TaskInv
    <3> QED  BY <2>2, <2>3, <3>1
  <2>5. \A x \in Items(requests') : task'[x] = "queued"
    BY <1>1, <2>2, <2>3, <2>4 DEF TaskInv
  <2>6. \A c \in Correlations : pending[c] # Null => pending[c] \in Streams \ {s}
    BY <1>1, <2>1 DEF RelayType, TaskInv
  <2> QED  BY <1>1, <2>1, <2>2, <2>4, <2>5, <2>6 DEF TaskInv
<1>5. ASSUME NEW s \in Streams, WriteResponse(s)  PROVE TaskInv'
  BY <1>1, <1>2, <1>5, RelayConstants
  DEF WriteResponse, RelayType, Tasks, TaskInv
<1>6. ASSUME NEW s \in Streams, JoinNext(s)  PROVE TaskInv'
  <2>1. /\ task[s] = "finished" /\ task' = [task EXCEPT ![s] = "joined"]
        /\ UNCHANGED <<requests, pending, correlation>>
    BY <1>1, <1>6 DEF JoinNext
  <2>2. \A x \in Streams : (task'[x] = task[x] \/ x = s) /\ (task'[x] # "none" => task[x] # "none")
    BY <1>1, <2>1 DEF RelayType
  <2>3. \A x \in Items(requests) : x \in Streams \ {s}
    BY <1>1, <1>2, <2>1 DEF TaskInv
  <2>4. \A c \in Correlations : pending[c] # Null => pending[c] \in Streams \ {s}
    BY <1>1, <2>1 DEF RelayType, TaskInv
  <2> QED  BY <1>1, <2>1, <2>2, <2>3, <2>4 DEF TaskInv
<1>7. ASSUME NEW s \in Streams, StoreEvent(s)  PROVE TaskInv'
  BY <1>1, <1>2, <1>7, RelayConstants
  DEF StoreEvent, RelayType, Tasks, TaskInv
<1>8. ASSUME RecvRequest  PROVE TaskInv'
  <2>1. PICK s \in Streams : s = Head(requests)  BY <1>1, <1>8, TailOf DEF RecvRequest, RelayType
  <2>2. /\ s \in Items(requests) /\ Items(requests') = Items(requests) \ {s}
        /\ Distinct(requests') /\ Items(requests) \subseteq Streams
    BY <1>1, <1>8, <2>1, ItemsTail DEF RecvRequest, RelayType, TaskInv
  <2>3. task[s] = "queued" /\ correlation[s] \in Correlations
    BY <1>1, <2>2 DEF TaskInv
  <2>4. /\ UNCHANGED correlation
        /\ \/ task' = [task EXCEPT ![s] = "routed"] /\ UNCHANGED pending
           \/ /\ task' = [task EXCEPT ![s] = "pending"]
              /\ pending' = [pending EXCEPT ![correlation[s]] = s]
    BY <1>1, <1>8, <2>1 DEF RecvRequest
  <2>5. \A x \in Streams : task'[x] = task[x] \/ x = s
    BY <1>1, <2>4 DEF RelayType
  <2>6. \A c \in Correlations : pending[c] # Null => pending[c] \in Streams \ {s}
    BY <1>1, <2>3 DEF RelayType, TaskInv
  <2>7. \A c \in Correlations : pending'[c] # Null =>
          \/ pending'[c] = pending[c]
          \/ pending'[c] = s /\ c = correlation[s] /\ task'[s] = "pending"
    BY <1>1, <2>3, <2>4 DEF RelayType
  <2>8. \A x \in Items(requests') : task'[x] = "queued"
    BY <1>1, <2>2, <2>5 DEF TaskInv
  <2>9. \A x \in Streams : task'[x] # "none" => correlation'[x] \in Correlations
    BY <1>1, <2>3, <2>4, <2>5 DEF TaskInv
  <2>10. \A c \in Correlations : pending'[c] # Null =>
           correlation'[pending'[c]] = c /\ task'[pending'[c]] = "pending"
    BY <1>1, <2>4, <2>5, <2>6, <2>7 DEF TaskInv
  <2> QED  BY <2>2, <2>8, <2>9, <2>10 DEF TaskInv
<1>9. ASSUME WriteRequest  PROVE TaskInv'
  BY <1>1, <1>2, <1>9, RelayConstants
  DEF WriteRequest, RelayType, Tasks, TaskInv
<1>10. ASSUME RecvOutput  PROVE TaskInv'
  <2>1. PICK m \in Frame : m = Head(outputs) /\ m \in Items(outputs)
    BY <1>1, <1>10, ItemsTail DEF RecvOutput, RelayType
  <2>2. CASE UNCHANGED <<task, pending>>
    BY <1>1, <1>10, <2>2 DEF RecvOutput, TaskInv
  <2>3. CASE m.type \notin {"event", "closed"} /\ route(m)
    <3>1. PICK s \in Streams : /\ s = m.stream /\ correlation[s] \in Correlations
                               /\ pending[correlation[s]] = s
      BY <1>1, <2>1, <2>3 DEF TransitInv, Borne, Bearing
    <3>2. /\ pending' = [pending EXCEPT ![correlation[s]] = Null]
          /\ task' = [task EXCEPT ![s] = "routed"] /\ UNCHANGED <<correlation, requests>>
      BY <1>10, <2>3, <3>1 DEF RecvOutput, route
    <3>3. task[s] = "pending"  BY <1>1, <3>1, RelayConstants DEF TaskInv
    <3>4. \A x \in Streams : task'[x] = task[x] \/ x = s
      BY <1>1, <3>2 DEF RelayType
    <3>5. \A c \in Correlations : pending'[c] # Null =>
            pending'[c] = pending[c] /\ pending[c] # s /\ pending[c] \in Streams
      BY <1>1, <3>1, <3>2 DEF RelayType, TaskInv
    <3>6. \A x \in Items(requests) : x \in Streams \ {s}
      BY <1>1, <1>2, <3>3 DEF TaskInv
    <3> QED  BY <1>1, <3>1, <3>2, <3>4, <3>5, <3>6 DEF TaskInv
  <2> QED  BY <1>1, <1>10, <2>1, <2>2, <2>3 DEF RecvOutput
<1>11. ASSUME WriteEvent  PROVE TaskInv'
  BY <1>1, <1>2, <1>11, RelayConstants
  DEF WriteEvent, RelayType, Tasks, TaskInv
<1>12. ASSUME Delivered  PROVE TaskInv'
  BY <1>1, <1>2, <1>12, RelayConstants
  DEF Delivered, RelayType, Tasks, TaskInv
<1>13. ASSUME Closed  PROVE TaskInv'
  BY <1>1, <1>2, <1>13, RelayConstants
  DEF Closed, RelayType, Tasks, TaskInv
<1>14. ASSUME shutdown_session  PROVE TaskInv'
  BY <1>1, <1>2, <1>14, RelayConstants
  DEF shutdown_session, RelayType, Tasks, TaskInv
<1>15. ASSUME ReadOutput  PROVE TaskInv'
  BY <1>1, <1>2, <1>15, RelayConstants
  DEF ReadOutput, RelayType, Tasks, TaskInv
<1>16. ASSUME ReadInput  PROVE TaskInv'
  BY <1>1, <1>2, <1>16, RelayConstants
  DEF ReadInput, RelayType, Tasks, TaskInv
<1>17. ASSUME SessionRecv  PROVE TaskInv'
  BY <1>1, <1>2, <1>17, RelayConstants
  DEF SessionRecv, negotiate, RelayType, Tasks, TaskInv
<1>18. ASSUME SessionOutput  PROVE TaskInv'
  BY <1>1, <1>2, <1>18, RelayConstants
  DEF SessionOutput, RelayType, Tasks, TaskInv
<1>19. ASSUME SessionForward  PROVE TaskInv'
  BY <1>1, <1>2, <1>19, RelayConstants
  DEF SessionForward, RelayType, Tasks, TaskInv
<1>20. ASSUME StoreAnswer  PROVE TaskInv'
  BY <1>1, <1>2, <1>20, RelayConstants
  DEF StoreAnswer, RelayType, Tasks, TaskInv
<1>21. ASSUME StoreLost  PROVE TaskInv'
  BY <1>1, <1>2, <1>21, RelayConstants
  DEF StoreLost, RelayType, Tasks, TaskInv
<1>22. ASSUME EmissionStalled  PROVE TaskInv'
  BY <1>1, <1>2, <1>22, RelayConstants
  DEF EmissionStalled, RelayType, Tasks, TaskInv
<1>23. ASSUME StoreClosed  PROVE TaskInv'
  BY <1>1, <1>2, <1>23, RelayConstants
  DEF StoreClosed, RelayType, Tasks, TaskInv
<1>24. ASSUME ClientCloses  PROVE TaskInv'
  BY <1>1, <1>2, <1>24, RelayConstants
  DEF ClientCloses, RelayType, Tasks, TaskInv
<1>25. CASE UNCHANGED vars
  BY <1>1, <1>2, <1>25 DEF vars, RelayType, Tasks, TaskInv
<1> QED
  BY <1>3, <1>4, <1>5, <1>6, <1>7, <1>8, <1>9, <1>10, <1>11, <1>12, <1>13, <1>14,
       <1>15, <1>16, <1>17, <1>18, <1>19, <1>20, <1>21, <1>22, <1>23, <1>24, <1>25
  DEF Next, Dispatcher, Session

\* A task is given the answer to its own request, and an event is written after the
\* acknowledgement was.
LEMMA RoutedKept ==
  ASSUME RelayInv, [Next]_vars
  PROVE  (RoutedToRequester /\ AckBeforeEvents)'
<1> USE DEF gateway_vars, pipes, session_vars, store_vars, At
<1>1. /\ RelayType /\ RoutedToRequester /\ AckBeforeEvents
      /\ gateway.at # "ended" => TaskInv /\ TransitInv /\ OrderInv
  BY DEF RelayInv
<1>2. emitted \subseteq Streams  BY <1>1 DEF RelayType
<1>3. ASSUME NEW s \in Streams, AcceptBi(s)  PROVE (RoutedToRequester /\ AckBeforeEvents)'
  <2>1. response' = response /\ emitted' = emitted
    BY <1>3 DEF AcceptBi
  <2>2. task[s] = "none"
    <3>1. s \in Nat /\ s >= s  BY RelayConstants DEF Streams
    <3> QED  BY <1>3, <3>1 DEF AcceptBi
  <2>3. End \/ task' = [task EXCEPT ![s] = "reading"]
    BY <1>3 DEF AcceptBi
  <2>4. \A x \in emitted : task[x] \in {"finished", "joined"} => task'[x] \in {"finished", "joined"}
    BY <1>1, <1>2, <2>2, <2>3, EndTyped DEF RelayType
  <2> QED  BY <1>1, <1>2, <2>1, <2>4 DEF RoutedToRequester, AckBeforeEvents
<1>4. ASSUME NEW s \in Streams, ReadRequest(s)  PROVE (RoutedToRequester /\ AckBeforeEvents)'
  BY <1>1, <1>2, <1>4
  DEF ReadRequest, RelayType, RoutedToRequester, AckBeforeEvents
<1>5. ASSUME NEW s \in Streams, WriteResponse(s)  PROVE (RoutedToRequester /\ AckBeforeEvents)'
  BY <1>1, <1>2, <1>5
  DEF WriteResponse, RelayType, RoutedToRequester, AckBeforeEvents
<1>6. ASSUME NEW s \in Streams, JoinNext(s)  PROVE (RoutedToRequester /\ AckBeforeEvents)'
  <2>1. response' = response /\ emitted' = emitted
    BY <1>6 DEF JoinNext
  <2>2. \A x \in emitted : task[x] \in {"finished", "joined"} => task'[x] \in {"finished", "joined"}
    BY <1>1, <1>2, <1>6, EndTyped DEF JoinNext, RelayType
  <2> QED  BY <1>1, <1>2, <2>1, <2>2 DEF RoutedToRequester, AckBeforeEvents
<1>7. ASSUME NEW s \in Streams, StoreEvent(s)  PROVE (RoutedToRequester /\ AckBeforeEvents)'
  BY <1>1, <1>2, <1>7
  DEF StoreEvent, RelayType, RoutedToRequester, AckBeforeEvents
<1>8. ASSUME RecvRequest  PROVE (RoutedToRequester /\ AckBeforeEvents)'
  <2>1. PICK s \in Streams : s = Head(requests)  BY <1>1, <1>8, TailOf DEF RecvRequest, RelayType
  <2>2. task[s] = "queued"
    BY <1>1, <1>8, <2>1, ItemsTail DEF RecvRequest, Selecting, RelayType, TaskInv
  <2>3. s \notin emitted  BY <1>1, <2>2 DEF AckBeforeEvents
  <2>4. /\ \A x \in Streams :
             \/ response'[x] = response[x]
             \/ x = s /\ response'[x] = Message("manifest", s)
        /\ UNCHANGED emitted
    <3>1. /\ UNCHANGED emitted
          /\ \/ UNCHANGED response
             \/ response' = [response EXCEPT ![s] = Message("manifest", s)]
      BY <1>8, <2>1 DEF RecvRequest
    <3> QED  BY <1>1, <3>1 DEF RelayType
  <2>5. \A x \in emitted : task[x] \in {"finished", "joined"} => task'[x] \in {"finished", "joined"}
    <3>1. CASE End  BY <1>1, <1>2, <3>1, EndTyped
    <3>2. CASE ~End
      <4>1. PICK t \in {"routed", "pending"} : task' = [task EXCEPT ![s] = t]
        BY <1>8, <2>1, <3>2 DEF RecvRequest
      <4> QED  BY <1>1, <1>2, <2>3, <4>1 DEF RelayType
    <3> QED  BY <3>1, <3>2
  <2>6. Message("manifest", s).stream = s  BY Frames
  <2> QED  BY <1>1, <1>2, <2>3, <2>4, <2>5, <2>6 DEF RoutedToRequester, AckBeforeEvents
<1>9. ASSUME WriteRequest  PROVE (RoutedToRequester /\ AckBeforeEvents)'
  <2>1. response' = response /\ emitted' = emitted
    BY <1>9 DEF WriteRequest
  <2>2. \A x \in emitted : task[x] \in {"finished", "joined"} => task'[x] \in {"finished", "joined"}
    BY <1>1, <1>2, <1>9, EndTyped DEF WriteRequest, RelayType
  <2> QED  BY <1>1, <1>2, <2>1, <2>2 DEF RoutedToRequester, AckBeforeEvents
<1>10. ASSUME RecvOutput  PROVE (RoutedToRequester /\ AckBeforeEvents)'
  <2>1. PICK m \in Frame : m = Head(outputs) /\ m \in Items(outputs)
    BY <1>1, <1>10, ItemsTail DEF RecvOutput, RelayType
  <2>2. CASE End /\ UNCHANGED response
    BY <1>1, <1>2, <1>10, <2>2, EndTyped DEF RecvOutput, RoutedToRequester, AckBeforeEvents
  <2>3. CASE UNCHANGED <<task, response>>
    BY <1>1, <1>10, <2>3 DEF RecvOutput, RoutedToRequester, AckBeforeEvents
  <2>4. CASE m.type \notin {"event", "closed"} /\ route(m)
    <3>1. PICK s \in Streams : /\ s = m.stream /\ correlation[s] \in Correlations
                               /\ pending[correlation[s]] = s
      BY <1>1, <1>10, <2>1, <2>4 DEF RecvOutput, Selecting, TransitInv, Borne, Bearing
    <3>2. /\ response' = [response EXCEPT ![s] = m]
          /\ task' = [task EXCEPT ![s] = "routed"] /\ UNCHANGED emitted
      BY <1>10, <2>4, <3>1 DEF RecvOutput, route
    <3>3. task[s] = "pending"
      BY <1>1, <1>10, <3>1, RelayConstants DEF RecvOutput, Selecting, TaskInv
    <3>4. s \notin emitted  BY <1>1, <3>3 DEF AckBeforeEvents
    <3>5. /\ response'[s].stream = s
          /\ \A x \in Streams \ {s} : response'[x] = response[x] /\ task'[x] = task[x]
      BY <1>1, <3>1, <3>2 DEF RelayType
    <3> QED  BY <1>1, <1>2, <3>2, <3>4, <3>5 DEF RoutedToRequester, AckBeforeEvents
  <2> QED  BY <1>10, <2>1, <2>2, <2>3, <2>4 DEF RecvOutput
<1>11. ASSUME WriteEvent  PROVE (RoutedToRequester /\ AckBeforeEvents)'
  <2>1. CASE End /\ UNCHANGED emitted
    BY <1>1, <1>2, <1>11, <2>1, EndTyped DEF WriteEvent, RoutedToRequester, AckBeforeEvents
  <2>2. CASE emitted' = emitted \cup {gateway.on} /\ UNCHANGED task
    BY <1>1, <1>11, <2>2 DEF WriteEvent, RoutedToRequester, AckBeforeEvents, OrderInv, AckWritten
  <2> QED  BY <1>11, <2>1, <2>2 DEF WriteEvent
<1>12. ASSUME Delivered  PROVE (RoutedToRequester /\ AckBeforeEvents)'
  <2>1. response' = response /\ emitted' = emitted
    BY <1>12 DEF Delivered
  <2>2. \A x \in emitted : task[x] \in {"finished", "joined"} => task'[x] \in {"finished", "joined"}
    BY <1>1, <1>2, <1>12, EndTyped DEF Delivered, RelayType
  <2> QED  BY <1>1, <1>2, <2>1, <2>2 DEF RoutedToRequester, AckBeforeEvents
<1>13. ASSUME Closed  PROVE (RoutedToRequester /\ AckBeforeEvents)'
  <2>1. response' = response /\ emitted' = emitted
    BY <1>13 DEF Closed
  <2>2. \A x \in emitted : task[x] \in {"finished", "joined"} => task'[x] \in {"finished", "joined"}
    BY <1>1, <1>2, <1>13, EndTyped DEF Closed, RelayType
  <2> QED  BY <1>1, <1>2, <2>1, <2>2 DEF RoutedToRequester, AckBeforeEvents
<1>14. ASSUME shutdown_session  PROVE (RoutedToRequester /\ AckBeforeEvents)'
  BY <1>1, <1>2, <1>14
  DEF shutdown_session, RelayType, RoutedToRequester, AckBeforeEvents
<1>15. ASSUME ReadOutput  PROVE (RoutedToRequester /\ AckBeforeEvents)'
  BY <1>1, <1>2, <1>15
  DEF ReadOutput, RelayType, RoutedToRequester, AckBeforeEvents
<1>16. ASSUME ReadInput  PROVE (RoutedToRequester /\ AckBeforeEvents)'
  BY <1>1, <1>2, <1>16
  DEF ReadInput, RelayType, RoutedToRequester, AckBeforeEvents
<1>17. ASSUME SessionRecv  PROVE (RoutedToRequester /\ AckBeforeEvents)'
  BY <1>1, <1>2, <1>17
  DEF SessionRecv, negotiate, RelayType, RoutedToRequester, AckBeforeEvents
<1>18. ASSUME SessionOutput  PROVE (RoutedToRequester /\ AckBeforeEvents)'
  BY <1>1, <1>2, <1>18
  DEF SessionOutput, RelayType, RoutedToRequester, AckBeforeEvents
<1>19. ASSUME SessionForward  PROVE (RoutedToRequester /\ AckBeforeEvents)'
  BY <1>1, <1>2, <1>19
  DEF SessionForward, RelayType, RoutedToRequester, AckBeforeEvents
<1>20. ASSUME StoreAnswer  PROVE (RoutedToRequester /\ AckBeforeEvents)'
  BY <1>1, <1>2, <1>20
  DEF StoreAnswer, RelayType, RoutedToRequester, AckBeforeEvents
<1>21. ASSUME StoreLost  PROVE (RoutedToRequester /\ AckBeforeEvents)'
  BY <1>1, <1>2, <1>21
  DEF StoreLost, RelayType, RoutedToRequester, AckBeforeEvents
<1>22. ASSUME EmissionStalled  PROVE (RoutedToRequester /\ AckBeforeEvents)'
  BY <1>1, <1>2, <1>22
  DEF EmissionStalled, RelayType, RoutedToRequester, AckBeforeEvents
<1>23. ASSUME StoreClosed  PROVE (RoutedToRequester /\ AckBeforeEvents)'
  BY <1>1, <1>2, <1>23
  DEF StoreClosed, RelayType, RoutedToRequester, AckBeforeEvents
<1>24. ASSUME ClientCloses  PROVE (RoutedToRequester /\ AckBeforeEvents)'
  BY <1>1, <1>2, <1>24
  DEF ClientCloses, RelayType, RoutedToRequester, AckBeforeEvents
<1>25. CASE UNCHANGED vars
  BY <1>1, <1>2, <1>25 DEF vars, RelayType, RoutedToRequester, AckBeforeEvents
<1> QED
  BY <1>3, <1>4, <1>5, <1>6, <1>7, <1>8, <1>9, <1>10, <1>11, <1>12, <1>13, <1>14,
       <1>15, <1>16, <1>17, <1>18, <1>19, <1>20, <1>21, <1>22, <1>23, <1>24, <1>25
  DEF Next, Dispatcher, Session

\* A request or its answer is always at one place, and its stream waits for it.
LEMMA TransitKept ==
  ASSUME RelayInv, [Next]_vars, gateway'.at # "ended"
  PROVE  TransitInv'
<1> USE DEF gateway_vars, pipes, session_vars, store_vars, At
<1>1. /\ RelayType /\ TaskInv /\ TransitInv /\ ~End
      /\ gateway.at # "ended" /\ gateway'.at # "ended"
  BY StillRuns DEF RelayInv
<1>2. ASSUME NEW s \in Streams, AcceptBi(s)  PROVE TransitInv'
  <2>1. task[s] = "none"
    <3>1. s \in Nat /\ s >= s  BY RelayConstants DEF Streams
    <3> QED  BY <1>2, <3>1 DEF AcceptBi
  <2>2. PICK r \in Requests[s] : correlation' = [correlation EXCEPT ![s] = r.correlation]
    BY <1>1, <1>2 DEF AcceptBi
  <2>3. /\ UNCHANGED <<pending, input_pipe, relay, inbox, output_pipe, outputs>>
        /\ Writing' = Writing /\ InSession' = InSession
    BY <1>1, <1>2 DEF AcceptBi, Writing, InSession
  <2>4. ASSUME NEW x \in Streams, correlation[x] \in Correlations, pending[correlation[x]] = x
        PROVE  correlation'[x] = correlation[x]
    <3>1. task[x] = "pending"  BY <1>1, <2>4, RelayConstants DEF TaskInv
    <3> QED  BY <1>1, <2>1, <2>2, <3>1 DEF RelayType
  <2> QED  BY <1>1, <2>3, <2>4 DEF TransitInv
<1>3. ASSUME NEW s \in Streams, ReadRequest(s)  PROVE TransitInv'
  BY <1>1, <1>3
  DEF ReadRequest, TransitInv, Writing, InSession
<1>4. ASSUME NEW s \in Streams, WriteResponse(s)  PROVE TransitInv'
  BY <1>1, <1>4
  DEF WriteResponse, TransitInv, Writing, InSession
<1>5. ASSUME NEW s \in Streams, JoinNext(s)  PROVE TransitInv'
  BY <1>1, <1>5
  DEF JoinNext, Selecting, TransitInv, Writing, InSession
<1>6. ASSUME NEW s \in Streams, StoreEvent(s)  PROVE TransitInv'
  <2>1. PICK m \in Frame : m = Message("event", s) /\ ~Bearing(m)
    BY Frames DEF Bearing
  <2>2. relay' = Append(relay, m) /\ relay \in Seq(Frame) /\ Once(relay)
    BY <1>1, <1>6, <2>1 DEF StoreEvent, RelayType, TransitInv
  <2>3. Once(relay') /\ Borne(relay') = Borne(relay)
    BY <2>1, <2>2, BorneAppend
  <2>4. /\ UNCHANGED <<pending, correlation, input_pipe, inbox, output_pipe, outputs>>
        /\ Writing' = Writing /\ InSession' = InSession
    BY <1>6 DEF StoreEvent, Writing, InSession
  <2> QED  BY <1>1, <2>3, <2>4 DEF TransitInv
<1>7. ASSUME RecvRequest  PROVE TransitInv'
  <2>1. PICK s \in Streams : s = Head(requests)  BY <1>1, <1>7, TailOf DEF RecvRequest, RelayType
  <2>2. /\ UNCHANGED <<correlation, input_pipe, relay, inbox, output_pipe, outputs>>
        /\ Writing = {} /\ InSession' = InSession
    BY <1>7 DEF RecvRequest, Selecting, Writing, InSession
  <2>3. CASE UNCHANGED <<pending, gateway>>
    BY <1>1, <2>2, <2>3 DEF TransitInv, Writing
  <2>4. CASE ~Rejected(s) /\ pending' = [pending EXCEPT ![correlation[s]] = s]
             /\ gateway' = At("writing", s)
    <3>1. correlation[s] \in Correlations
      BY <1>1, <1>7, <2>1, ItemsTail DEF RecvRequest, RelayType, TaskInv
    <3>2. pending[correlation[s]] = Null  BY <2>4 DEF Rejected
    <3>3. /\ Writing' = {s} /\ pending'[correlation[s]] = s
          /\ \A c \in Correlations : pending[c] # Null => pending'[c] = pending[c]
      BY <1>1, <2>4, <3>1, <3>2 DEF RelayType, Writing
    <3>4. \A x \in Items(input_pipe) \cup Borne(relay) \cup InSession \cup Items(inbox)
                     \cup Borne(output_pipe) \cup Borne(outputs) :
            /\ x \in Streams /\ correlation[x] \in Correlations
            /\ pending[correlation[x]] = x /\ x # Null /\ x # s
      BY <1>1, <3>2, RelayConstants DEF TransitInv
    <3>5. \A x \in Items(input_pipe) \cup Borne(relay) \cup InSession \cup Items(inbox)
                     \cup Borne(output_pipe) \cup Borne(outputs) : pending'[correlation[x]] = x
      BY <3>3, <3>4
    <3>6. Apart({s}, Items(input_pipe), Borne(relay), InSession, Items(inbox),
                Borne(output_pipe), Borne(outputs))
      BY <1>1, <2>2, <3>4 DEF TransitInv, Apart
    <3> QED  BY <1>1, <2>2, <3>1, <3>3, <3>4, <3>5, <3>6 DEF TransitInv
  <2> QED  BY <1>1, <1>7, <2>1, <2>3, <2>4 DEF RecvRequest
<1>8. ASSUME WriteRequest  PROVE TransitInv'
  <2>1. PICK s \in Streams : s = gateway.on /\ Writing = {s}
    BY <1>1, <1>8 DEF WriteRequest, RelayType, Writing
  <2>2. /\ input_pipe' = Append(input_pipe, s) /\ Writing' = {} /\ InSession' = InSession
        /\ UNCHANGED <<correlation, pending, relay, inbox, output_pipe, outputs>>
    BY <1>1, <1>8, <2>1 DEF WriteRequest, Writing, InSession
  <2>3. s \notin Items(input_pipe)  BY <1>1, <2>1 DEF TransitInv, Apart
  <2>4. Items(input_pipe') = Items(input_pipe) \cup {s} /\ Distinct(input_pipe')
    BY <1>1, <2>2, <2>3, ItemsAppend DEF RelayType, TransitInv
  <2> QED  BY <1>1, <2>1, <2>2, <2>4 DEF TransitInv, Apart
<1>9. ASSUME RecvOutput  PROVE TransitInv'
  <2>1. PICK m \in Frame : m = Head(outputs)
    BY <1>1, <1>9, TailOf DEF RecvOutput, RelayType
  <2>2. /\ Once(outputs')
        /\ Bearing(m) => /\ m.stream \in Borne(outputs)
                         /\ Borne(outputs') = Borne(outputs) \ {m.stream}
        /\ ~Bearing(m) => Borne(outputs') = Borne(outputs)
    BY <1>1, <1>9, <2>1, BorneTail DEF RecvOutput, RelayType, TransitInv
  <2>3. /\ UNCHANGED <<correlation, input_pipe, relay, inbox, output_pipe>>
        /\ Writing' = {} /\ Writing = {} /\ InSession' = InSession
    BY <1>1, <1>9 DEF RecvOutput, Selecting, Writing, InSession, route
  <2>4. CASE m.type = "event" /\ UNCHANGED pending
    BY <1>1, <2>2, <2>3, <2>4 DEF TransitInv, Bearing
  <2>5. CASE m.type \notin {"event", "closed"} /\ route(m)
    <3>1. Bearing(m)  BY <2>5 DEF Bearing
    <3>2. PICK s \in Streams : /\ s = m.stream /\ correlation[s] \in Correlations
                               /\ pending[correlation[s]] = s
      BY <1>1, <2>2, <3>1 DEF TransitInv
    <3>3. pending' = [pending EXCEPT ![correlation[s]] = Null]  BY <2>5, <3>2 DEF route
    <3>4. \A c \in Correlations : pending[c] # s => pending'[c] = pending[c]
      BY <1>1, <3>2, <3>3 DEF RelayType
    <3>5. Borne(outputs') = Borne(outputs) \ {s} /\ s \in Borne(outputs)  BY <2>2, <3>1, <3>2
    <3>6. s \notin Items(input_pipe) \cup Borne(relay) \cup InSession \cup Items(inbox)
                     \cup Borne(output_pipe) \cup Borne(outputs')
      BY <1>1, <3>5 DEF TransitInv, Apart
    <3>7. Apart({}, Items(input_pipe), Borne(relay), InSession, Items(inbox),
                Borne(output_pipe), Borne(outputs'))
      BY <1>1, <3>5 DEF TransitInv, Apart
    <3>8. \A x \in Items(input_pipe) \cup Borne(relay) \cup InSession \cup Items(inbox)
                     \cup Borne(output_pipe) \cup Borne(outputs') :
            /\ x \in Streams /\ correlation[x] \in Correlations /\ pending'[correlation[x]] = x
      BY <1>1, <3>4, <3>5, <3>6 DEF TransitInv
    <3> QED  BY <1>1, <2>2, <2>3, <3>7, <3>8 DEF TransitInv
  <2> QED  BY <1>1, <1>9, <2>1, <2>4, <2>5 DEF RecvOutput
<1>10. ASSUME WriteEvent  PROVE TransitInv'
  BY <1>1, <1>10
  DEF WriteEvent, TransitInv, Writing, InSession
<1>11. ASSUME Delivered  PROVE TransitInv'
  BY <1>1, <1>11
  DEF Delivered, TransitInv, Writing, InSession
<1>12. ASSUME Closed  PROVE TransitInv'
  BY <1>1, <1>12
  DEF Closed, TransitInv, Writing, InSession
<1>13. ASSUME shutdown_session  PROVE TransitInv'
  BY <1>1, <1>13
  DEF shutdown_session, TransitInv, Writing, InSession
<1>14. ASSUME ReadOutput  PROVE TransitInv'
  <2>1. /\ UNCHANGED <<correlation, pending, input_pipe, relay, inbox>> /\ Writing' = Writing
    BY <1>14 DEF ReadOutput, Writing
  <2>2. CASE /\ output_pipe # <<>> /\ outputs' = Append(outputs, Head(output_pipe))
             /\ output_pipe' = Tail(output_pipe) /\ UNCHANGED session
    <3>1. PICK m \in Frame : m = Head(output_pipe)  BY <1>1, <2>2, TailOf DEF RelayType
    <3>2. /\ Once(output_pipe')
          /\ Bearing(m) => /\ m.stream \in Borne(output_pipe)
                           /\ Borne(output_pipe') = Borne(output_pipe) \ {m.stream}
          /\ ~Bearing(m) => Borne(output_pipe') = Borne(output_pipe)
      BY <1>1, <2>2, <3>1, BorneTail DEF RelayType, TransitInv
    <3>3. Bearing(m) => m.stream \notin Borne(outputs)
      BY <1>1, <3>2 DEF TransitInv, Apart
    <3>4. /\ Once(outputs')
          /\ Bearing(m) => Borne(outputs') = Borne(outputs) \cup {m.stream}
          /\ ~Bearing(m) => Borne(outputs') = Borne(outputs)
      BY <1>1, <2>2, <3>1, <3>3, BorneAppend DEF RelayType, TransitInv
    <3>5. InSession' = InSession  BY <2>2 DEF InSession
    <3>6. CASE Bearing(m)
      BY <1>1, <2>1, <3>2, <3>4, <3>5, <3>6 DEF TransitInv, Apart
    <3>7. CASE ~Bearing(m)
      BY <1>1, <2>1, <3>2, <3>4, <3>5, <3>7 DEF TransitInv
    <3> QED  BY <3>6, <3>7
  <2>3. CASE /\ session.at = "gone" /\ outputs' = Append(outputs, Message("closed", Null))
             /\ session' = At("eof", Null) /\ UNCHANGED output_pipe
    <3>1. PICK m \in Frame : m = Message("closed", Null) /\ ~Bearing(m)
      BY Frames DEF Bearing
    <3>2. Once(outputs') /\ Borne(outputs') = Borne(outputs)
      BY <1>1, <2>3, <3>1, BorneAppend DEF RelayType, TransitInv
    <3>3. InSession' = InSession  BY <2>3 DEF InSession
    <3> QED  BY <1>1, <2>1, <2>3, <3>2, <3>3 DEF TransitInv
  <2> QED  BY <1>14, <2>2, <2>3 DEF ReadOutput
<1>15. ASSUME ReadInput  PROVE TransitInv'
  <2>1. /\ UNCHANGED <<correlation, pending, inbox, output_pipe, outputs>>
        /\ Writing' = Writing /\ InSession' = InSession
    BY <1>15 DEF ReadInput, Writing, InSession
  <2>2. PICK s \in Streams : s = Head(input_pipe)  BY <1>1, <1>15, TailOf DEF ReadInput, RelayType
  <2>3. /\ Distinct(input_pipe') /\ s \in Items(input_pipe)
        /\ Items(input_pipe') = Items(input_pipe) \ {s}
    BY <1>1, <1>15, <2>2, ItemsTail DEF ReadInput, RelayType, TransitInv
  <2>4. PICK m \in Frame : m = Message("request", s) /\ Bearing(m) /\ m.stream = s
    BY Frames DEF Bearing
  <2>5. s \notin Borne(relay)  BY <1>1, <2>3 DEF TransitInv, Apart
  <2>6. Once(relay') /\ Borne(relay') = Borne(relay) \cup {s}
    BY <1>1, <1>15, <2>2, <2>4, <2>5, BorneAppend DEF ReadInput, RelayType, TransitInv
  <2> QED  BY <1>1, <2>1, <2>3, <2>6 DEF TransitInv, Apart
<1>16. ASSUME SessionRecv  PROVE TransitInv'
  <2>1. /\ UNCHANGED <<correlation, pending, input_pipe, inbox, output_pipe, outputs>>
        /\ Writing' = Writing /\ InSession = {}
    BY <1>16 DEF SessionRecv, Writing, InSession
  <2>2. PICK m \in Frame : m = Head(relay)  BY <1>1, <1>16, TailOf DEF SessionRecv, RelayType
  <2>3. /\ Once(relay')
        /\ Bearing(m) => m.stream \in Borne(relay) /\ Borne(relay') = Borne(relay) \ {m.stream}
        /\ ~Bearing(m) => Borne(relay') = Borne(relay)
    BY <1>1, <1>16, <2>2, BorneTail DEF SessionRecv, RelayType, TransitInv
  <2>4. InSession' = IF Bearing(m) THEN {m.stream} ELSE {}
    <3>1. CASE m.type = "request"
      <4>1. PICK e \in Frame : /\ e \in {m, Message(negotiate(m.stream), m.stream)}
                               /\ Bearing(e) /\ e.stream = m.stream
                               /\ session'.on = e /\ session'.at \in {"output", "store"}
        BY <1>16, <2>2, <3>1, Frames DEF SessionRecv, negotiate, Bearing
      <4> QED  BY <3>1, <4>1 DEF InSession, Bearing
    <3>2. CASE m.type # "request"
      <4>1. session' = IF m.type = "closed" THEN At("gone", Null) ELSE At("output", m)
        BY <1>16, <2>2, <3>2 DEF SessionRecv
      <4>2. CASE m.type = "closed"
        <5>1. session'.at = "gone"  BY <4>1, <4>2
        <5> QED  BY <4>2, <5>1 DEF InSession, Bearing
      <4>3. CASE m.type # "closed"
        <5>1. session'.at = "output" /\ session'.on = m  BY <4>1, <4>3
        <5> QED  BY <4>3, <5>1 DEF InSession
      <4> QED  BY <4>2, <4>3
    <3> QED  BY <3>1, <3>2
  <2>5. CASE Bearing(m)
    BY <1>1, <2>1, <2>3, <2>4, <2>5 DEF TransitInv, Apart
  <2>6. CASE ~Bearing(m)
    BY <1>1, <2>1, <2>3, <2>4, <2>6 DEF TransitInv
  <2> QED  BY <2>5, <2>6
<1>17. ASSUME SessionOutput  PROVE TransitInv'
  <2>1. /\ UNCHANGED <<correlation, pending, input_pipe, relay, inbox, outputs>>
        /\ Writing' = Writing /\ InSession' = {}
    BY <1>17 DEF SessionOutput, Writing, InSession
  <2>2. PICK m \in Frame : /\ m = session.on
                           /\ InSession = IF Bearing(m) THEN {m.stream} ELSE {}
    BY <1>1, <1>17 DEF SessionOutput, RelayType, InSession
  <2>3. Bearing(m) => m.stream \notin Borne(output_pipe)
    BY <1>1, <2>2 DEF TransitInv, Apart
  <2>4. /\ Once(output_pipe')
        /\ Bearing(m) => Borne(output_pipe') = Borne(output_pipe) \cup {m.stream}
        /\ ~Bearing(m) => Borne(output_pipe') = Borne(output_pipe)
    <3>1. output_pipe' = Append(output_pipe, m)  BY <1>1, <1>17, <2>2 DEF SessionOutput
    <3>2. Once(output_pipe) /\ output_pipe \in Seq(Frame)  BY <1>1 DEF RelayType, TransitInv
    <3> QED  BY <2>2, <2>3, <3>1, <3>2, BorneAppend
  <2>5. CASE Bearing(m)
    BY <1>1, <2>1, <2>2, <2>4, <2>5 DEF TransitInv, Apart
  <2>6. CASE ~Bearing(m)
    BY <1>1, <2>1, <2>2, <2>4, <2>6 DEF TransitInv
  <2> QED  BY <2>5, <2>6
<1>18. ASSUME SessionForward  PROVE TransitInv'
  <2>1. /\ UNCHANGED <<correlation, pending, input_pipe, relay, output_pipe, outputs>>
        /\ Writing' = Writing /\ InSession' = {}
    BY <1>18 DEF SessionForward, Writing, InSession
  <2>2. PICK s \in Streams : s = session.on.stream /\ InSession = {s}
    BY <1>1, <1>18, Frames DEF SessionForward, RelayType, InSession, Bearing
  <2>3. CASE inbox' = Append(inbox, s)
    <3>1. s \notin Items(inbox)  BY <1>1, <2>2 DEF TransitInv, Apart
    <3>2. Items(inbox') = Items(inbox) \cup {s} /\ Distinct(inbox')
      BY <1>1, <2>3, <3>1, ItemsAppend DEF RelayType, TransitInv
    <3> QED  BY <1>1, <2>1, <2>2, <3>2 DEF TransitInv, Apart
  <2>4. CASE UNCHANGED inbox
    BY <1>1, <2>1, <2>2, <2>4 DEF TransitInv, Apart
  <2> QED  BY <1>18, <2>2, <2>3, <2>4 DEF SessionForward
<1>19. ASSUME StoreAnswer  PROVE TransitInv'
  <2>1. /\ UNCHANGED <<correlation, pending, input_pipe, output_pipe, outputs>>
        /\ Writing' = Writing /\ InSession' = InSession
    BY <1>19 DEF StoreAnswer, Writing, InSession
  <2>2. PICK s \in Streams : s = Head(inbox)  BY <1>1, <1>19, TailOf DEF StoreAnswer, RelayType
  <2>3. /\ Distinct(inbox') /\ s \in Items(inbox)
        /\ Items(inbox') = Items(inbox) \ {s}
    BY <1>1, <1>19, <2>2, ItemsTail DEF StoreAnswer, RelayType, TransitInv
  <2>4. PICK m \in Frame : relay' = Append(relay, m) /\ Bearing(m) /\ m.stream = s
    BY <1>19, <2>2, Frames DEF StoreAnswer, Bearing
  <2>5. s \notin Borne(relay)  BY <1>1, <2>3 DEF TransitInv, Apart
  <2>6. Once(relay') /\ Borne(relay') = Borne(relay) \cup {s}
    BY <1>1, <2>4, <2>5, BorneAppend DEF RelayType, TransitInv
  <2> QED  BY <1>1, <2>1, <2>3, <2>6 DEF TransitInv, Apart
<1>20. ASSUME StoreLost  PROVE TransitInv'
  BY <1>1, <1>20
  DEF StoreLost, TransitInv, Writing, InSession
<1>21. ASSUME EmissionStalled  PROVE TransitInv'
  BY <1>1, <1>21
  DEF EmissionStalled, TransitInv, Writing, InSession
<1>22. ASSUME StoreClosed  PROVE TransitInv'
  <2>1. PICK m \in Frame : m = Message("closed", Null) /\ ~Bearing(m)
    BY Frames DEF Bearing
  <2>2. relay' = Append(relay, m) /\ relay \in Seq(Frame) /\ Once(relay)
    BY <1>1, <1>22, <2>1 DEF StoreClosed, RelayType, TransitInv
  <2>3. Once(relay') /\ Borne(relay') = Borne(relay)
    BY <2>1, <2>2, BorneAppend
  <2>4. /\ UNCHANGED <<pending, correlation, input_pipe, inbox, output_pipe, outputs>>
        /\ Writing' = Writing /\ InSession' = InSession
    BY <1>22 DEF StoreClosed, Writing, InSession
  <2> QED  BY <1>1, <2>3, <2>4 DEF TransitInv
<1>23. ASSUME ClientCloses  PROVE TransitInv'
  BY <1>1, <1>23
  DEF ClientCloses, TransitInv, Writing, InSession
<1>24. CASE UNCHANGED vars
  BY <1>1, <1>24 DEF vars, TransitInv, Writing, InSession
<1> QED
  BY <1>2, <1>3, <1>4, <1>5, <1>6, <1>7, <1>8, <1>9, <1>10, <1>11, <1>12, <1>13, <1>14,
       <1>15, <1>16, <1>17, <1>18, <1>19, <1>20, <1>21, <1>22, <1>23, <1>24
  DEF Next, Dispatcher, Session

\* Events stay behind their acknowledgements: when more of these were routed,
LEMMA OrderedMore ==
  ASSUME NEW R, NEW T, NEW o, NEW p, NEW x, NEW r, NEW b, R \subseteq T,
         Ordered(R, o, p, x, r, b)
  PROVE  Ordered(T, o, p, x, r, b)
<1>1. EventsFollow(o, T)  BY FollowMore DEF Ordered
<1>2. EventsFollow(p, T \cup Acks(o))
  BY FollowMore, R \cup Acks(o) \subseteq T \cup Acks(o) DEF Ordered
<1>3. EventsFollow(r, T \cup Acks(o) \cup Acks(p) \cup SessionAck(x))
  <2>1. (R \cup Acks(o) \cup Acks(p) \cup SessionAck(x))
          \subseteq (T \cup Acks(o) \cup Acks(p) \cup SessionAck(x))
    OBVIOUS
  <2> QED  BY <2>1, FollowMore DEF Ordered
<1> QED  BY <1>1, <1>2, <1>3 DEF Ordered

\* when the dispatcher takes a message, and with it the acknowledgement that it is,
LEMMA OrderedTaken ==
  ASSUME NEW R, NEW T, NEW o \in Seq(Frame), NEW p, NEW x, NEW r, NEW b, o # <<>>,
         R \subseteq T, Head(o).type = "ack" => Head(o).stream \in T,
         Ordered(R, o, p, x, r, b)
  PROVE  /\ Ordered(T, Tail(o), p, x, r, b)
         /\ Head(o).type = "event" => Head(o).stream \in R
<1>1. EventsFollow(o, R)  BY DEF Ordered
<1>2. Head(o).type = "event" => Head(o).stream \in R  BY <1>1, FollowTail
<1>3. T \cup Acks(o) = T \cup Acks(Tail(o))
  BY <1>1, FollowTail
<1>4. EventsFollow(o, T)  BY <1>1, FollowMore
<1>5. EventsFollow(Tail(o), T)
  <2>1. CASE Head(o).type = "ack"
    <3>1. EventsFollow(Tail(o), T \cup {Head(o).stream})  BY <1>4, <2>1, FollowTail
    <3>2. T \cup {Head(o).stream} = T  BY <2>1
    <3> QED  BY <3>1, <3>2
  <2>2. CASE Head(o).type # "ack"  BY <1>4, <2>2, FollowTail
  <2> QED  BY <2>1, <2>2
<1>6. Ordered(T, o, p, x, r, b)  BY OrderedMore
<1> QED  BY <1>2, <1>3, <1>5, <1>6 DEF Ordered

\* when a message goes from the pipe to the dispatcher's queue,
LEMMA OrderedRead ==
  ASSUME NEW R, NEW o \in Seq(Frame), NEW p \in Seq(Frame), NEW x, NEW r, NEW b, p # <<>>,
         Ordered(R, o, p, x, r, b)
  PROVE  Ordered(R, Append(o, Head(p)), Tail(p), x, r, b)
<1>1. EventsFollow(o, R) /\ EventsFollow(p, R \cup Acks(o))  BY DEF Ordered
<1>2. PICK m \in Frame : m = Head(p)  BY TailOf
<1>3. m.type = "event" => m.stream \in R \cup Acks(o)  BY <1>1, <1>2, FollowTail
<1>4. /\ EventsFollow(Append(o, m), R)
      /\ m.type = "ack" => Acks(Append(o, m)) = Acks(o) \cup {m.stream}
      /\ m.type # "ack" => Acks(Append(o, m)) = Acks(o)
  BY <1>1, <1>3, FollowAppend
<1>5. /\ m.type = "ack" => /\ EventsFollow(Tail(p), R \cup Acks(o) \cup {m.stream})
                           /\ Acks(p) = Acks(Tail(p)) \cup {m.stream}
      /\ m.type # "ack" => EventsFollow(Tail(p), R \cup Acks(o)) /\ Acks(p) = Acks(Tail(p))
  BY <1>1, <1>2, FollowTail
<1>6. CASE m.type = "ack"
  <2>1. R \cup Acks(Append(o, m)) = R \cup Acks(o) \cup {m.stream}  BY <1>4, <1>6
  <2>2. R \cup Acks(Append(o, m)) \cup Acks(Tail(p)) = R \cup Acks(o) \cup Acks(p)
    BY <1>4, <1>5, <1>6
  <2> QED  BY <1>2, <1>4, <1>5, <1>6, <2>1, <2>2 DEF Ordered
<1>7. CASE m.type # "ack"
  <2>1. Acks(Append(o, m)) = Acks(o) /\ Acks(Tail(p)) = Acks(p)  BY <1>4, <1>5, <1>7
  <2> QED  BY <1>2, <1>4, <1>5, <1>7, <2>1 DEF Ordered
<1> QED  BY <1>6, <1>7

\* when the end of the session's output is read,
LEMMA OrderedClosed ==
  ASSUME NEW R, NEW o \in Seq(Frame), NEW p, NEW x, NEW y, NEW r, NEW b, NEW m \in Frame,
         m.type = "closed", x.at # "output", y.at # "output", Ordered(R, o, p, x, r, b)
  PROVE  Ordered(R, Append(o, m), p, y, r, b)
<1>1. EventsFollow(Append(o, m), R) /\ Acks(Append(o, m)) = Acks(o)
  BY FollowAppend DEF Ordered
<1>2. SessionAck(x) = {} /\ SessionAck(y) = {}  BY DEF SessionAck
<1> QED  BY <1>1, <1>2 DEF Ordered

\* when the session takes a frame of its queue, and passes on one that is not a
\* request,
LEMMA OrderedRecv ==
  ASSUME NEW R, NEW o, NEW p, NEW x, NEW y, NEW r \in Seq(Frame), NEW b, r # <<>>,
         x.at # "output",
         Head(r).type \in {"ack", "event"} => y.at = "output" /\ y.on = Head(r),
         Head(r).type \notin {"ack", "event"} =>
           y.at # "output" \/ y.on.type \notin {"ack", "event"},
         Ordered(R, o, p, x, r, b)
  PROVE  Ordered(R, o, p, y, Tail(r), b)
<1>1. SessionAck(x) = {}  BY DEF SessionAck
<1>2. EventsFollow(r, R \cup Acks(o) \cup Acks(p))
  <2>1. R \cup Acks(o) \cup Acks(p) \cup SessionAck(x) = R \cup Acks(o) \cup Acks(p)  BY <1>1
  <2> QED  BY <2>1 DEF Ordered
<1>3. b \subseteq R \cup Acks(o) \cup Acks(p) \cup Acks(r)  BY <1>1 DEF Ordered
<1>4. CASE Head(r).type = "ack"
  <2>1. SessionAck(y) = {Head(r).stream}  BY <1>4 DEF SessionAck
  <2>2. /\ EventsFollow(Tail(r), R \cup Acks(o) \cup Acks(p) \cup {Head(r).stream})
        /\ Acks(r) = Acks(Tail(r)) \cup {Head(r).stream}
    BY <1>2, <1>4, FollowTail
  <2> QED  BY <1>3, <1>4, <2>1, <2>2 DEF Ordered
<1>5. CASE Head(r).type # "ack"
  <2>1. SessionAck(y) = {}  BY <1>5 DEF SessionAck
  <2>2. /\ EventsFollow(Tail(r), R \cup Acks(o) \cup Acks(p)) /\ Acks(r) = Acks(Tail(r))
        /\ Head(r).type = "event" => Head(r).stream \in R \cup Acks(o) \cup Acks(p)
    BY <1>2, <1>5, FollowTail
  <2>3. R \cup Acks(o) \cup Acks(p) \cup SessionAck(y) = R \cup Acks(o) \cup Acks(p)  BY <2>1
  <2> QED  BY <1>3, <1>5, <2>1, <2>2, <2>3 DEF Ordered
<1> QED  BY <1>4, <1>5

\* when the session writes what it took to the pipe,
LEMMA OrderedOutput ==
  ASSUME NEW R, NEW o, NEW p \in Seq(Frame), NEW x, NEW y, NEW r, NEW b,
         x.at = "output", x.on \in Frame, y.at # "output", Ordered(R, o, p, x, r, b)
  PROVE  Ordered(R, o, Append(p, x.on), y, r, b)
<1>1. /\ EventsFollow(p, R \cup Acks(o))
      /\ x.on.type = "event" => x.on.stream \in R \cup Acks(o) \cup Acks(p)
  BY DEF Ordered
<1>2. /\ EventsFollow(Append(p, x.on), R \cup Acks(o))
      /\ x.on.type = "ack" => Acks(Append(p, x.on)) = Acks(p) \cup {x.on.stream}
      /\ x.on.type # "ack" => Acks(Append(p, x.on)) = Acks(p)
  BY <1>1, FollowAppend
<1>3. SessionAck(y) = {}  BY DEF SessionAck
<1>4. R \cup Acks(o) \cup Acks(Append(p, x.on)) \cup SessionAck(y)
        = R \cup Acks(o) \cup Acks(p) \cup SessionAck(x)
  BY <1>2, <1>3 DEF SessionAck
<1> QED  BY <1>2, <1>4 DEF Ordered

\* when nothing that is ordered is at the session,
LEMMA OrderedIdle ==
  ASSUME NEW R, NEW o, NEW p, NEW x, NEW y, NEW r, NEW b,
         x.at # "output", y.at # "output", Ordered(R, o, p, x, r, b)
  PROVE  Ordered(R, o, p, y, r, b)
<1>1. SessionAck(x) = {} /\ SessionAck(y) = {}  BY DEF SessionAck
<1> QED  BY <1>1 DEF Ordered

\* and when its queue gets a frame: an event only of a subscription, and a new
\* subscription only with its acknowledgement.
LEMMA OrderedQueued ==
  ASSUME NEW R, NEW o, NEW p, NEW x, NEW r \in Seq(Frame), NEW b, NEW c, NEW m \in Frame,
         m.type = "event" => m.stream \in b,
         c \subseteq b \cup {m.stream}, c \subseteq b \/ m.type = "ack",
         Ordered(R, o, p, x, r, b)
  PROVE  Ordered(R, o, p, x, Append(r, m), c)
<1>1. PICK S : S = R \cup Acks(o) \cup Acks(p) \cup SessionAck(x)  OBVIOUS
<1>2. EventsFollow(r, S) /\ b \subseteq S \cup Acks(r)  BY <1>1 DEF Ordered
<1>3. /\ EventsFollow(Append(r, m), S)
      /\ m.type = "ack" => Acks(Append(r, m)) = Acks(r) \cup {m.stream}
      /\ m.type # "ack" => Acks(Append(r, m)) = Acks(r)
  BY <1>2, FollowAppend
<1>4. c \subseteq S \cup Acks(Append(r, m))  BY <1>2, <1>3
<1> QED  BY <1>1, <1>3, <1>4 DEF Ordered

\* A step that takes back no acknowledgement.
AcksStay ==
  /\ AckRouted \subseteq AckRouted'
  /\ \A x \in Streams : AckWritten(x) => AckWritten(x)'

\* While the dispatcher runs, an acknowledgement that was routed stays so, and one
\* that was written too.
LEMMA AckedKept ==
  ASSUME RelayInv, [Next]_vars, gateway'.at # "ended"
  PROVE  AcksStay
<1> USE DEF gateway_vars, pipes, session_vars, store_vars, At
<1>1. /\ RelayType /\ RoutedToRequester /\ TaskInv /\ TransitInv /\ OrderInv /\ ~End
      /\ gateway.at # "ended" /\ gateway'.at # "ended"
  BY StillRuns DEF RelayInv
<1>2. ASSUME NEW s \in Streams, AcceptBi(s)  PROVE AcksStay
  <2>1. task[s] = "none"
    <3>1. s \in Nat /\ s >= s  BY RelayConstants DEF Streams
    <3> QED  BY <1>2, <3>1 DEF AcceptBi
  <2>2. UNCHANGED <<response, gateway>> /\ task' = [task EXCEPT ![s] = "reading"]
    BY <1>1, <1>2 DEF AcceptBi
  <2>3. \A x \in Streams : task[x] \in {"finished", "joined"} => task'[x] = task[x]
    BY <1>1, <2>1, <2>2 DEF RelayType
  <2> QED  BY <2>2, <2>3 DEF AcksStay, AckRouted, AckWritten
<1>3. ASSUME NEW s \in Streams, ReadRequest(s)  PROVE AcksStay
  <2>1. UNCHANGED <<response, gateway>>  BY <1>3 DEF ReadRequest
  <2>2. \A x \in Streams : task[x] \in {"finished", "joined"} => task'[x] \in {"finished", "joined"}
    BY <1>1, <1>3 DEF ReadRequest, RelayType
  <2> QED  BY <2>1, <2>2 DEF AcksStay, AckRouted, AckWritten
<1>4. ASSUME NEW s \in Streams, WriteResponse(s)  PROVE AcksStay
  <2>1. UNCHANGED <<response, gateway>>  BY <1>4 DEF WriteResponse
  <2>2. \A x \in Streams : task[x] \in {"finished", "joined"} => task'[x] \in {"finished", "joined"}
    BY <1>1, <1>4 DEF WriteResponse, RelayType
  <2> QED  BY <2>1, <2>2 DEF AcksStay, AckRouted, AckWritten
<1>5. ASSUME NEW s \in Streams, JoinNext(s)  PROVE AcksStay
  <2>1. /\ UNCHANGED <<response, gateway>>
        /\ task[s] = "finished" /\ task' = [task EXCEPT ![s] = "joined"]
    BY <1>1, <1>5 DEF JoinNext
  <2>2. \A x \in Streams : task[x] \in {"finished", "joined"} => task'[x] \in {"finished", "joined"}
    BY <1>1, <2>1 DEF RelayType
  <2> QED  BY <2>1, <2>2 DEF AcksStay, AckRouted, AckWritten
<1>6. ASSUME NEW s \in Streams, StoreEvent(s)  PROVE AcksStay
  <2>1. UNCHANGED <<response, gateway, task>>  BY <1>6 DEF StoreEvent
  <2> QED  BY <2>1 DEF AcksStay, AckRouted, AckWritten
<1>7. ASSUME RecvRequest  PROVE AcksStay
  <2>1. PICK s \in Streams : s = Head(requests)  BY <1>1, <1>7, TailOf DEF RecvRequest, RelayType
  <2>2. task[s] = "queued" /\ gateway.at # "delivering"
    BY <1>1, <1>7, <2>1, ItemsTail DEF RecvRequest, Selecting, RelayType, TaskInv
  <2>3. \A x \in Streams : x # s => task'[x] = task[x] /\ response'[x] = response[x]
    <3>1. \/ /\ task' = [task EXCEPT ![s] = "routed"]
             /\ response' = [response EXCEPT ![s] = Message("manifest", s)]
          \/ task' = [task EXCEPT ![s] = "pending"] /\ UNCHANGED response
      BY <1>1, <1>7, <2>1 DEF RecvRequest
    <3> QED  BY <1>1, <3>1 DEF RelayType
  <2> QED  BY <2>2, <2>3 DEF AcksStay, AckRouted, AckWritten
<1>8. ASSUME WriteRequest  PROVE AcksStay
  <2>1. UNCHANGED <<response, task>> /\ gateway.at # "delivering"
    BY <1>1, <1>8 DEF WriteRequest
  <2> QED  BY <2>1 DEF AcksStay, AckRouted, AckWritten
<1>9. ASSUME RecvOutput  PROVE AcksStay
  <2>1. PICK m \in Frame : m = Head(outputs)
    BY <1>1, <1>9, TailOf DEF RecvOutput, RelayType
  <2>2. gateway.at # "delivering"  BY <1>9 DEF RecvOutput, Selecting
  <2>3. CASE UNCHANGED <<task, response>>
    BY <2>2, <2>3 DEF AcksStay, AckRouted, AckWritten
  <2>4. CASE m.type \notin {"event", "closed"} /\ route(m)
    <3>1. m.stream \in Borne(outputs)
      BY <1>1, <1>9, <2>1, <2>4, BorneTail DEF RecvOutput, RelayType, TransitInv, Bearing
    <3>2. PICK s \in Streams : /\ s = m.stream /\ correlation[s] \in Correlations
                               /\ pending[correlation[s]] = s
      BY <1>1, <3>1 DEF TransitInv
    <3>3. task[s] = "pending"  BY <1>1, <3>2, RelayConstants DEF TaskInv
    <3>4. \A x \in Streams : x # s => task'[x] = task[x] /\ response'[x] = response[x]
      BY <1>1, <2>4, <3>2 DEF route, RelayType
    <3> QED  BY <2>2, <3>3, <3>4 DEF AcksStay, AckRouted, AckWritten
  <2> QED  BY <1>1, <1>9, <2>1, <2>3, <2>4 DEF RecvOutput
<1>10. ASSUME WriteEvent  PROVE AcksStay
  <2>1. UNCHANGED <<response, task>> /\ gateway.at # "delivering"
    BY <1>1, <1>10 DEF WriteEvent
  <2> QED  BY <2>1 DEF AcksStay, AckRouted, AckWritten
<1>11. ASSUME Delivered  PROVE AcksStay
  <2>1. UNCHANGED <<response, task>> /\ task[gateway.on] = "finished"
    BY <1>1, <1>11 DEF Delivered
  <2> QED  BY <2>1 DEF AcksStay, AckRouted, AckWritten
<1>12. ASSUME Closed  PROVE AcksStay
  BY <1>1, <1>12 DEF Closed
<1>13. ASSUME shutdown_session  PROVE AcksStay
  <2>1. UNCHANGED <<response, gateway, task>>  BY <1>13 DEF shutdown_session
  <2> QED  BY <2>1 DEF AcksStay, AckRouted, AckWritten
<1>14. ASSUME ReadOutput  PROVE AcksStay
  <2>1. UNCHANGED <<response, gateway, task>>  BY <1>14 DEF ReadOutput
  <2> QED  BY <2>1 DEF AcksStay, AckRouted, AckWritten
<1>15. ASSUME ReadInput  PROVE AcksStay
  <2>1. UNCHANGED <<response, gateway, task>>  BY <1>15 DEF ReadInput
  <2> QED  BY <2>1 DEF AcksStay, AckRouted, AckWritten
<1>16. ASSUME SessionRecv  PROVE AcksStay
  <2>1. UNCHANGED <<response, gateway, task>>  BY <1>16 DEF SessionRecv
  <2> QED  BY <2>1 DEF AcksStay, AckRouted, AckWritten
<1>17. ASSUME SessionOutput  PROVE AcksStay
  <2>1. UNCHANGED <<response, gateway, task>>  BY <1>17 DEF SessionOutput
  <2> QED  BY <2>1 DEF AcksStay, AckRouted, AckWritten
<1>18. ASSUME SessionForward  PROVE AcksStay
  <2>1. UNCHANGED <<response, gateway, task>>  BY <1>18 DEF SessionForward
  <2> QED  BY <2>1 DEF AcksStay, AckRouted, AckWritten
<1>19. ASSUME StoreAnswer  PROVE AcksStay
  <2>1. UNCHANGED <<response, gateway, task>>  BY <1>19 DEF StoreAnswer
  <2> QED  BY <2>1 DEF AcksStay, AckRouted, AckWritten
<1>20. ASSUME StoreLost  PROVE AcksStay
  <2>1. UNCHANGED <<response, gateway, task>>  BY <1>20 DEF StoreLost
  <2> QED  BY <2>1 DEF AcksStay, AckRouted, AckWritten
<1>21. ASSUME EmissionStalled  PROVE AcksStay
  <2>1. UNCHANGED <<response, gateway, task>>  BY <1>21 DEF EmissionStalled
  <2> QED  BY <2>1 DEF AcksStay, AckRouted, AckWritten
<1>22. ASSUME StoreClosed  PROVE AcksStay
  <2>1. UNCHANGED <<response, gateway, task>>  BY <1>22 DEF StoreClosed
  <2> QED  BY <2>1 DEF AcksStay, AckRouted, AckWritten
<1>23. ASSUME ClientCloses  PROVE AcksStay
  <2>1. UNCHANGED <<response, gateway, task>>  BY <1>23 DEF ClientCloses
  <2> QED  BY <2>1 DEF AcksStay, AckRouted, AckWritten
<1>24. CASE UNCHANGED vars
  <2>1. UNCHANGED <<response, gateway, task>>  BY <1>24 DEF vars
  <2> QED  BY <2>1 DEF AcksStay, AckRouted, AckWritten
<1> QED
  BY <1>2, <1>3, <1>4, <1>5, <1>6, <1>7, <1>8, <1>9, <1>10, <1>11, <1>12, <1>13, <1>14,
       <1>15, <1>16, <1>17, <1>18, <1>19, <1>20, <1>21, <1>22, <1>23, <1>24
  DEF Next, Dispatcher, Session

\* No event overtakes an acknowledgement.
LEMMA OrderKept ==
  ASSUME RelayInv, [Next]_vars, gateway'.at # "ended"
  PROVE  OrderInv'
<1> USE DEF gateway_vars, pipes, session_vars, store_vars, At
<1>1. /\ RelayType /\ RoutedToRequester /\ TaskInv /\ TransitInv /\ OrderInv /\ ~End
      /\ gateway.at # "ended" /\ gateway'.at # "ended"
  BY StillRuns DEF RelayInv
<1>2. /\ AckRouted \subseteq AckRouted'
      /\ \A x \in Streams : AckWritten(x) => AckWritten(x)'
  BY AckedKept DEF AcksStay
<1>3. PICK R : R = AckRouted'  OBVIOUS
<1>4. Ordered(R, outputs, output_pipe, session, relay, subscribed)
  BY <1>1, <1>2, <1>3, OrderedMore DEF OrderInv
<1>5. ASSUME gateway' = gateway \/ gateway'.at # "event"
      PROVE  (gateway.at = "event" => AckWritten(gateway.on))'
  <2>1. SUFFICES ASSUME gateway' = gateway, gateway.at = "event"  PROVE AckWritten(gateway.on)'
    BY <1>5
  <2>2. PICK g \in Streams : g = gateway.on /\ AckWritten(g)
    BY <1>1, <2>1 DEF OrderInv, RelayType
  <2>3. AckWritten(g)' /\ gateway'.on = g  BY <1>2, <2>1, <2>2
  <2> QED  BY <2>3 DEF AckWritten
<1>6. ASSUME NEW s \in Streams, AcceptBi(s)  PROVE OrderInv'
  <2>1. /\ UNCHANGED <<outputs, output_pipe, session, relay, subscribed>>
        /\ gateway' = gateway \/ gateway'.at # "event"
    BY <1>1, <1>6 DEF AcceptBi
  <2>2. (gateway.at = "event" => AckWritten(gateway.on))'
    BY <1>5, <2>1
  <2> QED  BY <1>3, <1>4, <2>1, <2>2 DEF OrderInv
<1>7. ASSUME NEW s \in Streams, ReadRequest(s)  PROVE OrderInv'
  <2>1. /\ UNCHANGED <<outputs, output_pipe, session, relay, subscribed>>
        /\ gateway' = gateway \/ gateway'.at # "event"
    BY <1>1, <1>7 DEF ReadRequest
  <2>2. (gateway.at = "event" => AckWritten(gateway.on))'
    BY <1>5, <2>1
  <2> QED  BY <1>3, <1>4, <2>1, <2>2 DEF OrderInv
<1>8. ASSUME NEW s \in Streams, WriteResponse(s)  PROVE OrderInv'
  <2>1. /\ UNCHANGED <<outputs, output_pipe, session, relay, subscribed>>
        /\ gateway' = gateway \/ gateway'.at # "event"
    BY <1>1, <1>8 DEF WriteResponse
  <2>2. (gateway.at = "event" => AckWritten(gateway.on))'
    BY <1>5, <2>1
  <2> QED  BY <1>3, <1>4, <2>1, <2>2 DEF OrderInv
<1>9. ASSUME NEW s \in Streams, JoinNext(s)  PROVE OrderInv'
  <2>1. /\ UNCHANGED <<outputs, output_pipe, session, relay, subscribed>>
        /\ gateway' = gateway \/ gateway'.at # "event"
    BY <1>1, <1>9 DEF JoinNext, Selecting
  <2>2. (gateway.at = "event" => AckWritten(gateway.on))'
    BY <1>5, <2>1
  <2> QED  BY <1>3, <1>4, <2>1, <2>2 DEF OrderInv
<1>10. ASSUME NEW s \in Streams, StoreEvent(s)  PROVE OrderInv'
  <2>1. PICK m \in Frame : m = Message("event", s) /\ m.type = "event" /\ m.stream = s  BY Frames
  <2>2. /\ UNCHANGED <<outputs, output_pipe, session, subscribed>>
        /\ relay' = Append(relay, m) /\ relay \in Seq(Frame) /\ s \in subscribed
    BY <1>1, <1>10, <2>1 DEF StoreEvent, RelayType
  <2>3. Ordered(R, outputs, output_pipe, session, Append(relay, m), subscribed)
    BY <1>4, <2>1, <2>2, OrderedQueued
  <2>4. gateway' = gateway  BY <1>10 DEF StoreEvent
  <2>5. (gateway.at = "event" => AckWritten(gateway.on))'
    BY <1>5, <2>4
  <2> QED  BY <1>3, <2>2, <2>3, <2>5 DEF OrderInv
<1>11. ASSUME RecvRequest  PROVE OrderInv'
  <2>1. /\ UNCHANGED <<outputs, output_pipe, session, relay, subscribed>>
        /\ gateway' = gateway \/ gateway'.at # "event"
    BY <1>1, <1>11 DEF RecvRequest
  <2>2. (gateway.at = "event" => AckWritten(gateway.on))'
    BY <1>5, <2>1
  <2> QED  BY <1>3, <1>4, <2>1, <2>2 DEF OrderInv
<1>12. ASSUME WriteRequest  PROVE OrderInv'
  <2>1. /\ UNCHANGED <<outputs, output_pipe, session, relay, subscribed>>
        /\ gateway' = gateway \/ gateway'.at # "event"
    BY <1>1, <1>12 DEF WriteRequest
  <2>2. (gateway.at = "event" => AckWritten(gateway.on))'
    BY <1>5, <2>1
  <2> QED  BY <1>3, <1>4, <2>1, <2>2 DEF OrderInv
<1>13. ASSUME RecvOutput  PROVE OrderInv'
  <2>1. /\ UNCHANGED <<output_pipe, session, relay, subscribed>> /\ outputs \in Seq(Frame)
        /\ outputs # <<>> /\ outputs' = Tail(outputs) /\ gateway.at # "delivering"
    BY <1>1, <1>13 DEF RecvOutput, RelayType, Selecting
  <2>2. PICK m \in Frame : m = Head(outputs)  BY <2>1, TailOf
  <2>3. ASSUME m.type = "ack" => m.stream \in R
        PROVE  Ordered(AckRouted, outputs, output_pipe, session, relay, subscribed)'
    <3>1. Ordered(R, Tail(outputs), output_pipe, session, relay, subscribed)
      BY <1>4, <2>1, <2>2, <2>3, OrderedTaken
    <3> QED  BY <1>3, <2>1, <3>1
  <2>4. CASE m.type = "event" /\ gateway' = At("event", m.stream)
    <3>1. m.stream \in AckRouted /\ m.stream \in Streams
      <4>1. Ordered(AckRouted, outputs, output_pipe, session, relay, subscribed)
        BY <1>1 DEF OrderInv
      <4>2. EventsFollow(outputs, AckRouted)  BY <4>1 DEF Ordered
      <4> QED  BY <2>1, <2>2, <2>4, <4>2, FollowTail, Frames
    <3>2. AckWritten(m.stream)  BY <2>1, <3>1 DEF AckRouted
    <3>3. AckWritten(m.stream)'  BY <1>2, <3>1, <3>2
    <3>4. gateway'.on = m.stream  BY <2>4
    <3>5. AckWritten(gateway.on)'  BY <3>3, <3>4 DEF AckWritten
    <3> QED  BY <2>3, <2>4, <3>5 DEF OrderInv
  <2>5. CASE m.type \notin {"event", "closed"} /\ route(m)
    <3>1. m.stream \in Borne(outputs)
      BY <1>1, <2>1, <2>2, <2>5, BorneTail DEF TransitInv, Bearing
    <3>2. PICK s \in Streams : /\ s = m.stream /\ correlation[s] \in Correlations
                               /\ pending[correlation[s]] = s
      BY <1>1, <3>1 DEF TransitInv
    <3>3. gateway' = At(IF m.type = "ack" THEN "delivering" ELSE "select", s)
      BY <2>5, <3>2 DEF route
    <3>4. m.type = "ack" => m.stream \in R
      <4>1. SUFFICES ASSUME m.type = "ack"  PROVE s \in AckRouted'
        BY <1>3, <3>2
      <4>2. response'[s] = m  BY <1>1, <2>5, <3>2 DEF route, RelayType
      <4>3. m = Message("ack", s)  BY <3>2, <4>1, Frames
      <4>4. gateway'.at = "delivering" /\ gateway'.on = s  BY <3>3, <4>1
      <4> QED  BY <4>2, <4>3, <4>4 DEF AckRouted
    <3>5. gateway'.at # "event"  BY <3>3
    <3> QED  BY <2>3, <3>4, <3>5 DEF OrderInv
  <2> QED  BY <1>1, <1>13, <2>2, <2>4, <2>5 DEF RecvOutput
<1>14. ASSUME WriteEvent  PROVE OrderInv'
  <2>1. /\ UNCHANGED <<outputs, output_pipe, session, relay, subscribed>>
        /\ gateway' = gateway \/ gateway'.at # "event"
    BY <1>1, <1>14 DEF WriteEvent
  <2>2. (gateway.at = "event" => AckWritten(gateway.on))'
    BY <1>5, <2>1
  <2> QED  BY <1>3, <1>4, <2>1, <2>2 DEF OrderInv
<1>15. ASSUME Delivered  PROVE OrderInv'
  <2>1. /\ UNCHANGED <<outputs, output_pipe, session, relay, subscribed>>
        /\ gateway' = gateway \/ gateway'.at # "event"
    BY <1>1, <1>15 DEF Delivered
  <2>2. (gateway.at = "event" => AckWritten(gateway.on))'
    BY <1>5, <2>1
  <2> QED  BY <1>3, <1>4, <2>1, <2>2 DEF OrderInv
<1>16. ASSUME Closed  PROVE OrderInv'
  <2>1. /\ UNCHANGED <<outputs, output_pipe, session, relay, subscribed>>
        /\ gateway' = gateway \/ gateway'.at # "event"
    BY <1>1, <1>16 DEF Closed
  <2>2. (gateway.at = "event" => AckWritten(gateway.on))'
    BY <1>5, <2>1
  <2> QED  BY <1>3, <1>4, <2>1, <2>2 DEF OrderInv
<1>17. ASSUME shutdown_session  PROVE OrderInv'
  <2>1. /\ UNCHANGED <<outputs, output_pipe, session, relay, subscribed>>
        /\ gateway' = gateway \/ gateway'.at # "event"
    BY <1>1, <1>17 DEF shutdown_session
  <2>2. (gateway.at = "event" => AckWritten(gateway.on))'
    BY <1>5, <2>1
  <2> QED  BY <1>3, <1>4, <2>1, <2>2 DEF OrderInv
<1>18. ASSUME ReadOutput  PROVE OrderInv'
  <2>1. UNCHANGED <<relay, subscribed>> /\ outputs \in Seq(Frame) /\ output_pipe \in Seq(Frame)
    BY <1>1, <1>18 DEF ReadOutput, RelayType
  <2>2. gateway' = gateway  BY <1>18 DEF ReadOutput
  <2>3. (gateway.at = "event" => AckWritten(gateway.on))'
    BY <1>5, <2>2
  <2>4. CASE /\ output_pipe # <<>> /\ outputs' = Append(outputs, Head(output_pipe))
             /\ output_pipe' = Tail(output_pipe) /\ UNCHANGED session
    <3>1. Ordered(R, Append(outputs, Head(output_pipe)), Tail(output_pipe), session, relay,
                  subscribed)
      BY <1>4, <2>1, <2>4, OrderedRead
    <3> QED  BY <1>3, <2>1, <2>3, <2>4, <3>1 DEF OrderInv
  <2>5. CASE /\ session.at = "gone" /\ outputs' = Append(outputs, Message("closed", Null))
             /\ session' = At("eof", Null) /\ UNCHANGED output_pipe
    <3>1. PICK m \in Frame : m = Message("closed", Null) /\ m.type = "closed"  BY Frames
    <3>2. PICK y : y = session' /\ y.at # "output" /\ session.at # "output"  BY <2>5
    <3>3. Ordered(R, Append(outputs, m), output_pipe, y, relay, subscribed)
      BY <1>4, <2>1, <3>1, <3>2, OrderedClosed
    <3> QED  BY <1>3, <2>1, <2>3, <2>5, <3>1, <3>2, <3>3 DEF OrderInv
  <2> QED  BY <1>18, <2>4, <2>5 DEF ReadOutput
<1>19. ASSUME ReadInput  PROVE OrderInv'
  <2>1. PICK m \in Frame : m = Message("request", Head(input_pipe)) /\ m.type = "request"
    <3>1. Head(input_pipe) \in Streams  BY <1>1, <1>19, TailOf DEF ReadInput, RelayType
    <3> QED  BY <3>1, Frames
  <2>2. /\ UNCHANGED <<outputs, output_pipe, session, subscribed>>
        /\ relay' = Append(relay, m) /\ relay \in Seq(Frame)
    BY <1>1, <1>19, <2>1 DEF ReadInput, RelayType
  <2>3. Ordered(R, outputs, output_pipe, session, Append(relay, m), subscribed)
    BY <1>4, <2>1, <2>2, OrderedQueued
  <2>4. gateway' = gateway  BY <1>19 DEF ReadInput
  <2>5. (gateway.at = "event" => AckWritten(gateway.on))'
    BY <1>5, <2>4
  <2> QED  BY <1>3, <2>2, <2>3, <2>5 DEF OrderInv
<1>20. ASSUME SessionRecv  PROVE OrderInv'
  <2>1. /\ UNCHANGED <<outputs, output_pipe, subscribed>> /\ relay \in Seq(Frame)
        /\ relay # <<>> /\ relay' = Tail(relay) /\ session.at # "output"
    BY <1>1, <1>20 DEF SessionRecv, RelayType
  <2>2. PICK m \in Frame : m = Head(relay)  BY <2>1, TailOf
  <2>3. PICK y : y = session'  OBVIOUS
  <2>4. /\ m.type \in {"ack", "event"} => y.at = "output" /\ y.on = m
        /\ m.type \notin {"ack", "event"} =>
             y.at # "output" \/ y.on.type \notin {"ack", "event"}
    <3>1. CASE m.type = "request"
      <4>1. m.stream \in Streams  BY <3>1, Frames
      <4>2. \/ y = At("output", Message(negotiate(m.stream), m.stream))
            \/ y = At("store", m)
        BY <1>20, <2>2, <2>3, <3>1 DEF SessionRecv
      <4>3. Message(negotiate(m.stream), m.stream).type \notin {"ack", "event"}
        BY <4>1, Frames DEF negotiate
      <4> QED  BY <3>1, <4>2, <4>3
    <3>2. CASE m.type # "request"
      <4>1. y = IF m.type = "closed" THEN At("gone", Null) ELSE At("output", m)
        BY <1>20, <2>2, <2>3, <3>2 DEF SessionRecv
      <4>2. CASE m.type = "closed"
        <5>1. y.at = "gone"  BY <4>1, <4>2
        <5> QED  BY <4>2, <5>1
      <4>3. CASE m.type # "closed"
        <5>1. y.at = "output" /\ y.on = m  BY <4>1, <4>3
        <5> QED  BY <5>1
      <4> QED  BY <4>2, <4>3
    <3> QED  BY <3>1, <3>2
  <2>5. Ordered(R, outputs, output_pipe, y, Tail(relay), subscribed)
    BY <1>4, <2>1, <2>2, <2>4, OrderedRecv
  <2>6. gateway' = gateway  BY <1>20 DEF SessionRecv
  <2>7. (gateway.at = "event" => AckWritten(gateway.on))'
    BY <1>5, <2>6
  <2> QED  BY <1>3, <2>1, <2>3, <2>5, <2>7 DEF OrderInv
<1>21. ASSUME SessionOutput  PROVE OrderInv'
  <2>1. /\ UNCHANGED <<outputs, relay, subscribed>> /\ output_pipe \in Seq(Frame)
        /\ session.at = "output" /\ session.on \in Frame
        /\ output_pipe' = Append(output_pipe, session.on)
    BY <1>1, <1>21 DEF SessionOutput, RelayType
  <2>2. PICK y : y = session' /\ y.at # "output"  BY <1>21 DEF SessionOutput
  <2>3. Ordered(R, outputs, Append(output_pipe, session.on), y, relay, subscribed)
    BY <1>4, <2>1, <2>2, OrderedOutput
  <2>4. gateway' = gateway  BY <1>21 DEF SessionOutput
  <2>5. (gateway.at = "event" => AckWritten(gateway.on))'
    BY <1>5, <2>4
  <2> QED  BY <1>3, <2>1, <2>2, <2>3, <2>5 DEF OrderInv
<1>22. ASSUME SessionForward  PROVE OrderInv'
  <2>1. UNCHANGED <<outputs, output_pipe, relay, subscribed>>
    BY <1>22 DEF SessionForward
  <2>2. PICK y : y = session' /\ y.at # "output" /\ session.at # "output"
    BY <1>22 DEF SessionForward
  <2>3. Ordered(R, outputs, output_pipe, y, relay, subscribed)
    BY <1>4, <2>2, OrderedIdle
  <2>4. gateway' = gateway  BY <1>22 DEF SessionForward
  <2>5. (gateway.at = "event" => AckWritten(gateway.on))'
    BY <1>5, <2>4
  <2> QED  BY <1>3, <2>1, <2>2, <2>3, <2>5 DEF OrderInv
<1>23. ASSUME StoreAnswer  PROVE OrderInv'
  <2>1. PICK s \in Streams : s = Head(inbox)  BY <1>1, <1>23, TailOf DEF StoreAnswer, RelayType
  <2>2. PICK m \in Frame : /\ relay' = Append(relay, m) /\ m.type # "event" /\ m.stream = s
                           /\ subscribed' \subseteq subscribed \cup {s}
                           /\ subscribed' \subseteq subscribed \/ m.type = "ack"
    BY <1>23, <2>1, Frames DEF StoreAnswer
  <2>3. UNCHANGED <<outputs, output_pipe, session>> /\ relay \in Seq(Frame)
    BY <1>1, <1>23 DEF StoreAnswer, RelayType
  <2>4. PICK b : b = subscribed'  OBVIOUS
  <2>5. Ordered(R, outputs, output_pipe, session, Append(relay, m), b)
    BY <1>4, <2>2, <2>3, <2>4, OrderedQueued
  <2>6. gateway' = gateway  BY <1>23 DEF StoreAnswer
  <2>7. (gateway.at = "event" => AckWritten(gateway.on))'
    BY <1>5, <2>6
  <2> QED  BY <1>3, <2>2, <2>3, <2>4, <2>5, <2>7 DEF OrderInv
<1>24. ASSUME StoreLost  PROVE OrderInv'
  <2>1. /\ UNCHANGED <<outputs, output_pipe, session, relay, subscribed>>
        /\ gateway' = gateway \/ gateway'.at # "event"
    BY <1>1, <1>24 DEF StoreLost
  <2>2. (gateway.at = "event" => AckWritten(gateway.on))'
    BY <1>5, <2>1
  <2> QED  BY <1>3, <1>4, <2>1, <2>2 DEF OrderInv
<1>25. ASSUME EmissionStalled  PROVE OrderInv'
  <2>1. /\ UNCHANGED <<outputs, output_pipe, session, relay, subscribed>>
        /\ gateway' = gateway \/ gateway'.at # "event"
    BY <1>1, <1>25 DEF EmissionStalled
  <2>2. (gateway.at = "event" => AckWritten(gateway.on))'
    BY <1>5, <2>1
  <2> QED  BY <1>3, <1>4, <2>1, <2>2 DEF OrderInv
<1>26. ASSUME StoreClosed  PROVE OrderInv'
  <2>1. PICK m \in Frame : m = Message("closed", Null) /\ m.type = "closed"  BY Frames
  <2>2. /\ UNCHANGED <<outputs, output_pipe, session, subscribed>>
        /\ relay' = Append(relay, m) /\ relay \in Seq(Frame)
    BY <1>1, <1>26, <2>1 DEF StoreClosed, RelayType
  <2>3. Ordered(R, outputs, output_pipe, session, Append(relay, m), subscribed)
    BY <1>4, <2>1, <2>2, OrderedQueued
  <2>4. gateway' = gateway  BY <1>26 DEF StoreClosed
  <2>5. (gateway.at = "event" => AckWritten(gateway.on))'
    BY <1>5, <2>4
  <2> QED  BY <1>3, <2>2, <2>3, <2>5 DEF OrderInv
<1>27. ASSUME ClientCloses  PROVE OrderInv'
  <2>1. /\ UNCHANGED <<outputs, output_pipe, session, relay, subscribed>>
        /\ gateway' = gateway \/ gateway'.at # "event"
    BY <1>1, <1>27 DEF ClientCloses
  <2>2. (gateway.at = "event" => AckWritten(gateway.on))'
    BY <1>5, <2>1
  <2> QED  BY <1>3, <1>4, <2>1, <2>2 DEF OrderInv
<1>28. CASE UNCHANGED vars
  <2>1. /\ UNCHANGED <<outputs, output_pipe, session, relay, subscribed>>
        /\ gateway' = gateway \/ gateway'.at # "event"
    BY <1>1, <1>28 DEF vars
  <2>2. (gateway.at = "event" => AckWritten(gateway.on))'
    BY <1>5, <2>1
  <2> QED  BY <1>3, <1>4, <2>1, <2>2 DEF OrderInv
<1> QED
  BY <1>6, <1>7, <1>8, <1>9, <1>10, <1>11, <1>12, <1>13, <1>14, <1>15, <1>16, <1>17,
       <1>18, <1>19, <1>20, <1>21, <1>22, <1>23, <1>24, <1>25, <1>26, <1>27, <1>28
  DEF Next, Dispatcher, Session
----------------------------------------------------------------------------
\* The invariant holds at first.
LEMMA RelayInit == Init => RelayInv
<1> SUFFICES ASSUME Init  PROVE RelayInv
  OBVIOUS
<1> USE DEF At
<1>1. RelayType
  BY RelayConstants DEF Init, RelayType, Tasks
<1>2. RoutedToRequester /\ AckBeforeEvents
  BY DEF Init, RoutedToRequester, AckBeforeEvents
<1>3. \A q : q = <<>> => /\ Items(q) = {} /\ Borne(q) = {} /\ Acks(q) = {} /\ Distinct(q)
                         /\ Once(q) /\ \A S : EventsFollow(q, S)
  <2>1. SUFFICES ASSUME NEW q, q = <<>>
                 PROVE  /\ Items(q) = {} /\ Borne(q) = {} /\ Acks(q) = {} /\ Distinct(q)
                        /\ Once(q) /\ \A S : EventsFollow(q, S)
    OBVIOUS
  <2>2. 1..Len(q) = {}  BY <2>1
  <2>3. Items(q) = {}  BY <2>2 DEF Items
  <2> QED  BY <2>2, <2>3 DEF Borne, Acks, Distinct, Once, EventsFollow
<1>4. TaskInv
  <2>1. Items(requests) = {} /\ Distinct(requests)  BY <1>3 DEF Init
  <2> QED  BY <2>1 DEF Init, TaskInv
<1>5. TransitInv
  <2>1. Writing = {} /\ InSession = {}  BY DEF Init, Writing, InSession
  <2> QED  BY <1>3, <2>1 DEF Init, TransitInv, Apart
<1>6. OrderInv
  <2>1. session.at # "output" /\ gateway.at # "event" /\ subscribed = {}  BY DEF Init
  <2> QED  BY <1>3, <2>1 DEF Init, OrderInv, Ordered
<1> QED  BY <1>1, <1>2, <1>4, <1>5, <1>6 DEF RelayInv

\* Every step keeps the invariant, also the one that ends the dispatcher.
LEMMA RelayInductive == RelayInv /\ [Next]_vars => RelayInv'
BY TypeKept, RoutedKept, TaskKept, TransitKept, OrderKept DEF RelayInv

\* The invariant holds in every behaviour.
LEMMA RelayCorrect == Spec => []RelayInv
BY RelayInit, RelayInductive, PTL DEF Spec

\* What the client receives on a stream answers the request of that stream
\* (relay_session), for every number of streams and every choice of identifiers:
\* one is in use while a request that bears it, or its answer, is on its way.
THEOREM RoutedToRequesterCorrect == Spec => []RoutedToRequester
<1>1. RelayInv => RoutedToRequester  BY DEF RelayInv
<1> QED  BY <1>1, RelayCorrect, PTL

\* No event of a subscription is written to the client before the acknowledgement
\* of it (relay_session with the deliveries it waits for), whatever the capacities
\* of the queues and pipes on the way.
THEOREM AckBeforeEventsCorrect == Spec => []AckBeforeEvents
<1>1. RelayInv => AckBeforeEvents  BY DEF RelayInv
<1> QED  BY <1>1, RelayCorrect, PTL
============================================================================
