------------------------------- MODULE Relay --------------------------------
(***************************************************************************)
(* One public connection: the dispatcher of renee-gatewayd and its request *)
(* tasks, the pipes to and from the connection's renee-sessiond, and the   *)
(* relay loop of that process with its broker channel to renee-stored.     *)
(*                                                                         *)
(* A stream carries one request.  A message is its type and the stream     *)
(* whose request it answers; on the wire only the stream's correlation     *)
(* identifier is there, and that is all the code looks at.  Capacities     *)
(* count frames, also those of a pipe, which really holds bytes: a frame   *)
(* that the reader of a pipe holds, while its queue has no room, counts as *)
(* one that is still in the pipe.  The store answers every request and     *)
(* sends events for a subscription that it has acknowledged: module        *)
(* Subscriptions says when.                                                *)
(*                                                                         *)
(* After the dispatcher has ended the session works off what it has, until *)
(* shutdown_session ends it.                                               *)
(***************************************************************************)
EXTENDS Integers, Sequences, FiniteSets

CONSTANTS
  Correlations,
  Requests,                 \* bound of the model: the streams a client opens, and for
                            \* each the requests it may send on it
  MAX_CONNECTION_REQUESTS,  \* tasks of a connection
  OUTPUT_QUEUE_CAPACITY,    \* frames between read_session_output and the dispatcher
  RELAY_QUEUE_CAPACITY,
  PIPE_CAPACITY,
  MAX_EVENTS,               \* bound of the model
  Null

VARIABLES
  task,         \* stream -> where the task of its request is
  kind,         \* stream -> what it asks for
  correlation,  \* stream -> the identifier the client chose
  requests,     \* queue from the tasks to the dispatcher
  pending,      \* correlation -> stream that waits, or Null
  response,     \* stream -> the message routed to its task, or Null
  gateway,      \* where the dispatcher is, and on which stream
  outputs,      \* queue from read_session_output to the dispatcher
  input_pipe, output_pipe,
  session,      \* where the loop of sessiond is, and its frame
  negotiated,
  relay,        \* queue to the loop of sessiond
  inbox,        \* requests on the broker channel
  store,        \* state of the broker channel
  subscribed,   \* streams whose subscription the store acknowledged
  events,       \* events sent so far
  connected,    \* the client has not closed its connection
  emitted       \* history: streams of the events written to the client

gateway_vars == <<task, kind, correlation, requests, pending, response, gateway, outputs>>
pipes == <<input_pipe, output_pipe>>
session_vars == <<session, negotiated, relay>>
store_vars == <<inbox, store, subscribed, events>>
vars == <<gateway_vars, pipes, session_vars, store_vars, connected, emitted>>

Kinds == {"hello", "bad_hello", "subscribe", "other", "manifest", "malformed"}
Request == [kind : Kinds, correlation : Correlations]
Streams == DOMAIN Requests

ASSUME RelayConstants ==
  /\ Requests \in Seq(SUBSET Request)
  /\ {MAX_CONNECTION_REQUESTS, OUTPUT_QUEUE_CAPACITY, RELAY_QUEUE_CAPACITY, PIPE_CAPACITY}
       \subseteq Nat \ {0}
  /\ MAX_EVENTS \in Nat
  /\ Null \notin Streams \cup Correlations
----------------------------------------------------------------------------
Message(type, s) == [type |-> type, stream |-> s]
At(place, item) == [at |-> place, on |-> item]
Selecting == gateway.at = "select"
Alive == session.at \in {"recv", "output", "store"}

\* The JoinSet counts a task until it is joined.
Unjoined == {s \in Streams : task[s] \notin {"none", "joined"}}

\* The dispatcher returns: dropping its tasks resets the streams they own.
End ==
  /\ gateway' = At("ended", Null)
  /\ task' = [s \in Streams |-> IF task[s] \in {"none", "finished", "joined"} THEN task[s]
                                ELSE "reset"]

\* Mutant of Rejected: the identifier may be in use.
Rejected_never(s) == Cardinality({c \in Correlations : pending[c] # Null}) >= MAX_CONNECTION_REQUESTS

\* The dispatcher's limits on what it forwards.
Rejected(s) ==
  \/ Cardinality({c \in Correlations : pending[c] # Null}) >= MAX_CONNECTION_REQUESTS
  \/ pending[correlation[s]] # Null

\* Mutant of route: nobody waits for the acknowledgement's delivery.
route_undelivered(message) ==
  LET s == pending[correlation[message.stream]]
  IN  /\ pending' = [pending EXCEPT ![correlation[message.stream]] = Null]
      /\ response' = [response EXCEPT ![s] = message]
      /\ task' = [task EXCEPT ![s] = "routed"]
      /\ gateway' = At("select", Null)

\* A response goes to the task that waits under its correlation identifier;
\* the dispatcher waits for the delivery of an acknowledgement.
route(message) ==
  LET s == pending[correlation[message.stream]]
  IN  /\ pending' = [pending EXCEPT ![correlation[message.stream]] = Null]
      /\ response' = [response EXCEPT ![s] = message]
      /\ task' = [task EXCEPT ![s] = "routed"]
      /\ gateway' = At(IF message.type = "ack" THEN "delivering" ELSE "select", s)
----------------------------------------------------------------------------
\* relay_session: the next stream is accepted, and ends the relay beyond the
\* limit.
AcceptBi(s) ==
  /\ Selecting
  /\ connected
  /\ \A r \in Streams : task[r] = "none" <=> r >= s
  /\ IF Cardinality(Unjoined) >= MAX_CONNECTION_REQUESTS
       THEN End /\ UNCHANGED <<kind, correlation>>
       ELSE /\ task' = [task EXCEPT ![s] = "reading"]
            /\ \E r \in Requests[s] :
                 /\ kind' = [kind EXCEPT ![s] = r.kind]
                 /\ correlation' = [correlation EXCEPT ![s] = r.correlation]
            /\ UNCHANGED gateway
  /\ UNCHANGED <<requests, pending, response, outputs, pipes, session_vars, store_vars,
                 connected, emitted>>

\* relay_public_request: a whole frame and the end of the stream were read, the
\* stream ended before a frame, or neither.
ReadRequest(s) ==
  /\ gateway.at # "ended"
  /\ task[s] = "reading"
  /\ \/ /\ task' = [task EXCEPT ![s] = "queued"]
        /\ requests' = Append(requests, s)
     \/ /\ \E end \in {"finished", "failed"} : task' = [task EXCEPT ![s] = end]
        /\ UNCHANGED requests
  /\ UNCHANGED <<kind, correlation, pending, response, gateway, outputs, pipes,
                 session_vars, store_vars, connected, emitted>>

\* The dispatcher takes a request: it answers one for the manifest itself.
RecvRequest ==
  LET s == Head(requests)
  IN  /\ Selecting
      /\ requests # <<>>
      /\ requests' = Tail(requests)
      /\ \/ /\ kind[s] = "malformed" \/ (kind[s] # "manifest" /\ Rejected(s))
            /\ End
            /\ UNCHANGED <<pending, response>>
         \/ /\ kind[s] = "manifest"
            /\ response' = [response EXCEPT ![s] = Message("manifest", s)]
            /\ task' = [task EXCEPT ![s] = "routed"]
            /\ UNCHANGED <<pending, gateway>>
         \/ /\ kind[s] \notin {"malformed", "manifest"}
            /\ ~Rejected(s)
            /\ pending' = [pending EXCEPT ![correlation[s]] = s]
            /\ gateway' = At("writing", s)
            /\ task' = [task EXCEPT ![s] = "pending"]
            /\ UNCHANGED response
      /\ UNCHANGED <<kind, correlation, outputs, pipes, session_vars, store_vars,
                     connected, emitted>>

\* write_body to the session: it waits while the pipe is full, and nothing else
\* in the dispatcher runs.
WriteRequest ==
  /\ gateway.at = "writing"
  /\ IF ~Alive
       THEN End /\ UNCHANGED input_pipe
       ELSE /\ Len(input_pipe) < PIPE_CAPACITY
            /\ input_pipe' = Append(input_pipe, gateway.on)
            /\ gateway' = At("select", Null)
            /\ UNCHANGED task
  /\ UNCHANGED <<kind, correlation, requests, pending, response, outputs, output_pipe,
                 session_vars, store_vars, connected, emitted>>

\* The dispatcher takes what the session sent.
RecvOutput ==
  LET message == Head(outputs)
  IN  /\ Selecting
      /\ outputs # <<>>
      /\ outputs' = Tail(outputs)
      /\ \/ /\ message.type = "event"
            /\ gateway' = At("event", message.stream)
            /\ UNCHANGED <<task, pending, response>>
         \/ /\ \/ message.type = "closed"
               \/ /\ message.type \notin {"event", "closed"}
                  /\ pending[correlation[message.stream]] = Null
            /\ End
            /\ UNCHANGED <<pending, response>>
         \/ /\ message.type \notin {"event", "closed"}
            /\ pending[correlation[message.stream]] # Null
            /\ route(message)
      /\ UNCHANGED <<kind, correlation, requests, pipes, session_vars, store_vars,
                     connected, emitted>>

\* The dispatcher writes an event to a stream of its own: the client may be gone,
\* or stop that stream.
WriteEvent ==
  /\ gateway.at = "event"
  /\ \/ /\ connected
        /\ emitted' = emitted \cup {gateway.on}
        /\ gateway' = At("select", Null)
        /\ UNCHANGED task
     \/ End /\ UNCHANGED emitted
  /\ UNCHANGED <<kind, correlation, requests, pending, response, outputs, pipes,
                 session_vars, store_vars, connected>>

\* The rest of relay_public_request: the client may have stopped the stream.
WriteResponse(s) ==
  /\ gateway.at # "ended"
  /\ task[s] = "routed"
  /\ \E end \in (IF connected THEN {"finished", "failed"} ELSE {"failed"}) :
       task' = [task EXCEPT ![s] = end]
  /\ UNCHANGED <<kind, correlation, requests, pending, response, gateway, outputs, pipes,
                 session_vars, store_vars, connected, emitted>>

\* Mutant of Delivered: a client that stopped the stream is not noticed.
Delivered_only ==
  /\ gateway.at = "delivering"
  /\ task[gateway.on] = "finished"
  /\ gateway' = At("select", Null)
  /\ UNCHANGED <<task, kind, correlation, requests, pending, response, outputs, pipes,
                 session_vars, store_vars, connected, emitted>>

\* The dispatcher hears of the delivery of an acknowledgement.
Delivered ==
  /\ gateway.at = "delivering"
  /\ \/ /\ task[gateway.on] = "finished"
        /\ gateway' = At("select", Null)
        /\ UNCHANGED task
     \/ task[gateway.on] = "failed" /\ End
  /\ UNCHANGED <<kind, correlation, requests, pending, response, outputs, pipes,
                 session_vars, store_vars, connected, emitted>>

\* join_next: a task that failed ends the relay.
JoinNext(s) ==
  /\ Selecting
  /\ \/ task[s] = "finished" /\ task' = [task EXCEPT ![s] = "joined"] /\ UNCHANGED gateway
     \/ task[s] = "failed" /\ End
  /\ UNCHANGED <<kind, correlation, requests, pending, response, outputs, pipes,
                 session_vars, store_vars, connected, emitted>>

\* The connection is closed: seen only where the dispatcher selects.
Closed ==
  /\ Selecting
  /\ ~connected
  /\ End
  /\ UNCHANGED <<kind, correlation, requests, pending, response, outputs, pipes,
                 session_vars, store_vars, connected, emitted>>

\* read_session_output.
ReadOutput ==
  /\ gateway.at # "ended"
  /\ Len(outputs) < OUTPUT_QUEUE_CAPACITY
  /\ \/ /\ output_pipe # <<>>
        /\ outputs' = Append(outputs, Head(output_pipe))
        /\ output_pipe' = Tail(output_pipe)
        /\ UNCHANGED session
     \/ /\ output_pipe = <<>>
        /\ session.at = "gone"
        /\ outputs' = Append(outputs, Message("closed", Null))
        /\ session' = At("eof", Null)
        /\ UNCHANGED output_pipe
  /\ UNCHANGED <<task, kind, correlation, requests, pending, response, gateway, input_pipe,
                 negotiated, relay, store_vars, connected, emitted>>

\* hold_session after the relay: the connection is closed, and shutdown_session
\* waits for the end of the session's process or kills it.
shutdown_session ==
  /\ gateway.at = "ended"
  /\ session.at # "reaped" \/ connected
  /\ session' = At("reaped", Null)
  /\ connected' = FALSE
  /\ UNCHANGED <<gateway_vars, pipes, negotiated, relay, store_vars, emitted>>
----------------------------------------------------------------------------
\* The thread of sessiond that reads its input.
ReadInput ==
  /\ Alive
  /\ input_pipe # <<>>
  /\ Len(relay) < RELAY_QUEUE_CAPACITY
  /\ relay' = Append(relay, Message("request", Head(input_pipe)))
  /\ input_pipe' = Tail(input_pipe)
  /\ UNCHANGED <<gateway_vars, output_pipe, session, negotiated, store_vars, connected,
                 emitted>>

\* Answer of sessiond to a greeting, or to anything that precedes one.
negotiate(s) ==
  IF ~negotiated /\ kind[s] = "hello" THEN "server_hello" ELSE "protocol_error"

\* The loop of sessiond takes a frame of the gateway or of the store.
SessionRecv ==
  LET frame == Head(relay)
  IN  /\ session.at = "recv"
      /\ relay # <<>>
      /\ relay' = Tail(relay)
      /\ \/ /\ frame.type = "request"
            /\ ~negotiated \/ kind[frame.stream] \in {"hello", "bad_hello"}
            /\ session' = At("output", Message(negotiate(frame.stream), frame.stream))
            /\ negotiated' = (negotiated \/ negotiate(frame.stream) = "server_hello")
         \/ /\ frame.type = "request"
            /\ negotiated /\ kind[frame.stream] \notin {"hello", "bad_hello"}
            /\ session' = At("store", frame)
            /\ UNCHANGED negotiated
         \/ /\ frame.type # "request"
            /\ session' = IF frame.type = "closed" THEN At("gone", Null)
                          ELSE At("output", frame)
            /\ UNCHANGED negotiated
      /\ UNCHANGED <<gateway_vars, pipes, store_vars, connected, emitted>>

\* It writes to the gateway, and waits while that pipe is full.  Nobody reads
\* the pipe of a dispatcher that has ended: the write fails.
SessionOutput ==
  /\ session.at = "output"
  /\ \/ /\ gateway.at # "ended"
        /\ Len(output_pipe) < PIPE_CAPACITY
        /\ output_pipe' = Append(output_pipe, session.on)
        /\ session' = At("recv", Null)
     \/ /\ gateway.at = "ended"
        /\ session' = At("gone", Null)
        /\ UNCHANGED output_pipe
  /\ UNCHANGED <<gateway_vars, input_pipe, negotiated, relay, store_vars, connected,
                 emitted>>

\* It forwards a request to the store, and ends when the channel is lost.  The
\* socket holds every request that a connection may have outstanding.
SessionForward ==
  /\ session.at = "store"
  /\ \/ /\ store = "open"
        /\ inbox' = Append(inbox, session.on.stream)
        /\ session' = At("recv", Null)
     \/ /\ store # "open"
        /\ session' = At("gone", Null)
        /\ UNCHANGED inbox
  /\ UNCHANGED <<gateway_vars, pipes, negotiated, relay, store, subscribed, events,
                 connected, emitted>>
----------------------------------------------------------------------------
\* The store behind the channel (external), and the task that reads from it.
StoreAnswer ==
  LET s == Head(inbox)
  IN  /\ store = "open"
      /\ Alive
      /\ inbox # <<>>
      /\ Len(relay) < RELAY_QUEUE_CAPACITY
      /\ inbox' = Tail(inbox)
      /\ relay' = Append(relay, Message(IF kind[s] = "subscribe" THEN "ack" ELSE "answer", s))
      /\ subscribed' = IF kind[s] = "subscribe" THEN subscribed \cup {s} ELSE subscribed
      /\ UNCHANGED <<gateway_vars, pipes, session, negotiated, store, events, connected,
                     emitted>>

StoreEvent(s) ==
  /\ store = "open"
  /\ Alive
  /\ s \in subscribed
  /\ events < MAX_EVENTS
  /\ Len(relay) < RELAY_QUEUE_CAPACITY
  /\ relay' = Append(relay, Message("event", s))
  /\ events' = events + 1
  /\ UNCHANGED <<gateway_vars, pipes, session, negotiated, inbox, store, subscribed,
                 connected, emitted>>

\* The store's process ends.
StoreLost ==
  /\ store = "open"
  /\ store' = "lost"
  /\ UNCHANGED <<gateway_vars, pipes, session_vars, inbox, subscribed, events, connected,
                 emitted>>

\* The emission timeout of the store: an event that cannot be written.
EmissionStalled ==
  /\ store = "open"
  /\ subscribed # {}
  /\ events < MAX_EVENTS
  /\ Len(relay) >= RELAY_QUEUE_CAPACITY
  /\ store' = "lost"
  /\ UNCHANGED <<gateway_vars, pipes, session_vars, inbox, subscribed, events, connected,
                 emitted>>

\* read_relay_frames at the end of the channel.
StoreClosed ==
  /\ store = "lost"
  /\ Alive
  /\ Len(relay) < RELAY_QUEUE_CAPACITY
  /\ relay' = Append(relay, Message("closed", Null))
  /\ store' = "closed"
  /\ UNCHANGED <<gateway_vars, pipes, session, negotiated, inbox, subscribed, events,
                 connected, emitted>>

\* Environment: the client closes its connection.
ClientCloses ==
  /\ connected
  /\ gateway.at # "ended"
  /\ connected' = FALSE
  /\ UNCHANGED <<gateway_vars, pipes, session_vars, store_vars, emitted>>
----------------------------------------------------------------------------
Init ==
  /\ task = [s \in Streams |-> "none"]
  /\ kind = [s \in Streams |-> Null]
  /\ correlation = [s \in Streams |-> Null]
  /\ requests = <<>>
  /\ pending = [c \in Correlations |-> Null]
  /\ response = [s \in Streams |-> Null]
  /\ gateway = At("select", Null)
  /\ outputs = <<>>
  /\ input_pipe = <<>>
  /\ output_pipe = <<>>
  /\ session = At("recv", Null)
  /\ negotiated = FALSE
  /\ relay = <<>>
  /\ inbox = <<>>
  /\ store = "open"
  /\ subscribed = {}
  /\ events = 0
  /\ connected = TRUE
  /\ emitted = {}

Dispatcher ==
  \/ RecvRequest \/ WriteRequest \/ RecvOutput \/ WriteEvent \/ Delivered \/ Closed
  \/ shutdown_session

Session == ReadInput \/ SessionRecv \/ SessionOutput \/ SessionForward

Next ==
  \/ \E s \in Streams : \/ AcceptBi(s) \/ ReadRequest(s) \/ WriteResponse(s)
                        \/ JoinNext(s) \/ StoreEvent(s)
  \/ Dispatcher \/ ReadOutput \/ Session
  \/ StoreAnswer \/ StoreLost \/ EmissionStalled \/ StoreClosed \/ ClientCloses

Spec == Init /\ [][Next]_vars

\* The runtimes run every task that can run.  The client reads what is written
\* to it, and the store answers: neither is up to the relay.
FairSpec ==
  /\ Spec
  /\ WF_vars(Dispatcher) /\ WF_vars(ReadOutput) /\ WF_vars(Session)
  /\ WF_vars(StoreAnswer) /\ WF_vars(EmissionStalled) /\ WF_vars(StoreClosed)
  /\ \A s \in Streams :
       WF_vars(ReadRequest(s)) /\ WF_vars(WriteResponse(s)) /\ WF_vars(JoinNext(s))
----------------------------------------------------------------------------
\* Properties.

\* What a stream's client receives answers the request of that stream, also
\* when it uses an identifier again that an earlier or a concurrent request
\* used (relay_session).
RoutedToRequester ==
  \A s \in Streams : response[s] # Null => response[s].stream = s

\* "Put its acknowledgement on the IPC stream before a task can emit any later
\* wakeup" holds to the end: no event of a subscription is written to the
\* client before its acknowledgement, although they use different streams.
AckBeforeEvents ==
  \A s \in emitted :
    response[s] = Message("ack", s) /\ task[s] \in {"finished", "joined"}

\* The circle in which everyone waits: the dispatcher in write_body for room in
\* the input pipe, the thread that reads this pipe and the loop of sessiond for
\* room behind it, and read_session_output for the dispatcher.
Wedged ==
  /\ gateway.at = "writing" /\ Len(input_pipe) >= PIPE_CAPACITY
  /\ Len(relay) >= RELAY_QUEUE_CAPACITY
  /\ session.at = "output" /\ Len(output_pipe) >= PIPE_CAPACITY
  /\ Len(outputs) >= OUTPUT_QUEUE_CAPACITY

\* No request that was read stays without an answer while its connection lasts,
\* and once the client is gone the dispatcher ends and the session's process with
\* it, unless the circle closes: whoever waits elsewhere in relay_session,
\* relay_public_request or sessiond is served in the end, also when streams are
\* stopped and the store is lost.  A stream carries one request, so a request
\* that is never settled, and a connection that is never released, are seen here.
SettlesUnlessWedged ==
  LET Unsettled == {s \in Streams : task[s] \in {"queued", "pending", "routed", "failed"}}
      Released == gateway.at = "ended" /\ session.at = "reaped"
  IN  []<>(Wedged \/ Released \/ (connected /\ gateway.at # "ended" /\ Unsettled = {}))

\* "A connection-scoped deadline prevents a wedged child from retaining gateway
\* resources" (shutdown_session): once the client is gone the dispatcher ends
\* and the session's process with it.
ConnectionReleased == ~connected ~> (gateway.at = "ended" /\ session.at = "reaped")
============================================================================
