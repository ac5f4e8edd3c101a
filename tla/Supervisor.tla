----------------------------- MODULE Supervisor -----------------------------
(***************************************************************************)
(* renee-supervisord: one loop that starts the permanent children in       *)
(* order, watches them, replaces the one that exits, and drains the whole  *)
(* group in reverse order when a child fails too often or the supervisor   *)
(* is told to stop.                                                        *)
(*                                                                         *)
(* A child is the process together with the supervisor's handle on it.  An *)
(* instant is kept as its age, so that time has no bound: a failure older  *)
(* than MAX_RESTART_TIME is evicted when the budget is asked next, however *)
(* old it is.  The restart delays are shorter than a unit of time.         *)
(***************************************************************************)
EXTENDS Integers, Sequences, FiniteSets

CONSTANTS
  Addresses,         \* what the system binds for port zero
  AnyPort,           \* an address whose port is zero
  BIND_ADDRESS,      \* --bind of the configuration
  MAX_RESTARTS,
  MAX_RESTART_TIME,
  Null

VARIABLES
  loop,           \* where the supervisor is
  at,             \* the child it works on, an index of child_specs
  after,          \* what follows the drain
  child,          \* role -> state of its process
  listening,      \* role -> address of its last process, or Null
  original,       \* role -> --bind of the specification
  active,         \* role -> --bind of the specification in use
  store_address,  \* --store of the gateway's specification in use
  failures,       \* role -> ages in its restart budget
  shutdown,       \* the future of wait_for_shutdown is ready
  published,      \* history: gateway address of the first READY record
  spawned         \* history: role -> recent ages of this generation's spawns

specs == <<original, active, store_address>>
vars == <<loop, at, after, child, listening, specs, failures, shutdown, published, spawned>>

ASSUME SupervisorConstants ==
  /\ MAX_RESTARTS \in Nat /\ MAX_RESTART_TIME \in Nat \ {0}
  /\ BIND_ADDRESS \in Addresses \cup {AnyPort}
  /\ AnyPort \notin Addresses /\ Null \notin Addresses \cup {AnyPort}
----------------------------------------------------------------------------
child_specs == <<"stored", "gatewayd">>
Roles == {"stored", "gatewayd"}
role == child_specs[at]

Running == {"spawned", "live", "stopping"}

\* The oldest entries, as far as all of them are outside the window.
Stale(ages) == {i \in DOMAIN ages : \A j \in 1..i : ages[j] >= MAX_RESTART_TIME}

Recent(ages) == SubSeq(ages, Cardinality(Stale(ages)) + 1, Len(ages))

\* Mutant of record_failure: one failure too many.
record_failure_late(ages) ==
  LET kept == Recent(ages)
  IN  [admitted |-> Len(kept) <= MAX_RESTARTS,
       failures |-> IF Len(kept) <= MAX_RESTARTS THEN Append(kept, 0) ELSE kept]

\* Eviction precedes the test of the limit.
record_failure(ages) ==
  LET kept == Recent(ages)
  IN  [admitted |-> Len(kept) < MAX_RESTARTS,
       failures |-> IF Len(kept) < MAX_RESTARTS THEN Append(kept, 0) ELSE kept]

\* Mutant of stabilize_ready_child: a replacement binds any port again.
stabilize_ready_child_unbound ==
  /\ UNCHANGED active
  /\ store_address' = IF role = "stored" THEN listening[role] ELSE store_address
  /\ original' = IF role = "gatewayd" THEN [original EXCEPT ![role] = listening[role]]
                 ELSE original

\* The address that the child reported replaces the one it was asked for.
stabilize_ready_child ==
  /\ active' = [active EXCEPT ![role] = listening[role]]
  /\ store_address' = IF role = "stored" THEN listening[role] ELSE store_address
  /\ original' = IF role = "gatewayd" THEN [original EXCEPT ![role] = listening[role]]
                 ELSE original

\* Mutant of Drain: the children stop in the order in which they started.
Drain_forward(next) ==
  /\ loop' = "drain"
  /\ at' = 1
  /\ after' = next

\* shutdown_children walks the children from the last one.
Drain(next) ==
  /\ loop' = "drain"
  /\ at' = Len(child_specs)
  /\ after' = next

\* A new generation starts from the specifications, with fresh budgets.
Generation ==
  /\ loop' = "start"
  /\ at' = 1
  /\ active' = original
  /\ store_address' = Null
  /\ failures' = [r \in Roles |-> <<>>]
  /\ spawned' = [r \in Roles |-> <<>>]
----------------------------------------------------------------------------
\* spawn_ready_child up to its first wait: the process binds its address.
Spawn ==
  /\ loop \in {"start", "restart"}
  /\ child[role] = "none"
  /\ child' = [child EXCEPT ![role] = "spawned"]
  /\ \E address \in Addresses :
       /\ active[role] \in {AnyPort, address}
       /\ listening' = [listening EXCEPT ![role] = address]
  /\ spawned' = [spawned EXCEPT ![role] = Append(@, 0)]
  /\ UNCHANGED <<loop, at, after, specs, failures, shutdown, published>>

\* start_group with a child whose readiness was read; the last one completes
\* the group, whose first readiness record is published.
Started ==
  /\ loop = "start"
  /\ child[role] = "spawned"
  /\ child' = [child EXCEPT ![role] = "live"]
  /\ stabilize_ready_child
  /\ IF at < Len(child_specs)
       THEN at' = at + 1 /\ UNCHANGED <<loop, published>>
       ELSE /\ at' = 1
            /\ loop' = "monitor"
            /\ published' = IF published = Null THEN listening[role] ELSE published
  /\ UNCHANGED <<after, listening, failures, shutdown, spawned>>

\* restart with a replacement whose readiness was read.
Restarted ==
  /\ loop = "restart"
  /\ child[role] = "spawned"
  /\ child' = [child EXCEPT ![role] = "live"]
  /\ loop' = "monitor"
  /\ at' = (at % Len(child_specs)) + 1
  /\ UNCHANGED <<after, listening, specs, failures, shutdown, published, spawned>>

\* A spawn that fails, times out, or reports no usable readiness.  Dropping
\* the handle kills the process.
NotReady ==
  /\ loop \in {"start", "restart"}
  /\ child[role] \in {"none", "spawned"}
  /\ child' = [child EXCEPT ![role] = "none"]
  /\ LET budget == record_failure(failures[role])
     IN  /\ failures' = [failures EXCEPT ![role] = budget.failures]
         /\ \/ budget.admitted /\ UNCHANGED <<loop, at, after>>
            \/ ~budget.admitted /\ Drain(IF loop = "start" THEN "retry" ELSE "regroup")
  /\ UNCHANGED <<listening, specs, shutdown, published, spawned>>

\* monitor_children: one look at one child.
Poll ==
  /\ loop = "monitor"
  /\ \/ /\ child[role] = "live"
        /\ at' = (at % Len(child_specs)) + 1
        /\ UNCHANGED <<loop, after, child, failures>>
     \/ /\ child[role] = "exited"
        /\ child' = [child EXCEPT ![role] = "none"]
        /\ LET budget == record_failure(failures[role])
           IN  /\ failures' = [failures EXCEPT ![role] = budget.failures]
               /\ \/ budget.admitted /\ loop' = "restart" /\ UNCHANGED <<at, after>>
                  \/ ~budget.admitted /\ Drain("regroup")
  /\ UNCHANGED <<listening, specs, shutdown, published, spawned>>

\* The exit status of a child cannot be read.
ObservationFailed ==
  /\ loop = "monitor"
  /\ Drain("regroup")
  /\ UNCHANGED <<child, listening, specs, failures, shutdown, published, spawned>>
----------------------------------------------------------------------------
\* shutdown_child closes the input of a child that has a handle.
CloseInput ==
  /\ loop = "drain"
  /\ at > 0
  /\ child[role] = "live"
  /\ child' = [child EXCEPT ![role] = "stopping"]
  /\ UNCHANGED <<loop, at, after, listening, specs, failures, shutdown, published, spawned>>

\* Mutant of Stopped: no deadline, the child is waited for.
Stopped_patient ==
  /\ loop = "drain"
  /\ at > 0
  /\ child[role] \in {"none", "exited"}
  /\ child' = [child EXCEPT ![role] = "none"]
  /\ at' = at - 1
  /\ UNCHANGED <<loop, after, listening, specs, failures, shutdown, published, spawned>>

\* The rest of shutdown_child: there was no child, it exited, or its deadline
\* passed or its status could not be read and it is killed.
Stopped ==
  /\ loop = "drain"
  /\ at > 0
  /\ child[role] \in {"none", "exited", "stopping"}
  /\ child' = [child EXCEPT ![role] = "none"]
  /\ at' = at - 1
  /\ UNCHANGED <<loop, after, listening, specs, failures, shutdown, published, spawned>>

\* The group is drained: run returns, or the next group starts.
Drained ==
  /\ loop = "drain"
  /\ at = 0
  /\ \/ /\ after = "exit"
        /\ loop' = "done"
        /\ UNCHANGED <<at, specs, failures, spawned>>
     \/ /\ after \in {"retry", "regroup"}
        /\ Generation
        /\ UNCHANGED original
  /\ UNCHANGED <<after, child, listening, shutdown, published>>

\* The selects of run.  While a group starts, the drain of a failed attempt
\* included, run returns and drops what was started, which kills it; while a
\* group is watched, only the process that is not ready yet is dropped.
TakeShutdown ==
  /\ shutdown
  /\ \/ /\ loop = "start" \/ (loop = "drain" /\ after = "retry")
        /\ loop' = "done"
        /\ child' = [r \in Roles |-> "none"]
        /\ UNCHANGED <<at, after>>
     \/ /\ loop \in {"monitor", "restart"}
        /\ child' = [r \in Roles |-> IF child[r] = "spawned" THEN "none" ELSE child[r]]
        /\ Drain("exit")
  /\ UNCHANGED <<listening, specs, failures, shutdown, published, spawned>>

\* Environment: the interrupt signal, or the parent's end of the input closes.
wait_for_shutdown ==
  /\ ~shutdown
  /\ loop # "done"
  /\ shutdown' = TRUE
  /\ UNCHANGED <<loop, at, after, child, listening, specs, failures, published, spawned>>

\* Environment: a child exits, on its own account or because its input closed.
Exit(r) ==
  /\ child[r] \in {"live", "stopping"}
  /\ child' = [child EXCEPT ![r] = "exited"]
  /\ UNCHANGED <<loop, at, after, listening, specs, failures, shutdown, published, spawned>>

Older(ages, limit) == [i \in DOMAIN ages |-> IF ages[i] < limit THEN ages[i] + 1 ELSE limit]

\* Environment: a unit of time; the history forgets what is out of the window.
Tick ==
  /\ loop # "done"
  /\ failures' = [r \in Roles |-> Older(failures[r], MAX_RESTART_TIME)]
  /\ spawned' = [r \in Roles |-> Recent(Older(spawned[r], MAX_RESTART_TIME))]
  /\ UNCHANGED <<loop, at, after, child, listening, specs, shutdown, published>>
----------------------------------------------------------------------------
Init ==
  /\ loop = "start"
  /\ at = 1
  /\ after = "exit"
  /\ child = [r \in Roles |-> "none"]
  /\ listening = [r \in Roles |-> Null]
  /\ original = [r \in Roles |-> IF r = "stored" THEN AnyPort ELSE BIND_ADDRESS]
  /\ active = original
  /\ store_address = Null
  /\ failures = [r \in Roles |-> <<>>]
  /\ shutdown = FALSE
  /\ published = Null
  /\ spawned = [r \in Roles |-> <<>>]

Next ==
  \/ Spawn \/ Started \/ Restarted \/ NotReady \/ Poll \/ ObservationFailed
  \/ CloseInput \/ Stopped \/ Drained \/ TakeShutdown
  \/ wait_for_shutdown \/ Tick
  \/ \E r \in Roles : Exit(r)

\* The runtime runs the loop; the readiness timeout and the shutdown deadline
\* end its waits; each select polls the shutdown future among its branches, so
\* it is taken if it stays ready through selects without end.
Spec == Init /\ [][Next]_vars
FairSpec ==
  /\ Spec
  /\ WF_vars(Spawn) /\ WF_vars(Started \/ Restarted \/ NotReady) /\ WF_vars(Poll)
  /\ WF_vars(CloseInput \/ Stopped \/ Drained) /\ SF_vars(TakeShutdown)
----------------------------------------------------------------------------
\* Properties.

\* A gateway and a stored that run together agree on where stored listens,
\* over every replacement of either and every new group, and a gateway always
\* listens where the first READY record said: "Resolve port zero only once for
\* the supervisor lifetime" (stabilize_ready_child).
AddressesAgree ==
  child["gatewayd"] \in {"live", "stopping"} =>
    /\ child["stored"] = "live" => store_address = listening["stored"]
    /\ published # Null => published = listening["gatewayd"]

\* Within a group a role is spawned at most MAX_RESTARTS + 1 times in less than
\* MAX_RESTART_TIME, start and replacements together: "Successful replacements
\* retain this role's failure history" (restart, record_failure).
RestartIntensity == \A r \in Roles : Len(spawned[r]) <= MAX_RESTARTS + 1

\* "stop admission first, then the authority it depends upon": while stored is
\* asked to stop no gateway runs, whatever was under way when the drain began
\* (shutdown_children).
DrainOrder == child["stored"] = "stopping" => child["gatewayd"] \notin Running

\* Once told to stop, the supervisor ends and leaves no child behind, whatever
\* its children do and whichever wait it was in (run, spawn_ready_child).
ShutdownCompletes ==
  shutdown ~> (loop = "done" /\ \A r \in Roles : child[r] = "none")
============================================================================
