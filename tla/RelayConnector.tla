--------------------------- MODULE RelayConnector ---------------------------
(***************************************************************************)
(* The Host side of the Relay in `agentpulse serve`                        *)
(* (agentpulse-host/src/main.rs): a supervisor thread that follows the     *)
(* credential store, one worker thread per device that keeps a             *)
(* registration at the Relay (connect_host_once_with_route_check_and_      *)
(* waiting in agentpulse-relay/src/client.rs), the shared                  *)
(* RelayRuntimeState, the status the admin socket reports, and the         *)
(* RelayConnectionCanceller that interrupts all sockets when the Host      *)
(* stops.  The Relay itself is external here: a registration may be        *)
(* granted, refused, lost or matched at any time.                          *)
(***************************************************************************)
EXTENDS CredentialStore

CONSTANT MaxWorkers     \* the limit of 32 workers

ASSUME ConnectorAssumption == MaxWorkers \in Nat

VARIABLES
  serve,       \* place of the thread of `agentpulse serve`
  supervisor,  \* place of the supervisor thread
  current,     \* the routes the supervisor read
  work,        \* place of the worker of a route
  halted,      \* routes whose device_stop flag is raised
  ready,       \* ready_routes of RelayRuntimeState
  reported,    \* relay_ready_routes of the status the admin loop holds
  registered,  \* routes whose socket is in the map of the canceller
  shut         \* routes whose socket the canceller has shut down

connectorVars == <<serve, supervisor, current, work, halted, ready, reported, registered, shut>>

\* A worker has a socket to the Relay that it reads from.
Connected == {"greeting", "announcing", "waiting", "pumping"}
\* connect has returned, with Stopped or with anything else.
Returned == {"stopped", "failed"}
Workplaces == {"none", "looping", "dialing", "finished"} \cup Connected \cup Returned

ConnectorTypeOK ==
  /\ devices \in [Devices -> Tokens \cup {NoToken}]
  /\ serve \in {"up", "stopping", "cancelling", "joining", "down"}
  /\ supervisor \in {"reading", "applying", "closing", "joining", "ended"}
  /\ work \in [Tokens -> Workplaces]
  /\ current \subseteq Tokens /\ halted \subseteq Tokens /\ ready \subseteq Tokens
  /\ reported \subseteq Tokens /\ registered \subseteq Tokens /\ shut \subseteq Tokens

ConnectorInit ==
  /\ serve = "up" /\ supervisor = "reading"
  /\ current = {} /\ halted = {} /\ ready = {} /\ reported = {} /\ registered = {} /\ shut = {}
  /\ work = [t \in Tokens |-> "none"]

----------------------------------------------------------------------------
(* The thread of serve: run_admin_loop, then the stop sequence.            *)

\* An iteration of the admin loop copies the routes into the status it answers with.
ReportStatus ==
  /\ serve = "up"
  /\ reported' = ready
  /\ UNCHANGED <<devices, serve, supervisor, current, work, halted, ready, registered, shut>>

\* The loop answers, for the last time in the iteration in which the stop flag is raised.
IsAnswering == serve \in {"up", "stopping"}
\* What a client of the admin socket sees.
IsReported(t) == IsAnswering /\ t \in reported

StopServe ==
  /\ serve = "up" /\ serve' = "stopping"
  /\ UNCHANGED <<devices, supervisor, current, work, halted, ready, reported, registered, shut>>

\* RelayConnectionCanceller::cancel: first the flag, then the sockets that are in the map.
RaiseCancelled ==
  /\ serve = "stopping" /\ serve' = "cancelling"
  /\ UNCHANGED <<devices, supervisor, current, work, halted, ready, reported, registered, shut>>

IsCancelled == serve \in {"cancelling", "joining", "down"}

ShutSockets ==
  /\ serve = "cancelling" /\ serve' = "joining"
  /\ shut' = shut \cup registered /\ registered' = {}
  /\ UNCHANGED <<devices, supervisor, current, work, halted, ready, reported>>

\* cancel_and_join returns: the supervisor has finished, or the deadline has passed.
Down ==
  /\ serve = "joining" /\ serve' = "down"
  /\ UNCHANGED <<devices, supervisor, current, work, halted, ready, reported, registered, shut>>

----------------------------------------------------------------------------
(* The supervisor.                                                         *)

\* relay_routes: the routes of the store; on an error RelayRuntimeState::update forgets what is
\* ready.
ReadRoutes ==
  /\ supervisor = "reading"
  /\ \/ /\ serve # "up" /\ supervisor' = "closing"
        /\ UNCHANGED <<current, ready>>
     \/ /\ serve = "up" /\ supervisor' = "applying" /\ current' = Digests
        /\ UNCHANGED ready
     \/ /\ serve = "up" /\ ready' = {}
        /\ UNCHANGED <<supervisor, current>>
  /\ UNCHANGED <<devices, serve, work, halted, reported, registered, shut>>

HasWorker(t) == work[t] # "none"
Finished == {t \in Tokens : work[t] = "finished"}
Retired == {t \in Tokens : HasWorker(t) /\ t \notin current}
Missing == {t \in current : work[t] \in {"none", "finished"}}
Kept == {t \in Tokens : HasWorker(t)} \ Finished

\* Mutant: workers of routes that are gone are left alone.
ApplyRoutesMutant ==
  /\ supervisor = "applying" /\ supervisor' = "reading"
  /\ \E spawned \in SUBSET Missing :
       /\ Cardinality(Kept \cup spawned) <= MaxWorkers \/ spawned = {}
       /\ spawned = Missing \/ Cardinality(Kept \cup spawned) >= MaxWorkers
       /\ work' = [t \in Tokens |-> IF t \in spawned THEN "looping"
                                    ELSE IF t \in Finished THEN "none" ELSE work[t]]
       /\ halted' = halted \ (spawned \cup Finished)
  /\ ready' = IF current = {} THEN {} ELSE ready
  /\ UNCHANGED <<devices, serve, current, reported, registered, shut>>

\* Workers of routes that are gone are told to stop, finished ones are reaped, and routes
\* without a worker get one as long as there is room.
ApplyRoutes ==
  /\ supervisor = "applying" /\ supervisor' = "reading"
  /\ \E spawned \in SUBSET Missing :
       /\ Cardinality(Kept \cup spawned) <= MaxWorkers \/ spawned = {}
       /\ spawned = Missing \/ Cardinality(Kept \cup spawned) >= MaxWorkers
       /\ work' = [t \in Tokens |-> IF t \in spawned THEN "looping"
                                    ELSE IF t \in Finished THEN "none" ELSE work[t]]
       /\ halted' = (halted \cup Retired) \ (spawned \cup Finished)
  /\ ready' = IF current = {} THEN {} ELSE ready \ Retired
  /\ UNCHANGED <<devices, serve, current, reported, registered, shut>>

\* Mutant: the workers are joined without being told to stop.
HaltWorkersMutant ==
  /\ supervisor = "closing" /\ supervisor' = "joining"
  /\ UNCHANGED <<devices, serve, current, work, halted, ready, reported, registered, shut>>

\* The loop has ended: every worker is told to stop, then joined.
HaltWorkers ==
  /\ supervisor = "closing" /\ supervisor' = "joining"
  /\ halted' = halted \cup {t \in Tokens : HasWorker(t)}
  /\ UNCHANGED <<devices, serve, current, work, ready, reported, registered, shut>>

JoinWorkers ==
  /\ supervisor = "joining"
  /\ \A t \in Tokens : work[t] \in {"none", "finished"}
  /\ supervisor' = "ended" /\ ready' = {}
  /\ UNCHANGED <<devices, serve, current, work, halted, reported, registered, shut>>

----------------------------------------------------------------------------
(* The worker of a route.                                                  *)

GotoWork(t, place) == work' = [work EXCEPT ![t] = place]

Loop(t) ==
  /\ work[t] = "looping"
  /\ GotoWork(t, IF t \in halted THEN "finished" ELSE "dialing")
  /\ UNCHANGED <<devices, serve, supervisor, current, halted, ready, reported, registered, shut>>

\* Mutant: a connection is registered without looking at the flags.
DialMutant(t) ==
  /\ work[t] = "dialing"
  /\ registered' = registered \cup {t} /\ GotoWork(t, "greeting")
  /\ UNCHANGED <<devices, serve, supervisor, current, halted, ready, reported, shut>>

\* connect_tls, and RelayConnectionCanceller::register under the lock of the map.
Dial(t) ==
  /\ work[t] = "dialing"
  /\ \/ GotoWork(t, "failed") /\ UNCHANGED registered
     \/ /\ IsCancelled \/ t \in halted
        /\ GotoWork(t, "stopped") /\ UNCHANGED registered
     \/ /\ ~IsCancelled /\ t \notin halted
        /\ registered' = registered \cup {t} /\ GotoWork(t, "greeting")
  /\ UNCHANGED <<devices, serve, supervisor, current, halted, ready, reported, shut>>

\* Hello and the first message: an error, the stop flag, a route that is not in the store any
\* more (or a store that cannot be read), HostWaiting, or a TunnelReady without one.
Greet(t) ==
  /\ work[t] = "greeting"
  /\ \/ GotoWork(t, "failed")
     \/ t \in halted /\ GotoWork(t, "stopped")
     \/ t \notin halted /\ t \in Digests /\ GotoWork(t, "announcing")
     \/ t \notin halted /\ GotoWork(t, "pumping")
  /\ UNCHANGED <<devices, serve, supervisor, current, halted, ready, reported, registered, shut>>

\* The on_waiting callback; it looked at the stop flag before it takes the lock of the state.
AnnounceReady(t) ==
  /\ work[t] = "announcing" /\ GotoWork(t, "waiting")
  /\ \/ ready' = ready \cup {t}
     \/ t \in halted /\ UNCHANGED ready
  /\ UNCHANGED <<devices, serve, supervisor, current, halted, reported, registered, shut>>

\* A waiting registration is lost or refused, matched with a client, or given up at a
\* heartbeat: its route has changed, the store cannot be read, or the stop flag is up.
Wait(t) ==
  /\ work[t] = "waiting"
  /\ \/ GotoWork(t, "failed")
     \/ t \in halted /\ GotoWork(t, "stopped")
     \/ t \notin halted /\ GotoWork(t, "pumping")
  /\ UNCHANGED <<devices, serve, supervisor, current, halted, ready, reported, registered, shut>>

\* The tunnel ends, in order (an end closed, the stop flag) or with an error.
Pump(t) ==
  /\ work[t] = "pumping"
  /\ GotoWork(t, "failed")
  /\ UNCHANGED <<devices, serve, supervisor, current, halted, ready, reported, registered, shut>>

\* Stopped ends the worker.  Anything else makes it try again, after a delay that the stop
\* flag cuts short when it was an error.
AfterReturn(t) == IF work[t] = "stopped" THEN "finished" ELSE "looping"

\* Mutant: the worker goes on without taking its route back.
LeaveMutant(t) ==
  /\ work[t] \in Returned
  /\ registered' = registered \ {t} /\ shut' = shut \ {t}
  /\ GotoWork(t, AfterReturn(t))
  /\ UNCHANGED <<devices, serve, supervisor, current, halted, ready, reported>>

\* connect has returned: the socket leaves the map and is closed, the route is not ready.
Leave(t) ==
  /\ work[t] \in Returned
  /\ registered' = registered \ {t} /\ shut' = shut \ {t}
  /\ ready' = ready \ {t}
  /\ GotoWork(t, AfterReturn(t))
  /\ UNCHANGED <<devices, serve, supervisor, current, halted, reported>>

----------------------------------------------------------------------------
ServeStep == ReportStatus \/ RaiseCancelled \/ ShutSockets \/ Down
SupervisorStep == ReadRoutes \/ ApplyRoutes \/ HaltWorkers \/ JoinWorkers

\* What a worker does within a bounded time.  A registration or a tunnel lasts as long as the
\* Relay and the client want, unless its socket is shut, the stop flag is up, or the route is
\* gone at the next heartbeat.
IsRecalled(t) == t \in shut \/ t \in halted
WorkerStep(t) ==
  \/ Loop(t) \/ Dial(t) \/ Greet(t) \/ AnnounceReady(t) \/ Leave(t)
  \/ (IsRecalled(t) \/ t \notin Digests) /\ Wait(t)
  \/ IsRecalled(t) /\ Pump(t)

ConnectorNext ==
  \/ StopServe \/ ServeStep \/ SupervisorStep
  \/ \E t \in Tokens : WorkerStep(t) \/ Wait(t) \/ Pump(t)

----------------------------------------------------------------------------
(* Properties.                                                             *)

\* A route is reported ready only while its worker has a registration at the Relay, or has
\* just lost it and has not taken the lock of the state yet (RelayRuntimeState::ready and
\* unready): no worker that dials, waits to retry or is gone leaves its route behind.
ReadyIsServed == \A t \in ready : work[t] \in {"waiting", "pumping"} \cup Returned

\* When RelayConnectionCanceller::cancel has returned, no worker reads from a socket that is
\* open: a connection that is made while the Host stops is either in the map when the
\* sockets are taken, or sees the flag under the lock of the map.
CancelReachesAll ==
  serve \in {"joining", "down"} =>
    \A t \in Tokens : work[t] \in Connected => t \in shut

\* When the Host stops, the supervisor joins all its workers and ends: none is stuck in a
\* registration, a tunnel, a retry or a new connection.
ConnectorStops == serve = "stopping" ~> supervisor = "ended"

=============================================================================
