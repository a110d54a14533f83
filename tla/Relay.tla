------------------------------- MODULE Relay -------------------------------
(***************************************************************************)
(* The public Relay server (agentpulse-relay/src/server.rs): the accept    *)
(* loop, one worker thread for every accepted outer connection, the map of *)
(* waiting Host registrations behind one mutex, and the channel of         *)
(* capacity one over which the thread of a client hands its stream to the  *)
(* thread of the Host it matched.                                          *)
(*                                                                         *)
(* A connection is used once; its identifier is the connection_id of its   *)
(* challenge.  Hosts and Clients are the connections that will say         *)
(* HostHello and ClientHello.  TLS, proofs and frames are choices between  *)
(* success and failure.  A thread that refuses its peer while it holds the *)
(* mutex writes the error before it lets go of it, as in the code.         *)
(***************************************************************************)
EXTENDS Naturals, FiniteSets, Sequences

CONSTANTS Hosts, Clients, Routes,
          Hellos,             \* the sets of routes a connection may name in its hello
          MaxWaiting,         \* MAX_WAITING_HOSTS
          MaxOuter,           \* MAX_OUTER_CONNECTIONS
          None

ASSUME RelayAssumption ==
  /\ Hosts \cap Clients = {}
  /\ None \notin Hosts \cup Clients
  /\ Hellos \in [Hosts \cup Clients -> SUBSET (SUBSET Routes)]
  /\ \A c \in Clients, rs \in SUBSET Routes : rs \in Hellos[c] => Cardinality(rs) = 1
  /\ IsFiniteSet(Hosts) /\ IsFiniteSet(Clients)
  /\ MaxWaiting \in Nat /\ MaxOuter \in Nat

Conns == Hosts \cup Clients

VARIABLES
  stop,      \* the shared stop flag
  main,      \* place of the thread inside run()
  active,    \* active_connections
  at,        \* place of the worker thread of every connection
  socket,    \* is the TCP stream of the connection open in this process
  routes,    \* the routes of the hello of the connection
  waiting,   \* keys of the map of waiting registrations
  lock,      \* the connection whose thread holds the mutex across a write
  claim,     \* the registration whose client_sender a client thread has cloned
  channel,   \* clients in the channel of a Host
  peer       \* the client whose stream a Host thread has received

state == <<waiting, lock>>
vars == <<stop, main, active, at, socket, routes, waiting, lock, claim, channel, peer>>

HostPlaces == {"registering", "announcing", "polling", "receiving", "pinging", "matched",
               "pumping", "leaving"}
ClientPlaces == {"claiming", "verifying", "taking", "sending", "handed"}
Places == {"unborn", "hello", "refusing", "closing", "ended"} \cup HostPlaces \cup ClientPlaces

TypeOK ==
  /\ stop \in BOOLEAN
  /\ main \in {"checking", "accepting", "clearing", "joining", "ended", "failed"}
  /\ active \in Nat
  /\ at \in [Conns -> Places]
  /\ socket \in [Conns -> BOOLEAN]
  /\ routes \in [Conns -> SUBSET Routes]
  /\ waiting \subseteq Hosts
  /\ lock \in Conns \cup {None}
  /\ claim \in [Clients -> Hosts \cup {None}]
  /\ channel \in [Hosts -> Seq(Clients)]
  /\ peer \in [Hosts -> Clients \cup {None}]

Init ==
  /\ stop = FALSE /\ main = "checking" /\ active = 0
  /\ at = [c \in Conns |-> "unborn"]
  /\ socket = [c \in Conns |-> FALSE]
  /\ routes = [c \in Conns |-> {}]
  /\ waiting = {} /\ lock = None
  /\ claim = [c \in Clients |-> None]
  /\ channel = [h \in Hosts |-> <<>>]
  /\ peer = [h \in Hosts |-> None]

Goto(c, place) == at' = [at EXCEPT ![c] = place]

----------------------------------------------------------------------------
(* The thread inside run().                                                *)

\* The operator raises the stop flag.
RequestStop ==
  /\ ~stop /\ stop' = TRUE
  /\ UNCHANGED <<main, active, at, socket, routes, state, claim, channel, peer>>

CheckStop ==
  /\ main = "checking"
  /\ main' = IF stop THEN "clearing" ELSE "accepting"
  /\ UNCHANGED <<stop, active, at, socket, routes, state, claim, channel, peer>>

IsFull == active >= MaxOuter

\* accept() yields a connection: dropped at the limit, else counted and given a thread.
Accept(c) ==
  /\ main = "accepting" /\ at[c] = "unborn"
  /\ main' = "checking"
  /\ IF IsFull
     THEN Goto(c, "ended") /\ UNCHANGED <<active, socket>>
     ELSE /\ active' = active + 1
          /\ socket' = [socket EXCEPT ![c] = TRUE]
          /\ Goto(c, "hello")
  /\ UNCHANGED <<stop, routes, state, claim, channel, peer>>

\* accept() would block, or fails: run() then returns at once and joins nobody.
AcceptNothing ==
  /\ main = "accepting"
  /\ main' \in {"checking", "failed"}
  /\ UNCHANGED <<stop, active, at, socket, routes, state, claim, channel, peer>>

\* The stop path drops every waiting registration, and with it its client_sender.
ClearWaiting ==
  /\ main = "clearing" /\ lock = None
  /\ waiting' = {} /\ main' = "joining"
  /\ UNCHANGED <<stop, active, at, socket, routes, lock, claim, channel, peer>>

IsOver(c) == at[c] \in {"unborn", "ended", "handed"}

\* Mutant: run() returns without joining the workers.
JoinMutant ==
  /\ main = "joining"
  /\ main' = "ended"
  /\ UNCHANGED <<stop, active, at, socket, routes, state, claim, channel, peer>>

Join ==
  /\ main = "joining"
  /\ \A c \in Conns : IsOver(c)
  /\ main' = "ended"
  /\ UNCHANGED <<stop, active, at, socket, routes, state, claim, channel, peer>>

----------------------------------------------------------------------------
(* The worker of a connection: handle_outer.                               *)

\* The challenge is answered by a valid hello, or the connection is given up: no TLS, no
\* answer in time, an expired challenge, a Pong, a bad Host proof.  Only a bad hello is told.
Hello(c) ==
  /\ at[c] = "hello"
  /\ \/ Goto(c, "closing") /\ UNCHANGED routes
     \/ /\ \E rs \in Hellos[c] : routes' = [routes EXCEPT ![c] = rs]
        /\ Goto(c, IF c \in Hosts THEN "registering" ELSE "claiming")
  /\ UNCHANGED <<stop, main, active, socket, state, claim, channel, peer>>

\* send_error with the mutex held: the lock is released when the write is over.
Refuse(c) ==
  /\ lock' = c /\ Goto(c, "refusing")
  /\ UNCHANGED waiting

Refused(c) ==
  /\ at[c] = "refusing"
  /\ lock' = None /\ Goto(c, "closing")
  /\ UNCHANGED <<stop, main, active, socket, routes, waiting, claim, channel, peer>>

\* The thread returns.  A Host thread drops its receiver with the clients still in it, every
\* thread drops its own stream, and ActiveGuard counts the thread out.
Close(c) ==
  /\ at[c] = "closing"
  /\ active' = active - 1
  /\ socket' = [d \in Conns |->
                  /\ socket[d] /\ d # c
                  /\ ~(c \in Hosts /\ \E n \in 1..Len(channel[c]) : channel[c][n] = d)]
  /\ channel' = [h \in Hosts |-> IF h = c THEN <<>> ELSE channel[h]]
  /\ Goto(c, "ended")
  /\ UNCHANGED <<stop, main, routes, state, claim, peer>>

----------------------------------------------------------------------------
(* A Host connection: handle_host.                                         *)

\* Mutant: only a registration of exactly the same routes is refused.
RoutesOverlapMutant(h) == \E g \in waiting : routes[g] = routes[h]

RoutesOverlap(h) == \E g \in waiting : routes[g] \cap routes[h] # {}

Register(h) ==
  /\ at[h] = "registering" /\ lock = None
  /\ \/ /\ Cardinality(waiting) >= MaxWaiting \/ RoutesOverlap(h)
        /\ Refuse(h)
     \/ /\ Cardinality(waiting) < MaxWaiting /\ ~RoutesOverlap(h)
        /\ waiting' = waiting \cup {h}
        /\ Goto(h, "announcing") /\ UNCHANGED lock
  /\ UNCHANGED <<stop, main, active, socket, routes, claim, channel, peer>>

\* HostWaiting is written, or the write fails and the guard removes the registration.
Announce(h) ==
  /\ at[h] = "announcing"
  /\ \/ Goto(h, "polling")
     \/ Goto(h, "leaving")
  /\ UNCHANGED <<stop, main, active, socket, routes, state, claim, channel, peer>>

\* Mutant: the loop does not look at the stop flag.
PollMutant(h) ==
  /\ at[h] = "polling"
  /\ Goto(h, "receiving")
  /\ UNCHANGED <<stop, main, active, socket, routes, state, claim, channel, peer>>

Poll(h) ==
  /\ at[h] = "polling"
  /\ Goto(h, IF stop THEN "leaving" ELSE "receiving")
  /\ UNCHANGED <<stop, main, active, socket, routes, state, claim, channel, peer>>

\* Some client_sender of the channel of h exists: in the map, or cloned by a client thread.
HasSender(h) ==
  \/ h \in waiting
  \/ \E c \in Clients :
       claim[c] = h /\ at[c] \in {"verifying", "taking", "sending", "refusing", "closing"}

\* Mutant: a Host keeps answering Pings instead of taking the client in its channel.
ReceiveMutant(h) ==
  /\ at[h] = "receiving"
  /\ Goto(h, IF HasSender(h) \/ channel[h] # <<>> THEN "pinging" ELSE "leaving")
  /\ UNCHANGED <<stop, main, active, socket, routes, state, claim, channel, peer>>

\* recv_timeout: a client, a timeout that is followed by a Ping, or no sender is left.
Receive(h) ==
  /\ at[h] = "receiving"
  /\ \/ /\ channel[h] # <<>>
        /\ peer' = [peer EXCEPT ![h] = Head(channel[h])]
        /\ channel' = [channel EXCEPT ![h] = Tail(@)]
        /\ Goto(h, "matched")
     \/ /\ channel[h] = <<>>
        /\ Goto(h, IF HasSender(h) THEN "pinging" ELSE "leaving")
        /\ UNCHANGED <<channel, peer>>
  /\ UNCHANGED <<stop, main, active, socket, routes, state, claim>>

\* The matching Pong arrives, or anything else: a failed write, no Pong in time, another frame.
Ping(h) ==
  /\ at[h] = "pinging"
  /\ \/ Goto(h, "polling")
     \/ Goto(h, "leaving")
  /\ UNCHANGED <<stop, main, active, socket, routes, state, claim, channel, peer>>

\* The stream of the client is dropped with the match arm that holds it.
DropPeer(h) ==
  /\ socket' = [socket EXCEPT ![peer[h]] = FALSE]
  /\ peer' = [peer EXCEPT ![h] = None]
  /\ Goto(h, "leaving")

\* TunnelReady is written to both ends, or one of the writes fails.
Match(h) ==
  /\ at[h] = "matched"
  /\ \/ Goto(h, "pumping") /\ UNCHANGED <<socket, peer>>
     \/ DropPeer(h)
  /\ UNCHANGED <<stop, main, active, routes, state, claim, channel>>

\* pump() returns: an end closed, an error, the idle or the stall timeout.
PumpEnds(h) ==
  /\ at[h] = "pumping"
  /\ DropPeer(h)
  /\ UNCHANGED <<stop, main, active, routes, state, claim, channel>>

\* The loop of pump() sees the stop flag.
PumpStops(h) == stop /\ PumpEnds(h)

\* WaitingHostGuard is dropped: remove_waiting_host.
Leave(h) ==
  /\ at[h] = "leaving" /\ lock = None
  /\ waiting' = waiting \ {h}
  /\ Goto(h, "closing")
  /\ UNCHANGED <<stop, main, active, socket, routes, lock, claim, channel, peer>>

----------------------------------------------------------------------------
(* A client connection: handle_client.                                     *)

\* The registrations that serve the route of the client.
Serving(c) == {h \in waiting : routes[c] \subseteq routes[h]}

\* Under the mutex: find the route and clone the sender, or refuse the client.
Claim(c) ==
  /\ at[c] = "claiming" /\ lock = None
  /\ \/ /\ Serving(c) = {}
        /\ Refuse(c) /\ UNCHANGED claim
     \/ /\ \E h \in Serving(c) : claim' = [claim EXCEPT ![c] = h]
        /\ Goto(c, "verifying") /\ UNCHANGED state
  /\ UNCHANGED <<stop, main, active, socket, routes, channel, peer>>

\* The proof is checked with the mutex released.
Verify(c) ==
  /\ at[c] = "verifying"
  /\ \/ Goto(c, "taking")
     \/ Goto(c, "closing")
  /\ UNCHANGED <<stop, main, active, socket, routes, state, claim, channel, peer>>

\* Mutant: the registration is taken without looking whether it is still there.
TakeMutant(c) ==
  /\ at[c] = "taking" /\ lock = None
  /\ waiting' = waiting \ {claim[c]}
  /\ Goto(c, "sending")
  /\ UNCHANGED <<stop, main, active, socket, routes, lock, claim, channel, peer>>

\* Under the mutex again: the registration may be gone; else this client takes it.
Take(c) ==
  /\ at[c] = "taking" /\ lock = None
  /\ \/ claim[c] \notin waiting /\ Refuse(c)
     \/ /\ claim[c] \in waiting
        /\ waiting' = waiting \ {claim[c]}
        /\ Goto(c, "sending") /\ UNCHANGED lock
  /\ UNCHANGED <<stop, main, active, socket, routes, claim, channel, peer>>

\* send on the channel of capacity one: it moves the stream and the thread ends, fails when
\* the Host thread is gone, and would block when the channel is full.
Send(c) ==
  /\ at[c] = "sending"
  /\ \/ /\ at[claim[c]] # "ended" /\ channel[claim[c]] = <<>>
        /\ channel' = [channel EXCEPT ![claim[c]] = <<c>>]
        /\ active' = active - 1
        /\ Goto(c, "handed")
     \/ /\ at[claim[c]] = "ended"
        /\ Goto(c, "closing") /\ UNCHANGED <<active, channel>>
  /\ UNCHANGED <<stop, main, socket, routes, state, claim, peer>>

----------------------------------------------------------------------------
MainStep == CheckStop \/ AcceptNothing \/ ClearWaiting \/ Join \/ \E c \in Conns : Accept(c)

\* What a worker does by itself within a bounded time; a tunnel may carry traffic for ever.
WorkerStep(c) ==
  \/ Hello(c) \/ Refused(c) \/ Close(c)
  \/ /\ c \in Hosts
     /\ \/ Register(c) \/ Announce(c) \/ Poll(c) \/ Receive(c) \/ Ping(c) \/ Match(c)
        \/ PumpStops(c) \/ Leave(c)
  \/ /\ c \in Clients
     /\ Claim(c) \/ Verify(c) \/ Take(c) \/ Send(c)

Next ==
  \/ RequestStop \/ MainStep
  \/ \E c \in Conns : WorkerStep(c)
  \/ \E h \in Hosts : PumpEnds(h)
  \/ main \in {"ended", "failed"} /\ (\A c \in Conns : IsOver(c)) /\ UNCHANGED vars

\* Threads run, and every read, write and wait of a worker has a timeout.
Fairness == WF_vars(MainStep) /\ \A c \in Conns : WF_vars(WorkerStep(c))

Spec == Init /\ [][Next]_vars /\ Fairness

----------------------------------------------------------------------------
(* Properties.                                                             *)

\* A route is served by at most one waiting registration (the README of the crate: "disjoint
\* Host registrations"), and there are at most MAX_WAITING_HOSTS of them.
RoutesAreDisjoint ==
  /\ \A g, h \in waiting : g # h => routes[g] \cap routes[h] = {}
  /\ Cardinality(waiting) <= MaxWaiting

\* A registration is taken by one client, however many have cloned its sender: a client
\* that sends finds the channel of its Host empty, so the send of handle_client never blocks,
\* and a Host that already has a client gets no second one.
OneClientPerHost ==
  \A c \in Clients : at[c] = "sending" =>
    /\ claim[c] \notin waiting
    /\ channel[claim[c]] = <<>> /\ peer[claim[c]] = None
    /\ \A d \in Clients \ {c} : claim[d] = claim[c] => at[d] \notin {"sending", "handed"}

\* When run() has returned after a stop, nothing is registered and no stream is open: also
\* the Host threads that registered after the map was cleared, and the clients they had
\* received, are gone.
EndedIsClean ==
  main = "ended" => waiting = {} /\ \A c \in Conns : ~socket[c]

\* Once the stop flag is up run() returns: no worker waits for another, for the mutex or for
\* its peer without a limit.
StopEnds == stop ~> main \in {"ended", "failed"}

\* A client that was handed over is joined to its Host or disconnected; it does not wait
\* for ever in the channel of a Host that is busy with a Ping or about to leave.
HandedIsServed ==
  \A c \in Clients :
    at[c] = "handed" ~> (~socket[c] \/ \E h \in Hosts : at[h] = "pumping" /\ peer[h] = c)

=============================================================================
