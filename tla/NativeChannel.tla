---------------------------- MODULE NativeChannel ----------------------------
(***************************************************************************)
(* The Native Channel (agentpulse-channels/native/src: runtime.rs, port.rs,*)
(* state.rs): a worker thread that serves one client, and the Bridge-facing*)
(* port that queues frames for it.  The two share the DeliveryState behind *)
(* a mutex; an action is what a thread does while it holds a lock, so the  *)
(* port may run between any two steps of the worker.  `owed` is the Bridge *)
(* lock: not empty while an event is delivered and its session view is not.*)
(*                                                                         *)
(* The Bridge is that of SessionFeed with every event retained             *)
(* (agentpulse-host/src/main.rs:531): a stream is its length `last`, an    *)
(* event its number, and `subscribed` the sessions this Channel is live on.*)
(* A frame is its type, its session and a number; what it says to the user *)
(* is left out, as are pending interactions, which ride in the baseline.   *)
(*                                                                         *)
(* The remote client follows its streams by number.  `remote` is what it   *)
(* knows: cursor (it holds events 1..cursor), told (the sequence its last  *)
(* subscription result named), live (sessions it was told it is subscribed *)
(* to and synchronized with), and two histories, gap (an event did not     *)
(* continue its cursor) and attached (the Bridge answered its subscription *)
(* without a replay because the Channel was subscribed already).           *)
(***************************************************************************)
EXTENDS Naturals, Sequences, FiniteSets, NativeTransport

CONSTANTS
  Sessions,
  MaxEvents,      \* bound on the length of a stream
  PageEvents,     \* SESSION_SYNC_PAGE_EVENTS, 128 in the code
  QueueCapacity   \* outbound_capacity, 256 by default, at least 3

ASSUME NativeAssumption ==
  /\ \A S \in SUBSET Sessions : Cardinality(S) \in Nat   \* finitely many sessions
  /\ MaxEvents \in Nat
  /\ PageEvents \in Nat \ {0}
  /\ QueueCapacity \in Nat /\ QueueCapacity >= 3

VARIABLES
  last,        \* [Sessions -> length of the stream]; 0 before SessionStarted
  subscribed,  \* sessions the Bridge delivers to this Channel
  owed,        \* {} or the session whose view the Bridge still has to deliver
  host,        \* "running", "revoked" (ingress closed), "cleared" or "stopping"
  delivery,    \* the shared DeliveryState
  link,        \* the worker's connection, see Unconnected
  pc,          \* where the worker is
  job,         \* what the worker remembers between two locks, see NoJob
  remote       \* the client, see above

vars == <<last, subscribed, owed, host, delivery, link, pc, job, remote>>
bridge == <<last, subscribed, owed, host>>

Min2(a, b) == IF a < b THEN a ELSE b
Frame(type, s, n) == [type |-> type, session |-> s, n |-> n]
Control(type) == Frame(type, "none", 0)

NoClient ==
  [client |-> FALSE, discovered |-> {}, subscriptions |-> {}, pending |-> <<>>,
   cursors |-> [s \in Sessions |-> 0], outgoing |-> <<>>, abort |-> FALSE]
\* The session of a subscription or its end, the outcome of its synchronization, the
\* sessions a discovery found or a disconnect has to leave, and whether the worker
\* ends after the disconnect.
NoJob == [session |-> "none", through |-> 0, subscribed |-> FALSE, sessions |-> {},
          ending |-> FALSE]

\* How clients reach the worker, whether one is connected ("open") and handshaken
\* ("ready"), and whether the store still holds the credential it upgraded with.
Unconnected(via) == [via |-> via, at |-> "none", granted |-> FALSE]

Init ==
  /\ last = [s \in Sessions |-> 0]
  /\ subscribed = {}
  /\ owed = {}
  /\ host = "running"
  /\ delivery = NoClient
  /\ \E via \in {"loopback", "tls"} : link = Unconnected(via)
  /\ pc = "loop"
  /\ job = NoJob
  /\ remote = [cursor |-> [s \in Sessions |-> 0], told |-> [s \in Sessions |-> 0],
               live |-> {}, gap |-> {}, attached |-> {}]

-----------------------------------------------------------------------------
(* DeliveryState *)

\* DeliveryState::queued_len.
QueuedLen(d) ==
  Len(d.outgoing)
    + (IF d.pending = <<>> THEN 0
       ELSE Len(d.pending[1].frames) + Len(d.pending[1].trailing))

\* DeliveryState::enqueue and enqueue_batch.
HasRoom(d, frames) == QueuedLen(d) + Len(frames) <= QueueCapacity
Enqueue(d, frames) ==
  IF HasRoom(d, frames) THEN [d EXCEPT !.outgoing = @ \o frames]
  ELSE [d EXCEPT !.abort = TRUE]

IsPending(d, s) == d.pending # <<>> /\ d.pending[1].session = s

\* NativeChannelPort::deliver accepts the frame.
PortAccepts(d, s) ==
  /\ d.client
  /\ IsPending(d, s) \/ s \in d.subscriptions
  /\ QueuedLen(d) < QueueCapacity

DeliverSilentMutant(d, s, frame) ==
  IF ~PortAccepts(d, s) THEN d
  ELSE IF IsPending(d, s) THEN [d EXCEPT !.pending[1].trailing = Append(@, frame)]
  ELSE [d EXCEPT !.outgoing = Append(@, frame)]

\* NativeChannelPort::deliver: frames of the session being synchronized wait in the
\* pending subscription, behind the page once that was delivered.
Deliver(d, s, frame) ==
  IF ~d.client \/ ~(IsPending(d, s) \/ s \in d.subscriptions) THEN d
  ELSE IF QueuedLen(d) >= QueueCapacity THEN [d EXCEPT !.abort = TRUE]
  ELSE IF ~IsPending(d, s) THEN [d EXCEPT !.outgoing = Append(@, frame)]
  ELSE IF d.pending[1].synced
       THEN [d EXCEPT !.pending[1].trailing = Append(@, frame)]
  ELSE [d EXCEPT !.pending[1].frames = Append(@, frame)]

-----------------------------------------------------------------------------
(* The Bridge and its host *)

\* A call of the worker gets through with_bridge_access: its permit is active and the
\* Bridge is not in use.
BridgeOpen == host = "running" /\ owed = {}

\* Bridge::handle_provider_event as this Channel sees it: the event, ...  (A Provider
\* whose ingress is revoked after this Channel's publishes until then.)
PublishEvent(s, view) ==
  /\ host \in {"running", "revoked"}
  /\ owed = {}
  /\ last[s] < MaxEvents
  /\ last' = [last EXCEPT ![s] = @ + 1]
  /\ delivery' = IF s \in subscribed
                 THEN Deliver(delivery, s, Frame("event", s, last[s] + 1)) ELSE delivery
  /\ owed' = IF view /\ s \in subscribed /\ PortAccepts(delivery, s) THEN {s} ELSE {}
  /\ UNCHANGED <<subscribed, host, link, pc, job, remote>>

\* ... and, if it was accepted and changed the snapshot, the session view.
PublishView(s) ==
  /\ s \in owed
  /\ delivery' = Deliver(delivery, s, Frame("view", s, last[s]))
  /\ owed' = {}
  /\ UNCHANGED <<last, subscribed, host, link, pc, job, remote>>

\* RuntimeHost::stop: ingress is revoked, so later calls of the worker fail, ...
HostRevoke ==
  /\ host = "running"
  /\ host' = "revoked"
  /\ UNCHANGED <<last, subscribed, owed, delivery, link, pc, job, remote>>

\* ... then clear_source_generation_subscriptions takes the Bridge, ...
HostClear ==
  /\ host = "revoked"
  /\ owed = {}
  /\ host' = "cleared"
  /\ subscribed' = {}
  /\ UNCHANGED <<last, owed, delivery, link, pc, job, remote>>

\* ... then NativeChannelSource::stop_worker sets the stop flag, ...
HostStop ==
  /\ host = "cleared"
  /\ host' = "stopping"
  /\ UNCHANGED <<last, subscribed, owed, delivery, link, pc, job, remote>>

\* ... and after the worker ended the source may be started again.
HostStart ==
  /\ host = "stopping"
  /\ pc = "ended"
  /\ host' = "running"
  /\ pc' = "loop"
  /\ UNCHANGED <<last, subscribed, owed, delivery, link, job, remote>>

-----------------------------------------------------------------------------
(* The worker: run_worker and the requests it serves *)

\* The loop's head: stop, accept, or look at the connection.
LoopStop ==
  /\ pc = "loop"
  /\ host = "stopping"
  /\ pc' = "disconnect"
  /\ job' = [NoJob EXCEPT !.ending = TRUE]
  /\ UNCHANGED <<bridge, delivery, link, remote>>

\* A peer is accepted when none is connected; nobody and a refused peer leave the
\* worker where it is.
LoopAccept(a) ==
  /\ pc = "loop"
  /\ host # "stopping"
  /\ link.at = "none"
  /\ TryAccept(link.via, a) = "socket"
  /\ link' = [link EXCEPT !.at = "open", !.granted = TRUE]
  /\ pc' = "check"
  /\ UNCHANGED <<bridge, delivery, job, remote>>

\* With a client connected the listener is polled all the same; a second one is told
\* that the Channel is busy, and closed.
LoopServe(a) ==
  /\ pc = "loop"
  /\ host # "stopping"
  /\ link.at # "none"
  /\ TryAccept(link.via, a) # "failed"
  /\ pc' = "check"
  /\ UNCHANGED <<bridge, delivery, link, job, remote>>

\* The listener fails: the worker disconnects and ends although nobody stopped it.
ListenerFails(a) ==
  /\ pc = "loop"
  /\ host # "stopping"
  /\ TryAccept(link.via, a) = "failed"
  /\ pc' = "disconnect"
  /\ job' = [NoJob EXCEPT !.ending = TRUE]
  /\ UNCHANGED <<bridge, delivery, link, remote>>

\* The device is revoked (external: Store::revoke_device in the host process).
Revoke ==
  /\ link.via = "tls"
  /\ link.granted
  /\ link' = [link EXCEPT !.granted = FALSE]
  /\ UNCHANGED <<bridge, delivery, pc, job, remote>>

RemainsAuthorizedMutant == link.via = "loopback" \/ link.granted \/ link.at = "ready"

\* NativeWebSocket::remains_authorized.
RemainsAuthorized == link.via = "loopback" \/ link.granted

\* In every round the credential and the abort flag are looked at before anything is
\* sent or read.
LoopCheck ==
  /\ pc = "check"
  /\ pc' = IF ~RemainsAuthorized \/ delivery.abort THEN "disconnect" ELSE "send"
  /\ UNCHANGED <<bridge, delivery, link, job, remote>>

Drop ==
  /\ pc' = "disconnect"
  /\ UNCHANGED <<bridge, delivery, link, job, remote>>

\* No hello within the handshake timeout, or nothing at all within the idle timeout.
TimesOut == pc = "read" /\ Drop

PingFails == pc = "read" /\ link.at = "ready" /\ Drop

\* The read reports the end of the connection or an error.
ReadFails(m) == pc = "read" /\ ReadOutcome(m) \in {"closed", "failed"} /\ Drop

\* decode_client_message fails; or the client says hello a second time, or something
\* else first.
ReadRejected == pc = "read" /\ Drop

\* What the client makes of a frame (external: the protocol's remote side).
Receive(c, f) ==
  CASE f.type = "event" ->
         IF f.n = c.cursor[f.session] + 1 THEN [c EXCEPT !.cursor[f.session] = f.n]
         ELSE IF f.n > c.cursor[f.session] THEN [c EXCEPT !.gap = @ \cup {f.session}]
         ELSE c
    [] f.type = "result" -> [c EXCEPT !.told[f.session] = f.n]
    [] f.type = "completed" -> [c EXCEPT !.live = @ \cup {f.session}]
    [] f.type = "unsubscribed" -> [c EXCEPT !.live = @ \ {f.session}]
    [] OTHER -> c

\* The inner loop of run_worker: outgoing frames are sent until none is left.
SendFrame ==
  /\ pc = "send"
  /\ delivery.outgoing # <<>>
  /\ delivery' = [delivery EXCEPT !.outgoing = Tail(@)]
  /\ remote' = Receive(remote, Head(delivery.outgoing))
  /\ UNCHANGED <<bridge, link, pc, job>>

\* send_text fails: the frame is gone and the connection with it.
SendFails ==
  /\ pc = "send"
  /\ delivery.outgoing # <<>>
  /\ delivery' = [delivery EXCEPT !.outgoing = Tail(@)]
  /\ pc' = "disconnect"
  /\ UNCHANGED <<bridge, link, job, remote>>

SendDone ==
  /\ pc = "send"
  /\ delivery.outgoing = <<>>
  /\ pc' = "read"
  /\ UNCHANGED <<bridge, delivery, link, job, remote>>

\* socket.read: nothing the worker has to answer.
ReadNothing(m) ==
  /\ pc = "read"
  /\ ReadOutcome(m) \in {"pong", "control", "timeout"}
  /\ pc' = "loop"
  /\ UNCHANGED <<bridge, delivery, link, job, remote>>

\* process_hello.  The client resumes with what it holds, which is less than was sent
\* when frames were lost with the old connection, and nothing for a new client; cursors
\* of another host run are dropped, by the worker and by the client.
ReadHello(h, held) ==
  LET resumed == IF h.run = "this" THEN held ELSE [s \in Sessions |-> 0]
  IN  /\ pc = "read"
      /\ link.at = "open"
      /\ ValidHello(h, held)
      /\ HelloServed(link.via, h)
      /\ h.run = "this" => \A s \in Sessions : held[s] <= remote.cursor[s]
      /\ remote' = [remote EXCEPT !.cursor = resumed, !.gap = {}, !.attached = {}]
      /\ delivery' = Enqueue([NoClient EXCEPT !.client = TRUE, !.cursors = resumed],
                             <<Control("hello")>>)
      /\ link' = [link EXCEPT !.at = "ready"]
      /\ pc' = "loop"
      /\ UNCHANGED <<bridge, job>>

\* A hello that does not decode, names another client or offers no known version.
HelloRejected(h, held) ==
  /\ pc = "read"
  /\ link.at = "open"
  /\ ~ValidHello(h, held) \/ ~HelloServed(link.via, h)
  /\ Drop

\* A recoverable failure: the error is queued; when that fails the abort flag ends the
\* connection in the next round.
Refuse(d) == Enqueue(d, <<Control("error")>>)

\* A reply is queued; a full queue is fatal to the connection.
Reply(d, frames) ==
  /\ delivery' = Enqueue(d, frames)
  /\ pc' = IF HasRoom(d, frames) THEN "loop" ELSE "disconnect"

Ready == pc = "read" /\ link.at = "ready"

\* process_discover.  It is never called while a subscription is pending: the worker
\* finishes one request before it reads the next.
ReadDiscover ==
  /\ Ready
  /\ \/ /\ BridgeOpen
        /\ job' = [NoJob EXCEPT !.sessions = {s \in Sessions : last[s] > 0}]
        /\ pc' = "discover"
        /\ UNCHANGED delivery
     \/ /\ host # "running"
        /\ delivery' = Refuse(delivery)
        /\ pc' = "loop"
        /\ UNCHANGED job
  /\ UNCHANGED <<bridge, link, remote>>

FinishDiscover ==
  LET frames == <<Control("started"), Control("provider")>>
                  \o [i \in 1..Cardinality(job.sessions) |-> Control("listed")]
                  \o <<Control("listing")>>
  IN  /\ pc = "discover"
      /\ Reply(IF HasRoom(delivery, frames)
               THEN [delivery EXCEPT !.discovered = job.sessions] ELSE delivery, frames)
      /\ job' = NoJob
      /\ UNCHANGED <<bridge, link, remote>>

\* process_subscribe, up to the release of its first lock.
ReadSubscribe(s) ==
  /\ Ready
  /\ \/ /\ s \notin delivery.discovered
        /\ delivery' = Refuse(delivery)
        /\ pc' = "loop"
        /\ UNCHANGED job
     \/ /\ s \in delivery.discovered \cap delivery.subscriptions
        /\ Reply(delivery, <<Frame("already", s, delivery.cursors[s])>>)
        /\ UNCHANGED job
     \/ /\ s \in delivery.discovered \ delivery.subscriptions
        /\ delivery' = [delivery EXCEPT !.pending =
             <<[session |-> s, frames |-> <<>>, trailing |-> <<>>, synced |-> FALSE]>>]
        /\ job' = [NoJob EXCEPT !.session = s]
        /\ pc' = "sync"
  /\ UNCHANGED <<bridge, link, remote>>

\* Bridge::sync_session refuses, or answers for a session the Channel is subscribed to
\* already: nothing is delivered.
SyncRefused ==
  /\ pc = "sync"
  /\ host # "running"
  /\ delivery' = Refuse([delivery EXCEPT !.pending = <<>>])
  /\ pc' = "loop"
  /\ job' = NoJob
  /\ UNCHANGED <<bridge, link, remote>>

SyncAttached ==
  LET s == job.session
  IN  /\ pc = "sync"
      /\ BridgeOpen
      /\ s \in subscribed
      /\ job' = [job EXCEPT !.through = last[s], !.subscribed = TRUE]
      /\ remote' = [remote EXCEPT !.attached = @ \cup {s}]
      /\ pc' = "finish"
      /\ UNCHANGED <<bridge, delivery, link>>

\* Bridge::sync_session and NativeChannelPort::deliver_session_sync: one page after the
\* connection's cursor and, at the end of the stream, the baseline.
SyncPage ==
  LET s == job.session
      after == delivery.cursors[s]
      through == Min2(after + PageEvents, last[s])
      final == through = last[s]
      frames == [i \in 1..(through - after) |-> Frame("event", s, after + i)]
                  \o (IF final THEN <<Frame("baseline", s, through)>> ELSE <<>>)
  IN  /\ pc = "sync"
      /\ BridgeOpen
      /\ s \notin subscribed
      /\ \/ /\ ~HasRoom(delivery, frames)
            /\ delivery' = Refuse([delivery EXCEPT !.abort = TRUE, !.pending = <<>>])
            /\ pc' = "loop"
            /\ job' = NoJob
            /\ UNCHANGED subscribed
         \/ /\ HasRoom(delivery, frames)
            /\ delivery' = [delivery EXCEPT !.pending[1].frames = @ \o frames,
                                            !.pending[1].synced = TRUE]
            /\ subscribed' = IF final THEN subscribed \cup {s} ELSE subscribed
            /\ job' = [job EXCEPT !.through = through, !.subscribed = final]
            /\ pc' = "finish"
      /\ UNCHANGED <<last, owed, host, link, remote>>

FinishSubscribeMutant ==
  LET s == job.session
      frames == <<Frame(IF job.subscribed THEN "result" ELSE "catching", s, job.through)>>
                  \o delivery.pending[1].frames
                  \o <<Frame(IF job.subscribed THEN "completed" ELSE "more", s, job.through)>>
      taken == [delivery EXCEPT !.pending = <<>>]
  IN  /\ pc = "finish"
      /\ Reply(IF HasRoom(taken, frames)
               THEN [taken EXCEPT !.cursors[s] = job.through,
                                  !.subscriptions = IF job.subscribed THEN @ \cup {s} ELSE @]
               ELSE taken, frames)
      /\ job' = NoJob
      /\ UNCHANGED <<bridge, link, remote>>

\* process_subscribe, its last lock: the result, the page, the end marker and what was
\* published meanwhile are queued as one batch, then the session counts as subscribed.
FinishSubscribe ==
  LET s == job.session
      p == delivery.pending[1]
      frames == <<Frame(IF job.subscribed THEN "result" ELSE "catching", s, job.through)>>
                  \o p.frames
                  \o <<Frame(IF job.subscribed THEN "completed" ELSE "more", s, job.through)>>
                  \o p.trailing
      taken == [delivery EXCEPT !.pending = <<>>]
  IN  /\ pc = "finish"
      /\ Reply(IF HasRoom(taken, frames)
               THEN [taken EXCEPT !.cursors[s] = job.through,
                                  !.subscriptions = IF job.subscribed THEN @ \cup {s} ELSE @]
               ELSE taken, frames)
      /\ job' = NoJob
      /\ UNCHANGED <<bridge, link, remote>>

\* process_unsubscribe: the Bridge first, ...
ReadUnsubscribe(s) ==
  /\ Ready
  /\ \/ /\ BridgeOpen
        /\ last[s] > 0
        /\ subscribed' = subscribed \ {s}
        /\ job' = [NoJob EXCEPT !.session = s]
        /\ pc' = "unsubscribe"
        /\ UNCHANGED delivery
     \/ /\ host # "running" \/ (owed = {} /\ last[s] = 0)
        /\ delivery' = Refuse(delivery)
        /\ pc' = "loop"
        /\ UNCHANGED <<subscribed, job>>
  /\ UNCHANGED <<last, owed, host, link, remote>>

\* ... then the connection's own set and the reply (two lock regions; the port's
\* deliveries for other sessions commute with the first).
FinishUnsubscribe ==
  /\ pc = "unsubscribe"
  /\ Reply([delivery EXCEPT !.subscriptions = @ \ {job.session}],
           <<Frame("unsubscribed", job.session, 0)>>)
  /\ job' = NoJob
  /\ UNCHANGED <<bridge, link, remote>>

\* process_interaction_response and process_command: refused without a subscription, by
\* the Bridge or by the Provider, or handed over and acknowledged.
ReadSubmit(s) ==
  /\ Ready
  /\ \/ /\ delivery' = Refuse(delivery)
        /\ pc' = "loop"
     \/ /\ s \in delivery.subscriptions
        /\ BridgeOpen
        /\ Reply(delivery, <<Control("accepted")>>)
  /\ UNCHANGED <<bridge, link, job, remote>>

\* disconnect: the connection's subscriptions are read, ...
Disconnect ==
  /\ pc = "disconnect"
  /\ job' = [job EXCEPT !.sessions = delivery.subscriptions]
  /\ pc' = "leave"
  /\ link' = Unconnected(link.via)
  /\ remote' = [remote EXCEPT !.live = {}, !.told = [s \in Sessions |-> 0]]
  /\ UNCHANGED <<bridge, delivery>>

\* ... each is cancelled at the Bridge, which fails once ingress is revoked, ...
LeaveSession(s) ==
  /\ pc = "leave"
  /\ s \in job.sessions
  /\ BridgeOpen \/ host # "running"
  /\ subscribed' = IF host = "running" THEN subscribed \ {s} ELSE subscribed
  /\ job' = [job EXCEPT !.sessions = @ \ {s}]
  /\ UNCHANGED <<last, owed, host, delivery, link, pc, remote>>

\* ... and the connection's state is dropped.
ClearConnection ==
  /\ pc = "leave"
  /\ job.sessions = {}
  /\ delivery' = NoClient
  /\ job' = NoJob
  /\ pc' = IF job.ending THEN "ended" ELSE "loop"
  /\ UNCHANGED <<bridge, link, remote>>

Worker ==
  \/ LoopStop \/ (\E a \in Arrivals : LoopServe(a)) \/ LoopCheck
  \/ SendFrame \/ SendDone \/ (\E m \in Messages : ReadNothing(m))
  \/ \E h \in Hellos, held \in [Sessions -> 0..MaxEvents] : ReadHello(h, held)
  \/ ReadDiscover \/ FinishDiscover
  \/ \E s \in Sessions : ReadSubscribe(s) \/ ReadUnsubscribe(s) \/ ReadSubmit(s)
  \/ SyncRefused \/ SyncAttached \/ SyncPage \/ FinishSubscribe
  \/ FinishUnsubscribe
  \/ Disconnect \/ (\E s \in Sessions : LeaveSession(s)) \/ ClearConnection

Next ==
  \/ Worker
  \/ \E a \in Arrivals : LoopAccept(a) \/ ListenerFails(a)
  \/ SendFails \/ TimesOut \/ PingFails \/ ReadRejected
  \/ \E m \in Messages : ReadFails(m)
  \/ \E h \in Hellos, held \in [Sessions -> 0..MaxEvents] : HelloRejected(h, held)
  \/ Revoke
  \/ \E s \in Sessions, view \in BOOLEAN : PublishEvent(s, view)
  \/ \E s \in Sessions : PublishView(s)
  \/ HostRevoke \/ HostClear \/ HostStop \/ HostStart

\* The worker's loop polls without blocking and never waits for the client, and the
\* Bridge delivers the view in the same call as its event, so both are weakly fair;
\* no client has to connect and no event has to be published.
Spec ==
  /\ Init
  /\ [][Next]_vars
  /\ WF_vars(Worker)
  /\ WF_vars(\E s \in Sessions : PublishView(s))
-----------------------------------------------------------------------------
Frames ==
  [type : {"hello", "started", "provider", "listed", "listing", "error", "accepted"},
   session : {"none"}, n : {0}]
    \cup [type : {"already", "result", "catching", "event", "view", "baseline", "completed",
                  "more", "unsubscribed"},
          session : Sessions, n : 0..MaxEvents]

Pendings == [session : Sessions, frames : Seq(Frames), trailing : Seq(Frames),
             synced : BOOLEAN]
Deliveries ==
  [client : BOOLEAN, discovered : SUBSET Sessions, subscriptions : SUBSET Sessions,
   pending : Seq(Pendings), cursors : [Sessions -> 0..MaxEvents], outgoing : Seq(Frames),
   abort : BOOLEAN]
Jobs == [session : Sessions \cup {"none"}, through : 0..MaxEvents, subscribed : BOOLEAN,
         sessions : SUBSET Sessions, ending : BOOLEAN]
Remotes == [cursor : [Sessions -> 0..MaxEvents], told : [Sessions -> 0..MaxEvents],
            live : SUBSET Sessions, gap : SUBSET Sessions, attached : SUBSET Sessions]
Links == [via : {"loopback", "tls"}, at : {"none", "open", "ready"}, granted : BOOLEAN]
Places == {"loop", "check", "send", "read", "discover", "sync", "finish", "unsubscribe",
           "disconnect", "leave", "ended"}

\* Every variable has its type; in particular a subscription is pending exactly while
\* process_subscribe runs.
TypeOK ==
  /\ last \in [Sessions -> 0..MaxEvents]
  /\ subscribed \subseteq Sessions
  /\ owed \subseteq Sessions
  /\ host \in {"running", "revoked", "cleared", "stopping"}
  /\ link \in Links
  /\ pc \in Places
  /\ job \in Jobs
  /\ delivery \in Deliveries
  /\ Len(delivery.pending) = IF pc \in {"sync", "finish"} THEN 1 ELSE 0
  /\ \A i \in DOMAIN delivery.pending : delivery.pending[i].session = job.session
  /\ remote \in Remotes

\* The frames queued and the frames waiting in a pending subscription together never
\* exceed the configured capacity, whichever of the three ways in they took (enqueue,
\* enqueue_batch, deliver_session_sync), and what does not fit ends the connection: the
\* client sees a hole in a stream only on a connection that is lost already.  The
\* page of a subscription, the events published while it is assembled and the live
\* events after it reach the client in order and without a hole, across disconnects and
\* restarts of the source, unless an overflow set abort_reason.  (The send loop does not
\* look at abort_reason, so events that follow a dropped one may still go out.  Sessions
\* the Bridge attached without a replay are excepted, see SubscribedMeansReplayed.)
HoleMeansAbort ==
  /\ QueuedLen(delivery) <= QueueCapacity
  /\ delivery.client /\ ~delivery.abort => remote.gap \subseteq remote.attached

\* The positions of the events of a session in a queue.
Events(q, s) == {i \in DOMAIN q : q[i].type = "event" /\ q[i].session = s}

\* A client that holds 1..c finds no hole in the queue, ...
Continues(q, s, c) ==
  \A i \in Events(q, s) :
    q[i].n <= c + 1 \/ \E j \in Events(q, s) : j < i /\ q[j].n + 1 = q[i].n
\* ... holds 1..m when the queue is empty, and ...
Reaches(q, s, c, m) ==
  /\ Events(q, s) = {} => c = m
  /\ Events(q, s) # {} =>
       \E i \in Events(q, s) : q[i].n = m /\ \A j \in Events(q, s) : j <= i
\* ... is sent no event of it twice.
Rises(q, s) == \A i, j \in Events(q, s) : i < j => q[i].n < q[j].n

\* No event of a subscribed session is lost between the Bridge and the client: unless
\* the connection is being given up, what the client does not hold yet is queued, in
\* order and without a hole, up to the last event published.
NothingLost ==
  \A s \in (delivery.subscriptions \cap subscribed) \ remote.attached :
    ~delivery.abort /\ pc \notin {"disconnect", "leave"} =>
      /\ Continues(delivery.outgoing, s, remote.cursor[s])
      /\ Reaches(delivery.outgoing, s, remote.cursor[s], last[s])
      /\ Rises(delivery.outgoing, s)

\* Every event of a subscribed session reaches the client, or the connection ends, or
\* the session is unsubscribed: the worker empties the queue, which is first in, first
\* out, before it looks for the next request, so no client traffic holds live events back.
EventsAreDelivered ==
  \A s \in Sessions, n \in 1..MaxEvents :
    (s \in delivery.subscriptions \ remote.attached /\ s \in subscribed /\ last[s] >= n)
      ~> (remote.cursor[s] >= n \/ link.at = "none" \/ s \notin delivery.subscriptions)

\* A client whose device was revoked is disconnected, whatever it sends and however slowly
\* it reads: the worker comes round to its check, because it answers one request a round
\* and never waits for the client.  The exceptions are the Providers'.  The send loop
\* looks at neither the credential nor abort_reason until the queue is empty, so events
\* published as fast as they are sent keep the worker in it and the client connected,
\* and a Bridge that is always in use keeps it from its synchronization.  (MaxEvents ends
\* both here; of the code only what is stated may be expected.  A device that connects
\* again does so with a credential the store holds.)
RevokedIsDropped ==
  (link.via = "tls" /\ link.at # "none" /\ ~link.granted)
    ~> (link.at = "none" \/ [](pc = "send") \/ [](pc = "sync"))

\* native/README.md: "It retains and replays the current Host run through 128-Event
\* pages, then atomically sends the current Session and pending interactions before
\* entering ordered live delivery."  A client that was told it is subscribed through
\* sequence n, and that the synchronization is complete, holds the events up to n.
SubscribedMeansReplayed ==
  \A s \in remote.live : remote.cursor[s] >= remote.told[s]
=============================================================================
