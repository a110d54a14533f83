------------------------- MODULE NativeChannelProofs -------------------------
(***************************************************************************)
(* Theorems about the Native Channel, for any sessions, any length of the  *)
(* streams, any page size and any capacity of the queue: an event is lost  *)
(* between the Bridge and the client only on a connection that is being    *)
(* given up.                                                               *)
(***************************************************************************)
EXTENDS NativeDeliveryProofs

-----------------------------------------------------------------------------
(* The beginning and the end of a connection *)

\* e is d but for the queue and the abort flag.
Keeps(e, d) ==
  /\ e.client = d.client /\ e.discovered = d.discovered
  /\ e.subscriptions = d.subscriptions /\ e.pending = d.pending /\ e.cursors = d.cursors

LEMMA EnqueueEffect ==
  ASSUME NEW d \in Deliveries, NEW b \in Seq(Frames), NEW e, e = Enqueue(d, b)
  PROVE  /\ e \in Deliveries
         /\ Keeps(e, d)
         /\ \/ HasRoom(d, b) /\ e.outgoing = d.outgoing \o b /\ e.abort = d.abort
            \/ ~HasRoom(d, b) /\ e.outgoing = d.outgoing /\ e.abort = TRUE
<1>1. CASE HasRoom(d, b)
  <2>1. e = [d EXCEPT !.outgoing = d.outgoing \o b]
    BY <1>1 DEF Enqueue
  <2>0. PICK x \in Seq(Frames) : x = d.outgoing
    BY DEF Deliveries
  <2>9. x \o b \in Seq(Frames)
    OBVIOUS
  <2>2. PICK o \in Seq(Frames) : o = x \o b
    BY <2>9, Zenon
  <2>3. e = [d EXCEPT !.outgoing = o]
    BY <2>0, <2>1, <2>2
  <2>4. e \in Deliveries
    BY <2>2, <2>3, Zenon DEF Deliveries
  <2>5. Keeps(e, d) /\ e.outgoing = o /\ e.abort = d.abort
    BY <2>3 DEF Deliveries, Keeps
  <2> QED
    BY <2>0, <2>2, <2>4, <2>5, <1>1
<1>2. CASE ~HasRoom(d, b)
  BY <1>2, Zenon DEF Enqueue, Deliveries, Keeps
<1> QED
  BY <1>1, <1>2, Zenon

\* The hello makes the DeliveryState, `disconnect` ends it, and the host may stop and start
\* the source.
LEMMA LifetimeIInv ==
  /\ IInv
  /\ \/ \E h \in Hellos, held \in [Sessions -> 0..MaxEvents] : ReadHello(h, held)
     \/ Disconnect \/ (\E s \in Sessions : LeaveSession(s)) \/ ClearConnection
     \/ HostRevoke \/ HostClear \/ HostStop \/ HostStart
  => IInv'
\* process_hello: the cursors of the connection are what the client resumes with.
<1>ReadHelloIInv.
  ASSUME IInv, NEW h \in Hellos, NEW held \in [Sessions -> 0..MaxEvents], ReadHello(h, held)
  PROVE  IInv'
  <2> USE <1>ReadHelloIInv
  <2>1. PICK g : g = IF h.run = "this" THEN held ELSE [s \in Sessions |-> 0]
    BY Zenon
  <2>2. PICK n : n = [NoClient EXCEPT !.client = TRUE, !.cursors = g]
    OBVIOUS
  <2>3. PICK b : b = <<Control("hello")>>
    BY Zenon
  <2>4. /\ pc = "read" /\ link.at = "open" /\ pc' = "loop" /\ UNCHANGED <<bridge, job>>
        /\ h.run = "this" => \A s \in Sessions : held[s] <= remote.cursor[s]
        /\ remote' = [remote EXCEPT !.cursor = g, !.gap = {}, !.attached = {}]
        /\ delivery' = Enqueue(n, b)
        /\ link' = [link EXCEPT !.at = "ready"]
    BY <2>1, <2>2, <2>3 DEF ReadHello
  <2>5. \A s \in Sessions : remote.cursor[s] \in Nat /\ last[s] \in Nat /\ remote.cursor[s] <= last[s]
    <3>1. /\ remote \in Remotes /\ last \in [Sessions -> 0..MaxEvents]
          /\ \A s \in Sessions : remote.cursor[s] <= last[s]
      BY Zenon DEF IInv, TypeOK, KnownInv
    <3>2. remote.cursor \in [Sessions -> 0..MaxEvents]
      BY <3>1, Zenon DEF Remotes
    <3> HIDE <1>ReadHelloIInv
    <3> QED
      BY <3>1, <3>2, NativeAssumption
  <2>6. g \in [Sessions -> 0..MaxEvents] /\ \A s \in Sessions : g[s] \in Nat /\ g[s] <= last[s]
    <3>1. \A s \in Sessions : held[s] \in Nat
      BY NativeAssumption
    <3>2. CASE h.run = "this"
      BY <2>1, <2>4, <2>5, <3>1, <3>2
    <3>3. CASE h.run # "this"
      BY <2>1, <2>5, <3>3, NativeAssumption
    <3> QED
      BY <3>2, <3>3
  <2>7. n \in Deliveries /\ n.client = TRUE /\ n.cursors = g /\ n.subscriptions = {}
          /\ n.pending = <<>> /\ n.outgoing = <<>> /\ n.abort = FALSE
    <3>1. PICK x : x = [NoClient EXCEPT !.client = TRUE]
      BY Zenon
    <3>2. x \in Deliveries /\ x.client = TRUE /\ x.subscriptions = {}
          /\ x.pending = <<>> /\ x.outgoing = <<>> /\ x.abort = FALSE
      BY <3>1, NoClientType, Zenon DEF Deliveries
    <3>3. n = [x EXCEPT !.cursors = g]
      BY <3>1, <2>2
    <3> QED
      BY <3>2, <3>3, <2>6, Zenon DEF Deliveries
  <2>8. b \in Seq(Frames) /\ Len(b) = 1 /\ \A i \in DOMAIN b : b[i].type # "event"
    <3>1. PICK f \in Frames : f = Control("hello") /\ f.type # "event"
      BY ControlFrames
    <3> QED
      BY <3>1, <2>3
  <2>9. PICK e : e = Enqueue(n, b)
    OBVIOUS
  <2>10. e \in Deliveries /\ Keeps(e, n) /\ e.outgoing = b /\ e.abort = FALSE
    <3>1. QueuedLen(n) = 0
      BY <2>7 DEF QueuedLen
    <3>2. HasRoom(n, b)
      BY <3>1, <2>8, NativeAssumption DEF HasRoom
    <3>3. <<>> \o b = b
      BY <2>8
    <3>4. /\ e \in Deliveries
          /\ Keeps(e, n)
          /\ \/ HasRoom(n, b) /\ e.outgoing = n.outgoing \o b /\ e.abort = n.abort
             \/ ~HasRoom(n, b) /\ e.outgoing = n.outgoing /\ e.abort = TRUE
      BY <2>7, <2>8, <2>9, EnqueueEffect, Zenon
    <3> QED
      BY <3>2, <3>3, <3>4, <2>7
  <2>11. e.client = TRUE /\ e.cursors = g /\ e.subscriptions = {} /\ e.pending = <<>>
           /\ delivery' = e
    BY <2>4, <2>7, <2>9, <2>10 DEF Keeps
  <2>12. remote' \in Remotes /\ remote'.cursor = g /\ remote'.gap = {} /\ remote'.attached = {}
    <3>1. PICK x : x = [remote EXCEPT !.cursor = g]
      BY Zenon
    <3>2. x \in Remotes /\ x.cursor = g
      BY <3>1, <2>6, Zenon DEF IInv, TypeOK, Remotes
    <3>3. PICK y : y = [x EXCEPT !.gap = {}]
      BY Zenon
    <3>4. y \in Remotes /\ y.cursor = g /\ y.gap = {}
      BY <3>2, <3>3 DEF Remotes
    <3>5. remote' = [y EXCEPT !.attached = {}]
      BY <3>1, <3>3, <2>4
    <3> QED
      BY <3>4, <3>5 DEF Remotes
  <2>13. link' \in Links /\ link'.at = "ready"
    BY <2>4, Zenon DEF IInv, TypeOK, Links
  <2>14. TypeOK'
    BY <2>4, <2>10, <2>11, <2>12, <2>13 DEF IInv, TypeOK, Places, bridge
  <2>15. ConnectionInv'
    BY <2>4, <2>11, <2>13 DEF ConnectionInv
  <2>16. KnownInv'
    <3>1. Published(delivery.outgoing)'
      BY <2>8, <2>10, <2>11 DEF Published
    <3> QED
      BY <3>1, <2>4, <2>6, <2>11, <2>12 DEF KnownInv, bridge
  <2>17. WaitingInv' /\ DrainedInv'
    BY <2>4, <2>11 DEF IInv, WaitingInv, DrainedInv, bridge
  <2>18. StreamInv'
    <3>1. \A s : Events(b, s) = {}
      BY <2>8 DEF Events
    <3>2. ASSUME NEW s \in Sessions PROVE Carries(delivery, delivery.outgoing, s)'
      <4>1. Continues(b, s, g[s]) /\ Holds(b, s, g[s], g[s])
        BY <3>1, <2>6 DEF Continues, Holds
      <4> QED
        BY <4>1, <2>10, <2>11, <2>12, Zenon DEF Carries
    <3> QED
      BY <3>2 DEF StreamInv
  <2>19. BatchInv'
    BY <2>4 DEF BatchInv
  <2>20. HoleMeansAbort'
    <3>1. QueuedLen(e) = 1
      BY <2>8, <2>10, <2>11, QueuedLenIs, Zenon
    <3> QED
      BY <3>1, <2>11, <2>12, NativeAssumption DEF HoleMeansAbort
  <2> QED
    BY <2>14, <2>15, <2>16, <2>17, <2>18, <2>19, <2>20 DEF IInv
<1>DisconnectIInv.
  ASSUME IInv, Disconnect
  PROVE  IInv'
  <2> USE <1>DisconnectIInv
  <2>1. pc = "disconnect" /\ pc' = "leave" /\ link' = Unconnected(link.via)
          /\ job' = [job EXCEPT !.sessions = delivery.subscriptions]
          /\ remote' = [remote EXCEPT !.live = {}, !.told = [s \in Sessions |-> 0]]
          /\ UNCHANGED <<bridge, delivery>>
    BY DEF Disconnect
  <2>2. delivery \in Deliveries /\ delivery.pending = <<>> /\ job \in Jobs /\ link \in Links
          /\ remote \in Remotes
    BY <2>1 DEF IInv, TypeOK, Deliveries
  <2>3. job' \in Jobs
    BY <2>1, <2>2, Zenon DEF Jobs, Deliveries
  <2>4. link' \in Links /\ link'.at = "none"
    BY <2>1, <2>2 DEF Links, Unconnected
  <2>5. remote' \in Remotes /\ remote'.cursor = remote.cursor /\ remote'.gap = remote.gap
          /\ remote'.attached = remote.attached
    <3>1. PICK x : x = [remote EXCEPT !.live = {}]
      BY Zenon
    <3>2. x \in Remotes /\ x.cursor = remote.cursor /\ x.gap = remote.gap
            /\ x.attached = remote.attached
      BY <3>1, <2>2, Zenon DEF Remotes
    <3>3. remote' = [x EXCEPT !.told = [s \in Sessions |-> 0]]
      BY <3>1, <2>1
    <3>4. [s \in Sessions |-> 0] \in [Sessions -> 0..MaxEvents]
      BY NativeAssumption
    <3> QED
      BY <3>2, <3>3, <3>4 DEF Remotes
  <2>6. TypeOK'
    BY <2>1, <2>2, <2>3, <2>4, <2>5 DEF IInv, TypeOK, Places, bridge
  <2>7. ConnectionInv'
    BY <2>1, <2>4 DEF ConnectionInv
  <2>8. KnownInv' /\ WaitingInv' /\ DrainedInv'
    BY <2>1, <2>2, <2>5 DEF IInv, KnownInv, WaitingInv, DrainedInv, Published, bridge
  <2>9. StreamInv' /\ BatchInv'
    BY <2>1 DEF StreamInv, BatchInv, Intact
  <2>10. HoleMeansAbort'
    BY <2>1, <2>5, Zenon DEF IInv, HoleMeansAbort, QueuedLen
  <2> QED
    BY <2>6, <2>7, <2>8, <2>9, <2>10 DEF IInv
\* disconnect, one cancelled subscription.
<1>LeaveSessionIInv.
  ASSUME IInv, NEW s \in Sessions, LeaveSession(s)
  PROVE  IInv'
  <2> USE <1>LeaveSessionIInv
  <2>1. pc = "leave" /\ UNCHANGED <<last, owed, host, delivery, link, pc, remote>>
          /\ job' = [job EXCEPT !.sessions = @ \ {s}]
          /\ (subscribed' = subscribed \/ (owed = {} /\ subscribed' = subscribed \ {s}))
    BY DEF LeaveSession, BridgeOpen
  <2>2. delivery.pending = <<>> /\ job' \in Jobs
    <3>1. delivery.pending = <<>>
      BY <2>1 DEF IInv, TypeOK, Deliveries
    <3>2. job' \in Jobs
      BY <2>1 DEF IInv, TypeOK, Jobs
    <3> QED
      BY <3>1, <3>2
  <2>3. TypeOK'
    BY <2>1, <2>2 DEF IInv, TypeOK
  <2>4. ConnectionInv'
    BY <2>1 DEF IInv, ConnectionInv
  <2>5. KnownInv' /\ WaitingInv' /\ DrainedInv'
    BY <2>1, <2>2 DEF IInv, KnownInv, WaitingInv, DrainedInv, Published
  <2>6. StreamInv' /\ BatchInv'
    BY <2>1 DEF StreamInv, BatchInv, Intact
  <2>7. HoleMeansAbort'
    BY <2>1, Zenon DEF IInv, HoleMeansAbort, QueuedLen
  <2> QED
    BY <2>3, <2>4, <2>5, <2>6, <2>7 DEF IInv
<1>ClearConnectionIInv.
  ASSUME IInv, ClearConnection
  PROVE  IInv'
  <2> USE <1>ClearConnectionIInv
  <2>1. pc = "leave" /\ UNCHANGED <<bridge, link, remote>> /\ delivery' = NoClient
          /\ job' = NoJob /\ pc' \in {"ended", "loop"} /\ link.at = "none"
    BY DEF ClearConnection, IInv, ConnectionInv
  <2>2. TypeOK'
    BY <2>1, NoClientType, NoJobType DEF IInv, TypeOK, Places, bridge
  <2>3. ConnectionInv'
    BY <2>1 DEF ConnectionInv
  <2>4. KnownInv'
    <3>1. \A s \in Sessions : 0 <= last[s]
      BY NativeAssumption DEF IInv, TypeOK
    <3>2. \A s \in Sessions : remote.cursor[s] <= last[s]
      BY Zenon DEF IInv, KnownInv
    <3>3. last' = last /\ remote' = remote /\ pc' # "finish"
      BY <2>1 DEF bridge
    <3>4. /\ delivery'.outgoing = <<>> /\ delivery'.pending = <<>>
          /\ delivery'.cursors = [s \in Sessions |-> 0]
      BY <2>1, NoClientType, Zenon
    <3> HIDE <1>ClearConnectionIInv
    <3>5. DOMAIN delivery'.outgoing = {} /\ DOMAIN delivery'.pending = {}
      BY <3>4
    <3>6. \A s \in Sessions : delivery'.cursors[s] <= last[s]
      BY <3>1, <3>4
    <3>7. Published(delivery.outgoing)'
      BY <3>5, Zenon DEF Published
    <3> QED
      BY <3>2, <3>3, <3>5, <3>6, <3>7, Zenon DEF KnownInv
  <2>5. WaitingInv' /\ DrainedInv'
    BY <2>1, NoClientType, Zenon DEF IInv, WaitingInv, DrainedInv, bridge
  <2>6. StreamInv' /\ BatchInv'
    BY <2>1, NoClientType, Zenon DEF StreamInv, BatchInv, Intact
  <2>7. HoleMeansAbort'
    BY <2>1, NoClientType, NativeAssumption DEF HoleMeansAbort, QueuedLen
  <2> QED
    BY <2>2, <2>3, <2>4, <2>5, <2>6, <2>7 DEF IInv
<1>HostIInv.
  ASSUME IInv, HostRevoke \/ HostClear \/ HostStop
  PROVE  IInv'
  <2> USE <1>HostIInv
  <2>1. UNCHANGED <<last, owed, delivery, link, pc, job, remote>>
          /\ host' \in {"revoked", "cleared", "stopping"}
          /\ (subscribed' = subscribed \/ (owed = {} /\ subscribed' = {}))
    BY DEF HostRevoke, HostClear, HostStop
  <2>2. TypeOK'
    BY <2>1 DEF IInv, TypeOK
  <2>3. ConnectionInv'
    BY <2>1 DEF IInv, ConnectionInv
  <2>4. KnownInv'
    BY <2>1, Zenon DEF IInv, KnownInv, Published
  <2>5. WaitingInv' /\ DrainedInv'
    BY <2>1 DEF IInv, WaitingInv, DrainedInv
  <2>6. StreamInv'
    BY <2>1 DEF IInv, StreamInv, Intact, Carries
  <2>7. BatchInv'
    BY <2>1, Zenon DEF IInv, BatchInv, Intact
  <2>8. HoleMeansAbort'
    BY <2>1, Zenon DEF IInv, HoleMeansAbort, QueuedLen
  <2> QED
    BY <2>2, <2>3, <2>4, <2>5, <2>6, <2>7, <2>8 DEF IInv
<1>HostStartIInv.
  ASSUME IInv, HostStart
  PROVE  IInv'
  <2> USE <1>HostStartIInv
  <2>1. pc = "ended" /\ pc' = "loop" /\ host' = "running"
          /\ UNCHANGED <<last, subscribed, owed, delivery, link, job, remote>>
    BY DEF HostStart
  <2>2. delivery = NoClient /\ link.at = "none"
    BY <2>1 DEF IInv, ConnectionInv
  <2>3. TypeOK'
    BY <2>1, <2>2, NoClientType DEF IInv, TypeOK, Places
  <2>4. ConnectionInv'
    BY <2>1, <2>2 DEF ConnectionInv
  <2>5. KnownInv' /\ WaitingInv' /\ DrainedInv'
    <3>1. pc' # "finish" /\ pc' # "sync"
            /\ pc' \notin {"read", "discover", "sync", "finish", "unsubscribe"}
      BY <2>1
    <3>2. KnownInv'
      BY <2>1, <3>1, Zenon DEF IInv, KnownInv, Published
    <3>3. DOMAIN delivery'.pending = {}
      BY <2>1, <2>2, NoClientType
    <3>4. WaitingInv' /\ DrainedInv'
      BY <2>1, <3>1, <3>3, Zenon DEF IInv, WaitingInv, DrainedInv
    <3> QED
      BY <3>2, <3>4, Zenon
  <2>6. StreamInv' /\ BatchInv'
    BY <2>1, <2>2, NoClientType, Zenon DEF StreamInv, BatchInv, Intact
  <2>7. HoleMeansAbort'
    BY <2>1, Zenon DEF IInv, HoleMeansAbort, QueuedLen
  <2> QED
    BY <2>3, <2>4, <2>5, <2>6, <2>7 DEF IInv
<1> QED
  BY <1>ReadHelloIInv, <1>DisconnectIInv, <1>LeaveSessionIInv, <1>ClearConnectionIInv,
     <1>HostIInv, <1>HostStartIInv, Zenon

-----------------------------------------------------------------------------
(* Steps that leave the DeliveryState and the Bridge alone *)

LEMMA MoveIInv ==
  ASSUME IInv, UNCHANGED <<bridge, delivery, remote>>,
         pc \notin {"sync", "finish", "disconnect", "leave"}, pc' \in Places \ {"sync", "finish"},
         job' \in Jobs, link' \in Links, ConnectionInv', DrainedInv'
  PROVE  IInv'
<1>1. delivery.pending = <<>>
  BY DEF IInv, TypeOK, Deliveries
<1>2. TypeOK'
  BY <1>1 DEF IInv, TypeOK, bridge
<1>3. KnownInv' /\ WaitingInv'
  <2>1. UNCHANGED <<last, subscribed, owed, host, delivery, remote>> /\ pc' # "finish"
          /\ DOMAIN delivery.pending = {}
    BY <1>1 DEF bridge
  <2> QED
    BY <2>1, Zenon DEF IInv, KnownInv, WaitingInv, Published
<1>4. StreamInv' /\ BatchInv'
  BY Zenon DEF IInv, StreamInv, BatchInv, Intact, Carries, bridge
<1>5. HoleMeansAbort'
  BY Zenon DEF IInv, HoleMeansAbort, QueuedLen
<1> QED
  BY <1>2, <1>3, <1>4, <1>5 DEF IInv

LEMMA LoopsIInv ==
  ASSUME IInv,
         \/ LoopStop \/ LoopCheck \/ SendDone
         \/ \E a \in Arrivals : LoopAccept(a) \/ LoopServe(a) \/ ListenerFails(a)
         \/ \E m \in Messages : ReadNothing(m)
  PROVE  IInv'
<1>1. UNCHANGED <<bridge, delivery, remote>>
  BY DEF LoopStop, LoopCheck, SendDone, LoopAccept, LoopServe, ListenerFails, ReadNothing
<1>2. pc \in {"loop", "check", "send", "read"}
      /\ pc' \in {"loop", "check", "send", "read", "disconnect"}
  BY DEF LoopStop, LoopCheck, SendDone, LoopAccept, LoopServe, ListenerFails, ReadNothing
<1>3. job' \in Jobs
  <2>1. job' = job \/ job' = [NoJob EXCEPT !.ending = TRUE]
    BY DEF LoopStop, LoopCheck, SendDone, LoopAccept, LoopServe, ListenerFails, ReadNothing
  <2>2. [NoJob EXCEPT !.ending = TRUE] \in Jobs
    BY NoJobType, Zenon DEF Jobs
  <2> QED
    BY <2>1, <2>2, Zenon DEF IInv, TypeOK
<1>4. link' \in Links /\ (link' = link \/ (link.at # "ready" /\ link'.at = "open"))
  BY Zenon DEF LoopStop, LoopCheck, SendDone, LoopAccept, LoopServe, ListenerFails, ReadNothing,
         Links, IInv, TypeOK
<1>5. pc' = "read" => delivery'.outgoing = <<>>
  BY <1>2 DEF LoopStop, LoopCheck, SendDone, LoopAccept, LoopServe, ListenerFails, ReadNothing
<1>6. ConnectionInv'
  BY <1>1, <1>2, <1>4, Zenon DEF IInv, ConnectionInv, NoClient
<1>7. DrainedInv'
  BY <1>2, <1>5 DEF DrainedInv, Events
<1> QED
  BY <1>1, <1>2, <1>3, <1>4, <1>6, <1>7, MoveIInv DEF Places

LEMMA DropIInv ==
  ASSUME IInv, pc = "read", Drop
  PROVE  IInv'
<1>1. UNCHANGED <<bridge, delivery, link, job, remote>> /\ pc' = "disconnect"
  BY DEF Drop
<1>2. job' \in Jobs /\ link' \in Links
  BY <1>1 DEF IInv, TypeOK
<1>3. ConnectionInv' /\ DrainedInv'
  BY <1>1 DEF IInv, ConnectionInv, DrainedInv, NoClient
<1> QED
  BY <1>1, <1>2, <1>3, MoveIInv DEF Places

\* Store::revoke_device only concerns the credential.
LEMMA RevokeIInv ==
  ASSUME IInv, Revoke
  PROVE  IInv'
<1>1. link' \in Links /\ link'.at = link.at /\ UNCHANGED <<bridge, delivery, pc, job, remote>>
  BY Zenon DEF Revoke, IInv, TypeOK, Links
<1>2. TypeOK'
  BY <1>1 DEF IInv, TypeOK, bridge
<1>3. ConnectionInv'
  BY <1>1 DEF IInv, ConnectionInv, NoClient
<1>4. KnownInv' /\ WaitingInv' /\ DrainedInv'
  BY <1>1, Zenon DEF IInv, KnownInv, WaitingInv, DrainedInv, Published, Only, bridge
<1>5. StreamInv' /\ BatchInv'
  BY <1>1, Zenon DEF IInv, StreamInv, BatchInv, Intact, Carries, bridge
<1>6. HoleMeansAbort'
  BY <1>1, Zenon DEF IInv, HoleMeansAbort, QueuedLen
<1> QED
  BY <1>2, <1>3, <1>4, <1>5, <1>6 DEF IInv

-----------------------------------------------------------------------------
(* Replies *)

LEMMA QueuedAtLeast ==
  ASSUME NEW d \in Deliveries
  PROVE  QueuedLen(d) \in Nat /\ Len(d.outgoing) <= QueuedLen(d)
<1>1. Len(d.outgoing) \in Nat
  BY DEF Deliveries
<1>2. CASE d.pending = <<>>
  BY <1>1, <1>2 DEF QueuedLen
<1>3. CASE d.pending # <<>>
  <2>1. d.pending[1] \in Pendings
    BY <1>3 DEF Deliveries
  <2>2. Len(d.pending[1].frames) \in Nat /\ Len(d.pending[1].trailing) \in Nat
    BY <2>1 DEF Pendings
  <2>3. QueuedLen(d) = Len(d.outgoing) + (Len(d.pending[1].frames)
                                           + Len(d.pending[1].trailing))
    BY <1>3 DEF QueuedLen
  <2>4. \A i, j, k \in Nat : i + (j + k) \in Nat /\ i <= i + (j + k)
    OBVIOUS
  <2> QED
    BY <1>1, <2>2, <2>3, <2>4, Zenon
<1> QED
  BY <1>2, <1>3

\* A request ends with frames put on the queue, or with the end of the connection, and
\* leaves no subscription pending.
LEMMA ReplyIInv ==
  ASSUME IInv, UNCHANGED <<bridge, link, remote>>, link.at = "ready",
         pc \notin {"disconnect", "leave"}, pc' \in {"loop", "disconnect"}, job' \in Jobs,
         NEW d \in Deliveries, d.pending = <<>>, d.client = TRUE,
         d.outgoing = delivery.outgoing, delivery.abort => d.abort,
         \A s \in Sessions : d.cursors[s] <= last[s],
         NEW b \in Seq(Frames), Published(b), delivery' = Enqueue(d, b),
         ~d.abort /\ HasRoom(d, b) =>
           \A s \in Sessions \ remote.attached : Carries(d, d.outgoing \o b, s)
  PROVE  IInv'
<1>1. PICK e : e = Enqueue(d, b)
  OBVIOUS
<1>2. e \in Deliveries /\ Keeps(e, d)
  BY <1>1, EnqueueEffect, Zenon
<1>3. \/ HasRoom(d, b) /\ e.outgoing = d.outgoing \o b /\ e.abort = d.abort
      \/ ~HasRoom(d, b) /\ e.outgoing = d.outgoing /\ e.abort = TRUE
  BY <1>1, EnqueueEffect, Zenon
<1>4. delivery' = e
  BY <1>1
<1>5. /\ e.pending = <<>> /\ e.client = TRUE
      /\ ~e.abort => ~d.abort /\ HasRoom(d, b) /\ e.outgoing = d.outgoing \o b
  BY <1>2, <1>3, Zenon DEF Keeps
<1>6. TypeOK'
  <2>1. pc' \in Places /\ pc' \notin {"sync", "finish"}
    BY DEF Places
  <2>2. Len(delivery'.pending) = 0 /\ DOMAIN delivery'.pending = {}
    BY <1>4, <1>5, NothingQueued, Zenon
  <2>3. UNCHANGED <<last, subscribed, owed, host, link, remote>>
    BY DEF bridge
  <2> QED
    BY <2>1, <2>2, <2>3, <1>2, <1>4, Zenon DEF IInv, TypeOK
<1>7. ConnectionInv'
  BY <1>4, <1>5, Zenon DEF IInv, ConnectionInv
<1>8. KnownInv'
  <2>1. Published(d.outgoing)
    BY Zenon DEF IInv, KnownInv
  <2>2. Published(d.outgoing \o b)
    BY <2>1, PublishedJoin, OutgoingType, Zenon
  <2>3. Published(e.outgoing)
    BY <1>3, <2>1, <2>2, Zenon
  <2>4. UNCHANGED <<last, remote>> /\ pc' # "finish" /\ DOMAIN delivery'.pending = {}
    BY <1>4, <1>5, NothingQueued, Zenon DEF bridge
  <2>5. Published(delivery.outgoing)'
    BY <2>3, <2>4, <1>4, Zenon DEF Published
  <2>6. \A s \in Sessions : remote.cursor[s] <= last[s] /\ e.cursors[s] <= last[s]
    BY <1>2, Zenon DEF IInv, KnownInv, Keeps
  <2> QED
    BY <2>4, <2>5, <2>6, <1>4, Zenon DEF KnownInv
<1>9. WaitingInv' /\ DrainedInv'
  <2>1. /\ owed' = owed /\ subscribed' = subscribed /\ DOMAIN delivery'.pending = {}
        /\ pc' \notin {"read", "discover", "sync", "finish", "unsubscribe"}
    BY <1>4, <1>5, NothingQueued, Zenon DEF bridge
  <2>2. owed \subseteq subscribed
    BY Zenon DEF IInv, WaitingInv
  <2> QED
    BY <2>1, <2>2, Zenon DEF WaitingInv, DrainedInv
<1>10. StreamInv'
  <2>1. SUFFICES ASSUME ~e.abort, NEW s \in Sessions \ remote.attached
                 PROVE  Carries(delivery, delivery.outgoing, s)'
    BY <1>4, Zenon DEF StreamInv, Intact
  <2>2. Carries(d, d.outgoing \o b, s)
    BY <2>1, <1>5, Zenon
  <2>3. Carries(e, e.outgoing, s)
    BY <2>1, <2>2, <1>2, <1>5, Zenon DEF Carries, Keeps
  <2> QED
    BY <2>3, <1>4, Zenon DEF Carries, bridge
<1>11. BatchInv'
  BY Zenon DEF BatchInv
<1>12. HoleMeansAbort'
  <2>1. QueuedLen(e) <= QueueCapacity
    <3>1. QueuedLen(e) = Len(e.outgoing) /\ QueuedLen(d) = Len(d.outgoing)
      BY <1>2, <1>5, QueuedLenIs, Zenon
    <3>2. CASE e.outgoing = d.outgoing \o b /\ HasRoom(d, b)
      <4>1. Len(d.outgoing \o b) = Len(d.outgoing) + Len(b)
        BY JoinedLen, OutgoingType, Zenon
      <4>2. Len(d.outgoing) + Len(b) <= QueueCapacity
        BY <3>1, <3>2, Zenon DEF HasRoom
      <4> QED
        BY <3>1, <3>2, <4>1, <4>2, Zenon
    <3>3. CASE e.outgoing = d.outgoing
      <4>1. PICK x \in Deliveries : x = delivery
        BY Zenon DEF IInv, TypeOK
      <4>2. QueuedLen(x) \in Nat /\ Len(x.outgoing) <= QueuedLen(x)
        BY QueuedAtLeast, Zenon
      <4>3. QueuedLen(x) <= QueueCapacity
        BY <4>1, Zenon DEF IInv, HoleMeansAbort
      <4>4. QueuedLen(e) = Len(x.outgoing)
        BY <3>1, <3>3, <4>1, Zenon
      <4>5. Len(x.outgoing) \in Nat
        BY OutgoingType, Zenon
      <4> QED
        BY <4>2, <4>3, <4>4, <4>5, NativeAssumption, NotAbove, Zenon
    <3> QED
      BY <3>2, <3>3, <1>3, Zenon
  <2>2. delivery.client
    BY DEF IInv, ConnectionInv
  <2> QED
    BY <2>1, <2>2, <1>4, <1>5 DEF IInv, HoleMeansAbort, QueuedLen
<1> QED
  BY <1>6, <1>7, <1>8, <1>9, <1>10, <1>11, <1>12, Zenon DEF IInv

\* The reply has no events, and the connection is subscribed to nothing new.
LEMMA QuietReplyIInv ==
  ASSUME IInv, UNCHANGED <<bridge, link, remote>>, link.at = "ready",
         pc \notin {"disconnect", "leave"}, pc' \in {"loop", "disconnect"}, job' \in Jobs,
         NEW d \in Deliveries, d.pending = <<>>, d.client = TRUE,
         d.outgoing = delivery.outgoing, delivery.abort => d.abort,
         d.cursors = delivery.cursors, d.subscriptions \subseteq delivery.subscriptions,
         NEW b \in Seq(Frames), \A i \in DOMAIN b : b[i].type # "event",
         delivery' = Enqueue(d, b)
  PROVE  IInv'
<1>1. Published(b) /\ \A s : Events(b, s) = {}
  BY DEF Published, Events
<1>2. ASSUME ~d.abort, NEW s \in Sessions \ remote.attached
      PROVE  Carries(d, d.outgoing \o b, s)
  <2>1. Carries(delivery, delivery.outgoing, s)
    BY <1>2 DEF IInv, ConnectionInv, StreamInv, Intact
  <2>2. PICK q \in Seq(Frames) : q = d.outgoing
    BY DEF Deliveries
  <2>3. PICK c \in Nat, m \in Nat, k \in Nat :
          c = remote.cursor[s] /\ m = d.cursors[s] /\ k = last[s]
    <3>1. remote \in Remotes /\ last \in [Sessions -> 0..MaxEvents]
      BY Zenon DEF IInv, TypeOK
    <3>2. remote.cursor[s] \in Nat
      BY <3>1, NativeAssumption DEF Remotes
    <3>3. d.cursors[s] \in Nat
      BY NativeAssumption DEF Deliveries
    <3>4. last[s] \in Nat
      BY <3>1, NativeAssumption
    <3> QED
      BY <3>2, <3>3, <3>4, Zenon
  <2>4. /\ Continues(q, s, c) => Continues(q \o b, s, c)
        /\ Holds(q, s, c, m) => Holds(q \o b, s, c, m)
        /\ Reaches(q, s, c, k) => Reaches(q \o b, s, c, k)
        /\ Rises(q, s) => Rises(q \o b, s)
    BY <1>1, JoinQuiet, Zenon
  <2> QED
    BY <2>1, <2>2, <2>3, <2>4, Zenon DEF Carries
<1>3. \A s \in Sessions : d.cursors[s] <= last[s]
  BY Zenon DEF IInv, KnownInv
<1> QED
  BY <1>1, <1>2, <1>3, ReplyIInv, Zenon

LEMMA RefusalIInv ==
  ASSUME IInv, UNCHANGED <<bridge, link, remote>>, link.at = "ready",
         pc \notin {"disconnect", "leave"}, pc' \in {"loop", "disconnect"}, job' \in Jobs,
         NEW d \in Deliveries, d.pending = <<>>, d.client = TRUE,
         d.outgoing = delivery.outgoing, delivery.abort => d.abort,
         d.cursors = delivery.cursors, d.subscriptions \subseteq delivery.subscriptions,
         NEW f \in Frames, f.type # "event", delivery' = Enqueue(d, <<f>>)
  PROVE  IInv'
<1>1. PICK b : b = <<f>>
  OBVIOUS
<1>2. b \in Seq(Frames) /\ \A i \in DOMAIN b : b[i].type # "event"
  BY <1>1, OneReply
<1> QED
  BY <1>1, <1>2, QuietReplyIInv, Zenon

LEMMA ReadRefusedIInv ==
  ASSUME IInv, Ready, UNCHANGED <<bridge, link, job, remote>>, pc' = "loop",
         delivery' = Refuse(delivery)
  PROVE  IInv'
<1>1. PICK d \in Deliveries : d = delivery
  BY ServedFacts DEF Ready
<1>2. PICK f \in Frames : f = Control("error") /\ f.type # "event"
  BY ControlFrames
<1>3. d.pending = <<>> /\ d.client = TRUE /\ job' \in Jobs
  BY <1>1, ServedFacts, Zenon DEF Ready
<1>4. delivery' = Enqueue(d, <<f>>)
  BY <1>1, <1>2 DEF Refuse
<1> QED
  BY <1>1, <1>2, <1>3, <1>4, RefusalIInv, Zenon DEF Ready

LEMMA ReadRepliesIInv ==
  ASSUME IInv, Ready, UNCHANGED <<bridge, link, job, remote>>,
         NEW f \in Frames, f.type # "event", Reply(delivery, <<f>>)
  PROVE  IInv'
<1>1. PICK d \in Deliveries : d = delivery
  BY ServedFacts DEF Ready
<1>2. d.pending = <<>> /\ d.client = TRUE /\ job' \in Jobs
  BY <1>1, ServedFacts, Zenon DEF Ready
<1>3. delivery' = Enqueue(d, <<f>>) /\ pc' \in {"loop", "disconnect"}
  BY <1>1 DEF Reply
<1> QED
  BY <1>1, <1>2, <1>3, RefusalIInv, Zenon DEF Ready

LEMMA ReadSubmitIInv ==
  ASSUME IInv, NEW s \in Sessions, ReadSubmit(s)
  PROVE  IInv'
<1>1. CASE delivery' = Refuse(delivery) /\ pc' = "loop"
  BY <1>1, ReadRefusedIInv DEF ReadSubmit
<1>2. CASE Reply(delivery, <<Control("accepted")>>)
  <2>1. PICK f \in Frames : f = Control("accepted") /\ f.type # "event"
    BY ControlFrames
  <2> QED
    BY <1>2, <2>1, ReadRepliesIInv DEF ReadSubmit
<1> QED
  BY <1>1, <1>2 DEF ReadSubmit

LEMMA ReadDiscoverIInv ==
  ASSUME IInv, ReadDiscover
  PROVE  IInv'
<1>1. CASE delivery' = Refuse(delivery) /\ pc' = "loop" /\ UNCHANGED job
  BY <1>1, ReadRefusedIInv DEF ReadDiscover
<1>2. CASE /\ job' = [NoJob EXCEPT !.sessions = {s \in Sessions : last[s] > 0}]
           /\ pc' = "discover"
           /\ UNCHANGED delivery
  <2>1. job' \in Jobs
    BY <1>2, NoJobType DEF Jobs
  <2>2. UNCHANGED <<bridge, delivery, link, remote>> /\ pc = "read" /\ link.at = "ready"
    BY <1>2 DEF ReadDiscover, Ready
  <2>3. ConnectionInv' /\ DrainedInv'
    BY <1>2, <2>2 DEF IInv, ConnectionInv, DrainedInv
  <2>4. link' \in Links
    BY <2>2 DEF IInv, TypeOK
  <2> QED
    BY <1>2, <2>1, <2>2, <2>3, <2>4, MoveIInv DEF Places
<1> QED
  BY <1>1, <1>2 DEF ReadDiscover

LEMMA QuietJoin ==
  ASSUME NEW q \in Seq(Frames), NEW b \in Seq(Frames),
         \A i \in DOMAIN q : q[i].type # "event", \A i \in DOMAIN b : b[i].type # "event"
  PROVE  q \o b \in Seq(Frames) /\ \A i \in DOMAIN (q \o b) : (q \o b)[i].type # "event"
<1> DEFINE r == q \o b
<1>1. /\ DOMAIN q = 1..Len(q) /\ DOMAIN b = 1..Len(b) /\ DOMAIN r = 1..(Len(q) + Len(b))
      /\ Len(q) \in Nat /\ Len(b) \in Nat /\ r \in Seq(Frames)
  OBVIOUS
<1>2. ASSUME NEW i \in DOMAIN r PROVE r[i].type # "event"
  <2>1. CASE i <= Len(q)
    <3>1. i \in DOMAIN q /\ r[i] = q[i]
      BY <2>1, <1>1
    <3> QED
      BY <3>1
  <2>2. CASE i > Len(q)
    <3>1. i - Len(q) \in DOMAIN b /\ r[i] = b[i - Len(q)]
      BY <2>2, <1>1
    <3> QED
      BY <3>1
  <2> QED
    BY <1>1, <2>1, <2>2
<1> QED
  BY <1>1, <1>2

LEMMA FinishDiscoverIInv ==
  ASSUME IInv, FinishDiscover
  PROVE  IInv'
<1>1. pc = "discover" /\ UNCHANGED <<bridge, link, remote>> /\ job' = NoJob
        /\ link.at = "ready"
  BY DEF FinishDiscover, IInv, ConnectionInv
<1>2. delivery \in Deliveries /\ delivery.client = TRUE /\ delivery.pending = <<>>
        /\ job.sessions \subseteq Sessions
  BY <1>1, ServedFacts, Zenon DEF Jobs
<1>3. PICK k \in Nat : k = Cardinality(job.sessions)
  BY <1>2, NativeAssumption
<1> DEFINE listed == [i \in 1..k |-> Control("listed")]
<1>4. listed \in Seq(Frames) /\ \A i \in DOMAIN listed : listed[i].type # "event"
  BY ControlFrames
<1>5. PICK l \in Seq(Frames) : l = listed /\ \A i \in DOMAIN l : l[i].type # "event"
  BY <1>4, Zenon
<1>6. PICK f \in Frames, g \in Frames, h \in Frames :
        /\ f = Control("started") /\ g = Control("provider") /\ h = Control("listing")
        /\ f.type # "event" /\ g.type # "event" /\ h.type # "event"
  BY ControlFrames
<1>7. PICK b : b = <<f, g>> \o l \o <<h>>
  BY Zenon
<1>8. b \in Seq(Frames) /\ \A i \in DOMAIN b : b[i].type # "event"
  <2>1. PICK x \in Seq(Frames), y \in Seq(Frames) :
          /\ x = <<f, g>> /\ y = <<h>>
          /\ \A i \in DOMAIN x : x[i].type # "event"
          /\ \A i \in DOMAIN y : y[i].type # "event"
    <3>1. <<f, g>> \in Seq(Frames) /\ \A i \in DOMAIN <<f, g>> : <<f, g>>[i].type # "event"
      BY <1>6
    <3>2. <<h>> \in Seq(Frames) /\ \A i \in DOMAIN <<h>> : <<h>>[i].type # "event"
      BY <1>6
    <3> QED
      BY <3>1, <3>2, Zenon
  <2>2. PICK z : z = x \o l
    BY Zenon
  <2>3. z \in Seq(Frames) /\ \A i \in DOMAIN z : z[i].type # "event"
    BY <2>1, <2>2, <1>5, QuietJoin
  <2>4. b = z \o y
    BY <2>1, <2>2, <1>7
  <2> QED
    BY <2>1, <2>3, <2>4, QuietJoin
<1>9. PICK d : d = IF HasRoom(delivery, b) THEN [delivery EXCEPT !.discovered = job.sessions]
                   ELSE delivery
  BY Zenon
<1>10. d \in Deliveries /\ d.pending = <<>> /\ d.client = TRUE
         /\ d.outgoing = delivery.outgoing /\ d.abort = delivery.abort
         /\ d.cursors = delivery.cursors /\ d.subscriptions = delivery.subscriptions
  BY <1>2, <1>9, Zenon DEF Deliveries
<1>11. delivery' = Enqueue(d, b) /\ pc' \in {"loop", "disconnect"}
  BY <1>3, <1>5, <1>6, <1>7, <1>9 DEF FinishDiscover, Reply
<1> QED
  BY <1>1, <1>8, <1>10, <1>11, NoJobType, QuietReplyIInv, Zenon

-----------------------------------------------------------------------------
(* Subscriptions *)

\* A queue without events of a session is to it what follows.
LEMMA JoinAfter ==
  ASSUME NEW q \in Seq(Frames), NEW b \in Seq(Frames), NEW s, NEW c \in Nat, NEW m \in Nat,
         Events(q, s) = {}
  PROVE  /\ Continues(b, s, c) => Continues(q \o b, s, c)
         /\ Holds(b, s, c, m) => Holds(q \o b, s, c, m)
         /\ Reaches(b, s, c, m) => Reaches(q \o b, s, c, m)
         /\ Rises(b, s) => Rises(q \o b, s)
<1> DEFINE qb == q \o b
<1> DEFINE n == Len(q)
<1>1. n \in Nat
  OBVIOUS
<1>0. Joined(qb, q, b, s)
  BY JoinEvents
<1> HIDE DEF qb
<1>2. \A i \in Events(b, s) : i \in Nat /\ n + i \in Events(qb, s) /\ qb[n + i] = b[i]
  BY <1>0 DEF Joined
<1>3. \A k \in Events(qb, s) : k \in Nat /\ k - n \in Events(b, s) /\ n + (k - n) = k
  <2>1. TAKE k \in Events(qb, s)
  <2>2. PICK i \in Events(b, s) : k = n + i
    BY <1>0 DEF Joined
  <2>3. i \in Nat
    BY <1>2
  <2>4. k \in Nat /\ k - n = i /\ n + (k - n) = k
    BY <2>2, <2>3, <1>1
  <2> QED
    BY <2>4
<1>4. \A k \in Events(qb, s) : qb[k] = b[k - n]
  BY <1>2, <1>3
<1> HIDE DEF n
<1>5. Continues(b, s, c) => Continues(qb, s, c)
  <2>1. SUFFICES ASSUME Continues(b, s, c), NEW k \in Events(qb, s)
                 PROVE  qb[k].n <= c + 1
                          \/ \E j \in Events(qb, s) : j < k /\ qb[j].n + 1 = qb[k].n
    BY DEF Continues
  <2>2. CASE b[k - n].n <= c + 1
    BY <2>2, <1>4
  <2>3. CASE \E j \in Events(b, s) : j < k - n /\ b[j].n + 1 = b[k - n].n
    <3>1. PICK j \in Events(b, s) : j < k - n /\ b[j].n + 1 = b[k - n].n
      BY <2>3
    <3>2. n + j \in Events(qb, s) /\ qb[n + j] = b[j] /\ j \in Nat
      BY <1>2
    <3>0. k \in Nat
      BY <1>3
    <3>3. n + j < k
      BY <3>0, <3>1, <3>2, <1>1
    <3>4. qb[n + j].n + 1 = qb[k].n
      BY <3>1, <3>2, <1>4, Zenon
    <3> QED
      BY <3>2, <3>3, <3>4, Zenon
  <2> QED
    BY <2>1, <2>2, <2>3, <1>3 DEF Continues
<1>6. Holds(b, s, c, m) => Holds(qb, s, c, m)
  BY <1>2 DEF Holds
<1>7. Reaches(b, s, c, m) => Reaches(qb, s, c, m)
  <2>1. SUFFICES ASSUME Reaches(b, s, c, m), Events(qb, s) # {}
                 PROVE  \E k \in Events(qb, s) :
                          qb[k].n = m /\ \A j \in Events(qb, s) : j <= k
    BY <1>2 DEF Reaches
  <2>2. PICK i \in Events(b, s) : b[i].n = m /\ \A j \in Events(b, s) : j <= i
    BY <2>1, <1>3 DEF Reaches
  <2>3. n + i \in Events(qb, s) /\ qb[n + i].n = m /\ i \in Nat
    BY <2>2, <1>2
  <2>4. ASSUME NEW j \in Events(qb, s) PROVE j <= n + i
    <3>1. j \in Nat /\ j - n <= i
      BY <2>2, <1>3
    <3> QED
      BY <3>1, <2>3, <1>1
  <2> QED
    BY <2>3, <2>4, Zenon
<1>8. Rises(b, s) => Rises(qb, s)
  <2>1. SUFFICES ASSUME Rises(b, s), NEW i \in Events(qb, s), NEW j \in Events(qb, s), i < j
                 PROVE  qb[i].n < qb[j].n
    BY DEF Rises
  <2>2. i - n < j - n
    BY <2>1, <1>1, <1>3
  <2> QED
    BY <2>1, <2>2, <1>3, <1>4 DEF Rises
<1> QED
  BY <1>5, <1>6, <1>7, <1>8 DEF qb

\* The Bridge, or a full queue, refuses: the pending subscription is forgotten.
LEMMA RefusedSyncIInv ==
  ASSUME IInv, pc = "sync", UNCHANGED <<bridge, link, remote>>, pc' = "loop", job' = NoJob,
         NEW a \in BOOLEAN, delivery.abort => a,
         delivery' = Refuse([delivery EXCEPT !.pending = <<>>, !.abort = a])
  PROVE  IInv'
<1>1. PICK d : d = [delivery EXCEPT !.pending = <<>>, !.abort = a]
  OBVIOUS
<1>2. d \in Deliveries /\ d.pending = <<>> /\ d.client = TRUE /\ d.abort = a
        /\ d.outgoing = delivery.outgoing /\ d.cursors = delivery.cursors
        /\ d.subscriptions = delivery.subscriptions
  <2>0. <<>> \in Seq(Pendings)
    OBVIOUS
  <2>1. delivery \in Deliveries /\ delivery.client = TRUE
    BY PendingFacts, Zenon
  <2>2. PICK x : x = [delivery EXCEPT !.pending = <<>>]
    BY Zenon
  <2>3. x \in Deliveries
    BY <2>0, <2>1, <2>2, Zenon DEF Deliveries
  <2>4. x.pending = <<>> /\ x.client = TRUE /\ x.outgoing = delivery.outgoing
          /\ x.cursors = delivery.cursors /\ x.subscriptions = delivery.subscriptions
    BY <2>1, <2>2 DEF Deliveries
  <2>5. d = [x EXCEPT !.abort = a]
    BY <2>2, <1>1
  <2> QED
    BY <2>3, <2>4, <2>5, Zenon DEF Deliveries
<1>3. PICK f \in Frames : f = Control("error") /\ f.type # "event"
  BY ControlFrames
<1>4. delivery' = Enqueue(d, <<f>>)
  BY <1>1, <1>3 DEF Refuse
<1>5. link.at = "ready"
  BY PendingFacts
<1> QED
  BY <1>2, <1>3, <1>4, <1>5, NoJobType, RefusalIInv, Zenon

PageOf(s, after, through) == [i \in 1..(through - after) |-> Frame("event", s, after + i)]

\* A page of the replay continues the one before it.
LEMMA PageStepIInv == IInv /\ SyncPage => IInv'
<1>PageFrames.
  ASSUME NEW s \in Sessions, NEW after \in Nat, NEW through \in Nat,
         after <= through, through <= MaxEvents,
         NEW q, q = PageOf(s, after, through)
  PROVE  /\ q \in Seq(Frames)
         /\ \A i \in DOMAIN q : q[i].type = "event" /\ q[i].session = s /\ q[i].n <= through
  <2> USE <1>PageFrames
  <2> DEFINE l == through - after
  <2>1. l \in Nat
    OBVIOUS
  <2>2. \A i \in 1..l : q[i] = Frame("event", s, after + i) /\ after + i \in 0..MaxEvents
                       /\ after + i <= through
    BY NativeAssumption DEF PageOf
  <2>3. q \in Seq(Frames) /\ DOMAIN q = 1..l
    <3>1. \A i \in 1..l : Frame("event", s, after + i) \in Frames
      BY <2>2, Zenon DEF Frame, Frames
    <3>2. [i \in 1..l |-> Frame("event", s, after + i)] \in Seq(Frames)
      BY <3>1, <2>1
    <3> QED
      BY <3>2 DEF PageOf
  <2>4. \A i \in DOMAIN q : q[i].type = "event" /\ q[i].session = s /\ q[i].n <= through
    BY <2>2, <2>3 DEF Frame, l
  <2> QED
    BY <2>3, <2>4
\* A page of l events after `after` continues what a client holds that has the first
\* `after` events, and reaches the end of the page.
<1>PageContinues.
  ASSUME NEW s \in Sessions, NEW after \in Nat, NEW through \in Nat,
         after <= through, through <= MaxEvents,
         NEW c \in Nat, after <= c,
         NEW q, q = PageOf(s, after, through)
  PROVE  /\ Continues(q, s, c)
         /\ Rises(q, s)
         /\ Holds(q, s, c, through)
         /\ c <= through => Reaches(q, s, c, through)
  <2> USE <1>PageContinues
  <2> DEFINE l == through - after
  <2>1. l \in Nat
    OBVIOUS
  <2>2. \A i \in 1..l : q[i] = Frame("event", s, after + i)
    BY DEF PageOf
  <2>3. DOMAIN q = 1..l
    BY DEF PageOf
  <2>4. Events(q, s) = 1..l /\ \A i \in 1..l : q[i].n = after + i
    BY <2>2, <2>3 DEF Events, Frame
  <2> HIDE DEF l
  <2>5. Continues(q, s, c)
    <3>1. ASSUME NEW i \in 1..l
          PROVE  q[i].n <= c + 1 \/ \E j \in 1..l : j < i /\ q[j].n + 1 = q[i].n
      <4>1. CASE i = 1
        BY <4>1, <2>4
      <4>2. CASE i # 1
        <5>1. i - 1 \in 1..l /\ i - 1 < i /\ (after + (i - 1)) + 1 = after + i
          BY <4>2, <2>1
        <5>2. q[i - 1].n = after + (i - 1) /\ q[i].n = after + i
          BY <5>1, <2>4
        <5> QED
          BY <5>1, <5>2
      <4> QED
        BY <4>1, <4>2
    <3> QED
      BY <3>1, <2>4, Zenon DEF Continues
  <2>6. Rises(q, s)
    <3>1. SUFFICES ASSUME NEW i \in 1..l, NEW j \in 1..l, i < j
                   PROVE  q[i].n < q[j].n
      BY <2>4 DEF Rises
    <3>2. q[i].n = after + i /\ q[j].n = after + j
      BY <2>4
    <3>3. after + i < after + j
      BY <3>1, <2>1
    <3> QED
      BY <3>2, <3>3
  <2>7. Holds(q, s, c, through)
    <3>1. CASE l = 0
      BY <3>1 DEF Holds, l
    <3>2. CASE l # 0
      <4>1. l \in 1..l /\ after + l = through
        BY <3>2, <2>1 DEF l
      <4> QED
        BY <4>1, <2>4 DEF Holds
    <3> QED
      BY <3>1, <3>2
  <2>8. ASSUME c <= through PROVE Reaches(q, s, c, through)
    <3>1. ASSUME 1..l = {} PROVE c = through
      <4>1. l = 0
        BY <3>1, <2>1
      <4> QED
        BY <4>1, <2>8 DEF l
    <3>2. ASSUME 1..l # {}
          PROVE  \E i \in 1..l : q[i].n = through /\ \A j \in 1..l : j <= i
      <4>1. l \in 1..l /\ after + l = through
        BY <3>2, <2>1 DEF l
      <4>2. \A j \in 1..l : j <= l
        BY <2>1
      <4> QED
        BY <4>1, <4>2, <2>4
    <3> QED
      BY <3>1, <3>2, <2>4 DEF Reaches
  <2> QED
    BY <2>5, <2>6, <2>7, <2>8
<1>BatchOfPage.
  ASSUME NEW a \in Seq(Frames), NEW q \in Seq(Frames), NEW z \in Seq(Frames),
         NEW k \in Seq(Frames), NEW s, NEW c \in Nat, NEW m \in Nat,
         Events(a, s) = {}, Events(z, s) = {}, Events(k, s) = {}, NEW b,
         b = a \o (q \o z) \o k \o <<>>
  PROVE  Conveys(b, q, s, c, m)
  <2> USE <1>BatchOfPage
  <2>1. PICK x \in Seq(Frames) : x = q \o z
    BY JoinFrames, Zenon
  <2>2. PICK y \in Seq(Frames) : y = a \o x
    BY JoinFrames, Zenon
  <2>3. b = y \o k
    BY <2>1, <2>2
  <2>4. /\ Continues(q, s, c) => Continues(x, s, c)
        /\ Holds(q, s, c, m) => Holds(x, s, c, m)
        /\ Reaches(q, s, c, m) => Reaches(x, s, c, m)
        /\ Rises(q, s) => Rises(x, s)
    BY <2>1, JoinQuiet, Zenon
  <2>5. /\ Continues(x, s, c) => Continues(y, s, c)
        /\ Holds(x, s, c, m) => Holds(y, s, c, m)
        /\ Reaches(x, s, c, m) => Reaches(y, s, c, m)
        /\ Rises(x, s) => Rises(y, s)
    BY <2>2, JoinAfter, Zenon
  <2>6. /\ Continues(y, s, c) => Continues(b, s, c)
        /\ Holds(y, s, c, m) => Holds(b, s, c, m)
        /\ Reaches(y, s, c, m) => Reaches(b, s, c, m)
        /\ Rises(y, s) => Rises(b, s)
    <3>1. /\ Continues(y, s, c) => Continues(y \o k, s, c)
          /\ Holds(y, s, c, m) => Holds(y \o k, s, c, m)
          /\ Reaches(y, s, c, m) => Reaches(y \o k, s, c, m)
          /\ Rises(y, s) => Rises(y \o k, s)
      BY JoinQuiet, Zenon
    <3> QED
      BY <3>1, <2>3, Zenon
  <2> QED
    BY <2>4, <2>5, <2>6, Zenon DEF Conveys
\* The page goes to the pending subscription, and its session is live when the page is
\* the last.
<1>PageIInv.
  ASSUME IInv, pc = "sync", BridgeOpen, NEW s \in Sessions, s = job.session, s \notin subscribed,
         NEW h \in Seq(Frames), HasRoom(delivery, h), Published(h), Only(h, s),
         NEW through \in 0..MaxEvents, NEW final \in BOOLEAN, through <= last[s],
         delivery' = [delivery EXCEPT !.pending[1].frames = @ \o h,
                                      !.pending[1].synced = TRUE],
         subscribed' = IF final THEN subscribed \cup {s} ELSE subscribed,
         job' = [job EXCEPT !.through = through, !.subscribed = final],
         pc' = "finish", UNCHANGED <<last, owed, host, link, remote>>,
         s \notin remote.attached /\ delivery.client /\ ~delivery.abort =>
           \A p \in Pendings :
             LET b == Batch(job', p)
                 c == remote.cursor[s]
             IN  p.frames = h /\ p.trailing = <<>> =>
                   /\ Continues(b, s, c) /\ Rises(b, s) /\ Holds(b, s, c, through)
                   /\ final => Reaches(b, s, c, last[s])
  PROVE  IInv'
  <2> USE <1>PageIInv
  <2>1. PICK d \in Deliveries : d = delivery /\ Len(d.pending) = 1 /\ d.client = TRUE
                                /\ DOMAIN d.pending = {1}
    BY PendingFacts, Zenon
  <2>2. PICK p \in Pendings : p = d.pending[1]
    BY <2>1, PendingFacts
  <2>3. p.frames = <<>> /\ p.trailing = <<>> /\ p.session = s /\ s \notin d.subscriptions
    BY <2>1, <2>2, PendingFacts, Zenon DEF IInv, WaitingInv, BridgeOpen
  <2>4. PICK g : g = [p EXCEPT !.frames = h]
    BY Zenon
  <2>5. g \in Pendings /\ g.frames = h /\ g.trailing = <<>> /\ g.session = s
    BY <2>3, <2>4 DEF Pendings
  <2>6. PICK r : r = [g EXCEPT !.synced = TRUE]
    BY Zenon
  <2>7. r \in Pendings /\ r.frames = h /\ r.trailing = <<>> /\ r.session = s /\ r.synced = TRUE
    BY <2>5, <2>6, Zenon DEF Pendings
  <2>8. PICK x : x = [d EXCEPT !.pending = [d.pending EXCEPT ![1] = g]]
    BY Zenon
  <2>9. x \in Deliveries /\ Len(x.pending) = 1 /\ x.pending[1] = g
          /\ x.client = d.client /\ x.abort = d.abort /\ x.outgoing = d.outgoing
          /\ x.subscriptions = d.subscriptions /\ x.cursors = d.cursors
    <3>1. Replaced(x, d, g)
      BY <2>1, <2>5, <2>8, PendingUpdate
    <3> QED
      BY <3>1 DEF Replaced
  <2>10. PICK e : e = [x EXCEPT !.pending = [x.pending EXCEPT ![1] = r]]
    BY Zenon
  <2>11. e \in Deliveries /\ Len(e.pending) = 1 /\ DOMAIN e.pending = {1} /\ e.pending[1] = r
          /\ e.client = x.client /\ e.abort = x.abort /\ e.outgoing = x.outgoing
          /\ e.subscriptions = x.subscriptions /\ e.cursors = x.cursors
          /\ QueuedLen(e) = Len(x.outgoing) + (Len(r.frames) + Len(r.trailing))
    <3>1. Replaced(e, x, r)
      BY <2>7, <2>9, <2>10, PendingUpdate
    <3> QED
      BY <3>1 DEF Replaced
  <2>12. delivery' = e
    <3>1. <<>> \o h = h
      OBVIOUS
    <3>2. x = [delivery EXCEPT !.pending[1].frames = @ \o h]
      BY <3>1, <2>1, <2>2, <2>3, <2>4, <2>8
    <3>3. e = [x EXCEPT !.pending[1].synced = TRUE]
      BY <2>6, <2>9, <2>10
    <3> QED
      BY <3>2, <3>3
  <2>13. e.client = TRUE /\ e.abort = d.abort /\ e.outgoing = d.outgoing
           /\ e.subscriptions = d.subscriptions /\ e.cursors = d.cursors
    BY <2>1, <2>9, <2>11
  <2>14. job' \in Jobs /\ job'.session = s /\ job'.through = through /\ job'.subscribed = final
    BY PendingFacts, Zenon DEF Jobs
  <2>15. TypeOK'
    <3>1. Len(delivery'.pending) = 1 /\ \A i \in DOMAIN delivery'.pending :
                                         delivery'.pending[i].session = job'.session
      BY <2>7, <2>11, <2>12, <2>14, Zenon
    <3> QED
      BY <3>1, <2>11, <2>12, <2>14 DEF IInv, TypeOK, Places
  <2>16. ConnectionInv'
    BY <2>12, <2>13 DEF IInv, ConnectionInv
  <2>17. KnownInv'
    <3>1. Published(r.frames)' /\ Only(r.frames, s) /\ Published(r.trailing)' /\ Only(r.trailing, s)
      BY <2>7 DEF Published, Only
    <3>2. Published(delivery.outgoing)'
      BY <2>1, <2>12, <2>13, Zenon DEF IInv, KnownInv, Published
    <3>3. \A t \in Sessions : remote'.cursor[t] <= last'[t] /\ delivery'.cursors[t] <= last'[t]
      BY <2>1, <2>12, <2>13 DEF IInv, KnownInv
    <3>4. \A k \in DOMAIN delivery'.pending :
            /\ Published(delivery.pending[k].frames)' /\ Only(delivery'.pending[k].frames, job'.session)
            /\ Published(delivery.pending[k].trailing)'
            /\ Only(delivery'.pending[k].trailing, job'.session)
      <4>1. TAKE k \in DOMAIN delivery'.pending
      <4>2. delivery'.pending[k] = r /\ job'.session = s
        BY <2>11, <2>12, <2>14, Zenon
      <4> QED
        BY <3>1, <4>2, Zenon DEF Published, Only
    <3> QED
      BY <3>2, <3>3, <3>4, <2>14 DEF KnownInv
  <2>18. WaitingInv'
    <3>1. owed' = {}
      BY DEF BridgeOpen
    <3>2. \A k \in DOMAIN delivery'.pending : delivery'.pending[k].synced
      BY <2>7, <2>11, <2>12, Zenon
    <3> QED
      BY <3>1, <3>2, <2>3, <2>12, <2>13, <2>14, Zenon DEF WaitingInv
  <2>19. DrainedInv'
    BY <2>1, <2>12, <2>13 DEF IInv, DrainedInv
  <2>20. StreamInv'
    <3>1. SUFFICES ASSUME ~d.abort, NEW t \in Sessions \ remote.attached
                   PROVE  Carries(delivery, delivery.outgoing, t)'
      BY <2>12, <2>13, Zenon DEF StreamInv, Intact
    <3>2. Carries(d, d.outgoing, t)
      BY <3>1, <2>1 DEF IInv, StreamInv, Intact
    <3> QED
      BY <3>2, <2>3, <2>12, <2>13, Zenon DEF Carries
  <2>21. BatchInv'
    <3>1. SUFFICES ASSUME ~d.abort, s \notin remote.attached
                   PROVE  LET b == Batch(job', r)
                              c == remote.cursor[s]
                          IN  /\ Continues(b, s, c) /\ Rises(b, s) /\ Holds(b, s, c, through)
                              /\ final => Reaches(b, s, c, last[s])
      <4>1. delivery'.pending[1] = r /\ delivery'.abort = d.abort /\ remote' = remote
              /\ last' = last /\ (~final => s \notin subscribed')
        BY <2>11, <2>12, <2>13, Zenon
      <4> QED
        BY <4>1, <2>14, Zenon DEF BatchInv, Intact
    <3> QED
      BY <3>1, <2>1, <2>7
  <2>22. HoleMeansAbort'
    <3>1. QueuedLen(e) <= QueueCapacity
      <4>1. QueuedLen(d) = Len(d.outgoing) + (Len(p.frames) + Len(p.trailing))
        BY <2>1, <2>2, QueuedLenIs, Zenon
      <4>2. Len(p.frames) = 0 /\ Len(p.trailing) = 0 /\ Len(r.trailing) = 0
        BY <2>3, <2>7
      <4>3. Len(d.outgoing) \in Nat /\ Len(h) \in Nat
        BY DEF Deliveries
      <4>4. QueuedLen(d) + Len(h) <= QueueCapacity
        BY <2>1 DEF HasRoom
      <4> QED
        BY <4>1, <4>2, <4>3, <4>4, <2>7, <2>9, <2>11
    <3> QED
      BY <3>1, <2>1, <2>12, <2>13 DEF IInv, HoleMeansAbort
  <2> QED
    BY <2>15, <2>16, <2>17, <2>18, <2>19, <2>20, <2>21, <2>22 DEF IInv
\* Bridge::sync_session delivers a page.
<1>SyncPageIInv.
  ASSUME IInv, SyncPage
  PROVE  IInv'
  <2> USE <1>SyncPageIInv
  <2>1. pc = "sync" /\ BridgeOpen /\ UNCHANGED <<last, owed, host, link, remote>>
    BY DEF SyncPage
  <2>2. PICK s \in Sessions : s = job.session
    BY <2>1, PendingFacts
  <2>3. PICK after \in Nat : after = delivery.cursors[s] /\ after <= last[s]
    <3>1. delivery.cursors[s] \in 0..MaxEvents
      BY <2>1, PendingFacts DEF Deliveries
    <3>2. delivery.cursors[s] \in Nat
      BY <3>1, NativeAssumption
    <3> QED
      BY <3>2 DEF IInv, KnownInv
  <2>4. PICK through \in 0..MaxEvents : through = Min2(after + PageEvents, last[s])
                                       /\ after <= through /\ through <= last[s]
    <3>1. last[s] \in 0..MaxEvents /\ PageEvents \in Nat \ {0} /\ MaxEvents \in Nat
      BY NativeAssumption DEF IInv, TypeOK
    <3> QED
      BY <3>1, <2>3 DEF Min2
  <2>5. PICK final \in BOOLEAN : final = (through = last[s])
    BY Zenon
  <2>6. PICK q : q = PageOf(s, after, through)
    OBVIOUS
  <2>7. PICK z : z = IF final THEN <<Frame("baseline", s, through)>> ELSE <<>>
    BY Zenon
  <2>8. PICK h : h = q \o z
    BY Zenon
  <2>9. /\ s \notin subscribed
        /\ \/ /\ delivery' = Refuse([delivery EXCEPT !.abort = TRUE, !.pending = <<>>])
              /\ pc' = "loop" /\ job' = NoJob /\ UNCHANGED subscribed
           \/ /\ HasRoom(delivery, h)
              /\ delivery' = [delivery EXCEPT !.pending[1].frames = @ \o h,
                                              !.pending[1].synced = TRUE]
              /\ subscribed' = IF final THEN subscribed \cup {s} ELSE subscribed
              /\ job' = [job EXCEPT !.through = through, !.subscribed = final]
              /\ pc' = "finish"
    BY <2>2, <2>3, <2>4, <2>5, <2>6, <2>7, <2>8, Zenon DEF SyncPage, PageOf
  <2>10. CASE /\ delivery' = Refuse([delivery EXCEPT !.abort = TRUE, !.pending = <<>>])
              /\ pc' = "loop" /\ job' = NoJob /\ UNCHANGED subscribed
    <3>1. [delivery EXCEPT !.abort = TRUE, !.pending = <<>>]
            = [delivery EXCEPT !.pending = <<>>, !.abort = TRUE]
      BY <2>1, PendingFacts, Zenon DEF Deliveries
    <3> QED
      BY <2>1, <2>10, <3>1, RefusedSyncIInv, Zenon DEF bridge
  <2>11. CASE /\ HasRoom(delivery, h)
              /\ delivery' = [delivery EXCEPT !.pending[1].frames = @ \o h,
                                              !.pending[1].synced = TRUE]
              /\ subscribed' = IF final THEN subscribed \cup {s} ELSE subscribed
              /\ job' = [job EXCEPT !.through = through, !.subscribed = final]
              /\ pc' = "finish"
    <3>1. through \in Nat /\ through <= MaxEvents
      BY NativeAssumption
    <3>2. /\ q \in Seq(Frames)
          /\ \A i \in DOMAIN q : q[i].type = "event" /\ q[i].session = s /\ q[i].n <= through
      <4>1. after <= through
        BY <2>4, Zenon
      <4> HIDE <1>SyncPageIInv, <2>11
      <4> QED
        BY <4>1, <2>6, <3>1, <1>PageFrames
    <3>3. z \in Seq(Frames) /\ \A i \in DOMAIN z : z[i].type # "event"
      <4>1. PICK f \in Frames : f = Frame("baseline", s, through) /\ f.type # "event"
        BY SessionFrames
      <4> QED
        BY <2>7, <4>1
    <3>4. Published(q) /\ Only(q, s) /\ Published(z) /\ Only(z, s)
      <4>1. last[s] \in Nat
        BY NativeAssumption DEF IInv, TypeOK
      <4>2. \A n \in Nat : n <= through => n <= last[s]
        BY <4>1, <3>1, <2>4
      <4>3. \A i \in DOMAIN q : q[i].n \in Nat
        BY <3>2, FrameFacts
      <4> QED
        BY <3>2, <3>3, <4>2, <4>3 DEF Published, Only
    <3>5. h \in Seq(Frames) /\ Published(h) /\ Only(h, s)
      BY <2>8, <3>2, <3>3, <3>4, JoinFrames, PublishedJoin, OnlyJoin
    <3>6. ASSUME s \notin remote.attached, delivery.client, ~delivery.abort,
                 NEW p \in Pendings, p.frames = h, p.trailing = <<>>,
                 NEW b, b = Batch(job', p), NEW c, c = remote.cursor[s]
          PROVE  /\ Continues(b, s, c) /\ Rises(b, s) /\ Holds(b, s, c, through)
                 /\ final => Reaches(b, s, c, last[s])
      <4>1. c \in Nat /\ c <= last[s]
        <5>1. remote \in Remotes /\ remote.cursor[s] <= last[s]
          BY Zenon DEF IInv, TypeOK, KnownInv
        <5>2. remote.cursor[s] \in Nat
          BY <5>1, NativeAssumption DEF Remotes
        <5> QED
          BY <5>1, <5>2, <3>6, Zenon
      <4>2. after <= c
        <5>1. Holds(delivery.outgoing, s, c, after)
          BY <3>6, <2>1, <2>3, Zenon DEF IInv, StreamInv, Intact, Carries
        <5>2. s \notin delivery.subscriptions
          BY <2>1, <2>2, PendingFacts, Zenon DEF IInv, WaitingInv
        <5>3. Events(delivery.outgoing, s) = {}
          BY <5>2, <2>1 DEF IInv, DrainedInv
        <5> QED
          BY <5>1, <5>3, <4>1, <2>3 DEF Holds
      <4>3. /\ Continues(q, s, c) /\ Rises(q, s) /\ Holds(q, s, c, through)
            /\ c <= through => Reaches(q, s, c, through)
        BY <2>3, <2>4, <2>6, <3>1, <4>1, <4>2, <1>PageContinues, Zenon
      <4>4. job'.session = s /\ job'.through = through /\ job'.subscribed = final
        BY <2>1, <2>2, <2>11, PendingFacts DEF Jobs
      <4>5. PICK a, k : a = <<Frame(IF final THEN "result" ELSE "catching", s, through)>>
                        /\ k = <<Frame(IF final THEN "completed" ELSE "more", s, through)>>
        BY Zenon
      <4>6. a \in Seq(Frames) /\ k \in Seq(Frames) /\ Events(a, s) = {} /\ Events(k, s) = {}
        BY <4>5, BatchEnds
      <4>7. Events(z, s) = {}
        BY <3>3 DEF Events
      <4>8. b = a \o (q \o z) \o k \o <<>>
        BY <3>6, <4>4, <4>5, <2>8 DEF Batch
      <4>9. /\ Continues(q, s, c) => Continues(b, s, c)
            /\ Holds(q, s, c, through) => Holds(b, s, c, through)
            /\ Reaches(q, s, c, through) => Reaches(b, s, c, through)
            /\ Rises(q, s) => Rises(b, s)
        <5>1. Conveys(b, q, s, c, through)
          BY <3>1, <3>2, <3>3, <4>1, <4>6, <4>7, <4>8, <1>BatchOfPage, Zenon
        <5> QED
          BY <5>1 DEF Conveys
      <4> QED
        BY <4>1, <4>3, <4>9, <2>5, Zenon
    <3>7. s \notin remote.attached /\ delivery.client /\ ~delivery.abort =>
            \A p \in Pendings :
              LET b == Batch(job', p)
                  c == remote.cursor[s]
              IN  p.frames = h /\ p.trailing = <<>> =>
                    /\ Continues(b, s, c) /\ Rises(b, s) /\ Holds(b, s, c, through)
                    /\ final => Reaches(b, s, c, last[s])
      BY <3>6, Zenon
    <3> QED
      BY <2>1, <2>2, <2>4, <2>9, <2>11, <3>5, <3>7, <1>PageIInv, Zenon
  <2> QED
    BY <2>9, <2>10, <2>11
<1> QED
  BY <1>SyncPageIInv, Zenon

\* process_subscribe begins: nothing is pending yet but the session.
LEMMA BeginSubscribeIInv ==
  ASSUME IInv, NEW s \in Sessions, Ready, s \notin delivery.subscriptions,
         delivery' = [delivery EXCEPT !.pending =
             <<[session |-> s, frames |-> <<>>, trailing |-> <<>>, synced |-> FALSE]>>],
         job' = [NoJob EXCEPT !.session = s], pc' = "sync", UNCHANGED <<bridge, link, remote>>
  PROVE  IInv'
<1>1. PICK p : p = [session |-> s, frames |-> <<>>, trailing |-> <<>>, synced |-> FALSE]
  BY Zenon
<1>2. p \in Pendings /\ p.session = s /\ p.frames = <<>> /\ p.trailing = <<>> /\ p.synced = FALSE
  BY <1>1 DEF Pendings
<1>3. PICK w \in Seq(Pendings) : w = <<p>> /\ Len(w) = 1 /\ DOMAIN w = {1} /\ w[1] = p
  <2>1. <<p>> \in Seq(Pendings) /\ Len(<<p>>) = 1 /\ DOMAIN <<p>> = {1} /\ <<p>>[1] = p
    BY <1>2
  <2> QED
    BY <2>1, Zenon
<1>4. PICK d \in Deliveries : d = delivery /\ d.client = TRUE /\ d.pending = <<>>
  BY ServedFacts, Zenon DEF Ready
<1>5. PICK e : e = [d EXCEPT !.pending = w]
  BY Zenon
<1>6. e \in Deliveries /\ e.pending = w /\ e.client = d.client /\ e.abort = d.abort
        /\ e.outgoing = d.outgoing /\ e.subscriptions = d.subscriptions /\ e.cursors = d.cursors
  BY <1>4, <1>5, Zenon DEF Deliveries
<1>7. delivery' = e
  BY <1>1, <1>3, <1>4, <1>5
<1>8. job' \in Jobs /\ job'.session = s
  BY NoJobType DEF Jobs
<1>9. TypeOK'
  <2>1. Len(delivery'.pending) = 1 /\ \A i \in DOMAIN delivery'.pending :
                                       delivery'.pending[i].session = job'.session
    BY <1>2, <1>3, <1>6, <1>7, <1>8
  <2> QED
    BY <2>1, <1>6, <1>7, <1>8, Zenon DEF IInv, TypeOK, Places, bridge
<1>10. ConnectionInv'
  BY <1>4, <1>6, <1>7 DEF ConnectionInv, Ready
<1>11. KnownInv'
  <2>1. last' = last /\ remote' = remote /\ pc' = "sync"
    BY Zenon DEF bridge
  <2>2. \A t \in Sessions :
          remote'.cursor[t] <= last'[t] /\ delivery'.cursors[t] <= last'[t]
    BY <1>4, <1>6, <1>7, <2>1 DEF IInv, KnownInv
  <2>3. Published(delivery.outgoing)'
    BY <1>4, <1>6, <1>7, <2>1 DEF IInv, KnownInv, Published
  <2>4. \A k \in DOMAIN delivery'.pending :
          delivery'.pending[k].frames = <<>> /\ delivery'.pending[k].trailing = <<>>
    BY <1>2, <1>3, <1>6, <1>7
  <2> QED BY <2>1, <2>2, <2>3, <2>4 DEF KnownInv, Published, Only
<1>12. WaitingInv'
  BY <1>2, <1>3, <1>4, <1>6, <1>7, <1>8 DEF IInv, WaitingInv, bridge
<1>13. DrainedInv'
  BY <1>4, <1>6, <1>7 DEF IInv, DrainedInv, Ready
<1>14. StreamInv'
  BY <1>4, <1>6, <1>7 DEF IInv, StreamInv, Intact, Carries, Ready, bridge
<1>15. BatchInv'
  BY DEF BatchInv
<1>16. HoleMeansAbort'
  <2>1. QueuedLen(e) = Len(d.outgoing) /\ QueuedLen(d) = Len(d.outgoing)
    <3>1. QueuedLen(d) = Len(d.outgoing) /\ Len(d.outgoing) \in Nat
      BY <1>4, QueuedLenIs, Zenon DEF Deliveries
    <3>2. QueuedLen(e) = Len(e.outgoing) + (Len(p.frames) + Len(p.trailing))
      BY <1>3, <1>6, QueuedLenIs, Zenon
    <3>3. Len(p.frames) = 0 /\ Len(p.trailing) = 0
      BY <1>2
    <3> QED
      BY <3>1, <3>2, <3>3, <1>6
  <2>2. QueuedLen(e) <= QueueCapacity
    BY <2>1, <1>4 DEF IInv, HoleMeansAbort
  <2> QED
    BY <2>2, <1>4, <1>6, <1>7, Zenon DEF IInv, HoleMeansAbort
<1> QED
  BY <1>9, <1>10, <1>11, <1>12, <1>13, <1>14, <1>15, <1>16 DEF IInv

LEMMA ReadSubscribeIInv ==
  ASSUME IInv, NEW s \in Sessions, ReadSubscribe(s)
  PROVE  IInv'
<1>1. Ready /\ UNCHANGED <<bridge, link, remote>>
  BY DEF ReadSubscribe
<1>2. CASE delivery' = Refuse(delivery) /\ pc' = "loop" /\ UNCHANGED job
  BY <1>1, <1>2, ReadRefusedIInv
<1>3. CASE Reply(delivery, <<Frame("already", s, delivery.cursors[s])>>) /\ UNCHANGED job
  <2>1. PICK n \in 0..MaxEvents : n = delivery.cursors[s]
    BY <1>1, ServedFacts DEF Ready, Deliveries
  <2>2. PICK f \in Frames : f = Frame("already", s, n) /\ f.type # "event"
    BY SessionFrames
  <2> QED
    BY <1>1, <1>3, <2>1, <2>2, ReadRepliesIInv
<1>4. CASE /\ s \in delivery.discovered \ delivery.subscriptions
           /\ delivery' = [delivery EXCEPT !.pending =
                <<[session |-> s, frames |-> <<>>, trailing |-> <<>>, synced |-> FALSE]>>]
           /\ job' = [NoJob EXCEPT !.session = s]
           /\ pc' = "sync"
  BY <1>1, <1>4, BeginSubscribeIInv
<1> QED
  BY <1>2, <1>3, <1>4 DEF ReadSubscribe

LEMMA SyncRefusedIInv ==
  ASSUME IInv, SyncRefused
  PROVE  IInv'
<1>1. PICK a \in BOOLEAN : a = delivery.abort
  BY PendingFacts DEF Deliveries, SyncRefused
<1>2. [delivery EXCEPT !.pending = <<>>] = [delivery EXCEPT !.pending = <<>>, !.abort = a]
  BY <1>1, PendingFacts, Zenon DEF Deliveries, SyncRefused
<1> QED
  BY <1>1, <1>2, RefusedSyncIInv, Zenon DEF SyncRefused

\* Bridge::sync_session found the Channel subscribed: nothing is promised for the session
\* on this connection.
LEMMA SyncAttachedIInv ==
  ASSUME IInv, SyncAttached
  PROVE  IInv'
<1>1. pc = "sync" /\ pc' = "finish" /\ UNCHANGED <<bridge, delivery, link>>
  BY DEF SyncAttached
<1>2. PICK s \in Sessions : s = job.session
  BY <1>1, PendingFacts
<1>3. job' \in Jobs /\ job'.session = s /\ job'.through = last[s]
  BY <1>1, <1>2, PendingFacts, Zenon DEF SyncAttached, Jobs, IInv, TypeOK
<1>4. remote' \in Remotes /\ remote'.cursor = remote.cursor /\ remote'.gap = remote.gap
        /\ remote'.attached = remote.attached \cup {s}
  BY <1>2 DEF SyncAttached, Remotes, IInv, TypeOK
<1>5. TypeOK'
  BY <1>1, <1>2, <1>3, <1>4 DEF IInv, TypeOK, Places, bridge
<1>6. ConnectionInv'
  BY <1>1 DEF IInv, ConnectionInv
<1>7. KnownInv'
  <2>1. last[s] <= last[s]
    BY DEF IInv, TypeOK
  <2> QED
    BY <2>1, <1>1, <1>2, <1>3, <1>4, Zenon DEF IInv, KnownInv, Published, Only, bridge
<1>8. WaitingInv' /\ DrainedInv'
  BY <1>1, <1>2, <1>3, <1>4, Zenon DEF IInv, WaitingInv, DrainedInv, bridge
<1>9. StreamInv' /\ BatchInv'
  BY <1>1, <1>3, <1>4, Zenon DEF IInv, StreamInv, BatchInv, Intact, Carries, bridge
<1>10. HoleMeansAbort'
  BY <1>1, <1>4, Zenon DEF IInv, HoleMeansAbort, QueuedLen
<1> QED
  BY <1>5, <1>6, <1>7, <1>8, <1>9, <1>10 DEF IInv

\* process_unsubscribe, its call of the Bridge.
LEMMA ReadUnsubscribeIInv ==
  ASSUME IInv, NEW s \in Sessions, ReadUnsubscribe(s)
  PROVE  IInv'
<1>1. CASE delivery' = Refuse(delivery) /\ pc' = "loop" /\ UNCHANGED <<subscribed, job>>
  BY <1>1, ReadRefusedIInv DEF ReadUnsubscribe, bridge
<1>2. CASE /\ BridgeOpen
           /\ subscribed' = subscribed \ {s}
           /\ job' = [NoJob EXCEPT !.session = s]
           /\ pc' = "unsubscribe"
           /\ UNCHANGED delivery
  <2>1. UNCHANGED <<last, owed, host, link, remote, delivery>> /\ pc = "read"
          /\ link.at = "ready" /\ owed = {}
    BY <1>2 DEF ReadUnsubscribe, Ready, BridgeOpen
  <2>2. job' \in Jobs /\ job'.session = s
    BY <1>2, NoJobType DEF Jobs
  <2>3. delivery.pending = <<>>
    BY <2>1, ServedFacts, Zenon
  <2>4. TypeOK'
    BY <1>2, <2>1, <2>2, <2>3 DEF IInv, TypeOK, Places
  <2>5. ConnectionInv'
    BY <1>2, <2>1, <2>2 DEF IInv, ConnectionInv
  <2>6. KnownInv' /\ WaitingInv' /\ DrainedInv'
    BY <1>2, <2>1, <2>3 DEF IInv, KnownInv, WaitingInv, DrainedInv, Published
  <2>7. StreamInv' /\ BatchInv'
    BY <1>2, <2>1 DEF IInv, StreamInv, BatchInv, Intact, Carries
  <2>8. HoleMeansAbort'
    BY <2>1, Zenon DEF IInv, HoleMeansAbort, QueuedLen
  <2> QED
    BY <2>4, <2>5, <2>6, <2>7, <2>8 DEF IInv
<1> QED
  BY <1>1, <1>2 DEF ReadUnsubscribe

LEMMA FinishUnsubscribeIInv ==
  ASSUME IInv, FinishUnsubscribe
  PROVE  IInv'
<1>1. pc = "unsubscribe" /\ UNCHANGED <<bridge, link, remote>> /\ job' = NoJob
        /\ link.at = "ready" /\ job.session \in Sessions
  BY DEF FinishUnsubscribe, IInv, ConnectionInv
<1>2. delivery \in Deliveries /\ delivery.client = TRUE /\ delivery.pending = <<>>
  BY <1>1, ServedFacts, Zenon
<1>3. PICK d : d = [delivery EXCEPT !.subscriptions = @ \ {job.session}]
  BY Zenon
<1>4. d \in Deliveries /\ d.pending = <<>> /\ d.client = TRUE
        /\ d.outgoing = delivery.outgoing /\ d.abort = delivery.abort
        /\ d.cursors = delivery.cursors /\ d.subscriptions \subseteq delivery.subscriptions
  BY <1>2, <1>3, Zenon DEF Deliveries
<1>5. PICK s \in Sessions : s = job.session
  BY <1>1
<1>6. PICK f \in Frames : f = Frame("unsubscribed", s, 0) /\ f.type # "event"
  <2>1. 0 \in 0..MaxEvents
    BY NativeAssumption
  <2> QED
    BY <2>1, SessionFrames
<1>7. delivery' = Enqueue(d, <<f>>) /\ pc' \in {"loop", "disconnect"}
  BY <1>3, <1>5, <1>6 DEF FinishUnsubscribe, Reply
<1> QED
  BY <1>1, <1>4, <1>6, <1>7, NoJobType, RefusalIInv, Zenon

\* process_subscribe, its last lock.
LEMMA FinishSubscribeIInv ==
  ASSUME IInv, FinishSubscribe
  PROVE  IInv'
<1>1. pc = "finish" /\ UNCHANGED <<bridge, link, remote>> /\ job' = NoJob
  BY DEF FinishSubscribe
<1>2. PICK s \in Sessions, n \in 0..MaxEvents, final \in BOOLEAN :
        s = job.session /\ n = job.through /\ final = job.subscribed
  BY <1>1, PendingFacts DEF Jobs
<1>3. PICK o \in Deliveries : o = delivery /\ o.client = TRUE
  BY <1>1, PendingFacts, Zenon
<1>4. PICK p : p = delivery.pending[1]
  OBVIOUS
<1>5. PICK b : b = Batch(job, p)
  OBVIOUS
<1>6. b \in Seq(Frames) /\ Published(b) /\ Only(b, s)
  BY <1>1, <1>2, <1>4, <1>5, BatchFrames
<1>7. PICK x : x = [o EXCEPT !.pending = <<>>]
  BY Zenon
<1>8. x \in Deliveries /\ x.pending = <<>> /\ x.client = TRUE /\ x.abort = o.abort
        /\ x.outgoing = o.outgoing /\ x.cursors = o.cursors /\ x.subscriptions = o.subscriptions
  <2>1. <<>> \in Seq(Pendings)
    OBVIOUS
  <2>2. x \in Deliveries
    BY <2>1, <1>7, Zenon DEF Deliveries
  <2> QED
    BY <2>2, <1>3, <1>7, Zenon DEF Deliveries
<1>9. PICK y : y = [x EXCEPT !.cursors[s] = n]
  BY Zenon
<1>10. y \in Deliveries /\ y.pending = <<>> /\ y.client = TRUE /\ y.abort = o.abort
         /\ y.outgoing = o.outgoing /\ y.cursors = [o.cursors EXCEPT ![s] = n]
         /\ y.subscriptions = o.subscriptions
  <2>1. y \in Deliveries
    BY <1>8, <1>9, Zenon DEF Deliveries
  <2> QED
    BY <2>1, <1>8, <1>9, Zenon DEF Deliveries
<1>11. PICK w : w = [y EXCEPT !.subscriptions = IF final THEN @ \cup {s} ELSE @]
  BY Zenon
<1>12. w \in Deliveries /\ w.pending = <<>> /\ w.client = TRUE /\ w.abort = o.abort
         /\ w.outgoing = o.outgoing /\ w.cursors = [o.cursors EXCEPT ![s] = n]
         /\ w.subscriptions = IF final THEN o.subscriptions \cup {s} ELSE o.subscriptions
  <2>1. w \in Deliveries
    BY <1>10, <1>11, Zenon DEF Deliveries
  <2> QED
    BY <2>1, <1>10, <1>11, Zenon DEF Deliveries
<1>13. PICK d : d = IF HasRoom(x, b) THEN w ELSE x
  OBVIOUS
<1>14. delivery' = Enqueue(d, b) /\ pc' \in {"loop", "disconnect"}
  <2>1. Reply(d, b)
    <3>1. w = [x EXCEPT !.cursors[s] = n,
                        !.subscriptions = IF final THEN @ \cup {s} ELSE @]
      BY <1>9, <1>11
    <3> QED
      BY <3>1, <1>2, <1>3, <1>4, <1>5, <1>7, <1>13, Zenon DEF FinishSubscribe, Batch
  <2> QED
    BY <2>1 DEF Reply
<1>15. d \in Deliveries /\ d.pending = <<>> /\ d.client = TRUE
         /\ d.outgoing = o.outgoing /\ d.abort = o.abort
  BY <1>8, <1>12, <1>13, Zenon
<1>16. \A t \in Sessions : d.cursors[t] <= last[t]
  <2>1. \A t \in Sessions : o.cursors[t] <= last[t]
    BY <1>3 DEF IInv, KnownInv
  <2>2. n <= last[s]
    BY <1>1, <1>2, Zenon DEF IInv, KnownInv
  <2>3. o.cursors \in [Sessions -> 0..MaxEvents]
    BY DEF Deliveries
  <2>4. \A t \in Sessions : w.cursors[t] <= last[t]
    BY <2>1, <2>2, <2>3, <1>12
  <2> QED
    BY <2>1, <2>4, <1>8, <1>13
<1>17. ASSUME ~d.abort, HasRoom(d, b), NEW t \in Sessions \ remote.attached
       PROVE  Carries(d, d.outgoing \o b, t)
  <2>1. d = w
    <3>1. QueuedLen(w) = QueuedLen(x)
      BY <1>8, <1>12 DEF QueuedLen
    <3> QED
      BY <3>1, <1>13, <1>17 DEF HasRoom
  <2>2. PICK q \in Seq(Frames) : q = d.outgoing /\ q = delivery.outgoing
    BY <1>3, <1>15 DEF Deliveries
  <2>3. PICK c \in Nat, m \in Nat, k \in Nat :
          c = remote.cursor[t] /\ m = d.cursors[t] /\ k = last[t]
    <3>1. 0..MaxEvents \subseteq Nat
      BY NativeAssumption
    <3>2. remote.cursor[t] \in 0..MaxEvents /\ last[t] \in 0..MaxEvents
      BY DEF IInv, TypeOK, Remotes
    <3>3. d.cursors[t] \in 0..MaxEvents
      BY <1>15 DEF Deliveries
    <3> QED
      BY <3>1, <3>2, <3>3
  <2>4. ~delivery.abort /\ delivery.client /\ s \notin delivery.subscriptions
    BY <1>1, <1>2, <1>3, <1>15, <1>17, PendingFacts, Zenon DEF IInv, WaitingInv
  <2>5. CASE t # s
    <3>1. Carries(delivery, q, t)
      BY <2>2, <2>4, <1>1, <1>17, Zenon DEF IInv, StreamInv, Intact
    <3>2. Events(b, t) = {}
      BY <2>5, <1>6, Zenon DEF Events, Only
    <3>3. d.cursors[t] = delivery.cursors[t]
            /\ (t \in d.subscriptions <=> t \in delivery.subscriptions)
      <4>1. o.cursors \in [Sessions -> 0..MaxEvents]
        BY DEF Deliveries
      <4>2. d.cursors = [o.cursors EXCEPT ![s] = n]
        BY <2>1, <1>12
      <4>3. d.cursors[t] = o.cursors[t]
        BY <4>1, <4>2, <2>5
      <4>4. t \in d.subscriptions <=> t \in o.subscriptions
        BY <2>1, <2>5, <1>12
      <4> QED
        BY <4>3, <4>4, <1>3, Zenon
    <3>4. /\ Continues(q, t, c) => Continues(q \o b, t, c)
          /\ Holds(q, t, c, m) => Holds(q \o b, t, c, m)
          /\ Reaches(q, t, c, k) => Reaches(q \o b, t, c, k)
          /\ Rises(q, t) => Rises(q \o b, t)
      BY <1>6, <3>2, JoinQuiet, Zenon
    <3> QED
      BY <2>2, <2>3, <3>1, <3>3, <3>4, Zenon DEF Carries
  <2>6. CASE t = s
    <3>1. Events(q, s) = {}
      BY <2>2, <2>4, <1>1, Zenon DEF IInv, DrainedInv
    <3>2. /\ Continues(b, s, c) /\ Rises(b, s) /\ Holds(b, s, c, n)
          /\ final /\ s \in subscribed => Reaches(b, s, c, k)
      BY <2>3, <2>4, <2>6, <1>1, <1>2, <1>4, <1>5, <1>17, Zenon DEF IInv, BatchInv, Intact
    <3>3. m = n /\ (s \in d.subscriptions <=> final)
      <4>1. o.cursors \in [Sessions -> 0..MaxEvents]
        BY DEF Deliveries
      <4>2. d.cursors = [o.cursors EXCEPT ![s] = n]
        BY <2>1, <1>12, Zenon
      <4>3. d.cursors[s] = n
        BY <4>1, <4>2, <2>6
      <4>4. s \in d.subscriptions <=> final
        <5>1. d.subscriptions = IF final THEN o.subscriptions \cup {s} ELSE o.subscriptions
          BY <2>1, <1>12, Zenon
        <5>2. s \notin o.subscriptions
          BY <2>4, <1>3, Zenon
        <5> QED
          BY <5>1, <5>2, Zenon
      <4> QED
        BY <4>3, <4>4, <2>3, <2>6, Zenon
    <3>4. /\ Continues(b, s, c) => Continues(q \o b, s, c)
          /\ Holds(b, s, c, m) => Holds(q \o b, s, c, m)
          /\ Reaches(b, s, c, k) => Reaches(q \o b, s, c, k)
          /\ Rises(b, s) => Rises(q \o b, s)
      BY <1>6, <3>1, JoinAfter, Zenon
    <3> QED
      BY <2>2, <2>3, <2>6, <3>2, <3>3, <3>4, Zenon DEF Carries
  <2> QED
    BY <2>5, <2>6
<1>18. link.at = "ready"
  BY <1>1, PendingFacts
<1> QED
  BY <1>1, <1>3, <1>6, <1>14, <1>15, <1>16, <1>17, <1>18, NoJobType, ReplyIInv, Zenon

-----------------------------------------------------------------------------
(* Every step keeps the invariant *)

LEMMA WorkerIInv ==
  ASSUME IInv, Worker
  PROVE  IInv'
<1>1. CASE \/ LoopStop \/ LoopCheck \/ SendDone \/ (\E a \in Arrivals : LoopServe(a))
           \/ \E m \in Messages : ReadNothing(m)
  BY <1>1, LoopsIInv
<1>2. CASE SendFrame
  BY <1>2, SendIInv
<1>3. CASE \E h \in Hellos, held \in [Sessions -> 0..MaxEvents] : ReadHello(h, held)
  BY <1>3, LifetimeIInv
<1>4. CASE ReadDiscover
  BY <1>4, ReadDiscoverIInv
<1>5. CASE FinishDiscover
  BY <1>5, FinishDiscoverIInv
<1>6. CASE \E s \in Sessions : ReadSubscribe(s) \/ ReadUnsubscribe(s) \/ ReadSubmit(s)
  BY <1>6, ReadSubscribeIInv, ReadUnsubscribeIInv, ReadSubmitIInv
<1>7. CASE SyncRefused
  BY <1>7, SyncRefusedIInv
<1>8. CASE SyncAttached
  BY <1>8, SyncAttachedIInv
<1>9. CASE SyncPage
  BY <1>9, PageStepIInv
<1>10. CASE FinishSubscribe
  BY <1>10, FinishSubscribeIInv
<1>11. CASE FinishUnsubscribe
  BY <1>11, FinishUnsubscribeIInv
<1>12. CASE Disconnect
  BY <1>12, LifetimeIInv
<1>13. CASE \E s \in Sessions : LeaveSession(s)
  BY <1>13, LifetimeIInv
<1>14. CASE ClearConnection
  BY <1>14, LifetimeIInv
<1> QED
  BY <1>1, <1>2, <1>3, <1>4, <1>5, <1>6, <1>7, <1>8, <1>9, <1>10, <1>11, <1>12, <1>13, <1>14,
     Zenon DEF Worker

LEMMA NextIInv == IInv /\ [Next]_vars => IInv'
<1> SUFFICES ASSUME IInv, [Next]_vars PROVE IInv'
  OBVIOUS
<1>1. CASE Worker
  BY <1>1, WorkerIInv
<1>2. CASE \E a \in Arrivals : LoopAccept(a) \/ ListenerFails(a)
  BY <1>2, LoopsIInv
<1>3. CASE SendFails
  BY <1>3, SendIInv
<1>4. CASE \/ TimesOut \/ PingFails \/ ReadRejected \/ (\E m \in Messages : ReadFails(m))
           \/ \E h \in Hellos, held \in [Sessions -> 0..MaxEvents] : HelloRejected(h, held)
  <2>1. pc = "read" /\ Drop
    BY <1>4, Zenon DEF TimesOut, PingFails, ReadRejected, ReadFails, HelloRejected
  <2> QED
    BY <2>1, DropIInv
<1>5. CASE Revoke
  BY <1>5, RevokeIInv
<1>6. CASE \E s \in Sessions, view \in BOOLEAN : PublishEvent(s, view)
  BY <1>6, PublishIInv
<1>7. CASE \E s \in Sessions : PublishView(s)
  BY <1>7, PublishIInv
<1>8. CASE HostRevoke \/ HostClear \/ HostStop
  BY <1>8, LifetimeIInv
<1>9. CASE HostStart
  BY <1>9, LifetimeIInv
<1>10. CASE UNCHANGED vars
  <2>1. UNCHANGED <<last, subscribed, owed, host, delivery, link, pc, job, remote>>
    BY <1>10 DEF vars
  <2>2. TypeOK' /\ ConnectionInv' /\ WaitingInv' /\ DrainedInv' /\ HoleMeansAbort'
    BY <2>1, Zenon DEF IInv, TypeOK, ConnectionInv, WaitingInv, DrainedInv, HoleMeansAbort, QueuedLen
  <2>3. KnownInv'
    BY <2>1, Zenon DEF IInv, KnownInv, Published
  <2>4. StreamInv' /\ BatchInv'
    BY <2>1, Zenon DEF IInv, StreamInv, BatchInv, Intact, Carries
  <2> QED
    BY <2>2, <2>3, <2>4 DEF IInv
<1> QED
  BY <1>1, <1>2, <1>3, <1>4, <1>5, <1>6, <1>7, <1>8, <1>9, <1>10, Zenon DEF Next

LEMMA Invariance == Spec => []IInv
<1> QED
  BY InitIInv, NextIInv, PTL DEF Spec

-----------------------------------------------------------------------------
(* The theorems *)

\* Every variable of the Native Channel keeps its type, and a subscription is pending
\* exactly while process_subscribe runs.
THEOREM TypeCorrect == Spec => []TypeOK
<1>1. IInv => TypeOK
  BY DEF IInv
<1> QED
  BY <1>1, Invariance, PTL

\* For any sessions, streams, page size and capacity: the frames queued and pending never
\* exceed the capacity, and a client sees a hole in a stream it was replayed only on a
\* connection whose abort_reason is set, whatever is published while its subscription is
\* assembled and however often it reconnects.
THEOREM HoleMeansAbortAlways == Spec => []HoleMeansAbort
<1>1. IInv => HoleMeansAbort
  BY DEF IInv
<1> QED
  BY <1>1, Invariance, PTL

\* For any sessions, streams, page size and capacity: on a connection that is not being
\* given up, the queue of a subscribed session continues what the client holds, in order
\* and without a hole, up to the last event the Bridge published.
THEOREM NothingLostAlways == Spec => []NothingLost
<1>1. IInv => NothingLost
  <2>1. SUFFICES ASSUME IInv, NEW s \in (delivery.subscriptions \cap subscribed) \ remote.attached,
                        ~delivery.abort, pc \notin {"disconnect", "leave"}
                 PROVE  /\ Continues(delivery.outgoing, s, remote.cursor[s])
                        /\ Reaches(delivery.outgoing, s, remote.cursor[s], last[s])
                        /\ Rises(delivery.outgoing, s)
    BY Zenon DEF NothingLost
  <2>2. s \in Sessions
    BY <2>1, Zenon DEF IInv, TypeOK
  <2>3. delivery.client
    BY <2>1, NoClientType DEF IInv, ConnectionInv
  <2>4. Carries(delivery, delivery.outgoing, s)
    BY <2>1, <2>2, <2>3 DEF IInv, StreamInv, Intact
  <2> QED
    BY <2>1, <2>4, Zenon DEF Carries
<1> QED
  BY <1>1, Invariance, PTL
=============================================================================
