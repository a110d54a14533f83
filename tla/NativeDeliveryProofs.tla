------------------------- MODULE NativeDeliveryProofs -------------------------
(***************************************************************************)
(* The inductive invariant of the Native Channel, and the steps that add   *)
(* to the queues and take from them: the Bridge publishes, the worker      *)
(* sends.  NativeChannelProofs has the other steps and the theorems.       *)
(***************************************************************************)
EXTENDS NativeChannel, TLAPS

-----------------------------------------------------------------------------
(* The inductive invariant *)

\* The state of a connection exists from the hello to the end of `disconnect`, and a
\* request is served only on a connection that said hello.
ConnectionInv ==
  /\ link.at # "ready" /\ pc # "leave" => delivery = NoClient
  /\ link.at = "ready" => delivery.client
  /\ pc \in {"discover", "sync", "finish", "unsubscribe"} => link.at = "ready"
  /\ pc \in {"leave", "ended"} => link.at = "none"
  /\ pc = "unsubscribe" => job.session \in Sessions

\* An event the client is sent or holds was published, and no page starts or ends behind
\* the stream.
Published(q) ==
  \A i \in DOMAIN q : q[i].type = "event" => q[i].n <= last[q[i].session]
Only(q, s) == \A i \in DOMAIN q : q[i].type = "event" => q[i].session = s
KnownInv ==
  /\ \A s \in Sessions : remote.cursor[s] <= last[s] /\ delivery.cursors[s] <= last[s]
  /\ pc = "finish" => job.through <= last[job.session]
  /\ Published(delivery.outgoing)
  /\ \A k \in DOMAIN delivery.pending :
       /\ Published(delivery.pending[k].frames) /\ Only(delivery.pending[k].frames, job.session)
       /\ Published(delivery.pending[k].trailing)
       /\ Only(delivery.pending[k].trailing, job.session)

\* The view is owed to a subscribed session.  While process_subscribe waits for the
\* Bridge its session is not among those of the connection, and nothing is in the pending
\* subscription unless the Bridge delivers the session already.
WaitingInv ==
  /\ owed \subseteq subscribed
  /\ \A k \in DOMAIN delivery.pending :
       /\ job.session \notin delivery.subscriptions
       /\ pc = "sync" =>
            /\ delivery.pending[k].trailing = <<>>
            /\ ~delivery.pending[k].synced
            /\ job.session \notin subscribed /\ host = "running" =>
                 delivery.pending[k].frames = <<>>
       /\ pc = "finish" /\ job.session \notin remote.attached => delivery.pending[k].synced

\* The worker reads a request when the queue was empty a moment ago: only sessions the
\* connection is subscribed to have put events there since.
DrainedInv ==
  pc \in {"read", "discover", "sync", "finish", "unsubscribe"} =>
    \A s \in Sessions \ delivery.subscriptions : Events(delivery.outgoing, s) = {}

\* What FinishSubscribe appends to the queue.
Batch(j, p) ==
  <<Frame(IF j.subscribed THEN "result" ELSE "catching", j.session, j.through)>>
    \o p.frames
    \o <<Frame(IF j.subscribed THEN "completed" ELSE "more", j.session, j.through)>>
    \o p.trailing

\* The client holds event m or finds it in the queue.
Holds(q, s, c, m) == c >= m \/ \E i \in Events(q, s) : q[i].n = m

Intact == delivery.client /\ ~delivery.abort /\ pc \notin {"disconnect", "leave"}

\* On a connection that is not being given up, the queue continues what the client holds,
\* from where the next page would start; the queue of a live session reaches the end of
\* the stream; and so does the batch of the session that is being synchronized.
Carries(d, q, s) ==
  /\ Continues(q, s, remote.cursor[s])
  /\ Holds(q, s, remote.cursor[s], d.cursors[s])
  /\ s \in d.subscriptions \cap subscribed =>
       Reaches(q, s, remote.cursor[s], last[s]) /\ Rises(q, s)
StreamInv ==
  Intact => \A s \in Sessions \ remote.attached : Carries(delivery, delivery.outgoing, s)
BatchInv ==
  Intact /\ pc = "finish" /\ job.session \notin remote.attached =>
    LET b == Batch(job, delivery.pending[1])
        s == job.session
        c == remote.cursor[s]
    IN  /\ Continues(b, s, c) /\ Rises(b, s) /\ Holds(b, s, c, job.through)
        /\ job.subscribed /\ s \in subscribed => Reaches(b, s, c, last[s])
        /\ ~job.subscribed => s \notin subscribed

IInv ==
  /\ TypeOK /\ ConnectionInv /\ KnownInv /\ WaitingInv /\ DrainedInv
  /\ StreamInv /\ BatchInv /\ HoleMeansAbort

-----------------------------------------------------------------------------
(* Queues *)

LEMMA FrameFacts ==
  ASSUME NEW f \in Frames
  PROVE  /\ f.n \in Nat
         /\ f.type = "event" => f.session \in Sessions
BY NativeAssumption DEF Frames

LEMMA NothingQueued == Len(<<>>) = 0 /\ DOMAIN <<>> = {}
OBVIOUS

LEMMA JoinedLen ==
  ASSUME NEW q \in Seq(Frames), NEW b \in Seq(Frames)
  PROVE  Len(q \o b) = Len(q) + Len(b)
OBVIOUS

LEMMA NotAbove ==
  ASSUME NEW m \in Nat, NEW n \in Nat, NEW k \in Nat, m <= n, n <= k
  PROVE  m <= k
OBVIOUS

LEMMA OutgoingType ==
  ASSUME NEW d \in Deliveries
  PROVE  d.outgoing \in Seq(Frames) /\ Len(d.outgoing) \in Nat
BY DEF Deliveries

\* Where the events of a joined queue are.
Joined(r, q, b, s) ==
  /\ r \in Seq(Frames)
  /\ \A i \in Events(q, s) : i \in Nat /\ i <= Len(q) /\ i \in Events(r, s) /\ r[i] = q[i]
  /\ \A i \in Events(b, s) : i \in Nat /\ Len(q) + i \in Events(r, s) /\ r[Len(q) + i] = b[i]
  /\ \A k \in Events(r, s) : k \in Events(q, s) \/ \E i \in Events(b, s) : k = Len(q) + i

LEMMA JoinEvents ==
  ASSUME NEW q \in Seq(Frames), NEW b \in Seq(Frames), NEW s
  PROVE  Joined(q \o b, q, b, s)
<1> DEFINE qb == q \o b
<1>1. qb \in Seq(Frames) /\ Len(qb) = Len(q) + Len(b)
  OBVIOUS
<1>2. \A i \in 1..Len(q) : qb[i] = q[i]
  OBVIOUS
<1>3. \A i \in 1..Len(b) : qb[Len(q) + i] = b[i]
  OBVIOUS
<1>4. DOMAIN q = 1..Len(q) /\ DOMAIN b = 1..Len(b) /\ DOMAIN qb = 1..(Len(q) + Len(b))
  BY <1>1
<1>5. Len(q) \in Nat /\ Len(b) \in Nat
  OBVIOUS
<1> HIDE DEF qb
<1>6. \A i \in Events(q, s) : i \in Nat /\ i <= Len(q) /\ i \in Events(qb, s) /\ qb[i] = q[i]
  BY <1>2, <1>4, <1>5 DEF Events
<1>7. \A i \in Events(b, s) : i \in Nat /\ Len(q) + i \in Events(qb, s)
                              /\ qb[Len(q) + i] = b[i]
  BY <1>3, <1>4, <1>5 DEF Events
<1>8. \A k \in 1..(Len(q) + Len(b)) :
        k > Len(q) => k - Len(q) \in 1..Len(b) /\ qb[k] = b[k - Len(q)]
  <2>1. TAKE k \in 1..(Len(q) + Len(b))
  <2>2. HAVE k > Len(q)
  <2>3. k - Len(q) \in 1..Len(b) /\ Len(q) + (k - Len(q)) = k
    BY <2>2, <1>5
  <2> QED
    BY <2>3, <1>3
<1>9. ASSUME NEW k \in Events(qb, s)
      PROVE  k \in Events(q, s) \/ \E i \in Events(b, s) : k = Len(q) + i
  <2>1. k \in 1..(Len(q) + Len(b))
    BY <1>4 DEF Events
  <2>2. CASE k <= Len(q)
    BY <2>1, <2>2, <1>2, <1>4 DEF Events
  <2>3. CASE k > Len(q)
    <3>1. k - Len(q) \in Events(b, s)
      BY <2>1, <2>3, <1>4, <1>8 DEF Events
    <3>2. k = Len(q) + (k - Len(q))
      BY <2>1, <1>5
    <3> QED
      BY <3>1, <3>2
  <2> QED
    BY <2>1, <2>2, <2>3, <1>5
<1>10. Joined(qb, q, b, s)
  BY <1>1, <1>6, <1>7, <1>9 DEF Joined
<1> QED
  BY <1>10 DEF qb

LEMMA JoinFrames ==
  ASSUME NEW q \in Seq(Frames), NEW b \in Seq(Frames)
  PROVE  q \o b \in Seq(Frames)
OBVIOUS

\* Frames that are no events of a session change nothing for it when they are queued.
LEMMA JoinQuiet ==
  ASSUME NEW q \in Seq(Frames), NEW b \in Seq(Frames), NEW s, NEW c \in Nat, NEW m \in Nat,
         Events(b, s) = {}
  PROVE  /\ Events(q \o b, s) = Events(q, s)
         /\ Continues(q, s, c) => Continues(q \o b, s, c)
         /\ Holds(q, s, c, m) => Holds(q \o b, s, c, m)
         /\ Reaches(q, s, c, m) => Reaches(q \o b, s, c, m)
         /\ Rises(q, s) => Rises(q \o b, s)
<1> DEFINE qb == q \o b
<1>1. Events(qb, s) = Events(q, s) /\ \A i \in Events(q, s) : qb[i] = q[i]
  <2>0. Joined(qb, q, b, s)
    BY JoinEvents
  <2> HIDE DEF qb
  <2>1. \A i \in Events(q, s) : i \in Events(qb, s) /\ qb[i] = q[i]
    BY <2>0 DEF Joined
  <2>2. ASSUME NEW k \in Events(qb, s)
        PROVE  k \in Events(q, s)
    BY <2>0 DEF Joined
  <2> QED
    BY <2>1, <2>2, Zenon
<1> HIDE DEF qb
<1>2. Continues(q, s, c) => Continues(qb, s, c)
  BY <1>1 DEF Continues
<1>3. Holds(q, s, c, m) => Holds(qb, s, c, m)
  BY <1>1 DEF Holds
<1>4. Reaches(q, s, c, m) => Reaches(qb, s, c, m)
  BY <1>1 DEF Reaches
<1>5. Rises(q, s) => Rises(qb, s)
  BY <1>1 DEF Rises
<1> QED
  BY <1>1, <1>2, <1>3, <1>4, <1>5 DEF qb

LEMMA OnlyJoin ==
  ASSUME NEW q \in Seq(Frames), NEW b \in Seq(Frames), NEW s, Only(q, s), Only(b, s)
  PROVE  Only(q \o b, s)
<1> DEFINE r == q \o b
<1>1. DOMAIN q = 1..Len(q) /\ DOMAIN b = 1..Len(b) /\ DOMAIN r = 1..(Len(q) + Len(b))
        /\ Len(q) \in Nat /\ Len(b) \in Nat
  OBVIOUS
<1>2. ASSUME NEW i \in DOMAIN r PROVE r[i].type = "event" => r[i].session = s
  <2>1. CASE i <= Len(q)
    <3>1. i \in DOMAIN q /\ r[i] = q[i]
      BY <2>1, <1>1
    <3> QED
      BY <3>1 DEF Only
  <2>2. CASE i > Len(q)
    <3>1. i - Len(q) \in DOMAIN b /\ r[i] = b[i - Len(q)]
      BY <2>2, <1>1
    <3> QED
      BY <3>1 DEF Only
  <2> QED
    BY <1>1, <2>1, <2>2
<1> QED
  BY <1>2 DEF Only

-----------------------------------------------------------------------------
(* What is done to the DeliveryState *)

\* What waits in a pending subscription is counted with the queue.
LEMMA QueuedLenIs ==
  ASSUME NEW d \in Deliveries
  PROVE  /\ QueuedLen(d) \in Nat
         /\ d.pending = <<>> => QueuedLen(d) = Len(d.outgoing)
         /\ Len(d.pending) = 1 =>
              /\ d.pending[1] \in Pendings
              /\ QueuedLen(d) = Len(d.outgoing) + (Len(d.pending[1].frames)
                                                    + Len(d.pending[1].trailing))
<1>1. CASE d.pending = <<>>
  BY <1>1 DEF QueuedLen, Deliveries
<1>2. CASE d.pending # <<>>
  <2>1. d.pending \in Seq(Pendings) /\ d.pending[1] \in Pendings
    BY <1>2 DEF Deliveries
  <2>2. Len(d.outgoing) \in Nat /\ Len(d.pending[1].frames) \in Nat
          /\ Len(d.pending[1].trailing) \in Nat
    BY <2>1 DEF Deliveries, Pendings
  <2>3. QueuedLen(d) = Len(d.outgoing) + (Len(d.pending[1].frames)
                                           + Len(d.pending[1].trailing))
    BY <1>2 DEF QueuedLen
  <2>4. QueuedLen(d) \in Nat
    <3>1. \A i, j, k \in Nat : i + (j + k) \in Nat
      OBVIOUS
    <3> QED
      BY <2>2, <2>3, <3>1, Zenon
  <2> QED
    BY <1>2, <2>1, <2>3, <2>4, Zenon
<1> QED
  BY <1>1, <1>2, Zenon

LEMMA NoClientType ==
  /\ NoClient \in Deliveries
  /\ NoClient.client = FALSE /\ NoClient.abort = FALSE /\ NoClient.outgoing = <<>>
  /\ NoClient.pending = <<>> /\ NoClient.subscriptions = {} /\ NoClient.discovered = {}
  /\ NoClient.cursors = [s \in Sessions |-> 0]
BY NativeAssumption DEF NoClient, Deliveries

LEMMA NoJobType == NoJob \in Jobs
BY NativeAssumption DEF NoJob, Jobs

\* The channel starts without a connection.
LEMMA InitIInv == Init => IInv
<1> SUFFICES ASSUME Init PROVE IInv
  OBVIOUS
<1>1. delivery = NoClient /\ pc = "loop" /\ owed = {} /\ subscribed = {} /\ link.at = "none"
        /\ link \in Links
  BY DEF Init, Unconnected, Links
<1>2. TypeOK
  <2>1. remote \in Remotes /\ last \in [Sessions -> 0..MaxEvents]
    BY NativeAssumption DEF Init, Remotes
  <2>2. host \in {"running", "revoked", "cleared", "stopping"} /\ job = NoJob
    BY DEF Init
  <2>3. pc \in Places /\ pc \notin {"sync", "finish"}
    BY <1>1 DEF Places
  <2>4. Len(delivery.pending) = 0 /\ DOMAIN delivery.pending = {} /\ delivery \in Deliveries
    BY <1>1, NoClientType
  <2> QED
    BY <1>1, <2>1, <2>2, <2>3, <2>4, NoJobType, Zenon DEF TypeOK
<1>3. ConnectionInv
  BY <1>1 DEF ConnectionInv
<1>4. KnownInv
  <2>1. /\ delivery.outgoing = <<>> /\ delivery.pending = <<>> /\ pc # "finish"
        /\ delivery.cursors = [s \in Sessions |-> 0]
    BY <1>1, NoClientType
  <2>2. \A s \in Sessions : remote.cursor[s] <= last[s] /\ 0 <= last[s]
    BY NativeAssumption DEF Init
  <2> QED
    BY <2>1, <2>2 DEF KnownInv, Published
<1>5. WaitingInv /\ DrainedInv
  BY <1>1, NoClientType DEF WaitingInv, DrainedInv
<1>6. StreamInv /\ BatchInv
  BY <1>1, NoClientType, Zenon DEF StreamInv, BatchInv, Intact
<1>7. HoleMeansAbort
  BY <1>1, NoClientType, NativeAssumption DEF HoleMeansAbort, QueuedLen
<1> QED
  BY <1>2, <1>3, <1>4, <1>5, <1>6, <1>7 DEF IInv

LEMMA PublishedJoin ==
  ASSUME NEW q \in Seq(Frames), NEW b \in Seq(Frames), Published(q), Published(b)
  PROVE  Published(q \o b)
<1> DEFINE r == q \o b
<1>1. DOMAIN q = 1..Len(q) /\ DOMAIN b = 1..Len(b) /\ DOMAIN r = 1..(Len(q) + Len(b))
        /\ Len(q) \in Nat /\ Len(b) \in Nat
  OBVIOUS
<1>2. ASSUME NEW i \in DOMAIN r PROVE r[i].type = "event" => r[i].n <= last[r[i].session]
  <2>1. CASE i <= Len(q)
    <3>1. i \in DOMAIN q /\ r[i] = q[i]
      BY <2>1, <1>1
    <3> QED
      BY <3>1 DEF Published
  <2>2. CASE i > Len(q)
    <3>1. i - Len(q) \in DOMAIN b /\ r[i] = b[i - Len(q)]
      BY <2>2, <1>1
    <3> QED
      BY <3>1 DEF Published
  <2>3. i <= Len(q) \/ i > Len(q)
    BY <1>1
  <2> QED
    BY <2>1, <2>2, <2>3, Zenon
<1> QED
  BY <1>2 DEF Published

\* One frame that is no event.
LEMMA OneReply ==
  ASSUME NEW f \in Frames, f.type # "event", NEW b, b = <<f>>
  PROVE  b \in Seq(Frames) /\ \A i \in DOMAIN b : b[i].type # "event"
OBVIOUS

LEMMA ControlFrames ==
  \A t \in {"hello", "started", "provider", "listed", "listing", "error", "accepted"} :
    Control(t) \in Frames /\ Control(t).type # "event"
BY DEF Control, Frame, Frames

LEMMA SessionFrames ==
  ASSUME NEW s \in Sessions, NEW n \in 0..MaxEvents,
         NEW t \in {"already", "result", "catching", "event", "view", "baseline", "completed",
                   "more", "unsubscribed"}
  PROVE  /\ Frame(t, s, n) \in Frames
         /\ Frame(t, s, n).type = t /\ Frame(t, s, n).session = s /\ Frame(t, s, n).n = n
BY DEF Frame, Frames

\* While a request is served nothing is pending unless it is a subscription.
LEMMA ServedFacts ==
  ASSUME IInv, link.at = "ready"
  PROVE  /\ delivery \in Deliveries /\ delivery.client = TRUE
         /\ pc \notin {"sync", "finish"} => delivery.pending = <<>>
         /\ job \in Jobs
BY DEF IInv, TypeOK, ConnectionInv, Deliveries

\* The session of a pending subscription and what waits in it.
LEMMA PendingFacts ==
  ASSUME IInv, pc \in {"sync", "finish"}
  PROVE  /\ Len(delivery.pending) = 1 /\ DOMAIN delivery.pending = {1}
         /\ delivery.pending[1] \in Pendings /\ delivery.pending[1].session = job.session
         /\ job.session \in Sessions /\ link.at = "ready"
         /\ delivery \in Deliveries /\ delivery.client = TRUE /\ job \in Jobs
<1>1. delivery \in Deliveries /\ Len(delivery.pending) = 1 /\ job \in Jobs
  BY DEF IInv, TypeOK
<1>2. DOMAIN delivery.pending = {1} /\ delivery.pending[1] \in Pendings
  BY <1>1 DEF Deliveries
<1>3. delivery.pending[1].session = job.session
  BY <1>2 DEF IInv, TypeOK
<1>4. link.at = "ready" /\ delivery.client = TRUE
  BY <1>1 DEF IInv, ConnectionInv, Deliveries
<1> QED
  BY <1>1, <1>2, <1>3, <1>4 DEF Pendings

\* e is d but for its pending subscription, which is p.
Replaced(e, d, p) ==
  /\ e \in Deliveries /\ Len(e.pending) = 1 /\ DOMAIN e.pending = {1} /\ e.pending[1] = p
  /\ e.client = d.client /\ e.abort = d.abort /\ e.outgoing = d.outgoing
  /\ e.subscriptions = d.subscriptions /\ e.cursors = d.cursors
  /\ QueuedLen(e) = Len(d.outgoing) + (Len(p.frames) + Len(p.trailing))

LEMMA PendingUpdate ==
  ASSUME NEW d \in Deliveries, Len(d.pending) = 1, NEW p \in Pendings
  PROVE  Replaced([d EXCEPT !.pending = [d.pending EXCEPT ![1] = p]], d, p)
<1>0. PICK e : e = [d EXCEPT !.pending = [d.pending EXCEPT ![1] = p]]
  BY Zenon
<1>1. d.pending \in Seq(Pendings)
  BY DEF Deliveries
<1>2. PICK w \in Seq(Pendings) : w = [d.pending EXCEPT ![1] = p] /\ Len(w) = 1
                                 /\ DOMAIN w = {1} /\ w[1] = p
  <2>0. [i \in 1..1 |-> p] \in Seq(Pendings)
    OBVIOUS
  <2>1. [d.pending EXCEPT ![1] = p] \in Seq(Pendings)
    <3>1. DOMAIN d.pending = 1..1
      BY <1>1
    <3>2. [d.pending EXCEPT ![1] = p] = [i \in 1..1 |-> p]
      BY <3>1
    <3> QED
      BY <3>2, <2>0, Zenon
  <2>2. PICK w \in Seq(Pendings) : w = [d.pending EXCEPT ![1] = p]
    BY <2>1, Zenon
  <2>3. Len(w) = 1 /\ DOMAIN w = {1} /\ w[1] = p
    BY <2>2, <1>1
  <2> QED
    BY <2>2, <2>3
<1>3. e = [d EXCEPT !.pending = w]
  BY <1>0, <1>2
<1>4. e \in Deliveries
  BY <1>3, Zenon DEF Deliveries
<1>5. e.pending = w /\ e.client = d.client /\ e.abort = d.abort /\ e.outgoing = d.outgoing
        /\ e.subscriptions = d.subscriptions /\ e.cursors = d.cursors
  BY <1>3 DEF Deliveries
<1>6. QueuedLen(e) = Len(e.outgoing) + (Len(e.pending[1].frames) + Len(e.pending[1].trailing))
  BY <1>2, <1>4, <1>5, QueuedLenIs, Zenon
<1>7. Replaced(e, d, p)
  BY <1>2, <1>4, <1>5, <1>6 DEF Replaced
<1> QED
  BY <1>0, <1>7

\* A batch is its page with frames before and after it that are no events.
Conveys(b, q, s, c, m) ==
  /\ Continues(q, s, c) => Continues(b, s, c)
  /\ Holds(q, s, c, m) => Holds(b, s, c, m)
  /\ Reaches(q, s, c, m) => Reaches(b, s, c, m)
  /\ Rises(q, s) => Rises(b, s)

\* The frames that open and close a batch are no events.
LEMMA BatchEnds ==
  ASSUME NEW s \in Sessions, NEW n \in 0..MaxEvents, NEW final \in BOOLEAN,
         NEW a, a = <<Frame(IF final THEN "result" ELSE "catching", s, n)>>,
         NEW k, k = <<Frame(IF final THEN "completed" ELSE "more", s, n)>>
  PROVE  /\ a \in Seq(Frames) /\ \A i \in DOMAIN a : a[i].type # "event"
         /\ k \in Seq(Frames) /\ \A i \in DOMAIN k : k[i].type # "event"
         /\ \A t : Events(a, t) = {} /\ Events(k, t) = {}
<1>1. PICK f \in Frames : f = Frame(IF final THEN "result" ELSE "catching", s, n)
                         /\ f.type # "event"
  BY SessionFrames
<1>2. PICK g \in Frames : g = Frame(IF final THEN "completed" ELSE "more", s, n)
                         /\ g.type # "event"
  BY SessionFrames
<1>3. a \in Seq(Frames) /\ \A i \in DOMAIN a : a[i].type # "event"
  BY <1>1, OneReply
<1>4. k \in Seq(Frames) /\ \A i \in DOMAIN k : k[i].type # "event"
  BY <1>2, OneReply
<1> QED
  BY <1>3, <1>4 DEF Events

\* A batch is made of published events of its session.
LEMMA BatchFrames ==
  ASSUME IInv, pc = "finish", NEW p, p = delivery.pending[1], NEW b, b = Batch(job, p)
  PROVE  b \in Seq(Frames) /\ Published(b) /\ Only(b, job.session)
<1>1. PICK s \in Sessions, n \in 0..MaxEvents, final \in BOOLEAN :
        s = job.session /\ n = job.through /\ final = job.subscribed
  BY PendingFacts DEF Jobs
<1>2. PICK a, k : a = <<Frame(IF final THEN "result" ELSE "catching", s, n)>>
                  /\ k = <<Frame(IF final THEN "completed" ELSE "more", s, n)>>
  BY Zenon
<1>3. /\ a \in Seq(Frames) /\ \A i \in DOMAIN a : a[i].type # "event"
      /\ k \in Seq(Frames) /\ \A i \in DOMAIN k : k[i].type # "event"
  BY <1>2, BatchEnds
<1>4. Published(a) /\ Only(a, s) /\ Published(k) /\ Only(k, s)
  BY <1>3 DEF Published, Only
<1>5. PICK f \in Seq(Frames), g \in Seq(Frames) : f = p.frames /\ g = p.trailing
  BY PendingFacts DEF Pendings
<1>6. Published(f) /\ Only(f, s) /\ Published(g) /\ Only(g, s)
  BY <1>1, <1>5, PendingFacts, Zenon DEF IInv, KnownInv
<1>7. PICK x \in Seq(Frames) : x = a \o f
  BY <1>3, JoinFrames, Zenon
<1>8. Published(x) /\ Only(x, s)
  BY <1>3, <1>4, <1>6, <1>7, PublishedJoin, OnlyJoin
<1>9. PICK y \in Seq(Frames) : y = x \o k
  BY <1>3, JoinFrames, Zenon
<1>10. Published(y) /\ Only(y, s)
  BY <1>3, <1>4, <1>8, <1>9, PublishedJoin, OnlyJoin
<1>11. b = y \o g
  BY <1>1, <1>2, <1>5, <1>7, <1>9, Zenon DEF Batch
<1> QED
  BY <1>1, <1>6, <1>10, <1>11, JoinFrames, PublishedJoin, OnlyJoin

-----------------------------------------------------------------------------
(* The Bridge publishes *)

\* NativeChannelPort::deliver, case by case.
Dropped(e, d, s) == e = d /\ (~d.client \/ ~(IsPending(d, s) \/ s \in d.subscriptions))
Overflowed(e, d) == e = [d EXCEPT !.abort = TRUE] /\ d.client
Queued(e, d, s, f) ==
  /\ d.client /\ ~IsPending(d, s) /\ s \in d.subscriptions /\ QueuedLen(d) < QueueCapacity
  /\ e = [d EXCEPT !.outgoing = Append(@, f)]
Trailed(e, d, s, f) ==
  /\ d.client /\ IsPending(d, s) /\ QueuedLen(d) < QueueCapacity /\ d.pending[1].synced
  /\ e = [d EXCEPT !.pending[1].trailing = Append(@, f)]
Waited(e, d, s, f) ==
  /\ d.client /\ IsPending(d, s) /\ QueuedLen(d) < QueueCapacity /\ ~d.pending[1].synced
  /\ e = [d EXCEPT !.pending[1].frames = Append(@, f)]

\* An event makes its stream longer by one, a view leaves the streams alone.
Publishes(s, f) ==
  /\ f \in Frames /\ f.session = s
  /\ UNCHANGED <<subscribed, host, link, pc, job, remote>>
  /\ owed' \subseteq subscribed
  /\ last' \in [Sessions -> 0..MaxEvents]
  /\ \A t \in Sessions : t # s => last'[t] = last[t]
  /\ \/ f.type # "event" /\ last'[s] = last[s]
     \/ f.type = "event" /\ f.n = last[s] + 1 /\ last'[s] = last[s] + 1

\* A published event or view is dropped, overflows the queue, is queued, or waits with the
\* pending subscription; each keeps the invariant.
LEMMA PublishIInv ==
  /\ IInv
  /\ \/ \E s \in Sessions, view \in BOOLEAN : PublishEvent(s, view)
     \/ \E s \in Sessions : PublishView(s)
  => IInv'
<1>OneEvent.
  ASSUME NEW f \in Frames, NEW s
  PROVE  /\ <<f>> \in Seq(Frames) /\ Len(<<f>>) = 1 /\ <<f>>[1] = f
         /\ ~(f.type = "event" /\ f.session = s) => Events(<<f>>, s) = {}
         /\ f.type = "event" /\ f.session = s => Events(<<f>>, s) = {1}
  BY DEF Events
<1>AppendJoins.
  ASSUME NEW q \in Seq(Frames), NEW f \in Frames
  PROVE  Append(q, f) = q \o <<f>>
  OBVIOUS
<1>JoinJoins.
  ASSUME NEW q \in Seq(Frames), NEW b \in Seq(Frames), NEW d \in Seq(Frames)
  PROVE  q \o (b \o d) = (q \o b) \o d
  OBVIOUS
\* The next event of a stream is queued behind its predecessor.
<1>JoinNext.
  ASSUME NEW q \in Seq(Frames), NEW f \in Frames, NEW s, NEW c \in Nat, NEW m \in Nat,
         f.type = "event", f.session = s, f.n = m + 1,
         Continues(q, s, c), Reaches(q, s, c, m)
  PROVE  /\ Continues(q \o <<f>>, s, c)
         /\ Reaches(q \o <<f>>, s, c, m + 1)
         /\ Rises(q, s) /\ (\A i \in Events(q, s) : q[i].n <= m) => Rises(q \o <<f>>, s)
  <2> USE <1>JoinNext
  <2>0. PICK b : b = <<f>>
    BY Zenon
  <2> DEFINE qf == q \o b
  <2> DEFINE l == Len(q) + 1
  <2>1. Len(q) \in Nat /\ l \in Nat
    OBVIOUS
  <2>2. b \in Seq(Frames) /\ Events(b, s) = {1} /\ b[1] = f
    BY <2>0, <1>OneEvent, Zenon
  <2>11. Joined(qf, q, b, s)
    BY <2>2, JoinEvents
  <2> HIDE DEF qf
  <2>3. \A i \in Events(q, s) : i \in Nat /\ i < l /\ i \in Events(qf, s) /\ qf[i] = q[i]
    BY <2>1, <2>11 DEF Joined
  <2>4. l \in Events(qf, s) /\ qf[l] = f
    BY <2>1, <2>2, <2>11 DEF Joined
  <2>5. \A k \in Events(qf, s) : k \in Events(q, s) \/ k = l
    BY <2>2, <2>11 DEF Joined
  <2>6. \A i \in Events(q, s) : q[i].n \in Nat
    BY FrameFacts DEF Events
  <2> HIDE DEF l
  <2>7. (Events(q, s) = {} /\ c = m) \/ \E i \in Events(q, s) : q[i].n = m
    BY DEF Reaches
  <2>8. Continues(qf, s, c)
    <3>1. ASSUME NEW i \in Events(q, s)
          PROVE  qf[i].n <= c + 1 \/ \E j \in Events(qf, s) : j < i /\ qf[j].n + 1 = qf[i].n
      BY <2>3 DEF Continues
    <3>2. f.n <= c + 1 \/ \E j \in Events(qf, s) : j < l /\ qf[j].n + 1 = f.n
      BY <2>3, <2>7
    <3> QED
      BY <3>1, <3>2, <2>4, <2>5 DEF Continues
  <2>9. Reaches(qf, s, c, m + 1)
    <3>1. ASSUME NEW j \in Events(qf, s) PROVE j <= l
      BY <2>1, <2>3, <2>5 DEF l
    <3> QED
      BY <3>1, <2>4 DEF Reaches
  <2>10. ASSUME Rises(q, s), \A i \in Events(q, s) : q[i].n <= m
         PROVE  Rises(qf, s)
    <3>1. SUFFICES ASSUME NEW i \in Events(qf, s), NEW j \in Events(qf, s), i < j
                   PROVE  qf[i].n < qf[j].n
      BY DEF Rises
    <3>2. i \in Events(q, s)
      BY <3>1, <2>1, <2>3, <2>5 DEF l
    <3>3. CASE j = l
      BY <3>2, <3>3, <2>3, <2>4, <2>6, <2>10
    <3>4. CASE j \in Events(q, s)
      BY <3>1, <3>2, <3>4, <2>3, <2>10 DEF Rises
    <3> QED
      BY <3>3, <3>4, <2>5
  <2> QED
    BY <2>0, <2>8, <2>9, <2>10 DEF qf
<1>DeliverCases.
  ASSUME NEW d \in Deliveries, NEW s, NEW f
  PROVE  LET e == Deliver(d, s, f)
         IN  Dropped(e, d, s) \/ Overflowed(e, d) \/ Queued(e, d, s, f)
               \/ Trailed(e, d, s, f) \/ Waited(e, d, s, f)
  <2>1. QueuedLen(d) \in Nat /\ QueueCapacity \in Nat
    BY QueuedLenIs, NativeAssumption, Zenon
  <2> QED
    BY <2>1 DEF Deliver, Dropped, Overflowed, Queued, Trailed, Waited
<1>PublishesFacts.
  ASSUME IInv, NEW s \in Sessions, NEW f, Publishes(s, f)
  PROVE  /\ \A t \in Sessions : last[t] \in Nat /\ last'[t] \in Nat /\ last[t] <= last'[t]
         /\ \A q \in Seq(Frames) : Published(q) => Published(q)'
  <2> USE <1>PublishesFacts
  <2>1. \A t \in Sessions : last[t] \in Nat /\ last'[t] \in Nat
    BY NativeAssumption DEF IInv, TypeOK, Publishes
  <2>2. \A t \in Sessions : last[t] <= last'[t]
    BY <2>1 DEF Publishes
  <2>3. ASSUME NEW q \in Seq(Frames), Published(q), NEW i \in DOMAIN q, q[i].type = "event"
        PROVE  q[i].n <= last'[q[i].session]
    <3>1. PICK t \in Sessions, n \in Nat : t = q[i].session /\ n = q[i].n
      BY <2>3, FrameFacts
    <3>2. n <= last[t]
      BY <3>1, <2>3 DEF Published
    <3> QED
      BY <3>1, <3>2, <2>1, <2>2
  <2>4. \A q \in Seq(Frames) : Published(q) => Published(q)'
    BY <2>3 DEF Published
  <2> QED
    BY <2>1, <2>2, <2>4
<1>AppendPublished.
  ASSUME NEW q \in Seq(Frames), NEW f \in Frames, NEW l,
         \A i \in DOMAIN q : q[i].type = "event" => q[i].n <= l[q[i].session],
         f.type = "event" => f.n <= l[f.session],
         NEW r, r = Append(q, f)
  PROVE  \A i \in DOMAIN r : r[i].type = "event" => r[i].n <= l[r[i].session]
  <2> USE <1>AppendPublished
  <2>1. /\ DOMAIN q = 1..Len(q) /\ DOMAIN r = 1..(Len(q) + 1) /\ Len(q) \in Nat
        /\ r[Len(q) + 1] = f /\ \A i \in 1..Len(q) : r[i] = q[i]
    OBVIOUS
  <2>2. ASSUME NEW i \in DOMAIN r, r[i].type = "event" PROVE r[i].n <= l[r[i].session]
    <3>1. CASE i = Len(q) + 1
      BY <2>1, <2>2, <3>1
    <3>2. CASE i # Len(q) + 1
      <4>1. i \in DOMAIN q /\ r[i] = q[i]
        BY <2>1, <3>2
      <4> QED
        BY <4>1, <2>2
    <3> QED
      BY <3>1, <3>2
  <2> QED
    BY <2>2
\* A queue that grows by a published frame.
<1>PublishedGrows.
  ASSUME IInv, NEW s \in Sessions, NEW f, Publishes(s, f), NEW q \in Seq(Frames), Published(q)
  PROVE  Published(Append(q, f))'
  <2> USE <1>PublishedGrows
  <2>1. PICK l : l = last'
    OBVIOUS
  <2>2. f \in Frames /\ f.session = s
    BY DEF Publishes
  <2>3. f.type = "event" => f.n <= l[f.session]
    BY <2>1, <2>2, <1>PublishesFacts DEF Publishes
  <2>4. \A i \in DOMAIN q : q[i].type = "event" => q[i].n <= l[q[i].session]
    BY <2>1, <1>PublishesFacts DEF Published
  <2>5. PICK r : r = Append(q, f)
    BY Zenon
  <2>6. \A i \in DOMAIN r : r[i].type = "event" => r[i].n <= l[r[i].session]
    BY <2>2, <2>3, <2>4, <2>5, <1>AppendPublished
  <2> QED
    BY <2>1, <2>5, <2>6 DEF Published
\* The streams only grow, so what was published stays so; the DeliveryState may change in
\* its queue, its pending subscription and its abort flag.
<1>KnownGrows.
  ASSUME IInv, NEW s \in Sessions, NEW f, Publishes(s, f), delivery'.cursors = delivery.cursors,
         Published(delivery.outgoing)',
         \A k \in DOMAIN delivery'.pending :
           /\ Published(delivery.pending[k].frames)' /\ Only(delivery'.pending[k].frames, job.session)
           /\ Published(delivery.pending[k].trailing)'
           /\ Only(delivery'.pending[k].trailing, job.session)
  PROVE  KnownInv'
  <2> USE <1>KnownGrows
  <2>0. UNCHANGED <<pc, job, remote>>
    BY DEF Publishes
  <2>1. \A i, j, k \in Nat : i <= j /\ j <= k => i <= k
    OBVIOUS
  <2>2. 0..MaxEvents \subseteq Nat
    BY NativeAssumption
  <2>3. \A t \in Sessions : remote.cursor[t] <= last'[t] /\ delivery.cursors[t] <= last'[t]
    <3>1. TAKE t \in Sessions
    <3>2. remote.cursor[t] \in Nat /\ delivery.cursors[t] \in Nat
      BY <2>2 DEF IInv, TypeOK, Remotes, Deliveries
    <3>3. remote.cursor[t] <= last[t] /\ delivery.cursors[t] <= last[t]
      BY DEF IInv, KnownInv
    <3> QED
      BY <2>1, <3>2, <3>3, <1>PublishesFacts
  <2>4. pc = "finish" => job.through <= last'[job.session]
    <3>1. ASSUME pc = "finish" PROVE job.through \in Nat /\ job.session \in Sessions
                                   /\ job.through <= last[job.session]
      BY <3>1, <2>2, PendingFacts, Zenon DEF Jobs, IInv, KnownInv
    <3> QED
      BY <2>1, <3>1, <1>PublishesFacts
  <2> QED
    BY <2>0, <2>3, <2>4 DEF KnownInv
<1>QueueStaysPublished.
  ASSUME IInv, NEW s \in Sessions, NEW f, Publishes(s, f),
         delivery'.outgoing = delivery.outgoing
  PROVE  Published(delivery.outgoing)'
  <2> USE <1>QueueStaysPublished
  <2>1. PICK q \in Seq(Frames) : q = delivery.outgoing
    BY DEF IInv, TypeOK, Deliveries
  <2>2. Published(q)'
    BY <2>1, <1>PublishesFacts DEF IInv, KnownInv
  <2> QED
    BY <2>1, <2>2 DEF Published
<1>PendingStaysPublished.
  ASSUME IInv, NEW s \in Sessions, NEW f, Publishes(s, f), delivery'.pending = delivery.pending
  PROVE  \A k \in DOMAIN delivery'.pending :
           /\ Published(delivery.pending[k].frames)' /\ Only(delivery'.pending[k].frames, job.session)
           /\ Published(delivery.pending[k].trailing)'
           /\ Only(delivery'.pending[k].trailing, job.session)
  <2> USE <1>PendingStaysPublished
  <2>1. SUFFICES ASSUME NEW k \in DOMAIN delivery.pending
                 PROVE  /\ Published(delivery.pending[k].frames)'
                        /\ Published(delivery.pending[k].trailing)'
    BY DEF IInv, KnownInv
  <2>2. PICK g \in Seq(Frames), h \in Seq(Frames) :
          g = delivery.pending[k].frames /\ h = delivery.pending[k].trailing
    <3>1. delivery.pending \in Seq(Pendings)
      BY DEF IInv, TypeOK, Deliveries
    <3>2. delivery.pending[k] \in Pendings
      BY <2>1, <3>1
    <3> QED
      BY <3>2 DEF Pendings
  <2>3. Published(g)' /\ Published(h)'
    BY <2>1, <2>2, <1>PublishesFacts DEF IInv, KnownInv
  <2> QED
    BY <2>2, <2>3 DEF Published
\* The Channel does not follow the session: nothing is delivered.
<1>UnfollowedIInv.
  ASSUME IInv, NEW s \in Sessions, NEW f, Publishes(s, f), delivery' = delivery,
         \/ s \notin subscribed \/ ~delivery.client
         \/ ~IsPending(delivery, s) /\ s \notin delivery.subscriptions
  PROVE  IInv'
  <2> USE <1>UnfollowedIInv
  <2>1. UNCHANGED <<subscribed, host, link, pc, job, remote>>
    BY DEF Publishes
  <2>2. TypeOK'
    BY <2>1 DEF IInv, TypeOK, Publishes
  <2>3. ConnectionInv'
    BY <2>1 DEF IInv, ConnectionInv
  <2>4. KnownInv'
    BY <1>QueueStaysPublished, <1>PendingStaysPublished, <1>KnownGrows
  <2>5. WaitingInv'
    BY <2>1 DEF IInv, WaitingInv, Publishes
  <2>6. DrainedInv'
    BY <2>1 DEF IInv, DrainedInv
  <2>7. StreamInv'
    <3>1. SUFFICES ASSUME Intact, NEW t \in Sessions \ remote.attached
                   PROVE  Carries(delivery, delivery.outgoing, t)'
      BY <2>1 DEF StreamInv, Intact
    <3>2. Carries(delivery, delivery.outgoing, t)
      BY <3>1 DEF IInv, StreamInv
    <3>3. t \in delivery.subscriptions \cap subscribed => last'[t] = last[t]
      <4>1. CASE t # s
        BY <4>1 DEF Publishes
      <4>2. CASE t = s
        BY <3>1, <4>2 DEF Intact
      <4> QED
        BY <4>1, <4>2
    <3> QED
      BY <3>2, <3>3, <2>1 DEF Carries
  <2>8. BatchInv'
    <3>1. SUFFICES ASSUME Intact, pc = "finish", job.session \notin remote.attached
                   PROVE  job.session \in subscribed => last'[job.session] = last[job.session]
      BY <2>1 DEF IInv, BatchInv, Intact
    <3>2. CASE job.session # s
      BY <3>1, <3>2, PendingFacts DEF Publishes
    <3>3. CASE job.session = s
      BY <3>1, <3>3, PendingFacts DEF Intact, IsPending
    <3> QED
      BY <3>2, <3>3
  <2>9. HoleMeansAbort'
    BY <2>1, Zenon DEF IInv, HoleMeansAbort, QueuedLen
  <2> QED
    BY <2>2, <2>3, <2>4, <2>5, <2>6, <2>7, <2>8, <2>9 DEF IInv
\* The queue is full: the connection is given up.
<1>OverflowIInv.
  ASSUME IInv, NEW s \in Sessions, NEW f, Publishes(s, f), Overflowed(delivery', delivery)
  PROVE  IInv'
  <2> USE <1>OverflowIInv
  <2>1. UNCHANGED <<subscribed, host, link, pc, job, remote>>
    BY DEF Publishes
  <2>2. PICK d \in Deliveries : d = delivery /\ d.client = TRUE
    BY DEF IInv, TypeOK, Overflowed, Deliveries
  <2>3. PICK e : e = [d EXCEPT !.abort = TRUE]
    BY Zenon
  <2>4. delivery' = e
    BY <2>2, <2>3 DEF Overflowed
  <2>5. /\ e \in Deliveries /\ e.client = d.client /\ e.abort = TRUE /\ e.outgoing = d.outgoing
        /\ e.pending = d.pending /\ e.subscriptions = d.subscriptions /\ e.cursors = d.cursors
    BY <2>3, Zenon DEF Deliveries
  <2>6. TypeOK'
    BY <2>1, <2>2, <2>4, <2>5 DEF IInv, TypeOK, Publishes
  <2>7. ConnectionInv'
    BY <2>1, <2>2, <2>4, <2>5, NoClientType DEF IInv, ConnectionInv
  <2>8. KnownInv'
    BY <2>2, <2>4, <2>5, <1>QueueStaysPublished, <1>PendingStaysPublished, <1>KnownGrows
  <2>9. WaitingInv'
    BY <2>1, <2>2, <2>4, <2>5 DEF IInv, WaitingInv, Publishes
  <2>10. DrainedInv'
    BY <2>1, <2>2, <2>4, <2>5 DEF IInv, DrainedInv
  <2>11. StreamInv' /\ BatchInv'
    BY <2>4, <2>5 DEF StreamInv, BatchInv, Intact
  <2>12. HoleMeansAbort'
    <3>1. QueuedLen(e) = QueuedLen(d)
      BY <2>5 DEF QueuedLen
    <3> QED
      BY <3>1, <2>1, <2>2, <2>4, <2>5 DEF IInv, HoleMeansAbort
  <2> QED
    BY <2>6, <2>7, <2>8, <2>9, <2>10, <2>11, <2>12 DEF IInv
\* A queue that carries a session up to the end of its stream still does when the frame
\* that is published is appended to it.
<1>AppendCarries.
  ASSUME IInv, NEW s \in Sessions, NEW f, Publishes(s, f),
         NEW t \in Sessions, NEW q \in Seq(Frames), NEW c \in Nat, NEW m \in Nat,
         Continues(q, t, c), Published(q), t = s => Reaches(q, t, c, last[t])
  PROVE  /\ Continues(q \o <<f>>, t, c)
         /\ Holds(q, t, c, m) => Holds(q \o <<f>>, t, c, m)
         /\ Reaches(q, t, c, last[t]) => Reaches(q \o <<f>>, t, c, last'[t])
         /\ Rises(q, t) => Rises(q \o <<f>>, t)
  <2> USE <1>AppendCarries
  <2>1. f \in Frames /\ f.session = s
    BY DEF Publishes
  <2>2. PICK l \in Nat : l = last[t]
    BY <1>PublishesFacts
  <2>3. CASE f.type = "event" /\ t = s
    <3>1. f.n = l + 1 /\ last'[t] = l + 1
      BY <2>2, <2>3 DEF Publishes
    <3>2. Reaches(q, t, c, l)
      BY <2>2, <2>3
    <3>3. \A i \in Events(q, t) : q[i].n <= l
      BY <2>2 DEF Events, Published
    <3>4. /\ Continues(q \o <<f>>, t, c)
          /\ Reaches(q \o <<f>>, t, c, l + 1)
          /\ Rises(q, t) => Rises(q \o <<f>>, t)
      BY <3>1, <3>2, <3>3, <2>1, <2>3, <1>JoinNext
    <3>5. Holds(q, t, c, m) => Holds(q \o <<f>>, t, c, m)
      <4>1. <<f>> \in Seq(Frames)
        BY <2>1
      <4>2. PICK r : r = q \o <<f>>
        BY Zenon
      <4>3. Joined(r, q, <<f>>, t)
        BY <4>1, <4>2, JoinEvents, Zenon
      <4> QED
        BY <4>2, <4>3, Zenon DEF Holds, Joined
    <3> QED
      BY <3>1, <3>4, <3>5
  <2>4. CASE ~(f.type = "event" /\ t = s)
    <3>1. last'[t] = l
      BY <2>2, <2>4 DEF Publishes
    <3>2. PICK b \in Seq(Frames) : b = <<f>> /\ Events(b, t) = {}
      BY <2>1, <2>4, <1>OneEvent, Zenon
    <3>3. /\ Continues(q, t, c) => Continues(q \o b, t, c)
          /\ Holds(q, t, c, m) => Holds(q \o b, t, c, m)
          /\ Reaches(q, t, c, l) => Reaches(q \o b, t, c, l)
          /\ Rises(q, t) => Rises(q \o b, t)
      <4>1. Continues(q, t, c) => Continues(q \o b, t, c)
        BY <3>2, JoinQuiet, Zenon
      <4>2. Holds(q, t, c, m) => Holds(q \o b, t, c, m)
        BY <3>2, JoinQuiet, Zenon
      <4>3. Reaches(q, t, c, l) => Reaches(q \o b, t, c, l)
        BY <3>2, JoinQuiet, Zenon
      <4>4. Rises(q, t) => Rises(q \o b, t)
        BY <3>2, JoinQuiet, Zenon
      <4> QED
        BY <4>1, <4>2, <4>3, <4>4
    <3> QED
      BY <3>1, <3>2, <3>3, <2>2
  <2> QED
    BY <2>3, <2>4
\* The cursors and the position of a session are numbers.
<1>PublishNumbers.
  ASSUME IInv, NEW t \in Sessions
  PROVE  remote.cursor[t] \in Nat /\ delivery.cursors[t] \in Nat /\ last[t] \in Nat
  <2> USE <1>PublishNumbers
  <2>1. 0..MaxEvents \subseteq Nat
    BY NativeAssumption
  <2>2. remote.cursor[t] \in 0..MaxEvents
    BY DEF IInv, TypeOK, Remotes
  <2>3. delivery.cursors[t] \in 0..MaxEvents
    BY DEF IInv, TypeOK, Deliveries
  <2>4. last[t] \in 0..MaxEvents
    BY DEF IInv, TypeOK
  <2> QED
    BY <2>1, <2>2, <2>3, <2>4
\* A frame of a live session is queued.
<1>QueuedIInv.
  ASSUME IInv, NEW s \in subscribed, NEW f, Publishes(s, f), Queued(delivery', delivery, s, f)
  PROVE  IInv'
  <2> USE <1>QueuedIInv
  <2>1. UNCHANGED <<subscribed, host, link, pc, job, remote>> /\ s \in Sessions /\ f \in Frames
          /\ f.session = s
    BY DEF Publishes, IInv, TypeOK
  <2>2. PICK d \in Deliveries : d = delivery /\ d.client = TRUE
    BY DEF IInv, TypeOK, Queued, Deliveries
  <2>3. PICK q \in Seq(Frames) : q = d.outgoing /\ Published(q)
    BY <2>2 DEF Deliveries, IInv, KnownInv
  <2>4. PICK r : r = q \o <<f>>
    BY Zenon
  <2>5. r \in Seq(Frames) /\ Len(r) = Len(q) + 1 /\ Len(q) \in Nat /\ r = Append(q, f)
    BY <2>1, <2>4
  <2>6. PICK e : e = [d EXCEPT !.outgoing = r]
    BY Zenon
  <2>7. delivery' = e
    BY <2>2, <2>3, <2>5, <2>6 DEF Queued
  <2>8. /\ e \in Deliveries /\ e.client = TRUE /\ e.abort = d.abort /\ e.outgoing = r
        /\ e.pending = d.pending /\ e.subscriptions = d.subscriptions /\ e.cursors = d.cursors
    <3>1. e \in Deliveries
      BY <2>5, <2>6, Zenon DEF Deliveries
    <3> QED
      BY <3>1, <2>2, <2>6, Zenon DEF Deliveries
  <2>9. s \in d.subscriptions
    BY <2>2 DEF Queued
  <2>10. TypeOK'
    BY <2>1, <2>2, <2>7, <2>8 DEF IInv, TypeOK, Publishes
  <2>11. ConnectionInv'
    BY <2>1, <2>2, <2>7, <2>8, NoClientType DEF IInv, ConnectionInv
  <2>12. KnownInv'
    <3>1. Published(Append(q, f))'
      BY <2>1, <2>3, <1>PublishedGrows
    <3>2. Published(delivery.outgoing)'
      BY <3>1, <2>5, <2>7, <2>8 DEF Published
    <3> QED
      BY <3>2, <2>1, <2>2, <2>7, <2>8, <1>PendingStaysPublished, <1>KnownGrows, Zenon
  <2>13. WaitingInv'
    BY <2>1, <2>2, <2>7, <2>8 DEF IInv, WaitingInv, Publishes
  <2>14. DrainedInv'
    <3>1. SUFFICES ASSUME pc \in {"read", "discover", "sync", "finish", "unsubscribe"},
                          NEW t \in Sessions \ d.subscriptions
                   PROVE  Events(r, t) = {}
      BY <2>1, <2>7, <2>8 DEF DrainedInv
    <3>2. Events(q, t) = {}
      BY <3>1, <2>2, <2>3 DEF IInv, DrainedInv
    <3>3. PICK b \in Seq(Frames) : b = <<f>> /\ Events(b, t) = {}
      BY <3>1, <2>1, <2>9, <1>OneEvent, Zenon
    <3>4. Events(q \o b, t) = Events(q, t)
      <4>1. 0 \in Nat
        OBVIOUS
      <4> QED
        BY <3>3, <4>1, JoinQuiet, Zenon
    <3> QED
      BY <3>2, <3>3, <3>4, <2>4
  <2>15. StreamInv'
    <3>1. SUFFICES ASSUME Intact, NEW t \in Sessions \ remote.attached
                   PROVE  Carries(delivery, delivery.outgoing, t)'
      BY <2>1, <2>2, <2>7, <2>8 DEF StreamInv, Intact
    <3>2. Carries(d, q, t)
      BY <3>1, <2>2, <2>3 DEF IInv, StreamInv
    <3>3. PICK c \in Nat, m \in Nat : c = remote.cursor[t] /\ m = d.cursors[t]
      BY <2>2, <1>PublishNumbers
    <3>4. t = s => Reaches(q, t, c, last[t])
      BY <3>2, <3>3, <2>9 DEF Carries
    <3>5. Continues(q, t, c)
      BY <3>2, <3>3 DEF Carries
    <3>6. /\ Continues(r, t, c)
          /\ Holds(q, t, c, m) => Holds(r, t, c, m)
          /\ Reaches(q, t, c, last[t]) => Reaches(r, t, c, last'[t])
          /\ Rises(q, t) => Rises(r, t)
      BY <3>4, <3>5, <2>1, <2>3, <2>4, <1>AppendCarries, Zenon
    <3>7. /\ Continues(r, t, remote.cursor[t])
          /\ Holds(r, t, remote.cursor[t], e.cursors[t])
          /\ t \in e.subscriptions \cap subscribed =>
               Reaches(r, t, remote.cursor[t], last'[t]) /\ Rises(r, t)
      BY <3>2, <3>3, <3>6, <2>8 DEF Carries
    <3> QED
      BY <3>7, <2>1, <2>7, <2>8 DEF Carries
  <2>16. BatchInv'
    <3>1. SUFFICES ASSUME Intact, pc = "finish", job.session \notin remote.attached
                   PROVE  last'[job.session] = last[job.session]
      BY <2>1, <2>2, <2>7, <2>8, Zenon DEF IInv, BatchInv, Intact
    <3>2. job.session # s
      BY <3>1, PendingFacts DEF Queued, IsPending
    <3> QED
      BY <3>1, <3>2, PendingFacts DEF Publishes
  <2>17. HoleMeansAbort'
    <3>1. QueuedLen(d) < QueueCapacity /\ QueuedLen(d) \in Nat /\ QueueCapacity \in Nat
      BY <2>2, QueuedLenIs, NativeAssumption, Zenon DEF Queued
    <3>2. PICK w : w = IF d.pending = <<>> THEN 0
                       ELSE Len(d.pending[1].frames) + Len(d.pending[1].trailing)
      BY Zenon
    <3>3. w \in Nat
      <4>1. CASE d.pending = <<>>
        BY <4>1, <3>2
      <4>2. CASE d.pending # <<>>
        <5>1. d.pending[1] \in Pendings
          BY <4>2 DEF Deliveries
        <5>2. Len(d.pending[1].frames) \in Nat /\ Len(d.pending[1].trailing) \in Nat
          BY <5>1 DEF Pendings
        <5>3. w = Len(d.pending[1].frames) + Len(d.pending[1].trailing)
          BY <4>2, <3>2
        <5>4. \A i, j \in Nat : i + j \in Nat
          OBVIOUS
        <5> QED
          BY <5>2, <5>3, <5>4, Zenon
      <4> QED
        BY <4>1, <4>2
    <3>4. QueuedLen(d) = Len(q) + w /\ QueuedLen(e) = Len(r) + w
      BY <3>2, <2>3, <2>8 DEF QueuedLen
    <3>5. QueuedLen(e) <= QueueCapacity
      BY <3>1, <3>3, <3>4, <2>5
    <3> QED
      BY <3>5, <2>1, <2>2, <2>7, <2>8 DEF IInv, HoleMeansAbort
  <2> QED
    BY <2>10, <2>11, <2>12, <2>13, <2>14, <2>15, <2>16, <2>17 DEF IInv
<1>OneMoreFits.
  ASSUME NEW i \in Nat, NEW j \in Nat, NEW k \in Nat, NEW c \in Nat, NEW n,
         i + (j + k) < c, n = (j + k) + 1
  PROVE  i + n <= c
  BY <1>OneMoreFits
\* A frame of the session being synchronized waits in its pending subscription.
<1>PendingGrowsIInv.
  ASSUME IInv, NEW s \in subscribed, NEW f, Publishes(s, f),
         delivery.client, IsPending(delivery, s), QueuedLen(delivery) < QueueCapacity,
         NEW o \in Pendings, o = delivery.pending[1],
         NEW p \in Pendings, p.session = s, p.synced = o.synced,
         delivery' = [delivery EXCEPT !.pending = [delivery.pending EXCEPT ![1] = p]],
         Len(p.frames) + Len(p.trailing) = (Len(o.frames) + Len(o.trailing)) + 1,
         Published(p.frames)', Published(p.trailing)', Only(p.frames, s), Only(p.trailing, s),
         pc = "sync" => p.trailing = <<>>,
         Intact /\ pc = "finish" /\ s \notin remote.attached =>
           LET b == Batch(job, p)
               c == remote.cursor[s]
           IN  /\ Continues(b, s, c) /\ Rises(b, s) /\ Holds(b, s, c, job.through)
               /\ job.subscribed /\ Reaches(b, s, c, last'[s])
  PROVE  IInv'
  <2> USE <1>PendingGrowsIInv
  <2>1. UNCHANGED <<subscribed, host, link, pc, job, remote>> /\ s \in Sessions
    BY DEF Publishes, IInv, TypeOK
  <2>2. pc \in {"sync", "finish"}
    <3>1. delivery.pending # <<>> /\ delivery.pending \in Seq(Pendings)
      BY DEF IsPending, IInv, TypeOK, Deliveries
    <3>2. Len(delivery.pending) # 0
      BY <3>1
    <3> QED
      BY <3>2 DEF IInv, TypeOK
  <2>3. PICK d \in Deliveries : d = delivery /\ d.client = TRUE /\ Len(d.pending) = 1
                                /\ DOMAIN d.pending = {1}
    BY <2>2, PendingFacts
  <2>4. job.session = s /\ s \notin d.subscriptions
    <3>1. job.session = s
      BY <2>2, PendingFacts DEF IsPending
    <3> QED
      BY <3>1, <2>3 DEF IInv, WaitingInv
  <2>5. PICK e : e = [d EXCEPT !.pending = [d.pending EXCEPT ![1] = p]]
    BY Zenon
  <2>6. Replaced(e, d, p)
    BY <2>3, <2>5, PendingUpdate
  <2>7. delivery' = e
    BY <2>3, <2>5
  <2>8. /\ e \in Deliveries /\ Len(e.pending) = 1 /\ DOMAIN e.pending = {1} /\ e.pending[1] = p
        /\ e.client = TRUE /\ e.abort = d.abort /\ e.outgoing = d.outgoing
        /\ e.subscriptions = d.subscriptions /\ e.cursors = d.cursors
    BY <2>3, <2>6 DEF Replaced
  <2>9. QueuedLen(e) = Len(d.outgoing) + (Len(p.frames) + Len(p.trailing))
    BY <2>6 DEF Replaced
  <2>10. TypeOK'
    <3>1. Len(delivery'.pending) = 1 /\ \A i \in DOMAIN delivery'.pending :
                                         delivery'.pending[i].session = job'.session
      BY <2>1, <2>4, <2>7, <2>8, Zenon
    <3> QED
      BY <3>1, <2>1, <2>2, <2>7, <2>8 DEF IInv, TypeOK, Publishes
  <2>11. ConnectionInv'
    BY <2>1, <2>2, <2>3, <2>7, <2>8, PendingFacts DEF IInv, ConnectionInv
  <2>12. KnownInv'
    <3>1. Published(delivery.outgoing)'
      BY <2>1, <2>3, <2>7, <2>8, <1>QueueStaysPublished
    <3>2. \A k \in DOMAIN delivery'.pending :
            /\ Published(delivery.pending[k].frames)' /\ Only(delivery'.pending[k].frames, job.session)
            /\ Published(delivery.pending[k].trailing)'
            /\ Only(delivery'.pending[k].trailing, job.session)
      <4>1. TAKE k \in DOMAIN delivery'.pending
      <4>2. delivery'.pending[k] = p
        BY <2>7, <2>8, Zenon
      <4> QED
        BY <4>2, <2>4 DEF Published
    <3> QED
      BY <3>1, <3>2, <2>1, <2>3, <2>7, <2>8, <1>KnownGrows
  <2>13. WaitingInv'
    <3>1. owed' \subseteq subscribed'
      BY <2>1 DEF Publishes
    <3>2. pc = "sync" => ~p.synced
      BY <2>3 DEF IInv, WaitingInv
    <3>3. pc = "finish" /\ s \notin remote.attached => p.synced
      BY <2>3, <2>4 DEF IInv, WaitingInv
    <3>4. ASSUME NEW k \in DOMAIN delivery'.pending
          PROVE  /\ job'.session \notin delivery'.subscriptions
                 /\ pc' = "sync" =>
                      /\ delivery'.pending[k].trailing = <<>>
                      /\ ~delivery'.pending[k].synced
                      /\ job'.session \notin subscribed' /\ host' = "running" =>
                           delivery'.pending[k].frames = <<>>
                 /\ pc' = "finish" /\ job'.session \notin remote'.attached =>
                      delivery'.pending[k].synced
      <4>1. delivery'.pending[k] = p /\ delivery'.subscriptions = d.subscriptions
        BY <2>7, <2>8, Zenon
      <4> QED
        BY <4>1, <3>2, <3>3, <2>1, <2>4
    <3> QED
      BY <3>1, <3>4 DEF WaitingInv
  <2>14. DrainedInv'
    BY <2>1, <2>3, <2>7, <2>8 DEF IInv, DrainedInv
  <2>15. StreamInv'
    <3>1. SUFFICES ASSUME Intact, NEW t \in Sessions \ remote.attached
                   PROVE  Carries(delivery, delivery.outgoing, t)'
      BY <2>1, <2>3, <2>7, <2>8 DEF StreamInv, Intact
    <3>2. Carries(d, d.outgoing, t)
      BY <3>1, <2>3 DEF IInv, StreamInv
    <3>3. t \in d.subscriptions => last'[t] = last[t]
      BY <2>4 DEF Publishes
    <3> QED
      BY <3>2, <3>3, <2>1, <2>7, <2>8, Zenon DEF Carries
  <2>16. BatchInv'
    <3>1. SUFFICES ASSUME Intact, pc = "finish", s \notin remote.attached
                   PROVE  LET b == Batch(job, p)
                              c == remote.cursor[s]
                          IN  /\ Continues(b, s, c) /\ Rises(b, s) /\ Holds(b, s, c, job.through)
                              /\ job.subscribed /\ Reaches(b, s, c, last'[s])
      <4>1. delivery'.pending[1] = p /\ delivery'.abort = delivery.abort
        BY <2>3, <2>7, <2>8
      <4> QED
        BY <4>1, <2>1, <2>3, <2>4 DEF BatchInv, Intact
    <3> QED
      BY <3>1
  <2>17. HoleMeansAbort'
    <3>1. QueuedLen(d) = Len(d.outgoing) + (Len(o.frames) + Len(o.trailing))
      BY <2>3, QueuedLenIs, Zenon
    <3>2. Len(d.outgoing) \in Nat
      BY DEF Deliveries
    <3>3. Len(o.frames) \in Nat /\ Len(o.trailing) \in Nat
      BY DEF Pendings
    <3>6. Len(d.outgoing) + (Len(o.frames) + Len(o.trailing)) < QueueCapacity
            /\ QueueCapacity \in Nat
      BY <3>1, <2>3, NativeAssumption, Zenon
    <3>7. QueuedLen(e) <= QueueCapacity
      <4>1. Len(d.outgoing) + (Len(p.frames) + Len(p.trailing)) <= QueueCapacity
        BY <3>2, <3>3, <3>6, <1>OneMoreFits, Zenon
      <4> QED
        BY <4>1, <2>9, Zenon
    <3> QED
      BY <3>7, <2>1, <2>3, <2>7, <2>8 DEF IInv, HoleMeansAbort
  <2> QED
    BY <2>10, <2>11, <2>12, <2>13, <2>14, <2>15, <2>16, <2>17 DEF IInv
\* Behind the page, a frame ends the batch.
<1>BatchGrows.
  ASSUME NEW j, NEW p \in Pendings, NEW g \in Pendings, NEW f \in Frames,
         g.frames = p.frames, g.trailing = Append(p.trailing, f),
         <<Frame(IF j.subscribed THEN "result" ELSE "catching", j.session, j.through)>>
           \in Seq(Frames),
         <<Frame(IF j.subscribed THEN "completed" ELSE "more", j.session, j.through)>>
           \in Seq(Frames)
  PROVE  Batch(j, g) = Batch(j, p) \o <<f>>
  <2> USE <1>BatchGrows
  <2>1. PICK a \in Seq(Frames), k \in Seq(Frames) :
          /\ a = <<Frame(IF j.subscribed THEN "result" ELSE "catching", j.session, j.through)>>
          /\ k = <<Frame(IF j.subscribed THEN "completed" ELSE "more", j.session, j.through)>>
    BY Zenon
  <2>2. PICK h \in Seq(Frames), w \in Seq(Frames) : h = p.frames /\ w = p.trailing
    BY DEF Pendings
  <2>3. Append(w, f) = w \o <<f>> /\ <<f>> \in Seq(Frames)
    BY <1>AppendJoins
  <2>4. PICK v \in Seq(Frames) : v = <<f>>
    BY <2>3, Zenon
  <2>5. PICK b \in Seq(Frames) : b = a \o h \o k
    BY JoinFrames, Zenon
  <2>6. b \o (w \o v) = (b \o w) \o v
    <3> HIDE <1>BatchGrows
    <3> QED
      BY <1>JoinJoins, ZenonT(40)
  <2>7. Batch(j, g) = b \o (w \o v)
    BY <2>1, <2>2, <2>3, <2>4, <2>5 DEF Batch
  <2>8. Batch(j, p) = b \o w
    BY <2>1, <2>2, <2>5 DEF Batch
  <2>9. Batch(j, g) = Batch(j, p) \o v
    BY <2>6, <2>7, <2>8, Zenon
  <2> QED
    BY <2>4, <2>9
<1>TrailedIInv.
  ASSUME IInv, NEW s \in subscribed, NEW f, Publishes(s, f), Trailed(delivery', delivery, s, f)
  PROVE  IInv'
  <2> USE <1>TrailedIInv
  <2>1. s \in Sessions /\ f \in Frames /\ f.session = s
    BY DEF Publishes, IInv, TypeOK
  <2>2. pc \in {"sync", "finish"}
    <3>1. delivery.pending # <<>> /\ delivery.pending \in Seq(Pendings)
      BY DEF IsPending, IInv, TypeOK, Deliveries, Trailed
    <3>2. Len(delivery.pending) # 0
      BY <3>1
    <3> QED
      BY <3>2 DEF IInv, TypeOK
  <2>3. PICK o \in Pendings : o = delivery.pending[1] /\ o.session = job.session
    BY <2>2, PendingFacts, Zenon
  <2>4. pc = "finish" /\ job.session = s
    <3>1. o.synced /\ o.session = s
      BY <2>3 DEF Trailed, IsPending
    <3>2. pc = "sync" => ~o.synced
      BY <2>2, <2>3, PendingFacts, Zenon DEF IInv, WaitingInv
    <3> QED
      BY <3>1, <3>2, <2>2, <2>3
  <2>5. PICK h \in Seq(Frames), w \in Seq(Frames) : h = o.frames /\ w = o.trailing
    BY DEF Pendings
  <2>6. Append(w, f) \in Seq(Frames) /\ Len(Append(w, f)) = Len(w) + 1 /\ Len(w) \in Nat
          /\ Len(h) \in Nat
    BY <2>1
  <2>7. PICK p : p = [o EXCEPT !.trailing = Append(w, f)]
    BY Zenon
  <2>8. p \in Pendings /\ p.frames = h /\ p.trailing = Append(w, f) /\ p.session = s
          /\ p.synced = o.synced
    BY <2>3, <2>4, <2>5, <2>6, <2>7, Zenon DEF Pendings
  <2>9. delivery' = [delivery EXCEPT !.pending = [delivery.pending EXCEPT ![1] = p]]
    BY <2>3, <2>5, <2>7 DEF Trailed
  <2>10. Len(p.frames) + Len(p.trailing) = (Len(o.frames) + Len(o.trailing)) + 1
    <3>1. \A i, j \in Nat : i + (j + 1) = (i + j) + 1
      OBVIOUS
    <3>2. Len(p.frames) + Len(p.trailing) = Len(h) + (Len(w) + 1)
      BY <2>6, <2>8, Zenon
    <3>3. Len(h) + (Len(w) + 1) = (Len(h) + Len(w)) + 1
      BY <3>1, <2>6, Zenon
    <3> QED
      BY <3>2, <3>3, <2>5, Zenon
  <2>11. Published(h) /\ Published(w) /\ Only(h, s) /\ Only(w, s)
    BY <2>2, <2>3, <2>4, <2>5, PendingFacts, Zenon DEF IInv, KnownInv
  <2>12. Published(p.frames)' /\ Published(p.trailing)' /\ Only(p.frames, s) /\ Only(p.trailing, s)
    <3>1. Published(h)'
      BY <2>1, <2>11, <1>PublishesFacts
    <3>2. Published(Append(w, f))'
      BY <2>1, <2>11, <1>PublishedGrows
    <3>3. Only(<<f>>, s) /\ <<f>> \in Seq(Frames)
      BY <2>1 DEF Only
    <3>4. Only(w \o <<f>>, s) /\ Append(w, f) = w \o <<f>>
      BY <3>3, <2>1, <2>11, OnlyJoin, <1>AppendJoins, Zenon
    <3>5. Published(p.frames)'
      BY <3>1, <2>8 DEF Published
    <3>6. Published(p.trailing)'
      BY <3>2, <2>8 DEF Published
    <3> QED
      BY <3>4, <3>5, <3>6, <2>8, <2>11
  <2>13. ASSUME Intact, s \notin remote.attached
         PROVE  LET b == Batch(job, p)
                    c == remote.cursor[s]
                IN  /\ Continues(b, s, c) /\ Rises(b, s) /\ Holds(b, s, c, job.through)
                    /\ job.subscribed /\ Reaches(b, s, c, last'[s])
    <3>1. PICK c \in Nat : c = remote.cursor[s]
      BY <2>1, <1>PublishNumbers
    <3>2. PICK b : b = Batch(job, o)
      OBVIOUS
    <3>3. b \in Seq(Frames) /\ Published(b)
      BY <3>2, <2>3, <2>4, BatchFrames
    <3>4. /\ Continues(b, s, c) /\ Rises(b, s) /\ Holds(b, s, c, job.through)
          /\ job.subscribed /\ Reaches(b, s, c, last[s])
      BY <3>1, <3>2, <2>3, <2>4, <2>13, Zenon DEF IInv, BatchInv
    <3>5. Batch(job, p) = b \o <<f>>
      <4>1. PICK n \in 0..MaxEvents, final \in BOOLEAN : n = job.through /\ final = job.subscribed
        BY <2>2, PendingFacts, Zenon DEF Jobs
      <4>2. /\ <<Frame(IF final THEN "result" ELSE "catching", s, n)>> \in Seq(Frames)
            /\ <<Frame(IF final THEN "completed" ELSE "more", s, n)>> \in Seq(Frames)
        BY <2>1, BatchEnds, Zenon
      <4>3. /\ <<Frame(IF job.subscribed THEN "result" ELSE "catching", job.session, job.through)>>
                 \in Seq(Frames)
            /\ <<Frame(IF job.subscribed THEN "completed" ELSE "more", job.session, job.through)>>
                 \in Seq(Frames)
        BY <4>1, <4>2, <2>4, Zenon
      <4> QED
        BY <4>3, <3>2, <2>1, <2>5, <2>8, <1>BatchGrows, Zenon
    <3>6. PICK n \in Nat : n = job.through
      <4>1. 0..MaxEvents \subseteq Nat
        BY NativeAssumption
      <4>2. job.through \in 0..MaxEvents
        BY <2>2, PendingFacts, Zenon DEF Jobs
      <4> QED
        BY <4>1, <4>2, Zenon
    <3>7. /\ Continues(b \o <<f>>, s, c)
          /\ Holds(b, s, c, n) => Holds(b \o <<f>>, s, c, n)
          /\ Reaches(b, s, c, last[s]) => Reaches(b \o <<f>>, s, c, last'[s])
          /\ Rises(b, s) => Rises(b \o <<f>>, s)
      BY <3>3, <3>4, <2>1, <1>AppendCarries, Zenon
    <3> QED
      BY <3>1, <3>4, <3>5, <3>6, <3>7, Zenon
  <2>14. delivery.client /\ IsPending(delivery, s) /\ QueuedLen(delivery) < QueueCapacity
    BY DEF Trailed
  <2> QED
    BY <2>3, <2>4, <2>8, <2>9, <2>10, <2>12, <2>13, <2>14, <1>PendingGrowsIInv, Zenon
<1>WaitedIInv.
  ASSUME IInv, NEW s \in subscribed, NEW f, Publishes(s, f), Waited(delivery', delivery, s, f)
  PROVE  IInv'
  <2> USE <1>WaitedIInv
  <2>1. s \in Sessions /\ f \in Frames /\ f.session = s
    BY DEF Publishes, IInv, TypeOK
  <2>2. pc \in {"sync", "finish"}
    <3>1. delivery.pending # <<>> /\ delivery.pending \in Seq(Pendings)
      BY DEF IsPending, IInv, TypeOK, Deliveries, Waited
    <3>2. Len(delivery.pending) # 0
      BY <3>1
    <3> QED
      BY <3>2 DEF IInv, TypeOK
  <2>3. PICK o \in Pendings : o = delivery.pending[1] /\ o.session = job.session
    BY <2>2, PendingFacts, Zenon
  <2>4. job.session = s /\ ~o.synced
    BY <2>3 DEF Waited, IsPending
  <2>5. pc = "finish" => s \in remote.attached
    BY <2>2, <2>3, <2>4, PendingFacts, Zenon DEF IInv, WaitingInv
  <2>6. PICK h \in Seq(Frames), w \in Seq(Frames) : h = o.frames /\ w = o.trailing
    BY DEF Pendings
  <2>7. Append(h, f) \in Seq(Frames) /\ Len(Append(h, f)) = Len(h) + 1 /\ Len(w) \in Nat
          /\ Len(h) \in Nat
    BY <2>1
  <2>8. PICK p : p = [o EXCEPT !.frames = Append(h, f)]
    BY Zenon
  <2>9. p \in Pendings /\ p.frames = Append(h, f) /\ p.trailing = w /\ p.session = s
          /\ p.synced = o.synced
    BY <2>3, <2>4, <2>6, <2>7, <2>8, Zenon DEF Pendings
  <2>10. delivery' = [delivery EXCEPT !.pending = [delivery.pending EXCEPT ![1] = p]]
    BY <2>3, <2>6, <2>8 DEF Waited
  <2>11. Len(p.frames) + Len(p.trailing) = (Len(o.frames) + Len(o.trailing)) + 1
    <3>1. \A i, j \in Nat : (i + 1) + j = (i + j) + 1
      OBVIOUS
    <3>2. Len(p.frames) + Len(p.trailing) = (Len(h) + 1) + Len(w)
      BY <2>7, <2>9, Zenon
    <3>3. (Len(h) + 1) + Len(w) = (Len(h) + Len(w)) + 1
      BY <3>1, <2>7, Zenon
    <3> QED
      BY <3>2, <3>3, <2>6, Zenon
  <2>12. Published(h) /\ Published(w) /\ Only(h, s) /\ Only(w, s)
    BY <2>2, <2>3, <2>4, <2>6, PendingFacts, Zenon DEF IInv, KnownInv
  <2>13. Published(p.frames)' /\ Published(p.trailing)' /\ Only(p.frames, s) /\ Only(p.trailing, s)
    <3>1. Published(w)'
      BY <2>1, <2>12, <1>PublishesFacts
    <3>2. Published(Append(h, f))'
      BY <2>1, <2>12, <1>PublishedGrows
    <3>3. Only(<<f>>, s) /\ <<f>> \in Seq(Frames)
      BY <2>1 DEF Only
    <3>4. Only(h \o <<f>>, s) /\ Append(h, f) = h \o <<f>>
      BY <3>3, <2>1, <2>12, OnlyJoin, <1>AppendJoins, Zenon
    <3>5. Published(p.frames)'
      BY <3>2, <2>9 DEF Published
    <3>6. Published(p.trailing)'
      BY <3>1, <2>9 DEF Published
    <3> QED
      BY <3>4, <3>5, <3>6, <2>9, <2>12, Zenon
  <2>14. pc = "sync" => p.trailing = <<>>
    BY <2>2, <2>3, <2>6, <2>9, PendingFacts, Zenon DEF IInv, WaitingInv
  <2>15. delivery.client /\ IsPending(delivery, s) /\ QueuedLen(delivery) < QueueCapacity
    BY DEF Waited
  <2> QED
    BY <2>3, <2>5, <2>9, <2>10, <2>11, <2>13, <2>14, <2>15, <1>PendingGrowsIInv, Zenon
\* Whatever deliver does with the frame.
<1>DeliveredIInv.
  ASSUME IInv, NEW s \in subscribed, NEW f, Publishes(s, f), delivery' = Deliver(delivery, s, f)
  PROVE  IInv'
  <2> USE <1>DeliveredIInv
  <2>1. delivery \in Deliveries /\ s \in Sessions
    BY DEF IInv, TypeOK
  <2>2. \/ Dropped(delivery', delivery, s) \/ Overflowed(delivery', delivery)
        \/ Queued(delivery', delivery, s, f) \/ Trailed(delivery', delivery, s, f)
        \/ Waited(delivery', delivery, s, f)
    <3>1. PICK d \in Deliveries : d = delivery
      BY <2>1
    <3>2. LET e == Deliver(d, s, f)
          IN  Dropped(e, d, s) \/ Overflowed(e, d) \/ Queued(e, d, s, f)
                \/ Trailed(e, d, s, f) \/ Waited(e, d, s, f)
      BY <1>DeliverCases
    <3> QED
      BY <3>1, <3>2
  <2>3. CASE Dropped(delivery', delivery, s)
    <3>1. delivery' = delivery
            /\ (~delivery.client \/ (~IsPending(delivery, s) /\ s \notin delivery.subscriptions))
      <4>1. PICK e, d : e = delivery' /\ d = delivery
        OBVIOUS
      <4>2. Dropped(e, d, s)
        BY <2>3, <4>1
      <4>3. e = d /\ (~d.client \/ (~IsPending(d, s) /\ s \notin d.subscriptions))
        BY <4>2, Zenon DEF Dropped
      <4> QED
        BY <4>1, <4>3
    <3> QED
      BY <3>1, <2>1, <1>UnfollowedIInv
  <2> QED
    BY <2>1, <2>2, <2>3, <1>OverflowIInv, <1>QueuedIInv, <1>TrailedIInv, <1>WaitedIInv
<1>PublishEventIInv.
  ASSUME IInv, NEW s \in Sessions, NEW view \in BOOLEAN, PublishEvent(s, view)
  PROVE  IInv'
  <2> USE <1>PublishEventIInv
  <2>1. PICK n \in Nat : n = last[s] /\ n + 1 \in 0..MaxEvents
    BY NativeAssumption DEF IInv, TypeOK, PublishEvent
  <2>2. PICK f \in Frames : f = Frame("event", s, n + 1) /\ f.type = "event" /\ f.session = s
                            /\ f.n = n + 1
    BY <2>1, SessionFrames
  <2>3. last' = [last EXCEPT ![s] = n + 1] /\ last \in [Sessions -> 0..MaxEvents]
    BY <2>1 DEF PublishEvent, IInv, TypeOK
  <2>4. owed' \subseteq subscribed /\ UNCHANGED <<subscribed, host, link, pc, job, remote>>
    BY DEF PublishEvent
  <2>5. Publishes(s, f)
    <3>1. last' \in [Sessions -> 0..MaxEvents] /\ last'[s] = last[s] + 1 /\ f.n = last[s] + 1
            /\ \A t \in Sessions : t # s => last'[t] = last[t]
      BY <2>1, <2>2, <2>3
    <3> QED
      BY <3>1, <2>2, <2>4 DEF Publishes
  <2>6. CASE s \in subscribed
    <3>1. delivery' = Deliver(delivery, s, f)
      BY <2>1, <2>2, <2>6 DEF PublishEvent
    <3> QED
      BY <3>1, <2>5, <2>6, <1>DeliveredIInv
  <2>7. CASE s \notin subscribed
    <3>1. delivery' = delivery
      BY <2>7 DEF PublishEvent
    <3> QED
      BY <3>1, <2>5, <2>7, <1>UnfollowedIInv
  <2> QED
    BY <2>6, <2>7
<1>PublishViewIInv.
  ASSUME IInv, NEW s \in Sessions, PublishView(s)
  PROVE  IInv'
  <2> USE <1>PublishViewIInv
  <2>1. PICK n \in 0..MaxEvents : n = last[s]
    BY DEF IInv, TypeOK
  <2>2. PICK f \in Frames : f = Frame("view", s, n) /\ f.type = "view" /\ f.session = s
    BY <2>1, SessionFrames
  <2>3. /\ UNCHANGED <<last, subscribed, host, link, pc, job, remote>> /\ owed' = {}
        /\ delivery' = Deliver(delivery, s, f)
    BY <2>1, <2>2 DEF PublishView
  <2>4. s \in subscribed
    BY DEF IInv, WaitingInv, PublishView
  <2>5. Publishes(s, f)
    BY <2>2, <2>3 DEF Publishes, IInv, TypeOK
  <2> QED
    BY <2>3, <2>4, <2>5, <1>DeliveredIInv
<1> QED
  BY <1>PublishEventIInv, <1>PublishViewIInv, Zenon

-----------------------------------------------------------------------------
(* Sending *)

\* What a frame changes for the client.
Received(r, c, f) ==
  /\ r \in Remotes /\ r.attached = c.attached
  /\ \A s \in Sessions :
       r.cursor[s] = IF f.type = "event" /\ f.session = s /\ f.n = c.cursor[s] + 1 THEN f.n
                     ELSE c.cursor[s]
  /\ \/ r.gap = c.gap
     \/ /\ f.type = "event" /\ f.n > c.cursor[f.session] /\ f.n # c.cursor[f.session] + 1
        /\ r.gap = c.gap \cup {f.session}

\* The frame that leaves the queue is the next one the client expects.
LEMMA SendIInv == IInv /\ (SendFrame \/ SendFails) => IInv'
\* What a client finds in the queue after it received the first frame of it.
<1>TakeHead.
  ASSUME NEW q \in Seq(Frames), q # <<>>, NEW s, NEW c \in Nat, NEW d \in Nat, NEW m \in Nat,
         Continues(q, s, c),
         d = IF 1 \in Events(q, s) /\ q[1].n = c + 1 THEN q[1].n ELSE c
  PROVE  /\ 1 \in Events(q, s) => q[1].n <= c + 1
         /\ Continues(Tail(q), s, d)
         /\ Holds(q, s, c, m) => Holds(Tail(q), s, d, m)
         /\ Reaches(q, s, c, m) /\ c <= m => Reaches(Tail(q), s, d, m)
         /\ Rises(q, s) => Rises(Tail(q), s)
  <2> USE <1>TakeHead
  <2> DEFINE t == Tail(q)
  <2>1. t \in Seq(Frames) /\ Len(q) \in Nat /\ Len(q) > 0 /\ Len(t) = Len(q) - 1
          /\ DOMAIN q = 1..Len(q) /\ DOMAIN t = 1..Len(t)
          /\ \A i \in 1..Len(t) : t[i] = q[i + 1]
    OBVIOUS
  <2> HIDE DEF t
  <2>2. \A i \in Events(t, s) : i \in Nat /\ i >= 1 /\ i + 1 \in Events(q, s) /\ t[i] = q[i + 1]
    BY <2>1 DEF Events
  <2>3. ASSUME NEW k \in Events(q, s)
        PROVE  k \in Nat /\ (k = 1 \/ \E i \in Events(t, s) : k = i + 1)
    <3>1. k \in 1..Len(q) /\ q[k].type = "event" /\ q[k].session = s
      BY <2>1 DEF Events
    <3>2. ASSUME k # 1 PROVE k - 1 \in Events(t, s) /\ k = (k - 1) + 1
      <4>1. k - 1 \in 1..Len(t) /\ k = (k - 1) + 1
        BY <2>1, <3>1, <3>2
      <4> QED
        BY <4>1, <3>1, <2>1 DEF Events
    <3> QED
      BY <3>1, <3>2
  <2>4. \A i \in Events(q, s) : q[i].n \in Nat
    BY FrameFacts DEF Events
  <2>5. ASSUME 1 \in Events(q, s) PROVE q[1].n <= c + 1 /\ q[1].n <= d
    <3>1. \A j \in Events(q, s) : j \in Nat /\ ~(j < 1)
      BY <2>2, <2>3
    <3>2. q[1].n <= c + 1
      BY <2>5, <3>1 DEF Continues
    <3> QED
      BY <3>2, <2>4, <2>5
  <2>6. d >= c
    BY <2>4
  <2>7. Continues(t, s, d)
    <3>1. SUFFICES ASSUME NEW i \in Events(t, s)
                   PROVE  t[i].n <= d + 1 \/ \E j \in Events(t, s) : j < i /\ t[j].n + 1 = t[i].n
      BY DEF Continues
    <3>2. i \in Nat /\ i + 1 \in Events(q, s) /\ t[i] = q[i + 1] /\ t[i].n \in Nat
      BY <2>2, <2>4
    <3>3. CASE q[i + 1].n <= c + 1
      BY <3>2, <3>3, <2>6
    <3>4. CASE \E j \in Events(q, s) : j < i + 1 /\ q[j].n + 1 = q[i + 1].n
      <4>1. PICK j \in Events(q, s) : j < i + 1 /\ q[j].n + 1 = q[i + 1].n
        BY <3>4
      <4>2. CASE j = 1
        <5>1. q[1].n <= d /\ q[1].n \in Nat
          BY <4>2, <2>4, <2>5
        <5> QED
          BY <5>1, <4>1, <4>2, <3>2
      <4>3. CASE \E k \in Events(t, s) : j = k + 1
        <5>1. PICK k \in Events(t, s) : j = k + 1
          BY <4>3
        <5>2. k \in Nat /\ t[k] = q[j]
          BY <5>1, <2>2
        <5>3. k < i
          BY <5>1, <5>2, <4>1, <3>2
        <5> QED
          BY <5>2, <5>3, <4>1, <3>2
      <4> QED
        BY <4>2, <4>3, <2>3
    <3> QED
      BY <3>2, <3>3, <3>4, Zenon DEF Continues
  <2>8. Holds(q, s, c, m) => Holds(t, s, d, m)
    <3>1. CASE c >= m
      BY <3>1, <2>6 DEF Holds
    <3>2. ASSUME NEW k \in Events(q, s), q[k].n = m PROVE Holds(t, s, d, m)
      <4>1. CASE k = 1
        BY <3>2, <4>1, <2>5 DEF Holds
      <4>2. CASE \E i \in Events(t, s) : k = i + 1
        BY <3>2, <4>2, <2>2 DEF Holds
      <4> QED
        BY <4>1, <4>2, <2>3
    <3> QED
      BY <3>1, <3>2 DEF Holds
  <2>9. ASSUME Reaches(q, s, c, m), c <= m PROVE Reaches(t, s, d, m)
    <3>1. ASSUME Events(t, s) = {} PROVE d = m
      <4>1. \A k \in Events(q, s) : k = 1
        BY <3>1, <2>3
      <4>2. CASE 1 \in Events(q, s)
        <5>1. q[1].n = m
          BY <4>1, <4>2, <2>9 DEF Reaches
        <5> QED
          BY <5>1, <4>2, <2>4, <2>5, <2>9
      <4>3. CASE 1 \notin Events(q, s)
        BY <4>1, <4>3, <2>9 DEF Reaches
      <4> QED
        BY <4>2, <4>3
    <3>2. ASSUME Events(t, s) # {}
          PROVE  \E i \in Events(t, s) : t[i].n = m /\ \A j \in Events(t, s) : j <= i
      <4>1. PICK h \in Events(t, s) : TRUE
        BY <3>2
      <4>2. PICK k \in Events(q, s) : q[k].n = m /\ \A j \in Events(q, s) : j <= k
        BY <4>1, <2>2, <2>9 DEF Reaches
      <4>3. k # 1
        BY <4>1, <4>2, <2>2
      <4>4. PICK i \in Events(t, s) : k = i + 1
        BY <4>3, <2>3
      <4>5. t[i].n = m /\ i \in Nat
        BY <4>2, <4>4, <2>2, Zenon
      <4>6. ASSUME NEW j \in Events(t, s) PROVE j <= i
        <5>1. j \in Nat /\ j + 1 <= k
          BY <4>2, <2>2
        <5> QED
          BY <5>1, <4>4, <4>5
      <4> QED
        BY <4>5, <4>6
    <3> QED
      BY <3>1, <3>2 DEF Reaches
  <2>10. ASSUME Rises(q, s) PROVE Rises(t, s)
    <3>1. SUFFICES ASSUME NEW i \in Events(t, s), NEW j \in Events(t, s), i < j
                   PROVE  t[i].n < t[j].n
      BY DEF Rises
    <3>2. i + 1 \in Events(q, s) /\ j + 1 \in Events(q, s) /\ t[i] = q[i + 1] /\ t[j] = q[j + 1]
      BY <2>2
    <3>3. i + 1 < j + 1
      BY <3>1, <2>2
    <3> QED
      BY <3>2, <3>3, <2>10 DEF Rises
  <2> QED
    BY <2>5, <2>7, <2>8, <2>9, <2>10 DEF t
<1>ReceiveEffect.
  ASSUME NEW c \in Remotes, NEW f \in Frames
  PROVE  Received(Receive(c, f), c, f)
  <2>0. PICK r : r = Receive(c, f)
    OBVIOUS
  <2>1. CASE f.type = "event"
    <3>1. PICK s \in Sessions, n \in 0..MaxEvents : s = f.session /\ n = f.n
      BY <2>1 DEF Frames
    <3>2. CASE n = c.cursor[s] + 1
      <4>1. r = [c EXCEPT !.cursor[s] = n]
        BY <2>0, <2>1, <3>1, <3>2 DEF Receive
      <4>2. r \in Remotes
        BY <4>1 DEF Remotes
      <4>3. r.attached = c.attached /\ r.gap = c.gap /\ r.cursor = [c.cursor EXCEPT ![s] = n]
        BY <4>1 DEF Remotes
      <4>4. c.cursor \in [Sessions -> 0..MaxEvents]
        BY DEF Remotes
      <4>5. \A t \in Sessions : r.cursor[t] = IF s = t THEN n ELSE c.cursor[t]
        BY <4>3, <4>4
      <4> QED
        BY <2>0, <2>1, <3>1, <3>2, <4>2, <4>3, <4>5 DEF Received
    <3>3. CASE n # c.cursor[s] + 1 /\ n > c.cursor[s]
      <4>1. r = [c EXCEPT !.gap = @ \cup {s}]
        BY <2>0, <2>1, <3>1, <3>3 DEF Receive
      <4>2. r \in Remotes /\ r.attached = c.attached /\ r.gap = c.gap \cup {s}
              /\ r.cursor = c.cursor
        BY <4>1 DEF Remotes
      <4> QED
        BY <2>0, <2>1, <3>1, <3>3, <4>2 DEF Received
    <3>4. CASE n # c.cursor[s] + 1 /\ ~(n > c.cursor[s])
      BY <2>0, <2>1, <3>1, <3>4 DEF Receive, Received
    <3> QED
      BY <3>2, <3>3, <3>4
  <2>2. CASE f.type # "event"
    <3>1. CASE f.type \in {"result", "completed", "unsubscribed"}
      <4>1. f.session \in Sessions /\ f.n \in 0..MaxEvents
        BY <3>1 DEF Frames
      <4>2. \/ r = [c EXCEPT !.told[f.session] = f.n]
            \/ r = [c EXCEPT !.live = @ \cup {f.session}]
            \/ r = [c EXCEPT !.live = @ \ {f.session}]
        BY <2>0, <3>1 DEF Receive
      <4>3. r \in Remotes /\ r.attached = c.attached /\ r.gap = c.gap /\ r.cursor = c.cursor
        BY <4>1, <4>2 DEF Remotes
      <4> QED
        BY <2>0, <2>2, <4>3 DEF Received
    <3>2. CASE f.type \notin {"result", "completed", "unsubscribed"}
      <4>1. r = c
        BY <2>0, <2>2, <3>2 DEF Receive
      <4> QED
        BY <2>0, <2>2, <4>1 DEF Received
    <3> QED
      BY <3>1, <3>2
  <2> QED
    BY <2>1, <2>2
\* The first frame is taken from a queue that is not empty.
<1>TakenFacts.
  ASSUME IInv, pc = "send", delivery.outgoing # <<>>,
         NEW e, e = [delivery EXCEPT !.outgoing = Tail(@)]
  PROVE  /\ link.at = "ready" /\ delivery.client = TRUE /\ delivery.pending = <<>>
         /\ e \in Deliveries /\ e.client = TRUE /\ e.pending = <<>>
         /\ e.outgoing = Tail(delivery.outgoing)
         /\ e.cursors = delivery.cursors /\ e.subscriptions = delivery.subscriptions
         /\ e.abort = delivery.abort
         /\ Published(e.outgoing)
         /\ QueuedLen(e) <= QueueCapacity
  <2> USE <1>TakenFacts
  <2>1. PICK d \in Deliveries : d = delivery
    BY DEF IInv, TypeOK
  <2>2. link.at = "ready"
    BY NoClientType DEF IInv, ConnectionInv
  <2>3. d.client = TRUE /\ d.pending = <<>>
    BY <2>1, <2>2, ServedFacts, Zenon
  <2>4. PICK q \in Seq(Frames) : q = d.outgoing /\ q # <<>>
    BY <2>1 DEF Deliveries
  <2>5. Tail(q) \in Seq(Frames) /\ Len(q) \in Nat /\ Len(Tail(q)) = Len(q) - 1
          /\ DOMAIN q = 1..Len(q) /\ DOMAIN Tail(q) = 1..(Len(q) - 1)
          /\ \A i \in 1..(Len(q) - 1) : Tail(q)[i] = q[i + 1]
    BY <2>4
  <2>6. PICK t \in Seq(Frames) : t = Tail(q)
    BY <2>5, Zenon
  <2>7. e = [d EXCEPT !.outgoing = t]
    BY <2>1, <2>4, <2>6
  <2>8. e \in Deliveries
    BY <2>7, Zenon DEF Deliveries
  <2>9. e.client = TRUE /\ e.pending = <<>> /\ e.outgoing = t /\ e.cursors = d.cursors
          /\ e.subscriptions = d.subscriptions /\ e.abort = d.abort
    BY <2>3, <2>7 DEF Deliveries
  <2>10. Published(t)
    <3>1. Published(q)
      BY <2>1, <2>4 DEF IInv, KnownInv
    <3>2. \A i \in DOMAIN t : i + 1 \in DOMAIN q /\ t[i] = q[i + 1]
      BY <2>5, <2>6
    <3> QED
      BY <3>1, <3>2 DEF Published
  <2>11. QueuedLen(e) <= QueueCapacity
    <3>1. QueuedLen(e) = Len(t) /\ QueuedLen(d) = Len(q)
      BY <2>3, <2>4, <2>8, <2>9, QueuedLenIs, Zenon
    <3>2. QueuedLen(d) <= QueueCapacity
      BY <2>1 DEF IInv, HoleMeansAbort
    <3> QED
      BY <3>1, <3>2, <2>5, <2>6, NativeAssumption
  <2> QED
    BY <2>1, <2>2, <2>3, <2>4, <2>6, <2>8, <2>9, <2>10, <2>11
<1>SendFailsIInv.
  ASSUME IInv, SendFails
  PROVE  IInv'
  <2> USE <1>SendFailsIInv
  <2>1. PICK e : e = [delivery EXCEPT !.outgoing = Tail(@)]
    BY Zenon
  <2>2. pc = "send" /\ delivery.outgoing # <<>> /\ delivery' = e /\ pc' = "disconnect"
          /\ UNCHANGED <<bridge, link, job, remote>>
    BY <2>1 DEF SendFails
  <2>3. /\ link.at = "ready" /\ e \in Deliveries /\ e.client = TRUE /\ e.pending = <<>>
        /\ e.cursors = delivery.cursors /\ e.abort = delivery.abort
        /\ Published(e.outgoing) /\ QueuedLen(e) <= QueueCapacity /\ delivery.client = TRUE
    BY <2>1, <2>2, <1>TakenFacts, Zenon
  <2>4. TypeOK'
    BY <2>2, <2>3 DEF IInv, TypeOK, Places, bridge
  <2>5. ConnectionInv'
    BY <2>2, <2>3 DEF ConnectionInv
  <2>6. KnownInv'
    <3>1. Published(delivery.outgoing)'
      BY <2>2, <2>3, Zenon DEF Published, bridge
    <3>2. \A s \in Sessions : remote'.cursor[s] <= last'[s] /\ delivery'.cursors[s] <= last'[s]
      BY <2>2, <2>3 DEF IInv, KnownInv, bridge
    <3>3. DOMAIN delivery'.pending = {} /\ pc' # "finish"
      BY <2>2, <2>3
    <3> QED
      BY <3>1, <3>2, <3>3 DEF KnownInv
  <2>7. WaitingInv' /\ DrainedInv'
    BY <2>2, <2>3 DEF IInv, WaitingInv, DrainedInv, bridge
  <2>8. StreamInv' /\ BatchInv'
    BY <2>2, Zenon DEF StreamInv, BatchInv, Intact
  <2>9. HoleMeansAbort'
    BY <2>2, <2>3 DEF IInv, HoleMeansAbort
  <2> QED
    BY <2>4, <2>5, <2>6, <2>7, <2>8, <2>9 DEF IInv
\* A frame reaches the client.
<1>SendFrameIInv.
  ASSUME IInv, SendFrame
  PROVE  IInv'
  <2> USE <1>SendFrameIInv
  <2>1. PICK e : e = [delivery EXCEPT !.outgoing = Tail(@)]
    BY Zenon
  <2>2. pc = "send" /\ delivery.outgoing # <<>> /\ delivery' = e /\ pc' = "send"
          /\ UNCHANGED <<bridge, link, job>>
    BY <2>1 DEF SendFrame
  <2>3. /\ link.at = "ready" /\ e \in Deliveries /\ e.client = TRUE /\ e.pending = <<>>
        /\ e.outgoing = Tail(delivery.outgoing)
        /\ e.cursors = delivery.cursors /\ e.subscriptions = delivery.subscriptions
        /\ e.abort = delivery.abort
        /\ Published(e.outgoing) /\ QueuedLen(e) <= QueueCapacity /\ delivery.client = TRUE
    BY <2>1, <2>2, <1>TakenFacts, Zenon
  <2>4. PICK q \in Seq(Frames) : q = delivery.outgoing /\ q # <<>>
    BY <2>2 DEF IInv, TypeOK, Deliveries
  <2>5. PICK f \in Frames : f = q[1] /\ 1 \in DOMAIN q /\ remote' = Receive(remote, f)
    <3>1. Head(q) = q[1] /\ q[1] \in Frames /\ 1 \in DOMAIN q
      BY <2>4
    <3> QED
      BY <3>1, <2>4 DEF SendFrame
  <2>6. PICK c \in Remotes : c = remote
    BY DEF IInv, TypeOK
  <2>7. PICK r : r = Receive(c, f)
    OBVIOUS
  <2>8. Received(r, c, f) /\ remote' = r
    BY <2>5, <2>6, <2>7, <1>ReceiveEffect
  <2>9. r \in Remotes /\ r.attached = c.attached
    BY <2>8 DEF Received
  <2>10. \A s : 1 \in Events(q, s) <=> f.type = "event" /\ f.session = s
    BY <2>5 DEF Events
  <2>11. \A s \in Sessions : c.cursor[s] \in Nat /\ last[s] \in Nat /\ r.cursor[s] \in Nat
    <3>1. 0..MaxEvents \subseteq Nat
      BY NativeAssumption
    <3>2. \A s \in Sessions : c.cursor[s] \in 0..MaxEvents /\ r.cursor[s] \in 0..MaxEvents
      BY <2>9 DEF Remotes
    <3> QED
      BY <3>1, <3>2 DEF IInv, TypeOK
  <2>12. TypeOK'
    BY <2>2, <2>3, <2>8, <2>9 DEF IInv, TypeOK, Places, bridge
  <2>13. ConnectionInv'
    BY <2>2, <2>3 DEF ConnectionInv
  <2>14. KnownInv'
    <3>1. Published(delivery.outgoing)'
      BY <2>2, <2>3, Zenon DEF Published, bridge
    <3>2. \A s \in Sessions : r.cursor[s] <= last[s]
      <4>1. TAKE s \in Sessions
      <4>2. c.cursor[s] <= last[s]
        BY <2>6 DEF IInv, KnownInv
      <4>3. f.type = "event" /\ f.session = s => f.n <= last[s]
        BY <2>4, <2>5, Zenon DEF IInv, KnownInv, Published
      <4> QED
        BY <4>2, <4>3, <2>8 DEF Received
    <3>3. \A s \in Sessions : remote'.cursor[s] <= last'[s] /\ delivery'.cursors[s] <= last'[s]
      BY <3>2, <2>2, <2>3, <2>8 DEF IInv, KnownInv, bridge
    <3>4. DOMAIN delivery'.pending = {} /\ pc' # "finish"
      BY <2>2, <2>3
    <3> QED
      BY <3>1, <3>3, <3>4 DEF KnownInv
  <2>15. WaitingInv' /\ DrainedInv'
    <3>1. DOMAIN delivery'.pending = {} /\ pc' = "send"
      BY <2>2, <2>3
    <3>2. owed' \subseteq subscribed'
      BY <2>2 DEF IInv, WaitingInv, bridge
    <3> QED
      BY <3>1, <3>2 DEF WaitingInv, DrainedInv
  <2>16. StreamInv'
    <3>1. SUFFICES ASSUME ~e.abort, NEW s \in Sessions \ c.attached
                   PROVE  Carries(delivery, delivery.outgoing, s)'
      BY <2>2, <2>8, <2>9 DEF StreamInv, Intact
    <3>2. Carries(delivery, q, s)
      BY <3>1, <2>2, <2>3, <2>4, <2>6 DEF IInv, StreamInv, Intact
    <3>3. PICK i \in Nat, j \in Nat, m \in Nat, k \in Nat :
            i = c.cursor[s] /\ j = r.cursor[s] /\ m = delivery.cursors[s] /\ k = last[s]
      <4>1. delivery.cursors[s] \in 0..MaxEvents
        BY <3>1, <2>2, Zenon DEF IInv, TypeOK, Deliveries
      <4>2. delivery.cursors[s] \in Nat
        BY <4>1, NativeAssumption
      <4> QED
        BY <4>2, <2>11, Zenon
    <3>4. j = IF 1 \in Events(q, s) /\ q[1].n = i + 1 THEN q[1].n ELSE i
      BY <3>3, <2>5, <2>8, <2>10 DEF Received
    <3>5. i <= k
      BY <3>3, <2>6, Zenon DEF IInv, KnownInv
    <3>6. Continues(q, s, i) /\ Holds(q, s, i, m)
            /\ (s \in delivery.subscriptions \cap subscribed => Reaches(q, s, i, k) /\ Rises(q, s))
      BY <3>2, <3>3, <2>6, Zenon DEF Carries
    <3>7. PICK t : t = Tail(q)
      BY Zenon
    <3>8. Continues(t, s, j) /\ (Holds(q, s, i, m) => Holds(t, s, j, m))
      BY <3>4, <3>6, <3>7, <2>4, <1>TakeHead, Zenon
    <3>9. (Reaches(q, s, i, k) => Reaches(t, s, j, k)) /\ (Rises(q, s) => Rises(t, s))
      BY <3>4, <3>5, <3>6, <3>7, <2>4, <1>TakeHead, Zenon
    <3>10. Carries(e, t, s)'
      <4>1. remote'.cursor[s] = j /\ last'[s] = k /\ e.cursors[s] = m /\ subscribed' = subscribed
              /\ e.subscriptions = delivery.subscriptions
        BY <3>3, <2>2, <2>3, <2>8 DEF bridge
      <4> QED
        BY <3>6, <3>8, <3>9, <4>1, Zenon DEF Carries
    <3>11. delivery'.outgoing = t /\ delivery' = e
      BY <3>7, <2>2, <2>3, <2>4
    <3> QED
      BY <3>10, <3>11, Zenon DEF Carries
  <2>17. BatchInv'
    BY <2>2, Zenon DEF BatchInv
  <2>18. HoleMeansAbort'
    <3>1. ASSUME ~e.abort PROVE r.gap \subseteq r.attached
      <4>1. c.gap \subseteq c.attached
        BY <3>1, <2>3, <2>6 DEF IInv, HoleMeansAbort
      <4>2. CASE r.gap = c.gap
        BY <4>1, <4>2, <2>9
      <4>3. CASE /\ f.type = "event" /\ f.n > c.cursor[f.session] /\ f.n # c.cursor[f.session] + 1
                 /\ r.gap = c.gap \cup {f.session}
        <5>1. PICK s \in Sessions : s = f.session
          BY <4>3, FrameFacts
        <5>2. ASSUME s \notin c.attached PROVE FALSE
          <6>1. Carries(delivery, q, s)
            BY <3>1, <5>2, <2>2, <2>3, <2>4, <2>6 DEF IInv, StreamInv, Intact
          <6>2. Continues(q, s, c.cursor[s])
            BY <6>1, <2>6 DEF Carries
          <6>3. PICK i \in Nat : i = c.cursor[s]
            BY <2>11
          <6>4. 1 \in Events(q, s)
            BY <4>3, <5>1, <2>10
          <6>5. f.n <= i + 1
            <7>1. \A j \in Events(q, s) : ~(j < 1)
              BY <2>4 DEF Events
            <7> QED
              BY <6>2, <6>3, <6>4, <7>1, <2>5 DEF Continues
          <6>6. f.n \in Nat
            BY FrameFacts
          <6> QED
            BY <4>3, <5>1, <6>3, <6>5, <6>6
        <5> QED
          BY <4>1, <4>3, <5>1, <5>2, <2>9
      <4> QED
        BY <4>2, <4>3, <2>8 DEF Received
    <3> QED
      BY <3>1, <2>2, <2>3, <2>8 DEF HoleMeansAbort
  <2> QED
    BY <2>12, <2>13, <2>14, <2>15, <2>16, <2>17, <2>18 DEF IInv
<1> QED
  BY <1>SendFrameIInv, <1>SendFailsIInv, Zenon
===============================================================================
