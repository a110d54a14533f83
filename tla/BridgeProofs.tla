----------------------------- MODULE BridgeProofs -----------------------------
(***************************************************************************)
(* Proofs about the Bridge for every set of Providers, Channels, sessions  *)
(* and payloads, every page size, every window and every bound: its maps   *)
(* stay consistent, what it accepted can be routed again, a live Channel   *)
(* holds the whole stream and the current requests, and the Bridge         *)
(* implements the numbered streams of SessionFeed.                         *)
(***************************************************************************)
EXTENDS Bridge, SessionStreamProofs

\* The requests of a set with the routes a Provider and a Channel give them.
Routed(provider, c, requests) ==
  {[request |-> r, route |-> InteractionRoute(provider, ChannelDescriptor(c), r)] :
     r \in requests}

\* What the invariant says of one session's aggregate: it is stored under its own
\* identifier, its window has no hole, and everything in it can be routed again.
Sound(a, s, p) ==
  /\ a \in Aggregates
  /\ a.session.id = s
  /\ a.last.session = s
  /\ a.session.provider = p
  /\ Contiguous(a)
  /\ \A r1, r2 \in a.pending : r1.id = r2.id => r1 = r2
  /\ \A r \in a.pending : HasInteractionRoute(ProviderDescriptor(p), a.session, r)
  /\ \A i \in 1..Len(a.recent) :
       ValidateProviderEvent(ProviderDescriptor(p), a.session, a.recent[i])

\* What the invariant says of a live Channel's view v of a session's aggregate: it holds
\* the whole stream and the current snapshot, and shows no request that is not pending and
\* none with another route than the current descriptors give it; since a baseline, all.
Current(c, v, a, p) ==
  /\ v.cursor = LastSequence(a)
  /\ "SESSION_VIEW" \in ChannelCaps[c] => v.shown = {a.session}
  /\ v.pending \subseteq Routed(ProviderDescriptor(p), c, a.pending)
  /\ v.based => v.pending = Routed(ProviderDescriptor(p), c, a.pending)

\* Every stored aggregate is sound.
SoundInv == \A s \in Known : Sound(sessions[s], s, sessions[s].session.provider)

\* Every live Channel that refused nothing is current.
LiveInv ==
  \A c \in ChannelIds, s \in Known :
    IsSubscribed(c, s) /\ ~views[c][s].missed =>
      Current(c, views[c][s], sessions[s], sessions[s].session.provider)

\* Nobody published for a session that has not started.
PublishersInv == \A s \in Sessions \ Known : publishers[s] = {}

\* The inductive invariant.
IInv ==
  /\ TypeOK
  /\ MapsAreConsistent
  /\ PublishersInv
  /\ SoundInv
  /\ LiveInv

-----------------------------------------------------------------------------
\* Routed requests have their type (interaction_route).
LEMMA RoutedType ==
  ASSUME NEW provider, NEW c, NEW requests \in SUBSET Requests
  PROVE  Routed(provider, c, requests) \subseteq RoutedRequests
<1> SUFFICES ASSUME NEW r \in requests
             PROVE  [request |-> r,
                     route |-> InteractionRoute(provider, ChannelDescriptor(c), r)]
                      \in RoutedRequests
  BY DEF Routed
<1>1. InteractionRoute(provider, ChannelDescriptor(c), r) \in {"Interactive", "ReadOnly"}
  BY DEF InteractionRoute
<1> QED BY <1>1 DEF RoutedRequests

\* The fields of a view after an event it is next for, and of one that ignores it.
LEMMA FollowFields ==
  ASSUME NEW v \in Views, NEW e, NEW route, e.sequence \in 0..MaxCounter,
         ShownPending(v.pending, e, route) \subseteq RoutedRequests
  PROVE  LET f == Follow(v, e, route)
         IN  /\ f \in Views
             /\ f.shown = v.shown /\ f.based = v.based /\ f.missed = v.missed
             /\ e.sequence = v.cursor + 1 =>
                  f.cursor = e.sequence /\ f.pending = ShownPending(v.pending, e, route)
             /\ e.sequence # v.cursor + 1 => f = v
<1> DEFINE x == ShownPending(v.pending, e, route)
           n == e.sequence
           C == 0..MaxCounter
           R == SUBSET RoutedRequests
<1>1. CASE e.sequence = v.cursor + 1
  <2>1. Follow(v, e, route) = [v EXCEPT !.cursor = n, !.pending = x]
    BY <1>1 DEF Follow
  <2>2. n \in C /\ x \in R
    OBVIOUS
  <2> HIDE DEF x, n, C, R
  <2>3. v \in [cursor : C, shown : SUBSET SessionSnapshot, pending : R,
               based : BOOLEAN, missed : BOOLEAN]
    BY DEF Views, C, R
  <2>4. /\ [v EXCEPT !.cursor = n, !.pending = x]
             \in [cursor : C, shown : SUBSET SessionSnapshot, pending : R,
                  based : BOOLEAN, missed : BOOLEAN]
        /\ [v EXCEPT !.cursor = n, !.pending = x].shown = v.shown
        /\ [v EXCEPT !.cursor = n, !.pending = x].based = v.based
        /\ [v EXCEPT !.cursor = n, !.pending = x].missed = v.missed
        /\ [v EXCEPT !.cursor = n, !.pending = x].cursor = n
        /\ [v EXCEPT !.cursor = n, !.pending = x].pending = x
    BY <2>2, <2>3, Zenon
  <2> QED BY <1>1, <2>1, <2>4 DEF Views, C, R, x, n
<1>2. CASE e.sequence # v.cursor + 1
  BY <1>2 DEF Follow
<1> QED BY <1>1, <1>2

\* How the view w of a Channel follows from its view v when the handoffs of one event are
\* answered with `took`.
Answered(c, v, w, e, route, took, session) ==
  LET next == e.sequence = v.cursor + 1
  IN  /\ w \in Views
      /\ w.cursor = IF next /\ took # "Nothing" THEN e.sequence ELSE v.cursor
      /\ took # "All" => w.missed = TRUE
      /\ took = "All" =>
           /\ w.missed = v.missed /\ w.based = v.based
           /\ w.shown = IF DeliversSession(c, e) THEN {session} ELSE v.shown
           /\ next => w.pending = ShownPending(v.pending, e, route)

\* The view of a Channel after it answered the handoffs of one event
\* (handle_provider_event).
LEMMA DeliveredFields ==
  ASSUME NEW c, NEW v \in Views, NEW e, NEW route, e.sequence \in 0..MaxCounter,
         ShownPending(v.pending, e, route) \subseteq RoutedRequests,
         NEW took \in {"All", "EventOnly", "Nothing"}, NEW session \in SessionSnapshot
  PROVE  Answered(c, v, Delivered(c, v, e, route, took, session), e, route, took, session)
<1> DEFINE f == Follow(v, e, route)
<1>1. /\ f \in Views
      /\ f.shown = v.shown /\ f.based = v.based /\ f.missed = v.missed
      /\ e.sequence = v.cursor + 1 =>
           f.cursor = e.sequence /\ f.pending = ShownPending(v.pending, e, route)
      /\ e.sequence # v.cursor + 1 => f = v
  BY FollowFields
<1> HIDE DEF f
<1>2. CASE took = "All"
  <2> DEFINE z == IF DeliversSession(c, e) THEN {session} ELSE f.shown
  <2>1. Delivered(c, v, e, route, took, session) = [f EXCEPT !.shown = z]
    BY <1>2 DEF Delivered, f
  <2>2. z \in SUBSET SessionSnapshot
    BY <1>1 DEF Views
  <2> HIDE DEF z
  <2>3. [f EXCEPT !.shown = z] \in Views /\ [f EXCEPT !.shown = z].shown = z
    BY <1>1, <2>2 DEF Views
  <2>4. /\ [f EXCEPT !.shown = z].cursor = f.cursor
        /\ [f EXCEPT !.shown = z].pending = f.pending
        /\ [f EXCEPT !.shown = z].based = f.based
        /\ [f EXCEPT !.shown = z].missed = f.missed
    BY <1>1 DEF Views
  <2>5. z = IF DeliversSession(c, e) THEN {session} ELSE v.shown
    BY <1>1 DEF z
  <2> QED BY <1>1, <1>2, <2>1, <2>3, <2>4, <2>5, Zenon DEF Answered
<1>3. CASE took = "EventOnly"
  <2>1. Delivered(c, v, e, route, took, session) = [f EXCEPT !.missed = TRUE]
    BY <1>3 DEF Delivered, f
  <2>2. /\ [f EXCEPT !.missed = TRUE] \in Views /\ [f EXCEPT !.missed = TRUE].missed = TRUE
        /\ [f EXCEPT !.missed = TRUE].cursor = f.cursor
    BY <1>1, Zenon DEF Views
  <2> QED BY <1>1, <1>3, <2>1, <2>2, Zenon DEF Answered
<1>4. CASE took = "Nothing"
  <2>1. Delivered(c, v, e, route, took, session) = [v EXCEPT !.missed = TRUE]
    BY <1>4 DEF Delivered
  <2>2. /\ [v EXCEPT !.missed = TRUE] \in Views /\ [v EXCEPT !.missed = TRUE].missed = TRUE
        /\ [v EXCEPT !.missed = TRUE].cursor = v.cursor
    BY Zenon DEF Views
  <2> QED BY <1>4, <2>1, <2>2, Zenon DEF Answered
<1> QED BY <1>2, <1>3, <1>4

\* A live event moves the requests a Channel shows as it moves the pending ones: a view
\* that showed exactly the pending requests still does, one that showed some of them shows
\* no other (channel_event_route and interaction_route agree).
LEMMA ShownFollowsPending ==
  ASSUME NEW a \in Aggregates, NEW e \in Events, Acceptable(a, e.payload),
         NEW provider, NEW c, NEW shown
  PROVE  LET route == ChannelEventRoute(provider, ChannelDescriptor(c), e)
             pending == Reduce(a, e.payload, e.at).pending
         IN  /\ shown \subseteq Routed(provider, c, a.pending) =>
                  ShownPending(shown, e, route) \subseteq Routed(provider, c, pending)
             /\ shown = Routed(provider, c, a.pending) =>
                  ShownPending(shown, e, route) = Routed(provider, c, pending)
<1> DEFINE p == e.payload
           route == ChannelEventRoute(provider, ChannelDescriptor(c), e)
           pending == Reduce(a, p, e.at).pending
           One(r) == [request |-> r,
                      route |-> InteractionRoute(provider, ChannelDescriptor(c), r)]
<1>1. pending = IF p.kind = "InteractionRequested" THEN a.pending \cup {p.request}
                ELSE IF p.kind = "InteractionResponded"
                     THEN Without(a.pending, p.response.request)
                ELSE IF p.kind = "InteractionClosed"
                     THEN Without(a.pending, p.interaction)
                ELSE IF p.kind = "SessionEnded" THEN {} ELSE a.pending
  BY EventFields, ReduceEffect, Zenon
<1>2. \A q : Routed(provider, c, q) = {One(r) : r \in q}
  BY DEF Routed
<1>3. \A r : One(r).request = r
  OBVIOUS
<1> HIDE DEF pending, One
<1>4. CASE p.kind = "InteractionRequested"
  <2>1. ShownPending(shown, e, route) = shown \cup {One(p.request)}
    BY <1>4 DEF ShownPending, ChannelEventRoute, One
  <2>2. pending = a.pending \cup {p.request}
    BY <1>1, <1>4
  <2> QED BY <1>2, <2>1, <2>2 DEF pending
<1>5. CASE p.kind \in {"InteractionResponded", "InteractionClosed"}
  <2> DEFINE id == IF p.kind = "InteractionClosed" THEN p.interaction ELSE p.response.request
  <2>1. ShownPending(shown, e, route) = {x \in shown : x.request.id # id}
    BY <1>5 DEF ShownPending
  <2>2. pending = {r \in a.pending : r.id # id}
    BY <1>1, <1>5 DEF Without
  <2> HIDE DEF id
  <2> QED BY <1>2, <1>3, <2>1, <2>2 DEF pending
<1>6. CASE p.kind = "SessionEnded"
  <2>1. ShownPending(shown, e, route) = {} /\ pending = {}
    BY <1>1, <1>6 DEF ShownPending
  <2> QED BY <1>2, <2>1 DEF pending
<1>7. CASE p.kind \notin {"InteractionRequested", "InteractionResponded",
                         "InteractionClosed", "SessionEnded"}
  <2>1. ShownPending(shown, e, route) = shown /\ pending = a.pending
    BY <1>1, <1>7 DEF ShownPending
  <2> QED BY <2>1 DEF pending
<1> QED BY <1>4, <1>5, <1>6, <1>7

\* Whatever a Channel showed, an event leaves it with typed requests.
LEMMA ShownType ==
  ASSUME NEW shown \in SUBSET RoutedRequests, NEW e \in Events, NEW provider, NEW channel
  PROVE  ShownPending(shown, e, ChannelEventRoute(provider, channel, e))
           \subseteq RoutedRequests
<1> DEFINE route == ChannelEventRoute(provider, channel, e)
<1>1. CASE e.payload.kind = "InteractionRequested"
  <2>1. route \in {"Interactive", "ReadOnly"}
    BY <1>1 DEF ChannelEventRoute, InteractionRoute
  <2>2. e.payload.request \in Requests
    BY <1>1, EventFields DEF Requests, PayloadsOf
  <2> HIDE DEF route
  <2>3. [request |-> e.payload.request, route |-> route] \in RoutedRequests
    BY <2>1, <2>2 DEF RoutedRequests
  <2> QED BY <1>1, <2>3 DEF ShownPending, route
<1>2. CASE e.payload.kind # "InteractionRequested"
  BY <1>2 DEF ShownPending
<1> QED BY <1>1, <1>2

\* A page that continues at `base` moves a view's cursor and nothing else
\* (deliver_session_sync).
LEMMA FollowPageFields ==
  ASSUME NEW v \in Views, NEW base \in Nat, NEW page, NEW n \in Nat,
         base + n \in 0..MaxCounter, \A i \in 1..n : page[i].sequence = base + i
  PROVE  LET f == FollowPage(v, base, page, n)
         IN  /\ f \in Views
             /\ f.cursor = IF n > 0 THEN base + n ELSE v.cursor
             /\ n = 0 => f = v
<1> DEFINE m == base + n
           C == 0..MaxCounter
<1>1. CASE n > 0
  <2>1. FollowPage(v, base, page, n) = [v EXCEPT !.cursor = m]
    BY <1>1 DEF FollowPage
  <2>2. m \in C
    OBVIOUS
  <2> HIDE DEF m, C
  <2>3. v \in [cursor : C, shown : SUBSET SessionSnapshot, pending : SUBSET RoutedRequests,
               based : BOOLEAN, missed : BOOLEAN]
    BY DEF Views, C
  <2>4. /\ [v EXCEPT !.cursor = m]
             \in [cursor : C, shown : SUBSET SessionSnapshot,
                  pending : SUBSET RoutedRequests, based : BOOLEAN, missed : BOOLEAN]
        /\ [v EXCEPT !.cursor = m].cursor = m
    BY <2>2, <2>3
  <2>5. n # 0
    BY <1>1
  <2> QED BY <1>1, <2>1, <2>4, <2>5 DEF Views, C, m
<1>2. CASE ~(n > 0)
  BY <1>2 DEF FollowPage
<1> QED BY <1>1, <1>2

\* The baseline of a session completes a view (ChannelSessionBaseline).
LEMMA BaselineFields ==
  ASSUME NEW v \in Views, NEW c, NEW s, sessions[s] \in Aggregates
  PROVE  LET b == WithBaseline(v, c, s)
         IN  /\ b \in Views
             /\ b.cursor = v.cursor
             /\ b.shown = {sessions[s].session}
             /\ b.pending = RoutedPending(c, s)
<1> DEFINE x == {sessions[s].session}
           y == RoutedPending(c, s)
<1>1. x \in SUBSET SessionSnapshot
  BY DEF Aggregates
<1>2. y \in SUBSET RoutedRequests
  <2>1. sessions[s].pending \in SUBSET Requests
    BY DEF Aggregates
  <2>2. y = Routed(ProviderOf(s), c, sessions[s].pending)
    BY DEF RoutedPending, Routed
  <2> HIDE DEF y
  <2> QED BY <2>1, <2>2, RoutedType
<1>3. WithBaseline(v, c, s)
        = [v EXCEPT !.shown = x, !.pending = y, !.based = TRUE, !.missed = FALSE]
  BY DEF WithBaseline
<1> HIDE DEF x, y
<1> QED BY <1>1, <1>2, <1>3, Zenon DEF Views, x, y

-----------------------------------------------------------------------------
\* A session that starts is sound (from_initial_event_with_config).
LEMMA StartIsSound ==
  ASSUME NEW e \in Events, NEW p, CanStart(e),
         ValidateProviderEvent(ProviderDescriptor(p), e.payload.snapshot, e)
  PROVE  /\ Sound(FromInitialEvent(e), e.session, p)
         /\ FromInitialEvent(e).last = e
         /\ LastSequence(FromInitialEvent(e)) = 1
<1> DEFINE w == IF KeepsWindow THEN <<e>> ELSE <<>>
           snapshot == e.payload.snapshot
           a == FromInitialEvent(e)
<1>1. e.sequence = 1 /\ e.payload.kind = "SessionStarted"
  BY DEF CanStart, FirstSequence
<1>2. snapshot \in SessionSnapshot /\ snapshot.id = e.session /\ snapshot.provider = p
  BY <1>1, EventFields, PayloadAssumption
  DEF PayloadAssumption, Snapshots, PayloadsOf, WellFormedEvent, ValidateProviderEvent,
      ProviderDescriptor
<1>3. a = [session |-> snapshot, plan |-> 0, progress |-> 0, tools |-> {}, pending |-> {},
           outcome |-> None, last |-> e, recent |-> w]
  BY DEF FromInitialEvent
<1>4. w \in Seq(Events)
  OBVIOUS
<1> HIDE DEF a
<1>5. a \in Aggregates
  <2> HIDE DEF w, snapshot
  <2> QED BY <1>2, <1>3, <1>4 DEF Aggregates
<1>6. a.session = snapshot /\ a.last = e /\ a.recent = w /\ a.pending = {}
  BY <1>3
<1>7. LastSequence(a) = 1
  BY <1>1, <1>6 DEF LastSequence
<1>8. Contiguous(a)
  BY <1>1, <1>6, <1>7 DEF Contiguous
<1>9. \A i \in 1..Len(w) : w[i] = e
  OBVIOUS
<1> HIDE DEF w, snapshot
<1>10. \A i \in 1..Len(a.recent) :
         ValidateProviderEvent(ProviderDescriptor(p), a.session, a.recent[i])
  BY <1>6, <1>9 DEF snapshot
<1> QED BY <1>2, <1>5, <1>6, <1>7, <1>8, <1>10 DEF Sound, a

\* A session that applies a validated event stays sound, with the same identifier and
\* Provider (apply, validate_provider_event).
LEMMA ApplyIsSound ==
  ASSUME NEW a, NEW s, NEW p, NEW q, NEW e \in Events, Sound(a, s, p), Applies(a, e),
         ValidateProviderEvent(ProviderDescriptor(q), a.session, e)
  PROVE  /\ q = p /\ e.session = s
         /\ Sound(Apply(a, e), s, p)
         /\ Apply(a, e).last = e
         /\ LastSequence(a) \in Nat
         /\ LastSequence(Apply(a, e)) = LastSequence(a) + 1
         /\ LastSequence(a) < MaxCounter
<1> DEFINE n == Apply(a, e)
           r == Reduce(a, e.payload, e.at)
           d == ProviderDescriptor(p)
<1>1. /\ a \in Aggregates /\ Contiguous(a) /\ a.session.id = s /\ a.session.provider = p
      /\ \A r1, r2 \in a.pending : r1.id = r2.id => r1 = r2
  BY DEF Sound
<1>2. q = p /\ e.session = s
  BY <1>1 DEF ValidateProviderEvent, ProviderDescriptor
<1>3. /\ n \in Aggregates /\ n.last = e
      /\ n.session = r.session /\ n.pending = r.pending
      /\ \A r1, r2 \in n.pending : r1.id = r2.id => r1 = r2
      /\ Contiguous(n)
      /\ \A i \in 1..Len(n.recent) :
           n.recent[i] = e \/ \E j \in 1..Len(a.recent) : n.recent[i] = a.recent[j]
  BY <1>1, ApplyLemma
<1>4. /\ r.session.id = a.session.id /\ r.session.provider = a.session.provider
      /\ r.pending = IF e.payload.kind = "InteractionRequested"
                     THEN a.pending \cup {e.payload.request}
                     ELSE IF e.payload.kind = "InteractionResponded"
                          THEN Without(a.pending, e.payload.response.request)
                     ELSE IF e.payload.kind = "InteractionClosed"
                          THEN Without(a.pending, e.payload.interaction)
                     ELSE IF e.payload.kind = "SessionEnded" THEN {} ELSE a.pending
  BY <1>1, EventFields, ReduceEffect, ZenonT(20) DEF Applies
<1> HIDE DEF n, r
<1>5. n.session.id = s /\ n.session.provider = p
  BY <1>1, <1>3, <1>4
<1>6. ASSUME NEW x \in n.pending PROVE HasInteractionRoute(d, n.session, x)
  <2>1. CASE x \in a.pending
    <3>1. HasInteractionRoute(d, a.session, x)
      BY <2>1 DEF Sound
    <3> QED BY <1>1, <1>5, <3>1 DEF HasInteractionRoute
  <2>2. CASE e.payload.kind = "InteractionRequested" /\ x = e.payload.request
    <3>1. x.session = e.session
      BY <2>2, EventFields DEF WellFormedEvent
    <3>2. ProviderRequestCapability(x.kind) \subseteq ProviderDescriptor(p).caps
      BY <1>2, <2>2 DEF ValidateProviderEvent, EventCapability
    <3>3. d.id = p
      BY DEF ProviderDescriptor
    <3> QED BY <1>2, <1>5, <3>1, <3>2, <3>3 DEF HasInteractionRoute
  <2>3. \/ x \in a.pending
        \/ e.payload.kind = "InteractionRequested" /\ x = e.payload.request
    BY <1>3, <1>4 DEF Without
  <2> QED BY <2>1, <2>2, <2>3
<1>7. ASSUME NEW i \in 1..Len(n.recent) PROVE ValidateProviderEvent(d, n.session, n.recent[i])
  <2>1. ValidateProviderEvent(d, a.session, n.recent[i])
    BY <1>2, <1>3 DEF Sound
  <2> QED BY <1>1, <1>5, <2>1 DEF ValidateProviderEvent
<1>8. /\ LastSequence(a) \in Nat /\ LastSequence(n) = LastSequence(a) + 1
      /\ LastSequence(a) < MaxCounter
  <2>1. a.last \in Events
    BY <1>1 DEF Aggregates
  <2>2. a.last.sequence \in Nat
    BY <2>1, EventFields
  <2>3. e.sequence = a.last.sequence + 1 /\ a.last.sequence < MaxCounter
    BY DEF Applies, Continues
  <2> QED BY <1>3, <2>2, <2>3 DEF LastSequence
<1>9. n.last.session = s
  BY <1>2, <1>3
<1> QED BY <1>2, <1>3, <1>5, <1>6, <1>7, <1>8, <1>9 DEF Sound, n

-----------------------------------------------------------------------------
\* Every known session is sound.
LEMMA KnownIsSound ==
  ASSUME IInv, NEW s \in Known
  PROVE  /\ s \in Sessions
         /\ Sound(sessions[s], s, sessions[s].session.provider)
         /\ sessions[s].session.provider \in providers
         /\ publishers[s] = {sessions[s].session.provider}
<1>1. s \in Sessions /\ sessions[s] \in Aggregates
  BY DEF IInv, TypeOK, Known
<1>2. /\ sessions[s].session.id = s /\ sessions[s].last.session = s
      /\ sessions[s].session.provider \in providers
      /\ publishers[s] = {sessions[s].session.provider}
  BY DEF IInv, MapsAreConsistent
<1> QED BY <1>1, <1>2 DEF IInv, SoundInv

\* What handle_provider_event stores: the sound aggregate one event further, owned by the
\* Provider that published the event.
LEMMA ReducedIsSound ==
  ASSUME IInv, NEW p \in ProviderIds, NEW e \in Events, HandleProviderEvent(p, e)
  PROVE  /\ e.session \in Sessions /\ p \in providers
         /\ Sound(Reduced(e), e.session, p)
         /\ Reduced(e).last = e
         /\ e.session \in Known =>
              /\ sessions[e.session].session.provider = p
              /\ Applies(sessions[e.session], e)
              /\ Reduced(e) = Apply(sessions[e.session], e)
              /\ LastSequence(sessions[e.session]) \in Nat
              /\ LastSequence(sessions[e.session]) < MaxCounter
              /\ LastSequence(Reduced(e)) = LastSequence(sessions[e.session]) + 1
         /\ e.session \notin Known =>
              /\ LastSequence(Reduced(e)) = 1
              /\ subscriptions[e.session] = {} /\ publishers[e.session] = {}
<1> DEFINE s == e.session
<1>1. e.session \in Sessions
  BY EventFields
<1>2. /\ p \in providers
      /\ ValidateProviderEvent(ProviderDescriptor(p), RoutingSession(e), e)
      /\ IF s \in Known THEN Applies(sessions[s], e) ELSE CanStart(e)
  BY DEF HandleProviderEvent
<1>3. CASE s \in Known
  <2>1. RoutingSession(e) = sessions[s].session /\ Reduced(e) = Apply(sessions[s], e)
    BY <1>3 DEF RoutingSession, Reduced
  <2>2. Sound(sessions[s], s, sessions[s].session.provider)
    BY <1>3, KnownIsSound
  <2>3. /\ Applies(sessions[s], e)
        /\ ValidateProviderEvent(ProviderDescriptor(p), sessions[s].session, e)
    BY <1>2, <1>3, <2>1
  <2>4. PICK a : a = sessions[s]
    OBVIOUS
  <2>5. PICK q : q = a.session.provider
    OBVIOUS
  <2>6. /\ p = q
        /\ Sound(Apply(a, e), s, q)
        /\ Apply(a, e).last = e
        /\ LastSequence(a) \in Nat
        /\ LastSequence(Apply(a, e)) = LastSequence(a) + 1
        /\ LastSequence(a) < MaxCounter
    <3>1. Sound(a, s, q) /\ Applies(a, e)
          /\ ValidateProviderEvent(ProviderDescriptor(p), a.session, e)
      BY <2>2, <2>3, <2>4, <2>5
    <3> QED BY <3>1, ApplyIsSound
  <2> QED BY <1>1, <1>2, <1>3, <2>1, <2>3, <2>4, <2>5, <2>6
<1>4. CASE s \notin Known
  <2>1. RoutingSession(e) = e.payload.snapshot /\ Reduced(e) = FromInitialEvent(e)
    BY <1>4 DEF RoutingSession, Reduced
  <2>2. /\ Sound(FromInitialEvent(e), s, p) /\ FromInitialEvent(e).last = e
        /\ LastSequence(FromInitialEvent(e)) = 1
    BY <1>2, <1>4, <2>1, StartIsSound
  <2>3. subscriptions[s] = {} /\ publishers[s] = {}
    BY <1>1, <1>4 DEF IInv, MapsAreConsistent, PublishersInv
  <2> QED BY <1>1, <1>2, <1>4, <2>1, <2>2, <2>3
<1> QED BY <1>3, <1>4

\* The maps after handle_provider_event.
LEMMA EventEffect ==
  ASSUME IInv, NEW p \in ProviderIds, NEW e \in Events, HandleProviderEvent(p, e)
  PROVE  /\ Known' = Known \cup {e.session}
         /\ sessions'[e.session] = Reduced(e)
         /\ \A t \in Known : t # e.session => sessions'[t] = sessions[t]
         /\ providers' = providers /\ channels' = channels
         /\ subscriptions' = subscriptions /\ handoff' = {}
         /\ DOMAIN publishers' = Sessions
         /\ publishers'[e.session] = {p}
         /\ \A t \in Sessions : t # e.session => publishers'[t] = publishers[t]
<1> DEFINE s == e.session
<1>1. sessions' = [t \in Known \cup {s} |-> IF t = s THEN Reduced(e) ELSE sessions[t]]
  BY DEF HandleProviderEvent
<1>2. publishers' = [publishers EXCEPT ![s] = @ \cup {p}]
  BY DEF HandleProviderEvent
<1>3. /\ providers' = providers /\ channels' = channels
      /\ subscriptions' = subscriptions /\ handoff' = {}
  BY DEF HandleProviderEvent
<1>4. s \in Sessions /\ publishers \in [Sessions -> SUBSET ProviderIds]
  BY ReducedIsSound DEF IInv, TypeOK
<1>5. publishers[s] = {} \/ publishers[s] = {p}
  BY ReducedIsSound, KnownIsSound
<1> HIDE DEF s
<1>6. Known' = Known \cup {s}
  BY <1>1 DEF Known
<1>7. sessions'[s] = Reduced(e) /\ \A t \in Known : t # s => sessions'[t] = sessions[t]
  BY <1>1
<1>8. /\ DOMAIN publishers' = Sessions /\ publishers'[s] = {p}
      /\ \A t \in Sessions : t # s => publishers'[t] = publishers[t]
  BY <1>2, <1>4, <1>5
<1> QED BY <1>3, <1>6, <1>7, <1>8 DEF s

\* The views after handle_provider_event: each subscriber answered the handoffs in its own
\* way, nobody else's view moved.
LEMMA EventViews ==
  ASSUME IInv, NEW p \in ProviderIds, NEW e \in Events, HandleProviderEvent(p, e)
  PROVE  /\ views' \in [ChannelIds -> [Sessions -> Views]]
         /\ \A c \in ChannelIds, t \in Sessions :
              t # e.session \/ c \notin subscriptions[e.session] =>
                views'[c][t] = views[c][t]
         /\ \E took \in [subscriptions[e.session] -> {"All", "EventOnly", "Nothing"}] :
              \A c \in subscriptions[e.session] :
                /\ c \in ChannelIds
                /\ took[c] \in {"All", "EventOnly", "Nothing"}
                /\ Answered(c, views[c][e.session], views'[c][e.session], e,
                            ChannelEventRoute(ProviderDescriptor(p), ChannelDescriptor(c), e),
                            took[c], Reduced(e).session)
<1> DEFINE s == e.session
           A == {"All", "EventOnly", "Nothing"}
           route(c) == ChannelEventRoute(ProviderDescriptor(p), ChannelDescriptor(c), e)
           session == Reduced(e).session
<1>1. PICK took \in [subscriptions[s] -> A] :
        views' = [c \in ChannelIds |->
                    IF c \notin subscriptions[s] THEN views[c]
                    ELSE [views[c] EXCEPT ![s] =
                            Delivered(c, @, e, route(c), took[c], session)]]
  BY ZenonT(20) DEF HandleProviderEvent
<1>2. /\ s \in Sessions /\ views \in [ChannelIds -> [Sessions -> Views]]
      /\ subscriptions[s] \in SUBSET ChannelIds
  BY ReducedIsSound DEF IInv, TypeOK
<1>3. session \in SessionSnapshot /\ e.sequence \in 0..MaxCounter
  <2>1. Reduced(e) \in Aggregates
    BY ReducedIsSound DEF Sound
  <2>2. e.sequence \in 1..MaxCounter
    BY EventFields
  <2>3. \A n \in 1..MaxCounter : n \in 0..MaxCounter
    BY AggregateAssumption
  <2> QED BY <2>1, <2>2, <2>3 DEF Aggregates
<1>4. ASSUME NEW c \in subscriptions[s]
      PROVE  /\ c \in ChannelIds /\ took[c] \in A
             /\ views'[c] \in [Sessions -> Views]
             /\ \A t \in Sessions : t # s => views'[c][t] = views[c][t]
             /\ Answered(c, views[c][s], views'[c][s], e, route(c), took[c], session)
  <2>1. c \in ChannelIds /\ took[c] \in A
    BY <1>1, <1>2
  <2>2. PICK v : v = views[c][s]
    OBVIOUS
  <2>3. PICK r : r = route(c)
    OBVIOUS
  <2>4. PICK z : z = session
    OBVIOUS
  <2>5. PICK k : k = took[c]
    OBVIOUS
  <2>6. v \in Views /\ z \in SessionSnapshot /\ k \in A
    BY <1>2, <1>3, <2>1, <2>2, <2>4, <2>5
  <2>7. ShownPending(v.pending, e, r) \subseteq RoutedRequests
    <3>1. v.pending \in SUBSET RoutedRequests
      BY <2>6 DEF Views
    <3> QED BY <2>3, <3>1, ShownType
  <2>8. Answered(c, v, Delivered(c, v, e, r, k, z), e, r, k, z)
    BY <1>3, <2>6, <2>7, DeliveredFields
  <2>9. Delivered(c, v, e, r, k, z) \in Views
    BY <2>8 DEF Answered
  <2> HIDE DEF s, A, route, session
  <2>10. views'[c] = [views[c] EXCEPT ![s] = Delivered(c, v, e, r, k, z)]
    BY <1>1, <2>1, <2>2, <2>3, <2>4, <2>5
  <2>11. views[c] \in [Sessions -> Views]
    BY <1>2, <2>1
  <2>12. /\ views'[c][s] = Delivered(c, v, e, r, k, z)
         /\ views'[c] \in [Sessions -> Views]
         /\ \A t \in Sessions : t # s => views'[c][t] = views[c][t]
    BY <1>2, <2>9, <2>10, <2>11
  <2> QED BY <2>1, <2>2, <2>3, <2>4, <2>5, <2>8, <2>12
<1>5. ASSUME NEW c \in ChannelIds, c \notin subscriptions[s]
      PROVE  views'[c] = views[c]
  BY <1>1, <1>5
<1> HIDE DEF s, A, route, session
<1>6. views' \in [ChannelIds -> [Sessions -> Views]]
  <2>1. \A c \in ChannelIds : views'[c] \in [Sessions -> Views]
    <3> SUFFICES ASSUME NEW c \in ChannelIds PROVE views'[c] \in [Sessions -> Views]
      OBVIOUS
    <3>1. CASE c \in subscriptions[s]
      BY <1>4, <3>1
    <3>2. CASE c \notin subscriptions[s]
      BY <1>2, <1>5, <3>2
    <3> QED BY <3>1, <3>2
  <2>2. views' = [c \in ChannelIds |-> views'[c]]
    BY <1>1
  <2> QED BY <2>1, <2>2
<1>7. \A c \in ChannelIds, t \in Sessions :
        t # s \/ c \notin subscriptions[s] => views'[c][t] = views[c][t]
  <2> SUFFICES ASSUME NEW c \in ChannelIds, NEW t \in Sessions,
                      t # s \/ c \notin subscriptions[s]
               PROVE  views'[c][t] = views[c][t]
    OBVIOUS
  <2>1. CASE c \in subscriptions[s]
    BY <1>4, <2>1
  <2>2. CASE c \notin subscriptions[s]
    BY <1>5, <2>2
  <2> QED BY <2>1, <2>2
<1>8. \A c \in subscriptions[s] :
        /\ c \in ChannelIds /\ took[c] \in A
        /\ Answered(c, views[c][s], views'[c][s], e, route(c), took[c], session)
  BY <1>4
<1> QED BY <1>1, <1>6, <1>7, <1>8, Zenon DEF s, A, route, session

\* A live Channel that takes everything stays current through an event.
LEMMA CurrentFollows ==
  ASSUME NEW a, NEW s, NEW p, NEW e \in Events, Sound(a, s, p), Applies(a, e),
         e.sequence = LastSequence(a) + 1, Apply(a, e).last = e,
         NEW c, NEW v \in Views, NEW w, NEW took \in {"All", "EventOnly", "Nothing"},
         Answered(c, v, w, e,
                  ChannelEventRoute(ProviderDescriptor(p), ChannelDescriptor(c), e),
                  took, Apply(a, e).session),
         ~v.missed => Current(c, v, a, p), ~w.missed
  PROVE  Current(c, w, Apply(a, e), p)
<1> DEFINE d == ProviderDescriptor(p)
           route == ChannelEventRoute(d, ChannelDescriptor(c), e)
           n == Apply(a, e)
           q == Reduce(a, e.payload, e.at)
<1>1. a \in Aggregates /\ Contiguous(a)
      /\ \A r1, r2 \in a.pending : r1.id = r2.id => r1 = r2
  BY ZenonT(20) DEF Sound
<1>2. n.session = q.session /\ n.pending = q.pending
  BY <1>1, ApplyLemma
<1>3. took = "All" /\ w.missed = v.missed /\ w.based = v.based
      /\ w.shown = IF DeliversSession(c, e) THEN {n.session} ELSE v.shown
  BY DEF Answered
<1>4. Current(c, v, a, p)
  BY <1>3
<1>5. v.cursor = LastSequence(a)
      /\ ("SESSION_VIEW" \in ChannelCaps[c] => v.shown = {a.session})
      /\ v.pending \subseteq Routed(d, c, a.pending)
      /\ (v.based => v.pending = Routed(d, c, a.pending))
  BY <1>4 DEF Current
<1>6. w.cursor = e.sequence /\ w.pending = ShownPending(v.pending, e, route)
  BY <1>3, <1>5 DEF Answered
<1>7. w.cursor = LastSequence(n)
  BY <1>6 DEF LastSequence
<1>8. ASSUME "SESSION_VIEW" \in ChannelCaps[c]
      PROVE  w.shown = {n.session}
  <2>1. CASE UpdatesSessionView(e)
    BY <1>3, <1>8, <2>1 DEF DeliversSession
  <2>2. CASE ~UpdatesSessionView(e)
    <3>1. e.payload.kind \notin SnapshotKinds
      BY <2>2 DEF UpdatesSessionView, SnapshotKinds
    <3>2. q.session = a.session
      BY <1>1, <3>1, EventFields, ReduceEffect, ZenonT(20) DEF Applies
    <3>3. w.shown = v.shown
      BY <1>3, <2>2 DEF DeliversSession
    <3> QED BY <1>2, <1>5, <1>8, <3>2, <3>3
  <2> QED BY <2>1, <2>2
<1>9. /\ v.pending \subseteq Routed(d, c, a.pending) =>
           ShownPending(v.pending, e, route) \subseteq Routed(d, c, q.pending)
      /\ v.pending = Routed(d, c, a.pending) =>
           ShownPending(v.pending, e, route) = Routed(d, c, q.pending)
  <2>1. PICK x : x = v.pending
    OBVIOUS
  <2>2. PICK y : y = d
    OBVIOUS
  <2>3. Acceptable(a, e.payload)
    BY DEF Applies
  <2>4. /\ x \subseteq Routed(y, c, a.pending) =>
             ShownPending(x, e, ChannelEventRoute(y, ChannelDescriptor(c), e))
               \subseteq Routed(y, c, q.pending)
        /\ x = Routed(y, c, a.pending) =>
             ShownPending(x, e, ChannelEventRoute(y, ChannelDescriptor(c), e))
               = Routed(y, c, q.pending)
    BY <1>1, <2>3, ShownFollowsPending, ZenonT(20)
  <2> QED BY <2>1, <2>2, <2>4, ZenonT(20)
<1> HIDE DEF d, route, n, q
<1> QED BY <1>2, <1>3, <1>5, <1>6, <1>7, <1>8, <1>9, ZenonT(20) DEF Current, d, n

\* handle_provider_event preserves the invariant.
LEMMA EventInv ==
  ASSUME IInv, NEW p \in ProviderIds, NEW e \in Events, HandleProviderEvent(p, e)
  PROVE  IInv'
<1> DEFINE s == e.session
<1>1. /\ s \in Sessions /\ p \in providers
      /\ Sound(Reduced(e), s, p)
      /\ Reduced(e).last = e
      /\ s \in Known => /\ sessions[s].session.provider = p
                        /\ Applies(sessions[s], e)
                        /\ Reduced(e) = Apply(sessions[s], e)
                        /\ LastSequence(Reduced(e)) = LastSequence(sessions[s]) + 1
      /\ s \notin Known => subscriptions[s] = {}
  BY ReducedIsSound
<1>2. /\ Known' = Known \cup {s}
      /\ sessions'[s] = Reduced(e)
      /\ \A t \in Known : t # s => sessions'[t] = sessions[t]
      /\ providers' = providers /\ channels' = channels
      /\ subscriptions' = subscriptions /\ handoff' = {}
      /\ DOMAIN publishers' = Sessions
      /\ publishers'[s] = {p}
      /\ \A t \in Sessions : t # s => publishers'[t] = publishers[t]
  BY EventEffect
<1>3. Reduced(e).session.provider = p /\ Reduced(e) \in Aggregates
      /\ Reduced(e).session.id = s /\ Reduced(e).last.session = s
  BY <1>1 DEF Sound
<1>4. /\ \A t \in Known : t \in Sessions /\ sessions[t] \in Aggregates
      /\ providers \subseteq ProviderIds /\ channels \subseteq ChannelIds
      /\ subscriptions \in [Sessions -> SUBSET ChannelIds]
      /\ views \in [ChannelIds -> [Sessions -> Views]]
      /\ publishers \in [Sessions -> SUBSET ProviderIds]
  BY DEF IInv, TypeOK, Known
<1>5. TypeOK'
  <2>1. views' \in [ChannelIds -> [Sessions -> Views]]
    BY EventViews
  <2>2. DOMAIN sessions' \subseteq Sessions /\ \A t \in Known' : sessions'[t] \in Aggregates
    BY <1>1, <1>2, <1>3, <1>4 DEF Known
  <2>3. publishers' \in [Sessions -> SUBSET ProviderIds]
    <3>1. publishers' = [t \in Sessions |-> publishers'[t]]
      BY Zenon DEF HandleProviderEvent, IInv, TypeOK
    <3>2. \A t \in Sessions : publishers'[t] \in SUBSET ProviderIds
      BY <1>2, <1>4
    <3> QED BY <3>1, <3>2
  <2> QED BY <1>2, <1>4, <2>1, <2>2, <2>3 DEF TypeOK
<1> HIDE DEF s
<1>6. MapsAreConsistent'
  <2>1. \A t \in Sessions : subscriptions'[t] \subseteq channels'
    BY <1>2 DEF IInv, MapsAreConsistent
  <2>2. \A t \in Sessions : subscriptions'[t] # {} => t \in Known'
    BY <1>2 DEF IInv, MapsAreConsistent
  <2>3. \A t \in Known' : /\ sessions'[t].session.id = t
                          /\ sessions'[t].last.session = t
                          /\ sessions'[t].session.provider \in providers'
                          /\ publishers'[t] = {sessions'[t].session.provider}
    <3> SUFFICES ASSUME NEW t \in Known'
                 PROVE  /\ sessions'[t].session.id = t
                        /\ sessions'[t].last.session = t
                        /\ sessions'[t].session.provider \in providers'
                        /\ publishers'[t] = {sessions'[t].session.provider}
      OBVIOUS
    <3>1. CASE t = s
      BY <1>1, <1>2, <1>3, <3>1
    <3>2. CASE t # s
      <4>1. t \in Known /\ t \in Sessions
        BY <1>2, <1>4, <3>2
      <4>2. sessions'[t] = sessions[t] /\ publishers'[t] = publishers[t]
            /\ providers' = providers
        BY <1>2, <3>2, <4>1
      <4> QED BY <4>1, <4>2 DEF IInv, MapsAreConsistent
    <3> QED BY <3>1, <3>2
  <2> QED BY <1>2, <2>1, <2>2, <2>3 DEF MapsAreConsistent
<1>7. PublishersInv'
  <2> SUFFICES ASSUME NEW t \in Sessions, t \notin Known' PROVE publishers'[t] = {}
    BY DEF PublishersInv
  <2>1. t # s /\ t \notin Known
    BY <1>2
  <2> QED BY <1>2, <2>1 DEF IInv, PublishersInv
<1>8. SoundInv'
  <2> SUFFICES ASSUME NEW t \in Known'
               PROVE  Sound(sessions'[t], t, sessions'[t].session.provider)
    BY DEF SoundInv
  <2>1. CASE t = s
    BY <1>1, <1>2, <1>3, <2>1
  <2>2. CASE t # s
    <3>1. t \in Known /\ sessions'[t] = sessions[t]
      BY <1>2, <2>2
    <3> QED BY <3>1 DEF IInv, SoundInv
  <2> QED BY <2>1, <2>2
<1>9. LiveInv'
  <2> SUFFICES ASSUME NEW c \in ChannelIds, NEW t \in Known', c \in subscriptions'[t],
                      ~views'[c][t].missed
               PROVE  Current(c, views'[c][t], sessions'[t], sessions'[t].session.provider)
    BY DEF LiveInv, IsSubscribed
  <2>1. c \in subscriptions[t]
    BY <1>2
  <2>2. CASE t # s
    <3>1. t \in Known /\ t \in Sessions /\ sessions'[t] = sessions[t]
      BY <1>2, <1>4, <2>2
    <3>2. views'[c][t] = views[c][t]
      BY <2>2, <3>1, EventViews DEF s
    <3> QED BY <2>1, <3>1, <3>2 DEF IInv, LiveInv, IsSubscribed
  <2>3. CASE t = s
    <3>1. s \in Known
      BY <1>1, <2>1, <2>3
    <3>2. PICK a : a = sessions[s]
      OBVIOUS
    <3>3. PICK v : v = views[c][s]
      OBVIOUS
    <3>4. PICK w : w = views'[c][s]
      OBVIOUS
    <3>5. PICK k \in {"All", "EventOnly", "Nothing"} :
            Answered(c, v, w, e,
                     ChannelEventRoute(ProviderDescriptor(p), ChannelDescriptor(c), e),
                     k, Apply(a, e).session)
      BY <1>1, <2>1, <2>3, <3>1, <3>2, <3>3, <3>4, EventViews, ZenonT(20) DEF s
    <3>6. a.session.provider = p /\ Applies(a, e) /\ Reduced(e) = Apply(a, e)
          /\ LastSequence(Reduced(e)) = LastSequence(a) + 1
      BY <1>1, <3>1, <3>2, ZenonT(20)
    <3>7. Sound(a, s, p)
      BY <3>1, <3>2, <3>6, ZenonT(20) DEF IInv, SoundInv
    <3>8. v \in Views
      BY <1>1, <1>4, <3>3
    <3>9. ~v.missed => Current(c, v, a, p)
      BY <2>1, <2>3, <3>1, <3>2, <3>3, <3>6 DEF IInv, LiveInv, IsSubscribed
    <3>10. Apply(a, e).last = e /\ e.sequence = LastSequence(a) + 1
      BY <1>1, <3>6 DEF LastSequence
    <3>11. ~w.missed
      BY <2>3, <3>4
    <3>12. Current(c, w, Apply(a, e), p)
      BY <3>5, <3>6, <3>7, <3>8, <3>9, <3>10, <3>11, CurrentFollows, ZenonT(20)
    <3> QED BY <1>2, <1>3, <2>3, <3>4, <3>6, <3>12
  <2> QED BY <2>2, <2>3
<1> QED BY <1>5, <1>6, <1>7, <1>8, <1>9 DEF IInv

-----------------------------------------------------------------------------
\* A view after the first n events of a page stays within the stream
\* (retained_event_page_after, deliver_session_sync).
LEMMA PageFollowed ==
  ASSUME Numbers, NEW a \in Aggregates, Contiguous(a), NEW base \in Nat, NEW max \in Nat,
         HasPage(a, base), NEW v \in Views, NEW n \in 0..Len(PageAfter(a, base, max))
  PROVE  LET page == PageAfter(a, base, max)
             f == FollowPage(v, base, page, n)
         IN  /\ f \in Views
             /\ f.cursor = IF n > 0 THEN base + n ELSE v.cursor
             /\ n = 0 => f = v
             /\ base + n \in 0..LastSequence(a)
             /\ Len(page) \in Nat
             /\ (IF page = <<>> THEN base ELSE page[Len(page)].sequence) = base + Len(page)
<1> DEFINE page == PageAfter(a, base, max)
           L == Len(page)
           N == LastSequence(a)
<1>1. /\ page \in Seq(Events) /\ N - base \in Nat
      /\ L = IF N - base < max THEN N - base ELSE max
      /\ \A i \in 1..L : page[i].sequence = base + i
  BY PageCut, Zenon
<1>2. N \in 1..MaxCounter
  BY EventFields DEF Aggregates, LastSequence
<1> HIDE DEF page, N
<1>3. L \in Nat
  BY <1>1
<1> HIDE DEF L
<1>4. n \in 0..L
  BY DEF L, page
<1>5. n \in Nat /\ n <= L
  BY <1>3, <1>4
<1>6. MaxCounter \in Nat
  BY AggregateAssumption
<1>7. N \in Nat /\ N <= MaxCounter
  BY <1>2, <1>6
<1>8. L <= N - base
  BY <1>1, <1>3, <1>7
<1>9. base + n \in 0..N /\ base + n \in 0..MaxCounter
  BY <1>1, <1>3, <1>5, <1>6, <1>7, <1>8
<1>10. \A i \in 1..n : page[i].sequence = base + i
  <2>1. \A i \in 1..n : i \in 1..L
    BY <1>3, <1>5
  <2> QED BY <1>1, <2>1
<1>11. LET f == FollowPage(v, base, page, n)
       IN  /\ f \in Views
           /\ f.cursor = IF n > 0 THEN base + n ELSE v.cursor
           /\ n = 0 => f = v
  BY <1>5, <1>9, <1>10, FollowPageFields, Zenon
<1>12. (IF page = <<>> THEN base ELSE page[L].sequence) = base + L
  <2>1. CASE page = <<>>
    BY <1>1, <2>1 DEF L
  <2>2. CASE page # <<>>
    <3>1. L \in 1..L
      BY <1>1, <1>3, <2>2 DEF L
    <3> QED BY <1>1, <2>2, <3>1
  <2> QED BY <2>1, <2>2
<1> QED BY <1>3, <1>9, <1>11, <1>12 DEF page, L, N

\* A Channel that is not live catches up: it follows the stream some way, or it becomes
\* live with nothing left to follow.
CatchUp(c, s) ==
  /\ c \in channels /\ s \in Known /\ c \notin subscriptions[s]
  /\ \E w \in Views :
       /\ views' = [views EXCEPT ![c][s] = w]
       /\ \/ /\ subscriptions' = [subscriptions EXCEPT ![s] = @ \cup {c}]
             /\ Current(c, w, sessions[s], sessions[s].session.provider)
          \/ /\ subscriptions' = subscriptions
             /\ w.cursor \in 0..LastSequence(sessions[s]) \/ w = views[c][s]
  /\ handoff' = {}
  /\ UNCHANGED <<providers, channels, sessions, publishers>>

\* A baseline makes a view that is at the end of the stream current.
LEMMA BaselineIsCurrent ==
  ASSUME NEW v \in Views, NEW c, NEW s, sessions[s] \in Aggregates,
         v.cursor = LastSequence(sessions[s])
  PROVE  /\ WithBaseline(v, c, s) \in Views
         /\ Current(c, WithBaseline(v, c, s), sessions[s], sessions[s].session.provider)
<1>1. LET b == WithBaseline(v, c, s)
      IN  /\ b \in Views
          /\ b.cursor = v.cursor
          /\ b.shown = {sessions[s].session}
          /\ b.pending = RoutedPending(c, s)
  BY BaselineFields
<1>2. RoutedPending(c, s)
        = Routed(ProviderDescriptor(sessions[s].session.provider), c, sessions[s].pending)
  BY DEF RoutedPending, Routed, ProviderOf
<1> QED BY <1>1, <1>2 DEF Current

\* subscribe catches up at once, with or without a baseline.
LEMMA SubscribeCatchesUp ==
  ASSUME IInv, NEW c \in ChannelIds, NEW s \in Known, Subscribe(c, s)
  PROVE  CatchUp(c, s)
<1> DEFINE N == LastSequence(sessions[s])
           started == [NoView EXCEPT !.cursor = N]
           w == IF "SESSION_VIEW" \in ChannelCaps[c] THEN WithBaseline(started, c, s)
                ELSE started
<1>1. sessions[s] \in Aggregates
  BY DEF IInv, TypeOK
<1>2. N \in 0..MaxCounter
  <2>1. N \in 1..MaxCounter
    BY <1>1, EventFields DEF Aggregates, LastSequence
  <2> QED BY <2>1, AggregateAssumption
<1> HIDE DEF N
<1>3. NoView \in Views /\ NoView.pending = {} /\ NoView.based = FALSE
  <2>1. 0 \in 0..MaxCounter
    BY AggregateAssumption
  <2> QED BY <2>1 DEF NoView, Views
<1>4. /\ started \in Views /\ started.cursor = N /\ started.pending = {}
      /\ started.based = FALSE
  <2> DEFINE C == 0..MaxCounter
  <2>1. N \in C /\ NoView \in [cursor : C, shown : SUBSET SessionSnapshot,
                              pending : SUBSET RoutedRequests,
                              based : BOOLEAN, missed : BOOLEAN]
    BY <1>2, <1>3 DEF Views
  <2> HIDE DEF C
  <2>2. /\ started \in [cursor : C, shown : SUBSET SessionSnapshot,
                        pending : SUBSET RoutedRequests, based : BOOLEAN, missed : BOOLEAN]
        /\ started.cursor = N /\ started.pending = NoView.pending
        /\ started.based = NoView.based
    BY <2>1
  <2> QED BY <1>3, <2>2 DEF Views, C
<1> HIDE DEF started
<1>5. w \in Views /\ Current(c, w, sessions[s], sessions[s].session.provider)
  <2>1. CASE "SESSION_VIEW" \in ChannelCaps[c]
    BY <1>1, <1>4, <2>1, BaselineIsCurrent DEF N
  <2>2. CASE "SESSION_VIEW" \notin ChannelCaps[c]
    BY <1>4, <2>2 DEF Current, N
  <2> QED BY <2>1, <2>2
<1>6. views' = [views EXCEPT ![c][s] = w]
      /\ subscriptions' = [subscriptions EXCEPT ![s] = @ \cup {c}]
  BY DEF Subscribe, started, N
<1>7. /\ c \in channels /\ c \notin subscriptions[s] /\ handoff' = {}
      /\ UNCHANGED <<providers, channels, sessions, publishers>>
  BY DEF Subscribe, IsSubscribed
<1> HIDE DEF w
<1> QED BY <1>5, <1>6, <1>7, Zenon DEF CatchUp

\* A cursor a Channel brings is a natural number, and so is the cursor a page starts from.
LEMMA CursorType ==
  ASSUME IInv, NEW c \in ChannelIds, NEW s \in Known, NEW after \in Cursors(c, s)
  PROVE  PageBase(sessions[s], after) \in Nat /\ views[c][s] \in Views
<1>1. views[c][s] \in Views
  BY DEF IInv, TypeOK, Known
<1>2. views[c][s].cursor \in 0..MaxCounter
  BY <1>1 DEF Views
<1>3. MaxCounter \in Nat
  BY AggregateAssumption
<1>4. \A n \in 0..MaxCounter : n \in Nat
  BY <1>3
<1>5. after \in Nat
  BY <1>2, <1>3, <1>4 DEF Cursors
<1> QED BY <1>1, <1>5 DEF PageBase

\* Each page of sync_session moves the Channel along the stream, whether the port takes all
\* of it or not, and the last one makes it live.
LEMMA SyncCatchesUp ==
  ASSUME Numbers, IInv, NEW c \in ChannelIds, NEW s \in Known, NEW max \in PageSizes,
         NEW after \in Cursors(c, s), SyncSession(c, s, after, max)
  PROVE  CatchUp(c, s)
<1>1. PICK a : a = sessions[s]
  OBVIOUS
<1>2. PICK base : base = PageBase(sessions[s], after)
  OBVIOUS
<1>3. PICK v : v = views[c][s]
  OBVIOUS
<1> DEFINE page == PageAfter(a, base, max)
           L == Len(page)
           N == LastSequence(a)
           u == [v EXCEPT !.cursor = base]
           through == IF page = <<>> THEN base ELSE page[Len(page)].sequence
           final == through = N
           followed == FollowPage(u, base, page, L)
<1>4. /\ c \in channels /\ c \notin subscriptions[s] /\ handoff' = {}
      /\ HasPage(a, base)
      /\ UNCHANGED <<providers, channels, sessions, publishers>>
  BY <1>1, <1>2 DEF SyncSession, IsSubscribed
<1>5. \/ /\ views' = [views EXCEPT ![c][s] =
                        IF final THEN WithBaseline(followed, c, s) ELSE followed]
         /\ subscriptions' = IF final THEN [subscriptions EXCEPT ![s] = @ \cup {c}]
                             ELSE subscriptions
      \/ /\ \E taken \in 0..L :
              views' = [views EXCEPT ![c][s] = FollowPage(@, base, page, taken)]
         /\ subscriptions' = subscriptions
  BY <1>1, <1>2, <1>3 DEF SyncSession, IsFinalPage
<1>6. /\ a \in Aggregates /\ Contiguous(a) /\ base \in Nat /\ max \in Nat /\ v \in Views
      /\ views \in [ChannelIds -> [Sessions -> Views]] /\ s \in Sessions
  BY <1>1, <1>2, <1>3, CursorType, KnownIsSound, BridgeAssumption, ZenonT(20)
  DEF Sound, BridgeAssumption, IInv, TypeOK
<1>7. N \in 1..MaxCounter /\ N \in Nat
  BY <1>6, EventFields DEF Aggregates, LastSequence
<1>8. base \in 0..MaxCounter
  <2>1. base <= N
    BY <1>4 DEF HasPage
  <2>2. MaxCounter \in Nat
    BY AggregateAssumption
  <2> HIDE DEF N
  <2> QED BY <1>6, <1>7, <2>1, <2>2
<1>9. u \in Views /\ u.cursor = base
  <2> DEFINE C == 0..MaxCounter
  <2>1. base \in C /\ v \in [cursor : C, shown : SUBSET SessionSnapshot,
                             pending : SUBSET RoutedRequests,
                             based : BOOLEAN, missed : BOOLEAN]
    BY <1>6, <1>8 DEF Views
  <2> HIDE DEF C
  <2>2. /\ u \in [cursor : C, shown : SUBSET SessionSnapshot,
                  pending : SUBSET RoutedRequests, based : BOOLEAN, missed : BOOLEAN]
        /\ u.cursor = base
    BY <2>1
  <2> QED BY <2>2 DEF Views, C
<1> HIDE DEF u
<1>10. \A x \in Views : \A n \in 0..L :
         /\ FollowPage(x, base, page, n) \in Views
         /\ FollowPage(x, base, page, n).cursor = IF n > 0 THEN base + n ELSE x.cursor
         /\ n = 0 => FollowPage(x, base, page, n) = x
         /\ base + n \in 0..N
         /\ L \in Nat
         /\ through = base + L
  BY <1>4, <1>6, PageFollowed, Zenon
<1> HIDE DEF N, through
<1>11. L \in Nat
  <2>1. page \in Seq(Events)
    BY <1>4, <1>6, PageCut, Zenon
  <2> HIDE DEF page
  <2> QED BY <2>1
<1> HIDE DEF L, page
<1>12. L \in 0..L
  BY <1>11
<1>13. /\ followed \in Views /\ base + L \in 0..N /\ through = base + L
       /\ followed.cursor = IF L > 0 THEN base + L ELSE base
  BY <1>9, <1>10, <1>12 DEF L
<1>14. followed.cursor = base + L
  BY <1>6, <1>11, <1>13
<1> HIDE DEF followed
<1>15. CASE /\ final
            /\ views' = [views EXCEPT ![c][s] = WithBaseline(followed, c, s)]
            /\ subscriptions' = [subscriptions EXCEPT ![s] = @ \cup {c}]
  <2>1. /\ WithBaseline(followed, c, s) \in Views
        /\ Current(c, WithBaseline(followed, c, s), sessions[s],
                   sessions[s].session.provider)
    BY <1>1, <1>6, <1>13, <1>14, <1>15, BaselineIsCurrent DEF N
  <2> QED BY <1>4, <1>15, <2>1, Zenon DEF CatchUp
<1>16. CASE views' = [views EXCEPT ![c][s] = followed] /\ subscriptions' = subscriptions
  BY <1>1, <1>4, <1>13, <1>14, <1>16, Zenon DEF CatchUp, N
<1>17. CASE /\ \E taken \in 0..L :
                 views' = [views EXCEPT ![c][s] = FollowPage(@, base, page, taken)]
            /\ subscriptions' = subscriptions
  <2>1. PICK n \in 0..L :
          views' = [views EXCEPT ![c][s] = FollowPage(@, base, page, n)]
    BY <1>17, ZenonT(20)
  <2>2. PICK w : w = FollowPage(v, base, page, n)
    OBVIOUS
  <2>3. views' = [views EXCEPT ![c][s] = w]
    BY <1>3, <2>1, <2>2
  <2>4. /\ w \in Views /\ base + n \in 0..N
        /\ w.cursor = IF n > 0 THEN base + n ELSE v.cursor
        /\ n = 0 => w = v
    BY <1>6, <1>10, <2>2
  <2>5. w.cursor \in 0..N \/ w = views[c][s]
    <3>1. CASE n = 0
      BY <1>3, <2>4, <3>1
    <3>2. CASE n # 0
      <4>1. n > 0
        BY <1>11, <3>2
      <4> QED BY <2>4, <4>1
    <3> QED BY <3>1, <3>2
  <2> QED BY <1>1, <1>4, <1>17, <2>3, <2>4, <2>5, Zenon DEF CatchUp, N
<1> QED BY <1>5, <1>15, <1>16, <1>17 DEF followed

\* Catching up preserves the invariant.
LEMMA CatchUpInv ==
  ASSUME IInv, NEW c \in ChannelIds, NEW s \in Known, CatchUp(c, s)
  PROVE  IInv'
<1>1. PICK w \in Views :
        /\ views' = [views EXCEPT ![c][s] = w]
        /\ \/ /\ subscriptions' = [subscriptions EXCEPT ![s] = @ \cup {c}]
              /\ Current(c, w, sessions[s], sessions[s].session.provider)
           \/ subscriptions' = subscriptions
  BY Zenon DEF CatchUp
<1>2. /\ c \in channels /\ c \notin subscriptions[s] /\ handoff' = {}
      /\ providers' = providers /\ channels' = channels /\ sessions' = sessions
      /\ publishers' = publishers /\ Known' = Known
  BY DEF CatchUp, Known
<1>3. /\ s \in Sessions /\ subscriptions \in [Sessions -> SUBSET ChannelIds]
      /\ views \in [ChannelIds -> [Sessions -> Views]]
      /\ \A t \in Known : t \in Sessions
  BY DEF IInv, TypeOK, Known
<1>4. /\ views' \in [ChannelIds -> [Sessions -> Views]]
      /\ views'[c][s] = w
      /\ \A d \in ChannelIds, t \in Sessions :
           d # c \/ t # s => views'[d][t] = views[d][t]
  BY <1>1, <1>3
<1>5. /\ subscriptions' \in [Sessions -> SUBSET ChannelIds]
      /\ \A t \in Sessions : subscriptions'[t] \subseteq subscriptions[t] \cup {c}
      /\ \A t \in Sessions : t # s => subscriptions'[t] = subscriptions[t]
      /\ c \in subscriptions'[s] => Current(c, w, sessions[s], sessions[s].session.provider)
  BY <1>1, <1>2, <1>3
<1>6. TypeOK'
  <2>1. /\ providers \subseteq ProviderIds /\ channels \subseteq ChannelIds
        /\ Known \subseteq Sessions /\ \A t \in Known : sessions[t] \in Aggregates
        /\ publishers \in [Sessions -> SUBSET ProviderIds]
    BY DEF IInv, TypeOK, Known
  <2> QED BY <1>2, <1>4, <1>5, <2>1 DEF TypeOK, Known
<1>7. MapsAreConsistent'
  <2>1. \A t \in Sessions : subscriptions'[t] \subseteq channels'
    <3>1. \A t \in Sessions : subscriptions[t] \subseteq channels
      BY Zenon DEF IInv, MapsAreConsistent
    <3> QED BY <1>2, <1>5, <3>1
  <2>2. \A t \in Sessions : subscriptions'[t] # {} => t \in Known'
    BY <1>2, <1>5 DEF IInv, MapsAreConsistent
  <2>3. \A t \in Known' : /\ sessions'[t].session.id = t
                          /\ sessions'[t].last.session = t
                          /\ sessions'[t].session.provider \in providers'
                          /\ publishers'[t] = {sessions'[t].session.provider}
    BY <1>2 DEF IInv, MapsAreConsistent
  <2> QED BY <1>2, <2>1, <2>2, <2>3 DEF MapsAreConsistent
<1>8. PublishersInv' /\ SoundInv'
  BY <1>2 DEF IInv, PublishersInv, SoundInv
<1>9. LiveInv'
  <2> SUFFICES ASSUME NEW d \in ChannelIds, NEW t \in Known, d \in subscriptions'[t],
                      ~views'[d][t].missed
               PROVE  Current(d, views'[d][t], sessions[t], sessions[t].session.provider)
    BY <1>2 DEF LiveInv, IsSubscribed
  <2>1. CASE d = c /\ t = s
    BY <1>4, <1>5, <2>1
  <2>2. CASE d # c \/ t # s
    <3>1. views'[d][t] = views[d][t]
      BY <1>3, <1>4, <2>2
    <3>2. d \in subscriptions[t]
      BY <1>1, <1>3, <2>2
    <3> QED BY <3>1, <3>2 DEF IInv, LiveInv, IsSubscribed
  <2> QED BY <2>1, <2>2
<1> QED BY <1>6, <1>7, <1>8, <1>9 DEF IInv

\* The other operations: they register, drop subscriptions, or hand something to the
\* Provider that owns a session.
Quiet ==
  /\ providers \subseteq providers' /\ providers' \subseteq ProviderIds
  /\ channels \subseteq channels' /\ channels' \subseteq ChannelIds
  /\ subscriptions' \in [Sessions -> SUBSET ChannelIds]
  /\ \A s \in Sessions : subscriptions'[s] \subseteq subscriptions[s]
  /\ handoff' \subseteq
       {[provider |-> sessions[s].session.provider, session |-> s] : s \in Known}
  /\ UNCHANGED <<sessions, views, publishers>>

\* They preserve the invariant.
LEMMA QuietInv ==
  ASSUME IInv, Quiet
  PROVE  IInv'
<1>1. /\ sessions' = sessions /\ views' = views /\ publishers' = publishers
      /\ Known' = Known
  BY DEF Quiet, Known
<1>2. \A s \in Known : s \in Sessions
  BY DEF IInv, TypeOK, Known
<1>3. \A h \in handoff' : /\ h.session \in Known
                          /\ h.provider = sessions[h.session].session.provider
                          /\ h \in [provider : ProviderIds, session : Sessions]
  <2> SUFFICES ASSUME NEW s \in Known
               PROVE  sessions[s].session.provider \in ProviderIds
    BY <1>2 DEF Quiet
  <2>1. sessions[s].session.provider \in providers
    BY Zenon DEF IInv, MapsAreConsistent
  <2>2. providers \subseteq ProviderIds
    BY Zenon DEF IInv, TypeOK
  <2> QED BY <2>1, <2>2
<1>4. TypeOK'
  BY <1>1, <1>3 DEF IInv, TypeOK, Quiet
<1>5. MapsAreConsistent'
  <2>1. \A s \in Sessions : subscriptions'[s] \subseteq channels'
    BY DEF Quiet, IInv, MapsAreConsistent
  <2>2. \A s \in Sessions : subscriptions'[s] # {} => s \in Known'
    BY <1>1 DEF Quiet, IInv, MapsAreConsistent
  <2>3. \A s \in Known : /\ sessions[s].session.id = s
                         /\ sessions[s].last.session = s
                         /\ sessions[s].session.provider \in providers'
                         /\ publishers[s] = {sessions[s].session.provider}
    BY DEF Quiet, IInv, MapsAreConsistent
  <2>4. \A h \in handoff' : publishers'[h.session] = {h.provider}
    BY <1>1, <1>3, <2>3
  <2> QED BY <1>1, <2>1, <2>2, <2>3, <2>4 DEF MapsAreConsistent
<1>6. PublishersInv' /\ SoundInv'
  BY <1>1 DEF IInv, PublishersInv, SoundInv
<1>7. LiveInv'
  BY <1>1, <1>2 DEF IInv, LiveInv, IsSubscribed, Quiet
<1> QED BY <1>4, <1>5, <1>6, <1>7 DEF IInv

\* Registering, leaving and answering are quiet (register_provider, register_channel,
\* unsubscribe, unsubscribe_channel, handle_interaction_response, handle_command).
LEMMA OthersAreQuiet ==
  ASSUME IInv,
         \/ \E p \in ProviderIds : RegisterProvider(p)
         \/ \E c \in ChannelIds : RegisterChannel(c)
         \/ \E c \in ChannelIds, s \in Known : Unsubscribe(c, s)
         \/ \E c \in ChannelIds : UnsubscribeChannel(c)
         \/ \E c \in ChannelIds, r \in Responses : HandleInteractionResponse(c, r)
         \/ \E c \in ChannelIds, k \in Commands : HandleCommand(c, k)
  PROVE  Quiet
<1>1. /\ providers \subseteq ProviderIds /\ channels \subseteq ChannelIds
      /\ subscriptions \in [Sessions -> SUBSET ChannelIds]
      /\ \A s \in Known : s \in Sessions
  BY DEF IInv, TypeOK, Known
<1>2. ASSUME NEW p \in ProviderIds, RegisterProvider(p) PROVE Quiet
  BY <1>1, <1>2 DEF RegisterProvider, Quiet
<1>3. ASSUME NEW c \in ChannelIds, RegisterChannel(c) PROVE Quiet
  BY <1>1, <1>3 DEF RegisterChannel, Quiet
<1>4. ASSUME NEW c \in ChannelIds, NEW s \in Known, Unsubscribe(c, s) PROVE Quiet
  <2>1. /\ subscriptions' \in [Sessions -> SUBSET ChannelIds]
        /\ \A t \in Sessions : subscriptions'[t] \subseteq subscriptions[t]
    BY <1>1, <1>4 DEF Unsubscribe
  <2> QED BY <1>1, <1>4, <2>1, Zenon DEF Unsubscribe, Quiet
<1>5. ASSUME NEW c \in ChannelIds, UnsubscribeChannel(c) PROVE Quiet
  <2>1. /\ subscriptions' \in [Sessions -> SUBSET ChannelIds]
        /\ \A t \in Sessions : subscriptions'[t] \subseteq subscriptions[t]
    BY <1>1, <1>5 DEF UnsubscribeChannel
  <2> QED BY <1>1, <1>5, <2>1 DEF UnsubscribeChannel, Quiet
<1>6. ASSUME NEW c \in ChannelIds, NEW r \in Responses, HandleInteractionResponse(c, r)
      PROVE  Quiet
  BY <1>1, <1>6, ZenonT(20) DEF HandleInteractionResponse, AcceptsResponse, MayAct, Quiet
<1>7. ASSUME NEW c \in ChannelIds, NEW k \in Commands, HandleCommand(c, k) PROVE Quiet
  BY <1>1, <1>7, ZenonT(20) DEF HandleCommand, MayAct, Quiet
<1> QED BY <1>2, <1>3, <1>4, <1>5, <1>6, <1>7

-----------------------------------------------------------------------------
\* The invariant holds initially: nothing is known yet.
LEMMA InitIInv == Init => IInv
<1> SUFFICES ASSUME Init PROVE IInv
  OBVIOUS
<1>1. Known = {} /\ handoff = {} /\ subscriptions = [s \in Sessions |-> {}]
      /\ publishers = [s \in Sessions |-> {}] /\ providers = {} /\ channels = {}
      /\ DOMAIN sessions = {}
  BY DEF Init, Known
<1>2. views \in [ChannelIds -> [Sessions -> Views]]
  <2>1. 0 \in 0..MaxCounter
    BY AggregateAssumption
  <2>2. NoView \in Views
    BY <2>1 DEF NoView, Views
  <2> QED BY <2>2 DEF Init
<1>3. TypeOK
  BY <1>1, <1>2 DEF TypeOK
<1> QED BY <1>1, <1>3 DEF IInv, MapsAreConsistent, PublishersInv, SoundInv, LiveInv

\* Every operation of the Bridge preserves it.
LEMMA NextIInv ==
  ASSUME Numbers, IInv, [Next]_vars
  PROVE  IInv'
<1>1. ASSUME NEW p \in ProviderIds, NEW e \in Events, HandleProviderEvent(p, e) PROVE IInv'
  BY <1>1, EventInv
<1>2. ASSUME NEW c \in ChannelIds, NEW s \in Known, NEW max \in PageSizes,
             NEW after \in Cursors(c, s), SyncSession(c, s, after, max)
      PROVE  IInv'
  BY <1>2, SyncCatchesUp, CatchUpInv
<1>3. ASSUME NEW c \in ChannelIds, NEW s \in Known, Subscribe(c, s) PROVE IInv'
  BY <1>3, SubscribeCatchesUp, CatchUpInv
<1>4. CASE UNCHANGED vars
  <2>1. TypeOK' /\ MapsAreConsistent'
    BY <1>4 DEF IInv, TypeOK, MapsAreConsistent, Known, vars
  <2>2. PublishersInv' /\ SoundInv'
    BY <1>4 DEF IInv, PublishersInv, SoundInv, Known, vars
  <2>3. LiveInv'
    BY <1>4 DEF IInv, LiveInv, IsSubscribed, Known, vars
  <2> QED BY <2>1, <2>2, <2>3 DEF IInv
<1>5. CASE Quiet
  BY <1>5, QuietInv
<1> QED BY <1>1, <1>2, <1>3, <1>4, <1>5, OthersAreQuiet DEF Next

\* The invariant says that what was accepted can be routed again.
LEMMA InvRoutable == IInv => AcceptedIsRoutable
<1> SUFFICES ASSUME IInv, NEW s \in Known
             PROVE  HasRoutes(s) /\ HasEventRoutes(s, sessions[s].recent)
  BY DEF AcceptedIsRoutable
<1>1. Sound(sessions[s], s, sessions[s].session.provider)
  BY DEF IInv, SoundInv
<1> QED BY <1>1 DEF Sound, HasRoutes, HasEventRoutes, ProviderOf

\* The invariant says that the views of live Channels are current.
LEMMA InvCurrent == IInv => LiveViewIsCurrent
<1> SUFFICES ASSUME IInv, NEW c \in ChannelIds, NEW s \in Known, IsSubscribed(c, s),
                    ~views[c][s].missed
             PROVE  /\ views[c][s].cursor = LastSequence(sessions[s])
                    /\ "SESSION_VIEW" \in ChannelCaps[c] =>
                         views[c][s].shown = {sessions[s].session}
                    /\ views[c][s].based => views[c][s].pending = RoutedPending(c, s)
  BY DEF LiveViewIsCurrent
<1>1. Current(c, views[c][s], sessions[s], sessions[s].session.provider)
  BY DEF IInv, LiveInv
<1>2. RoutedPending(c, s)
        = Routed(ProviderDescriptor(sessions[s].session.provider), c, sessions[s].pending)
  BY DEF RoutedPending, Routed, ProviderOf
<1> QED BY <1>1, <1>2 DEF Current

\* The invariant says that routes decide which answers are accepted.
LEMMA InvAnswerable == IInv => InteractiveIffAnswerable
<1> SUFFICES ASSUME IInv, NEW c \in ChannelIds, NEW s \in Known, IsSubscribed(c, s),
                    ~views[c][s].missed, NEW x \in views[c][s].pending,
                    NEW p \in Responses
             PROVE  /\ x.route = "ReadOnly" /\ p.session = s /\ p.request = x.request.id =>
                         ~AcceptsResponse(c, p)
                    /\ /\ x.route = "Interactive" /\ p.channel = c
                       /\ ValidateResponse(x.request, p)
                       => AcceptsResponse(c, p)
  BY DEF InteractiveIffAnswerable
<1> DEFINE provider == ProviderOf(s)
           channel == ChannelDescriptor(c)
<1>1. PICK r \in sessions[s].pending :
        x = [request |-> r, route |-> InteractionRoute(provider, channel, r)]
  <2>1. views[c][s].pending \subseteq
          Routed(ProviderDescriptor(sessions[s].session.provider), c, sessions[s].pending)
    BY Zenon DEF IInv, LiveInv, Current
  <2> QED BY <2>1, Zenon DEF Routed, ProviderOf
<1>2. x.request = r /\ x.route = InteractionRoute(provider, channel, r)
  BY <1>1
<1>3. /\ \A r2 \in sessions[s].pending : r2.id = r.id => r2 = r
      /\ HasInteractionRoute(provider, sessions[s].session, r)
      /\ sessions[s].session.id = s
  <2>1. Sound(sessions[s], s, sessions[s].session.provider)
    BY DEF IInv, SoundInv
  <2> QED BY <2>1, Zenon DEF Sound, ProviderOf
<1>4. c \in channels /\ sessions[s].session.provider \in providers
  BY Zenon DEF IInv, MapsAreConsistent, TypeOK, Known, IsSubscribed
<1>5. ASSUME x.route = "ReadOnly", p.session = s, p.request = r.id, AcceptsResponse(c, p)
      PROVE  FALSE
  <2>1. ValidateInteractionResponse(provider, channel, sessions[s].session, r, p)
    BY <1>3, <1>5, Zenon DEF AcceptsResponse
  <2>2. IsActionable(r)
    BY <2>1, Zenon DEF ValidateInteractionResponse, ValidateResponse, PayloadAnswers,
                IsActionable
  <2> QED BY <1>2, <1>5, <2>1, <2>2, ZenonT(20) DEF ValidateInteractionResponse, InteractionRoute
<1>6. ASSUME x.route = "Interactive", p.channel = c, ValidateResponse(r, p)
      PROVE  AcceptsResponse(c, p)
  <2>1. p.session = s /\ p.request = r.id
    BY <1>3, <1>6, ZenonT(20) DEF ValidateResponse, HasInteractionRoute
  <2>2. ValidateInteractionResponse(provider, channel, sessions[s].session, r, p)
    BY <1>2, <1>3, <1>6, <2>1, Zenon
    DEF ValidateInteractionResponse, InteractionRoute, HasInteractionRoute,
        ChannelDescriptor
  <2> QED BY <1>1, <1>4, <2>1, <2>2, ZenonT(20) DEF AcceptsResponse, MayAct
<1> QED BY <1>2, <1>5, <1>6

-----------------------------------------------------------------------------
\* The abstract feed's variables.
FeedLast == [s \in Sessions |-> IF s \in Known THEN LastSequence(sessions[s]) ELSE 0]
FeedCursor == [c \in ChannelIds |-> [s \in Sessions |-> views[c][s].cursor]]

\* An accepted event is the next one of its abstract stream, offered to every live Channel.
LEMMA EventPublishes ==
  ASSUME IInv, NEW p \in ProviderIds, NEW e \in Events, HandleProviderEvent(p, e)
  PROVE  Feed!Publish(e.session)
<1>1. PICK s : s = e.session
  OBVIOUS
<1>2. PICK N : N = FeedLast[s]
  OBVIOUS
<1>3. /\ s \in Sessions /\ N \in Nat /\ N < MaxCounter
      /\ LastSequence(Reduced(e)) = N + 1 /\ e.sequence = N + 1
  <2>1. s \in Sessions /\ Reduced(e).last = e
    BY <1>1, ReducedIsSound, Zenon
  <2>2. CASE s \in Known
    <3>1. /\ LastSequence(sessions[s]) \in Nat
          /\ LastSequence(sessions[s]) < MaxCounter
          /\ LastSequence(Reduced(e)) = LastSequence(sessions[s]) + 1
      BY <1>1, <2>2, ReducedIsSound
    <3>2. N = LastSequence(sessions[s])
      BY <1>2, <2>1, <2>2 DEF FeedLast
    <3> QED BY <2>1, <3>1, <3>2 DEF LastSequence
  <2>3. CASE s \notin Known
    <3>1. LastSequence(Reduced(e)) = 1
      BY <1>1, <2>3, ReducedIsSound
    <3>2. N = 0
      BY <1>2, <2>1, <2>3 DEF FeedLast
    <3> QED BY <2>1, <3>1, <3>2, AggregateAssumption DEF LastSequence
  <2> QED BY <2>2, <2>3
<1>4. FeedLast' = [FeedLast EXCEPT ![s] = @ + 1]
  <2>1. /\ Known' = Known \cup {s} /\ sessions'[s] = Reduced(e)
        /\ \A t \in Known : t # s => sessions'[t] = sessions[t]
    BY <1>1, EventEffect
  <2>2. FeedLast' = [t \in Sessions |-> IF t \in Known' THEN LastSequence(sessions'[t])
                                        ELSE 0]
    BY DEF FeedLast, LastSequence
  <2>3. \A t \in Sessions : FeedLast'[t] = IF t = s THEN N + 1 ELSE FeedLast[t]
    <3> SUFFICES ASSUME NEW t \in Sessions
                 PROVE  FeedLast'[t] = IF t = s THEN N + 1 ELSE FeedLast[t]
      OBVIOUS
    <3>1. CASE t = s
      BY <1>3, <2>1, <2>2, <3>1
    <3>2. CASE t # s
      <4>1. (t \in Known') <=> (t \in Known)
        BY <2>1, <3>2
      <4>2. CASE t \in Known
        BY <2>1, <2>2, <3>2, <4>1, <4>2 DEF FeedLast
      <4>3. CASE t \notin Known
        BY <2>2, <3>2, <4>1, <4>3 DEF FeedLast
      <4> QED BY <4>2, <4>3
    <3> QED BY <3>1, <3>2
  <2>4. FeedLast' = [t \in Sessions |-> FeedLast'[t]] /\ DOMAIN FeedLast = Sessions
    BY <2>2 DEF FeedLast
  <2> HIDE DEF FeedLast
  <2> QED BY <1>2, <1>3, <2>3, <2>4
<1>5. PICK k \in [subscriptions[s] -> {"All", "EventOnly", "Nothing"}] :
        \A c \in subscriptions[s] :
          /\ c \in ChannelIds
          /\ Answered(c, views[c][s], views'[c][s], e,
                      ChannelEventRoute(ProviderDescriptor(p), ChannelDescriptor(c), e),
                      k[c], Reduced(e).session)
  BY <1>1, EventViews, Zenon
<1>6. PICK took \in SUBSET subscriptions[s] :
        \A c \in subscriptions[s] : c \in took <=> k[c] # "Nothing"
  <2> WITNESS {c \in subscriptions[s] : k[c] # "Nothing"} \in SUBSET subscriptions[s]
  <2> QED OBVIOUS
<1>7. views \in [ChannelIds -> [Sessions -> Views]]
  BY DEF IInv, TypeOK
<1>8. FeedCursor' = [c \in ChannelIds |->
         IF c \in took /\ FeedCursor[c][s] = FeedLast[s]
         THEN [FeedCursor[c] EXCEPT ![s] = @ + 1] ELSE FeedCursor[c]]
  <2>1. \A c \in ChannelIds : [t \in Sessions |-> views'[c][t].cursor] =
          IF c \in took /\ FeedCursor[c][s] = N
          THEN [FeedCursor[c] EXCEPT ![s] = @ + 1] ELSE FeedCursor[c]
    <3> SUFFICES ASSUME NEW c \in ChannelIds
                 PROVE  [t \in Sessions |-> views'[c][t].cursor] =
                          IF c \in took /\ FeedCursor[c][s] = N
                          THEN [FeedCursor[c] EXCEPT ![s] = @ + 1] ELSE FeedCursor[c]
      BY Zenon
    <3>1. FeedCursor[c] = [t \in Sessions |-> views[c][t].cursor]
      BY DEF FeedCursor
    <3>2. \A t \in Sessions : t # s => views'[c][t] = views[c][t]
      BY <1>1, EventViews, Zenon
    <3>3. PICK m : m = views[c][s].cursor
      OBVIOUS
    <3>4. m \in Int
      <4>1. views[c][s] \in Views
        BY <1>3, <1>7
      <4>2. \A n \in 0..MaxCounter : n \in Int
        OBVIOUS
      <4> QED BY <3>3, <4>1, <4>2 DEF Views
    <3>5. views'[c][s].cursor = IF c \in took /\ m = N THEN m + 1 ELSE m
      <4>1. CASE c \notin subscriptions[s]
        <5>1. views'[c][s] = views[c][s]
          BY <1>1, <1>3, <4>1, EventViews, ZenonT(20)
        <5> QED BY <3>3, <4>1, <5>1
      <4>2. CASE c \in subscriptions[s]
        <5>1. views'[c][s].cursor = IF e.sequence = m + 1 /\ k[c] # "Nothing"
                                    THEN e.sequence ELSE m
          BY <1>5, <3>3, <4>2, ZenonT(20) DEF Answered
        <5>2. (e.sequence = m + 1) <=> (m = N)
          BY <1>3, <3>4
        <5>3. CASE c \in took /\ m = N
          BY <1>3, <1>6, <4>2, <5>1, <5>2, <5>3
        <5>4. CASE ~(c \in took /\ m = N)
          BY <1>6, <4>2, <5>1, <5>2, <5>4
        <5> QED BY <5>3, <5>4
      <4> QED BY <4>1, <4>2, Zenon
    <3>6. FeedCursor[c][s] = m
      BY <1>3, <3>1, <3>3
    <3>7. CASE c \in took /\ m = N
      <4>1. [FeedCursor[c] EXCEPT ![s] = @ + 1]
              = [t \in Sessions |-> IF t = s THEN m + 1 ELSE views[c][t].cursor]
        BY <1>3, <3>1, <3>3
      <4>2. \A t \in Sessions :
              views'[c][t].cursor = IF t = s THEN m + 1 ELSE views[c][t].cursor
        BY <3>2, <3>5, <3>7
      <4> QED BY <3>6, <3>7, <4>1, <4>2
    <3>8. CASE ~(c \in took /\ m = N)
      <4>1. \A t \in Sessions : views'[c][t].cursor = views[c][t].cursor
        BY <3>2, <3>3, <3>5, <3>8
      <4> QED BY <3>1, <3>6, <3>8, <4>1
    <3> QED BY <3>7, <3>8, ZenonT(20)
  <2>2. FeedCursor' = [c \in ChannelIds |-> [t \in Sessions |-> views'[c][t].cursor]]
    BY DEF FeedCursor
  <2> HIDE DEF FeedCursor
  <2> QED BY <1>2, <2>1, <2>2
<1>9. subscriptions' = subscriptions
  BY EventEffect
<1>10. FeedLast[s] < MaxCounter
  BY <1>2, <1>3
<1>11. \E x \in SUBSET subscriptions[s] :
         FeedCursor' = [c \in ChannelIds |->
           IF c \in x /\ FeedCursor[c][s] = FeedLast[s]
           THEN [FeedCursor[c] EXCEPT ![s] = @ + 1] ELSE FeedCursor[c]]
  <2> HIDE DEF FeedCursor, FeedLast
  <2> QED BY <1>8, Zenon
<1>12. Feed!Publish(s)
  BY <1>4, <1>9, <1>10, <1>11, Zenon DEF Feed!Publish, FeedLast, FeedCursor
<1> QED BY <1>1, <1>12

\* A Channel that catches up replays part of the abstract stream, or joins at its end.
LEMMA CatchUpIsFeedStep ==
  ASSUME IInv, NEW c \in ChannelIds, NEW s \in Known, CatchUp(c, s)
  PROVE  Feed!Replay(c, s) \/ Feed!Join(c, s) \/ UNCHANGED Feed!vars
<1>1. PICK w \in Views :
        /\ views' = [views EXCEPT ![c][s] = w]
        /\ \/ /\ subscriptions' = [subscriptions EXCEPT ![s] = @ \cup {c}]
              /\ Current(c, w, sessions[s], sessions[s].session.provider)
           \/ /\ subscriptions' = subscriptions
              /\ w.cursor \in 0..LastSequence(sessions[s]) \/ w = views[c][s]
  BY Zenon DEF CatchUp
<1>2. /\ s \in Sessions /\ views \in [ChannelIds -> [Sessions -> Views]]
      /\ sessions[s] \in Aggregates
  BY DEF IInv, TypeOK, Known
<1>3. PICK m : m = w.cursor
  OBVIOUS
<1>4. FeedCursor' = [FeedCursor EXCEPT ![c][s] = m]
  <2>1. FeedCursor' = [d \in ChannelIds |-> [t \in Sessions |-> views'[d][t].cursor]]
    BY DEF FeedCursor
  <2>2. \A d \in ChannelIds : \A t \in Sessions :
          views'[d][t].cursor = IF d = c /\ t = s THEN m ELSE views[d][t].cursor
    BY <1>1, <1>2, <1>3
  <2>3. \A d \in ChannelIds :
          [t \in Sessions |-> views'[d][t].cursor]
            = IF d = c THEN [FeedCursor[c] EXCEPT ![s] = m] ELSE FeedCursor[d]
    <3>1. \A d \in ChannelIds : FeedCursor[d] = [t \in Sessions |-> views[d][t].cursor]
      BY DEF FeedCursor
    <3> HIDE DEF FeedCursor
    <3> SUFFICES ASSUME NEW d \in ChannelIds
                 PROVE  [t \in Sessions |-> views'[d][t].cursor]
                          = IF d = c THEN [FeedCursor[c] EXCEPT ![s] = m] ELSE FeedCursor[d]
      OBVIOUS
    <3>2. CASE d = c
      <4>1. [FeedCursor[c] EXCEPT ![s] = m]
              = [t \in Sessions |-> IF t = s THEN m ELSE views[c][t].cursor]
        <5>1. FeedCursor[c] = [t \in Sessions |-> views[c][t].cursor] /\ s \in Sessions
          BY <1>2, <3>1, ZenonT(20)
        <5> QED BY <5>1
      <4> QED BY <2>2, <3>2, <4>1
    <3>3. CASE d # c
      BY <2>2, <3>1, <3>3
    <3> QED BY <3>2, <3>3
  <2>4. FeedCursor = [d \in ChannelIds |-> FeedCursor[d]]
    BY DEF FeedCursor
  <2> HIDE DEF FeedCursor
  <2> QED BY <2>1, <2>3, <2>4, ZenonT(20)
<1>5. FeedLast' = FeedLast
  BY DEF CatchUp, FeedLast, Known, LastSequence
<1>6. c \notin subscriptions[s]
  BY DEF CatchUp
<1>7. FeedLast[s] = LastSequence(sessions[s])
  BY <1>2 DEF FeedLast
<1>8. CASE subscriptions' = subscriptions /\ w.cursor \in 0..LastSequence(sessions[s])
  <2>1. m \in 0..FeedLast[s]
    BY <1>3, <1>7, <1>8
  <2>2. \E n \in 0..FeedLast[s] : FeedCursor' = [FeedCursor EXCEPT ![c][s] = n]
    BY <1>4, <2>1, Zenon
  <2>3. Feed!Replay(c, s)
    BY <1>5, <1>6, <1>8, <2>2, Zenon DEF Feed!Replay, FeedLast, FeedCursor
  <2> QED BY <2>3
<1>9. CASE subscriptions' = subscriptions /\ w = views[c][s]
  <2>1. views' = views
    BY <1>1, <1>2, <1>9
  <2>2. FeedCursor' = FeedCursor
    BY <2>1 DEF FeedCursor
  <2>3. UNCHANGED Feed!vars
    BY <1>5, <1>9, <2>2, Zenon DEF Feed!vars, FeedLast, FeedCursor
  <2> QED BY <2>3
<1>10. CASE /\ subscriptions' = [subscriptions EXCEPT ![s] = @ \cup {c}]
            /\ Current(c, w, sessions[s], sessions[s].session.provider)
  <2>1. m = FeedLast[s]
    BY <1>3, <1>7, <1>10, ZenonT(20) DEF Current
  <2>2. FeedLast[s] > 0
    <3>1. LastSequence(sessions[s]) \in 1..MaxCounter
      BY <1>2, EventFields DEF Aggregates, LastSequence
    <3> QED BY <1>7, <3>1
  <2>3. FeedCursor' = [FeedCursor EXCEPT ![c][s] = FeedLast[s]]
    BY <1>4, <2>1, Zenon
  <2>4. Feed!Join(c, s)
    BY <1>5, <1>6, <1>10, <2>2, <2>3, Zenon DEF Feed!Join, FeedLast, FeedCursor
  <2> QED BY <2>4
<1> QED BY <1>1, <1>8, <1>9, <1>10

\* Every step of the Bridge is a step of the feed or leaves it as it is.
LEMMA NextImplementsFeed ==
  ASSUME Numbers, IInv, [Next]_vars
  PROVE  [Feed!Next]_(Feed!vars)
<1>1. ASSUME NEW p \in ProviderIds, NEW e \in Events, HandleProviderEvent(p, e)
      PROVE  Feed!Next
  <2>1. Feed!Publish(e.session) /\ e.session \in Sessions
    BY <1>1, EventPublishes, EventFields
  <2> QED BY <2>1 DEF Feed!Next
<1>2. ASSUME NEW c \in ChannelIds, NEW s \in Known, CatchUp(c, s)
      PROVE  Feed!Next \/ UNCHANGED Feed!vars
  <2>1. s \in Sessions
    BY DEF IInv, TypeOK, Known
  <2>2. Feed!Replay(c, s) \/ Feed!Join(c, s) \/ UNCHANGED Feed!vars
    BY <1>2, CatchUpIsFeedStep
  <2> QED BY <2>1, <2>2 DEF Feed!Next
<1>3. ASSUME NEW c \in ChannelIds, NEW s \in Known, NEW max \in PageSizes,
             NEW after \in Cursors(c, s), SyncSession(c, s, after, max)
      PROVE  CatchUp(c, s)
  BY <1>3, SyncCatchesUp
<1>4. ASSUME NEW c \in ChannelIds, NEW s \in Known, Subscribe(c, s)
      PROVE  CatchUp(c, s)
  BY <1>4, SubscribeCatchesUp
<1>5. ASSUME sessions' = sessions, views' = views
      PROVE  FeedLast' = FeedLast /\ FeedCursor' = FeedCursor
  BY <1>5 DEF FeedLast, FeedCursor, Known, LastSequence
<1>6. ASSUME sessions' = sessions, views' = views, subscriptions' = subscriptions
      PROVE  UNCHANGED Feed!vars
  <2>1. FeedLast' = FeedLast /\ FeedCursor' = FeedCursor
    BY <1>5, <1>6
  <2> QED BY <1>6, <2>1, Zenon DEF Feed!vars, FeedLast, FeedCursor
<1>7. subscriptions \in [Sessions -> SUBSET ChannelIds]
  BY DEF IInv, TypeOK
<1>8. ASSUME NEW c \in ChannelIds, NEW left \in SUBSET Sessions,
             sessions' = sessions, views' = views,
             subscriptions' = [s \in Sessions |-> IF s \in left THEN subscriptions[s] \ {c}
                                                  ELSE subscriptions[s]]
      PROVE  Feed!Next
  <2>1. FeedLast' = FeedLast /\ FeedCursor' = FeedCursor
    BY <1>5, <1>8
  <2>2. Feed!Leave(c, left)
    BY <1>8, <2>1, Zenon DEF Feed!Leave, FeedLast, FeedCursor
  <2> QED BY <2>2 DEF Feed!Next
<1>9. ASSUME NEW c \in ChannelIds, NEW s \in Known, Unsubscribe(c, s)
      PROVE  Feed!Next
  <2>1. {s} \in SUBSET Sessions
    BY DEF IInv, TypeOK, Known
  <2>2. subscriptions' = [t \in Sessions |-> IF t \in {s} THEN subscriptions[t] \ {c}
                                             ELSE subscriptions[t]]
    BY <1>7, <1>9, <2>1, ZenonT(20) DEF Unsubscribe
  <2>3. sessions' = sessions /\ views' = views
    BY <1>9 DEF Unsubscribe
  <2> QED BY <1>8, <2>1, <2>2, <2>3, Zenon
<1>10. ASSUME NEW c \in ChannelIds, UnsubscribeChannel(c)
       PROVE  Feed!Next
  <2>1. subscriptions' = [t \in Sessions |-> IF t \in Sessions THEN subscriptions[t] \ {c}
                                             ELSE subscriptions[t]]
    BY <1>10 DEF UnsubscribeChannel
  <2>2. sessions' = sessions /\ views' = views /\ Sessions \in SUBSET Sessions
    BY <1>10 DEF UnsubscribeChannel
  <2> QED BY <1>8, <2>1, <2>2
<1>11. CASE \/ \E p \in ProviderIds : RegisterProvider(p)
            \/ \E c \in ChannelIds : RegisterChannel(c)
            \/ \E c \in ChannelIds, r \in Responses : HandleInteractionResponse(c, r)
            \/ \E c \in ChannelIds, k \in Commands : HandleCommand(c, k)
            \/ UNCHANGED vars
  <2>1. sessions' = sessions /\ views' = views /\ subscriptions' = subscriptions
    BY <1>11, Zenon DEF RegisterProvider, RegisterChannel, HandleInteractionResponse, HandleCommand,
                 vars
  <2> QED BY <1>6, <2>1
<1> HIDE DEF vars
<1> QED BY <1>1, <1>2, <1>3, <1>4, <1>9, <1>10, <1>11 DEF Next

\* The Bridge starts as the feed does.
LEMMA InitImplementsFeed == Init => Feed!Init
<1> SUFFICES ASSUME Init PROVE Feed!Init
  OBVIOUS
<1>1. Known = {} /\ subscriptions = [s \in Sessions |-> {}]
      /\ views = [c \in ChannelIds |-> [s \in Sessions |-> NoView]] /\ NoView.cursor = 0
  BY Zenon DEF Init, Known, NoView
<1>2. FeedLast = [s \in Sessions |-> 0]
  BY <1>1 DEF FeedLast
<1>3. FeedCursor = [c \in ChannelIds |-> [s \in Sessions |-> 0]]
  BY <1>1 DEF FeedCursor
<1> QED BY <1>1, <1>2, <1>3, Zenon DEF Feed!Init, FeedLast, FeedCursor

-----------------------------------------------------------------------------
\* The results that rest on the library's facts about numbers and finite sets: those on
\* the pages of a stream and on the number of its changes (SessionStream), and those on
\* the Bridge.  The library comes last, because the provers read all that comes before a
\* step.
Library == INSTANCE FiniteSetTheorems

\* The library's cardinality is the one of the models.
LEMMA SameCardinality == \A S : Library!Cardinality(S) = Cardinality(S)
BY DEF Library!Cardinality, Cardinality

\* Every set of naturals that is not empty has a least element.  This is what the
\* arguments by induction rest on: the least counterexample of a claim about the positions
\* of a sequence.
LEMMA LeastNatural ==
  ASSUME NEW T, T \subseteq Nat, T # {}
  PROVE  \E x \in T : \A y \in T : x <= y
<1>1. \E x \in T : \A y \in T : ~(<<y, x>> \in Library!OpToRel(<, Nat))
  BY Library!NatLessThanWellFounded, Library!WFMin, Zenon
<1>2. PICK x \in T : \A y \in T : ~(<<y, x>> \in Library!OpToRel(<, Nat))
  BY <1>1, Zenon
<1>3. \A y \in T : ~(y < x)
  BY <1>2 DEF Library!OpToRel
<1>4. \A m, n \in Nat : ~(m < n) => n <= m
  OBVIOUS
<1> QED
  BY <1>2, <1>3, <1>4

\* What the lemmas assumed of numbers.
LEMMA NumbersHold == Numbers
<1>1. WellOrdered
  <2>1. ASSUME NEW T \in SUBSET Nat, T # {} PROVE \E x \in T : \A y \in T : x <= y
    BY <2>1, LeastNatural
  <2> QED BY <2>1 DEF WellOrdered
<1>2. ASSUME NEW n \in Nat, NEW S \in SUBSET (1..n) PROVE Counts(S)
  <2>1. Library!IsFiniteSet(1..n)
    BY Library!FS_Interval
  <2>2. Library!IsFiniteSet(S)
    BY <2>1, Library!FS_Subset, Zenon
  <2>3. Library!Cardinality(S) \in Nat
    BY <2>2, Library!FS_CardinalityType
  <2>4. ASSUME NEW x, x \notin S
        PROVE  Library!Cardinality(S \cup {x}) = Library!Cardinality(S) + 1
    BY <2>2, <2>4, Library!FS_AddElement
  <2>5. Cardinality(S) \in Nat
    BY <2>3, SameCardinality, Zenon
  <2>6. ASSUME NEW x, x \notin S PROVE Cardinality(S \cup {x}) = Cardinality(S) + 1
    <3>1. Library!Cardinality(S \cup {x}) = Library!Cardinality(S) + 1
      BY <2>4, <2>6
    <3> QED BY <3>1, SameCardinality, Zenon
  <2> QED BY <2>5, <2>6 DEF Counts
<1>3. Cardinality({}) = 0
  BY Library!FS_EmptySet, SameCardinality
<1>4. Counting
  BY <1>2, <1>3 DEF Counting
<1> QED BY <1>1, <1>4 DEF Numbers

\* For every capacity and every cursor: a page is offered exactly when nothing between the
\* cursor and the window was dropped, and is the next part of the stream, so a Channel
\* that chains pages sees every event once (retained_event_page_after).
THEOREM PagesContinue == StreamSpec => []PagesContinueTheLog
<1>1. StreamInv => PagesContinueTheLog
  BY NumbersHold, PagesFollow
<1> QED BY StreamInvariant, <1>1, PTL

\* The incremental reducer computes, for every source and every number of events, what the
\* whole history says: newest state, connectivity, outcome, plan and progress, one revision
\* per snapshot change, and exactly the unfinished tool calls and unanswered requests of the
\* current run (apply, apply_tool_activity).
THEOREM ProjectionIsTheLogs == StreamSpec => []ProjectionMatchesLog
<1> DEFINE P == ProjectionMatchesLog /\ Initial \in SessionSnapshot
<1>1. StreamInv /\ P /\ [StreamNext]_streamVars => P'
  BY NumbersHold, NextProjection
<1>2. StreamInit => P
  BY NumbersHold, InitProjection
<1>3. P => ProjectionMatchesLog
  OBVIOUS
<1> HIDE DEF P
<1> QED BY <1>1, <1>2, <1>3, StreamInvariant, PTL DEF StreamSpec

\* In every reachable state the invariant holds.
THEOREM BridgeInvariant == Spec => []IInv
<1>1. IInv /\ [Next]_vars => IInv'
  BY NumbersHold, NextIInv
<1> QED BY <1>1, InitIInv, PTL DEF Spec

\* The maps of the Bridge refer to one another consistently and a session never changes
\* its Provider, so no lookup of handle_provider_event can fail after the reduction
\* (bridge.rs:1252-1254).
THEOREM MapsStayConsistent == Spec => []MapsAreConsistent
<1>1. IInv => MapsAreConsistent
  BY DEF IInv
<1> QED BY <1>1, BridgeInvariant, PTL

\* What the Bridge accepted it can route again, whatever became of the session since
\* (bridge.rs:953-985).
THEOREM AcceptedStaysRoutable == Spec => []AcceptedIsRoutable
BY BridgeInvariant, InvRoutable, PTL

\* Pages, baseline and live delivery join without a gap, for every window, page size and
\* interleaving of publications with a Channel that is catching up (sync_session,
\* subscribe, handle_provider_event).
THEOREM LiveViewsAreCurrent == Spec => []LiveViewIsCurrent
BY BridgeInvariant, InvCurrent, PTL

\* The route a request was shown with and the checks a response meets never disagree
\* (interaction_route, validate_interaction_response).
THEOREM RoutesDecideAnswers == Spec => []InteractiveIffAnswerable
BY BridgeInvariant, InvAnswerable, PTL

\* The Bridge implements the numbered streams: Channels join at the end of the stream, are
\* offered every event while live and get nothing else, for every window, page size and
\* set of Channels (SessionFeed; handle_provider_event, sync_session, subscribe).
THEOREM BridgeImplementsFeed == Spec => ImplementsFeed
<1>1. IInv /\ [Next]_vars => [Feed!Next]_(Feed!vars)
  BY NumbersHold, NextImplementsFeed
<1> QED BY <1>1, InitImplementsFeed, BridgeInvariant, PTL DEF Spec, ImplementsFeed, Feed!Spec
=============================================================================
