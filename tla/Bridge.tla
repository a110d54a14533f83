------------------------------- MODULE Bridge -------------------------------
(***************************************************************************)
(* The orchestration service (agentpulse-bridge/src/bridge.rs): registered *)
(* Providers and Channels, the session aggregates, and the subscriptions   *)
(* of Channels to sessions.  A Bridge is only reached under its lock       *)
(* (runtime.rs SharedBridge), so each of its operations is one action; an  *)
(* operation that returns an error before it changes anything is a         *)
(* stuttering step.                                                        *)
(*                                                                         *)
(* A Channel port may refuse any handoff.  `views` is what the accepted    *)
(* handoffs let a Channel know of each session; no Bridge code reads it.   *)
(*   cursor   the events 1..cursor were handed over in order               *)
(*   shown    {} or {the session snapshot handed over last}                *)
(*   pending  the requests it was shown, with the route of each            *)
(*   based    it was handed a baseline since it last subscribed            *)
(*   missed   it refused a handoff since it last entered live delivery     *)
(***************************************************************************)
EXTENDS SessionTypes

CONSTANTS
  ProviderCaps,   \* [Provider id -> the capabilities in its descriptor]
  ChannelCaps,    \* [Channel id -> the capabilities in its descriptor]
  PageSizes,      \* the `max_events` a Channel asks for
  Responses,      \* interaction responses Channels submit
  Commands        \* commands Channels submit

ProviderIds == DOMAIN ProviderCaps
ChannelIds == DOMAIN ChannelCaps

ASSUME BridgeAssumption ==
  /\ Providers \subseteq ProviderIds
  /\ PageSizes \subseteq Nat
  /\ \A c \in ChannelIds : ChannelCaps[c] \subseteq
       {"SESSION_VIEW", "APPROVAL", "CHOICE_INPUT", "TEXT_INPUT", "FORM_INPUT",
        "REMOTE_COMMAND"}

VARIABLES
  providers,      \* registered Provider identifiers
  channels,       \* registered Channel identifiers
  sessions,       \* [known session -> its aggregate]
  subscriptions,  \* [Sessions -> the Channels subscribed to it]
  views,          \* [ChannelIds -> [Sessions -> view]], see above
  publishers,     \* [Sessions -> the Providers whose events were applied to it]
  handoff         \* {} or {the Provider handoff the last step made}

vars == <<providers, channels, sessions, subscriptions, views, publishers, handoff>>

ProviderDescriptor(p) == [id |-> p, caps |-> ProviderCaps[p]]
ChannelDescriptor(c) == [id |-> c, caps |-> ChannelCaps[c]]
Known == DOMAIN sessions
IsSubscribed(c, s) == c \in subscriptions[s]
ProviderOf(s) == ProviderDescriptor(sessions[s].session.provider)

NoView == [cursor |-> 0, shown |-> {}, pending |-> {}, based |-> FALSE, missed |-> FALSE]

Init ==
  /\ providers = {}
  /\ channels = {}
  /\ sessions = [s \in {} |-> {}]
  /\ subscriptions = [s \in Sessions |-> {}]
  /\ views = [c \in ChannelIds |-> [s \in Sessions |-> NoView]]
  /\ publishers = [s \in Sessions |-> {}]
  /\ handoff = {}

\* Bridge::register_provider and register_channel.
RegisterProvider(p) ==
  /\ p \notin providers
  /\ providers' = providers \cup {p}
  /\ handoff' = {}
  /\ UNCHANGED <<channels, sessions, subscriptions, views, publishers>>

RegisterChannel(c) ==
  /\ c \notin channels
  /\ channels' = channels \cup {c}
  /\ handoff' = {}
  /\ UNCHANGED <<providers, sessions, subscriptions, views, publishers>>

-----------------------------------------------------------------------------
\* Mutant: the end of a run does not refresh the session view.
UpdatesSessionViewMutant(e) ==
  e.payload.kind \in {"SessionStarted", "StateChanged", "ConnectionChanged"}

\* event_updates_session_view.
UpdatesSessionView(e) ==
  e.payload.kind \in {"SessionStarted", "StateChanged", "ConnectionChanged", "SessionEnded"}

\* The session view accompanies the event (handle_provider_event).
DeliversSession(c, e) == "SESSION_VIEW" \in ChannelCaps[c] /\ UpdatesSessionView(e)

\* The requests a Channel has open after an event, as any observer of the stream
\* would count them.
ShownPending(pending, e, route) ==
  CASE e.payload.kind = "InteractionRequested" ->
         pending \cup {[request |-> e.payload.request, route |-> route]}
    [] e.payload.kind = "InteractionResponded" ->
         {x \in pending : x.request.id # e.payload.response.request}
    [] e.payload.kind = "InteractionClosed" ->
         {x \in pending : x.request.id # e.payload.interaction}
    [] e.payload.kind = "SessionEnded" -> {}
    [] OTHER -> pending

\* A Channel follows an event that is next in its order and ignores any other.
Follow(v, e, route) ==
  IF e.sequence = v.cursor + 1
  THEN [v EXCEPT !.cursor = e.sequence, !.pending = ShownPending(@, e, route)]
  ELSE v

\* What a Channel knows after it takes all of one event's handoffs, refuses the
\* session view after the event, or refuses the event; after a refused event the
\* session view is not offered.
Delivered(c, v, e, route, took, session) ==
  CASE took = "All" ->
         [Follow(v, e, route) EXCEPT
            !.shown = IF DeliversSession(c, e) THEN {session} ELSE @]
    [] took = "EventOnly" -> [Follow(v, e, route) EXCEPT !.missed = TRUE]
    [] took = "Nothing" -> [v EXCEPT !.missed = TRUE]

\* The session a new event is validated against: the stored one, or the one that
\* starts with the event.
RoutingSession(e) ==
  IF e.session \in Known THEN sessions[e.session].session ELSE e.payload.snapshot

\* The aggregate after an event: applied to the stored one, or started from it.
Reduced(e) ==
  IF e.session \in Known THEN Apply(sessions[e.session], e) ELSE FromInitialEvent(e)

\* Bridge::handle_provider_event: validate, reduce, then attempt every subscriber
\* whatever the others answered.
HandleProviderEvent(p, e) ==
  LET s == e.session
      aggregate == Reduced(e)
  IN  /\ p \in providers
      /\ s \notin Known => e.payload.kind = "SessionStarted"
      /\ ValidateProviderEvent(ProviderDescriptor(p), RoutingSession(e), e)
      /\ subscriptions[s] \subseteq channels
      /\ IF s \in Known THEN Applies(sessions[s], e) ELSE CanStart(e)
      /\ sessions' = [t \in Known \cup {s} |-> IF t = s THEN aggregate ELSE sessions[t]]
      /\ \E took \in [subscriptions[s] -> {"All", "EventOnly", "Nothing"}] :
           /\ \A c \in subscriptions[s] : took[c] = "EventOnly" => DeliversSession(c, e)
           /\ views' = [c \in ChannelIds |->
                IF c \notin subscriptions[s] THEN views[c]
                ELSE [views[c] EXCEPT ![s] =
                        Delivered(c, @, e,
                                  ChannelEventRoute(ProviderDescriptor(p), ChannelDescriptor(c), e),
                                  took[c], aggregate.session)]]
      /\ publishers' = [publishers EXCEPT ![s] = @ \cup {p}]
      /\ handoff' = {}
      /\ UNCHANGED <<providers, channels, subscriptions>>
-----------------------------------------------------------------------------
\* The pending requests of a session with the routes a baseline gives them.
RoutedPending(c, s) ==
  {[request |-> r, route |-> InteractionRoute(ProviderOf(s), ChannelDescriptor(c), r)] :
     r \in sessions[s].pending}

\* sync_session and subscribe give up when a pending request has no route.
HasRoutes(s) ==
  \A r \in sessions[s].pending :
    HasInteractionRoute(ProviderOf(s), sessions[s].session, r)

\* The route of every event of a page is computed anew against the current session.
HasEventRoutes(s, page) ==
  \A i \in 1..Len(page) :
    ValidateProviderEvent(ProviderOf(s), sessions[s].session, page[i])

\* The cursor a page starts from: the requested one, or 0 after a reset.
PageBase(a, after) == IF HasPage(a, after) THEN after ELSE 0

\* sync_session: the page reaches the last event.
IsFinalPage(a, through) == through = LastSequence(a)

\* What a Channel knows after the first n events of a page from `base`.
FollowPage(v, base, page, n) ==
  IF n > 0 /\ \A i \in 1..n : page[i].sequence = base + i
  THEN [v EXCEPT !.cursor = base + n] ELSE v

WithBaseline(v, c, s) ==
  [v EXCEPT !.shown = {sessions[s].session}, !.pending = RoutedPending(c, s),
            !.based = TRUE, !.missed = FALSE]

\* Bridge::sync_session of a Channel that is not subscribed: one page, and with the
\* page that reaches the last event also the baseline and the subscription.  The
\* port may take the first events of the page and refuse the rest
\* (ChannelPort::deliver_session_sync).
SyncSession(c, s, after, max) ==
  LET a == sessions[s]
      base == PageBase(a, after)
      page == PageAfter(a, base, max)
      through == IF page = <<>> THEN base ELSE page[Len(page)].sequence
      final == IsFinalPage(a, through)
      followed == FollowPage([views[c][s] EXCEPT !.cursor = base], base, page, Len(page))
  IN  /\ max > 0
      /\ c \in channels
      /\ s \in Known
      /\ ~IsSubscribed(c, s)
      /\ a.session.provider \in providers
      /\ HasPage(a, base)
      /\ HasEventRoutes(s, page)
      /\ final => HasRoutes(s)
      /\ \/ /\ views' = [views EXCEPT ![c][s] =
                           IF final THEN WithBaseline(followed, c, s) ELSE followed]
            /\ subscriptions' = IF final THEN [subscriptions EXCEPT ![s] = @ \cup {c}]
                                ELSE subscriptions
         \/ /\ \E taken \in 0..Len(page) :
                 views' = [views EXCEPT ![c][s] = FollowPage(@, base, page, taken)]
            /\ UNCHANGED subscriptions
      /\ handoff' = {}
      /\ UNCHANGED <<providers, channels, sessions, publishers>>

\* Bridge::subscribe of a Channel that is not subscribed and accepts the baseline;
\* without SESSION_VIEW it is told the baseline's sequence only, and knows neither a
\* snapshot nor a request of the session until an event brings one.
Subscribe(c, s) ==
  LET started == [NoView EXCEPT !.cursor = LastSequence(sessions[s])]
  IN  /\ c \in channels
      /\ s \in Known
      /\ ~IsSubscribed(c, s)
      /\ sessions[s].session.provider \in providers
      /\ HasRoutes(s)
      /\ views' = [views EXCEPT ![c][s] =
                     IF "SESSION_VIEW" \in ChannelCaps[c] THEN WithBaseline(started, c, s)
                     ELSE started]
      /\ subscriptions' = [subscriptions EXCEPT ![s] = @ \cup {c}]
      /\ handoff' = {}
      /\ UNCHANGED <<providers, channels, sessions, publishers>>

\* Bridge::unsubscribe.
Unsubscribe(c, s) ==
  /\ c \in channels
  /\ s \in Known
  /\ IsSubscribed(c, s)
  /\ subscriptions' = [subscriptions EXCEPT ![s] = @ \ {c}]
  /\ handoff' = {}
  /\ UNCHANGED <<providers, channels, sessions, views, publishers>>

\* Bridge::unsubscribe_channel.
UnsubscribeChannel(c) ==
  /\ c \in channels
  /\ subscriptions' = [s \in Sessions |-> subscriptions[s] \ {c}]
  /\ handoff' = {}
  /\ UNCHANGED <<providers, channels, sessions, views, publishers>>
-----------------------------------------------------------------------------
\* action_channel_descriptor and validate_action_subscription.
MayAct(c, s) == c \in channels /\ s \in Known /\ IsSubscribed(c, s)

\* The checks of handle_interaction_response.
AcceptsResponse(c, response) ==
  LET s == response.session
  IN  /\ MayAct(c, s)
      /\ sessions[s].session.provider \in providers
      /\ \E r \in sessions[s].pending :
           /\ r.id = response.request
           /\ ValidateInteractionResponse(ProviderOf(s), ChannelDescriptor(c),
                                          sessions[s].session, r, response)

\* Bridge::handle_interaction_response up to the Provider's own answer; the request
\* stays pending until the Provider publishes what became of it.
HandleInteractionResponse(c, response) ==
  /\ AcceptsResponse(c, response)
  /\ handoff' = {[provider |-> sessions[response.session].session.provider,
                  session |-> response.session]}
  /\ UNCHANGED <<providers, channels, sessions, subscriptions, views, publishers>>

\* Bridge::handle_command.
HandleCommand(c, command) ==
  LET s == command.session
  IN  /\ MayAct(c, s)
      /\ sessions[s].session.provider \in providers
      /\ ValidateCommand(ProviderOf(s), ChannelDescriptor(c), sessions[s].session, command)
      /\ handoff' = {[provider |-> sessions[s].session.provider, session |-> s]}
      /\ UNCHANGED <<providers, channels, sessions, subscriptions, views, publishers>>

\* A Channel resumes from its own cursor, asks for everything, or brings a cursor the
\* Bridge has not reached (of an earlier run of the host).
Cursors(c, s) == {0, views[c][s].cursor, MaxCounter + 1}

Next ==
  \/ \E p \in ProviderIds : RegisterProvider(p)
  \/ \E c \in ChannelIds : RegisterChannel(c)
  \/ \E p \in ProviderIds, e \in Events : HandleProviderEvent(p, e)
  \/ \E c \in ChannelIds, s \in Known, max \in PageSizes :
       \E after \in Cursors(c, s) : SyncSession(c, s, after, max)
  \/ \E c \in ChannelIds, s \in Known : Subscribe(c, s)
  \/ \E c \in ChannelIds, s \in Known : Unsubscribe(c, s)
  \/ \E c \in ChannelIds : UnsubscribeChannel(c)
  \/ \E c \in ChannelIds, r \in Responses : HandleInteractionResponse(c, r)
  \/ \E c \in ChannelIds, k \in Commands : HandleCommand(c, k)

Spec == Init /\ [][Next]_vars
-----------------------------------------------------------------------------
RoutedRequests ==
  [request : Requests, route : {"Interactive", "ReadOnly"}]

Views ==
  [cursor : 0..MaxCounter, shown : SUBSET SessionSnapshot,
   pending : SUBSET RoutedRequests, based : BOOLEAN, missed : BOOLEAN]

\* Every variable has its type.
TypeOK ==
  /\ providers \subseteq ProviderIds
  /\ channels \subseteq ChannelIds
  /\ DOMAIN sessions \subseteq Sessions
  /\ \A s \in Known : sessions[s] \in Aggregates
  /\ subscriptions \in [Sessions -> SUBSET ChannelIds]
  /\ views \in [ChannelIds -> [Sessions -> Views]]
  /\ publishers \in [Sessions -> SUBSET ProviderIds]
  /\ handoff \subseteq [provider : ProviderIds, session : Sessions]

\* The maps refer to one another consistently: subscriptions name registered Channels
\* and known sessions, sessions name registered Providers and are stored under their
\* own identifier.  So no lookup of handle_provider_event can fail after the
\* reduction, where its early return would lose the remaining deliveries
\* (bridge.rs:1252-1254).  Ownership never moves: no Provider but the one a session names
\* ever published for it, and responses and commands reach that one
\* (validate_provider_event).
MapsAreConsistent ==
  /\ \A s \in Sessions : subscriptions[s] \subseteq channels
  /\ \A s \in Sessions : subscriptions[s] # {} => s \in Known
  /\ \A s \in Known : /\ sessions[s].session.id = s
                      /\ sessions[s].last.session = s
                      /\ sessions[s].session.provider \in providers
                      /\ publishers[s] = {sessions[s].session.provider}
  /\ \A h \in handoff : publishers[h.session] = {h.provider}

\* What was accepted can be routed again: every retained event and every pending
\* request still passes the checks a later baseline or page makes, so a Channel is
\* never refused a subscription for events the Bridge accepted itself
\* (SubscriptionError::BaselineRoute, bridge.rs:953-985).
AcceptedIsRoutable ==
  \A s \in Known : HasRoutes(s) /\ HasEventRoutes(s, sessions[s].recent)

\* Pages, baseline and live delivery join without a gap: a subscribed Channel that
\* refused no handoff holds every event of the session, whatever was published while
\* it was catching up (sync_session, handle_provider_event), and has the current
\* snapshot, if it wants session views: no event kind that changes a snapshot is missing
\* from event_updates_session_view.  Since its baseline it shows exactly the pending
\* requests, each with the route the current descriptors give it: the route attached to a
\* live event and the one a baseline computes for the same request agree
\* (channel_event_route, interaction_route).
LiveViewIsCurrent ==
  \A c \in ChannelIds, s \in Known :
    IsSubscribed(c, s) /\ ~views[c][s].missed =>
      /\ views[c][s].cursor = LastSequence(sessions[s])
      /\ "SESSION_VIEW" \in ChannelCaps[c] => views[c][s].shown = {sessions[s].session}
      /\ views[c][s].based => views[c][s].pending = RoutedPending(c, s)

\* A Channel is shown a request as Interactive exactly when the Bridge would hand a
\* valid response of this Channel to the Provider: the decision made at delivery and
\* the revalidation at submission never disagree (interaction_route,
\* validate_interaction_response).
InteractiveIffAnswerable ==
  \A c \in ChannelIds, s \in Known :
    IsSubscribed(c, s) /\ ~views[c][s].missed =>
      \A x \in views[c][s].pending :
        /\ x.route = "ReadOnly" =>
             \A p \in Responses :
               p.session = s /\ p.request = x.request.id => ~AcceptsResponse(c, p)
        /\ x.route = "Interactive" =>
             \A p \in Responses :
               p.channel = c /\ ValidateResponse(x.request, p) => AcceptsResponse(c, p)

\* The Bridge implements the numbered streams of SessionFeed.
Feed == INSTANCE SessionFeed WITH
  Channels <- ChannelIds,
  MaxEvents <- MaxCounter,
  last <- [s \in Sessions |-> IF s \in Known THEN LastSequence(sessions[s]) ELSE 0],
  live <- subscriptions,
  cursor <- [c \in ChannelIds |-> [s \in Sessions |-> views[c][s].cursor]]

\* Every step of the Bridge is a step of the abstract feed: Channels join at the end of
\* the stream, are offered every event while live, and get nothing else.
ImplementsFeed == Feed!Spec
=============================================================================
