--------------------------- MODULE CodexApprovals ---------------------------
(***************************************************************************)
(* Approvals and forms of the Codex Provider, from the request of the App  *)
(* Server to its end (agentpulse-providers/codex: approval.rs, port.rs,    *)
(* the approval part of runtime.rs, the turn tracking of mapper.rs).       *)
(*                                                                         *)
(* Each connection to the App Server, a route, has a thread: the worker    *)
(* has the observer route, every desktop client a proxy route.  The phone's*)
(* answer comes on a third thread, inside the Bridge, through the port.    *)
(* They share ApprovalRuntimeState under its mutex, and the Bridge under   *)
(* another.  An action is what a thread does while it has one mutex, so    *)
(* `threads` says where each is between two of them.  Two mutexes are kept *)
(* over several steps and therefore visible here: a call of the port is    *)
(* inside the Bridge (`caller`), and process_resolved_notification keeps   *)
(* the approvals locked while it publishes (LockingPlaces).                *)
(*                                                                         *)
(* There is one Codex thread.  The App Server names a request by a         *)
(* RequestId that is fresh on this App Server, the Provider by an          *)
(* InteractionId that is fresh for ever.                                   *)
(***************************************************************************)
EXTENDS Naturals, Sequences, FiniteSets

CONSTANTS
  Ids,                   \* InteractionIds
  Proxies,               \* proxy routes
  MaxRequests,           \* bound on the requests of one App Server
  Forms,                 \* RequestIds of item/tool/requestUserInput requests
  MaxPendingApprovals,   \* MAX_PENDING_APPROVALS
  MaxTurns,              \* bound on the turns of one App Server
  MaxStarts,             \* bound on the starts of the source
  MaxInFlight            \* bound on the messages on their way on one route

Observer == "observer"
Routes == Proxies \cup {Observer}
NoId == "none"
RequestIds == 1..MaxRequests
Keys == Routes \X RequestIds

ASSUME ApprovalsAssumption ==
  /\ NoId \notin Ids /\ Observer \notin Proxies
  /\ MaxRequests \in Nat /\ MaxPendingApprovals \in Nat
  /\ MaxTurns \in Nat /\ MaxStarts \in Nat /\ MaxInFlight \in Nat

VARIABLES
  \* The App Server: external.
  server,     \* [turn, running, next]: the turn, the next RequestId
  requests,   \* [RequestIds -> [route, turn, by]]; by: "unasked", "open", or who
              \*   decided it: "desktop", "codex", "phone"
  inbox,      \* [Routes -> messages on their way to the Provider]
  \* ApprovalRuntimeState.
  status,     \* pending: [Ids -> PendingStatus, "none" when absent]
  info,       \* [Ids -> [route, req, turn, start]] of a PendingApproval; start 0
              \*   until the id is generated
  index,      \* by_request: [Keys -> Ids, or NoId]
  outbound,   \* requests with a response to be written: a set, their order is left
              \*   to chance, each goes to a request of its own
  \* The threads.
  threads,    \* [Routes -> [at, id, todo, msg]]
  wrote,      \* history: how often a response to the request was written
  \* CodexEventMapper: the turn it takes for active (0: none), the turns it has
  \* recorded as completed.
  active, completed,
  \* The Bridge and the host.
  told,       \* [Ids -> what the Bridge was told of the request]
  caller,     \* the request a response to which is inside the Bridge, or NoId
  source      \* [phase, start]: lifecycle of the source

appServer == <<server, requests, inbox>>
approvals == <<status, info, index, outbound>>
mapper == <<active, completed>>
vars == <<appServer, approvals, threads, wrote, mapper, told, caller, source>>

MessageKinds == {"none", "started", "request", "resolved", "item", "completed"}
Message(kind, q, t) == [kind |-> kind, req |-> q, turn |-> t]
NoMessage == Message("none", 0, 0)
Thread(at) == [at |-> at, id |-> NoId, todo |-> {}, msg |-> NoMessage]
At(r) == threads[r].at
Goto(r, at) == threads' = [threads EXCEPT ![r] = Thread(at)]
GotoWith(r, at, i) == threads' = [threads EXCEPT ![r] = [Thread(at) EXCEPT !.id = i]]
Done(r, i) == threads' = [threads EXCEPT ![r].todo = @ \ {i}]
Ends == {"new", "done", "abandoned"}
LockingPlaces == {"responding", "resolved elsewhere"}
ApprovalsFree == \A r \in Routes : At(r) \notin LockingPlaces
BridgeFree == caller = NoId
Ingress == source.phase = "running"
Up == source.phase # "stopped"

Init ==
  /\ server = [turn |-> 0, running |-> FALSE, next |-> 1]
  /\ requests = [q \in RequestIds |-> [route |-> Observer, turn |-> 0, by |-> "unasked"]]
  /\ inbox = [r \in Routes |-> <<>>]
  /\ status = [i \in Ids |-> "none"]
  /\ info = [i \in Ids |-> [route |-> Observer, req |-> 0, turn |-> 0, start |-> 0]]
  /\ index = [k \in Keys |-> NoId]
  /\ outbound = {}
  /\ threads = [r \in Routes |-> Thread("done")]
  /\ wrote = [i \in Ids |-> 0]
  /\ active = 0 /\ completed = {}
  /\ told = [i \in Ids |-> "never"]
  /\ caller = NoId
  /\ source = [phase |-> "stopped", start |-> 0]
-----------------------------------------------------------------------------
(* The App Server, as the Provider sees it *)

Connected(r) == Up /\ At(r) \notin Ends
Open(q) == Up /\ requests[q].by = "open"
HasRoom == \A r \in Routes : Len(inbox[r]) < MaxInFlight
Sent(r, m) == [inbox EXCEPT ![r] = Append(@, m)]
Broadcast(m) == [r \in Routes |-> IF Connected(r) THEN Append(inbox[r], m) ELSE inbox[r]]
provider == <<approvals, threads, wrote, mapper, told, caller, source>>

StartTurn ==
  /\ Up /\ ~server.running /\ HasRoom
  /\ server.turn < source.start * MaxTurns
  /\ server' = [server EXCEPT !.turn = @ + 1, !.running = TRUE]
  /\ inbox' = Broadcast(Message("started", 0, server.turn + 1))
  /\ UNCHANGED <<requests, provider>>

\* A request for approval or input is sent on one connection.
Ask(r) ==
  /\ server.running /\ Connected(r) /\ HasRoom
  /\ server.next \in RequestIds
  /\ requests' = [requests EXCEPT ![server.next] =
                    [route |-> r, turn |-> server.turn, by |-> "open"]]
  /\ server' = [server EXCEPT !.next = @ + 1]
  /\ inbox' = Sent(r, Message("request", server.next, server.turn))
  /\ UNCHANGED provider

\* The desktop's answer is the first, or Codex itself settles the request.
Decide(q, by) ==
  /\ Open(q)
  /\ by = "desktop" => requests[q].route # Observer
  /\ requests' = [requests EXCEPT ![q].by = by]
  /\ inbox' = Sent(requests[q].route, Message("resolved", q, requests[q].turn))
  /\ UNCHANGED <<server, provider>>

\* item/completed of an item that was interrupted: nobody decides the request.
FinishItem(q) ==
  /\ Open(q) /\ HasRoom
  /\ requests' = [requests EXCEPT ![q].by = "codex"]
  /\ inbox' = Broadcast(Message("item", q, requests[q].turn))
  /\ UNCHANGED <<server, provider>>

\* turn/completed, also after an interrupt.
CompleteTurn ==
  /\ Up /\ server.running /\ HasRoom
  /\ server' = [server EXCEPT !.running = FALSE]
  /\ requests' = [q \in RequestIds |->
                    IF Open(q) THEN [requests[q] EXCEPT !.by = "codex"] ELSE requests[q]]
  /\ inbox' = Broadcast(Message("completed", 0, server.turn))
  /\ UNCHANGED provider
-----------------------------------------------------------------------------
(* ApprovalRuntimeState *)

Key(i) == <<info[i].route, info[i].req>>
Pending == {i \in Ids : status[i] # "none"}

\* Mutant: a queued response stays in the queue when its request ends.
RemovedQueuedMutant(ids) ==
  /\ status' = [i \in Ids |-> IF i \in ids THEN "none" ELSE status[i]]
  /\ index' = [k \in Keys |-> IF index[k] \in ids THEN NoId ELSE index[k]]
  /\ UNCHANGED <<info, outbound>>

\* remove, resolve and close_matching take requests out of all three collections.
Removed(ids) ==
  /\ status' = [i \in Ids |-> IF i \in ids THEN "none" ELSE status[i]]
  /\ index' = [k \in Keys |-> IF index[k] \in ids THEN NoId ELSE index[k]]
  /\ outbound' = outbound \ ids
  /\ UNCHANGED info

\* Mutant: a request that has an answer may be answered again.
ClaimMutant(i) ==
  /\ caller = i
  /\ ApprovalsFree
  /\ IF status[i] # "none" /\ Cardinality(outbound) < MaxPendingApprovals
     THEN status' = [status EXCEPT ![i] = "queued"] /\ outbound' = outbound \cup {i}
     ELSE UNCHANGED <<status, outbound>>
  /\ caller' = NoId
  /\ UNCHANGED <<appServer, info, index, threads, wrote, mapper, told, source>>

\* CodexProviderPort::accept_interaction_response, claim: the first response is
\* queued, any other refused, and the call leaves the Bridge.
Claim(i) ==
  /\ caller = i
  /\ ApprovalsFree
  /\ IF status[i] = "awaiting" /\ Cardinality(outbound) < MaxPendingApprovals
     THEN status' = [status EXCEPT ![i] = "queued"] /\ outbound' = outbound \cup {i}
     ELSE UNCHANGED <<status, outbound>>
  /\ caller' = NoId
  /\ UNCHANGED <<appServer, info, index, threads, wrote, mapper, told, source>>

\* A Channel hands in a response to a request the Bridge has open.
Answer(i) ==
  /\ BridgeFree
  /\ told[i] = "open"
  /\ caller' = i
  /\ UNCHANGED <<appServer, approvals, threads, wrote, mapper, told, source>>
-----------------------------------------------------------------------------
(* What a failed frame or a failed write leads to *)

\* The worker closes everything; a proxy thread ends its connection, ...
FailThread(r) == Goto(r, "closing all")

\* ... but only warns when a frame could not be mirrored.
FailFrame(r) == Goto(r, IF r = Observer THEN "closing all" ELSE "loop")

\* Mutant: a request whose answer was written is left to be resolved.
CloseAllMutant(r) ==
  LET ids == {i \in Pending : (r = Observer \/ info[i].route = r) /\ status[i] # "sent"}
  IN  /\ At(r) = "closing all"
      /\ ApprovalsFree
      /\ Removed(ids)
      /\ threads' = [threads EXCEPT ![r] = [Thread("ending") EXCEPT !.todo = ids]]
      /\ UNCHANGED <<appServer, wrote, mapper, told, caller, source>>

\* close_all_approvals, and close_route at the end of run_proxy_connection.
CloseAll(r) ==
  LET ids == {i \in Pending : r = Observer \/ info[i].route = r}
  IN  /\ At(r) = "closing all"
      /\ ApprovalsFree
      /\ Removed(ids)
      /\ threads' = [threads EXCEPT ![r] = [Thread("ending") EXCEPT !.todo = ids]]
      /\ UNCHANGED <<appServer, wrote, mapper, told, caller, source>>

\* publish_closed for each; failures are ignored.
PublishEnding(r, i) ==
  /\ At(r) = "ending"
  /\ i \in threads[r].todo
  /\ BridgeFree
  /\ told' = IF Ingress /\ told[i] = "open" THEN [told EXCEPT ![i] = "cancelled"] ELSE told
  /\ Done(r, i)
  /\ UNCHANGED <<appServer, approvals, wrote, mapper, caller, source>>

\* The thread returns and its connection is closed.
Leave(r, at) ==
  /\ Goto(r, at)
  /\ inbox' = [inbox EXCEPT ![r] = <<>>]
  /\ UNCHANGED <<server, requests, approvals, wrote, mapper, told, caller, source>>

Ended(r) == At(r) = "ending" /\ threads[r].todo = {} /\ Leave(r, "done")

\* The connection breaks, the desktop client leaves, or the source is stopping.
LoseConnection(r) ==
  /\ At(r) = "loop"
  /\ FailThread(r)
  /\ UNCHANGED <<appServer, approvals, wrote, mapper, told, caller, source>>

\* flush_control_commands fails: run_worker disconnects the sessions and returns.
ControlFails == At(Observer) = "loop" /\ Leave(Observer, "abandoned")
-----------------------------------------------------------------------------
(* flush_approval_responses *)

\* pop_outbound_for.
Pop(r, i) ==
  /\ At(r) = "loop"
  /\ ApprovalsFree
  /\ i \in outbound /\ info[i].route = r
  /\ outbound' = outbound \ {i}
  /\ GotoWith(r, "writing", i)
  /\ UNCHANGED <<appServer, status, info, index, wrote, mapper, told, caller, source>>

\* write_text: the App Server takes it for the answer to the request that has this
\* RequestId on this connection now, if that is open.
Write(r) ==
  LET i == threads[r].id
      q == info[i].req
  IN  /\ At(r) = "writing"
      /\ wrote' = [wrote EXCEPT ![i] = @ + 1]
      /\ IF Open(q) /\ requests[q].route = r
         THEN /\ requests' = [requests EXCEPT ![q].by = "phone"]
              /\ inbox' = Sent(r, Message("resolved", q, requests[q].turn))
         ELSE UNCHANGED <<requests, inbox>>
      /\ GotoWith(r, "written", i)
      /\ UNCHANGED <<server, approvals, mapper, told, caller, source>>

WriteFails(r) ==
  /\ At(r) = "writing"
  /\ FailThread(r)
  /\ UNCHANGED <<appServer, approvals, wrote, mapper, told, caller, source>>

\* mark_sent.
MarkSent(r) ==
  LET i == threads[r].id
  IN  /\ At(r) = "written"
      /\ ApprovalsFree
      /\ IF status[i] = "queued"
         THEN status' = [status EXCEPT ![i] = "sent"] /\ Goto(r, "loop")
         ELSE FailThread(r) /\ UNCHANGED status
      /\ UNCHANGED <<appServer, info, index, outbound, wrote, mapper, told, caller, source>>
-----------------------------------------------------------------------------
(* process_live_frame and observe_proxy_server_text *)

Reads(r, kinds) ==
  /\ At(r) = "loop"
  /\ inbox[r] # <<>>
  /\ Head(inbox[r]).kind \in kinds
  /\ inbox' = [inbox EXCEPT ![r] = Tail(@)]
  /\ UNCHANGED <<server, requests>>

\* ensure_active_turn fails when another turn is active.
WrongTurn(t) == active \notin {0, t}

\* turn/started: a new turn is published, as StateChanged.
TurnStarted(r) ==
  LET t == Head(inbox[r]).turn
  IN  /\ Reads(r, {"started"})
      /\ IF t \in completed \/ t = active THEN UNCHANGED <<active, threads>>
         ELSE IF active # 0 THEN FailFrame(r) /\ UNCHANGED active
         ELSE /\ BridgeFree
              /\ active' = t
              /\ IF Ingress THEN UNCHANGED threads ELSE FailFrame(r)
      /\ UNCHANGED <<approvals, wrote, completed, told, caller, source>>

\* process_approval_request, as far as approval_context.
ApprovalContext(r) ==
  LET m == Head(inbox[r])
  IN  /\ Reads(r, {"request"})
      /\ IF WrongTurn(m.turn)
         THEN FailFrame(r) /\ UNCHANGED active
         ELSE /\ active' = m.turn
              /\ threads' = [threads EXCEPT ![r] = [Thread("preparing") EXCEPT !.msg = m]]
      /\ UNCHANGED <<approvals, wrote, completed, told, caller, source>>

\* prepare_approval or prepare_user_input cannot present the request.
PrepareFails(r) ==
  /\ At(r) = "preparing"
  /\ FailFrame(r)
  /\ UNCHANGED <<appServer, approvals, wrote, mapper, told, caller, source>>

\* register, of a request with a generated InteractionId.
Register(r, i) ==
  LET m == threads[r].msg
  IN  /\ At(r) = "preparing"
      /\ info[i].start = 0
      /\ ApprovalsFree
      /\ IF Cardinality(Pending) < MaxPendingApprovals /\ index[<<r, m.req>>] = NoId
         THEN /\ status' = [status EXCEPT ![i] = "awaiting"]
              /\ info' = [info EXCEPT ![i] = [route |-> r, req |-> m.req, turn |-> m.turn,
                                              start |-> source.start]]
              /\ index' = [index EXCEPT ![<<r, m.req>>] = i]
              /\ GotoWith(r, "registered", i)
         ELSE FailFrame(r) /\ UNCHANGED <<status, info, index>>
      /\ UNCHANGED <<appServer, outbound, wrote, mapper, told, caller, source>>

\* InteractionRequested is published.
PublishRequest(r) ==
  LET i == threads[r].id
  IN  /\ At(r) = "registered"
      /\ BridgeFree
      /\ IF Ingress
         THEN told' = [told EXCEPT ![i] = "open"] /\ Goto(r, "loop")
         ELSE GotoWith(r, "unpublished", i) /\ UNCHANGED told
      /\ UNCHANGED <<appServer, approvals, wrote, mapper, caller, source>>

\* It could not be: remove.
Remove(r) ==
  /\ At(r) = "unpublished"
  /\ ApprovalsFree
  /\ Removed({threads[r].id})
  /\ FailFrame(r)
  /\ UNCHANGED <<appServer, wrote, mapper, told, caller, source>>

\* Mutant: a claimed response counts as the one Codex resolved.
ResolveMutant(r) ==
  LET q == Head(inbox[r]).req
      i == index[<<r, q>>]
  IN  /\ Reads(r, {"resolved"})
      /\ ApprovalsFree
      /\ IF i = NoId THEN UNCHANGED <<approvals, threads>>
         ELSE /\ Removed({i})
              /\ GotoWith(r, IF status[i] \in {"queued", "sent"} /\ q \notin Forms
                             THEN "responding" ELSE "resolved elsewhere", i)
      /\ UNCHANGED <<wrote, mapper, told, caller, source>>

\* serverRequest/resolved: resolve finds the request by route and RequestId.  The
\* guard of the match keeps the approvals locked until the arm is done.
Resolve(r) ==
  LET q == Head(inbox[r]).req
      i == index[<<r, q>>]
  IN  /\ Reads(r, {"resolved"})
      /\ ApprovalsFree
      /\ IF i = NoId THEN UNCHANGED <<approvals, threads>>
         ELSE /\ Removed({i})
              /\ GotoWith(r, IF status[i] = "sent" /\ q \notin Forms
                             THEN "responding" ELSE "resolved elsewhere", i)
      /\ UNCHANGED <<wrote, mapper, told, caller, source>>

\* InteractionResponded for an approval that was answered from here, and
\* InteractionClosed otherwise.
PublishResolved(r) ==
  LET i == threads[r].id
      event == IF At(r) = "responding" THEN "responded" ELSE "elsewhere"
  IN  /\ At(r) \in LockingPlaces
      /\ BridgeFree
      /\ IF Ingress /\ told[i] = "open"
         THEN told' = [told EXCEPT ![i] = event] /\ Goto(r, "loop")
         ELSE FailFrame(r) /\ UNCHANGED told
      /\ UNCHANGED <<appServer, approvals, wrote, mapper, caller, source>>

\* The requests of close_item and close_turn.  Items and turns have different names
\* on every App Server.
EndsWith(i, m) ==
  /\ info[i].start = source.start
  /\ IF m.kind = "item" THEN info[i].req = m.req ELSE info[i].turn = m.turn

\* close_approvals_for_lifecycle.
CloseForLifecycle(r) ==
  LET m == Head(inbox[r])
      ids == {i \in Pending : EndsWith(i, m)}
  IN  /\ Reads(r, {"item", "completed"})
      /\ ApprovalsFree
      /\ Removed(ids)
      /\ threads' = [threads EXCEPT ![r] =
                       [at |-> "closing", id |-> NoId, todo |-> ids, msg |-> m]]
      /\ UNCHANGED <<wrote, mapper, told, caller, source>>

\* publish_closed for each; the first failure ends the frame.
PublishClosed(r, i) ==
  /\ At(r) = "closing"
  /\ i \in threads[r].todo
  /\ BridgeFree
  /\ IF Ingress /\ told[i] = "open"
     THEN /\ told' = [told EXCEPT ![i] = "cancelled"]
          /\ Done(r, i)
     ELSE FailFrame(r) /\ UNCHANGED told
  /\ UNCHANGED <<appServer, approvals, wrote, mapper, caller, source>>

\* Then CodexEventMapper::notification.  item/completed:
NotifyItem(r) ==
  LET t == threads[r].msg.turn
  IN  /\ At(r) = "closing"
      /\ threads[r].todo = {}
      /\ threads[r].msg.kind = "item"
      /\ IF t \notin completed /\ WrongTurn(t)
         THEN FailFrame(r) /\ UNCHANGED active
         ELSE Goto(r, "loop") /\ active' = IF t \in completed THEN active ELSE t
      /\ UNCHANGED <<appServer, approvals, wrote, completed, told, caller, source>>

\* turn/completed.  SessionEnded ends every request the Bridge has open; a turn that
\* proposed a plan does not end the session.
NotifyTurn(r, plan) ==
  LET t == threads[r].msg.turn
  IN  /\ At(r) = "closing"
      /\ threads[r].todo = {}
      /\ threads[r].msg.kind = "completed"
      /\ IF t \in completed THEN Goto(r, "loop") /\ UNCHANGED <<mapper, told>>
         ELSE IF WrongTurn(t) THEN FailFrame(r) /\ UNCHANGED <<mapper, told>>
         ELSE /\ BridgeFree
              /\ IF Ingress
                 THEN /\ active' = 0 /\ completed' = completed \cup {t}
                      /\ told' = [i \in Ids |-> IF told[i] = "open" /\ ~plan
                                                THEN "ended" ELSE told[i]]
                      /\ Goto(r, "loop")
                 ELSE active' = t /\ FailFrame(r) /\ UNCHANGED <<completed, told>>
      /\ UNCHANGED <<appServer, approvals, wrote, caller, source>>
-----------------------------------------------------------------------------
(* The source and the host *)

\* CodexProviderSource::start, on a new App Server that resumes the thread.
Start ==
  /\ source.phase = "stopped" /\ source.start < MaxStarts
  /\ source' = [phase |-> "running", start |-> source.start + 1]
  /\ threads' = [r \in Routes |-> Thread(IF r = Observer THEN "loop" ELSE "new")]
  /\ server' = [server EXCEPT !.running = FALSE, !.next = 1]
  /\ requests' = [q \in RequestIds |-> [requests[q] EXCEPT !.by = "unasked"]]
  /\ inbox' = [r \in Routes |-> <<>>]
  /\ active' = 0
  /\ UNCHANGED <<approvals, wrote, completed, told, caller>>

\* run_client_proxy: a desktop client gets a route number of its own.
Accept(r) ==
  /\ source.phase = "running"
  /\ At(r) = "new"
  /\ Goto(r, "loop")
  /\ UNCHANGED <<appServer, approvals, wrote, mapper, told, caller, source>>

\* RuntimeHost::stop revokes the ingress and then stops the source; its threads
\* find the stop signal at the head of their loops (LoseConnection).
Stop ==
  /\ source.phase = "running"
  /\ source' = [source EXCEPT !.phase = "stopping"]
  /\ UNCHANGED <<appServer, approvals, threads, wrote, mapper, told, caller>>

\* stop_inner has joined them all.
Stopped ==
  /\ source.phase = "stopping"
  /\ \A r \in Routes : At(r) \in Ends
  /\ source' = [source EXCEPT !.phase = "stopped"]
  /\ UNCHANGED <<appServer, approvals, threads, wrote, mapper, told, caller>>

ServerStep ==
  \/ StartTurn \/ CompleteTurn
  \/ \E r \in Routes : Ask(r)
  \/ \E q \in RequestIds, by \in {"desktop", "codex"} : Decide(q, by)
  \/ \E q \in RequestIds : FinishItem(q)

ChannelStep == \E i \in Ids : Answer(i) \/ Claim(i)

FlushStep(r) ==
  \/ \E i \in Ids : Pop(r, i)
  \/ Write(r) \/ WriteFails(r) \/ MarkSent(r)

FrameStep(r) ==
  \/ TurnStarted(r) \/ ApprovalContext(r) \/ PrepareFails(r)
  \/ \E i \in Ids : Register(r, i)
  \/ PublishRequest(r) \/ Remove(r)
  \/ Resolve(r) \/ PublishResolved(r)
  \/ CloseForLifecycle(r)
  \/ \E i \in Ids : PublishClosed(r, i)
  \/ NotifyItem(r)
  \/ \E plan \in BOOLEAN : NotifyTurn(r, plan)

EndStep(r) ==
  \/ LoseConnection(r) \/ CloseAll(r)
  \/ \E i \in Ids : PublishEnding(r, i)
  \/ Ended(r)

HostStep ==
  \/ Start \/ Stop \/ Stopped \/ ControlFails
  \/ \E r \in Proxies : Accept(r)

Next ==
  \/ ServerStep \/ ChannelStep \/ HostStep
  \/ \E r \in Routes : FlushStep(r) \/ FrameStep(r) \/ EndStep(r)

Spec == Init /\ [][Next]_vars
-----------------------------------------------------------------------------
(* Properties *)

Statuses == {"none", "awaiting", "queued", "sent"}
Places == {"new", "loop", "writing", "written", "preparing", "registered", "unpublished",
           "responding", "resolved elsewhere", "closing", "closing all", "ending",
           "done", "abandoned"}
Phases == {"running", "stopping", "stopped"}
Messages == {m \in [kind : MessageKinds, req : Nat, turn : Nat] :
               m.kind \in {"request", "resolved"} => m.req \in RequestIds}
ThreadStates == [at : Places, id : Ids \cup {NoId}, todo : SUBSET Ids, msg : Messages]
Deciders == {"unasked", "open", "desktop", "codex", "phone"}
Tellings == {"never", "open", "responded", "elsewhere", "cancelled", "ended"}

\* The state of the Provider, and of the App Server as it sees it, has its types.
TypeOK ==
  /\ server \in [turn : Nat, running : BOOLEAN, next : Nat]
  /\ requests \in [RequestIds -> [route : Routes, turn : Nat, by : Deciders]]
  /\ inbox \in [Routes -> Seq(Messages)]
  /\ status \in [Ids -> Statuses]
  /\ info \in [Ids -> [route : Routes, req : Nat, turn : Nat, start : Nat]]
  /\ index \in [Keys -> Ids \cup {NoId}]
  /\ outbound \subseteq Ids
  /\ threads \in [Routes -> ThreadStates]
  /\ wrote \in [Ids -> Nat]
  /\ active \in Nat
  /\ told \in [Ids -> Tellings]
  /\ caller \in Ids \cup {NoId}
  /\ source \in [phase : Phases, start : Nat]

\* The answer of the phone to a request is written to Codex at most once, whatever
\* else happens to the request between claim, pop_outbound_for and mark_sent.
AnsweredOnce == \A i \in Ids : wrote[i] <= 1

ClaimIsKept(i) ==
  LET t == threads[info[i].route]
  IN  /\ i \in outbound => status[i] = "queued"
      /\ status[i] = "queued" =>
           \/ i \in outbound
           \/ t.at = "closing all"
           \/ t.at \in {"writing", "written"} /\ t.id = i

\* A claimed answer is in the queue, or in the hands of the thread of its route, or
\* that thread is about to close the request: it is not forgotten while the request
\* is pending, and nothing else is in the queue.
ClaimsAreKept == \A i \in Ids : ClaimIsKept(i)

\* by_request and pending name the same requests: resolve never finds "approval
\* request index was inconsistent", and no RequestId stays taken for a request that
\* has ended.
IndexAgrees ==
  \A k \in Keys, i \in Ids : index[k] = i <=> status[i] # "none" /\ Key(i) = k

\* InteractionResponded is only published for an answer that was written to Codex.
RespondedWasWritten == \A i \in Ids : told[i] = "responded" => wrote[i] = 1

\* A request does not outlive the connection it came on: none is pending on the route
\* of a desktop client that has left, nor on the observer route of a worker that has
\* closed all.
NothingOutlivesItsRoute ==
  \A i \in Ids : status[i] # "none" => At(info[i].route) \notin {"new", "done"}

\* A thread that holds the approvals and waits for the Bridge never meets a Channel
\* call that is inside the Bridge and waits for the approvals: "Keep the controls mutex
\* out of the command body.  Some commands publish events through the Bridge, while
\* another Bridge caller may concurrently be waiting", of process_resolved_notification.
NoLockCycle == ApprovalsFree \/ BridgeFree

\* "A restart restores neither pending interactions nor queued prompts": what is
\* pending was asked by the App Server that runs now.  This does not hold: with two starts
\* a worker that failed in flush_control_commands leaves its requests behind (README).
RestartIsClean ==
  Up => \A i \in Ids : status[i] # "none" => info[i].start = source.start
=============================================================================
