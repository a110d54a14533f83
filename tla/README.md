# A verification project for agentpulse-rs

AgentPulse connects AI coding agents (through *Providers*) with the people who
use them (through *Channels*). These TLA+ modules model the parts of the Rust
workspace in `src/` in which order, concurrency and failure decide whether the
program is right. TLC checks the models on small instances; TLAPS proves the
main safety properties of the core, the Bridge, its runtime host, the Native Channel, the
Codex approvals, the Relay and pairing for every value of the constants.

`PROJECT.json` lists the components, the runs, the source lines of every
definition, the mutants each property detects, the hazards and the theorems.

## The system and its parts

    agent -> Provider -> RuntimeHost { Bridge { SessionAggregate* } } -> Channel -> client

| Part | State | Operations | What makes it hard |
| --- | --- | --- | --- |
| core: aggregate | cursor, snapshot, open requests and tools, window of recent events | apply, replay, page | retries, gaps, conflicts, window limits, counter exhaustion |
| core: routing | none | five decisions | decided at delivery, decided again later |
| bridge: orchestration | endpoints, aggregates, subscriptions | register, publish, sync, subscribe, respond, command | replay meets live delivery; ports refuse handoffs |
| bridge: runtime host | lifecycle, permits, lock owner | register, start, stop, drop | revocation against calls in flight, failed stops |
| channel: native | delivery queue, pending subscription, connection | worker loop, port callbacks | two threads and two locks, overflow, reconnects, revocation |
| provider: codex approvals | pending requests, queued answers | register, claim, write, resolve, close | three parties end a request, answers in flight |
| provider: codex worker | prompt and command queues, turns in flight, forms | worker loop, control answers, desktop proxies | turns learned by polling, late notifications, failures between steps |
| provider: codex source | process group, threads, directory, health | start, stop | any call fails, a stop is retried, the worker fails meanwhile |
| pairing | identity, credentials, one-shot server | pair, issue, revoke, rotate | failure after a credential was issued, file lock |
| relay | waiting registrations, tunnels | register, rendezvous, stop | a registration taken, withdrawn or cleared between two locks |
| relay: Host connector | workers, ready routes, open sockets | follow the store, register, cancel | revocation and stop against workers that connect |
| transport | listener, socket | accept, read, send | which failure concerns a peer, which the Channel |
| protocol, platform, host CLI | little or none | conversion, input and output | not concurrency; see *Not modelled* |

A Provider's thread calls the Bridge through a handle. The Bridge reduces the
event and, in the same call and under the same lock, hands it to every subscribed
Channel port. A Channel's own worker calls the Bridge through another handle, for
discovery, subscription, responses and commands. `RuntimeHost` issues the handles
with a permit per start and revokes them at stop.

## Modules

| Module | Models |
| --- | --- |
| `Interactions` | requests, responses and their validation; capabilities (`interaction.rs`, `command.rs`) |
| `CapabilityRouter` | the routing policy (`routing.rs`) |
| `SessionAggregate` | the reducer, the window and replay pages (`aggregate.rs`, `session.rs`) |
| `SessionTypes` | the events a Provider can construct, the type of an aggregate |
| `SessionStream` | one aggregate under an arbitrary source |
| `SessionFeed` | abstract: what the Bridge promises about numbered streams |
| `Bridge` | the orchestration service (`bridge.rs`) |
| `RuntimeHost` | lifecycle of the adapters, permits, the Bridge lock and its owner (`runtime.rs` of the bridge) |
| `NativeTransport` | listeners, sockets and the hello of the Native Channel (`agentpulse-transport`, `native/src/protocol.rs`) |
| `NativeChannel` | worker, port and delivery state of the Native Channel, and the host as it sees it |
| `CodexApprovals` | approvals and forms of the Codex Provider: `approval.rs`, `port.rs`, the threads of `runtime.rs`, the turns of `mapper.rs` |
| `CodexControls` | what callers and worker share: commands, prompts, turns in flight, forms (`control.rs`, `local_interaction.rs`, `port.rs`) |
| `CodexMapper` | from frames to events: threads, turns, late frames, plans (`mapper.rs`) |
| `CodexSource` | start and stop, the App Server's process group, its directory and socket (`runtime.rs`, `runtime/transport.rs`) |
| `CodexWorker` | the worker loop and the desktop proxies, composed with the three above (`runtime.rs`, `runtime/local.rs`, `protocol.rs`) |
| `Relay` | the public Relay server: accept loop, workers, waiting registrations (`relay/src/server.rs`, `tunnel.rs`) |
| `CredentialStore` | device credentials (`pairing/src/store.rs`) |
| `RelayConnector` | the Host's supervisor and workers at the Relay, readiness, cancellation (`host/src/main.rs`, `relay/src/client.rs`) |
| `Pairing` | pairing sessions composed with the store and the connector (`pairing/src/server.rs`, `host/src/main.rs`) |
| `SessionStreamProofs`, `BridgeProofs`, `RuntimeHostProofs`, `NativeDeliveryProofs`, `NativeChannelProofs`, `CodexApprovalsProofs`, `RelayProofs`, `PairingProofs` | lemmas and theorems |
| `MC*` | instances for TLC |

**SessionStream.** `agg` is the aggregate, `log` a history variable of what was
applied. The source offers any event at any time. An event the code refuses leaves
the state alone, as `apply` does.

**Bridge.** Each operation is one action, because the Bridge is only reached under
its lock. A refused operation is a stuttering step. A port may refuse any handoff,
so fan-out chooses for each subscriber whether it took the event and the session
view. `views` records what the accepted handoffs let a Channel know. No action
reads `publishers` or `handoff`; guards read `views` only for the cursor a Channel
brings to `SyncSession`.

**RuntimeHost.** The host's thread walks through start, stop and drop one adapter at
a time; a source's thread uses any handle it was ever given. A call takes the permit
of its handle and then the Bridge and releases both when it returns; calls nest,
because a port may call its own handle, so each thread has a stack of calls. What a
Bridge operation does is reduced to the subscription it may change. `Callers` and
`Reentrant` say which adapters use their handle and whose port does.

**NativeChannel.** An action is what a thread does while holding a lock; `pc` says
where the worker is between locks. `owed` stands for the Bridge lock between an
event and the session view that follows it. The Bridge is reduced to the numbered
streams of `SessionFeed` with all events retained, which is how the host configures
it (`agentpulse-host/src/main.rs:531`). A round of the worker is the listener
(`LoopAccept`, `LoopServe`, `ListenerFails`), the authorization and `abort_reason`
(`LoopCheck`), the send loop, the timeouts and the ping, and one read. `NativeTransport`
says, for what arrives at the listener or at the socket, what the worker is told; the
worker drops the peer, disconnects, or ends, as the code does. `link.via` is the
transport, chosen once; a loopback connection behaves as a TLS one without a device.
Frames in flight may be lost: a client resumes with any cursor up to what it was sent.

**CodexApprovals.** The worker has the observer connection to the App Server and every
desktop client a connection of its own; each has a thread, and they share
`ApprovalRuntimeState` (`status`, `info`, `index`, `outbound`). The answer of the phone
arrives inside the Bridge (`caller`). An action is what a thread does under one lock, and
`threads` says where it is in between: an answer is popped, written and marked sent in
three steps, a request is registered and published in two. The App Server is external:
it starts and completes turns, asks, and settles a request once, for whoever is first.
`wrote` counts the answers written, `told` is what the Bridge was told of a request.
An answer that reaches the port has passed the Bridge's validation, so the option or the
fields it names exist. The queue of answers is a set: each goes to a request of its own.

**CodexWorker, CodexControls, CodexMapper, CodexSource.** `c` is `ControlRuntimeState`, `m` the
event mapper, each behind a mutex; every operator of `CodexControls` and `CodexMapper` is one
call under it. `w.at` is where the worker is between two uses of a mutex: `flush` to `read` and
back, with stops where a request was sent or a form is being shown, and where it goes through a
snapshot (`w.todo`) that callers may overtake. `pending` are the requests whose answer it has
not read. Desktop proxies bring the same turns over connections of their own (`inbox`), at
their own speed. The App Server is external: it answers requests or refuses them, starts,
goes on with and ends turns, makes plans, asks, finds threads, crashes. `source.phase` is where
the host's thread is in `start` or `stop`; each system call succeeds or fails (`ok`), and what
was acquired is released in the same order. A prompt is its number, which the history
(`sent`, `before` a start, `taken`) follows to the App Server; a form is its number, session and kind.

**Relay.** One thread per accepted connection; `at` says where it is between two uses of the
mutex. `lock` is held over a step only where the code writes to the peer under it (a
refusal). A client thread clones the sender of a registration (`claim`), checks the proof
without the mutex, and takes the registration if it is still there. Its stream then moves
through `channel` to the thread of the Host (`peer`). TLS, proofs and frames succeed or fail.

**Pairing, RelayConnector, CredentialStore.** The store changes in one step under its file
lock, whichever process does it. The Host follows it: the supervisor reads the routes
(`ReadRoutes`), then stops, reaps and starts workers (`ApplyRoutes`), and each worker goes
around dial, greet, announce, wait, pump. Back-off is only time, so a worker that failed is
at the top of its loop again. `serve` walks through the stop: flag, `cancelled`, sockets,
join. A session of `agentpulse pair` is a process of its own, and its token is named after
it because it issues at most one. It waits until the status of the Host (`reported`, a copy
of `ready` made by the admin loop) names its route. Direct pairing has no such barrier. The
Relay is external here: it may grant, refuse, lose or match a registration at any time.

## Runs

| Run | Instance | Checks |
| --- | --- | --- |
| `stream` | window 2, four events, two event times, 17 payloads | cursor, window, pages, projection |
| `bridge_feed` | one session, one Provider, two Channels, window 2, pages of 1 | a live Channel is current; refinement of `SessionFeed` |
| `bridge_routes` | two sessions, two Providers, one Channel, all retained | map consistency, ownership, routing decisions agree |
| `host` | a Provider and two Channels, one of them scoped to its generation, one with a port that re-enters; two starts | revocation, generations, clean stops, no wait in a circle |
| `native` | one session, three events, pages of 1, queue of 4, either transport | nothing lost, bounded queue, delivery, a revoked device is dropped |
| `native_replay` | as `native` | violated: see *Findings* |
| `codex_approvals` | two requests, one of them a form, the worker and one desktop client, one turn | answers kept and written once, nothing outlives its connection |
| `codex_deadlock` | one request | violated: see *Findings* |
| `codex_worker` | one configured thread, a second one found or started, one desktop; thirteen scenarios | prompts kept, sent once and served; forms answerable; late frames ignored; start and stop return; health is true |
| `codex_stuck` | one thread, two prompts, one desktop | violated: see *Findings* |
| `relay` | two Hosts with overlapping routes, two clients of one route, three threads | registrations disjoint and taken once, hand-over served, clean and certain end |
| `pairing` | a session, an earlier credential, two devices, room for one device and one worker | readiness is true, cancellation complete, revoked routes withdrawn, sessions and connector end |

*Bounds.* `MaxCounter` stands for `u64::MAX`, so its exhaustion is reached. A window
of 2 under a stream of 4 makes eviction and resets happen. Pages smaller than the
stream make events arrive between pages. In `native`, pages of 1, three events and a
queue of 4 let a subscription take several pages, let a reply fit or not, and let events
follow a dropped one out of the queue. One case needs more: a page that does not fit the
queue by itself (the refusal in `SyncPage`), which takes pages as large as the queue or a
second live session. The delivery part was also run with queues of 5 to 7, four and five
events, and two sessions, with the same results. Two starts are enough for a
handle to outlive its start in `host`. In `codex_approvals` two requests let one be closed
while the other is answered, on one connection or on two; `MaxInFlight` bounds the messages
on their way, two being enough for a resolution to be overtaken by the end of the turn. The
proofs cover restarts and larger values. `codex_worker` starts in one of thirteen scenarios (`MCScenarios`), each of which bounds what
the environment may do and leaves the order free: the phone's prompts, plans and commands on
the queue; prompts over a crash and a restart; the other commands with lists of two pages and
the model forms; the limit on forms; a steered turn; a desktop's turn between the phone's, read
at two speeds; two prompts and a desktop's turn, in which a prompt may be sent twice; approval
requests; the phone resuming a thread on which a desktop has a turn; a thread that is found, with a turn, a prompt or a change of
its status; and the calls of the host with two failures anywhere in them, a crash and another
Host at the directory. One command and two prompts reach `MAX_COMMANDS` and the prompt limits,
one form the limit on forms. In `relay` a second Host that names one route or
both makes registrations collide, two clients of one route race for it, and the limit is one
below the number of connections. In `pairing` the earlier credential belongs to the device
that pairs again or to another one, and room for one device and one worker reaches both limits.

*Deadlock* is checked in `stream` and the Bridge runs. It is not in `native`: once
all events are published and the listener has failed, the system may rest. In `host`
a dropped host rests; that no threads block one another is `NoWaitCycle`. The Codex runs
end when the bounds are used up, and `codex_deadlock` is about the one wait for ever. It is
checked in `relay`; in `pairing` a stopped Host whose sessions have ended rests.

*Fairness.* `NativeChannel`, `CodexWorker`, `Relay` and `Pairing` assume some. The Native
worker polls and never waits for the client, so it is weakly fair. The session view is delivered by the call that
delivers the event, so it is weakly fair too. No client has to connect and nothing
has to be published. Streams are bounded by `MaxEvents`, so the model does not show Providers
that refill the queue as fast as the worker's inner send loop empties it
(`native/src/runtime.rs:346-358`). In that loop the code looks at neither the credential nor
`abort_reason`. This concerns both liveness properties. `EventsAreDelivered` is about one event in
a queue that is first in, first out, so the events behind it do not matter. `RevokedIsDropped`
would fail without the bound, and says so: a revoked client is disconnected unless the worker stays
in the send loop for ever, or waits for ever for a Bridge that is always in use. The credential is
read anew at every check, as the pairing README says, but the check itself may be kept off.
`RuntimeHost` has no
liveness property: a Rust mutex is not fair, so that a stop completes does not follow. In
`CodexWorker` the worker, the proxies and the host's thread are weakly fair, because their
reads and waits have time limits. The one exception is the version probe of a start: on Unix
`verify_codex_version` waits for its process without a limit (`codex/src/runtime.rs:2658-2664`;
the Provider's README bounds only the Windows probe), so nothing is assumed of it, and
`CallsReturn` is about a start that has got the version. Fair is also an App Server that answers what it was asked and
ends its turns; a crash is never excluded. The worker of `CodexWorker` publishes without waiting
for the Bridge. With the wait of `codex_deadlock` the worker never ends and `stop` never joins it,
so `CallsReturn` holds of the program only once that cycle is gone. Nobody has to use the phone or the desktop. In
`Relay` the accept loop and every worker are weakly fair, since each read, write and wait has
a timeout; a tunnel need not end unless the stop flag is up. In `Pairing` the threads of the
Host are weakly fair, but a registration or a tunnel may last for ever unless it is recalled,
and the clock advances (`Expire`, `GiveUpReady`). No client has to come, and the person at
the terminal need not answer. In `Relay` the mutex is given to a waiting thread in the end
because every connection is used once.

## Findings

`codex_stuck`: the worker takes a turn that the phone started out of `inflight_turns` once it
has found the turn active in the mapper, and then not active. It looks once in a round
(`codex/src/runtime.rs:676`). With a desktop connected the proxy writes to the same mapper, so
the whole turn may pass between two looks. The worker then waits for a turn that is over, and
the prompts behind it are not sent until the Provider is restarted. The Provider's README
says that late mirrored events "are ignored, so they cannot reactivate it and block the next
queued prompt". There is a second way to the same state. An approval request that the proxy reads
after the worker read the completion of its turn reactivates the turn, because `approval_context`
and `ensure_active_turn` (`mapper.rs:853-894`) do not look at the completed turns. The completion on
the proxy's connection is then ignored as a duplicate, the turn stays active, and the next prompt
is not sent. The same configuration with `items = {"request"}` in `MCMirrored` ends there. The
answer to the phone's `/resume` can reactivate a turn likewise (`runtime.rs:1265-1275`,
`mapper.rs:250`). `LateFramesAreIgnored` is about notifications and excepts these two frames. Remembering the turn
identifier of the answer to `turn/start`, and asking the mapper whether it completed, would do.

`codex_deadlock`: `process_resolved_notification` matches on
`lock_approvals(approvals).resolve(..)` (`codex/src/runtime.rs:1759`). The guard lives to
the end of the match, so the arm publishes through the Bridge with the approvals locked. A
Channel thread that submits an answer has the Bridge and waits for the approvals. Both wait
for ever, and the Bridge with them. A comment at `runtime.rs:684` gives the rule for the
controls mutex. Bind the result of `resolve` before the match and the cycle is gone.

`native_replay`: `process_subscribe` lets the Bridge subscribe the Channel before it
queues its reply. If the reply does not fit (`native/src/runtime.rs:820`), the
connection ends, and `disconnect` unsubscribes only sessions that had been recorded
for the client. The Channel stays subscribed at the Bridge. The next client that
subscribes gets the early return of `Bridge::sync_session` (`bridge.rs:915-924`): no
page, no baseline, and a result saying it is subscribed through the last sequence.
The Channel's README says history is replayed before live delivery and that
disconnect removes the connection's subscriptions. `HoleMeansAbort`, `NothingLost`
and `EventsAreDelivered` except sessions attached this way, and nothing else.

### Remarks without a run

Two properties are stated in the modules and do not hold. They have no configuration of their own;
each is the run named here with one more property and the constants given:

- `RestartIsClean` (`CodexApprovals`; add it to `MCCodexApprovals.cfg` with `MaxStarts = 2`).
  `run_worker` closes all approvals at each of its exits but one, the failure of
  `flush_control_commands` (`runtime.rs:602`). The state outlives the source, so the requests of
  a dead App Server are pending after a restart, which the Provider's README excludes ("a
  restart restores neither pending interactions nor queued prompts"). A RequestId used again is
  then refused, and the worker fails. `NothingOutlivesItsRoute` therefore says nothing of a
  worker that left this way (`"abandoned"`).
- `DeliveredIsNotRevoked` (`Pairing`; add it to `MCPairing.cfg` with two tokens and one device).
  If the route of a new credential does not become ready within 30 seconds, the session revokes
  by client identifier (`pairing/src/server.rs:333`). When the device was paired again by a second
  session in the meantime, which also makes the first barrier fail, the credential removed is
  the one the second session handed out.

Other places where the code and a document differ:

- The Relay counts threads, not streams: a client in a tunnel has no thread, so it is not among the
  connections that are counted. The Relay's README gives a limit of "68 outer connections, including
  tunnel peers". In `relay`, with a limit of three, four streams are open at once.
- The queued prompts live in the controls that the source shares with its port, and a stop and a
  start in one process keep them. The Provider's README says that "a restart restores neither pending
  interactions nor queued prompts", which is true of a new process. `NoPromptLost` claims nothing
  about prompts older than the start.

Behaviour that the models show and no document excludes:

- A handle of `RuntimeHost` locks its permit before the re-entrancy check
  (`agentpulse-bridge/src/runtime.rs:823` and `:1155`), so a port that calls a handle in use waits
  for ever instead of being refused; no adapter of the repository does, and in `host` the
  re-entering Channel has no thread of its own.
- A queue that is cleared between `turn/start` and its answer makes the worker fail ("queued
  prompt changed", `codex/src/runtime.rs:1316`); `NoPromptLost` excepts cleared queues. Pause,
  clear and cancel take effect even when the command itself is refused because the queue is
  full. A cancel that arrives after the worker took its snapshot of the sessions does not keep
  the prompt from being sent. With a desktop connected, a turn the worker did not see
  may let a prompt be sent twice, which is why `OneStartAtATime` and `WaitingIsServed` are about a
  Provider without one. The second answer then takes the prompt behind out of the queue, unsent,
  and the worker fails at once (`runtime.rs:1315` pops before `:1316` compares); `NoPromptLost`
  excepts a worker that ended with a desktop connected.
- A credential stays stored when the directory cannot be synchronized after the file was replaced
  (`agentpulse-platform/src/lib.rs:132-134`): `issue_device` then reports a failure, and nothing is
  revoked. `FailedLeavesNothing` excepts it with the other failures of I/O.
- A stop between the claim of a form and its publication leaves the form open in the Bridge, so
  `OpenIsAnswerable` is about the first start.
- The TLS listener finishes a handshake inside `try_accept`, within its deadline; meanwhile the
  client that is served gets nothing.

## Proofs

Seven developments. Each rests on an inductive invariant, named after its module's `IInv`
(`StreamInv` in `SessionStreamProofs`, `ApprovalsInv` in `CodexApprovalsProofs`), and on the
assumptions its constants are declared with. No theorem mentions a bound of a run.

**SessionStream.** The theorems hold for every set of sessions, times and
payloads, every window capacity (zero and retain-all included) and every counter
limit. They assume `AggregateAssumption` and `PayloadAssumption`, which say that the
constants have the types the Rust constructors enforce.

The inductive invariant is

    StreamInv == StreamTypeOK /\ LogIsContiguous /\ WindowIsNewestSuffix /\ PendingIdsAreUnique

`WindowIsNewestSuffix` needs the types to reason about sequences, and
`PendingIdsAreUnique` needs the type of the pending set; contiguity needs
`agg.last` to be the end of the log. `ReduceLemma` says what one payload may change,
`WindowLemma` that appending keeps the window the newest suffix, and
`ObserveStateLemma`/`ObserveConnectionLemma` that snapshots do not go back.
The theorems `StreamTypeCorrect`, `StreamIsContiguous`, `WindowIsSuffix`, `PendingUnique` and
`SnapshotsNeverRegress` follow. `PagesContinue` (in `BridgeProofs`, which has the lemmas about
pages) is a consequence of the window being a contiguous suffix. `ProjectionIsTheLogs` is
inductive with `StreamInv`: the definitions over the log compare the newest event of a kind with
the ones before it, so an appended event changes them the way `Reduce` changes the aggregate.

**Bridge.** For any Providers, Channels, sessions, capabilities, page size and window.
`SoundInv` says of every stored aggregate that its window has no hole, that its identifiers and its
Provider are those it is stored under, and that every retained event and every pending request
passes the routing checks with the present snapshot. This is what `AcceptedIsRoutable` needs, since
the checks are made anew long after the event was accepted. `LiveInv` says that a subscribed Channel
that refused nothing has the cursor, the snapshot and only routes of pending requests, and all of
them once it had a baseline. `LiveViewIsCurrent` and `InteractiveIffAnswerable` follow.
`BridgeImplementsFeed` maps `last` to the sequence of an aggregate and the cursors to those of the
views: every action is a step of `SessionFeed` or leaves its variables alone.

**RuntimeHost.** For any adapters in any order of registration, any of which may be Channels,
callers or re-entrant, and any bound on the starts, under `HostAssumption`. `IngressIsOver` is
about calls that may be nested, so the invariant speaks of every frame of every stack:
`HoldsInv` says that a call past its permit has locked it, that no other call of the thread has
the same one, and that the permit is active. Since revocation needs the lock, no active permit is
taken from a call. `ActiveInv` says which adapters may have an active permit at each point of
start, stop and drop, so that none is left when the ingress is revoked; `TaskInv` where the host
is, and `CleanInv` what the sources it has passed, or not yet reached, have to release. Steps that
only concern calls go through `CallsIInv`, and each step of the lifecycle has a lemma.
`IngressIsOver` follows from `HoldsInv` and `ActiveInv`, `StoppedIsClean` from `CleanInv`, and
`GenerationsAreSeparate` is a conjunct of `IInv`: the clear comes when no source's call can be
inside the Bridge, which the invariant states through `ActiveInv`. `NoWaitCycleEver` needs the
assumption that the adapter of a re-entering port has no thread of its own, without which it is
false (see *Remarks*). `WaitInv` gives the shape of every stack: one call and, while that owns the
Bridge, at most one more of a re-entering port. A thread that waits for a permit waits for a call past
it, which waits for the owner of the Bridge at most; and the owner waits, if at all, for the permit of
a port, which no other thread has.

**NativeChannel.** For any sessions, length of the streams, page size and capacity of the queue
from 3, under `NativeAssumption`. What the client has not got is in four places (the queue, the page,
what was published before it and after it), so the invariant speaks of them in turn. `StreamInv`
says that on a connection that is not being given up the queue continues what the client holds and,
for a live session, reaches the end of the stream; `BatchInv` says the same of what
`FinishSubscribe` is about to append; `WaitingInv` says what the pending subscription may hold at
each lock; `DrainedInv` that the queue has no event of the session when its batch is appended,
because the worker reads requests only after it has sent everything. The steps of the port and of the
send loop are in `NativeDeliveryProofs`, the others in `NativeChannelProofs`. `TypeCorrect`,
`HoleMeansAbortAlways` and `NothingLostAlways` follow.

**CodexApprovals.** The theorems hold for any number of requests, desktop clients, turns
and restarts, under `ApprovalsAssumption`. The properties are not inductive alone, because
a thread has a request in its hands between two locks. `ApprovalsInv` adds what is known
then: `ThreadInv` says that the answer a thread writes is of its own route, is no longer in
the queue and has not been written before (or has been, once, at `"written"` and
`"responding"`), `RequestsInv` what the status of a request says of `wrote`, and `HostInv`
that a stopped source has no thread. Most actions move one thread and touch the request
state little: `QuietMoveInv` covers those that leave it alone, `TakingMoveInv` those that
remove requests, and each of claim, pop, write, mark, register and start has a lemma of its
own. `AnsweredOnce`, `ClaimsAreKept`, `IndexAgrees`, `RespondedWasWritten` and
`NothingOutlivesItsRoute` follow.

**Relay.** For any number of Hosts, clients, routes and threads, under `RelayAssumption`.
`RoutesAreDisjoint` is preserved by itself; the hand-over is not. `RegisteredInv` says which
threads may be in the map and whose senders a client may hold, `TakenInv` that a registration
that was taken is out of the map, belongs to one client, and that what is in a Host's channel
or in its hands is that client, and `SocketInv` that every open stream has a thread that will
close it. `MoveIInv` covers the many steps that only move a thread; the steps that accept,
register, claim, take, send, receive, leave and close have a lemma each. `OneClientPerHost`
follows from `TakenInv`, `EndedIsClean` from `SocketInv` and `RegisteredInv`.

**Pairing.** For any number of sessions, devices and workers, under `PairingAssumption` and
`StoreAssumption`. `StoreInv` says that a stored token belongs to a session that issued it and
did not fail, and is stored for the device that asked; `SocketInv` that the socket of a
connected worker is in the canceller's map until the map is taken, and shut afterwards.
`FailedLeavesNothing` follows from the first, `CancelReachesAll` from the second, and
`ReadyIsServed` is inductive with the types.

Only model-checked: everything about `CodexWorker`, the properties expected to be violated, and
liveness (`EventsAreDelivered`, `RevokedIsDropped`, `WaitingIsServed`, `CallsReturn`, `StopEnds`,
`HandedIsServed`, `ConnectorStops`, `PairingEnds`, `RevokedIsWithdrawn`), which is outside the
prover's reach.

## Not modelled

- The JSON codecs and the conversion of DTOs (`agentpulse-protocol`, the frames of
  `native/src/protocol.rs` and `codex/src/protocol.rs`): stateless, a field at a time, and covered
  by fixtures. A model would repeat the field lists.
- TLS and WebSocket framing, which come from libraries; socket options.
- The values of the core (`value.rs`, `id.rs`, `plan.rs`, `progress.rs`): constructors that check
  one argument.
- Configuration, status reports, the discovery of the Codex executable, QR codes, key derivation.
- The `init`, `threads`, `relay`, `direct` and `run` commands of the host CLI: each reads, changes
  and stores a file, and prints. Two `threads` commands at the same time can lose a change, since
  reading and storing are two locks (`host/src/main.rs:442`); nothing promises otherwise.
- Operating-system calls (`agentpulse-platform`), installation and deployment scripts.
- Time. A timeout is an event that may happen at any moment it could, so nothing is shown about
  durations, back-off or deadlines.
- In `CodexSource`: a third party that removes the runtime directory, a signal to the own process
  group that fails, and a proxy that fails to start and whose socket then cannot be removed.

The Feishu, QQ, Webhook, Claude Code, OpenCode and DeepSeek directories hold no code.
