-------------------------- MODULE SessionAggregate --------------------------
(***************************************************************************)
(* The deterministic reducer of one session's events and its retained      *)
(* event window (agentpulse-core/src/aggregate.rs, session.rs, event.rs).  *)
(*                                                                         *)
(* An event is [session, sequence, at, payload]; its UUID is left out, two *)
(* events are the same exactly when these fields are.  A payload is a      *)
(* record with the field `kind` and the one field that kind carries:       *)
(*   SessionStarted.snapshot, StateChanged.state,                          *)
(*   ConnectionChanged.connection, ToolStarted/ToolFinished.call,          *)
(*   PlanUpdated/ProgressUpdated.revision, InteractionRequested.request,   *)
(*   InteractionResponded.response, InteractionClosed.interaction,         *)
(*   CommandIssued.command, SessionEnded.outcome; Message carries none.    *)
(* An aggregate is a record: the session snapshot `session`, the revisions *)
(* of the latest plan and progress (0 for None), the active tool calls,    *)
(* the pending requests, the latest outcome, the last event and the window *)
(* `recent`.                                                               *)
(***************************************************************************)
EXTENDS CapabilityRouter, Sequences

CONSTANTS
  RecentEventCapacity,  \* SessionAggregateConfig::recent_event_capacity
  RetainAll,            \* SessionAggregateConfig::retain_all_events
  MaxCounter            \* u64::MAX, the last EventSequence and Revision

ASSUME AggregateAssumption ==
  /\ RecentEventCapacity \in Nat
  /\ RetainAll \in BOOLEAN
  /\ MaxCounter \in Nat \ {0}

AgentStates == {"Initializing", "Idle", "Running", "WaitingForInteraction",
                "Completed", "Failed", "Cancelled"}
ConnectionStates == {"Connected", "Reconnecting", "Disconnected"}
Outcomes == {"Completed", "Failed", "Cancelled"}

PayloadKinds ==
  {"SessionStarted", "StateChanged", "ConnectionChanged", "Message", "ToolStarted",
   "ToolFinished", "PlanUpdated", "ProgressUpdated", "InteractionRequested",
   "InteractionResponded", "InteractionClosed", "CommandIssued", "SessionEnded"}

FirstSequence == 1
None == "None"

\* The window is kept at all (aggregate.rs:305, 657).
KeepsWindow == RetainAll \/ RecentEventCapacity > 0

-----------------------------------------------------------------------------
\* AgentSession::observe_state.
ObserveState(session, state, at) ==
  [session EXCEPT !.state = state, !.revision = @ + 1,
                  !.updated = IF at > @ THEN at ELSE @]

\* AgentSession::observe_connection_state.
ObserveConnection(session, connection, at) ==
  [session EXCEPT !.connection = connection, !.revision = @ + 1,
                  !.updated = IF at > @ THEN at ELSE @]

\* The two checks of from_initial_event_with_config.
CanStart(event) ==
  event.sequence = FirstSequence /\ event.payload.kind = "SessionStarted"

\* SessionAggregate::from_initial_event_with_config.
FromInitialEvent(event) ==
  [session |-> event.payload.snapshot, plan |-> 0, progress |-> 0, tools |-> {},
   pending |-> {}, outcome |-> None, last |-> event,
   recent |-> IF KeepsWindow THEN <<event>> ELSE <<>>]

\* validate_cursor: an exact retry of the last event.
IsRetry(a, event) == event = a.last

\* Mutant: a gap in the sequence is accepted.
ContinuesMutant(a, event) ==
  event.session = a.session.id /\ event.sequence > a.last.sequence

\* validate_cursor: the event continues the stream.  The conjuncts stand for
\* SessionMismatch, SequenceExhausted, and StaleSequence, SequenceConflict and
\* SequenceGap together.
Continues(a, event) ==
  /\ event.session = a.session.id
  /\ a.last.sequence < MaxCounter
  /\ event.sequence = a.last.sequence + 1

\* Mutant: the revision counter is not checked for exhaustion.
HasNextRevisionMutant(a) == TRUE

\* next_session_revision.
HasNextRevision(a) == a.session.revision < MaxCounter

PendingIds(a) == {r.id : r \in a.pending}

\* The check of apply on InteractionRequested.
IsFresh(a, request) == request.id \notin PendingIds(a)

\* The per-payload checks of apply and apply_tool_activity, each an error return
\* that leaves the aggregate as it is.
Acceptable(a, p) ==
  CASE p.kind = "SessionStarted" -> FALSE
    [] p.kind \in {"StateChanged", "ConnectionChanged", "SessionEnded"} ->
         HasNextRevision(a)
    [] p.kind \in {"Message", "CommandIssued"} -> TRUE
    [] p.kind = "ToolStarted" -> p.call \notin a.tools
    [] p.kind = "ToolFinished" -> p.call \in a.tools
    [] p.kind = "PlanUpdated" -> p.revision > a.plan
    [] p.kind = "ProgressUpdated" -> p.revision > a.progress
    [] p.kind = "InteractionRequested" -> IsFresh(a, p.request)
    [] p.kind = "InteractionResponded" ->
         \E r \in a.pending : ValidateResponse(r, p.response)
    [] p.kind = "InteractionClosed" -> p.interaction \in PendingIds(a)

\* Mutant: a resolved request is not removed.
WithoutMutant(pending, id) == pending

Without(pending, id) == {r \in pending : r.id # id}

\* The state change apply makes for an acceptable payload.
Reduce(a, p, at) ==
  CASE p.kind = "StateChanged" ->
         [a EXCEPT !.session = ObserveState(@, p.state, at)]
    [] p.kind = "ConnectionChanged" ->
         [a EXCEPT !.session = ObserveConnection(@, p.connection, at)]
    [] p.kind = "ToolStarted" -> [a EXCEPT !.tools = @ \cup {p.call}]
    [] p.kind = "ToolFinished" -> [a EXCEPT !.tools = @ \ {p.call}]
    [] p.kind = "PlanUpdated" -> [a EXCEPT !.plan = p.revision]
    [] p.kind = "ProgressUpdated" -> [a EXCEPT !.progress = p.revision]
    [] p.kind = "InteractionRequested" ->
         [a EXCEPT !.pending = @ \cup {p.request}]
    [] p.kind = "InteractionResponded" ->
         [a EXCEPT !.pending = Without(@, p.response.request)]
    [] p.kind = "InteractionClosed" ->
         [a EXCEPT !.pending = Without(@, p.interaction)]
    [] p.kind = "SessionEnded" ->
         [a EXCEPT !.session = ObserveState(@, p.outcome, at),
                   !.outcome = p.outcome, !.tools = {}, !.pending = {}]
    [] OTHER -> a

\* Mutant: the excess is counted before the event is pushed.
WindowMutant(recent, event) ==
  LET grown == Append(recent, event)
      excess == Len(recent) - RecentEventCapacity
  IN  IF ~KeepsWindow THEN recent
      ELSE IF RetainAll \/ excess <= 0 THEN grown
      ELSE SubSeq(grown, excess + 1, Len(grown))

\* The window after `event`: pop_front until it fits the capacity.
Window(recent, event) ==
  LET grown == Append(recent, event)
      excess == Len(grown) - RecentEventCapacity
  IN  IF ~KeepsWindow THEN recent
      ELSE IF RetainAll \/ excess <= 0 THEN grown
      ELSE SubSeq(grown, excess + 1, Len(grown))

\* record_event.
RecordEvent(a, event) ==
  [a EXCEPT !.last = event, !.recent = Window(@, event)]

\* apply returns Ok(Applied); Ok(AlreadyApplied) is IsRetry, anything else is an
\* error.
Applies(a, event) == Continues(a, event) /\ Acceptable(a, event.payload)

\* The aggregate after an apply that returns Applied.
Apply(a, event) == RecordEvent(Reduce(a, event.payload, event.at), event)

-----------------------------------------------------------------------------
LastSequence(a) == a.last.sequence

\* Mutant: a page may start one event late.
HasPageGapMutant(a, after) ==
  /\ after <= LastSequence(a)
  /\ after = LastSequence(a)
       \/ (a.recent # <<>> /\ Head(a.recent).sequence <= after + 2)

\* retained_event_page_after returns Some: the cursor is not ahead and, unless it
\* is exactly caught up, the window still holds the event after it.
HasPage(a, after) ==
  /\ after <= LastSequence(a)
  /\ after = LastSequence(a)
       \/ (a.recent # <<>> /\ Head(a.recent).sequence <= after + 1)

\* Mutant: the event right after the cursor is left out.
NewerMutant(recent, after) ==
  LET kept[i \in 0..Len(recent)] ==
        IF i = 0 THEN <<>>
        ELSE IF recent[i].sequence > after + 1 THEN Append(kept[i - 1], recent[i])
        ELSE kept[i - 1]
  IN  kept[Len(recent)]

\* The filter of retained_event_page_after, one event of the window at a time.
Newer(recent, after) ==
  LET kept[i \in 0..Len(recent)] ==
        IF i = 0 THEN <<>>
        ELSE IF recent[i].sequence > after THEN Append(kept[i - 1], recent[i])
        ELSE kept[i - 1]
  IN  kept[Len(recent)]

\* retained_event_page_after, the page it returns then.
PageAfter(a, after, max) ==
  LET newer == Newer(a.recent, after)
  IN  IF after = LastSequence(a) THEN <<>>
      ELSE SubSeq(newer, 1, IF Len(newer) < max THEN Len(newer) ELSE max)
=============================================================================
