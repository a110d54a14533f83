---------------------------- MODULE SessionStream ----------------------------
(***************************************************************************)
(* One session aggregate under an arbitrary event source: the source may   *)
(* offer any event at any time, retries, stale, conflicting and gapped     *)
(* sequences and events of another session included.  `log` is the history *)
(* of the events the aggregate applied; no code reads it, the properties   *)
(* compare the aggregate with it.                                          *)
(***************************************************************************)
EXTENDS SessionTypes

VARIABLES agg, log
streamVars == <<agg, log>>

\* SessionAggregate::replay and Bridge::handle_provider_event build the aggregate
\* from the first event.
StreamInit ==
  \E e \in Events :
    /\ CanStart(e)
    /\ agg = FromInitialEvent(e)
    /\ log = <<e>>

\* apply returns Applied.
ApplyEvent ==
  \E e \in Events :
    /\ Applies(agg, e)
    /\ agg' = Apply(agg, e)
    /\ log' = Append(log, e)

\* apply returns AlreadyApplied or an error.
RefuseEvent ==
  \E e \in Events :
    /\ ~Applies(agg, e)
    /\ UNCHANGED streamVars

StreamNext == ApplyEvent \/ RefuseEvent

StreamSpec == StreamInit /\ [][StreamNext]_streamVars
-----------------------------------------------------------------------------
\* Every field of the aggregate has its type.
StreamTypeOK == agg \in Aggregates /\ log \in Seq(Events)

\* The cursor of the stream: the applied events are numbered 1, 2, 3, ... without a
\* gap or a repetition, and the last of them is the aggregate's last event, whatever
\* the source offers (validate_cursor, record_event).
LogIsContiguous ==
  /\ Len(log) > 0
  /\ agg.last = log[Len(log)]
  /\ \A i \in 1..Len(log) : log[i].sequence = i

\* How many events record_event leaves in the window.
WindowLength ==
  IF RetainAll \/ Len(log) <= RecentEventCapacity THEN Len(log) ELSE RecentEventCapacity

\* The retained window is exactly the newest part of the applied stream: never an
\* event too many, never a hole after a pop_front (record_event).
WindowIsNewestSuffix ==
  /\ Len(agg.recent) = WindowLength
  /\ \A i \in 1..Len(agg.recent) :
       agg.recent[i] = log[Len(log) - Len(agg.recent) + i]

\* What retained_event_page_after promises a catching-up Channel: a page is offered
\* exactly when no event between the cursor and the window was dropped, and it is the
\* next `max` events of the stream in order, so pages chained by their last sequence
\* reach the end of the stream without a gap or a repetition.
PagesContinueTheLog ==
  \A after \in 0..(Len(log) + 1), max \in 1..(Len(log) + 1) :
    LET through == IF after + max < Len(log) THEN after + max ELSE Len(log)
    IN  /\ HasPage(agg, after) <=>
             after <= Len(log) /\ Len(log) - after <= Len(agg.recent)
        /\ HasPage(agg, after) =>
             PageAfter(agg, after, max) = SubSeq(log, after + 1, through)

-----------------------------------------------------------------------------
\* A reference for the projection, read off the whole history at once.
Kind(i) == log[i].payload.kind
Newest(kinds) ==
  LET found == {i \in 1..Len(log) : Kind(i) \in kinds}
  IN  IF found = {} THEN 0 ELSE CHOOSE i \in found : \A j \in found : j <= i
EndedAfter(i) == \E j \in (i + 1)..Len(log) : Kind(j) = "SessionEnded"
Initial == log[1].payload.snapshot

RunningTools ==
  {log[i].payload.call : i \in {i \in 1..Len(log) :
     /\ Kind(i) = "ToolStarted"
     /\ ~EndedAfter(i)
     /\ \A j \in (i + 1)..Len(log) :
          Kind(j) = "ToolFinished" => log[j].payload.call # log[i].payload.call}}

Answers(j, id) ==
  \/ Kind(j) = "InteractionResponded" /\ log[j].payload.response.request = id
  \/ Kind(j) = "InteractionClosed" /\ log[j].payload.interaction = id

OpenRequests ==
  {log[i].payload.request : i \in {i \in 1..Len(log) :
     /\ Kind(i) = "InteractionRequested"
     /\ ~EndedAfter(i)
     /\ \A j \in (i + 1)..Len(log) : ~Answers(j, log[i].payload.request.id)}}

ReferenceState ==
  LET i == Newest({"StateChanged", "SessionEnded"})
  IN  IF i = 0 THEN Initial.state
      ELSE IF Kind(i) = "SessionEnded" THEN log[i].payload.outcome
      ELSE log[i].payload.state

ReferenceConnection ==
  LET i == Newest({"ConnectionChanged"})
  IN  IF i = 0 THEN Initial.connection ELSE log[i].payload.connection

SnapshotChanges ==
  {i \in 1..Len(log) : Kind(i) \in {"StateChanged", "ConnectionChanged", "SessionEnded"}}

NewestRevision(kind) ==
  LET i == Newest({kind}) IN IF i = 0 THEN 0 ELSE log[i].payload.revision

\* The incremental reducer computes what the history says: state, connectivity and
\* outcome are those of the newest event about them, every snapshot change counts one
\* revision, and exactly the unfinished tool calls and unanswered requests of the
\* current run are open (apply, apply_tool_activity).
ProjectionMatchesLog ==
  /\ agg.session.state = ReferenceState
  /\ agg.session.connection = ReferenceConnection
  /\ agg.session.revision = Initial.revision + Cardinality(SnapshotChanges)
  /\ agg.tools = RunningTools
  /\ agg.pending = OpenRequests
  /\ agg.outcome = LET i == Newest({"SessionEnded"})
                   IN  IF i = 0 THEN None ELSE log[i].payload.outcome
  /\ agg.plan = NewestRevision("PlanUpdated")
  /\ agg.progress = NewestRevision("ProgressUpdated")

\* Two requests with one identifier are never pending together, so a response or a
\* closure resolves one request (apply on InteractionRequested).
PendingIdsAreUnique ==
  \A r1, r2 \in agg.pending : r1.id = r2.id => r1 = r2

\* A snapshot never goes backwards: its update time follows the latest event time
\* seen although event times may not be ordered, and neither its revision nor the
\* plan's and progress's revisions decrease (observe_state, validate_snapshot_revision).
SnapshotsAdvance ==
  [][/\ agg'.session.updated >= agg.session.updated
     /\ agg'.session.revision >= agg.session.revision
     /\ agg'.session # agg.session => agg'.session.revision > agg.session.revision
     /\ agg'.plan >= agg.plan
     /\ agg'.progress >= agg.progress]_streamVars
=============================================================================
