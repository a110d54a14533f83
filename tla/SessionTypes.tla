---------------------------- MODULE SessionTypes ----------------------------
(***************************************************************************)
(* The events a Provider can construct, and the types of the aggregates    *)
(* they are reduced to (agentpulse-core: event.rs, session.rs,             *)
(* aggregate.rs).                                                          *)
(***************************************************************************)
EXTENDS SessionAggregate

CONSTANTS
  Sessions,   \* session identifiers; an event may name any of them
  Times,      \* event times, a set of positive naturals
  Payloads    \* payloads a source offers

PayloadsOf(kinds) == {p \in Payloads : p.kind \in kinds}
Snapshots == {p.snapshot : p \in PayloadsOf({"SessionStarted"})}
Providers == {s.provider : s \in Snapshots}
Calls == {p.call : p \in PayloadsOf({"ToolStarted", "ToolFinished"})}
Requests == {p.request : p \in PayloadsOf({"InteractionRequested"})}

SessionSnapshot ==
  [id : Sessions, provider : Providers, state : AgentStates,
   connection : ConnectionStates, revision : 1..MaxCounter, updated : Nat]

\* The domain types of the payloads, as far as the reducer reads them.
ASSUME PayloadAssumption ==
  /\ Times \subseteq Nat
  /\ Snapshots \subseteq SessionSnapshot
  /\ \A r \in Requests : WellFormedRequest(r)
  /\ \A p \in Payloads :
       /\ p.kind \in PayloadKinds
       /\ p.kind = "StateChanged" => p.state \in AgentStates
       /\ p.kind = "ConnectionChanged" => p.connection \in ConnectionStates
       /\ p.kind \in {"PlanUpdated", "ProgressUpdated"} => p.revision \in Nat \ {0}
       /\ p.kind = "SessionEnded" => p.outcome \in Outcomes

EventRecords == [session : Sessions, sequence : 1..MaxCounter, at : Times,
                 payload : Payloads]

\* AgentEvent::new: an identifier embedded in the payload names the event's session.
\* (A closure and a command carry no identifier of their own here.)
WellFormedEvent(e) ==
  /\ e.payload.kind = "SessionStarted" => e.payload.snapshot.id = e.session
  /\ e.payload.kind = "InteractionRequested" => e.payload.request.session = e.session
  /\ e.payload.kind = "InteractionResponded" => e.payload.response.session = e.session

Events == {e \in EventRecords : WellFormedEvent(e)}

Aggregates ==
  [session : SessionSnapshot, plan : Nat, progress : Nat, tools : SUBSET Calls,
   pending : SUBSET Requests, outcome : Outcomes \cup {None}, last : Events,
   recent : Seq(Events)]
=============================================================================
