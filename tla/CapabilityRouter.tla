-------------------------- MODULE CapabilityRouter --------------------------
(***************************************************************************)
(* The stateless routing policy (agentpulse-core/src/routing.rs): which    *)
(* Provider may publish which event, whether a Channel is shown an         *)
(* interaction as Interactive or ReadOnly, and which Channel actions reach *)
(* a Provider.                                                             *)
(*                                                                         *)
(* A descriptor is [id, caps]; a session is anything with the fields `id`  *)
(* and `provider`.  Every validation is a Boolean: the code's error value  *)
(* only names which conjunct failed.                                       *)
(***************************************************************************)
EXTENDS Interactions

\* AgentEventPayload::required_provider_capability.
EventCapability(payload) ==
  CASE payload.kind \in {"SessionStarted", "StateChanged", "ConnectionChanged",
                         "SessionEnded"} -> {"SESSION_STATE"}
    [] payload.kind = "Message" -> {}
    [] payload.kind \in {"ToolStarted", "ToolFinished"} -> {"TOOL_EVENTS"}
    [] payload.kind = "PlanUpdated" -> {"PLAN"}
    [] payload.kind = "ProgressUpdated" -> {"PROGRESS"}
    [] payload.kind = "InteractionRequested" ->
         ProviderRequestCapability(payload.request.kind)
    [] payload.kind = "InteractionResponded" ->
         ProviderResponseCapability(payload.response.kind)
    [] payload.kind = "InteractionClosed" -> {"APPROVAL_REQUEST"}
    [] payload.kind = "CommandIssued" -> ProviderCommandCapability(payload.command)

\* Mutants: neither the stored session's Provider nor the embedded snapshot's, or not the
\* declared capabilities, are compared.
SnapshotOwnerMutant(provider, session, event) ==
  event.session = session.id /\ EventCapability(event.payload) \subseteq provider.caps
UncheckedCapabilityMutant(provider, session, event) ==
  /\ session.provider = provider.id
  /\ event.session = session.id

\* CapabilityRouter::validate_provider_event.
ValidateProviderEvent(provider, session, event) ==
  /\ session.provider = provider.id
  /\ event.session = session.id
  /\ event.payload.kind = "SessionStarted" =>
       event.payload.snapshot.provider = provider.id
  /\ EventCapability(event.payload) \subseteq provider.caps

\* CapabilityRouter::interaction_route, its error cases: the route exists at all.
HasInteractionRoute(provider, session, request) ==
  /\ session.provider = provider.id
  /\ request.session = session.id
  /\ ProviderRequestCapability(request.kind) \subseteq provider.caps

\* Mutant: whether the Provider takes the response is not looked at.
InteractionRouteMutant(provider, channel, request) ==
  IF /\ IsActionable(request)
     /\ ChannelResponseCapability(request.kind) \subseteq channel.caps
  THEN "Interactive" ELSE "ReadOnly"

\* CapabilityRouter::interaction_route, its value.
InteractionRoute(provider, channel, request) ==
  IF /\ IsActionable(request)
     /\ ProviderResponseCapability(request.kind) \subseteq provider.caps
     /\ ChannelResponseCapability(request.kind) \subseteq channel.caps
  THEN "Interactive" ELSE "ReadOnly"

\* CapabilityRouter::channel_event_route of an event that validates.
ChannelEventRoute(provider, channel, event) ==
  IF event.payload.kind = "InteractionRequested"
  THEN InteractionRoute(provider, channel, event.payload.request)
  ELSE "ObserveOnly"

\* CapabilityRouter::validate_interaction_response.
ValidateInteractionResponse(provider, channel, session, request, response) ==
  /\ session.provider = provider.id
  /\ request.session = session.id
  /\ response.session = session.id
  /\ response.channel = channel.id
  /\ ValidateResponse(request, response)
  /\ ProviderRequestCapability(request.kind) \subseteq provider.caps
  /\ ProviderResponseCapability(request.kind) \subseteq provider.caps
  /\ ChannelResponseCapability(request.kind) \subseteq channel.caps

\* CapabilityRouter::validate_command.
ValidateCommand(provider, channel, session, command) ==
  /\ session.provider = provider.id
  /\ command.session = session.id
  /\ command.channel = channel.id
  /\ ProviderCommandCapability(command.kind) \subseteq provider.caps
  /\ ChannelCommandCapabilities(command.kind) \subseteq channel.caps
=============================================================================
