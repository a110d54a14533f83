---------------------------- MODULE Interactions ----------------------------
(***************************************************************************)
(* Correlated interaction requests and responses, and the capabilities an  *)
(* interaction or a command needs (agentpulse-core: interaction.rs,        *)
(* command.rs, capability.rs).                                             *)
(*                                                                         *)
(* Prompts, labels and texts are left out: nothing decides on them.        *)
(* Identifiers of options and form fields are members of small sets, and a *)
(* capability set is a set of capability names, so the bit test `contains` *)
(* is set inclusion.                                                       *)
(***************************************************************************)
EXTENDS Naturals, FiniteSets

\* InteractionRequest.expires_at = None.  A time is a natural number, so any
\* other value would do; zero is never later than a request time.
NoExpiry == 0

RequestKinds == {"Approval", "Choice", "Text", "Form"}

\* A request.  `options` is empty for Text and Form, `fields` is empty for all
\* but Form; an Approval with no options is the visible, unavailable one.
Request(id, session, at, expires, kind, options, multiple, fields) ==
  [id |-> id, session |-> session, at |-> at, expires |-> expires, kind |-> kind,
   options |-> options, multiple |-> multiple, fields |-> fields]

\* The constructors' checks: ApprovalRequest, ChoiceRequest, FormField and
\* FormRequest refuse empty or impossible contents, with_expiration refuses an
\* expiry that is not later than the request.
WellFormedRequest(r) ==
  /\ r.expires # NoExpiry => r.expires > r.at
  /\ r.kind = "Choice" => r.options # {}
  /\ r.kind = "Form" => /\ DOMAIN r.fields # {}
                        /\ \A f \in DOMAIN r.fields :
                             r.fields[f].options = {} => r.fields[f].other

\* InteractionRequestPayload::is_actionable.
IsActionable(r) == r.kind = "Approval" => r.options # {}

\* One field of a form accepts an offered option, or a text where it allows one.
AnswersField(field, answer) ==
  \/ answer.type = "Choice" /\ answer.option \in field.options
  \/ answer.type = "Text" /\ field.other

\* InteractionRequest::validate_response, the part that compares the payloads.
PayloadAnswers(r, p) ==
  /\ p.kind = r.kind
  /\ r.kind = "Approval" => IsActionable(r) /\ p.selection \subseteq r.options
  /\ r.kind = "Choice" => /\ r.multiple \/ Cardinality(p.selection) = 1
                          /\ p.selection \subseteq r.options
  /\ r.kind = "Form" => /\ DOMAIN p.answers = DOMAIN r.fields
                        /\ \A f \in DOMAIN r.fields :
                             AnswersField(r.fields[f], p.answers[f])

\* InteractionRequest::validate_response.
ValidateResponse(r, p) ==
  /\ p.request = r.id
  /\ p.session = r.session
  /\ p.at >= r.at
  /\ r.expires # NoExpiry => p.at <= r.expires
  /\ PayloadAnswers(r, p)

-----------------------------------------------------------------------------
\* The capability a Provider needs to publish a request, ...
ProviderRequestCapability(kind) ==
  IF kind = "Approval" THEN {"APPROVAL_REQUEST"} ELSE {"USER_INPUT_REQUEST"}

\* ... the one it needs to take the response, ...
ProviderResponseCapability(kind) ==
  IF kind = "Approval" THEN {"APPROVAL_RESPONSE"} ELSE {"USER_INPUT_RESPONSE"}

\* ... and the one a Channel needs to collect it.
ChannelResponseCapability(kind) ==
  CASE kind = "Approval" -> {"APPROVAL"}
    [] kind = "Choice" -> {"CHOICE_INPUT"}
    [] kind = "Text" -> {"TEXT_INPUT"}
    [] kind = "Form" -> {"FORM_INPUT"}

\* Commands that carry a text collected by the Channel.
TextCommands ==
  {"SubmitPrompt", "SelectModel", "ListThreads", "ResumeThread", "StartThread",
   "Review", "Rename", "SelectPermissionProfile"}

\* AgentCommandPayload::required_provider_capability.
ProviderCommandCapability(command) ==
  CASE command = "SubmitPrompt" -> {"PROMPT_SUBMIT"}
    [] command = "CancelSession" -> {"CANCEL"}
    [] OTHER -> {"CONTROL"}

\* AgentCommandPayload::required_channel_capabilities.
ChannelCommandCapabilities(command) ==
  {"REMOTE_COMMAND"} \cup (IF command \in TextCommands THEN {"TEXT_INPUT"} ELSE {})
=============================================================================
