--------------------------- MODULE CodexControls ---------------------------
(***************************************************************************)
(* ControlRuntimeState, what the Bridge's callers and the Codex worker     *)
(* share under one mutex (agentpulse-providers/codex: control.rs,          *)
(* local_interaction.rs, port.rs).  Every operator is one call, from the   *)
(* state c before it to the state after it.                                *)
(*                                                                         *)
(* A prompt is its number in the order the phone sent them, so no two have *)
(* the same text, and it counts as one byte.  A form is one of the         *)
(* Provider's own choices, [id, session, kind], of a "plan", of a "model"   *)
(* or of an "effort".                                                      *)
(***************************************************************************)
EXTENDS Naturals, Sequences, FiniteSetsExt

CONSTANTS
  Sessions,      \* SessionIds; each is that of one Codex thread
  MaxCommands,   \* MAX_COMMANDS
  MaxPrompts,    \* MAX_PROMPTS_PER_SESSION
  MaxBytes,      \* MAX_QUEUED_PROMPT_BYTES, in prompts
  MaxChoices     \* the limit on pending choices in `show`

\* ControlRuntimeState::new.  An inflight turn is "sent", and "seen" once observed;
\* planning are the sessions whose defaults have plan_mode, chosen those that have a model.
NoControls ==
  [commands |-> <<>>, prompts |-> [s \in Sessions |-> <<>>],
   bytes |-> [s \in Sessions |-> 0], paused |-> {},
   inflight |-> [s \in Sessions |-> "no"], planning |-> {}, chosen |-> {}, revise |-> {},
   pending |-> {}, claimed |-> {}, responses |-> <<>>]
-----------------------------------------------------------------------------
(* accept *)

PlanIsPending(c, s) == \E f \in c.pending : f.kind = "plan" /\ f.session = s

PromptFits(c, s) ==
  /\ Len(c.prompts[s]) < MaxPrompts
  /\ MapThenSumSet(LAMBDA t : c.bytes[t], Sessions) + 1 <= MaxBytes

\* SubmitPrompt { Queue }.  A prompt sent while a plan's form is pending revises it.
AcceptPrompt(c, s, p) ==
  IF ~PromptFits(c, s) THEN c
  ELSE [c EXCEPT !.prompts[s] = Append(@, p), !.bytes[s] = @ + 1,
                 !.revise = IF PlanIsPending(c, s) THEN @ \cup {s} ELSE @]

\* push, which refuses the command when the queue is full.
Push(c, kind, s) ==
  IF Len(c.commands) >= MaxCommands THEN c
  ELSE [c EXCEPT !.commands = Append(@, [kind |-> kind, session |-> s])]

\* What accept does to the prompts before it pushes the command.
Applied(c, kind, s) ==
  CASE kind \in {"pause", "cancel"} -> [c EXCEPT !.paused = @ \cup {s}]
    [] kind = "resume" -> [c EXCEPT !.paused = @ \ {s}]
    [] kind = "clear" -> [c EXCEPT !.prompts[s] = <<>>, !.bytes[s] = 0]
    [] OTHER -> c

AcceptCommand(c, kind, s) == Push(Applied(c, kind, s), kind, s)

\* accept_interaction_response, LocalInteractions::claim: the first answer counts.
CanClaim(c, f) == f \in c.pending /\ f.id \notin c.claimed
Claim(c, f, action) ==
  [c EXCEPT !.claimed = @ \cup {f.id},
            !.responses = Append(@, [form |-> f, action |-> action])]
-----------------------------------------------------------------------------
(* What the worker does *)

QueuedSessions(c) ==
  {s \in Sessions : s \notin c.paused /\ c.prompts[s] # <<>> /\ c.inflight[s] = "no"}

\* pop_prompt, which takes whatever is first.
PopPrompt(c, s) ==
  IF c.prompts[s] = <<>> THEN c
  ELSE [c EXCEPT !.prompts[s] = Tail(@), !.bytes[s] = @ - 1]

\* Mutant: the prompt is taken out of its queue when it is sent.
MarkTurnInflightMutant(c, s) == PopPrompt([c EXCEPT !.inflight[s] = "sent"], s)

MarkTurnInflight(c, s) == [c EXCEPT !.inflight[s] = "sent"]

\* Mutant: a turn that was refused stays inflight.
ClearTurnInflightMutant(c, s) == c

ClearTurnInflight(c, s) == [c EXCEPT !.inflight[s] = "no"]
ClearAllInflight(c) == [c EXCEPT !.inflight = [s \in Sessions |-> "no"]]
PausePrompts(c, s) == [c EXCEPT !.paused = @ \cup {s}]

\* Mutant: the first look at an idle thread ends the turn that was just sent.
ObserveTurnMutant(was, active) ==
  IF was = "no" THEN "no" ELSE IF active THEN "seen" ELSE "no"

\* observe_turn: inflight ends when the turn was seen active and no longer is.
ObserveTurn(was, active) ==
  CASE was = "no" -> "no"
    [] active -> "seen"
    [] was = "seen" -> "no"
    [] OTHER -> was

SetPlanMode(c, s, enabled) ==
  [c EXCEPT !.planning = IF enabled THEN @ \cup {s} ELSE @ \ {s}]

SelectModel(c, s) == [c EXCEPT !.chosen = @ \cup {s}]

\* Mutant: a form is shown without being registered.
RegisterMutant(c, f) == c

\* LocalInteractions.pending: insert, remove, retain.
Register(c, f) == [c EXCEPT !.pending = @ \cup {f}]
Keep(c, forms) ==
  LET kept == c.pending \cap forms
  IN  [c EXCEPT !.pending = kept, !.claimed = @ \cap {f.id : f \in kept}]
=============================================================================
