---------------------------- MODULE CodexWorker ----------------------------
(***************************************************************************)
(* The phone's commands, prompts and choices, from the Provider's port to  *)
(* the App Server and back (agentpulse-providers/codex: the control part   *)
(* of runtime.rs, runtime/local.rs, and through CodexControls and          *)
(* CodexMapper control.rs, local_interaction.rs and mapper.rs).            *)
(*                                                                         *)
(* The worker has the observer connection.  It goes round run_worker's     *)
(* loop: flush_control_commands and then one frame.  The phone's calls     *)
(* come on the Bridge's threads and change the controls c; the desktop     *)
(* proxies read the same turns from connections of their own, at their own *)
(* speed, and change the mapper m.  Neither waits for the worker, so the   *)
(* worker's place w.at is where it holds no mutex.                         *)
(***************************************************************************)
EXTENDS CodexControls, CodexMapper, CodexSource

CONSTANTS
  Proxies,        \* desktop connections
  FormIds,        \* InteractionIds of forms; reused when nothing has them any more
  MaxPages,       \* the limit on the cursors of a model list
  MaxInFlight,    \* bound on the frames on their way when the server adds one
  Scenarios       \* what the environment may do: the initial values of left

Observer == "observer"
Routes == Proxies \cup {Observer}
Kinds == {"status", "pause", "resume", "clear", "plan on", "plan off", "models",
          "select", "list", "resume thread", "start thread", "fork", "edit",
          "cancel", "steer"}
Items == {"plan", "request", "item"}
Actions == {"implement", "revise", "model", "select", "models", "cancel"}

\* What bounds the environment.
Limits ==
  [prompts : Nat, calls : Nat, answers : Nat, desktop : Nat, threads : Nat, status : Nat,
   crashes : Nat, faults : Nat, others : Nat, stops : Nat, starts : Nat, turns : Nat,
   kinds : SUBSET Kinds, actions : SUBSET Actions, items : SUBSET Items, proxies : SUBSET Proxies]

ASSUME WorkerAssumption ==
  /\ Sessions = Threads /\ Configured \subseteq Threads /\ Observer \notin Proxies
  /\ FormIds \subseteq Nat
  /\ Scenarios \subseteq Limits

VARIABLES
  c,         \* ControlRuntimeState
  m,         \* CodexEventMapper
  w,         \* the worker: [at, todo, hand], its place and what it goes through
  pending,   \* pending_controls: the requests whose answer it has not read
  open,      \* forms the Bridge shows
  \* The App Server: external.
  server,    \* [known, subscribed, threads: [Threads ->
             \*   [turn, running, plan, asked]]]; plan: "no", "may" or "made"
  asked,     \* the requests it has not answered
  inbox,     \* [Routes -> frames on their way]
  \* History and bounds.
  sent,      \* [Sessions -> number of prompts the phone has sent]
  before,    \* sent, when the source was started
  taken,     \* [Threads -> the prompts that the App Server took]
  cleared,   \* sessions whose queue the phone has cleared
  left       \* what the environment may still do.  Counted down: prompts, calls,
             \*   answers, desktop, threads, status, crashes, faults, others, stops.  Fixed:
             \*   starts, turns of a thread, kinds of commands, actions on forms, items
             \*   of a turn, proxies

appServer == <<server, asked, inbox>>
history == <<sent, before, taken, cleared>>
vars == <<c, m, w, pending, open, sourceVars, appServer, history, left>>

NoRequest == [id |-> 0, kind |-> "none", thread |-> "none", arg |-> 0, plan |-> FALSE]
Frame(kind, t, turn) == [kind |-> kind, thread |-> t, turn |-> turn, req |-> NoRequest]
Worker(at) == [at |-> at, todo |-> {}, hand |-> NoRequest]

Init ==
  /\ c = NoControls /\ m = NoMapper
  /\ w = Worker("none") /\ pending = {} /\ open = {}
  /\ SourceInit
  /\ server = [known |-> Configured, subscribed |-> {},
               threads |-> [t \in Threads |->
                  [turn |-> 0, running |-> FALSE, plan |-> "no", asked |-> FALSE]]]
  /\ asked = {} /\ inbox = [r \in Routes |-> <<>>]
  /\ sent = [s \in Sessions |-> 0] /\ before = sent /\ cleared = {}
  /\ taken = [t \in Threads |-> {}]
  /\ left \in Scenarios

\* The host takes the ingress away before it stops the source.
Live == source.acquired /\ (source.failing \/ source.phase \notin {"join", "terminate", "remove"})
Ended == w.at \in {"none", "failed", "left"}
Takes(what) == left[what] > 0 /\ left' = [left EXCEPT ![what] = @ - 1]
Goto(at) == w' = Worker(at)
\* Every change of the mapper's forms is published, so the Bridge follows it.
Map(next) == m' = next /\ open' = (open \ m.live) \cup next.live
KeepMap == UNCHANGED <<m, open>>
-----------------------------------------------------------------------------
(* The phone *)

\* A prompt that does not fit is refused and changes nothing.
SubmitPrompt(s) ==
  /\ Tracked(m, s) /\ PromptFits(c, s) /\ Takes("prompts")
  /\ c' = AcceptPrompt(c, s, sent[s] + 1)
  /\ sent' = [sent EXCEPT ![s] = @ + 1]
  /\ UNCHANGED <<m, w, pending, open, sourceVars, appServer, before, cleared, taken>>

SendCommand(kind, s) ==
  /\ Tracked(m, s) /\ Takes("calls")
  /\ c' = AcceptCommand(c, kind, s)
  /\ cleared' = IF kind = "clear" THEN cleared \cup {s} ELSE cleared
  /\ UNCHANGED <<m, w, pending, open, sourceVars, appServer, sent, before, taken>>

\* The options of a form.
Options(kind) ==
  CASE kind = "plan" -> {"implement", "revise"}
    [] kind = "model" -> {"model", "cancel"}
    [] kind = "effort" -> {"select", "models", "cancel"}

AnswerForm(f, action) ==
  /\ f \in open /\ CanClaim(c, f) /\ action \in Options(f.kind)
  /\ Takes("answers")
  /\ c' = Claim(c, f, action)
  /\ UNCHANGED <<m, w, pending, open, sourceVars, appServer, history>>

Phone ==
  \/ \E s \in Sessions : SubmitPrompt(s) \/ \E kind \in left.kinds : SendCommand(kind, s)
  \/ \E f \in open, action \in left.actions : AnswerForm(f, action)
-----------------------------------------------------------------------------
(* The App Server, as the Provider sees it *)

provider == <<c, m, w, pending, open, sourceVars, sent, before, cleared>>
HasRoom == \A r \in Routes : Len(inbox[r]) < MaxInFlight
\* What happens goes to the connections that are there, what happens on a thread to the
\* ones that are subscribed to it.
Serves == source.proxy /\ files.proxySocket
Connected(r) == IF r = Observer THEN ~Ended ELSE Serves /\ r \in left.proxies
Tell(boxes, frame) ==
  [r \in Routes |-> IF Connected(r) THEN Append(boxes[r], frame) ELSE boxes[r]]
Deliver(boxes, t, frame) ==
  [r \in Routes |-> IF r = Observer /\ t \notin server.subscribed THEN boxes[r]
                    ELSE Tell(boxes, frame)[r]]
Reply(boxes, kind, r, t, turn) ==
  [boxes EXCEPT ![Observer] =
     IF Connected(Observer) THEN Append(@, [Frame(kind, t, turn) EXCEPT !.req = r]) ELSE @]
On(t) == server.threads[t]
InProgress(t) == IF On(t).running THEN On(t).turn ELSE 0

NewTurn(t, plan) ==
  [server EXCEPT !.threads[t] = [turn |-> @.turn + 1, running |-> TRUE,
                                 plan |-> IF plan THEN "may" ELSE "no", asked |-> FALSE]]

\* turn/start: a new turn, or input to the turn that runs, or an error.
TakeInput(r) ==
  LET t == r.thread
      fresh == ~On(t).running /\ On(t).turn < left.turns
  IN  /\ r \in asked /\ r.kind \in {"turn", "implement"}
      /\ \/ /\ fresh \/ On(t).running
            /\ server' = IF fresh THEN NewTurn(t, r.plan) ELSE server
            /\ inbox' =
                 LET told == Reply(inbox, "response", r, t, 0)
                 IN  IF ~fresh THEN told
                     ELSE Deliver(told, t, Frame("started", t, On(t).turn + 1))
            /\ taken' = IF r.kind # "turn" THEN taken
                        ELSE [taken EXCEPT ![t] = @ \cup {r.arg}]
         \/ /\ inbox' = Reply(inbox, "error", r, t, 0)
            /\ UNCHANGED <<server, taken>>
      /\ asked' = asked \ {r}
      /\ UNCHANGED <<provider, left>>

\* thread/resume of a thread found through thread/started.  A thread without a turn has
\* no rollout yet; a legacy store subscribes and answers with an error.
Subscribe(r) ==
  /\ r \in asked /\ r.kind = "observe"
  /\ \E kind \in {"response", "unsupported", "error"} \cup
                 (IF On(r.thread).turn = 0 THEN {"no rollout"} ELSE {}) :
       /\ inbox' = Reply(inbox, kind, r, r.thread, InProgress(r.thread))
       /\ server' = IF kind \in {"response", "unsupported"}
                    THEN [server EXCEPT !.subscribed = @ \cup {r.thread}] ELSE server
  /\ asked' = asked \ {r}
  /\ UNCHANGED <<provider, taken, left>>

\* thread/resume, thread/start and thread/fork for the phone.
GiveThread(r) ==
  /\ r \in asked /\ r.kind \in {"resume thread", "start thread", "fork"}
  /\ \/ /\ inbox' = Reply(inbox, "error", r, r.thread, 0)
        /\ UNCHANGED server
     \/ \E t \in Threads :
          /\ (r.kind = "resume thread") = (t \in server.known)
          /\ r.kind = "resume thread" => t = r.arg
          /\ server' = [server EXCEPT !.known = @ \cup {t}, !.subscribed = @ \cup {t}]
          /\ inbox' = LET told == Reply(inbox, "response", r, t, InProgress(t))
                      IN  IF t \in server.known THEN told
                          ELSE Tell(told, Frame("thread", t, 0))
  /\ asked' = asked \ {r}
  /\ UNCHANGED <<provider, taken, left>>

\* The other requests; a list may have another page, an interrupt ends the turn.
Serve(r) ==
  LET t == r.thread
      ends == r.kind = "interrupt" /\ On(t).running /\ On(t).turn = r.arg
  IN  /\ r \in asked
      /\ r.kind \in {"models", "select", "history", "list", "edit", "interrupt", "steer"}
      /\ \E kind \in {"response", "error"} \cup
                     (IF r.kind \in {"models", "select", "history"} THEN {"page"} ELSE {}) :
           /\ kind = "page" => r.arg <= MaxPages
           /\ inbox' = LET told == Reply(inbox, kind, r, t, 0)
                       IN  IF ends /\ kind = "response"
                           THEN Deliver(told, t, Frame("interrupted", t, r.arg)) ELSE told
           /\ server' = IF ends /\ kind = "response"
                        THEN [server EXCEPT !.threads[t].running = FALSE] ELSE server
      /\ asked' = asked \ {r}
      /\ UNCHANGED <<provider, taken, left>>

Respond == HasRoom /\ \E r \in asked : TakeInput(r) \/ Subscribe(r) \/ GiveThread(r) \/ Serve(r)

\* A turn in plan mode may propose a plan; a turn may begin another item, or ask the
\* client of one connection for an approval.
TurnItem(t, kind) ==
  /\ Up /\ HasRoom /\ On(t).running /\ kind \in left.items
  /\ \/ /\ kind = "plan" /\ On(t).plan = "may"
        /\ server' = [server EXCEPT !.threads[t].plan = "made"]
        /\ inbox' = Deliver(inbox, t, Frame("plan", t, On(t).turn))
     \/ /\ kind \in {"request", "item"} /\ ~On(t).asked
        /\ server' = [server EXCEPT !.threads[t].asked = TRUE]
        /\ \/ kind = "item" /\ inbox' = Deliver(inbox, t, Frame("item", t, On(t).turn))
           \/ \E r \in Routes :
                /\ kind = "request" /\ Connected(r)
                /\ inbox' = [inbox EXCEPT ![r] = Append(@, Frame("request", t, On(t).turn))]
  /\ UNCHANGED <<provider, asked, taken, left>>

TurnEnds(t) ==
  /\ Up /\ HasRoom /\ On(t).running
  /\ server' = [server EXCEPT !.threads[t].running = FALSE]
  /\ inbox' = Deliver(inbox, t, Frame("completed", t, On(t).turn))
  /\ UNCHANGED <<provider, asked, taken, left>>

\* A desktop client starts a turn, ...
DesktopTurn(t) ==
  /\ Up /\ HasRoom /\ Serves /\ t \in server.known
  /\ ~On(t).running /\ On(t).turn < left.turns /\ Takes("desktop")
  /\ \E plan \in BOOLEAN : (plan => "plan" \in left.items) /\ server' = NewTurn(t, plan)
  /\ inbox' = Deliver(inbox, t, Frame("started", t, On(t).turn + 1))
  /\ UNCHANGED <<provider, asked, taken>>

\* ... or a thread, which every connection is told of.
DesktopThread(t) ==
  /\ Up /\ HasRoom /\ Serves /\ t \notin server.known /\ Takes("threads")
  /\ server' = [server EXCEPT !.known = @ \cup {t}]
  /\ inbox' = Tell(inbox, Frame("thread", t, 0))
  /\ UNCHANGED <<provider, asked, taken>>

Status(t) ==
  /\ Up /\ HasRoom /\ t \in server.known /\ Takes("status")
  /\ \E kind \in IF On(t).running THEN {"active", "asking"} ELSE {"idle", "notLoaded", "settings"} :
       inbox' = Deliver(inbox, t, Frame(kind, t, 0))
  /\ UNCHANGED <<provider, server, asked, taken>>

\* It is gone, and its connections and turns with it.
Down ==
  /\ server' = [server EXCEPT !.subscribed = {},
                   !.threads = [t \in Threads |-> [@[t] EXCEPT !.running = FALSE]]]
  /\ asked' = {} /\ inbox' = [r \in Routes |-> <<>>]
Crash ==
  /\ LeaderExits /\ Takes("crashes")
  /\ Down
  /\ UNCHANGED <<c, m, w, pending, open, history>>

AppServer ==
  \/ Respond \/ Crash
  \/ \E t \in Threads : \/ TurnItem(t, "plan") \/ TurnItem(t, "request") \/ TurnItem(t, "item") \/ TurnEnds(t)
                        \/ DesktopTurn(t) \/ DesktopThread(t) \/ Status(t)
-----------------------------------------------------------------------------
(* flush_control_commands *)

others == <<sourceVars, server, inbox, history, left>>
NextId ==
  CHOOSE i \in 1..(Cardinality(pending) + 1) :
    /\ \A r \in pending : r.id # i
    /\ \A j \in 1..(i - 1) : \E r \in pending : r.id = j
Request(kind, t, arg, plan) ==
  [id |-> NextId, kind |-> kind, thread |-> t, arg |-> arg, plan |-> plan]

\* send_control_request, with the requests that stay; it needs the connection.
Send(rest, requests) ==
  /\ requests # {} => Up
  /\ pending' = rest \cup requests
  /\ asked' = asked \cup requests
Quiet == UNCHANGED <<pending, asked>>

\* Discovered threads are subscribed to, and nothing else is done until they are.
FlushObserve ==
  LET found == {[id |-> 0, kind |-> "observe", thread |-> t, arg |-> 0, plan |-> FALSE] :
                  t \in m.resumes \cap m.configured}
  IN  /\ w.at = "flush"
      /\ Map([m EXCEPT !.resumes = {}])
      /\ Send(pending, found)
      /\ Goto(IF \E r \in pending \cup found : r.kind = "observe" THEN "read" ELSE "turns")
      /\ UNCHANGED <<c, others>>

ObserveTurns ==
  /\ w.at = "turns"
  /\ c' = [c EXCEPT !.inflight =
              [s \in Sessions |-> ObserveTurn(@[s], m.threads[s].active # 0)]]
  /\ Goto("revise")
  /\ KeepMap /\ Quiet /\ UNCHANGED others

\* flush_local_choices.  A prompt that came with a plan's form open dismisses the plan.
Revise ==
  LET plans == {s \in c.revise : Tracked(m, s) /\ HasPlan(m, s)}
  IN  /\ w.at = "revise"
      /\ c' = [c EXCEPT !.revise = {}, !.planning = @ \cup plans]
      /\ Map([m EXCEPT !.live = {f \in @ : ~(f.kind = "plan" /\ f.session \in plans)},
                       !.threads = [t \in Threads |->
                          IF t \in plans THEN [@[t] EXCEPT !.ready = 0] ELSE @[t]]])
      /\ Goto("choices")
      /\ Quiet /\ UNCHANGED others

\* The next answer, dropped if its form is not pending any more, ...
PopResponse ==
  LET r == Head(c.responses)
  IN  /\ w.at = "choices" /\ c.responses # <<>>
      /\ c' = [Keep(c, c.pending \ {r.form}) EXCEPT !.responses = Tail(@)]
      /\ w' = IF r.form \in c.pending THEN [w EXCEPT !.at = "chosen", !.hand = r] ELSE w
      /\ KeepMap /\ Quiet /\ UNCHANGED others

\* ... counts if the form is still live: the look and the publication are one step.
PublishResponse ==
  LET f == w.hand.form
  IN  /\ w.at = "chosen"
      /\ IF f \in m.live
         THEN Map([m EXCEPT !.live = @ \ {f}]) /\ w' = [w EXCEPT !.at = "acting"]
         ELSE KeepMap /\ Goto("choices")
      /\ Quiet /\ UNCHANGED <<c, others>>

Form(s, kind) ==
  LET used == {f.id : f \in c.pending \cup open \cup m.live \cup
                             {c.responses[i].form : i \in 1..Len(c.responses)}}
  IN  [id |-> CHOOSE i \in FormIds \ used : \A j \in FormIds \ used : i <= j,
       session |-> s, kind |-> kind]

\* show, up to the publication: older forms of the session and sort are closed, and the
\* new one is pending before anyone can see it.
Show(f, todo, otherwise) ==
  LET old == {g \in c.pending : g.session = f.session /\ (g.kind = "plan") = (f.kind = "plan")}
      kept == Keep(c, c.pending \ old)
  IN  /\ Map([m EXCEPT !.live = @ \ old])
      /\ IF Cardinality(kept.pending) >= MaxChoices
         THEN c' = kept /\ w' = [w EXCEPT !.at = otherwise, !.todo = todo, !.hand = NoRequest]
         ELSE c' = Register(kept, f) /\ w' = [at |-> "showing", todo |-> todo, hand |-> f]

PublishForm ==
  LET kind == w.hand.kind
  IN  /\ w.at = "showing"
      /\ Map(PublishLocalChoice(m, w.hand))
      /\ w' = [at |-> CASE kind = "plan" -> "plans"
                        [] kind = "effort" -> "choices"
                        [] kind = "model" -> "flush",
               todo |-> w.todo, hand |-> NoRequest]
      /\ Quiet /\ UNCHANGED <<c, others>>

\* A turn in plan mode needs the name of a model, and so does the one after a plan.
HasModel(s) == s \in c.chosen \/ m.threads[s].model

\* What the answer asks for.
Act ==
  LET s == w.hand.form.session
      action == w.hand.action
  IN  /\ w.at = "acting"
      /\ CASE action = "implement" /\ HasPlan(m, s) /\ HasModel(s) ->
                /\ Send(pending, {Request("implement", s, 0, FALSE)})
                /\ c' = MarkTurnInflight(c, s)
                /\ Goto("choices") /\ KeepMap
           [] action = "revise" ->
                /\ c' = SetPlanMode(c, s, TRUE)
                /\ Map(PublishState(DismissPlan(m, s), s, "rest"))
                /\ Goto("choices") /\ Quiet
           [] action = "model" -> Show(Form(s, "effort"), {}, "choices") /\ Quiet
           [] action \in {"select", "models"} ->
                /\ Send(pending, {Request(action, s, 0, FALSE)})
                /\ Goto("choices") /\ KeepMap /\ UNCHANGED c
           [] OTHER -> Goto("choices") /\ KeepMap /\ Quiet /\ UNCHANGED c
      /\ UNCHANGED others

\* Forms that were closed elsewhere are no longer pending.
RetainChoices ==
  /\ w.at = "choices" /\ c.responses = <<>>
  /\ c' = Keep(c, m.live)
  /\ w' = [Worker("plans") EXCEPT !.todo = ReadyPlans(m)]
  /\ KeepMap /\ Quiet /\ UNCHANGED others

\* A plan that waits has a form, unless its implementation is under way.
ShowPlan ==
  /\ w.at = "plans"
  /\ IF w.todo = {} THEN Goto("commands") /\ KeepMap /\ UNCHANGED c
     ELSE \E t \in w.todo :
            IF PlanIsPending(c, t) \/ c.inflight[t] # "no"
            THEN w' = [w EXCEPT !.todo = @ \ {t}] /\ KeepMap /\ UNCHANGED c
            ELSE Show(Form(t, "plan"), w.todo \ {t}, "plans")
  /\ Quiet /\ UNCHANGED others

\* The request a command leads to; target is the thread of a ResumeThread.
Requests(kind, s, target) ==
  LET turn == m.threads[s].active
  IN  CASE kind \in {"models", "select", "list", "start thread"} ->
             {Request(kind, s, 0, FALSE)}
        [] kind = "resume thread" -> {Request(kind, s, target, FALSE)}
        [] kind \in {"edit", "fork"} /\ Tracked(m, s) -> {Request(kind, s, 0, FALSE)}
        [] kind = "steer" /\ turn # 0 -> {Request(kind, s, turn, FALSE)}
        [] kind = "cancel" /\ turn # 0 -> {Request("interrupt", s, turn, FALSE)}
        [] OTHER -> {}

ExecuteCommand ==
  LET kind == Head(c.commands).kind
      s == Head(c.commands).session
      popped == [c EXCEPT !.commands = Tail(@)]
  IN  /\ w.at = "commands" /\ c.commands # <<>>
      /\ \E target \in Threads :
           /\ Send(pending, Requests(kind, s, target))
           /\ Map(CASE kind \in {"plan on", "plan off", "cancel"} /\ Tracked(m, s) ->
                         WithdrawPlan(m, s)
                    [] kind = "resume thread" -> Track(m, target)
                    [] OTHER -> m)
      /\ c' = IF kind \in {"plan on", "plan off"} THEN SetPlanMode(popped, s, kind = "plan on")
              ELSE popped
      /\ UNCHANGED <<w, others>>

\* queued_sessions, once the commands are done.
QueuePrompts ==
  /\ w.at = "commands" /\ c.commands = <<>>
  /\ w' = [Worker("prompts") EXCEPT !.todo = QueuedSessions(c)]
  /\ KeepMap /\ Quiet /\ UNCHANGED <<c, others>>

WantsTurn(s) ==
  Tracked(m, s) /\ m.threads[s].active = 0 /\ ~HasPlan(m, s) /\ c.prompts[s] # <<>>

\* The first prompt is sent, and stays in the queue until the turn is accepted.
StartPrompt ==
  /\ w.at = "prompts"
  /\ IF w.todo = {} THEN Goto("read") /\ Quiet /\ UNCHANGED c
     ELSE \E s \in w.todo :
            /\ WantsTurn(s) => s \notin c.planning \/ HasModel(s)
            /\ w' = [w EXCEPT !.todo = @ \ {s}]
            /\ IF WantsTurn(s)
               THEN /\ Send(pending, {Request("turn", s, Head(c.prompts[s]), s \in c.planning)})
                    /\ c' = MarkTurnInflight(c, s)
               ELSE Quiet /\ UNCHANGED c
  /\ KeepMap /\ UNCHANGED others

Flush ==
  \/ FlushObserve \/ ObserveTurns \/ Revise \/ PopResponse \/ PublishResponse \/ Act
  \/ PublishForm \/ RetainChoices \/ ShowPlan \/ ExecuteCommand \/ QueuePrompts \/ StartPrompt
-----------------------------------------------------------------------------
(* One frame: process_live_frame *)

\* The worker ends: every session is disconnected, which closes the forms, unless it
\* was told to stop when it met the error in a frame.
Fail(next, controls) ==
  LET stopped == At("join") /\ w.at = "read"
  IN  /\ Map(IF stopped THEN next ELSE ConnectAll(next, "disconnected"))
      /\ c' = controls
      /\ Goto("failed")
      /\ source' = IF stopped THEN source ELSE [source EXCEPT !.health = "failed"]
      /\ pending' = {} /\ UNCHANGED <<asked, process, files>>

Continue(result) ==
  IF result.ok
  THEN Map(result.map) /\ Goto("flush") /\ UNCHANGED <<c, pending, asked, sourceVars>>
  ELSE Fail(result.map, c)

Reads == w.at = "read" /\ inbox[Observer] # <<>>
First == Head(inbox[Observer])
Left == pending \ {First.req}
AnswerTo(kinds, r) == Reads /\ First.kind \in kinds /\ First.req.kind \in r
Taken == inbox' = [inbox EXCEPT ![Observer] = Tail(@)]
elsewhere == <<server, history, left>>
unread == <<sourceVars, elsewhere>>

\* Nothing came within the poll interval.
ReadTimeout ==
  /\ w.at = "read" /\ inbox[Observer] = <<>> /\ Up
  /\ Goto("flush")
  /\ KeepMap /\ Quiet /\ UNCHANGED <<c, others>>

\* parse_observed_server_text: answers are none of the mapper's business.
Observed(f) ==
  CASE f.kind = "request" -> "request"
    [] f.req # NoRequest -> "pass"
    [] OTHER -> "notification"

\* What a frame does to the mapper.
Seen(f) ==
  CASE Observed(f) = "request" -> ApprovalContext(m, f.thread, f.turn)
    [] Observed(f) = "notification" -> Notification(m, f)
    [] Observed(f) = "pass" -> Ok(m)

ReadNotification ==
  /\ Reads /\ First.req = NoRequest /\ Taken
  /\ Continue(Seen(First))
  /\ UNCHANGED elsewhere

\* turn/start was accepted: the prompt leaves the queue, where it should be the first.
ReadTurn ==
  LET t == First.req.thread
      first == IF c.prompts[t] = <<>> THEN 0 ELSE Head(c.prompts[t])
      retried == RetryObserverResume(m, t)
  IN  /\ AnswerTo({"response"}, {"turn"}) /\ Taken
      /\ IF first = First.req.arg
         THEN /\ Map(retried) /\ c' = PopPrompt(c, t)
              /\ Goto("flush") /\ pending' = Left
              /\ UNCHANGED <<asked, sourceVars>>
         ELSE Fail(retried, PopPrompt(c, t))
      /\ UNCHANGED elsewhere

\* The implementation of a plan has started.
ReadImplement ==
  LET t == First.req.thread
  IN  /\ AnswerTo({"response"}, {"implement"}) /\ Taken
      /\ c' = SetPlanMode(c, t, FALSE)
      /\ Map(DismissPlan(m, t))
      /\ Goto("flush") /\ pending' = Left
      /\ UNCHANGED <<asked, unread>>

\* turn/start was refused; the prompts wait for the phone.
ReadTurnError ==
  LET t == First.req.thread
      ended == ClearTurnInflight(c, t)
  IN  /\ AnswerTo({"error"}, {"turn", "implement"}) /\ Taken
      /\ c' = IF First.req.kind = "turn" THEN PausePrompts(ended, t) ELSE ended
      /\ Goto("flush") /\ pending' = Left
      /\ KeepMap /\ UNCHANGED <<asked, unread>>

\* The answer to the observer's thread/resume has no turns.
ReadObserve ==
  LET t == First.req.thread
      kind == First.kind
  IN  /\ Reads /\ First.req.kind = "observe" /\ Taken
      /\ Map(CASE kind = "response" -> ResumeThread(m, t, First.turn # 0, 0, TRUE)
               [] kind = "no rollout" -> [m EXCEPT !.deferred = @ \cup {t}]
               [] kind = "unsupported" -> m
               [] kind = "error" -> PublishConnection(m, t, "disconnected"))
      /\ Goto("flush") /\ pending' = Left
      /\ UNCHANGED <<c, asked, unread>>

\* A thread the phone asked for; one that was resumed and is new brings its history.
ReadThread ==
  LET t == First.thread
      fetch == First.req.kind = "resume thread" /\ ~Tracked(m, t)
  IN  /\ AnswerTo({"response"}, {"resume thread", "start thread", "fork"}) /\ Taken
      /\ Map(ResumeThread(Track(m, t), t, First.turn # 0, First.turn, TRUE))
      /\ Send(Left, IF fetch THEN {Request("history", t, 0, FALSE)} ELSE {})
      /\ Goto("flush")
      /\ UNCHANGED <<c, unread>>

\* Another page: a model list ends at its limit, a history does not.
ReadPage ==
  LET r == First.req
      more == r.kind = "history" \/ r.arg < MaxPages
  IN  /\ AnswerTo({"page"}, {"models", "select", "history"}) /\ Taken
      /\ Send(Left, IF more THEN {[r EXCEPT !.arg = @ + 1]} ELSE {})
      /\ Goto("flush")
      /\ KeepMap /\ UNCHANGED <<c, unread>>

\* show_models, unless the list is empty.
ReadModels ==
  /\ AnswerTo({"response"}, {"models"}) /\ Taken
  /\ \/ Goto("flush") /\ KeepMap /\ UNCHANGED c
     \/ Tracked(m, First.req.thread) /\ Show(Form(First.req.thread, "model"), {}, "flush")
  /\ pending' = Left
  /\ UNCHANGED <<asked, unread>>

\* validate_model_selection: the list has the model and the effort, or it does not.
Selections(s) == {c, SelectModel(c, s)}

ReadSelect ==
  /\ AnswerTo({"response"}, {"select"}) /\ Taken
  /\ c' \in Selections(First.req.thread)
  /\ Goto("flush") /\ pending' = Left
  /\ KeepMap /\ UNCHANGED <<asked, unread>>

\* The answers and errors that only lead to a message.
ReadReport ==
  /\ \/ AnswerTo({"response"}, {"history", "list", "edit", "interrupt", "steer"})
     \/ AnswerTo({"error"}, {"models", "select", "history", "list", "edit", "interrupt",
                             "steer", "resume thread", "start thread", "fork"})
  /\ Taken
  /\ Goto("flush") /\ pending' = Left
  /\ KeepMap /\ UNCHANGED <<c, asked, unread>>

\* A turn in plan mode cannot be asked for while the model is not known.
PlanFails ==
  /\ w.at = "prompts"
  /\ \E s \in w.todo : WantsTurn(s) /\ s \in c.planning /\ ~HasModel(s)
  /\ Fail(m, c)
  /\ UNCHANGED <<inbox, elsewhere>>

\* The App Server is gone: a write fails, or the read finds the connection closed.
LoseConnection ==
  /\ w.at \in {"flush", "acting", "commands", "prompts", "read"} /\ ~Up
  /\ Fail(m, IF w.at = "commands" /\ c.commands # <<>> THEN [c EXCEPT !.commands = Tail(@)] ELSE c)
  /\ UNCHANGED <<inbox, elsewhere>>

Read ==
  \/ ReadTimeout \/ ReadNotification \/ ReadTurn \/ ReadImplement \/ ReadTurnError
  \/ ReadObserve \/ ReadThread \/ ReadPage \/ ReadModels \/ ReadSelect \/ ReadReport
  \/ PlanFails \/ LoseConnection

\* run_client_proxy: the frame goes to the mapper as well, and an error is only logged.
ProxyReads(p) ==
  /\ Live /\ inbox[p] # <<>>
  /\ Map(Seen(Head(inbox[p])).map)
  /\ inbox' = [inbox EXCEPT ![p] = Tail(@)]
  /\ UNCHANGED <<c, w, pending, asked, unread>>
-----------------------------------------------------------------------------
(* The source, and what its calls do to the rest *)

controls == <<c, pending>>
Can(ok) == IF ok THEN UNCHANGED left ELSE Takes("faults")

\* begin_reconnect, and record_start_failure if the start cannot go on.
Start ==
  /\ source.start < left.starts
  /\ BeginStart
  /\ Map(ConnectAll(m, "reconnecting"))
  /\ before' = sent
  /\ UNCHANGED <<w, controls, appServer, sent, taken, cleared, left>>
Prepare ==
  /\ \E ok \in BOOLEAN : /\ Can(ok)
                        /\ \/ Probe(ok) \/ MakeDirectory(ok) \/ Launch(ok)
                           \/ Connect(ok) \/ Initialize(ok)
  /\ Map(IF source'.failing THEN ConnectAll(m, "disconnected") ELSE m)
  /\ UNCHANGED <<w, controls, appServer, history>>

\* The configured threads are resumed and subscribed to; a new App Server runs no turn.
ResumeThreads ==
  \E ok \in BOOLEAN, resumed \in SUBSET Configured :
    /\ Can(ok) /\ Resume(ok)
    /\ resumed = Configured <=> ~source'.failing
    /\ LET known == [m EXCEPT !.threads = [t \in Threads |->
                        IF t \in resumed THEN ResumeThread(m, t, FALSE, 0, TRUE).threads[t] ELSE @[t]]]
       IN  Map(IF source'.failing THEN ConnectAll(known, "disconnected") ELSE known)
    /\ server' = [server EXCEPT !.subscribed = resumed]
    /\ w' = IF source'.failing THEN w ELSE Worker("connected")
    /\ UNCHANGED <<controls, asked, inbox, history>>

\* What the controls hold from an earlier start stays, but for the inflight turns.
Spawn ==
  \E ok \in BOOLEAN :
    /\ Can(ok) /\ SpawnWorker(ok)
    /\ c' = IF ok THEN ClearAllInflight(c) ELSE c
    /\ Goto(IF ok THEN "flush" ELSE "none")
    /\ Map(IF ok THEN m ELSE ConnectAll(m, "disconnected"))
    /\ UNCHANGED <<pending, appServer, history>>

\* With the proxy the start is complete, unless the worker has failed already.
Complete ==
  /\ \E ok \in BOOLEAN : Can(ok) /\ (StartProxy(left.proxies # {}, ok) \/ (ok /\ CheckHealth))
  /\ Map(IF At("proxy") /\ source'.failing THEN ConnectAll(m, "disconnected") ELSE m)
  /\ UNCHANGED <<w, controls, appServer, history>>

Stop ==
  /\ BeginStop /\ Takes("stops")
  /\ UNCHANGED <<c, m, w, pending, open, appServer, history>>

\* The stop signal is seen at the top of the loop.  Without the ingress the worker leaves
\* where it is, and what it cannot publish any more the Bridge keeps: disconnect_all takes
\* out the first form of a thread before it fails.
Leave ==
  /\ At("join") /\ ~Ended /\ w.at # "connected"
  /\ IF Live THEN w.at = "flush" /\ UNCHANGED <<c, m>>
     ELSE /\ \E kept \in {m.live, {f \in m.live : \E g \in m.live : g.session = f.session /\ g.id < f.id}} :
               m' = [m EXCEPT !.live = kept]
          /\ c' = IF w.at = "showing" THEN Keep(c, c.pending \ {w.hand}) ELSE c
  /\ Goto("left") /\ pending' = {}
  /\ UNCHANGED <<open, sourceVars, appServer, history, left>>

\* The threads are joined, the proxy's first, ...
Join ==
  /\ \E ok \in BOOLEAN : Can(ok) /\ (JoinProxy(ok) \/ JoinWorker(Ended, ok))
  /\ w' = IF At("join") /\ source'.phase # "join" THEN Worker("none") ELSE w
  /\ inbox' = [r \in Routes |-> IF r = Observer THEN inbox[r] ELSE <<>>]
  /\ UNCHANGED <<c, m, pending, open, server, asked, history>>

\* ... the process ends, ...
Terminate ==
  /\ Reap \/ Kill
  /\ Down
  /\ UNCHANGED <<c, m, w, pending, open, history, left>>
Obey ==
  /\ At("terminate") /\ LeaderExits
  /\ Down
  /\ UNCHANGED <<c, m, w, pending, open, history, left>>

\* ... and its directory goes; a start that failed says so once more.
CleanUp ==
  /\ \E ok \in BOOLEAN : Can(ok) /\ (RemoveDirectory(ok) \/ (ok /\ Finish))
  /\ Map(IF At("finish") /\ source.failing THEN ConnectAll(m, "disconnected") ELSE m)
  /\ UNCHANGED <<w, controls, appServer, history>>

Call == Prepare \/ ResumeThreads \/ Spawn \/ Complete \/ Join \/ Terminate \/ CleanUp

Environment ==
  /\ \/ KidsExit /\ Takes("others")
     \/ OtherHost /\ Takes("others")
     \/ ProxyFails /\ Takes("faults")
  /\ UNCHANGED <<c, m, w, pending, open, appServer, history>>

\* Without the ingress, only what publishes nothing.
Work ==
  /\ ~(At("join") /\ w.at = "flush")
  /\ Flush \/ Read
  /\ Live \/ UNCHANGED <<m, open>>

Next ==
  \/ Work
  \/ \E p \in Proxies : ProxyReads(p)
  \/ Live /\ Phone
  \/ AppServer
  \/ Start \/ Call \/ Stop \/ Leave \/ Obey \/ Environment

\* The threads run; the App Server answers, and ends its turns.  The version probe need not
\* return.
Fairness ==
  /\ WF_vars(Work) /\ WF_vars(Leave) /\ WF_vars(~At("probe") /\ Call)
  /\ \A p \in Proxies : WF_vars(ProxyReads(p))
  /\ WF_vars(Respond)
  /\ \A t \in Threads : WF_vars(TurnEnds(t))

Spec == Init /\ [][Next]_vars /\ Fairness
-----------------------------------------------------------------------------
(* Properties *)

Runs == At("rest") /\ source.health = "running"
Alone == Runs /\ left.proxies = {}
Queued(s) == {c.prompts[s][i] : i \in 1..Len(c.prompts[s])}
PlanIsOpen(s) == \E f \in open : f.session = s /\ f.kind = "plan"

\* Without a desktop connection, a session has at most one turn/start that is not
\* answered, and none when a turn runs that the App Server could take it into: the flag
\* in inflight_turns, which observe_turn takes down by looking at the mapper once in a
\* round of the worker, never lets a prompt be sent again before its answer is read.
OneStartAtATime ==
  left.proxies = {} =>
    \A s \in Sessions :
      LET starts == {r \in pending : r.kind \in {"turn", "implement"} /\ r.thread = s}
      IN  /\ Cardinality(starts) <= 1
          /\ \A r \in starts : r \in asked => ~On(s).running

\* A prompt that accept took since the source was started is in its queue until the App
\* Server has it, over refused turns, pauses and turns of a desktop, and without a desktop
\* over crashes and failures of the worker too, as long as the phone has not cleared the
\* queue: pop_prompt takes out what front_prompt gave.  With a desktop a prompt may be sent
\* twice; the second answer takes out the prompt behind it, and the worker fails at once
\* ("queued prompt changed before turn/start completed").
NoPromptLost ==
  (left.proxies = {} \/ ~Ended) =>
    \A s \in Sessions \ cleared : \A p \in (before[s] + 1)..sent[s] :
      p \in Queued(s) \/ p \in taken[s]

\* Without a desktop connection, a prompt that waits in a queue that is not paused, and a
\* plan that waits for a decision, are served: the prompt is sent, or a plan is shown, or
\* as many forms are pending as there may be.
\* The worker finds this out by polling, so it must not miss a turn that ends, a form that
\* was closed or a plan that was refused.
WaitingIsServed ==
  \A s \in Configured :
    (Alone /\ (HasPlan(m, s) \/ (c.prompts[s] # <<>> /\ s \notin c.paused)))
      ~> (\/ ~Runs \/ PlanIsOpen(s) \/ Cardinality(c.pending) >= MaxChoices
          \/ ~HasPlan(m, s) /\ (c.prompts[s] = <<>> \/ s \in c.paused))

\* During the first start of the source a form the Bridge shows can be answered, or its
\* answer is just being published: `show` registers a form before it is published, and
\* flush_local_choices forgets only forms that the mapper has closed.
OpenIsAnswerable ==
  (Runs /\ source.start = 1) =>
    \A f \in open : f \in c.pending \/ (w.at = "chosen" /\ w.hand.form = f)

\* A turn that is recorded as completed does not become the active one again, whatever
\* late copies of its notifications the slower connections bring.  Two other kinds of frames
\* do reactivate it, since approval_context and resume_thread do not look at the completed
\* turns: an approval request, and the answer to the phone's request to resume a thread.
LateFramesAreIgnored ==
  [][\A t \in Threads :
       LET turn == m'.threads[t].active
       IN  (turn # m.threads[t].active /\ <<"completed", t, turn>> \in m.keys) =>
             \E r \in Routes :
               /\ inbox'[r] # inbox[r]
               /\ \/ Head(inbox[r]).kind = "request"
                  \/ Head(inbox[r]).req.kind = "resume thread"]_m

\* What the health of the Provider says when no call is under way: Running, that the
\* worker and the proxy run; Stopped, that no process of the group, no thread and no
\* directory is left.  A start that failed has released the process and the threads.
HealthIsTrue ==
  At("rest") =>
    /\ source.health = "running" => source.worker /\ ~Ended /\ (left.proxies # {} => Serves)
    /\ ~source.acquired => process = NoProcess /\ w.at = "none" /\ ~source.proxy
    /\ source.health = "stopped" => ~source.acquired /\ files.dir # "own"

\* A stop, and a start that has got the version of Codex, returns, whatever fails in it and
\* whatever the worker, the proxy and the App Server do meanwhile.  The version probe is
\* left out because on Unix it waits for its process without a limit.  The worker of this
\* module never waits for the Bridge, so the wait of NoLockCycle, in which stop_inner would
\* join it for ever, is left out too.
CallsReturn == (~At("rest") /\ ~At("probe")) ~> At("rest")

\* The next queued prompt is not blocked, with desktop connections either.
PromptsAreNotBlocked ==
  \A s \in Configured :
    (Runs /\ c.prompts[s] # <<>>)
      ~> (~Runs \/ s \in c.paused \/ HasPlan(m, s) \/ c.prompts[s] = <<>>)
=============================================================================
