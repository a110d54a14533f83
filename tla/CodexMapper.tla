---------------------------- MODULE CodexMapper ----------------------------
(***************************************************************************)
(* CodexEventMapper, which turns the frames of the App Server into events  *)
(* (agentpulse-providers/codex: mapper.rs).  The worker and every desktop  *)
(* proxy call it under its mutex.  Every operator is one call, from the    *)
(* state m before it to the state after it; a call that the code may fail  *)
(* has the result [map, ok], with what it did before it failed in map.     *)
(*                                                                         *)
(* A frame is [kind, thread, turn].  Turns are numbered per thread, and 0  *)
(* is no turn.  The execution states other than Running and                *)
(* WaitingForInteraction are one, "rest".                                  *)
(***************************************************************************)
EXTENDS Naturals, Sequences

CONSTANTS
  Threads,     \* Codex threads
  Configured   \* those of them that the configuration names

\* A thread of which the Provider has no session yet; model, whether its model is known.
Untracked ==
  [conn |-> "none", state |-> "rest", active |-> 0, proposed |-> 0, ready |-> 0,
   model |-> FALSE]

\* CodexEventMapper::new; ready is the turn whose plan waits for a decision, live are
\* the forms in local_choices, keys are recent_keys (without the bound on them).
NoMapper ==
  [threads |-> [t \in Threads |-> Untracked], configured |-> Configured, keys |-> {},
   resumes |-> {}, deferred |-> {}, live |-> {}]

Tracked(m, t) == m.threads[t].conn # "none"
HasPlan(m, t) == m.threads[t].ready # 0
ReadyPlans(m) == {t \in Threads : HasPlan(m, t) /\ m.threads[t].conn = "connected"}
FormsOf(m, t) == {f \in m.live : f.session = t}
CloseLocalChoices(m, t) == [m EXCEPT !.live = @ \ FormsOf(m, t)]
Ok(m) == [map |-> m, ok |-> TRUE]
Fails(m) == [map |-> m, ok |-> FALSE]

\* remember_key, without the limit on the keys.
Remember(m, key) == [m EXCEPT !.keys = @ \cup {key}]

\* map_loaded_state; an active thread may wait for the user.
LoadedState(status) ==
  CASE status = "active" -> "running"
    [] status = "asking" -> "waiting"
    [] status \in {"idle", "notLoaded"} -> "rest"
-----------------------------------------------------------------------------
(* publish_payload *)

\* StateChanged: a thread whose plan waits is not shown idle.
PublishState(m, t, state) ==
  [m EXCEPT !.threads[t].state =
     IF state = "rest" /\ HasPlan(m, t) THEN "waiting" ELSE state]

\* SessionEnded closes the thread's forms first, ...
PublishEnd(m, t) == [CloseLocalChoices(m, t) EXCEPT !.threads[t].state = "rest"]

\* ... and so does ConnectionChanged(Disconnected).
PublishConnection(m, t, conn) ==
  LET closed == IF conn = "disconnected" THEN CloseLocalChoices(m, t) ELSE m
  IN  [closed EXCEPT !.threads[t].conn = conn]

\* begin_reconnect and disconnect_all, which only publish what changes.
ConnectAll(m, conn) ==
  LET changed == {t \in Threads : Tracked(m, t) /\ m.threads[t].conn # conn}
      closed == IF conn = "disconnected" THEN changed ELSE {}
  IN  [m EXCEPT !.live = {f \in @ : f.session \notin closed},
                !.threads = [t \in Threads |->
                   IF t \in changed THEN [@[t] EXCEPT !.conn = conn] ELSE @[t]]]

DismissPlan(m, t) == [m EXCEPT !.threads[t].ready = 0]

\* local::dismiss_plan: the plan and its form go, and the session is idle again.
WithdrawPlan(m, t) ==
  LET without == [m EXCEPT !.live = {f \in @ : ~(f.session = t /\ f.kind = "plan")},
                           !.threads[t].ready = 0]
  IN  IF HasPlan(m, t) THEN PublishState(without, t, "rest") ELSE without

\* publish_local_choice: the plan may be gone since the worker looked.
PublishLocalChoice(m, f) ==
  IF f.kind = "plan" /\ ~HasPlan(m, f.session) THEN m ELSE [m EXCEPT !.live = @ \cup {f}]
-----------------------------------------------------------------------------
(* Subscriptions *)

RetryObserverResume(m, t) ==
  IF t \notin m.deferred THEN m
  ELSE [m EXCEPT !.deferred = @ \ {t}, !.resumes = @ \cup {t}]

\* resume_thread: what the App Server said of the thread is published, and its turn in
\* progress and its model, if they are told, are the ones that count.
ResumeThread(m, t, running, turn, model) ==
  LET state == LoadedState(IF running THEN "active" ELSE "idle")
      known == PublishState([m EXCEPT !.threads[t].conn = "connected"], t, state)
  IN  [IF Tracked(m, t) THEN known
       ELSE [m EXCEPT !.threads[t] =
               [Untracked EXCEPT !.conn = "connected", !.state = state]]
       EXCEPT !.threads[t].active = turn, !.threads[t].model = model]

\* track_discovered_thread.
Track(m, t) == [m EXCEPT !.configured = @ \cup {t}]

\* thread/started, with discover_threads: a new thread is to be subscribed to.
ThreadStarted(m, t) ==
  LET new == t \notin m.configured
  IN  ResumeThread([Track(m, t) EXCEPT !.resumes = IF new THEN @ \cup {t} ELSE @],
                   t, FALSE, 0, FALSE)
-----------------------------------------------------------------------------
(* notification *)

\* ensure_active_turn: a frame of a turn makes it the active one if there is none.
EnsureActiveTurn(m, t, turn) ==
  IF m.threads[t].active \in {0, turn}
  THEN Ok([m EXCEPT !.threads[t].active = turn])
  ELSE Fails(m)

\* turn_started: the forms go even if another turn is active, which is an error.
TurnStarted(m, t, turn) ==
  LET was == m.threads[t]
      closed == CloseLocalChoices(m, t)
      noted == IF was.state = "running" THEN closed ELSE Remember(closed, <<"started", t, turn>>)
  IN  IF was.active = turn THEN Ok(m)
      ELSE IF was.active # 0 THEN Fails(closed)
      ELSE Ok([noted EXCEPT !.threads[t] =
                 [@ EXCEPT !.active = turn, !.proposed = 0, !.ready = 0, !.state = "running"]])

\* item_started and file_change_patch_updated; what the item says is left out.
ItemStarted(m, t, turn) == EnsureActiveTurn(m, t, turn)

\* item_completed with a plan, which is kept until the turn ends.
ItemCompleted(m, t, turn) ==
  LET e == EnsureActiveTurn(m, t, turn)
  IN  IF ~e.ok THEN e
      ELSE Ok(Remember([e.map EXCEPT !.threads[t].proposed = turn], <<"plan", t, turn>>))

\* turn_completed: a turn that completed with a plan waits, any other ends the session.
TurnCompleted(m, t, turn, completed) ==
  LET e == EnsureActiveTurn(m, t, turn)
      ready == IF completed THEN e.map.threads[t].proposed ELSE 0
      planned == [e.map EXCEPT !.threads[t].ready = ready]
      told == IF ready # 0 THEN PublishState(planned, t, "waiting")
              ELSE PublishEnd(planned, t)
  IN  IF ~e.ok THEN e
      ELSE Ok(Remember([told EXCEPT !.threads[t].active = 0], <<"completed", t, turn>>))

\* status_changed and thread/closed.
StatusChanged(m, t, status) ==
  IF status = "notLoaded"
  THEN IF m.threads[t].conn = "disconnected" THEN m
       ELSE PublishConnection(m, t, "disconnected")
  ELSE PublishState([m EXCEPT !.threads[t].conn = "connected"], t, LoadedState(status))

ThreadSettingsUpdated(m, t) == [m EXCEPT !.threads[t].model = TRUE]

\* notification_key: a turn that was interrupted is told with turn/completed, too, and
\* an item that has not completed has no key.
NotificationKey(f) ==
  CASE f.kind \in {"started", "plan"} -> {<<f.kind, f.thread, f.turn>>}
    [] f.kind \in {"completed", "interrupted"} -> {<<"completed", f.thread, f.turn>>}
    [] f.kind = "item" -> {}

\* Mutant: frames of a completed turn are not turned away.
IsLateMutant(m, f) == NotificationKey(f) \cap m.keys # {}

\* A frame of a turn that is recorded as completed, or a second copy of one.
IsLate(m, f) ==
  \/ <<"completed", f.thread, f.turn>> \in m.keys
  \/ NotificationKey(f) \cap m.keys # {}

Notification(m, f) ==
  LET t == f.thread
  IN  CASE f.kind = "thread" -> Ok(ThreadStarted(m, t))
        [] f.kind # "thread" /\ ~Tracked(m, t) -> Ok(m)
        [] f.kind \in {"active", "asking", "idle", "notLoaded"} /\ Tracked(m, t) ->
             Ok(StatusChanged(RetryObserverResume(m, t), t, f.kind))
        [] f.kind = "settings" /\ Tracked(m, t) -> Ok(ThreadSettingsUpdated(m, t))
        [] f.kind \in {"started", "item", "plan", "completed", "interrupted"} /\ Tracked(m, t) ->
             IF IsLate(m, f) THEN Ok(m)
             ELSE CASE f.kind = "started" -> TurnStarted(m, t, f.turn)
                    [] f.kind = "item" -> ItemStarted(m, t, f.turn)
                    [] f.kind = "plan" -> ItemCompleted(m, t, f.turn)
                    [] OTHER -> TurnCompleted(m, t, f.turn, f.kind = "completed")

\* approval_context, for a request of the App Server.
ApprovalContext(m, t, turn) ==
  IF Tracked(m, t) THEN EnsureActiveTurn(m, t, turn) ELSE Ok(m)
=============================================================================
