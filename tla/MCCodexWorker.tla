--------------------------- MODULE MCCodexWorker ---------------------------
(* One configured thread, one that is found or started, and one desktop        *)
(* connection.  A scenario bounds what the environment does; the rest is free. *)
EXTENDS CodexWorker

CONSTANTS t1, t2, p1

MCThreads == {t1, t2}
MCConfigured == {t1}
MCProxies == {p1}

Nothing ==
  [prompts |-> 0, calls |-> 0, answers |-> 0, desktop |-> 0, threads |-> 0, status |-> 0,
   crashes |-> 0, faults |-> 0, others |-> 0, stops |-> 0, starts |-> 1, turns |-> 2,
   kinds |-> {}, actions |-> {}, items |-> {"plan"}, proxies |-> {}]

\* The phone alone: prompts, the commands on their queue, plans.
Prompts ==
  [Nothing EXCEPT !.prompts = 2, !.calls = 1, !.answers = 1, !.turns = 3,
     !.kinds = {"pause", "resume", "cancel", "plan on", "clear"},
     !.actions = {"implement", "revise"}]

\* Prompts over a crash, a stop and a restart.
Restart ==
  [Nothing EXCEPT !.prompts = 2, !.crashes = 1, !.stops = 1, !.starts = 2]

\* The other commands, with lists of more than one page and the forms for a model, and as
\* many forms as there may be.
Commands ==
  [Nothing EXCEPT !.calls = 1, !.answers = 2, !.turns = 1,
     !.kinds = {"status", "plan off", "models", "select", "list", "resume thread",
                "start thread", "fork", "edit"},
     !.actions = {"model", "select", "models", "cancel"}]
Limit ==
  [Nothing EXCEPT !.calls = 1, !.desktop = 1, !.turns = 1, !.kinds = {"models"},
     !.proxies = MCProxies]
Steer == [Nothing EXCEPT !.prompts = 1, !.calls = 1, !.turns = 1, !.kinds = {"steer"}]

\* A turn of a desktop between those of the phone, read at two speeds.
Desktop ==
  [Nothing EXCEPT !.prompts = 1, !.answers = 1, !.desktop = 1,
     !.actions = {"implement"}, !.proxies = MCProxies]
\* Two prompts, one of which may be taken for the turn of a desktop.
Twice ==
  [Nothing EXCEPT !.prompts = 2, !.desktop = 1, !.items = {}, !.proxies = MCProxies]
Requests1 == [Nothing EXCEPT !.prompts = 1, !.turns = 1, !.items = Items, !.proxies = MCProxies]

\* The phone resumes a thread on which a desktop has a turn.
Resumed ==
  [Nothing EXCEPT !.calls = 1, !.desktop = 1, !.turns = 1, !.kinds = {"resume thread"},
     !.items = {}, !.proxies = MCProxies]

\* A thread of a desktop is found, with a turn on it or a change of its status.
Discovery ==
  [Nothing EXCEPT !.desktop = 1, !.threads = 1, !.turns = 1, !.items = {},
     !.proxies = MCProxies]
Unknown ==
  [Nothing EXCEPT !.prompts = 1, !.calls = 1, !.threads = 1, !.turns = 0,
     !.kinds = {"plan on"}, !.proxies = MCProxies]
Status1 == [Nothing EXCEPT !.threads = 1, !.status = 1, !.turns = 1, !.proxies = MCProxies]

\* The calls of the host, with two failures anywhere in them.
Lifecycle ==
  [Nothing EXCEPT !.crashes = 1, !.faults = 2, !.others = 1, !.stops = 2, !.starts = 3,
     !.proxies = MCProxies]

MCScenarios ==
  {Prompts, Restart, Commands, Limit, Steer, Desktop, Twice, Requests1, Resumed, Discovery,
   Unknown, Status1, Lifecycle}

\* Two prompts of the phone while a desktop is connected.
MCMirrored == {[Nothing EXCEPT !.prompts = 2, !.proxies = MCProxies]}
=============================================================================
