---------------------------- MODULE RuntimeHost ----------------------------
(***************************************************************************)
(* Ownership, ingress and lifecycle of the adapters                        *)
(* (agentpulse-bridge/src/runtime.rs).  The host thread registers, starts, *)
(* stops and drops the adapters; a source's own thread calls the Bridge    *)
(* through a handle.  Every start issues a new permit, here a generation   *)
(* number, and a thread may still use the handle of any earlier one.       *)
(*                                                                         *)
(* A call takes two locks and keeps both until it returns: the permit of   *)
(* its handle, then the Bridge.  A thread's calls are a stack, because the *)
(* Bridge calls the adapters' ports and a port may call its own handle     *)
(* again.  A frame is [adapter, gen, at], where at is the lock the thread  *)
(* is to take next ("permit", "bridge") or "inside" the Bridge, or "done"  *)
(* inside it when the ports were called.  A call of the host itself has no *)
(* permit and adapter NoOne.                                               *)
(*                                                                         *)
(* SharedBridge.owner is set after the Bridge mutex is locked and cleared  *)
(* before it is unlocked, by its owner; since a thread only asks whether   *)
(* the owner is itself, `owner` stands for the mutex as well.              *)
(***************************************************************************)
EXTENDS Naturals, Sequences

CONSTANTS
  Order,           \* the adapters in the order of registration
  Channels,        \* those of them that are Channels
  Scoped,          \* Channels with ChannelSubscriptionScope::SourceGeneration
  Callers,         \* adapters whose source, on a thread of its own, uses its handle
  Reentrant,       \* adapters whose port calls its handle
  MaxGenerations   \* bound on the starts of an adapter

Adapters == {Order[i] : i \in 1..Len(Order)}
Host == "host"
NoOne == "none"
Threads == Callers \cup {Host}
Permits == Adapters \X (1..MaxGenerations)

ASSUME HostAssumption ==
  /\ Order \in Seq(Adapters)
  /\ \A i, j \in 1..Len(Order) : Order[i] = Order[j] => i = j
  /\ Host \notin Adapters /\ NoOne \notin Adapters
  /\ Scoped \subseteq Channels /\ Channels \subseteq Adapters
  /\ Callers \subseteq Adapters /\ Reentrant \subseteq Adapters
  /\ MaxGenerations \in Nat

VARIABLES
  state,        \* RuntimeHostState, or "Dropped"
  registered,   \* how many adapters are registered
  task,         \* what the host thread is doing, see Idle
  adapters,     \* [Adapters -> [state, gen, held]]; gen 0: no permit yet, and
                \*   held: the source may own resources that its stop releases
  active,       \* the permits that are active
  holder,       \* [Permits -> the thread that has locked it, or NoOne]
  owner,        \* the thread that has locked the Bridge, or NoOne
  stacks,       \* [Threads -> the calls the thread is in, the innermost first]
  subscribed,   \* Channels subscribed to the session
  direct        \* history: those subscribed by the host since the last clear

vars == <<state, registered, task, adapters, active, holder, owner, stacks,
          subscribed, direct>>
calls == <<holder, owner, stacks>>

\* The host thread's position: an operation, its phase, and the adapter it is at.
Idle == [op |-> "none", phase |-> "none", i |-> 0]

Init ==
  /\ state = "Stopped"
  /\ registered = 0
  /\ task = Idle
  /\ adapters = [a \in Adapters |-> [state |-> "Stopped", gen |-> 0, held |-> FALSE]]
  /\ active = {}
  /\ holder = [p \in Permits |-> NoOne]
  /\ owner = NoOne
  /\ stacks = [t \in Threads |-> <<>>]
  /\ subscribed = {}
  /\ direct = {}

Registered == {Order[i] : i \in 1..registered}
Permit(a) == <<a, adapters[a].gen>>
Free == task = Idle /\ stacks[Host] = <<>> /\ state # "Dropped"
At == Order[task.i]
-----------------------------------------------------------------------------
(* Calls *)

Frame(a, g, at) == [adapter |-> a, gen |-> g, at |-> at]
Busy(t) == stacks[t] # <<>>
Top(t) == Head(stacks[t])
MoveTo(t, at) == [stacks EXCEPT ![t][1].at = at]
Pop(t) == [stacks EXCEPT ![t] = Tail(@)]

\* publish_event, with_bridge_access: the handle still finds the Bridge.
Call(t, a, g) ==
  /\ ~Busy(t)
  /\ state # "Dropped"
  /\ stacks' = [stacks EXCEPT ![t] = <<Frame(a, g, "permit")>>]
  /\ UNCHANGED <<state, registered, task, adapters, active, holder, owner,
                 subscribed, direct>>

\* A source's thread uses the handle of this or an earlier start, ...
SourceCalls(a) == \E g \in 1..adapters[a].gen : Call(a, a, g)

\* ... and the host's thread uses it inside the source's start and stop callbacks.
CallbackCalls ==
  /\ task.phase \in {"starting", "stopping"}
  /\ At \in Callers
  /\ Call(Host, At, adapters[At].gen)

\* RuntimeHost::subscribe, unsubscribe and inspect_bridge.
HostCalls ==
  /\ Free
  /\ stacks' = [stacks EXCEPT ![Host] = <<Frame(NoOne, 0, "bridge")>>]
  /\ UNCHANGED <<state, registered, task, adapters, active, holder, owner,
                 subscribed, direct>>

\* Mutant: the permit is looked at but not kept.
EnterPermitMutant(t) ==
  LET p == <<Top(t).adapter, Top(t).gen>>
  IN  /\ Busy(t)
      /\ Top(t).at = "permit"
      /\ holder[p] = NoOne
      /\ stacks' = IF p \in active THEN MoveTo(t, "bridge") ELSE Pop(t)
      /\ UNCHANGED <<state, registered, task, adapters, active, holder, owner,
                     subscribed, direct>>

\* IngressPermit::enter: lock the permit and keep it if it is active; otherwise the
\* call returns Inactive.
EnterPermit(t) ==
  LET p == <<Top(t).adapter, Top(t).gen>>
  IN  /\ Busy(t)
      /\ Top(t).at = "permit"
      /\ holder[p] = NoOne
      /\ IF p \in active
         THEN holder' = [holder EXCEPT ![p] = t] /\ stacks' = MoveTo(t, "bridge")
         ELSE stacks' = Pop(t) /\ UNCHANGED holder
      /\ UNCHANGED <<state, registered, task, adapters, active, owner, subscribed, direct>>

\* What the innermost call of a thread has locked besides the Bridge is released.
Released(t) ==
  IF Top(t).adapter = NoOne THEN holder
  ELSE [holder EXCEPT ![<<Top(t).adapter, Top(t).gen>>] = NoOne]

\* SharedBridge::access: refuse a thread that owns the Bridge already, ...
RefuseReentry(t) ==
  /\ Busy(t)
  /\ Top(t).at = "bridge"
  /\ owner = t
  /\ holder' = Released(t)
  /\ stacks' = Pop(t)
  /\ UNCHANGED <<state, registered, task, adapters, active, owner, subscribed, direct>>

\* ... and lock it otherwise.
LockBridge(t) ==
  /\ Busy(t)
  /\ Top(t).at = "bridge"
  /\ owner = NoOne
  /\ owner' = t
  /\ stacks' = MoveTo(t, "inside")
  /\ UNCHANGED <<state, registered, task, adapters, active, holder, subscribed, direct>>

\* The ports an operation reaches: a Provider's event those of the subscribed
\* Channels, an action of a Channel its own and the Provider's, the host's any
\* Channel's.
Ports(a) ==
  IF a \in Channels THEN {a} \cup (Adapters \ Channels)
  ELSE IF a = NoOne THEN Channels ELSE subscribed

\* A port calls the handle its source was given last.
Reenter(t, a) ==
  /\ Busy(t)
  /\ Top(t).at = "inside"
  /\ a \in Ports(Top(t).adapter) \cap Reentrant
  /\ adapters[a].gen > 0
  /\ stacks' = [stacks EXCEPT ![t] =
                  <<Frame(a, adapters[a].gen, "permit")>> \o MoveTo(t, "done")[t]]
  /\ UNCHANGED <<state, registered, task, adapters, active, holder, owner,
                 subscribed, direct>>

\* The operation ends: a Channel may have subscribed or unsubscribed itself, the host
\* any registered Channel.  Bridge and permit are unlocked.
Return(t) ==
  /\ Busy(t)
  /\ Top(t).at \in {"inside", "done"}
  /\ \/ UNCHANGED <<subscribed, direct>>
     \/ \E c \in Channels \cap Registered :
          /\ Top(t).adapter \in {c, NoOne}
          /\ \/ /\ c \notin subscribed
                /\ subscribed' = subscribed \cup {c}
                /\ direct' = IF Top(t).adapter = NoOne THEN direct \cup {c} ELSE direct
             \/ /\ c \in subscribed
                /\ subscribed' = subscribed \ {c}
                /\ direct' = direct \ {c}
  /\ owner' = NoOne
  /\ holder' = Released(t)
  /\ stacks' = Pop(t)
  /\ UNCHANGED <<state, registered, task, adapters, active>>
-----------------------------------------------------------------------------
(* Lifecycle: the host thread *)

Goto(op, phase, i) == task' = [op |-> op, phase |-> phase, i |-> i]

\* RuntimeHost::register_provider and register_channel.
Register ==
  /\ Free
  /\ state = "Stopped"
  /\ registered < Len(Order)
  /\ owner = NoOne
  /\ registered' = registered + 1
  /\ UNCHANGED <<state, task, adapters, active, calls, subscribed, direct>>

\* RuntimeHost::start; in the other states it returns at once.
Start ==
  /\ Free
  /\ state = "Stopped"
  /\ \A a \in Registered : adapters[a].gen < MaxGenerations
  /\ Goto("start", "next", 1)
  /\ UNCHANGED <<state, registered, adapters, active, calls, subscribed, direct>>

\* RegisteredAdapter::start, up to the source's start callback.
StartAdapter ==
  /\ task.op = "start" /\ task.phase = "next"
  /\ task.i <= registered
  /\ adapters' = [adapters EXCEPT ![At] =
                    [state |-> "StartFailed", gen |-> @.gen + 1, held |-> TRUE]]
  /\ active' = active \cup {<<At, adapters[At].gen + 1>>}
  /\ Goto("start", "starting", task.i)
  /\ UNCHANGED <<state, registered, calls, subscribed, direct>>

\* The source started.
StartSucceeds ==
  /\ task.phase = "starting"
  /\ ~Busy(Host)
  /\ adapters' = [adapters EXCEPT ![At].state = "Running"]
  /\ Goto("start", "next", task.i + 1)
  /\ UNCHANGED <<state, registered, active, calls, subscribed, direct>>

\* The source failed to start: PermitRevoker is dropped, which waits for the permit.
StartFails ==
  /\ task.phase = "starting"
  /\ ~Busy(Host)
  /\ holder[Permit(At)] = NoOne
  /\ active' = active \ {Permit(At)}
  /\ Goto("start", "next", task.i + 1)
  /\ UNCHANGED <<state, registered, adapters, calls, subscribed, direct>>

Started ==
  /\ task.op = "start" /\ task.phase = "next"
  /\ task.i > registered
  /\ state' = "Started"
  /\ task' = Idle
  /\ UNCHANGED <<registered, adapters, active, calls, subscribed, direct>>

\* Mutant: the Bridge is locked before the ingress is revoked, to be cleared later.
StopMutant(op) ==
  /\ Free
  /\ op = "stop" => state # "Stopped"
  /\ owner = NoOne
  /\ owner' = Host
  /\ Goto(op, "revoke", 1)
  /\ UNCHANGED <<state, registered, adapters, active, holder, stacks, subscribed, direct>>

\* RuntimeHost::stop, which returns at once when stopped, and Drop, which does not.
Stop(op) ==
  /\ Free
  /\ op = "stop" => state # "Stopped"
  /\ Goto(op, "revoke", 1)
  /\ UNCHANGED <<state, registered, adapters, active, calls, subscribed, direct>>

\* Mutant: a permit is revoked without waiting for the call that holds it.
RevokeMutant ==
  /\ task.phase = "revoke"
  /\ task.i <= registered
  /\ active' = active \ {Permit(At)}
  /\ Goto(task.op, "revoke", task.i + 1)
  /\ UNCHANGED <<state, registered, adapters, calls, subscribed, direct>>

\* revoke_all_ingress: each permit is locked to be revoked.
Revoke ==
  /\ task.phase = "revoke"
  /\ task.i <= registered
  /\ adapters[At].gen > 0 => holder[Permit(At)] = NoOne
  /\ active' = active \ {Permit(At)}
  /\ Goto(task.op, "revoke", task.i + 1)
  /\ UNCHANGED <<state, registered, adapters, calls, subscribed, direct>>

\* clear_source_generation_subscriptions.
ClearSubscriptions ==
  /\ task.phase = "revoke"
  /\ task.i > registered
  /\ Scoped \cap Registered # {} => owner = NoOne
  /\ subscribed' = subscribed \ (Scoped \cap Registered)
  /\ direct' = direct \ Scoped
  /\ Goto(task.op, "sources", registered)
  /\ UNCHANGED <<state, registered, adapters, active, calls>>

\* The sources are stopped in reverse order; those that are stopped are skipped, ...
SkipAdapter ==
  /\ task.phase = "sources"
  /\ task.i > 0
  /\ adapters[At].state = "Stopped"
  /\ Goto(task.op, "sources", task.i - 1)
  /\ UNCHANGED <<state, registered, adapters, active, calls, subscribed, direct>>

\* ... for the others RegisteredAdapter::stop calls the source, ...
StopAdapter ==
  /\ task.phase = "sources"
  /\ task.i > 0
  /\ adapters[At].state # "Stopped"
  /\ holder[Permit(At)] = NoOne
  /\ active' = active \ {Permit(At)}
  /\ adapters' = [adapters EXCEPT ![At].state = "StopFailed"]
  /\ Goto(task.op, "stopping", task.i)
  /\ UNCHANGED <<state, registered, calls, subscribed, direct>>

\* ... which joins its thread and succeeds, or fails.
StopSucceeds ==
  /\ task.phase = "stopping"
  /\ ~Busy(Host)
  /\ At \in Callers => ~Busy(At)
  /\ adapters' = [adapters EXCEPT ![At].state = "Stopped", ![At].held = FALSE]
  /\ Goto(task.op, "sources", task.i - 1)
  /\ UNCHANGED <<state, registered, active, calls, subscribed, direct>>

StopFails ==
  /\ task.phase = "stopping"
  /\ ~Busy(Host)
  /\ Goto(task.op, "sources", task.i - 1)
  /\ UNCHANGED <<state, registered, adapters, active, calls, subscribed, direct>>

\* Mutant: failures of the sources are reported but not remembered.
StoppedMutant ==
  /\ task.op = "stop" /\ task.phase = "sources"
  /\ task.i = 0
  /\ state' = "Stopped"
  /\ task' = Idle
  /\ UNCHANGED <<registered, adapters, active, calls, subscribed, direct>>

Stopped ==
  /\ task.op = "stop" /\ task.phase = "sources"
  /\ task.i = 0
  /\ state' = IF \E a \in Registered : adapters[a].state = "StopFailed"
              THEN "StopFailed" ELSE "Stopped"
  /\ task' = Idle
  /\ UNCHANGED <<registered, adapters, active, calls, subscribed, direct>>

\* After a drop nothing refers to the Bridge any more.
Dropped ==
  /\ task.op = "drop" /\ task.phase = "sources"
  /\ task.i = 0
  /\ state' = "Dropped"
  /\ task' = Idle
  /\ UNCHANGED <<registered, adapters, active, calls, subscribed, direct>>

Next ==
  \/ \E a \in Callers : SourceCalls(a)
  \/ CallbackCalls \/ HostCalls
  \/ \E t \in Threads : EnterPermit(t) \/ RefuseReentry(t) \/ LockBridge(t) \/ Return(t)
  \/ \E t \in Threads, a \in Adapters : Reenter(t, a)
  \/ Register
  \/ Start \/ StartAdapter \/ StartSucceeds \/ StartFails \/ Started
  \/ \E op \in {"stop", "drop"} : Stop(op)
  \/ Revoke \/ ClearSubscriptions
  \/ SkipAdapter \/ StopAdapter \/ StopSucceeds \/ StopFails
  \/ Stopped \/ Dropped

Spec == Init /\ [][Next]_vars
-----------------------------------------------------------------------------
States == {"Stopped", "Running", "StartFailed", "StopFailed"}
Frames == [adapter : Adapters \cup {NoOne}, gen : 0..MaxGenerations,
           at : {"permit", "bridge", "inside", "done"}]

\* Every variable has its type.
TypeOK ==
  /\ state \in {"Stopped", "Started", "StopFailed", "Dropped"}
  /\ registered \in 0..Len(Order)
  /\ task \in [op : {"none", "start", "stop", "drop"},
               phase : {"none", "next", "starting", "revoke", "sources", "stopping"},
               i : 0..(Len(Order) + 1)]
  /\ adapters \in [Adapters -> [state : States, gen : 0..MaxGenerations, held : BOOLEAN]]
  /\ active \subseteq Permits
  /\ holder \in [Permits -> Threads \cup {NoOne}]
  /\ owner \in Threads \cup {NoOne}
  /\ stacks \in [Threads -> Seq(Frames)]
  /\ subscribed \subseteq Channels /\ direct \subseteq Channels

\* stop and drop are past revoke_all_ingress, or no start followed the last stop.
IngressRevoked ==
  \/ task.phase \in {"sources", "stopping"}
  \/ task.phase = "revoke" /\ task.i > registered
  \/ task = Idle /\ state # "Started"

\* Once stop or drop revoked the ingress, no source's call is inside the Bridge or on
\* its way past the permit, not even one that began before: revocation waits for the
\* calls under way, because a call keeps its permit locked (enter, revoke).
IngressIsOver ==
  IngressRevoked =>
    \A t \in Threads : \A i \in 1..Len(stacks[t]) :
      stacks[t][i].adapter # NoOne => stacks[t][i].at = "permit"

\* A source whose last start or stop left something to release is never started again
\* and never forgotten: a host that calls itself Stopped has released every source,
\* whichever callbacks failed on the way and were retried (start, stop).
StoppedIsClean ==
  /\ \A a \in Adapters : adapters[a].held <=> adapters[a].state # "Stopped"
  /\ state = "Stopped" /\ task = Idle => \A a \in Adapters : ~adapters[a].held
  /\ task.op = "start" =>
       \A i \in 1..registered :
         adapters[Order[i]].held => i < task.i \/ (i = task.i /\ task.phase = "starting")

\* No subscription a Channel made in one generation of a SourceGeneration source lasts
\* beyond it, even one that was being made while the host stopped; only the host
\* itself can subscribe such a Channel between two generations
\* (clear_source_generation_subscriptions).
GenerationsAreSeparate ==
  \/ task.phase \in {"sources", "stopping"}
  \/ task = Idle /\ state \in {"Stopped", "StopFailed", "Dropped"}
  => subscribed \cap Scoped \subseteq direct

\* What a thread waits for, and who has it.
WaitsFor(t) ==
  IF Busy(t)
  THEN CASE Top(t).at = "permit" -> holder[<<Top(t).adapter, Top(t).gen>>]
         [] Top(t).at = "bridge" /\ owner # t -> owner
         [] OTHER -> NoOne
  ELSE IF t # Host THEN NoOne
  ELSE CASE task.phase = "revoke" /\ task.i <= registered ->
              IF adapters[At].gen = 0 THEN NoOne ELSE holder[Permit(At)]
         [] task.phase = "revoke" /\ task.i > registered -> owner
         [] task.phase = "starting" -> holder[Permit(At)]
         [] task.phase = "stopping" /\ At \in Callers -> IF Busy(At) THEN At ELSE NoOne
         [] OTHER -> NoOne

\* Nobody waits for himself, and no threads wait for one another: permits are taken
\* before the Bridge by everybody, the host holds neither while it waits, and a
\* thread that owns the Bridge and calls it again is refused ("synchronous re-entry
\* into the Runtime Host is not allowed").  The exception is a
\* port that calls a handle that is in use; the re-entering Channel has no thread here.
NoWaitCycle ==
  \A ring \in SUBSET Threads :
    ring # {} => \E t \in ring : WaitsFor(t) \notin ring
=============================================================================
