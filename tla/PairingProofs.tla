---------------------------- MODULE PairingProofs ----------------------------
(***************************************************************************)
(* For any number of sessions, devices and workers: a pairing that fails   *)
(* in order leaves nothing in the store, a route is reported ready only    *)
(* while it is served, and cancelling the connector reaches every socket.  *)
(***************************************************************************)
EXTENDS Pairing, TLAPS

\* A token in the store belongs to a session that has issued it and has not failed, and it is
\* stored for the device that the session was asked to pair.
StoreInv ==
  \A d \in Devices, s \in Tokens : devices[d] = s =>
    /\ place[s] \in {"readying", "revoking", "answering"} \cup (Ended \ {"failed"})
    /\ place[s] \in {"readying", "revoking"} => client[s] = d

\* The socket of a connected worker is in the map of the canceller, or it has been shut once
\* the map was taken.
SocketInv ==
  \A t \in Tokens : work[t] \in Connected =>
    IF serve \in {"joining", "down"} THEN t \in shut ELSE t \in registered

IInv == TypeOK /\ StoreInv /\ ReadyIsServed /\ SocketInv

USE DEF Running, Ended, Connected, Returned, Workplaces

\* The initial state: the sessions of stored tokens succeeded, and there are no workers.
LEMMA InitIInv == Init => IInv
<1> SUFFICES ASSUME Init PROVE IInv
  OBVIOUS
<1> USE PairingAssumption, StoreAssumption
<1>1. TypeOK
  <2>1. (CHOOSE d \in Devices : TRUE) \in Devices
    OBVIOUS
  <2>2. client \in [Tokens -> Devices]
    BY <2>1 DEF Init
  <2> QED
    BY <2>2 DEF Init, ConnectorInit, TypeOK, ConnectorTypeOK
<1>2. StoreInv
  BY DEF Init, StoreInv
<1>3. ReadyIsServed /\ SocketInv
  BY DEF Init, ConnectorInit, ReadyIsServed, SocketInv
<1> QED
  BY <1>1, <1>2, <1>3 DEF IInv

----------------------------------------------------------------------------
(* The steps of the connector leave the store and the sessions alone.      *)

\* Every step of the connector keeps the types.
LEMMA ConnectorTypes ==
  ASSUME TypeOK, ConnectorNext, UNCHANGED pairingVars
  PROVE  TypeOK'
<1> USE DEF TypeOK, ConnectorTypeOK, pairingVars
<1>1. devices' = devices
  BY DEF ConnectorNext, StopServe, ServeStep, ReportStatus, RaiseCancelled, ShutSockets, Down,
         SupervisorStep, ReadRoutes, ApplyRoutes, HaltWorkers, JoinWorkers,
         WorkerStep, Loop, Dial, Greet, AnnounceReady, Wait, Pump, Leave
<1>2. CASE StopServe \/ ServeStep
  BY <1>1, <1>2 DEF StopServe, ServeStep, ReportStatus, RaiseCancelled, ShutSockets, Down
<1>3. CASE ReadRoutes
  <2>1. Digests \subseteq Tokens
    BY DEF Digests, Paired
  <2> QED
    BY <1>3, <2>1 DEF ReadRoutes
<1>4. CASE ApplyRoutes
  <2>1. PICK spawned \in SUBSET Missing :
          /\ work' = [t \in Tokens |-> IF t \in spawned THEN "looping"
                                       ELSE IF t \in Finished THEN "none" ELSE work[t]]
          /\ halted' = (halted \cup Retired) \ (spawned \cup Finished)
    BY <1>4 DEF ApplyRoutes
  <2>2. work' \in [Tokens -> Workplaces]
    BY <2>1
  <2>3. halted' \subseteq Tokens /\ ready' \subseteq Tokens
    BY <2>1, <1>4 DEF Retired, ApplyRoutes
  <2> QED
    BY <1>1, <1>4, <2>2, <2>3 DEF ApplyRoutes
<1>5. CASE HaltWorkers \/ JoinWorkers
  BY <1>1, <1>5 DEF HaltWorkers, JoinWorkers
<1>6. CASE \E t \in Tokens : WorkerStep(t) \/ Wait(t) \/ Pump(t)
  <2> SUFFICES ASSUME NEW t \in Tokens, WorkerStep(t) \/ Wait(t) \/ Pump(t) PROVE TypeOK'
    BY <1>6
  <2>1. work' \in [Tokens -> Workplaces]
    BY DEF WorkerStep, Loop, Dial, Greet, AnnounceReady, Wait, Pump, Leave, AfterReturn, GotoWork
  <2>2. ready' \subseteq Tokens /\ registered' \subseteq Tokens /\ shut' \subseteq Tokens
    BY DEF WorkerStep, Loop, Dial, Greet, AnnounceReady, Wait, Pump, Leave
  <2>3. UNCHANGED <<serve, supervisor, current, halted, reported>>
    BY DEF WorkerStep, Loop, Dial, Greet, AnnounceReady, Wait, Pump, Leave
  <2> QED
    BY <1>1, <2>1, <2>2, <2>3
<1> QED
  BY <1>2, <1>3, <1>4, <1>5, <1>6 DEF ConnectorNext, SupervisorStep

\* A worker puts its route into the ready routes when it has its registration and takes it
\* out before it goes on; a new worker is started only where none is registered.
LEMMA ConnectorReady ==
  ASSUME TypeOK, ReadyIsServed, ConnectorNext
  PROVE  ReadyIsServed'
<1> USE DEF TypeOK, ConnectorTypeOK, ReadyIsServed
<1>1. CASE StopServe \/ ServeStep
  BY <1>1 DEF StopServe, ServeStep, ReportStatus, RaiseCancelled, ShutSockets, Down
<1>2. CASE ReadRoutes \/ HaltWorkers \/ JoinWorkers
  BY <1>2 DEF ReadRoutes, HaltWorkers, JoinWorkers
<1>3. CASE ApplyRoutes
  <2>1. PICK spawned \in SUBSET Missing :
          work' = [t \in Tokens |-> IF t \in spawned THEN "looping"
                                    ELSE IF t \in Finished THEN "none" ELSE work[t]]
    BY <1>3 DEF ApplyRoutes
  <2>2. ready' \subseteq ready
    BY <1>3 DEF ApplyRoutes
  <2> QED
    BY <2>1, <2>2 DEF Missing, Finished
<1>4. ASSUME NEW t \in Tokens, WorkerStep(t) \/ Wait(t) \/ Pump(t)
      PROVE  ReadyIsServed'
  <2>1. CASE Loop(t) \/ Dial(t) \/ Greet(t)
    BY <2>1 DEF Loop, Dial, Greet, GotoWork
  <2>2. CASE AnnounceReady(t)
    BY <2>2 DEF AnnounceReady, GotoWork
  <2>3. CASE Wait(t) \/ Pump(t)
    BY <2>3 DEF Wait, Pump, GotoWork
  <2>4. CASE Leave(t)
    BY <2>4 DEF Leave, GotoWork
  <2> QED
    BY <1>4, <2>1, <2>2, <2>3, <2>4 DEF WorkerStep
<1> QED
  BY <1>1, <1>2, <1>3, <1>4 DEF ConnectorNext, SupervisorStep

\* register looks at the cancelled flag under the lock under which the map is taken, so a
\* socket is either in the map then or was never read from.
LEMMA ConnectorSockets ==
  ASSUME TypeOK, SocketInv, ConnectorNext
  PROVE  SocketInv'
<1> USE DEF TypeOK, ConnectorTypeOK, SocketInv
<1>1. CASE StopServe \/ ServeStep
  BY <1>1 DEF StopServe, ServeStep, ReportStatus, RaiseCancelled, ShutSockets, Down
<1>2. CASE ReadRoutes \/ HaltWorkers \/ JoinWorkers
  BY <1>2 DEF ReadRoutes, HaltWorkers, JoinWorkers
<1>3. CASE ApplyRoutes
  BY <1>3 DEF ApplyRoutes
<1>4. ASSUME NEW t \in Tokens, WorkerStep(t) \/ Wait(t) \/ Pump(t)
      PROVE  SocketInv'
  <2>1. CASE Loop(t)
    BY <2>1 DEF Loop, GotoWork
  <2>2. CASE Dial(t)
    BY <2>2 DEF Dial, GotoWork, IsCancelled
  <2>3. CASE Greet(t) \/ AnnounceReady(t) \/ Wait(t) \/ Pump(t)
    BY <2>3 DEF Greet, AnnounceReady, Wait, Pump, GotoWork
  <2>4. CASE Leave(t)
    BY <2>4 DEF Leave, GotoWork, AfterReturn
  <2> QED
    BY <1>4, <2>1, <2>2, <2>3, <2>4 DEF WorkerStep
<1> QED
  BY <1>1, <1>2, <1>3, <1>4 DEF ConnectorNext, SupervisorStep

\* The connector reads the store and never changes it.
LEMMA ConnectorStore ==
  ASSUME StoreInv, ConnectorNext, UNCHANGED pairingVars
  PROVE  StoreInv'
<1>1. devices' = devices
  BY DEF ConnectorNext, StopServe, ServeStep, ReportStatus, RaiseCancelled, ShutSockets, Down,
         SupervisorStep, ReadRoutes, ApplyRoutes, HaltWorkers, JoinWorkers,
         WorkerStep, Loop, Dial, Greet, AnnounceReady, Wait, Pump, Leave
<1> QED
  BY <1>1 DEF StoreInv, pairingVars

----------------------------------------------------------------------------
(* The sessions and the other commands leave the connector alone.          *)

\* A step of a session keeps the types.
LEMMA SessionTypes ==
  ASSUME TypeOK, NEW s \in Tokens, SessionNext(s)
  PROVE  TypeOK'
<1> USE DEF TypeOK, ConnectorTypeOK, connectorVars
<1> USE PairingAssumption
<1>1. CASE Bind(s) \/ Publish(s) \/ GiveUp(s) \/ Decide(s) \/ Ready(s) \/ GiveUpReady(s)
           \/ Answer(s) \/ Interrupt(s)
  BY <1>1 DEF Bind, Publish, GiveUp, Decide, Ready, GiveUpReady, Answer, Interrupt, Goto
<1>2. CASE Expire(s)
  BY <1>2 DEF Expire
<1>3. CASE Reject(s)
  BY <1>3 DEF Reject, Goto
<1>4. CASE \E d \in Devices : Request(s, d)
  BY <1>4 DEF Request, Goto
<1>5. CASE IssueToken(s)
  BY <1>5 DEF IssueToken, Issue, Goto
<1>6. CASE RevokeUnissued(s)
  BY <1>6 DEF RevokeUnissued, Revoke, Goto
<1> QED
  BY <1>1, <1>2, <1>3, <1>4, <1>5, <1>6 DEF SessionNext, SessionStep

\* A session stores its own token only, and the one that fails after that revokes it: the
\* client it was asked to pair is the device its token is stored for, if it is stored at all.
LEMMA SessionStore ==
  ASSUME TypeOK, StoreInv, NEW s \in Tokens, SessionNext(s)
  PROVE  StoreInv'
<1> USE DEF TypeOK, ConnectorTypeOK, StoreInv
<1> USE StoreAssumption
<1>1. CASE Bind(s) \/ Publish(s) \/ GiveUp(s) \/ Decide(s)
  BY <1>1 DEF Bind, Publish, GiveUp, Decide, Goto
<1>2. CASE Ready(s) \/ GiveUpReady(s) \/ Answer(s) \/ Interrupt(s)
  BY <1>2 DEF Ready, GiveUpReady, Answer, Interrupt, Goto
<1>3. CASE Expire(s)
  BY <1>3 DEF Expire
<1>4. CASE Reject(s)
  BY <1>4 DEF Reject, Goto
<1>5. CASE \E d \in Devices : Request(s, d)
  BY <1>5 DEF Request, Goto
<1>6. CASE IssueToken(s)
  BY <1>6 DEF IssueToken, Issue, Goto
<1>7. CASE RevokeUnissued(s)
  BY <1>7 DEF RevokeUnissued, Revoke, Goto
<1> QED
  BY <1>1, <1>2, <1>3, <1>4, <1>5, <1>6, <1>7 DEF SessionNext, SessionStep

\* What the properties of the connector speak of is not changed by sessions and commands.
LEMMA OthersLeaveConnector ==
  ASSUME NEW s \in Tokens, NEW d \in Devices, SessionNext(s) \/ RevokeDevice(d) \/ Rotate
  PROVE  UNCHANGED connectorVars
BY DEF SessionNext, SessionStep, Bind, Publish, GiveUp, Decide, Ready, GiveUpReady, Answer,
       Interrupt, Expire, Reject, Request, IssueToken, RevokeUnissued, RevokeDevice, Rotate

\* Commands only remove tokens from the store.
LEMMA CommandIInv ==
  ASSUME IInv, (\E d \in Devices : RevokeDevice(d)) \/ Rotate
  PROVE  IInv'
<1> USE DEF IInv, TypeOK, ConnectorTypeOK, connectorVars, pairingVars, Revoke, RevokeAll
<1>1. TypeOK'
  BY DEF RevokeDevice, Rotate
<1>2. StoreInv'
  BY StoreAssumption DEF RevokeDevice, Rotate, StoreInv
<1>3. ReadyIsServed' /\ SocketInv'
  BY DEF RevokeDevice, Rotate, ReadyIsServed, SocketInv
<1> QED
  BY <1>1, <1>2, <1>3

----------------------------------------------------------------------------
\* Every step of the Host, of a session or of a command keeps the invariant.
LEMMA NextIInv == IInv /\ [Next]_vars => IInv'
<1> SUFFICES ASSUME IInv, [Next]_vars PROVE IInv'
  OBVIOUS
<1>1. CASE ConnectorNext /\ UNCHANGED pairingVars
  BY <1>1, ConnectorTypes, ConnectorReady, ConnectorSockets, ConnectorStore DEF IInv
<1>2. ASSUME NEW s \in Tokens, SessionNext(s) PROVE IInv'
  <2>1. UNCHANGED connectorVars
    BY <1>2, OthersLeaveConnector, StoreAssumption
  <2>2. ReadyIsServed' /\ SocketInv'
    BY <2>1 DEF IInv, connectorVars, ReadyIsServed, SocketInv
  <2> QED
    BY <1>2, <2>2, SessionTypes, SessionStore DEF IInv
<1>3. CASE (\E d \in Devices : RevokeDevice(d)) \/ Rotate
  BY <1>3, CommandIInv
<1>4. CASE UNCHANGED vars
  BY <1>4 DEF vars, connectorVars, pairingVars, IInv, TypeOK, ConnectorTypeOK, StoreInv,
              ReadyIsServed, SocketInv
<1> QED
  BY <1>1, <1>2, <1>3, <1>4 DEF Next

\* The invariant holds in every state of every behaviour.
THEOREM PairingInvariant == Spec => []IInv
<1> QED
  BY InitIInv, NextIInv, PTL DEF Spec

\* A pairing that fails in order leaves no credential behind, with any number of sessions that
\* pair the same devices at the same time (serve_with_ready).
THEOREM FailedLeavesNothingAlways == Spec => []FailedLeavesNothing
<1>1. IInv => FailedLeavesNothing
  <2> SUFFICES ASSUME IInv, NEW s \in Tokens, place[s] = "failed", s \in Digests PROVE FALSE
    BY DEF FailedLeavesNothing
  <2>1. PICK d \in Devices : devices[d] = s
    BY DEF Digests, Paired
  <2> QED
    BY <2>1 DEF IInv, StoreInv
<1> QED
  BY <1>1, PairingInvariant, PTL

\* The status never names a route that no worker serves, whatever the supervisor, the workers
\* and the store do at the same time (RelayRuntimeState).
THEOREM ReadyIsServedAlways == Spec => []ReadyIsServed
<1>1. IInv => ReadyIsServed
  BY DEF IInv
<1> QED
  BY <1>1, PairingInvariant, PTL

\* After RelayConnectionCanceller::cancel no worker, of however many, reads from an open socket.
THEOREM CancelReachesAllAlways == Spec => []CancelReachesAll
<1>1. IInv => CancelReachesAll
  BY DEF IInv, SocketInv, CancelReachesAll
<1> QED
  BY <1>1, PairingInvariant, PTL

=============================================================================
