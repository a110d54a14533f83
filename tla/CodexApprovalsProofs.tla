------------------------ MODULE CodexApprovalsProofs ------------------------
(***************************************************************************)
(* Proofs about CodexApprovals, for any number of requests, of desktop     *)
(* clients, of turns and of restarts.  The inductive invariant             *)
(* ApprovalsInv adds to the properties what is known of a request that a   *)
(* thread has in its hands between two locks.                              *)
(***************************************************************************)
EXTENDS CodexApprovals, TLAPS

\* What a request that has come so far implies.
RequestsInv ==
  \A i \in Ids :
    /\ info[i].start = 0 => status[i] = "none" /\ wrote[i] = 0
    /\ info[i].start # 0 => info[i].req \in RequestIds
    /\ status[i] = "awaiting" => wrote[i] = 0
    /\ i \in outbound => wrote[i] = 0
    /\ status[i] = "sent" => wrote[i] = 1
    /\ wrote[i] <= 1

\* What the place of a thread implies for the request in its hands.
ThreadInv(r) ==
  /\ At(r) \in {"writing", "written", "registered", "unpublished"} \cup LockingPlaces =>
       threads[r].id \in Ids
  /\ At(r) \in {"writing", "written"} =>
       /\ info[threads[r].id].route = r
       /\ info[threads[r].id].start # 0
       /\ threads[r].id \notin outbound
       /\ status[threads[r].id] \in {"queued", "none"}
  /\ At(r) = "writing" => wrote[threads[r].id] = 0
  /\ At(r) \in {"written", "responding"} => wrote[threads[r].id] = 1
  /\ At(r) = "preparing" => threads[r].msg.req \in RequestIds
  /\ At(r) = "abandoned" => r = Observer
  /\ At(r) = "ending" => \A i \in Ids : info[i].route = r => status[i] = "none"

ThreadsInv == \A r \in Routes : ThreadInv(r)

\* A source that is not up has no thread; one that is was started.
HostInv ==
  /\ ~Up => \A r \in Routes : At(r) \in Ends
  /\ Up => source.start # 0

ApprovalsInv ==
  /\ TypeOK /\ RequestsInv /\ ThreadsInv /\ HostInv
  /\ ClaimsAreKept /\ IndexAgrees /\ RespondedWasWritten /\ NothingOutlivesItsRoute
-----------------------------------------------------------------------------
(* Types *)

LEMMA ThreadType ==
  ASSUME NEW at \in Places, NEW i \in Ids \cup {NoId}
  PROVE  Thread(at) \in ThreadStates /\ [Thread(at) EXCEPT !.id = i] \in ThreadStates
  BY DEF Thread, ThreadStates, NoMessage, Message, Messages, MessageKinds

LEMMA MessageType ==
  ASSUME NEW kind \in MessageKinds, NEW q \in Nat, NEW t \in Nat,
         kind \in {"request", "resolved"} => q \in RequestIds
  PROVE  Message(kind, q, t) \in Messages
  BY DEF Message, Messages

\* The source starts with no thread and no request.
LEMMA InitInv == Init => ApprovalsInv
<1> SUFFICES ASSUME Init PROVE ApprovalsInv OBVIOUS
<1> USE ApprovalsAssumption DEF Init
<1>1. TypeOK
  <2>1. Observer \in Routes BY DEF Routes
  <2>2. threads \in [Routes -> ThreadStates] BY ThreadType DEF Places
  <2>3. server \in [turn : Nat, running : BOOLEAN, next : Nat] OBVIOUS
  <2>4. requests \in [RequestIds -> [route : Routes, turn : Nat, by : Deciders]]
    BY <2>1 DEF Deciders
  <2>5. inbox \in [Routes -> Seq(Messages)] OBVIOUS
  <2>6. status \in [Ids -> Statuses] /\ told \in [Ids -> Tellings]
    BY DEF Statuses, Tellings
  <2>7. info \in [Ids -> [route : Routes, req : Nat, turn : Nat, start : Nat]] BY <2>1
  <2>8. source \in [phase : Phases, start : Nat] BY DEF Phases
  <2>9. index \in [Keys -> Ids \cup {NoId}] /\ wrote \in [Ids -> Nat] OBVIOUS
  <2>10. outbound \subseteq Ids /\ active \in Nat /\ caller \in Ids \cup {NoId} OBVIOUS
  <2> HIDE DEF Init
  <2>11. QED
    BY Zenon, <2>2, <2>3, <2>4, <2>5, <2>6, <2>7, <2>8, <2>9, <2>10 DEF TypeOK
<1>2. \A r \in Routes : At(r) = "done" BY DEF At, Thread
<1>3. RequestsInv BY DEF RequestsInv
<1>4. ThreadsInv BY <1>2 DEF ThreadsInv, ThreadInv, LockingPlaces
<1>5. HostInv BY <1>2 DEF HostInv, Up, Ends
<1>6. ClaimsAreKept BY DEF ClaimsAreKept, ClaimIsKept
<1>7. IndexAgrees BY DEF IndexAgrees
<1>8. RespondedWasWritten BY DEF RespondedWasWritten
<1>9. NothingOutlivesItsRoute BY DEF NothingOutlivesItsRoute
<1>10. QED
  BY <1>1, <1>3, <1>4, <1>5, <1>6, <1>7, <1>8, <1>9 DEF ApprovalsInv

\* The invariant but for the types.
Rest ==
  /\ RequestsInv /\ ThreadsInv /\ HostInv
  /\ ClaimsAreKept /\ IndexAgrees /\ RespondedWasWritten /\ NothingOutlivesItsRoute

LEMMA Unmoved ==
  ASSUME ApprovalsInv, UNCHANGED <<approvals, threads, wrote, told, source>>
  PROVE  Rest'
<1>1. RequestsInv' BY DEF ApprovalsInv, RequestsInv, approvals
<1>2. ThreadsInv' BY DEF ApprovalsInv, ThreadsInv, ThreadInv, approvals, At
<1>3. HostInv' BY DEF ApprovalsInv, HostInv, approvals, At, Up
<1>4. ClaimsAreKept' BY DEF ApprovalsInv, ClaimsAreKept, ClaimIsKept, approvals
<1>5. IndexAgrees' BY DEF ApprovalsInv, IndexAgrees, approvals, Key
<1>6. RespondedWasWritten' BY DEF ApprovalsInv, RespondedWasWritten
<1>7. NothingOutlivesItsRoute' BY DEF ApprovalsInv, NothingOutlivesItsRoute, approvals, At
<1>8. QED BY <1>1, <1>2, <1>3, <1>4, <1>5, <1>6, <1>7 DEF Rest

\* Only the App Server moves: the Provider's part of the invariant stays.
LEMMA ServerStepInv ==
  ASSUME ApprovalsInv, ServerStep
  PROVE  ApprovalsInv'
<1>1. TypeOK BY DEF ApprovalsInv
<1>2. UNCHANGED provider
  BY Zenon DEF ServerStep, StartTurn, CompleteTurn, Ask, Decide, FinishItem
<1>8. server \in [turn : Nat, running : BOOLEAN, next : Nat] BY <1>1 DEF TypeOK
<1>9. ASSUME NEW q \in RequestIds, NEW by \in {"desktop", "codex"}
      PROVE  [requests[q] EXCEPT !.by = by] \in [route : Routes, turn : Nat, by : Deciders]
  <2>1. requests[q] \in [route : Routes, turn : Nat, by : Deciders] BY <1>1 DEF TypeOK
  <2>2. by \in Deciders BY DEF Deciders
  <2>3. QED BY <2>1, <2>2
<1>3. RequestIds \subseteq Nat /\ 0 \in Nat BY ApprovalsAssumption DEF RequestIds
<1>4. ASSUME NEW m \in Messages PROVE Broadcast(m) \in [Routes -> Seq(Messages)]
  BY <1>1 DEF TypeOK, Broadcast
<1>5. ASSUME NEW m \in Messages, NEW r \in Routes PROVE Sent(r, m) \in [Routes -> Seq(Messages)]
  BY <1>1 DEF TypeOK, Sent
<1>6. TypeOK'
  <2>1. /\ server' \in [turn : Nat, running : BOOLEAN, next : Nat]
        /\ requests' \in [RequestIds -> [route : Routes, turn : Nat, by : Deciders]]
        /\ inbox' \in [Routes -> Seq(Messages)]
    <3>1. CASE StartTurn
      <4>1. Message("started", 0, server.turn + 1) \in Messages
        BY <1>1, MessageType DEF TypeOK, MessageKinds
      <4>2. server' \in [turn : Nat, running : BOOLEAN, next : Nat]
        <5> DEFINE t == server.turn + 1
        <5>1. t \in Nat BY <1>8
        <5>2. server' = [server EXCEPT !.turn = t, !.running = TRUE] BY <3>1 DEF StartTurn
        <5> HIDE DEF t
        <5>3. [server EXCEPT !.turn = t] \in [turn : Nat, running : BOOLEAN, next : Nat]
          BY <1>8, <5>1
        <5>4. server' = [[server EXCEPT !.turn = t] EXCEPT !.running = TRUE]
          BY <1>8, <5>2, Zenon
        <5>5. QED BY Zenon, <5>3, <5>4
      <4>3. requests' \in [RequestIds -> [route : Routes, turn : Nat, by : Deciders]]
        BY <1>1, <3>1 DEF TypeOK, StartTurn, Deciders
      <4>4. inbox' \in [Routes -> Seq(Messages)]
        BY <1>1, <1>4, <3>1, <4>1 DEF TypeOK, StartTurn
      <4>5. QED BY <4>2, <4>3, <4>4
    <3>2. CASE CompleteTurn
      <4>1. Message("completed", 0, server.turn) \in Messages
        BY <1>1, MessageType DEF TypeOK, MessageKinds
      <4>2. server' \in [turn : Nat, running : BOOLEAN, next : Nat]
        <5>1. server' = [server EXCEPT !.running = FALSE] BY <3>2 DEF CompleteTurn
        <5>2. QED BY Zenon, <1>8, <5>1
      <4>3. requests' \in [RequestIds -> [route : Routes, turn : Nat, by : Deciders]]
        <5>1. requests' = [q \in RequestIds |->
                             IF Open(q) THEN [requests[q] EXCEPT !.by = "codex"] ELSE requests[q]]
          BY <3>2 DEF CompleteTurn
        <5>2. ASSUME NEW q \in RequestIds
              PROVE  requests[q] \in [route : Routes, turn : Nat, by : Deciders]
          BY <1>1 DEF TypeOK
        <5>3. QED BY Zenon, <1>9, <5>1, <5>2
      <4>4. inbox' \in [Routes -> Seq(Messages)]
        BY <1>1, <1>4, <3>2, <4>1 DEF TypeOK, CompleteTurn
      <4>5. QED BY <4>2, <4>3, <4>4
    <3>3. ASSUME NEW r \in Routes, Ask(r) PROVE  /\ server' \in [turn : Nat, running : BOOLEAN, next : Nat]
               /\ requests' \in [RequestIds -> [route : Routes, turn : Nat, by : Deciders]]
               /\ inbox' \in [Routes -> Seq(Messages)]
      <4>1. Message("request", server.next, server.turn) \in Messages
        BY <1>1, <1>3, <3>3, MessageType DEF TypeOK, MessageKinds, Ask
      <4>2. server' \in [turn : Nat, running : BOOLEAN, next : Nat]
        <5>1. server' = [server EXCEPT !.next = @ + 1] BY <3>3 DEF Ask
        <5>2. QED BY <1>8, <5>1
      <4>3. requests' \in [RequestIds -> [route : Routes, turn : Nat, by : Deciders]]
        BY <1>1, <3>3 DEF TypeOK, Ask, Deciders
      <4>4. inbox' \in [Routes -> Seq(Messages)]
        BY <1>1, <1>5, <3>3, <4>1 DEF TypeOK, Ask
      <4>5. QED BY <4>2, <4>3, <4>4
    <3>4. ASSUME NEW q \in RequestIds, NEW by \in {"desktop", "codex"}, Decide(q, by) PROVE  /\ server' \in [turn : Nat, running : BOOLEAN, next : Nat]
               /\ requests' \in [RequestIds -> [route : Routes, turn : Nat, by : Deciders]]
               /\ inbox' \in [Routes -> Seq(Messages)]
      <4>1. Message("resolved", q, requests[q].turn) \in Messages
        BY <1>1, <1>3, MessageType DEF TypeOK, MessageKinds
      <4>2. server' \in [turn : Nat, running : BOOLEAN, next : Nat]
        <5>1. server' = server BY <3>4 DEF Decide
        <5>2. QED BY <1>1, <5>1, Zenon DEF TypeOK
      <4>3. requests' \in [RequestIds -> [route : Routes, turn : Nat, by : Deciders]]
        <5>1. requests' = [requests EXCEPT ![q] = [requests[q] EXCEPT !.by = by]]
          BY <3>4 DEF Decide
        <5>2. QED BY Zenon, <1>1, <1>9, <5>1 DEF TypeOK
      <4>4. inbox' \in [Routes -> Seq(Messages)]
        BY <1>1, <1>5, <3>4, <4>1 DEF TypeOK, Decide
      <4>5. QED BY <4>2, <4>3, <4>4
    <3>5. ASSUME NEW q \in RequestIds, FinishItem(q) PROVE  /\ server' \in [turn : Nat, running : BOOLEAN, next : Nat]
               /\ requests' \in [RequestIds -> [route : Routes, turn : Nat, by : Deciders]]
               /\ inbox' \in [Routes -> Seq(Messages)]
      <4>1. Message("item", q, requests[q].turn) \in Messages
        BY <1>1, <1>3, MessageType DEF TypeOK, MessageKinds
      <4>2. server' \in [turn : Nat, running : BOOLEAN, next : Nat]
        <5>1. server' = server BY <3>5 DEF FinishItem
        <5>2. QED BY <1>1, <5>1, Zenon DEF TypeOK
      <4>3. requests' \in [RequestIds -> [route : Routes, turn : Nat, by : Deciders]]
        <5>1. requests' = [requests EXCEPT ![q] = [requests[q] EXCEPT !.by = "codex"]]
          BY <3>5 DEF FinishItem
        <5>2. QED BY Zenon, <1>1, <1>9, <5>1 DEF TypeOK
      <4>4. inbox' \in [Routes -> Seq(Messages)]
        BY <1>1, <1>4, <3>5, <4>1 DEF TypeOK, FinishItem
      <4>5. QED BY <4>2, <4>3, <4>4
    <3>6. QED BY <3>1, <3>2, <3>3, <3>4, <3>5 DEF ServerStep
  <2>2. QED BY <1>1, <1>2, <2>1 DEF TypeOK, provider, approvals, mapper
<1>7. QED BY <1>2, <1>6, Unmoved DEF ApprovalsInv, Rest, provider
-----------------------------------------------------------------------------
(* Steps that only move a thread *)

\* Thread r may go to t without touching a request.
MayMove(r, t) ==
  /\ At(r) \notin Ends \/ Up
  /\ t \in ThreadStates
  /\ t.at \notin {"new", "writing", "written", "responding"}
  /\ t.at \in {"registered", "unpublished", "resolved elsewhere"} => t.id \in Ids
  /\ At(r) \in {"writing", "written", "closing all"} => t.at = "closing all"
  /\ t.at = "preparing" => t.msg.req \in RequestIds
  /\ t.at = "abandoned" => r = Observer
  /\ t.at \in {"ending", "done"} => At(r) = "ending"

\* It does so, and reads or publishes something.
QuietMove(r, t) ==
  /\ MayMove(r, t)
  /\ threads' = [threads EXCEPT ![r] = t]
  /\ UNCHANGED <<server, requests, approvals, wrote, caller, source>>
  /\ inbox' \in [Routes -> Seq(Messages)]
  /\ active' \in Nat
  /\ told' \in [Ids -> Tellings]
  /\ \A i \in Ids : told'[i] = "responded" => told[i] = "responded" \/ wrote[i] = 1

LEMMA QuietMoveInv ==
  ASSUME ApprovalsInv, NEW r \in Routes, NEW t, QuietMove(r, t)
  PROVE  ApprovalsInv'
<1>1. TypeOK BY DEF ApprovalsInv
<1>2. UNCHANGED <<server, requests, status, info, index, outbound, wrote, caller, source>>
  BY DEF QuietMove, approvals
<1>3. threads \in [Routes -> ThreadStates] BY <1>1 DEF TypeOK
<1>4. t \in ThreadStates BY DEF QuietMove, MayMove
<1>5. /\ threads' \in [Routes -> ThreadStates]
      /\ threads'[r] = t
      /\ \A s \in Routes : s # r => threads'[s] = threads[s]
  BY <1>3, <1>4 DEF QuietMove
<1>6. TypeOK'
  BY Zenon, <1>1, <1>2, <1>5 DEF TypeOK, QuietMove
<1>7. RequestsInv' BY <1>2 DEF ApprovalsInv, RequestsInv
<1>8. ThreadsInv'
  <2>1. ThreadInv(r)' BY ZenonT(60), <1>2, <1>5 DEF ApprovalsInv, ThreadsInv, ThreadInv, QuietMove, MayMove, At, LockingPlaces
  <2>2. ASSUME NEW s \in Routes, s # r PROVE ThreadInv(s)'
    BY <1>2, <1>5, <2>2 DEF ApprovalsInv, ThreadsInv, ThreadInv, At
  <2>3. QED BY <2>1, <2>2 DEF ThreadsInv
<1>9. HostInv'
  BY <1>2, <1>5 DEF ApprovalsInv, HostInv, QuietMove, MayMove, At, Up
<1>10. ClaimsAreKept'
  <2>1. SUFFICES ASSUME NEW i \in Ids PROVE ClaimIsKept(i)' BY DEF ClaimsAreKept
  <2>2. ClaimIsKept(i) /\ info[i].route \in Routes BY <1>1 DEF ApprovalsInv, ClaimsAreKept, TypeOK
  <2>3. CASE info[i].route = r
    BY <1>2, <1>5, <2>2, <2>3 DEF ClaimIsKept, QuietMove, MayMove, At
  <2>4. CASE info[i].route # r
    BY <1>2, <1>5, <2>2, <2>4 DEF ClaimIsKept
  <2>5. QED BY <2>3, <2>4
<1>11. IndexAgrees' BY <1>2 DEF ApprovalsInv, IndexAgrees, Key
<1>12. RespondedWasWritten' BY <1>2 DEF ApprovalsInv, RespondedWasWritten, QuietMove
<1>13. NothingOutlivesItsRoute'
  <2>1. SUFFICES ASSUME NEW i \in Ids, status[i] # "none"
                 PROVE  threads'[info[i].route].at \notin {"new", "done"}
    BY <1>2 DEF NothingOutlivesItsRoute, At
  <2>2. info[i].route \in Routes /\ At(info[i].route) \notin {"new", "done"}
    BY <1>1, <2>1 DEF ApprovalsInv, NothingOutlivesItsRoute, TypeOK
  <2>3. At(info[i].route) # "ending"
    BY <2>1, <2>2 DEF ApprovalsInv, ThreadsInv, ThreadInv
  <2>4. QED BY <1>5, <2>2, <2>3 DEF QuietMove, MayMove, At
<1>14. QED
  BY <1>6, <1>7, <1>8, <1>9, <1>10, <1>11, <1>12, <1>13 DEF ApprovalsInv
-----------------------------------------------------------------------------
(* Steps that take requests out *)

\* Thread r may go to t when it takes requests out.
MayTake(r, t) ==
  /\ At(r) \notin Ends \cup {"writing", "written"}
  /\ t \in ThreadStates
  /\ t.at \in {"loop", "closing", "closing all", "ending"} \cup LockingPlaces
  /\ t.at \in LockingPlaces => t.id \in Ids
  /\ t.at = "responding" => wrote[t.id] = 1
  /\ At(r) = "closing all" => t.at = "ending"
  /\ t.at = "ending" => \A i \in Ids : info[i].route = r => status'[i] = "none"

TakingMove(r, t, ids) ==
  /\ Removed(ids)
  /\ MayTake(r, t)
  /\ threads' = [threads EXCEPT ![r] = t]
  /\ UNCHANGED <<server, requests, wrote, mapper, told, caller, source>>
  /\ inbox' \in [Routes -> Seq(Messages)]

LEMMA TakingMoveInv ==
  ASSUME ApprovalsInv, NEW r \in Routes, NEW t, NEW ids \in SUBSET Ids, TakingMove(r, t, ids)
  PROVE  ApprovalsInv'
<1>1. TypeOK BY DEF ApprovalsInv
<1>2. UNCHANGED <<server, requests, info, wrote, active, told, caller, source>>
  BY DEF TakingMove, Removed, mapper
<1>3. threads \in [Routes -> ThreadStates] BY <1>1 DEF TypeOK
<1>4. t \in ThreadStates BY DEF TakingMove, MayTake
<1>5. /\ threads' \in [Routes -> ThreadStates]
      /\ threads'[r] = t
      /\ \A s \in Routes : s # r => threads'[s] = threads[s]
  BY <1>3, <1>4 DEF TakingMove
<1>6. /\ status' = [i \in Ids |-> IF i \in ids THEN "none" ELSE status[i]]
      /\ index' = [k \in Keys |-> IF index[k] \in ids THEN NoId ELSE index[k]]
      /\ outbound' = outbound \ ids
  BY DEF TakingMove, Removed
<1>7. TypeOK'
  <2>1. status' \in [Ids -> Statuses] BY <1>1, <1>6 DEF TypeOK, Statuses
  <2>2. index' \in [Keys -> Ids \cup {NoId}] BY <1>1, <1>6 DEF TypeOK
  <2>3. outbound' \subseteq Ids BY <1>1, <1>6 DEF TypeOK
  <2>4. QED BY <1>1, <1>2, <1>5, <2>1, <2>2, <2>3 DEF TypeOK, TakingMove
<1>8. RequestsInv' BY <1>2, <1>6 DEF ApprovalsInv, RequestsInv
<1>9. ThreadsInv'
  <2>1. ThreadInv(r)'
    BY <1>2, <1>5 DEF ThreadInv, TakingMove, MayTake, At, LockingPlaces
  <2>2. ASSUME NEW s \in Routes, s # r PROVE ThreadInv(s)'
    <3>1. ThreadInv(s) BY DEF ApprovalsInv, ThreadsInv
    <3>2. QED BY <1>2, <1>5, <1>6, <2>2, <3>1 DEF ThreadInv, At, LockingPlaces
  <2>3. QED BY <2>1, <2>2 DEF ThreadsInv
<1>10. HostInv'
  BY <1>2, <1>5 DEF ApprovalsInv, HostInv, TakingMove, MayTake, At, Up
<1>11. ClaimsAreKept'
  <2>1. SUFFICES ASSUME NEW i \in Ids PROVE ClaimIsKept(i)' BY DEF ClaimsAreKept
  <2>2. ClaimIsKept(i) /\ info[i].route \in Routes BY <1>1 DEF ApprovalsInv, ClaimsAreKept, TypeOK
  <2>3. CASE info[i].route = r
    BY <1>2, <1>5, <1>6, <2>2, <2>3 DEF ClaimIsKept, TakingMove, MayTake, At
  <2>4. CASE info[i].route # r
    BY <1>2, <1>5, <1>6, <2>2, <2>4 DEF ClaimIsKept
  <2>5. QED BY <2>3, <2>4
<1>12. IndexAgrees'
  BY <1>1, <1>2, <1>6, ApprovalsAssumption DEF ApprovalsInv, IndexAgrees, Key, TypeOK
<1>13. RespondedWasWritten' BY <1>2 DEF ApprovalsInv, RespondedWasWritten
<1>14. NothingOutlivesItsRoute'
  BY <1>1, <1>2, <1>5, <1>6 DEF ApprovalsInv, NothingOutlivesItsRoute, TakingMove, MayTake, At,
     TypeOK, LockingPlaces
<1>15. QED
  BY <1>7, <1>8, <1>9, <1>10, <1>11, <1>12, <1>13, <1>14 DEF ApprovalsInv
-----------------------------------------------------------------------------
(* The actions of these two kinds *)

LEMMA LoopAndFail ==
  ASSUME ApprovalsInv, NEW r \in Routes, At(r) \notin Ends
  PROVE  /\ MayMove(r, Thread("closing all"))
         /\ At(r) \notin {"writing", "written", "closing all"} => MayMove(r, Thread("loop"))
<1>1. Thread("closing all") \in ThreadStates /\ Thread("loop") \in ThreadStates
  BY ThreadType DEF Places
<1>2. Thread("closing all").at = "closing all" /\ Thread("loop").at = "loop" BY DEF Thread
<1>3. QED BY <1>1, <1>2 DEF MayMove

\* FailFrame leads to one of the two.
LEMMA FailFrameMoves ==
  ASSUME ApprovalsInv, NEW r \in Routes, FailFrame(r),
         At(r) \notin Ends \cup {"writing", "written", "closing all"}
  PROVE  \E t : MayMove(r, t) /\ threads' = [threads EXCEPT ![r] = t]
  BY LoopAndFail DEF FailFrame, Goto

\* What is known when a message is read.
LEMMA ReadType ==
  ASSUME ApprovalsInv, NEW r \in Routes, NEW kinds, Reads(r, kinds)
  PROVE  /\ Head(inbox[r]) \in Messages
         /\ Head(inbox[r]).kind \in kinds
         /\ inbox' \in [Routes -> Seq(Messages)]
         /\ UNCHANGED <<server, requests>>
         /\ At(r) = "loop"
<1>1. inbox \in [Routes -> Seq(Messages)] BY DEF ApprovalsInv, TypeOK
<1>2. inbox[r] \in Seq(Messages) /\ inbox[r] # <<>> BY <1>1 DEF Reads
<1>3. Head(inbox[r]) \in Messages /\ Tail(inbox[r]) \in Seq(Messages) BY <1>2
<1>4. QED BY <1>1, <1>3 DEF Reads

LEMMA KeptTypes ==
  ASSUME ApprovalsInv
  PROVE  /\ UNCHANGED inbox => inbox' \in [Routes -> Seq(Messages)]
         /\ UNCHANGED active => active' \in Nat
         /\ UNCHANGED told =>
              /\ told' \in [Ids -> Tellings]
              /\ \A i \in Ids : told'[i] = "responded" => told[i] = "responded" \/ wrote[i] = 1
  BY DEF ApprovalsInv, TypeOK

\* The ends of a thread, and its beginning.
LEMMA ThreadEndsInv ==
  ASSUME ApprovalsInv, NEW r \in Routes,
         \/ LoseConnection(r) \/ WriteFails(r) \/ PrepareFails(r) \/ Ended(r)
         \/ r = Observer /\ ControlFails
         \/ Accept(r)
  PROVE  ApprovalsInv'
<1>1. CASE LoseConnection(r) \/ WriteFails(r)
  <2>1. QuietMove(r, Thread("closing all"))
    BY <1>1, LoopAndFail, KeptTypes
    DEF LoseConnection, WriteFails, FailThread, Goto, QuietMove, Ends, appServer, mapper
  <2>2. QED BY <2>1, QuietMoveInv
<1>2. CASE PrepareFails(r)
  <2>1. PICK t : MayMove(r, t) /\ threads' = [threads EXCEPT ![r] = t]
    BY <1>2, FailFrameMoves DEF PrepareFails, Ends
  <2>2. QuietMove(r, t)
    BY <1>2, <2>1, KeptTypes DEF PrepareFails, QuietMove, appServer, mapper
  <2>3. QED BY <2>2, QuietMoveInv
<1>3. ASSUME NEW at \in {"done", "abandoned"}, Leave(r, at), MayMove(r, Thread(at))
      PROVE  ApprovalsInv'
  <2>1. inbox' \in [Routes -> Seq(Messages)] BY <1>3 DEF ApprovalsInv, TypeOK, Leave
  <2>2. QuietMove(r, Thread(at))
    BY <1>3, <2>1, KeptTypes DEF Leave, Goto, QuietMove, mapper
  <2>3. QED BY <2>2, QuietMoveInv
<1>4. Thread("done") \in ThreadStates /\ Thread("abandoned") \in ThreadStates
  BY ThreadType DEF Places
<1>5. /\ Thread("done").at = "done" /\ Thread("abandoned").at = "abandoned"
      /\ Thread("loop").at = "loop"
  BY DEF Thread
<1>6. CASE Ended(r)
  <2>1. MayMove(r, Thread("done")) BY <1>4, <1>5, <1>6 DEF MayMove, Ended, Ends
  <2>2. QED BY <1>3, <1>6, <2>1 DEF Ended
<1>7. CASE r = Observer /\ ControlFails
  <2>1. MayMove(r, Thread("abandoned")) BY <1>4, <1>5, <1>7 DEF MayMove, ControlFails, Ends
  <2>2. QED BY <1>3, <1>7, <2>1 DEF ControlFails
<1>8. CASE Accept(r)
  <2>1. Thread("loop") \in ThreadStates BY ThreadType DEF Places
  <2>2. MayMove(r, Thread("loop")) BY <1>5, <1>8, <2>1 DEF MayMove, Accept, Up
  <2>3. QuietMove(r, Thread("loop"))
    BY <1>8, <2>2, KeptTypes DEF Accept, Goto, QuietMove, appServer, mapper
  <2>4. QED BY <2>3, QuietMoveInv
<1>9. QED BY <1>1, <1>2, <1>6, <1>7, <1>8

\* turn/started, and a request as far as its context.
LEMMA ReadingInv ==
  ASSUME ApprovalsInv, NEW r \in Routes, TurnStarted(r) \/ ApprovalContext(r)
  PROVE  ApprovalsInv'
<1>1. CASE TurnStarted(r)
  <2>1. /\ inbox' \in [Routes -> Seq(Messages)] /\ UNCHANGED <<server, requests>>
        /\ At(r) = "loop" /\ Head(inbox[r]).turn \in Nat
    BY <1>1, ReadType DEF TurnStarted, Messages
  <2>2. active' \in Nat
    BY <1>1, <2>1 DEF ApprovalsInv, TypeOK, TurnStarted
  <2>3. \E t : MayMove(r, t) /\ threads' = [threads EXCEPT ![r] = t]
    <3>1. CASE UNCHANGED threads
      <4>1. threads[r] \in ThreadStates /\ threads' = [threads EXCEPT ![r] = threads[r]]
        BY <3>1 DEF ApprovalsInv, TypeOK
      <4>2. MayMove(r, threads[r]) BY <2>1, <4>1 DEF MayMove, At, Ends
      <4>3. QED BY Zenon, <4>1, <4>2
    <3>2. CASE FailFrame(r) BY <2>1, <3>2, FailFrameMoves DEF Ends
    <3>3. QED BY <1>1, <3>1, <3>2 DEF TurnStarted
  <2>4. PICK t : MayMove(r, t) /\ threads' = [threads EXCEPT ![r] = t] BY Zenon, <2>3
  <2>5. QuietMove(r, t)
    BY <1>1, <2>1, <2>2, <2>4, KeptTypes DEF TurnStarted, QuietMove
  <2>6. QED BY <2>5, QuietMoveInv
<1>2. CASE ApprovalContext(r)
  <2> DEFINE m == Head(inbox[r])
             p == [Thread("preparing") EXCEPT !.msg = m]
  <2>1. /\ inbox' \in [Routes -> Seq(Messages)] /\ UNCHANGED <<server, requests>>
        /\ At(r) = "loop" /\ m \in Messages /\ m.kind = "request"
    BY <1>2, ReadType DEF ApprovalContext
  <2>2. m.turn \in Nat /\ m.req \in RequestIds BY <2>1 DEF Messages
  <2>3. active' \in Nat BY <1>2, <2>2 DEF ApprovalsInv, TypeOK, ApprovalContext
  <2>4. MayMove(r, p)
    <3>1. p \in ThreadStates /\ p.at = "preparing" /\ p.msg = m
      <4> HIDE DEF m
      <4>1. Thread("preparing") \in ThreadStates BY ThreadType DEF Places
      <4>2. QED BY <2>1, <4>1 DEF Thread, ThreadStates
    <3>2. QED BY <2>1, <2>2, <3>1 DEF MayMove, Ends
  <2>5. \E t : MayMove(r, t) /\ threads' = [threads EXCEPT ![r] = t]
    <3>1. CASE FailFrame(r) BY <2>1, <3>1, FailFrameMoves DEF Ends
    <3>2. CASE threads' = [threads EXCEPT ![r] = p] BY Zenon, <2>4, <3>2
    <3>3. QED BY <1>2, <3>1, <3>2 DEF ApprovalContext
  <2>6. PICK t : MayMove(r, t) /\ threads' = [threads EXCEPT ![r] = t] BY Zenon, <2>5
  <2>7. QuietMove(r, t)
    BY <1>2, <2>1, <2>3, <2>6, KeptTypes DEF ApprovalContext, QuietMove
  <2>8. QED BY <2>7, QuietMoveInv
<1>3. QED BY <1>1, <1>2

\* What a thread publishes about one request changes only that.
LEMMA TellType ==
  ASSUME ApprovalsInv, NEW i, NEW event \in Tellings,
         told' = [told EXCEPT ![i] = event],
         event = "responded" /\ i \in Ids => wrote[i] = 1
  PROVE  /\ told' \in [Ids -> Tellings]
         /\ \A j \in Ids : told'[j] = "responded" => told[j] = "responded" \/ wrote[j] = 1
<1>1. told \in [Ids -> Tellings] BY DEF ApprovalsInv, TypeOK
<1>2. told' \in [Ids -> Tellings] BY Zenon, <1>1
<1>3. ASSUME NEW j \in Ids, told'[j] = "responded"
      PROVE  told[j] = "responded" \/ wrote[j] = 1
  BY <1>1, <1>3
<1>4. QED BY <1>2, <1>3

\* A thread with something left to publish stays where it is.
LEMMA TodoMoves ==
  ASSUME ApprovalsInv, NEW r \in Routes, NEW i, At(r) \in {"closing", "ending"},
         Done(r, i)
  PROVE  \E t : MayMove(r, t) /\ threads' = [threads EXCEPT ![r] = t]
<1> DEFINE t == [threads[r] EXCEPT !.todo = @ \ {i}]
<1>1. threads[r] \in ThreadStates BY DEF ApprovalsInv, TypeOK
<1>2. t \in ThreadStates /\ t.at = At(r) BY <1>1 DEF ThreadStates, At
<1>3. threads' = [threads EXCEPT ![r] = t] BY DEF Done
<1>4. MayMove(r, t)
  <2> HIDE DEF t
  <2>1. QED BY <1>2 DEF MayMove, Ends
<1>5. QED BY Zenon, <1>3, <1>4

\* The requested, resolved and closed events of a frame.
LEMMA PublishingInv ==
  ASSUME ApprovalsInv, NEW r \in Routes,
         \/ PublishRequest(r) \/ PublishResolved(r)
         \/ \E i \in Ids : PublishClosed(r, i) \/ PublishEnding(r, i)
  PROVE  ApprovalsInv'
<1>1. CASE PublishRequest(r)
  <2> DEFINE i == threads[r].id
             u == [Thread("unpublished") EXCEPT !.id = i]
  <2>1. i \in Ids /\ At(r) = "registered"
    BY <1>1 DEF PublishRequest, ApprovalsInv, ThreadsInv, ThreadInv
  <2> HIDE DEF i
  <2>2. MayMove(r, Thread("loop")) BY <2>1, LoopAndFail DEF Ends
  <2>3. u \in ThreadStates /\ u.at = "unpublished" /\ u.id = i
    <3>1. u \in ThreadStates BY <2>1, ThreadType DEF Places
    <3>2. QED BY <3>1 DEF Thread
  <2>4. MayMove(r, u) BY <2>1, <2>3 DEF MayMove, Ends
  <2>5. \/ told' = [told EXCEPT ![i] = "open"] /\ threads' = [threads EXCEPT ![r] = Thread("loop")]
        \/ threads' = [threads EXCEPT ![r] = u] /\ UNCHANGED told
    BY <1>1 DEF PublishRequest, Goto, GotoWith, i
  <2>6. PICK t : MayMove(r, t) /\ threads' = [threads EXCEPT ![r] = t] BY <2>2, <2>4, <2>5
  <2>7. /\ told' \in [Ids -> Tellings]
        /\ \A j \in Ids : told'[j] = "responded" => told[j] = "responded" \/ wrote[j] = 1
    BY <2>5, TellType, KeptTypes DEF Tellings
  <2>8. QuietMove(r, t)
    BY <1>1, <2>6, <2>7, KeptTypes DEF PublishRequest, QuietMove, appServer, mapper
  <2>9. QED BY <2>8, QuietMoveInv
<1>2. CASE PublishResolved(r)
  <2> DEFINE i == threads[r].id
             event == IF At(r) = "responding" THEN "responded" ELSE "elsewhere"
  <2>1. i \in Ids /\ At(r) \in LockingPlaces
    BY <1>2 DEF PublishResolved, ApprovalsInv, ThreadsInv, ThreadInv
  <2>2. event \in Tellings /\ (event = "responded" => wrote[i] = 1)
    BY DEF Tellings, ApprovalsInv, ThreadsInv, ThreadInv
  <2>3. MayMove(r, Thread("loop")) BY <2>1, LoopAndFail DEF Ends, LockingPlaces
  <2>4. \/ told' = [told EXCEPT ![i] = event] /\ threads' = [threads EXCEPT ![r] = Thread("loop")]
        \/ FailFrame(r) /\ UNCHANGED told
    BY <1>2 DEF PublishResolved, Goto
  <2> HIDE DEF i, event
  <2>5. \E t : MayMove(r, t) /\ threads' = [threads EXCEPT ![r] = t]
    BY <2>1, <2>3, <2>4, FailFrameMoves DEF Ends, LockingPlaces
  <2>6. PICK t : MayMove(r, t) /\ threads' = [threads EXCEPT ![r] = t] BY Zenon, <2>5
  <2>7. /\ told' \in [Ids -> Tellings]
        /\ \A j \in Ids : told'[j] = "responded" => told[j] = "responded" \/ wrote[j] = 1
    BY Zenon, <2>2, <2>4, TellType, KeptTypes
  <2>8. QuietMove(r, t)
    BY <1>2, <2>6, <2>7, KeptTypes DEF PublishResolved, QuietMove, appServer, mapper
  <2>9. QED BY <2>8, QuietMoveInv
<1>3. ASSUME NEW i \in Ids, PublishClosed(r, i) PROVE ApprovalsInv'
  <2>1. \E t : MayMove(r, t) /\ threads' = [threads EXCEPT ![r] = t]
    <3>1. At(r) = "closing" BY <1>3 DEF PublishClosed
    <3>2. CASE Done(r, i)
      <4>1. At(r) \in {"closing", "ending"} BY <3>1
      <4>2. QED BY <3>2, <4>1, TodoMoves
    <3>3. CASE FailFrame(r) BY <3>1, <3>3, FailFrameMoves DEF Ends
    <3>4. QED BY <1>3, <3>2, <3>3 DEF PublishClosed
  <2>2. PICK t : MayMove(r, t) /\ threads' = [threads EXCEPT ![r] = t] BY Zenon, <2>1
  <2>3. told' = [told EXCEPT ![i] = "cancelled"] \/ UNCHANGED told BY <1>3 DEF PublishClosed
  <2>4. /\ told' \in [Ids -> Tellings]
        /\ \A j \in Ids : told'[j] = "responded" => told[j] = "responded" \/ wrote[j] = 1
    BY <2>3, TellType, KeptTypes DEF Tellings
  <2>5. QuietMove(r, t)
    BY <1>3, <2>2, <2>4, KeptTypes DEF PublishClosed, QuietMove, appServer, mapper
  <2>6. QED BY <2>5, QuietMoveInv
<1>4. ASSUME NEW i \in Ids, PublishEnding(r, i) PROVE ApprovalsInv'
  <2>1. PICK t : MayMove(r, t) /\ threads' = [threads EXCEPT ![r] = t]
    <3>1. At(r) \in {"closing", "ending"} BY <1>4 DEF PublishEnding
    <3>2. Done(r, i) BY <1>4 DEF PublishEnding
    <3>3. QED BY <3>1, <3>2, TodoMoves
  <2>2. told' = [told EXCEPT ![i] = "cancelled"] \/ UNCHANGED told BY <1>4 DEF PublishEnding
  <2>3. /\ told' \in [Ids -> Tellings]
        /\ \A j \in Ids : told'[j] = "responded" => told[j] = "responded" \/ wrote[j] = 1
    BY <2>2, TellType, KeptTypes DEF Tellings
  <2>4. QuietMove(r, t)
    BY <1>4, <2>1, <2>3, KeptTypes DEF PublishEnding, QuietMove, appServer, mapper
  <2>5. QED BY <2>4, QuietMoveInv
<1>5. QED BY <1>1, <1>2, <1>3, <1>4

\* The mapper's part of item/completed and turn/completed.
LEMMA NotifyingInv ==
  ASSUME ApprovalsInv, NEW r \in Routes,
         NotifyItem(r) \/ \E plan \in BOOLEAN : NotifyTurn(r, plan)
  PROVE  ApprovalsInv'
<1>1. At(r) = "closing" BY DEF NotifyItem, NotifyTurn
<1>2. threads[r].msg.turn \in Nat /\ active \in Nat
  BY DEF ApprovalsInv, TypeOK, ThreadStates, Messages
<1>3. FailFrame(r) \/ Goto(r, "loop") BY DEF NotifyItem, NotifyTurn
<1>4. PICK t : MayMove(r, t) /\ threads' = [threads EXCEPT ![r] = t]
  BY <1>1, <1>3, LoopAndFail, FailFrameMoves DEF Goto, Ends
<1>5. active' \in Nat BY <1>2 DEF NotifyItem, NotifyTurn, mapper
<1>6. /\ told' \in [Ids -> Tellings]
      /\ \A i \in Ids : told'[i] = "responded" => told[i] = "responded" \/ wrote[i] = 1
  <2>1. told \in [Ids -> Tellings] BY DEF ApprovalsInv, TypeOK
  <2>2. \/ UNCHANGED told
        \/ \E plan \in BOOLEAN :
             told' = [i \in Ids |-> IF told[i] = "open" /\ ~plan THEN "ended" ELSE told[i]]
    BY Zenon DEF NotifyItem, NotifyTurn
  <2>3. CASE UNCHANGED told BY <2>3, KeptTypes
  <2>4. ASSUME NEW plan \in BOOLEAN,
               told' = [i \in Ids |-> IF told[i] = "open" /\ ~plan THEN "ended" ELSE told[i]]
        PROVE  /\ told' \in [Ids -> Tellings]
               /\ \A i \in Ids : told'[i] = "responded" => told[i] = "responded"
    BY <2>1, <2>4 DEF Tellings
  <2>5. QED BY <2>2, <2>3, <2>4
<1>7. UNCHANGED <<appServer, approvals, wrote, caller, source>>
  BY DEF NotifyItem, NotifyTurn
<1>8. QuietMove(r, t)
  BY <1>4, <1>5, <1>6, <1>7, KeptTypes DEF QuietMove, appServer
<1>9. QED BY <1>8, QuietMoveInv

\* close_all_approvals, close_route, remove, resolve and close_approvals_for_lifecycle.
LEMMA TakingInv ==
  ASSUME ApprovalsInv, NEW r \in Routes,
         CloseAll(r) \/ Remove(r) \/ Resolve(r) \/ CloseForLifecycle(r)
  PROVE  ApprovalsInv'
<1>1. CASE CloseAll(r)
  <2> DEFINE ids == {i \in Pending : r = Observer \/ info[i].route = r}
             t == [Thread("ending") EXCEPT !.todo = ids]
  <2>1. ids \in SUBSET Ids BY DEF Pending
  <2>2. t \in ThreadStates /\ t.at = "ending"
    <3> HIDE DEF ids
    <3>1. Thread("ending") \in ThreadStates BY ThreadType DEF Places
    <3>2. QED BY <2>1, <3>1 DEF Thread, ThreadStates
  <2>3. Removed(ids) /\ threads' = [threads EXCEPT ![r] = t] /\ At(r) = "closing all"
    BY <1>1 DEF CloseAll
  <2>4. \A i \in Ids : info[i].route = r => status'[i] = "none"
    BY <2>3 DEF Removed, Pending
  <2>5. MayTake(r, t)
    <3> HIDE DEF t
    <3>1. QED BY <2>2, <2>3, <2>4 DEF MayTake, Ends, LockingPlaces
  <2>6. TakingMove(r, t, ids)
    <3> HIDE DEF t, ids
    <3>1. QED BY <1>1, <2>3, <2>5, KeptTypes DEF CloseAll, TakingMove, appServer
  <2> HIDE DEF t, ids
  <2>7. QED BY <2>1, <2>6, TakingMoveInv
<1>2. CASE Remove(r)
  <2> DEFINE ids == {threads[r].id}
  <2>1. ids \in SUBSET Ids /\ At(r) = "unpublished"
    BY <1>2 DEF Remove, ApprovalsInv, ThreadsInv, ThreadInv
  <2>2. PICK t \in {Thread("loop"), Thread("closing all")} : threads' = [threads EXCEPT ![r] = t]
    BY <1>2 DEF Remove, FailFrame, Goto
  <2>3. t \in ThreadStates /\ t.at \in {"loop", "closing all"}
    <3>1. Thread("loop") \in ThreadStates /\ Thread("closing all") \in ThreadStates
      BY ThreadType DEF Places
    <3>2. Thread("loop").at = "loop" /\ Thread("closing all").at = "closing all" BY DEF Thread
    <3>3. QED BY <2>2, <3>1, <3>2
  <2>4. MayTake(r, t) BY <2>1, <2>3 DEF MayTake, Ends, LockingPlaces
  <2>5. TakingMove(r, t, ids)
    BY <1>2, <2>2, <2>4, KeptTypes DEF Remove, TakingMove, appServer
  <2>6. QED BY <2>1, <2>5, TakingMoveInv
<1>3. CASE Resolve(r)
  <2> DEFINE q == Head(inbox[r]).req
             i == index[<<r, q>>]
             at == IF status[i] = "sent" /\ q \notin Forms
                   THEN "responding" ELSE "resolved elsewhere"
             t == [Thread(at) EXCEPT !.id = i]
  <2>1. /\ inbox' \in [Routes -> Seq(Messages)] /\ UNCHANGED <<server, requests>>
        /\ At(r) = "loop" /\ q \in RequestIds
    <3>1. Reads(r, {"resolved"}) BY <1>3 DEF Resolve
    <3>2. Head(inbox[r]) \in Messages /\ Head(inbox[r]).kind = "resolved" BY <3>1, ReadType
    <3>3. QED BY <3>1, <3>2, ReadType DEF Messages
  <2>2. i \in Ids \cup {NoId} BY <2>1 DEF ApprovalsInv, TypeOK, Keys
  <2>3. CASE i = NoId
    <3>1. UNCHANGED <<approvals, threads, wrote, mapper, told, caller, source>>
      BY <1>3, <2>3 DEF Resolve
    <3>2. TypeOK' BY <2>1, <3>1 DEF ApprovalsInv, TypeOK, approvals, mapper
    <3>3. QED BY <3>1, <3>2, Unmoved DEF ApprovalsInv, Rest
  <2>4. CASE i # NoId
    <3>1. Removed({i}) /\ threads' = [threads EXCEPT ![r] = t]
      BY <1>3, <2>4 DEF Resolve, GotoWith
    <3>2. i \in Ids BY <2>2, <2>4
    <3>3. at = "responding" => wrote[i] = 1 BY <3>2 DEF ApprovalsInv, RequestsInv
    <3>4. at \in LockingPlaces /\ at \in Places BY DEF LockingPlaces, Places
    <3> HIDE DEF i, at
    <3>5. t \in ThreadStates /\ t.at = at /\ t.id = i
      <4>1. t \in ThreadStates BY <3>2, <3>4, ThreadType
      <4>2. t.at = at /\ t.id = i BY DEF Thread
      <4>3. QED BY <4>1, <4>2
    <3> HIDE DEF t
    <3>6. MayTake(r, t) BY <2>1, <3>2, <3>3, <3>4, <3>5 DEF MayTake, Ends, LockingPlaces
    <3>7. TakingMove(r, t, {i}) BY <1>3, <2>1, <3>1, <3>6 DEF Resolve, TakingMove
    <3>8. QED BY <3>2, <3>7, TakingMoveInv
  <2>5. QED BY <2>3, <2>4
<1>4. CASE CloseForLifecycle(r)
  <2> DEFINE m == Head(inbox[r])
             ids == {i \in Pending : EndsWith(i, m)}
             t == [at |-> "closing", id |-> NoId, todo |-> ids, msg |-> m]
  <2>1. /\ inbox' \in [Routes -> Seq(Messages)] /\ UNCHANGED <<server, requests>>
        /\ At(r) = "loop" /\ m \in Messages
    BY <1>4, ReadType DEF CloseForLifecycle
  <2>2. Removed(ids) /\ threads' = [threads EXCEPT ![r] = t] BY <1>4 DEF CloseForLifecycle
  <2>3. ids \in SUBSET Ids BY DEF Pending
  <2> HIDE DEF m, ids
  <2>4. t \in ThreadStates /\ t.at = "closing" BY <2>1, <2>3 DEF ThreadStates, Places
  <2> HIDE DEF t
  <2>5. MayTake(r, t) BY <2>1, <2>4 DEF MayTake, Ends, LockingPlaces
  <2>6. TakingMove(r, t, ids) BY Zenon, <1>4, <2>1, <2>2, <2>5 DEF CloseForLifecycle, TakingMove
  <2>7. QED BY <2>3, <2>6, TakingMoveInv
<1>5. QED BY <1>1, <1>2, <1>3, <1>4
-----------------------------------------------------------------------------
(* The life of one answer *)

\* claim, and the call of the Bridge before it.
LEMMA ChannelStepInv ==
  ASSUME ApprovalsInv, ChannelStep
  PROVE  ApprovalsInv'
<1>1. ASSUME NEW i \in Ids, UNCHANGED <<approvals, threads, wrote, told, source>>,
             UNCHANGED <<appServer, mapper>>, caller' \in Ids \cup {NoId}
      PROVE  ApprovalsInv'
  <2>1. TypeOK' BY Zenon, <1>1 DEF ApprovalsInv, TypeOK, approvals, appServer, mapper
  <2>2. QED BY <1>1, <2>1, Unmoved DEF ApprovalsInv, Rest
<1>2. ASSUME NEW i \in Ids, Answer(i) PROVE ApprovalsInv'
  BY <1>1, <1>2 DEF Answer
<1>3. ASSUME NEW i \in Ids, Claim(i) PROVE ApprovalsInv'
  <2>1. CASE UNCHANGED <<status, outbound>>
    BY <1>1, <1>3, <2>1 DEF Claim, approvals
  <2>2. CASE /\ status[i] = "awaiting"
             /\ status' = [status EXCEPT ![i] = "queued"] /\ outbound' = outbound \cup {i}
    <3>1. TypeOK BY DEF ApprovalsInv
    <3>2. UNCHANGED <<server, requests, inbox, info, index, threads, wrote, active, told, source>>
          /\ caller' = NoId
      BY <1>3 DEF Claim, appServer, mapper
    <3>3. /\ status'[i] = "queued" /\ \A j \in Ids : j # i => status'[j] = status[j]
          /\ status' \in [Ids -> Statuses]
      BY <2>2, <3>1 DEF TypeOK, Statuses
    <3>4. TypeOK' BY <2>2, <3>1, <3>2, <3>3 DEF TypeOK
    <3>5. RequestsInv' BY <2>2, <3>2, <3>3 DEF ApprovalsInv, RequestsInv
    <3>6. ThreadsInv'
      <4>1. SUFFICES ASSUME NEW s \in Routes PROVE ThreadInv(s)' BY DEF ThreadsInv
      <4>2. ThreadInv(s) BY DEF ApprovalsInv, ThreadsInv
      <4>3. info[i].route = s => At(s) # "ending"
        BY <2>2, <4>2 DEF ThreadInv
      <4>4. At(s) \in {"writing", "written"} => threads[s].id \in Ids /\ threads[s].id # i
        BY <2>2, <4>2 DEF ThreadInv
      <4>5. At(s)' = At(s) /\ threads'[s] = threads[s] /\ info' = info /\ wrote' = wrote
        BY Zenon, <3>2 DEF At
      <4>6. At(s) \in {"writing", "written"} =>
              LET j == threads[s].id
              IN  status'[j] = status[j] /\ (j \in outbound' => j \in outbound)
        BY Zenon, <2>2, <3>3, <4>4
      <4>7. At(s) = "ending" => \A j \in Ids : info[j].route = s => status'[j] = "none"
        <5>1. At(s) = "ending" => \A j \in Ids : info[j].route = s => status[j] = "none"
          BY Zenon, <4>2 DEF ThreadInv
        <5>2. QED BY Zenon, <3>3, <4>3, <5>1
      <4> HIDE DEF At
      <4>8. QED BY <4>2, <4>5, <4>6, <4>7 DEF ThreadInv
    <3>7. HostInv' BY <3>2 DEF ApprovalsInv, HostInv, At, Up
    <3>8. ClaimsAreKept'
      BY <2>2, <3>2, <3>3 DEF ApprovalsInv, ClaimsAreKept, ClaimIsKept
    <3>9. IndexAgrees' BY <2>2, <3>2, <3>3 DEF ApprovalsInv, IndexAgrees, Key
    <3>10. RespondedWasWritten' BY <3>2 DEF ApprovalsInv, RespondedWasWritten
    <3>11. NothingOutlivesItsRoute'
      BY <2>2, <3>2, <3>3 DEF ApprovalsInv, NothingOutlivesItsRoute, At
    <3>12. QED
      BY <3>4, <3>5, <3>6, <3>7, <3>8, <3>9, <3>10, <3>11 DEF ApprovalsInv
  <2>3. QED BY <1>3, <2>1, <2>2 DEF Claim
<1>4. QED BY <1>2, <1>3 DEF ChannelStep

\* A thread that takes or puts back a request moves alone.
LEMMA OneThread ==
  ASSUME ApprovalsInv, NEW r \in Routes, NEW t \in ThreadStates,
         threads' = [threads EXCEPT ![r] = t]
  PROVE  /\ threads' \in [Routes -> ThreadStates]
         /\ threads'[r] = t
         /\ \A s \in Routes : s # r => threads'[s] = threads[s]
  BY DEF ApprovalsInv, TypeOK

\* A thread in the middle of its work runs while the source is up.
LEMMA BusyIsUp ==
  ASSUME ApprovalsInv, NEW r \in Routes, At(r) \notin Ends
  PROVE  /\ Up /\ source.start # 0
         /\ UNCHANGED source => HostInv'
<1>1. Up /\ source.start # 0 BY DEF ApprovalsInv, HostInv
<1>2. UNCHANGED source => Up' /\ (source.start # 0)' BY <1>1 DEF Up
<1>3. QED BY <1>1, <1>2 DEF HostInv

\* pop_outbound_for.
LEMMA PopInv ==
  ASSUME ApprovalsInv, NEW r \in Routes, NEW i \in Ids, Pop(r, i)
  PROVE  ApprovalsInv'
<1> DEFINE t == [Thread("writing") EXCEPT !.id = i]
<1>1. t \in ThreadStates /\ t.at = "writing" /\ t.id = i
  <2>1. t \in ThreadStates BY ThreadType DEF Places
  <2>2. t.at = "writing" /\ t.id = i BY DEF Thread
  <2>3. QED BY <2>1, <2>2
<1>2. threads' = [threads EXCEPT ![r] = t] BY DEF Pop, GotoWith
<1> HIDE DEF t
<1>3. /\ threads' \in [Routes -> ThreadStates]
      /\ threads'[r] = t
      /\ \A s \in Routes : s # r => threads'[s] = threads[s]
  BY Zenon, <1>1, <1>2, OneThread
<1>4. /\ UNCHANGED <<server, requests, inbox, status, info, index, wrote, active, told, caller, source>>
      /\ At(r) = "loop" /\ i \in outbound /\ info[i].route = r /\ outbound' = outbound \ {i}
  BY DEF Pop, appServer, mapper
<1>5. TypeOK' BY <1>3, <1>4 DEF ApprovalsInv, TypeOK
<1>6. RequestsInv' BY <1>4 DEF ApprovalsInv, RequestsInv
<1>7. wrote[i] = 0 /\ status[i] = "queued" /\ info[i].start # 0
  BY <1>4 DEF ApprovalsInv, RequestsInv, ClaimsAreKept, ClaimIsKept
<1>8. ThreadsInv'
  <2>1. ThreadInv(r)' BY <1>1, <1>3, <1>4, <1>7 DEF ThreadInv, At, LockingPlaces
  <2>2. ASSUME NEW s \in Routes, s # r PROVE ThreadInv(s)'
    <3>1. ThreadInv(s) BY DEF ApprovalsInv, ThreadsInv
    <3>2. QED BY <1>3, <1>4, <2>2, <3>1 DEF ThreadInv, At
  <2>3. QED BY <2>1, <2>2 DEF ThreadsInv
<1>9. HostInv' BY <1>4, BusyIsUp DEF Ends
<1>10. ClaimsAreKept'
  <2>1. SUFFICES ASSUME NEW j \in Ids PROVE ClaimIsKept(j)' BY DEF ClaimsAreKept
  <2>2. ClaimIsKept(j) /\ info[j].route \in Routes
    BY DEF ApprovalsInv, TypeOK, ClaimsAreKept
  <2>3. QED BY <1>1, <1>3, <1>4, <1>7, <2>2 DEF ClaimIsKept, At
<1>11. IndexAgrees' BY <1>4 DEF ApprovalsInv, IndexAgrees, Key
<1>12. RespondedWasWritten' BY <1>4 DEF ApprovalsInv, RespondedWasWritten
<1>13. NothingOutlivesItsRoute'
  <2>1. \A j \in Ids : info[j].route \in Routes BY DEF ApprovalsInv, TypeOK
  <2>2. QED BY <1>1, <1>3, <1>4, <2>1 DEF ApprovalsInv, NothingOutlivesItsRoute, At
<1>14. QED
  BY <1>5, <1>6, <1>8, <1>9, <1>10, <1>11, <1>12, <1>13 DEF ApprovalsInv

\* write_text.
LEMMA WriteInv ==
  ASSUME ApprovalsInv, NEW r \in Routes, Write(r)
  PROVE  ApprovalsInv'
<1> DEFINE i == threads[r].id
           q == info[i].req
           t == [Thread("written") EXCEPT !.id = i]
<1>1. /\ i \in Ids /\ At(r) = "writing" /\ wrote[i] = 0
      /\ info[i].route = r /\ info[i].start # 0 /\ i \notin outbound
      /\ status[i] \in {"queued", "none"}
  BY DEF Write, ApprovalsInv, ThreadsInv, ThreadInv
<1>2. q \in RequestIds BY <1>1 DEF ApprovalsInv, RequestsInv
<1>3. t \in ThreadStates /\ t.at = "written" /\ t.id = i
  <2>1. t \in ThreadStates BY <1>1, ThreadType DEF Places
  <2>2. t.at = "written" /\ t.id = i BY DEF Thread
  <2>3. QED BY <2>1, <2>2
<1>4. /\ threads' = [threads EXCEPT ![r] = t]
      /\ wrote' = [wrote EXCEPT ![i] = @ + 1]
      /\ UNCHANGED <<server, status, info, index, outbound, active, told, caller, source>>
  BY DEF Write, GotoWith, approvals, mapper
<1>5. /\ requests' \in [RequestIds -> [route : Routes, turn : Nat, by : Deciders]]
      /\ inbox' \in [Routes -> Seq(Messages)]
  <2>1. /\ requests[q] \in [route : Routes, turn : Nat, by : Deciders]
        /\ requests \in [RequestIds -> [route : Routes, turn : Nat, by : Deciders]]
        /\ inbox \in [Routes -> Seq(Messages)]
    BY <1>2 DEF ApprovalsInv, TypeOK
  <2>2. Message("resolved", q, requests[q].turn) \in Messages
    <3>1. q \in Nat BY <1>2, ApprovalsAssumption DEF RequestIds
    <3>2. QED BY <1>2, <2>1, <3>1, MessageType DEF MessageKinds
  <2>3. [requests[q] EXCEPT !.by = "phone"] \in [route : Routes, turn : Nat, by : Deciders]
    <3>1. "phone" \in Deciders BY DEF Deciders
    <3> HIDE DEF q
    <3>2. QED BY Zenon, <2>1, <3>1
  <2>4. \/ UNCHANGED <<requests, inbox>>
        \/ /\ requests' = [requests EXCEPT ![q] = [requests[q] EXCEPT !.by = "phone"]]
           /\ inbox' = Sent(r, Message("resolved", q, requests[q].turn))
    BY DEF Write
  <2> HIDE DEF q
  <2>5. Sent(r, Message("resolved", q, requests[q].turn)) \in [Routes -> Seq(Messages)]
    BY <2>1, <2>2 DEF Sent
  <2>6. QED BY Zenon, <1>2, <2>1, <2>3, <2>4, <2>5
<1> HIDE DEF i, t
<1>6. /\ threads' \in [Routes -> ThreadStates]
      /\ threads'[r] = t
      /\ \A s \in Routes : s # r => threads'[s] = threads[s]
  BY Zenon, <1>3, <1>4, OneThread
<1>7. wrote' \in [Ids -> Nat] /\ wrote'[i] = 1 /\ \A j \in Ids : j # i => wrote'[j] = wrote[j]
  <2>1. wrote \in [Ids -> Nat] BY DEF ApprovalsInv, TypeOK
  <2>2. QED BY <1>1, <1>4, <2>1
<1>8. TypeOK' BY <1>4, <1>5, <1>6, <1>7 DEF ApprovalsInv, TypeOK
<1>9. RequestsInv'
  <2>1. RequestsInv BY Zenon DEF ApprovalsInv
  <2>2. ASSUME NEW j \in Ids
        PROVE  /\ info'[j].start = 0 => status'[j] = "none" /\ wrote'[j] = 0
               /\ info'[j].start # 0 => info'[j].req \in RequestIds
               /\ status'[j] = "awaiting" => wrote'[j] = 0
               /\ j \in outbound' => wrote'[j] = 0
               /\ status'[j] = "sent" => wrote'[j] = 1
               /\ wrote'[j] <= 1
    <3>1. CASE j = i
      <4>1. 1 # 0 /\ 1 <= 1 /\ "queued" # "awaiting" /\ "none" # "awaiting" OBVIOUS
      <4>2. info[i].start # 0 => info[i].req \in RequestIds BY Zenon, <1>1, <2>1 DEF RequestsInv
      <4>3. /\ status'[i] # "awaiting" /\ info'[i] = info[i] /\ info[i].start # 0
            /\ i \notin outbound' /\ wrote'[i] = 1
        BY Zenon, <1>1, <1>4, <1>7, <4>1
      <4>4. QED BY Zenon, <3>1, <4>1, <4>2, <4>3
    <3>2. CASE j # i BY Zenon, <1>4, <1>7, <2>1, <3>2 DEF RequestsInv
    <3>3. QED BY Zenon, <3>1, <3>2
  <2>3. QED BY Zenon, <2>2 DEF RequestsInv
<1>10. ThreadsInv'
  <2>1. ThreadInv(r)' BY <1>1, <1>3, <1>4, <1>6, <1>7 DEF ThreadInv, At, LockingPlaces
  <2>2. ASSUME NEW s \in Routes, s # r PROVE ThreadInv(s)'
    <3>1. ThreadInv(s) BY DEF ApprovalsInv, ThreadsInv
    <3>2. At(s) \in {"writing", "written"} => threads[s].id # i
      BY <1>1, <2>2, <3>1 DEF ThreadInv
    <3>3. At(s) = "responding" => threads[s].id # i
      <4>1. At(s) = "responding" => wrote[threads[s].id] = 1 BY Zenon, <3>1 DEF ThreadInv
      <4>2. wrote[i] # 1 BY <1>1
      <4>3. QED BY Zenon, <4>1, <4>2
    <3>4. QED BY <1>4, <1>6, <1>7, <2>2, <3>1, <3>2, <3>3 DEF ThreadInv, At, LockingPlaces
  <2>3. QED BY <2>1, <2>2 DEF ThreadsInv
<1>11. HostInv' BY <1>1, <1>4, BusyIsUp DEF Ends
<1>12. ClaimsAreKept'
  <2>1. SUFFICES ASSUME NEW j \in Ids PROVE ClaimIsKept(j)' BY DEF ClaimsAreKept
  <2>2. ClaimIsKept(j) /\ info[j].route \in Routes
    BY DEF ApprovalsInv, TypeOK, ClaimsAreKept
  <2>3. CASE info[j].route = r
    BY <1>1, <1>3, <1>4, <1>6, <2>2, <2>3 DEF ClaimIsKept, At, i
  <2>4. CASE info[j].route # r
    BY <1>4, <1>6, <2>2, <2>4 DEF ClaimIsKept
  <2>5. QED BY <2>3, <2>4
<1>13. IndexAgrees' BY <1>4 DEF ApprovalsInv, IndexAgrees, Key
<1>14. RespondedWasWritten'
  BY <1>1, <1>4, <1>7 DEF ApprovalsInv, RespondedWasWritten
<1>15. NothingOutlivesItsRoute'
  <2>1. \A j \in Ids : info[j].route \in Routes BY DEF ApprovalsInv, TypeOK
  <2>2. QED BY <1>3, <1>4, <1>6, <2>1 DEF ApprovalsInv, NothingOutlivesItsRoute, At
<1>16. QED
  BY <1>8, <1>9, <1>10, <1>11, <1>12, <1>13, <1>14, <1>15 DEF ApprovalsInv

\* mark_sent.
LEMMA MarkSentInv ==
  ASSUME ApprovalsInv, NEW r \in Routes, MarkSent(r)
  PROVE  ApprovalsInv'
<1> DEFINE i == threads[r].id
<1>1. /\ i \in Ids /\ At(r) = "written" /\ wrote[i] = 1
      /\ info[i].route = r /\ info[i].start # 0 /\ i \notin outbound
  BY DEF MarkSent, ApprovalsInv, ThreadsInv, ThreadInv
<1>2. UNCHANGED <<appServer, info, index, outbound, wrote, mapper, told, caller, source>>
  BY DEF MarkSent
<1>3. CASE status[i] # "queued"
  <2>1. threads' = [threads EXCEPT ![r] = Thread("closing all")] /\ UNCHANGED status
    BY <1>3 DEF MarkSent, FailThread, Goto
  <2>2. MayMove(r, Thread("closing all")) BY <1>1, LoopAndFail DEF Ends
  <2>3. QuietMove(r, Thread("closing all"))
    BY <1>2, <2>1, <2>2, KeptTypes DEF QuietMove, appServer, approvals, mapper
  <2>4. QED BY <2>3, QuietMoveInv
<1>4. CASE status[i] = "queued"
  <2> DEFINE t == Thread("loop")
  <2>1. threads' = [threads EXCEPT ![r] = t] /\ status' = [status EXCEPT ![i] = "sent"]
    BY <1>4 DEF MarkSent, Goto
  <2>2. t \in ThreadStates /\ t.at = "loop"
    <3>1. t \in ThreadStates BY ThreadType DEF Places
    <3>2. t.at = "loop" BY DEF Thread
    <3>3. QED BY <3>1, <3>2
  <2> HIDE DEF t
  <2>3. /\ threads' \in [Routes -> ThreadStates]
        /\ threads'[r] = t
        /\ \A s \in Routes : s # r => threads'[s] = threads[s]
    BY Zenon, <2>1, <2>2, OneThread
  <2>4. UNCHANGED <<server, requests, inbox, info, index, outbound, wrote, active, told, caller, source>>
    BY <1>2 DEF appServer, mapper
  <2>5. /\ status' \in [Ids -> Statuses] /\ status'[i] = "sent"
        /\ \A j \in Ids : j # i => status'[j] = status[j]
    <3>1. status \in [Ids -> Statuses] /\ "sent" \in Statuses BY DEF ApprovalsInv, TypeOK, Statuses
    <3> HIDE DEF i
    <3>2. QED BY <1>1, <2>1, <3>1
  <2>6. TypeOK' BY Zenon, <2>3, <2>4, <2>5 DEF ApprovalsInv, TypeOK
  <2>7. RequestsInv' BY <1>1, <2>4, <2>5 DEF ApprovalsInv, RequestsInv
  <2>8. ThreadsInv'
    <3>1. ThreadInv(r)' BY <2>2, <2>3 DEF ThreadInv, At, LockingPlaces
    <3>2. ASSUME NEW s \in Routes, s # r PROVE ThreadInv(s)'
      <4>1. ThreadInv(s) BY DEF ApprovalsInv, ThreadsInv
      <4>2. At(s) \in {"writing", "written"} => threads[s].id # i
        BY <1>1, <3>2, <4>1 DEF ThreadInv
      <4> HIDE DEF i
      <4>3. QED BY <1>1, <2>3, <2>4, <2>5, <3>2, <4>1, <4>2 DEF ThreadInv, At, LockingPlaces
    <3>3. QED BY <3>1, <3>2 DEF ThreadsInv
  <2>9. HostInv' BY <1>1, <2>4, BusyIsUp DEF Ends
  <2>10. ClaimsAreKept'
    <3>1. SUFFICES ASSUME NEW j \in Ids PROVE ClaimIsKept(j)' BY DEF ClaimsAreKept
    <3>2. ClaimIsKept(j) /\ info[j].route \in Routes
      BY DEF ApprovalsInv, TypeOK, ClaimsAreKept
    <3>3. CASE j = i BY <1>1, <2>4, <2>5, <3>3 DEF ClaimIsKept
    <3>4. CASE j # i /\ info[j].route = r
      BY <1>1, <2>4, <2>5, <3>2, <3>4 DEF ClaimIsKept, At
    <3>5. CASE j # i /\ info[j].route # r
      BY <2>3, <2>4, <2>5, <3>2, <3>5 DEF ClaimIsKept
    <3>6. QED BY <3>3, <3>4, <3>5
  <2>11. IndexAgrees' BY SMTT(60), <1>4, <2>4, <2>5 DEF ApprovalsInv, IndexAgrees, Key
  <2>12. RespondedWasWritten' BY <2>4 DEF ApprovalsInv, RespondedWasWritten
  <2>13. NothingOutlivesItsRoute'
    <3>1. \A j \in Ids : info[j].route \in Routes BY DEF ApprovalsInv, TypeOK
    <3>2. QED BY <1>4, <2>2, <2>3, <2>4, <2>5, <3>1 DEF ApprovalsInv, NothingOutlivesItsRoute, At
  <2>14. QED
    BY <2>6, <2>7, <2>8, <2>9, <2>10, <2>11, <2>12, <2>13 DEF ApprovalsInv
<1>5. QED BY <1>3, <1>4

\* register.
LEMMA RegisterInv ==
  ASSUME ApprovalsInv, NEW r \in Routes, NEW i \in Ids, Register(r, i)
  PROVE  ApprovalsInv'
<1> DEFINE m == threads[r].msg
           k0 == <<r, m.req>>
<1>1. /\ At(r) = "preparing" /\ info[i].start = 0 /\ m.req \in RequestIds /\ m \in Messages
      /\ status[i] = "none" /\ wrote[i] = 0 /\ i \notin outbound
  BY ZenonT(60) DEF Register, ApprovalsInv, ThreadsInv, ThreadInv, RequestsInv, TypeOK, ThreadStates,
     ClaimsAreKept, ClaimIsKept
<1>2. UNCHANGED <<appServer, outbound, wrote, mapper, told, caller, source>> BY DEF Register
<1>3. CASE FailFrame(r) /\ UNCHANGED <<status, info, index>>
  <2>1. PICK t : MayMove(r, t) /\ threads' = [threads EXCEPT ![r] = t]
    BY <1>1, <1>3, FailFrameMoves DEF Ends
  <2>2. QuietMove(r, t)
    BY <1>2, <1>3, <2>1, KeptTypes DEF QuietMove, appServer, approvals, mapper
  <2>3. QED BY <2>2, QuietMoveInv
<1>4. CASE ~(FailFrame(r) /\ UNCHANGED <<status, info, index>>)
  <2> DEFINE t == [Thread("registered") EXCEPT !.id = i]
             new == [route |-> r, req |-> m.req, turn |-> m.turn, start |-> source.start]
  <2>1. /\ index[k0] = NoId
        /\ status' = [status EXCEPT ![i] = "awaiting"]
        /\ info' = [info EXCEPT ![i] = new]
        /\ index' = [index EXCEPT ![k0] = i]
        /\ threads' = [threads EXCEPT ![r] = t]
    BY <1>4 DEF Register, GotoWith
  <2>2. t \in ThreadStates /\ t.at = "registered" /\ t.id = i
    <3>1. t \in ThreadStates BY ThreadType DEF Places
    <3>2. t.at = "registered" /\ t.id = i BY DEF Thread
    <3>3. QED BY <3>1, <3>2
  <2>3. /\ new \in [route : Routes, req : Nat, turn : Nat, start : Nat]
        /\ new.route = r /\ new.req \in RequestIds /\ new.start = source.start /\ new.req = m.req
    <3>1. m.req \in Nat /\ m.turn \in Nat /\ source.start \in Nat
      BY <1>1 DEF Messages, ApprovalsInv, TypeOK
    <3> HIDE DEF m
    <3>2. QED BY <1>1, <3>1
  <2>4. k0 \in Keys BY <1>1 DEF Keys
  <2> HIDE DEF t, new
  <2>5. /\ threads' \in [Routes -> ThreadStates]
        /\ threads'[r] = t
        /\ \A s \in Routes : s # r => threads'[s] = threads[s]
    BY Zenon, <2>1, <2>2, OneThread
  <2>6. UNCHANGED <<server, requests, inbox, outbound, wrote, active, told, caller, source>>
    BY <1>2 DEF appServer, mapper
  <2>7. /\ status' \in [Ids -> Statuses] /\ status'[i] = "awaiting"
        /\ \A j \in Ids : j # i => status'[j] = status[j]
    BY <2>1 DEF ApprovalsInv, TypeOK, Statuses
  <2>8. /\ info' \in [Ids -> [route : Routes, req : Nat, turn : Nat, start : Nat]]
        /\ info'[i] = new /\ \A j \in Ids : j # i => info'[j] = info[j]
    <3>1. info \in [Ids -> [route : Routes, req : Nat, turn : Nat, start : Nat]]
      BY DEF ApprovalsInv, TypeOK
    <3>2. QED BY <2>1, <2>3, <3>1
  <2>9. /\ index' \in [Keys -> Ids \cup {NoId}] /\ index'[k0] = i
        /\ \A k \in Keys : k # k0 => index'[k] = index[k]
    <3>1. index \in [Keys -> Ids \cup {NoId}] BY DEF ApprovalsInv, TypeOK
    <3> HIDE DEF k0
    <3>2. QED BY <2>1, <2>4, <3>1
  <2>10. TypeOK' BY Zenon, <2>5, <2>6, <2>7, <2>8, <2>9 DEF ApprovalsInv, TypeOK
  <2>11. source.start # 0
    BY <1>1, BusyIsUp DEF Ends
  <2>12. RequestsInv'
    <3>1. RequestsInv BY DEF ApprovalsInv
    <3>2. ASSUME NEW j \in Ids, j # i
          PROVE  /\ info'[j].start = 0 => status'[j] = "none" /\ wrote'[j] = 0
                 /\ info'[j].start # 0 => info'[j].req \in RequestIds
                 /\ status'[j] = "awaiting" => wrote'[j] = 0
                 /\ j \in outbound' => wrote'[j] = 0
                 /\ status'[j] = "sent" => wrote'[j] = 1
                 /\ wrote'[j] =< 1
      BY <2>6, <2>7, <2>8, <3>1, <3>2 DEF RequestsInv
    <3>3. /\ info'[i].start # 0 /\ info'[i].req \in RequestIds
          /\ status'[i] = "awaiting" /\ wrote'[i] = 0
      BY <1>1, <2>3, <2>6, <2>7, <2>8, <2>11
    <3>4. /\ info'[i].start = 0 => status'[i] = "none" /\ wrote'[i] = 0
          /\ info'[i].start # 0 => info'[i].req \in RequestIds
          /\ status'[i] = "awaiting" => wrote'[i] = 0
          /\ i \in outbound' => wrote'[i] = 0
          /\ status'[i] = "sent" => wrote'[i] = 1
          /\ wrote'[i] =< 1
      BY <3>3
    <3>5. QED BY Zenon, <3>2, <3>4 DEF RequestsInv
  <2>13. ThreadsInv'
    <3>1. ThreadInv(r)'
      <4>1. At(r)' = "registered" /\ threads'[r].id \in Ids BY Zenon, <1>1, <2>2, <2>5 DEF At
      <4>2. QED BY <4>1 DEF ThreadInv
    <3>2. ASSUME NEW s \in Routes, s # r PROVE ThreadInv(s)'
      <4>1. ThreadInv(s) BY DEF ApprovalsInv, ThreadsInv
      <4>2. At(s) \in {"writing", "written"} => threads[s].id # i
        BY <1>1, <4>1 DEF ThreadInv
      <4>3. At(s) = "ending" => \A j \in Ids : info'[j].route = s => status'[j] = "none"
        <5>1. At(s) = "ending" => \A j \in Ids : info[j].route = s => status[j] = "none"
          BY Zenon, <4>1 DEF ThreadInv
        <5>2. info'[i].route # s BY <2>3, <2>8, <3>2
        <5>3. QED BY Zenon, <2>7, <2>8, <5>1, <5>2
      <4>4. At(s) \in {"writing", "written"} =>
              LET j == threads[s].id IN info'[j] = info[j] /\ status'[j] = status[j]
        BY <2>7, <2>8, <4>1, <4>2 DEF ThreadInv
      <4>5. At(s)' = At(s) /\ threads'[s] = threads[s] BY <2>5, <3>2 DEF At
      <4>6. QED BY <2>6, <4>1, <4>3, <4>4, <4>5 DEF ThreadInv, At, LockingPlaces
    <3>3. QED BY <3>1, <3>2 DEF ThreadsInv
  <2>14. HostInv' BY <1>1, <2>6, BusyIsUp DEF Ends
  <2>15. ClaimsAreKept'
    <3>1. SUFFICES ASSUME NEW j \in Ids PROVE ClaimIsKept(j)' BY DEF ClaimsAreKept
    <3>2. ClaimIsKept(j) /\ info[j].route \in Routes
      BY DEF ApprovalsInv, TypeOK, ClaimsAreKept
    <3>3. CASE j = i BY <1>1, <2>6, <2>7, <3>3 DEF ClaimIsKept
    <3>4. CASE j # i /\ info[j].route = r
      BY <1>1, <2>6, <2>7, <2>8, <3>2, <3>4 DEF ClaimIsKept, At
    <3>5. CASE j # i /\ info[j].route # r
      BY <2>5, <2>6, <2>7, <2>8, <3>2, <3>5 DEF ClaimIsKept
    <3>6. QED BY <3>3, <3>4, <3>5
  <2>16. IndexAgrees'
    <3>1. SUFFICES ASSUME NEW k \in Keys, NEW j \in Ids
                   PROVE  index'[k] = j <=> status'[j] # "none" /\ <<info'[j].route, info'[j].req>> = k
      BY DEF IndexAgrees, Key
    <3>2. index[k] = j <=> status[j] # "none" /\ <<info[j].route, info[j].req>> = k
      BY DEF ApprovalsInv, IndexAgrees, Key
    <3>3. CASE j = i /\ k = k0 BY <2>3, <2>7, <2>8, <2>9, <3>3
    <3>4. CASE j = i /\ k # k0
      <4>1. index'[k] # i BY <1>1, <2>9, <3>2, <3>4
      <4>2. <<info'[i].route, info'[i].req>> = k0 BY <2>3, <2>8
      <4>3. QED BY <3>4, <4>1, <4>2
    <3>5. CASE j # i /\ k = k0
      <4>1. index[k] # j BY <2>1, <3>5, ApprovalsAssumption
      <4>2. QED BY <2>7, <2>8, <2>9, <3>2, <3>5, <4>1
    <3>6. CASE j # i /\ k # k0 BY <2>7, <2>8, <2>9, <3>2, <3>6
    <3>7. QED BY <3>3, <3>4, <3>5, <3>6
  <2>17. RespondedWasWritten' BY <2>6 DEF ApprovalsInv, RespondedWasWritten
  <2>18. NothingOutlivesItsRoute'
    <3>1. SUFFICES ASSUME NEW j \in Ids, status'[j] # "none"
                   PROVE  threads'[info'[j].route].at \notin {"new", "done"}
      BY DEF NothingOutlivesItsRoute, At
    <3>2. threads'[r].at = "registered" BY <2>2, <2>5
    <3>3. CASE info'[j].route = r BY <3>2, <3>3
    <3>4. CASE info'[j].route # r
      <4>1. j # i BY <2>3, <2>8, <3>4
      <4>2. info'[j] = info[j] /\ status[j] # "none" BY <2>7, <2>8, <3>1, <4>1
      <4>3. threads[info[j].route].at \notin {"new", "done"}
        BY <4>2 DEF ApprovalsInv, NothingOutlivesItsRoute, At
      <4>4. info[j].route \in Routes BY DEF ApprovalsInv, TypeOK
      <4>5. threads'[info[j].route] = threads[info[j].route] BY <2>5, <3>4, <4>2, <4>4
      <4>6. QED BY <4>2, <4>3, <4>5
    <3>5. QED BY <3>3, <3>4
  <2>19. QED
    BY <2>10, <2>12, <2>13, <2>14, <2>15, <2>16, <2>17, <2>18 DEF ApprovalsInv
<1>5. QED BY <1>3, <1>4

\* start, stop and their end.
LEMMA HostStepInv ==
  ASSUME ApprovalsInv, Start \/ Stop \/ Stopped
  PROVE  ApprovalsInv'
<1>1. CASE Stop \/ Stopped
  <2>1. /\ UNCHANGED <<appServer, approvals, threads, wrote, mapper, told, caller>>
        /\ source' \in [phase : Phases, start : Nat]
    BY Zenon, <1>1 DEF Stop, Stopped, ApprovalsInv, TypeOK, Phases
  <2>2. TypeOK' BY <2>1 DEF ApprovalsInv, TypeOK, appServer, approvals, mapper
  <2>3. RequestsInv' BY <2>1 DEF ApprovalsInv, RequestsInv, approvals
  <2>4. ThreadsInv'
    <3>1. SUFFICES ASSUME NEW r \in Routes PROVE ThreadInv(r)' BY DEF ThreadsInv
    <3>2. ThreadInv(r) BY DEF ApprovalsInv, ThreadsInv
    <3>3. UNCHANGED <<threads, status, info, outbound, wrote>> BY <2>1 DEF approvals
    <3> HIDE <1>1
    <3>4. QED BY Zenon, <3>2, <3>3 DEF ThreadInv, At
  <2>5. HostInv'
    <3>1. source \in [phase : Phases, start : Nat] BY DEF ApprovalsInv, TypeOK
    <3>2. CASE Stop BY <3>1, <3>2 DEF Stop, ApprovalsInv, HostInv, Up
    <3>3. CASE Stopped BY <3>1, <3>3 DEF Stopped, HostInv, Up, At
    <3>4. QED BY <1>1, <3>2, <3>3
  <2>6. ClaimsAreKept' BY <2>1 DEF ApprovalsInv, ClaimsAreKept, ClaimIsKept, approvals
  <2>7. IndexAgrees' BY <2>1 DEF ApprovalsInv, IndexAgrees, approvals, Key
  <2>8. RespondedWasWritten' BY <2>1 DEF ApprovalsInv, RespondedWasWritten
  <2>9. NothingOutlivesItsRoute' BY <2>1 DEF ApprovalsInv, NothingOutlivesItsRoute, approvals, At
  <2>10. QED
    BY <2>2, <2>3, <2>4, <2>5, <2>6, <2>7, <2>8, <2>9 DEF ApprovalsInv
<1>2. CASE Start
  <2>1. \A r \in Routes : At(r) \in Ends BY <1>2 DEF Start, ApprovalsInv, HostInv, Up
  <2>2. UNCHANGED <<status, info, index, outbound, wrote, told, caller>>
    BY <1>2 DEF Start, approvals
  <2>3. /\ threads' \in [Routes -> ThreadStates]
        /\ \A r \in Routes : threads'[r].at = IF r = Observer THEN "loop" ELSE "new"
    <3>1. Thread("loop") \in ThreadStates /\ Thread("new") \in ThreadStates
      BY ThreadType DEF Places
    <3>2. Thread("loop").at = "loop" /\ Thread("new").at = "new" BY DEF Thread
    <3>3. threads' = [r \in Routes |-> Thread(IF r = Observer THEN "loop" ELSE "new")]
      BY <1>2 DEF Start
    <3>4. \A r \in Routes : threads'[r] = IF r = Observer THEN Thread("loop") ELSE Thread("new")
      BY <3>3
    <3>5. QED BY <3>1, <3>2, <3>3, <3>4
  <2>4. /\ source.start \in Nat /\ source' = [phase |-> "running", start |-> source.start + 1]
    BY <1>2 DEF Start, ApprovalsInv, TypeOK
  <2>5. TypeOK'
    <3>1. server' \in [turn : Nat, running : BOOLEAN, next : Nat]
      <4>1. server \in [turn : Nat, running : BOOLEAN, next : Nat] BY DEF ApprovalsInv, TypeOK
      <4>2. server' = [server EXCEPT !.running = FALSE, !.next = 1] BY <1>2 DEF Start
      <4>3. [server EXCEPT !.running = FALSE] \in [turn : Nat, running : BOOLEAN, next : Nat]
        BY Zenon, <4>1
      <4>4. server' = [[server EXCEPT !.running = FALSE] EXCEPT !.next = 1] BY <4>1, <4>2, Zenon
      <4>5. QED BY Zenon, <4>3, <4>4
    <3>2. requests' \in [RequestIds -> [route : Routes, turn : Nat, by : Deciders]]
      <4>1. requests \in [RequestIds -> [route : Routes, turn : Nat, by : Deciders]]
        BY DEF ApprovalsInv, TypeOK
      <4>2. \A q \in RequestIds :
              [requests[q] EXCEPT !.by = "unasked"] \in [route : Routes, turn : Nat, by : Deciders]
        BY <4>1 DEF Deciders
      <4>3. requests' = [q \in RequestIds |-> [requests[q] EXCEPT !.by = "unasked"]]
        BY <1>2 DEF Start
      <4>4. QED BY <4>2, <4>3
    <3>3. inbox' \in [Routes -> Seq(Messages)] BY <1>2 DEF Start
    <3>4. active' \in Nat BY <1>2 DEF Start
    <3>5. source' \in [phase : Phases, start : Nat] BY <2>4 DEF Phases
    <3>6. QED BY Zenon, <2>2, <2>3, <3>1, <3>2, <3>3, <3>4, <3>5 DEF ApprovalsInv, TypeOK
  <2>6. RequestsInv' BY <2>2 DEF ApprovalsInv, RequestsInv
  <2>7. ThreadsInv' BY <2>3 DEF ThreadsInv, ThreadInv, At, LockingPlaces
  <2>8. HostInv' BY <2>4 DEF HostInv, Up
  <2>9. ASSUME NEW i \in Ids, status[i] # "none" PROVE info[i].route = Observer
    <3>1. info[i].route \in Routes BY DEF ApprovalsInv, TypeOK
    <3>2. At(info[i].route) = "abandoned"
      BY <2>1, <2>9, <3>1 DEF Ends, ApprovalsInv, NothingOutlivesItsRoute
    <3>3. QED BY <3>1, <3>2 DEF ApprovalsInv, ThreadsInv, ThreadInv
  <2>10. ClaimsAreKept'
    <3>1. SUFFICES ASSUME NEW i \in Ids PROVE ClaimIsKept(i)' BY DEF ClaimsAreKept
    <3>2. ClaimIsKept(i) /\ info[i].route \in Routes
      BY DEF ApprovalsInv, TypeOK, ClaimsAreKept
    <3>3. status[i] = "queued" => i \in outbound BY <2>1, <3>2 DEF ClaimIsKept, At, Ends
    <3>4. QED BY <2>2, <3>2, <3>3 DEF ClaimIsKept
  <2>11. IndexAgrees' BY <2>2 DEF ApprovalsInv, IndexAgrees, Key
  <2>12. RespondedWasWritten' BY <2>2 DEF ApprovalsInv, RespondedWasWritten
  <2>13. NothingOutlivesItsRoute'
    <3>1. Observer \in Routes BY DEF Routes
    <3>2. QED BY <2>2, <2>3, <2>9, <3>1 DEF NothingOutlivesItsRoute, At
  <2>14. QED
    BY <2>5, <2>6, <2>7, <2>8, <2>10, <2>11, <2>12, <2>13 DEF ApprovalsInv
<1>3. QED BY <1>1, <1>2
-----------------------------------------------------------------------------
(* The invariant *)

LEMMA StepInv ==
  ASSUME ApprovalsInv, [Next]_vars
  PROVE  ApprovalsInv'
<1>1. CASE ServerStep BY <1>1, ServerStepInv
<1>2. CASE ChannelStep BY <1>2, ChannelStepInv
<1>3. CASE HostStep
  <2>1. Observer \in Routes /\ Proxies \subseteq Routes BY DEF Routes
  <2>2. QED BY <1>3, <2>1, HostStepInv, ThreadEndsInv DEF HostStep
<1>4. ASSUME NEW r \in Routes, FlushStep(r) PROVE ApprovalsInv'
  BY <1>4, PopInv, WriteInv, MarkSentInv, ThreadEndsInv DEF FlushStep
<1>5. ASSUME NEW r \in Routes, FrameStep(r) PROVE ApprovalsInv'
  BY <1>5, ReadingInv, ThreadEndsInv, RegisterInv, PublishingInv, TakingInv, NotifyingInv
  DEF FrameStep
<1>6. ASSUME NEW r \in Routes, EndStep(r) PROVE ApprovalsInv'
  BY <1>6, ThreadEndsInv, TakingInv, PublishingInv DEF EndStep
<1>7. CASE UNCHANGED vars
  <2>1. TypeOK' BY <1>7 DEF ApprovalsInv, TypeOK, vars, appServer, approvals, mapper
  <2>2. Rest' BY <1>7, Unmoved DEF vars
  <2>3. QED BY <2>1, <2>2 DEF Rest, ApprovalsInv
<1>8. QED BY <1>1, <1>2, <1>3, <1>4, <1>5, <1>6, <1>7 DEF Next

\* Every reachable state of the Provider's approvals has the inductive invariant.
THEOREM ApprovalsInvariant == Spec => []ApprovalsInv
<1>1. Init => ApprovalsInv BY InitInv
<1>2. ApprovalsInv /\ [Next]_vars => ApprovalsInv' BY StepInv
<1>3. QED BY <1>1, <1>2, PTL DEF Spec

\* A phone's answer is written to Codex at most once.
THEOREM AnsweredOnceAlways == Spec => []AnsweredOnce
<1>1. ApprovalsInv => AnsweredOnce BY DEF ApprovalsInv, RequestsInv, AnsweredOnce
<1>2. QED BY <1>1, ApprovalsInvariant, PTL

\* An answer that claim has taken is queued, being written, or about to be closed.
THEOREM ClaimsAreKeptAlways == Spec => []ClaimsAreKept
<1>1. ApprovalsInv => ClaimsAreKept BY DEF ApprovalsInv
<1>2. QED BY <1>1, ApprovalsInvariant, PTL

\* pending and by_request always name the same requests.
THEOREM IndexAgreesAlways == Spec => []IndexAgrees
<1>1. ApprovalsInv => IndexAgrees BY DEF ApprovalsInv
<1>2. QED BY <1>1, ApprovalsInvariant, PTL

\* InteractionResponded is published only for an answer that was written.
THEOREM RespondedWasWrittenAlways == Spec => []RespondedWasWritten
<1>1. ApprovalsInv => RespondedWasWritten BY DEF ApprovalsInv
<1>2. QED BY <1>1, ApprovalsInvariant, PTL

\* No request is pending on a route whose thread has ended in order.
THEOREM NothingOutlivesItsRouteAlways == Spec => []NothingOutlivesItsRoute
<1>1. ApprovalsInv => NothingOutlivesItsRoute BY DEF ApprovalsInv
<1>2. QED BY <1>1, ApprovalsInvariant, PTL
=============================================================================
