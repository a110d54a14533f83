--------------------------- MODULE MCSessionStream ---------------------------
(* A small source for SessionStream: one tool call, two requests with one     *)
(* identifier, and an initial snapshot whose revision runs out before the     *)
(* sequence does.                                                             *)
EXTENDS SessionStream

MCSessions == {"s1", "s2"}
MCTimes == {1, 2}

Snapshot(id) ==
  [id |-> id, provider |-> "p1", state |-> "Idle", connection |-> "Connected",
   revision |-> 2, updated |-> 1]

NoFields == [f \in {} |-> {}]
NoAnswers == [f \in {} |-> {}]
Approval == Request("i1", "s1", 1, NoExpiry, "Approval", {"yes"}, FALSE, NoFields)
Choice == Request("i1", "s1", 1, 2, "Choice", {"a", "b"}, FALSE, NoFields)
Response(kind, selection) ==
  [request |-> "i1", session |-> "s1", channel |-> "c1", at |-> 2, kind |-> kind,
   selection |-> selection, answers |-> NoAnswers]

MCPayloads ==
  {[kind |-> "SessionStarted", snapshot |-> Snapshot("s1")],
   [kind |-> "StateChanged", state |-> "Running"],
   [kind |-> "ConnectionChanged", connection |-> "Disconnected"],
   [kind |-> "Message"],
   [kind |-> "ToolStarted", call |-> "t1"],
   [kind |-> "ToolFinished", call |-> "t1"],
   [kind |-> "PlanUpdated", revision |-> 1],
   [kind |-> "PlanUpdated", revision |-> 2],
   [kind |-> "ProgressUpdated", revision |-> 1],
   [kind |-> "InteractionRequested", request |-> Approval],
   [kind |-> "InteractionRequested", request |-> Choice],
   [kind |-> "InteractionResponded", response |-> Response("Approval", {"yes"})],
   [kind |-> "InteractionResponded", response |-> Response("Choice", {"a", "b"})],
   [kind |-> "InteractionResponded", response |-> Response("Choice", {"b"})],
   [kind |-> "InteractionClosed", interaction |-> "i1"],
   [kind |-> "CommandIssued", command |-> "SubmitPrompt"],
   [kind |-> "SessionEnded", outcome |-> "Failed"]}
=============================================================================
