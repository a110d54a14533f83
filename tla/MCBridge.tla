------------------------------ MODULE MCBridge ------------------------------
(* One session and two Channels with different capabilities; the window is    *)
(* shorter than the stream, so that a late Channel may find it incomplete.    *)
EXTENDS Bridge

Snapshot(id, p) ==
  [id |-> id, provider |-> p, state |-> "Idle", connection |-> "Connected",
   revision |-> 1, updated |-> 1]

NoFields == [f \in {} |-> {}]
Approval(id, s) == Request(id, s, 1, NoExpiry, "Approval", {"yes"}, FALSE, NoFields)

Answer(id, s, c) ==
  [request |-> id, session |-> s, channel |-> c, at |-> 1, kind |-> "Approval",
   selection |-> {"yes"}, answers |-> NoFields]
Submit(kind, s, c) == [kind |-> kind, session |-> s, channel |-> c]

MCSessions == {"s1"}
MCTimes == {1}
MCPayloads ==
  {[kind |-> "SessionStarted", snapshot |-> Snapshot("s1", "p1")],
   [kind |-> "StateChanged", state |-> "Running"],
   [kind |-> "InteractionRequested", request |-> Approval("i1", "s1")],
   [kind |-> "InteractionClosed", interaction |-> "i1"],
   [kind |-> "SessionEnded", outcome |-> "Failed"]}
MCProviderCaps ==
  [p \in {"p1"} |->
     {"SESSION_STATE", "APPROVAL_REQUEST", "APPROVAL_RESPONSE", "CONTROL"}]
MCChannelCaps ==
  [c \in {"c1", "c2"} |->
     IF c = "c1" THEN {"SESSION_VIEW", "APPROVAL", "REMOTE_COMMAND"} ELSE {}]
MCPageSizes == {1}
MCResponses == {Answer("i1", "s1", c) : c \in {"c1", "c2"}}
MCCommands == {Submit("CancelSession", "s1", "c1"), Submit("QueueStatus", "s1", "c1")}
=============================================================================
