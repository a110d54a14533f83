-------------------------- MODULE MCBridgeSessions --------------------------
(* Two sessions of two Providers and one Channel; the Bridge retains all      *)
(* events, as the host configures it.  The second Provider asks for text but  *)
(* takes no answer, and one request of the first offers nothing to choose.    *)
EXTENDS Bridge

Snapshot(id, p) ==
  [id |-> id, provider |-> p, state |-> "Idle", connection |-> "Connected",
   revision |-> 1, updated |-> 1]

NoFields == [f \in {} |-> {}]
Approval(id, s, options) ==
  Request(id, s, 1, NoExpiry, "Approval", options, FALSE, NoFields)
Question(id, s) == Request(id, s, 1, NoExpiry, "Text", {}, FALSE, NoFields)
Answer(id, s) ==
  [request |-> id, session |-> s, channel |-> "c1", at |-> 1, kind |-> "Approval",
   selection |-> {"yes"}, answers |-> NoFields]
Reply(id, s) == [Answer(id, s) EXCEPT !.kind = "Text", !.selection = {}]

MCSessions == {"s1", "s2"}
MCTimes == {1}
MCPayloads ==
  {[kind |-> "SessionStarted", snapshot |-> Snapshot("s1", "p1")],
   [kind |-> "SessionStarted", snapshot |-> Snapshot("s2", "p2")],
   [kind |-> "SessionStarted", snapshot |-> Snapshot("s2", "p1")],
   [kind |-> "InteractionRequested", request |-> Approval("i1", "s1", {"yes"})],
   [kind |-> "InteractionRequested", request |-> Approval("i1", "s1", {})],
   [kind |-> "InteractionRequested", request |-> Approval("i1", "s2", {"yes"})],
   [kind |-> "InteractionRequested", request |-> Question("i1", "s2")],
   [kind |-> "InteractionResponded", response |-> Answer("i1", "s1")],
   [kind |-> "ConnectionChanged", connection |-> "Disconnected"]}
MCProviderCaps ==
  [p \in {"p1", "p2"} |->
     {"SESSION_STATE"} \cup (IF p = "p1" THEN {"APPROVAL_REQUEST", "APPROVAL_RESPONSE"}
                             ELSE {"USER_INPUT_REQUEST"})]
MCChannelCaps == [c \in {"c1"} |-> {"APPROVAL", "TEXT_INPUT"}]
MCPageSizes == {2}
MCResponses == {Answer("i1", s) : s \in {"s1", "s2"}} \cup {Reply("i1", "s2")}
MCCommands == {}
=============================================================================
