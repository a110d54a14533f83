---------------------------- MODULE SessionFeed ----------------------------
(***************************************************************************)
(* What the Bridge promises the Channels, without providers, payloads or   *)
(* windows: each session is a growing numbered stream, a Channel is live   *)
(* on a session or not, and holds the first `cursor` events of it.         *)
(*   - A Channel joins a stream only at its end.                           *)
(*   - While it is live it is offered every event, so it falls behind only *)
(*     by refusing one.                                                    *)
(*   - While it is not live nothing reaches it except pages it asks for.   *)
(***************************************************************************)
EXTENDS Naturals

CONSTANTS Sessions, Channels, MaxEvents

VARIABLES
  last,    \* [Sessions -> length of the stream]
  live,    \* [Sessions -> Channels in live delivery]
  cursor   \* [Channels -> [Sessions -> length of the prefix the Channel holds]]

vars == <<last, live, cursor>>

Init ==
  /\ last = [s \in Sessions |-> 0]
  /\ live = [s \in Sessions |-> {}]
  /\ cursor = [c \in Channels |-> [s \in Sessions |-> 0]]

\* The next event of a stream is offered to every live Channel; those that take it and
\* hold all before it advance.
Publish(s) ==
  /\ last[s] < MaxEvents
  /\ last' = [last EXCEPT ![s] = @ + 1]
  /\ \E took \in SUBSET live[s] :
       cursor' = [c \in Channels |->
         IF c \in took /\ cursor[c][s] = last[s]
         THEN [cursor[c] EXCEPT ![s] = @ + 1] ELSE cursor[c]]
  /\ UNCHANGED live

\* A page moves a Channel that is not live along the stream, or starts it over.
Replay(c, s) ==
  /\ c \notin live[s]
  /\ \E n \in 0..last[s] : cursor' = [cursor EXCEPT ![c][s] = n]
  /\ UNCHANGED <<last, live>>

\* A Channel enters live delivery with nothing left to replay.
Join(c, s) ==
  /\ c \notin live[s]
  /\ last[s] > 0
  /\ cursor' = [cursor EXCEPT ![c][s] = last[s]]
  /\ live' = [live EXCEPT ![s] = @ \cup {c}]
  /\ UNCHANGED last

\* A Channel leaves one or several sessions and keeps what it holds.
Leave(c, left) ==
  /\ live' = [s \in Sessions |-> IF s \in left THEN live[s] \ {c} ELSE live[s]]
  /\ UNCHANGED <<last, cursor>>

Next ==
  \/ \E s \in Sessions : Publish(s)
  \/ \E c \in Channels, s \in Sessions : Replay(c, s) \/ Join(c, s)
  \/ \E c \in Channels, left \in SUBSET Sessions : Leave(c, left)

Spec == Init /\ [][Next]_vars
=============================================================================
