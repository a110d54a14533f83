--------------------------- MODULE NativeTransport ---------------------------
(***************************************************************************)
(* The WebSocket listeners and sockets a Native Channel serves             *)
(* (agentpulse-transport/src: loopback_websocket.rs, lan_tls_websocket.rs),*)
(* and the validation of the first message (native/src/protocol.rs), as    *)
(* functions from what the network does to what the worker is told.        *)
(*                                                                         *)
(* An arrival is what the listener meets in one poll: nobody, an operating *)
(* system error of accept or of the accepted socket, a peer whose TLS or   *)
(* HTTP handshake breaks off, or an upgrade request.  A request is valid in*)
(* its path and subprotocol or not, and its device credential is absent,   *)
(* unknown to the store, or one the store holds.                           *)
(***************************************************************************)
EXTENDS Naturals

Bearers == {"none", "unknown", "paired"}
Arrivals ==
  [at : {"nobody", "broken", "garbled"}, path : {FALSE}, protocol : {FALSE},
   bearer : {"none"}]
    \cup [at : {"upgrade"}, path : BOOLEAN, protocol : BOOLEAN, bearer : Bearers]

\* validate_upgrade and validate_request.
ValidUpgrade(a) == a.path /\ a.protocol

\* LoopbackWebSocketListener::try_accept: the socket, nothing, a handshake error that
\* only concerns the peer, or an error of the listener.
TryAcceptLoopback(a) ==
  CASE a.at = "nobody" -> "nothing"
    [] a.at = "broken" -> "failed"
    [] a.at = "garbled" -> "refused"
    [] a.at = "upgrade" -> IF ValidUpgrade(a) THEN "socket" ELSE "refused"

\* TlsWebSocketListener::try_accept, which also authorizes the device.
TryAcceptTls(a) ==
  CASE a.at = "nobody" -> "nothing"
    [] a.at = "broken" -> "failed"
    [] a.at = "garbled" -> "refused"
    [] a.at = "upgrade" -> IF ValidUpgrade(a) /\ a.bearer = "paired" THEN "socket"
                           ELSE "refused"

\* NativeListener::try_accept.
TryAccept(transport, a) ==
  IF transport = "tls" THEN TryAcceptTls(a) ELSE TryAcceptLoopback(a)

-----------------------------------------------------------------------------
\* What a read of the socket meets: a message of each kind, a ping whose pong cannot be
\* sent, no message within the poll interval, the end of the stream, or an error.
Messages == {"text", "binary", "ping", "unanswered", "pong", "close", "frame", "silence",
             "end", "error"}

\* TlsWebSocket::read and, in the same words, LoopbackWebSocket::read.
ReadOutcome(m) ==
  CASE m = "text" -> "text"
    [] m \in {"ping", "frame"} -> "control"
    [] m = "pong" -> "pong"
    [] m = "silence" -> "timeout"
    [] m \in {"close", "end"} -> "closed"
    [] m \in {"binary", "unanswered", "error"} -> "failed"

-----------------------------------------------------------------------------
\* A client hello: the protocol versions it offers, whether it names the client the
\* upgrade authenticated, and the host run its cursors belong to.
Hellos ==
  [versions : {"v2", "others", "repeated", "empty"}, identity : BOOLEAN,
   run : {"none", "this", "another"}]

\* validate_client_message for a hello with the given cursors (a session without a
\* cursor counts as 0).
ValidHello(h, held) ==
  /\ h.run = "none" => \A s \in DOMAIN held : held[s] = 0
  /\ h.versions \notin {"repeated", "empty"}

\* What process_hello demands of a hello that decoded.
HelloServed(transport, h) ==
  /\ transport = "tls" => h.identity
  /\ h.versions = "v2"
=============================================================================
