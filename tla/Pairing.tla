------------------------------- MODULE Pairing -------------------------------
(***************************************************************************)
(* Pairing a device: sessions of `agentpulse pair`                         *)
(* (agentpulse-host/src/main.rs, PairingSession in agentpulse-pairing/src/ *)
(* server.rs), each a process of its own, the device and credential        *)
(* commands, and the running Host whose connector has to publish the       *)
(* route of a new credential before the credential is handed out.  A       *)
(* session issues at most one token, so the token is named by the session. *)
(***************************************************************************)
EXTENDS RelayConnector

CONSTANTS MaxAttempts,  \* MAX_ATTEMPTS
          Earlier       \* the tokens of sessions that succeeded before the Host was started

ASSUME PairingAssumption == MaxAttempts \in Nat \ {0} /\ Earlier \subseteq Tokens

VARIABLES
  direct,    \* the Host is configured for direct pairing, without the Relay
  place,     \* place of a session
  attempts,  \* rejected handshakes and requests of a session
  expired,   \* sessions whose lifetime has passed
  client     \* the device a session was asked to pair

pairingVars == <<direct, place, attempts, expired, client>>
vars == <<devices, connectorVars, pairingVars>>

Running == {"publishing", "serving", "deciding", "issuing", "readying", "revoking", "answering"}
\* A session succeeded, failed in order, or was cut off by its user or by an I/O error.
Ended == {"succeeded", "failed", "cut"}

\* Every variable has its type.
TypeOK ==
  /\ ConnectorTypeOK
  /\ direct \in BOOLEAN
  /\ place \in [Tokens -> {"idle"} \cup Running \cup Ended]
  /\ attempts \in [Tokens -> 0..MaxAttempts]
  /\ expired \subseteq Tokens
  /\ client \in [Tokens -> Devices]

Init ==
  /\ devices \in [Devices -> Earlier \cup {NoToken}]
  /\ Cardinality(Paired) <= MaxDevices
  /\ \A d, e \in Paired : devices[d] = devices[e] => d = e
  /\ ConnectorInit
  /\ direct \in BOOLEAN
  /\ place = [s \in Tokens |-> IF s \in Earlier THEN "succeeded" ELSE "idle"]
  /\ attempts = [s \in Tokens |-> 0]
  /\ expired = {}
  /\ client = [s \in Tokens |-> CHOOSE d \in Devices : TRUE]

\* The count is not looked at again once a request is valid, and a session that has ended has
\* no process any more.
Goto(s, p) ==
  /\ place' = [place EXCEPT ![s] = p]
  /\ expired' = IF p \in Ended THEN expired \ {s} ELSE expired
  /\ attempts' = IF p = "serving" THEN attempts ELSE [attempts EXCEPT ![s] = 0]

----------------------------------------------------------------------------
(* A session.                                                              *)

\* pair asks the Host for its status and binds the listener.  Direct pairing has one fixed
\* port, so a second session cannot bind it.
Bind(s) ==
  /\ place[s] = "idle" /\ IsAnswering
  /\ Goto(s, IF ~direct THEN "publishing"
             ELSE IF \E r \in Tokens : place[r] \in Running THEN "failed" ELSE "serving")
  /\ UNCHANGED <<devices, connectorVars, direct, client>>

\* The QR code is shown once the pairing route waits at the Relay, within 15 seconds.
Publish(s) ==
  /\ place[s] = "publishing"
  /\ Goto(s, "serving") \/ Goto(s, "failed")
  /\ UNCHANGED <<devices, connectorVars, direct, client>>

\* The two minutes are over.
Expire(s) ==
  /\ place[s] \in {"serving", "deciding"} /\ s \notin expired
  /\ expired' = expired \cup {s}
  /\ UNCHANGED <<devices, connectorVars, direct, place, attempts, client>>

\* A handshake fails, or a request is malformed, late or has the wrong credential.
Reject(s) ==
  /\ place[s] = "serving"
  /\ \/ attempts[s] + 1 >= MaxAttempts /\ Goto(s, "failed")
     \/ /\ attempts[s] + 1 < MaxAttempts /\ attempts' = [attempts EXCEPT ![s] = @ + 1]
        /\ UNCHANGED <<place, expired>>
  /\ UNCHANGED <<devices, connectorVars, direct, client>>

\* The listener fails, or the loop sees that the session has expired.
GiveUp(s) ==
  /\ place[s] = "serving" /\ Goto(s, "failed")
  /\ UNCHANGED <<devices, connectorVars, direct, client>>

\* A valid request of device d is answered Pending.
Request(s, d) ==
  /\ place[s] = "serving" /\ s \notin expired
  /\ Goto(s, "deciding") \/ Goto(s, "failed")
  /\ client' = [client EXCEPT ![s] = d]
  /\ UNCHANGED <<devices, connectorVars, direct>>

\* approve returns; an expired session comes first.
Decide(s) ==
  /\ place[s] = "deciding"
  /\ \/ Goto(s, "failed")
     \/ s \notin expired /\ Goto(s, "issuing")
  /\ UNCHANGED <<devices, connectorVars, direct, client>>

\* issue_device, which may also fail after the file was replaced, when the directory is
\* synchronized; there is no readiness barrier in direct pairing.
IssueToken(s) ==
  /\ place[s] = "issuing"
  /\ \/ Goto(s, "failed") /\ UNCHANGED devices
     \/ HasRoom(client[s]) /\ Issue(client[s], s) /\ Goto(s, "cut")
     \/ /\ HasRoom(client[s]) /\ Issue(client[s], s)
        /\ Goto(s, IF direct THEN "answering" ELSE "readying")
  /\ UNCHANGED <<connectorVars, direct, client>>

\* The barrier: the status of the Host names the route of the token.
Ready(s) ==
  /\ place[s] = "readying" /\ IsReported(s)
  /\ Goto(s, "answering")
  /\ UNCHANGED <<devices, connectorVars, direct, client>>

\* Mutant: a barrier that gives up leaves the credential in the store.
GiveUpReadyMutant(s) ==
  /\ place[s] = "readying" /\ Goto(s, "failed")
  /\ UNCHANGED <<devices, connectorVars, direct, client>>

\* Mutant: the barrier gives up only when the Host does not answer.
GiveUpReadyMutant2(s) ==
  /\ place[s] = "readying" /\ ~IsAnswering /\ Goto(s, "revoking")
  /\ UNCHANGED <<devices, connectorVars, direct, client>>

\* The barrier gives up after 30 seconds.
GiveUpReady(s) ==
  /\ place[s] = "readying" /\ Goto(s, "revoking")
  /\ UNCHANGED <<devices, connectorVars, direct, client>>

\* revoke_device by client identifier; an error of the store is ignored.
RevokeUnissued(s) ==
  /\ place[s] = "revoking"
  /\ \/ Revoke(client[s]) /\ Goto(s, "failed")
     \/ UNCHANGED devices /\ Goto(s, "cut")
  /\ UNCHANGED <<connectorVars, direct, client>>

\* Succeeded is sent, unless the identity cannot be read or the socket fails.
Answer(s) ==
  /\ place[s] = "answering"
  /\ Goto(s, "succeeded") \/ Goto(s, "cut")
  /\ UNCHANGED <<devices, connectorVars, direct, client>>

\* The user interrupts `agentpulse pair`.
Interrupt(s) ==
  /\ place[s] \in Running /\ Goto(s, "cut")
  /\ UNCHANGED <<devices, connectorVars, direct, client>>

----------------------------------------------------------------------------
(* Other commands.                                                         *)

\* agentpulse devices revoke
RevokeDevice(d) ==
  /\ d \in Paired /\ Revoke(d)
  /\ UNCHANGED <<connectorVars, pairingVars>>

\* agentpulse credentials rotate needs the lock that serve holds.
Rotate ==
  /\ serve = "down" /\ RevokeAll
  /\ UNCHANGED <<connectorVars, pairingVars>>

----------------------------------------------------------------------------
\* Steps a session takes within a bounded time.  A user may leave the question of a Relay
\* session unanswered; a direct session stops waiting for them when it expires.
SessionStep(s) ==
  \/ Publish(s) \/ Expire(s) \/ IssueToken(s) \/ Ready(s) \/ GiveUpReady(s)
  \/ RevokeUnissued(s) \/ Answer(s)
  \/ s \in expired /\ GiveUp(s)
  \/ s \in expired /\ direct /\ Decide(s)

SessionNext(s) ==
  \/ SessionStep(s) \/ Bind(s) \/ Reject(s) \/ GiveUp(s) \/ Decide(s) \/ Interrupt(s)
  \/ \E d \in Devices : Request(s, d)

Next ==
  \/ ConnectorNext /\ UNCHANGED pairingVars
  \/ \E s \in Tokens : SessionNext(s)
  \/ \E d \in Devices : RevokeDevice(d)
  \/ Rotate

\* The threads of the Host and the session processes run; the clock goes on.
Fairness ==
  /\ WF_vars(ServeStep /\ UNCHANGED pairingVars)
  /\ WF_vars(SupervisorStep /\ UNCHANGED pairingVars)
  /\ \A t \in Tokens : /\ WF_vars(WorkerStep(t) /\ UNCHANGED pairingVars)
                       /\ WF_vars(SessionStep(t))

Spec == Init /\ [][Next]_vars /\ Fairness

----------------------------------------------------------------------------
(* Properties.                                                             *)

\* A pairing that fails in order leaves no credential behind (serve_with_ready revokes the
\* token it could not hand out): only an interrupted session, or one that met an I/O error
\* when it stored, revoked or answered, may leave a token that no device knows.
FailedLeavesNothing ==
  \A s \in Tokens : place[s] = "failed" => s \notin Digests

\* The cleanup after a barrier that gave up revokes the credential that was not handed out
\* (agentpulse-host/README.md), never one that a device has been given by another session.
\* This does not hold once two sessions pair one device (README).
DeliveredIsNotRevoked ==
  [][\A s \in Tokens :
       place[s] = "revoking" /\ devices' # devices /\ place'[s] = "failed" =>
         \A d \in Devices : devices'[d] # devices[d] => place[devices[d]] # "succeeded"]_vars

\* A session ends: its lifetime, the bounded approval and the bounded barrier see to that.
\* Only the question of a Relay session may stay open for as long as the user likes.
PairingEnds ==
  \A s \in Tokens : place[s] \in Running ~> (place[s] \in Ended \/ (~direct /\ place[s] = "deciding"))

\* Once a credential is revoked or replaced, its route is withdrawn and stays withdrawn: a
\* worker that registers, retries or announces at the same moment does not bring it back.
RevokedIsWithdrawn ==
  \A t \in Tokens :
    (place[t] \in Ended /\ t \notin Digests) ~> [](t \notin ready)

=============================================================================
