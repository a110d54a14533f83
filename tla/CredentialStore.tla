--------------------------- MODULE CredentialStore ---------------------------
(***************************************************************************)
(* HostCredentialStore (agentpulse-pairing/src/store.rs) as far as device  *)
(* credentials go: the file is read and replaced as a whole under an       *)
(* exclusive lock (update), so every operation is one step, whichever      *)
(* process performs it.  A token stands for its hash and for the Relay     *)
(* route derived from the hash; tokens are random, so none is issued twice.*)
(***************************************************************************)
EXTENDS Naturals, FiniteSets

CONSTANTS Devices,      \* client identifiers of Android installations
          Tokens,
          NoToken,
          MaxDevices    \* MAX_DEVICES

ASSUME StoreAssumption ==
  /\ NoToken \notin Tokens
  /\ IsFiniteSet(Devices) /\ Devices # {} /\ MaxDevices \in Nat

VARIABLE devices        \* the credential stored for a client identifier, if any

Paired == {d \in Devices : devices[d] # NoToken}

\* device_credential_digests, and the routes relay_routes derives from them.
Digests == {devices[d] : d \in Paired}

\* issue_device replaces the credential of a known device and refuses a new one at capacity.
HasRoom(d) == d \in Paired \/ Cardinality(Paired) < MaxDevices
Issue(d, t) == devices' = [devices EXCEPT ![d] = t]

\* revoke_device goes by client identifier; an unknown one is an error that changes nothing.
Revoke(d) == devices' = [devices EXCEPT ![d] = NoToken]

\* rotate_credentials forgets every device.
RevokeAll == devices' = [d \in Devices |-> NoToken]

=============================================================================
