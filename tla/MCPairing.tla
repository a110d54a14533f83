------------------------------ MODULE MCPairing ------------------------------
(* Two sessions that may pair the same device, with room for one device.   *)
EXTENDS Pairing
=============================================================================
