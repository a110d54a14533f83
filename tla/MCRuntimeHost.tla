--------------------------- MODULE MCRuntimeHost ---------------------------
(* A Provider and two Channels: the subscriptions of c1 end with its source,  *)
(* those of c2 persist, and the port of c2 calls its own handle.              *)
EXTENDS RuntimeHost

MCOrder == <<"p1", "c1", "c2">>
=============================================================================
