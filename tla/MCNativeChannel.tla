--------------------------- MODULE MCNativeChannel ---------------------------
(* The smallest queues and pages at which a subscription takes two pages, a   *)
(* batch may or may not fit, and live frames compete with it.                 *)
EXTENDS NativeChannel

MCSessions == {"s1"}
=============================================================================
