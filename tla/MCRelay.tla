------------------------------ MODULE MCRelay ------------------------------
(* Two Host connections and two clients on two routes.  The second Host    *)
(* registers a route of its own or also the route of the first one; both   *)
(* clients want the route of the first.                                    *)
EXTENDS Relay, TLC

CONSTANTS h1, h2, c1, c2, r1, r2

MCHellos == (h1 :> {{r1}}) @@ (h2 :> {{r2}, {r1, r2}}) @@ (c1 :> {{r1}}) @@ (c2 :> {{r1}})
=============================================================================
