----------------------------- MODULE MCListener -----------------------------
(* The listener with three connections and two callers of terminate.        *)
EXTENDS Listener

CONSTANTS c1, c2, c3, p1, p2
=============================================================================
