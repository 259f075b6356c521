---------------------------- MODULE MCRingQueue -----------------------------
(* A small instance of RingQueue for TLC. *)
EXTENDS RingQueue, TLC

CONSTANTS p1, p2, c1, c2, m1, m2, m3

MCPuts == p1 :> <<m1, m2>> @@ p2 :> <<m3>>
=============================================================================
