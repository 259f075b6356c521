---------------------------- MODULE MCLinkQueue -----------------------------
(* Small instances of LinkQueue for TLC. *)
EXTENDS LinkQueue, TLC

CONSTANTS p1, p2, c1, c2, a, b, c, m1, m2, m3, m4

MCPuts == p1 :> <<m1, m2, m4>> @@ p2 :> <<m3>>
Symmetry == Permutations(Item)
=============================================================================
