----------------------------- MODULE MCEndpoint -----------------------------
(* Small instances of Endpoint for TLC. *)
EXTENDS Endpoint, TLC

CONSTANTS g1, g2, r1, r2, m1, m2, m3, m4

\* Two senders, one of which also polls, and two threads that block.
MCThread == {g1, g2, r1, r2}
MCCalls == g1 :> {"give"} @@ g2 :> {"give", "recv"}
             @@ r1 :> {"recvorblock"} @@ r2 :> {"recvorblockforever"}
MCMsg == {m1, m2, m3, m4}
MCSyncMsg == {m1}
MCCap == m1 :> 1 @@ m2 :> 2 @@ m3 :> 2 @@ m4 :> 2

ASSUME FitAssumption == MessagesFit

\* Two messages, for a recvorblock that others keep from its messages.
FewMsg == {m1, m2}
FewCap == m1 :> 1 @@ m2 :> 1

\* A sender, a thread that polls and one that waits with a timeout.
TrioThread == {g1, g2, r1}
TrioCalls == g1 :> {"give"} @@ g2 :> {"recv"} @@ r1 :> {"recvorblock"}
=============================================================================
