----------------------------- MODULE MCBridged ------------------------------
(* Two nets, one endpoint on the first and two on the second, for TLC. *)
EXTENDS Bridged, TLC

CONSTANTS L, R, s, a, x, y, bl, br, there, all, sync

MCNet == {L, R}
MCSid == L :> 100 @@ R :> 200
MCEp == {a, x, y, bl, br}
MCNetOf == a :> L @@ bl :> L @@ x :> R @@ y :> R @@ br :> R
MCBridge == L :> bl @@ R :> br

\* The endpoint of a bridge is made with the net identifier !0.
At(n, e) == [sid |-> n, eid |-> e]
MCHome == a :> At(100, 10) @@ bl :> At(999, 11)
            @@ x :> At(200, 10) @@ y :> At(200, 11) @@ br :> At(999, 12)

MCMsg == {there, all, sync}
MCDst == there :> At(200, 0) @@ all :> At(0, 0) @@ sync :> At(0, 0)
MCFrom == there :> a @@ all :> a @@ sync :> x
MCScript == s :> <<all, sync, there>>
=============================================================================
