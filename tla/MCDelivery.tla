----------------------------- MODULE MCDelivery -----------------------------
(* A net with three endpoints of its own, and a bridge that joins it, for TLC. *)
EXTENDS Delivery, TLC

CONSTANTS s1, s2, r, a, b, c, bridge, sync, direct, all, remote

MCThread == {s1, s2, r}
MCEp == {a, b, c, bridge}
MCMsg == {sync, direct, all, remote}
MCOrder == <<a, b, c>>

Local == 100
Remote == 200
NoSid == 999
At(s, e) == [sid |-> s, eid |-> e]

\* The endpoint of a bridge has the remote net's identifier once it knows it.
MCHome == a :> At(Local, 10) @@ b :> At(Local, 11) @@ c :> At(Local, 12)
            @@ bridge :> At(NoSid, 13)
MCMoves == a :> {} @@ b :> {} @@ c :> {} @@ bridge :> {At(Remote, 13)}

\* sendsynctype, a message to b, a broadcast, one to the remote net.
MCDst == sync :> At(1, 0) @@ direct :> At(Local, 11) @@ all :> At(0, 0)
           @@ remote :> At(Remote, 0)
MCFrom == sync :> c @@ remote :> c @@ direct :> a @@ all :> c
MCScript == s1 :> <<remote, sync>> @@ s2 :> <<direct, all>>
              @@ r :> <<>>
MCReceives == s1 :> <<>> @@ s2 :> <<a, bridge>> @@ r :> <<b, a>>
MCLimit == a :> 1 @@ b :> 1 @@ c :> 0 @@ bridge :> 0
=============================================================================
