------------------------------- MODULE MCNet --------------------------------
(* Small instances of Net for TLC. *)
EXTENDS Net, TLC

CONSTANTS t1, t2, t3, a, b

\* Two owners who pass clones to each other, and a sender.
MCThread == {t1, t2, t3}
MCEp == {a, b}
Owning == {"new_endpoint", "get_neweid", "new_endpoint_withid", "clone", "drop"}
MCCalls == t1 :> Owning @@ t2 :> {"add_endpoint", "drop"} @@ t3 :> {"send"}
=============================================================================
