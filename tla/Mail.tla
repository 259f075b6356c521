-------------------------------- MODULE Mail --------------------------------
(***************************************************************************)
(* What a net promises of the messages its endpoints return to the         *)
(* application: only a message that was sent, at an endpoint it is for,    *)
(* once, in the order of its sender unless threads share the endpoint, and *)
(* a sync message at one endpoint of the whole net ("can only be recieved  *)
(* by a single endpoint on the local net", src/src/syncmessage.rs:10-11).  *)
(* Endpoints come and go: a message is for those on the net at one moment  *)
(* of its send, those that leave before they get it included.  It may be   *)
(* lost: an endpoint refuses it at a limit.  A sender whose address        *)
(* changes meanwhile may get its own message: give compares addresses,     *)
(* not endpoints (endpoint.rs:353-357).                                    *)
(***************************************************************************)
EXTENDS Addressing

CONSTANTS
    NetSid,    \* identifier of the net
    Ordered    \* the endpoints that only one thread receives from

VARIABLES
    src,     \* the address each message was sent from
    past,    \* the addresses each endpoint has had
    inbox,   \* the messages each endpoint has returned, in order
    on,      \* the endpoints on the net
    cast     \* the endpoints each message is for

vars == <<src, past, inbox, on, cast>>

Init ==
    /\ src = [m \in Msg |-> Unsent]
    /\ past = [e \in Ep |-> {Home[e]}]
    /\ inbox = [e \in Ep |-> <<>>]
    /\ on \subseteq Ep /\ cast = [m \in Msg |-> {}]

Send(m) ==
    /\ src[m] = Unsent
    /\ \A n \in Msg : SentBefore(n, m) => src[n] # Unsent
    /\ \E a \in past[From[m]] : src' = [src EXCEPT ![m] = a]
    /\ UNCHANGED <<past, inbox, on, cast>>

Cast(m) ==
    /\ src[m] # Unsent /\ cast[m] = {} /\ \A e \in Ep : m \notin ToSet(inbox[e])
    /\ cast' = [cast EXCEPT ![m] = on]
    /\ UNCHANGED <<src, past, inbox, on>>

Join(e) == e \notin on /\ on' = on \cup {e} /\ UNCHANGED <<src, past, inbox, cast>>
Leave(e) == e \in on /\ on' = on \ {e} /\ UNCHANGED <<src, past, inbox, cast>>

Readdress(e) ==
    /\ \E a \in past'[e] :
          a \in Address /\ past' = [past EXCEPT ![e] = @ \cup {a}]
    /\ UNCHANGED <<src, inbox, on, cast>>

Receive(e, m) ==
    /\ e \in cast[m]
    /\ \E a \in past[e] : Accepts(NetSid, m, src[m], a)
    /\ m \notin ToSet(inbox[e])
    /\ m \in SyncMsg => \A f \in Ep : m \notin ToSet(inbox[f])
    /\ e \in Ordered => \A n \in ToSet(inbox[e]) : ~SentBefore(m, n)
    /\ inbox' = [inbox EXCEPT ![e] = Append(@, m)]
    /\ UNCHANGED <<src, past, on, cast>>

Next ==
    \/ \E m \in Msg : Send(m) \/ Cast(m)
    \/ \E e \in Ep : Readdress(e) \/ Join(e) \/ Leave(e)
    \/ \E e \in Ep, m \in Msg : Receive(e, m)

Spec == Init /\ [][Next]_vars
=============================================================================
