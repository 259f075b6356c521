----------------------------- MODULE Addressing -----------------------------
(***************************************************************************)
(* Who may receive a message: the filter at the head of Endpoint::give     *)
(* (src/src/endpoint.rs:346-378), with the constants that describe a net,  *)
(* its endpoints and the messages its threads send.                        *)
(***************************************************************************)
EXTENDS Integers, Sequences, SequencesExt, FiniteSets

CONSTANTS
    Thread,
    Ep,        \* endpoints
    Msg,       \* messages; each is sent at most once
    SyncMsg,   \* the sync messages, taken by one receiver
    CanLoop,   \* messages whose sender may receive them
    Dst,       \* destination of each message
    From,      \* the endpoint whose send is called with it
    Script,    \* the messages each thread sends, in order
    Home,      \* address of each endpoint when the net is set up
    Unsent     \* no address

Anyone == 0      \* the wildcard in a destination
ThisNet == 1     \* dstsid of sendsynctype and sendclonetype

Address == [sid : Nat, eid : Nat]

ASSUME AddressAssumption ==
    /\ Dst \in [Msg -> Address] /\ Home \in [Ep -> Address] /\ Unsent \notin Address
ASSUME MessageAssumption ==
    /\ SyncMsg \subseteq Msg /\ CanLoop \subseteq Msg /\ From \in [Msg -> Ep]
ASSUME ScriptAssumption ==
    /\ Script \in [Thread -> Seq(Msg)]
    /\ \A t, u \in Thread : \A i \in DOMAIN Script[t], j \in DOMAIN Script[u] :
          Script[t][i] = Script[u][j] => t = u /\ i = j
ASSUME FiniteAssumption == IsFiniteSet(Thread) /\ IsFiniteSet(Ep)

\* The net a message is for, as the net with identifier netsid sees it.
NetAccepts(netsid, dstsid, sid) ==
    \/ dstsid = Anyone
    \/ dstsid = ThisNet /\ sid = netsid
    \/ dstsid \notin {Anyone, ThisNet} /\ dstsid = sid

\* Message m, sent from address src, is for an endpoint of that net whose address
\* is a.  The mutant compares the endpoint identifiers only.
AcceptsAnyNet(netsid, m, src, a) ==
    /\ m \in CanLoop \/ src # a
    /\ Dst[m].eid \in {Anyone, a.eid}
Accepts(netsid, m, src, a) ==
    /\ m \in CanLoop \/ src # a
    /\ NetAccepts(netsid, Dst[m].sid, a.sid)
    /\ Dst[m].eid \in {Anyone, a.eid}

\* Thread order of two messages.
SentBefore(m, n) ==
    \E t \in Thread : \E i, j \in DOMAIN Script[t] :
        i < j /\ Script[t][i] = m /\ Script[t][j] = n
=============================================================================
