------------------------------ MODULE Delivery ------------------------------
(***************************************************************************)
(* The way of a message through a net: Endpoint::send, Net::sendas and     *)
(* send_internal, which give it to one endpoint after the other, the       *)
(* filter and the limit of give, and Endpoint::recv with the flag that all *)
(* copies of a sync message share.  Threads send and receive at once, on   *)
(* one endpoint or on a list of them; endpoints come and go and change     *)
(* their addresses meanwhile, as the bridges do.                           *)
(*                                                                         *)
(* The inside of an endpoint is module Endpoint, counts of handles are in  *)
(* Net: here give reads address and limits in one step and puts in         *)
(* another, get is one step, and an endpoint leaves when its owner and the *)
(* snapshots of the senders have let it go.  What is in its queue then is  *)
(* lost with it.                                                           *)
(***************************************************************************)
EXTENDS Addressing

CONSTANTS
    NetSid,     \* identifier of the net
    Order,      \* the registry at first: Net's Vec<Endpoint>
    Leavers,    \* endpoints that their owners may drop
    Limit,      \* limitpending of each endpoint, 0 for none
    Moves,      \* the addresses each endpoint is given later
    Receives,   \* the list each thread receives from
    NoMsg

ASSUME NetAssumption == NetSid \in Nat \ {Anyone, ThisNet}
ASSUME OrderAssumption == Order \in Seq(Ep) /\ IsInjective(Order)
ASSUME LimitAssumption == Limit \in [Ep -> Nat] /\ Moves \in [Ep -> SUBSET Address]
ASSUME ReceiveAssumption ==
    /\ Receives \in [Thread -> Seq(Ep)] /\ Leavers \subseteq Ep
    /\ NoMsg \notin Msg

VARIABLES
    addr,    \* AddressData of each endpoint
    past,    \* the addresses it has had (history)
    queue,   \* its messages
    inbox,   \* the messages its recv returned (history)
    src,     \* srcsid and srceid of each message, Unsent before its send
    valid,   \* SyncMessage.valid
    count,   \* ocnt of send_internal for each message
    given,   \* the endpoints whose give returned true for it (history)
    next,    \* how far each thread is in its script
    reg,     \* the registry
    life,    \* of each endpoint: added, released by its owner, taken out
    cast,    \* the endpoints in the snapshot of each message (history)
    pc, hand,
    at,      \* what is left of the list a thread receives from
    todo,    \* what is left of its snapshot
    snap     \* the endpoints it has clones of

net == <<reg, life, cast>>
books == <<count, given>>
local == <<next, pc, hand, at, todo, snap>>
vars == <<addr, past, queue, inbox, src, valid, books, net, local>>

Senders == {t \in Thread : Script[t] # <<>>}

\* Each sender may be between the check of a limit and its put, so a queue holds
\* at most one message less than its limit and the senders together.
TypeOK ==
    /\ addr \in [Ep -> Address]
    /\ queue \in [Ep -> Seq(Msg)]
    /\ \A e \in Ep : Limit[e] > 0 => Len(queue[e]) < Limit[e] + Cardinality(Senders)
    /\ inbox \in [Ep -> Seq(Msg)]
    /\ src \in [Msg -> Address \cup {Unsent}]
    /\ valid \in [SyncMsg -> BOOLEAN]
    /\ count \in [Msg -> Nat] /\ given \in [Msg -> SUBSET Ep]
    /\ next \in [Thread -> Nat]
    /\ reg \in Seq(Ep) /\ IsInjective(reg)
    /\ life \in [Ep -> {"new", "owned", "released", "leaving", "gone"}]
    /\ \A e \in Ep : life[e] \in {"owned", "released", "leaving"} <=> e \in ToSet(reg)
    /\ cast \in [Msg -> SUBSET Ep]
    /\ pc \in [Thread -> {"idle", "snap", "give", "put", "drop", "get", "take"}]
    /\ hand \in [Thread -> Msg \cup {NoMsg}]
    /\ at \in [Thread -> Seq(Ep)] /\ todo \in [Thread -> Seq(Ep)]
    /\ snap \in [Thread -> SUBSET Ep]

\* SyncMessage::new makes a message valid.
Init ==
    /\ addr = Home
    /\ past = [e \in Ep |-> {Home[e]}]
    /\ queue = [e \in Ep |-> <<>>]
    /\ inbox = [e \in Ep |-> <<>>]
    /\ src = [m \in Msg |-> Unsent]
    /\ valid = [m \in SyncMsg |-> TRUE]
    /\ count = [m \in Msg |-> 0]
    /\ given = [m \in Msg |-> {}]
    /\ reg = Order
    /\ life = [e \in Ep |-> IF e \in ToSet(Order) THEN "owned" ELSE "new"]
    /\ cast = [m \in Msg |-> {}]
    /\ next = [t \in Thread |-> 1]
    /\ pc = [t \in Thread |-> "idle"]
    /\ hand = [t \in Thread |-> NoMsg]
    /\ at = [t \in Thread |-> <<>>]
    /\ todo = [t \in Thread |-> <<>>]
    /\ snap = [t \in Thread |-> {}]

----------------------------------------------------------------------------
(* Sending *)

\* Endpoint::send and sendas put the sender's address into the message ...
SendBegin(t) ==
    /\ pc[t] = "idle" /\ next[t] \in DOMAIN Script[t]
    /\ LET m == Script[t][next[t]]
       IN  /\ life[From[m]] = "owned"
           /\ src' = [src EXCEPT ![m] = addr[From[m]]]
           /\ hand' = [hand EXCEPT ![t] = m]
    /\ next' = [next EXCEPT ![t] = @ + 1]
    /\ pc' = [pc EXCEPT ![t] = "snap"]
    /\ UNCHANGED <<addr, past, queue, inbox, valid, books, net, at, todo, snap>>

\* ... and send_internal clones the registry, whose lock it then lets go.
Snapshot(t) ==
    /\ pc[t] = "snap"
    /\ todo' = [todo EXCEPT ![t] = reg]
    /\ snap' = [snap EXCEPT ![t] = ToSet(reg)]
    /\ cast' = [cast EXCEPT ![hand[t]] = ToSet(reg)]
    /\ pc' = [pc EXCEPT ![t] = "give"]
    /\ UNCHANGED <<addr, past, queue, inbox, src, valid, books, reg, life, next, hand, at>>

\* The mutant admits a message at the limit.
RoomOffByOne(e) == Limit[e] = 0 \/ Len(queue[e]) <= Limit[e]
Room(e) == Limit[e] = 0 \/ Len(queue[e]) < Limit[e]

\* internal_clone shares the flag of the original.  The mutant moves it.
FlagMoved(m) == [n \in SyncMsg |-> valid[n] /\ n # m]
FlagShared(m) == valid

\* ocnt counts the endpoints that gave true.  The mutant counts them all.
CountedAll(m, gave) == [count EXCEPT ![m] = @ + 1]
Counted(m, gave) == IF gave THEN [count EXCEPT ![m] = @ + 1] ELSE count

\* The loop of send_internal goes to the next endpoint of the snapshot.
NextEndpoint(t) ==
    /\ todo' = [todo EXCEPT ![t] = Tail(@)]
    /\ pc' = [pc EXCEPT ![t] = IF Len(todo[t]) = 1 THEN "drop" ELSE "give"]

\* give returns false, for the address or the limit of messages (that of the memory
\* is in Endpoint) ...
Refuse(t) ==
    /\ pc[t] = "give"
    /\ LET e == Head(todo[t]) IN ~(Accepts(NetSid, hand[t], src[hand[t]], addr[e]) /\ Room(e))
    /\ count' = Counted(hand[t], FALSE)
    /\ NextEndpoint(t)
    /\ UNCHANGED <<addr, past, queue, inbox, src, valid, given, net, next, hand, at, snap>>

\* ... or goes on to clone the message ...
Admit(t) ==
    /\ pc[t] = "give"
    /\ LET e == Head(todo[t]) IN Accepts(NetSid, hand[t], src[hand[t]], addr[e]) /\ Room(e)
    /\ valid' = FlagShared(hand[t])
    /\ pc' = [pc EXCEPT ![t] = "put"]
    /\ UNCHANGED <<addr, past, queue, inbox, src, books, net, next, hand, at, todo, snap>>

\* ... and puts the clone into the queue.
Put(t) ==
    /\ pc[t] = "put"
    /\ queue' = [queue EXCEPT ![Head(todo[t])] = Append(@, hand[t])]
    /\ count' = Counted(hand[t], TRUE)
    /\ given' = [given EXCEPT ![hand[t]] = @ \cup {Head(todo[t])}]
    /\ NextEndpoint(t)
    /\ UNCHANGED <<addr, past, inbox, src, valid, net, next, hand, at, snap>>

\* The queue of an endpoint goes with its last handle.
Freed(es) == [e \in Ep |-> IF e \in es THEN <<>> ELSE queue[e]]

\* send_internal drops its clones at its end, which for an endpoint that was taken
\* out meanwhile may be the last handles.
DropSnapshot(t) ==
    /\ pc[t] = "drop"
    /\ pc' = [pc EXCEPT ![t] = "idle"] /\ hand' = [hand EXCEPT ![t] = NoMsg]
    /\ snap' = [snap EXCEPT ![t] = {}]
    /\ queue' = Freed({e \in snap[t] :
                   life[e] = "gone" /\ \A u \in Thread \ {t} : e \notin snap[u]})
    /\ UNCHANGED <<addr, past, inbox, src, valid, books, net, next, at, todo>>

----------------------------------------------------------------------------
(* Receiving *)

\* Endpoint::recv is the case of a list of one.
RecvBegin(t) ==
    /\ pc[t] = "idle" /\ Receives[t] # <<>>
    /\ \A e \in ToSet(Receives[t]) : life[e] = "owned"
    /\ at' = [at EXCEPT ![t] = Receives[t]]
    /\ pc' = [pc EXCEPT ![t] = "get"]
    /\ UNCHANGED <<addr, past, queue, inbox, src, valid, books, net, next, hand, todo, snap>>

\* A call returns: a message, NoMessages, or TimedOut at any time after a look.
RecvEnd(t) ==
    /\ pc' = [pc EXCEPT ![t] = "idle"]
    /\ hand' = [hand EXCEPT ![t] = NoMsg]
    /\ at' = [at EXCEPT ![t] = <<>>]

\* A raw or a clone message is returned, a sync message tried first.
Get(t) ==
    /\ pc[t] = "get" /\ queue[Head(at[t])] # <<>>
    /\ LET e == Head(at[t])
           m == Head(queue[e])
       IN  /\ queue' = [queue EXCEPT ![e] = Tail(@)]
           /\ IF m \in SyncMsg
              THEN /\ hand' = [hand EXCEPT ![t] = m]
                   /\ pc' = [pc EXCEPT ![t] = "take"]
                   /\ UNCHANGED <<inbox, at>>
              ELSE /\ inbox' = [inbox EXCEPT ![e] = Append(@, m)]
                   /\ RecvEnd(t)
    /\ UNCHANGED <<addr, past, src, valid, books, net, next, todo, snap>>

\* NoMessages: on to the next endpoint of the list, at its end the error; the
\* receives that wait look again at the whole list, which is a new RecvBegin here.
GetNone(t) ==
    /\ pc[t] = "get" /\ queue[Head(at[t])] = <<>>
    /\ IF Len(at[t]) = 1 THEN RecvEnd(t)
       ELSE at' = [at EXCEPT ![t] = Tail(@)] /\ UNCHANGED <<pc, hand>>
    /\ UNCHANGED <<addr, past, queue, inbox, src, valid, books, net, next, todo, snap>>

\* takeasvalid.  The mutant does not clear the flag.
FlagKept(m) == valid
FlagTaken(m) == [valid EXCEPT ![m] = FALSE]

Take(t) ==
    /\ pc[t] = "take" /\ valid[hand[t]]
    /\ valid' = FlagTaken(hand[t])
    /\ inbox' = [inbox EXCEPT ![Head(at[t])] = Append(@, hand[t])]
    /\ RecvEnd(t)
    /\ UNCHANGED <<addr, past, queue, src, books, net, next, todo, snap>>

Discard(t) ==
    /\ pc[t] = "take" /\ ~valid[hand[t]]
    /\ pc' = [pc EXCEPT ![t] = "get"]
    /\ hand' = [hand EXCEPT ![t] = NoMsg]
    /\ UNCHANGED <<addr, past, queue, inbox, src, valid, books, net, next, at, todo, snap>>

----------------------------------------------------------------------------
(* Endpoints come, change and go *)

\* setsid and seteid
SetAddress(e) ==
    /\ life[e] = "owned"
    /\ \E a \in Moves[e] \ {addr[e]} :
          /\ addr' = [addr EXCEPT ![e] = a]
          /\ past' = [past EXCEPT ![e] = @ \cup {a}]
    /\ UNCHANGED <<queue, inbox, src, valid, books, net, local>>

\* new_endpoint, or add_endpoint by a bridge.
Join(e) ==
    /\ life[e] = "new" /\ life' = [life EXCEPT ![e] = "owned"]
    /\ reg' = Append(reg, e)
    /\ UNCHANGED <<addr, past, queue, inbox, src, valid, books, cast, local>>

\* The owner drops its handle; a thread that receives or sends has one.
Release(e) ==
    /\ e \in Leavers /\ life[e] = "owned" /\ life' = [life EXCEPT ![e] = "released"]
    /\ \A t \in Thread :
          e \notin ToSet(at[t]) /\ (pc[t] \in {"snap", "give", "put", "drop"} => From[hand[t]] # e)
    /\ UNCHANGED <<addr, past, queue, inbox, src, valid, books, reg, cast, local>>

\* Endpoint::drop finds the net's handle alone ...
LastDrop(e) ==
    /\ life[e] = "released" /\ \A t \in Thread : e \notin snap[t]
    /\ life' = [life EXCEPT ![e] = "leaving"]
    /\ UNCHANGED <<addr, past, queue, inbox, src, valid, books, reg, cast, local>>

\* ... and drop_endpoint takes it out, though a sender may have cloned it again,
\* and then gives to it and drops it last.
DropEndpoint(e) ==
    /\ life[e] = "leaving" /\ life' = [life EXCEPT ![e] = "gone"]
    /\ \E ndx \in DOMAIN reg : reg[ndx] = e /\ reg' = RemoveAt(reg, ndx)
    /\ queue' = Freed({f \in {e} : \A t \in Thread : f \notin snap[t]})
    /\ UNCHANGED <<addr, past, inbox, src, valid, books, cast, local>>

Next ==
    \/ \E t \in Thread :
          \/ SendBegin(t) \/ Snapshot(t) \/ Refuse(t) \/ Admit(t) \/ Put(t) \/ DropSnapshot(t)
          \/ RecvBegin(t) \/ Get(t) \/ GetNone(t) \/ Take(t) \/ Discard(t)
    \/ \E e \in Ep : SetAddress(e) \/ Join(e) \/ Release(e) \/ LastDrop(e) \/ DropEndpoint(e)

Spec == Init /\ [][Next]_vars

----------------------------------------------------------------------------
(* What must hold *)

M == INSTANCE Mail WITH
        Ordered <- {e \in Ep : Cardinality({t \in Thread : e \in ToSet(Receives[t])}) <= 1},
        on <- ToSet(reg)

\* The net keeps the promise of Mail (net.rs:212-228, endpoint.rs:254-284).
KeepsPromise == M!Spec

Copies(m) == {e \in Ep : m \in ToSet(queue[e])}
Holders(m) == {t \in Thread : pc[t] = "take" /\ hand[t] = m}
Held(m) == {Head(at[t]) : t \in Holders(m)}
Receivers(m) == {e \in Ep : m \in ToSet(inbox[e])}

\* What send tells its caller comes true: a clone message is counted once for each
\* endpoint whose give returned true, no other has or had it, and one that has not
\* left the net has it or had it (net.rs:212-228).
CountKept ==
    \A m \in Msg \ SyncMsg :
        /\ count[m] = Cardinality(given[m]) /\ Copies(m) \cup Receivers(m) \subseteq given[m]
        /\ \A e \in given[m] : life[e] # "gone" => e \in Copies(m) \cup Receivers(m)

\* As long as nobody has a sync message, every endpoint that admitted it and still
\* has its owner has its copy in its queue or in the hands of its receiver, though
\* receivers throw copies of sync messages away (endpoint.rs:272-279).  It is lost
\* when the owners of all endpoints that admitted it have let them go.
SyncReachable ==
    \A m \in SyncMsg : Receivers(m) = {} =>
        \A e \in given[m] : life[e] = "owned" => e \in Copies(m) \cup Held(m)
=============================================================================
