-------------------------------- MODULE Net ---------------------------------
(***************************************************************************)
(* The registry of a net (src/src/net.rs) and the life of its endpoints'   *)
(* handles (Clone and Drop of Endpoint, src/src/endpoint.rs:214-241).      *)
(*                                                                         *)
(* A net holds one handle of each of its endpoints.  The handles are       *)
(* counted in refcnt, apart from the Arc, so that whoever drops the last   *)
(* handle but the net's can take that one out of the registry.  A sender   *)
(* clones the whole registry under the lock of the net, gives the message  *)
(* without the lock, and drops its clones.                                 *)
(*                                                                         *)
(* Identifiers: hueid is the next one that new_endpoint and get_neweid     *)
(* hand out.  A step is one atomic operation, one lock, or a stretch of    *)
(* code under the net's lock that touches nothing another thread can.      *)
(***************************************************************************)
EXTENDS Integers, Sequences, SequencesExt, FiniteSets

CONSTANTS
    Thread,
    Ep,            \* the endpoints ever made, by address (Endpoint::id)
    Calls,         \* the methods each thread calls
    FirstEid,      \* 0x10000 in Net::new
    ExplicitIds,   \* arguments of new_endpoint_withid not from get_neweid
    EidMod,        \* 2^64
    MaxHandles,    \* bound: handles of an endpoint that a thread holds
    MaxReserved,   \* bound: identifiers from get_neweid not yet used
    MaxSends,      \* bound: calls of send in a behaviour
    NoThread, NoEp, NoId

Methods == {"new_endpoint", "get_neweid", "new_endpoint_withid", "add_endpoint",
            "clone", "drop", "send"}

ASSUME ThreadAssumption == NoThread \notin Thread /\ NoEp \notin Ep
ASSUME CallsAssumption == Calls \in [Thread -> SUBSET Methods]
ASSUME BoundAssumption == MaxHandles \in Nat /\ MaxReserved \in Nat /\ MaxSends \in Nat
ASSUME EidAssumption ==
    /\ EidMod \in Nat \ {0} /\ FirstEid \in 0..EidMod-1
    /\ ExplicitIds \subseteq 0..EidMod-1 /\ NoId \notin Nat

VARIABLES
    endpoints,   \* Vec<Endpoint> of the net
    hueid,       \* the next identifier
    netlock,     \* Mutex around both: its holder, or NoThread
    reserved,    \* identifiers from get_neweid that no endpoint has yet
    eid,         \* AddressData.eid of each endpoint, NoId before it is made
    issued,      \* the endpoints whose identifier the net chose (history)
    taken,       \* those with one that was not above hueid when they took it (history)
    refcnt,      \* AtomicUint
    dropped,     \* AtomicBool
    handles,     \* how many handles each thread owns
    dying,       \* handles a thread will drop next (the clones of a send)
    target,      \* the endpoint it takes out of the registry
    pc,
    sends        \* calls of send so far, for MaxSends

ids == <<hueid, reserved, eid, issued, taken>>
counts == <<refcnt, dropped>>
vars == <<endpoints, netlock, ids, counts, handles, dying, target, pc, sends>>

Made == {e \in Ep : eid[e] # NoId}
Registered == ToSet(endpoints)

PCs == {"idle", "add", "clone", "drop", "cas", "lock", "remove", "nested",
        "nestedcas", "relock"}

TypeOK ==
    /\ endpoints \in Seq(Ep) /\ IsInjective(endpoints)
    /\ hueid \in 0..EidMod-1
    /\ netlock \in Thread \cup {NoThread}
    /\ reserved \subseteq 0..EidMod-1
    /\ eid \in [Ep -> (0..EidMod-1) \cup {NoId}]
    /\ issued \subseteq Ep /\ taken \subseteq Ep
    /\ refcnt \in [Ep -> Nat]
    /\ dropped \in [Ep -> BOOLEAN]
    /\ handles \in [Thread -> [Ep -> Nat]]
    /\ dying \in [Thread -> Seq(Ep)] /\ \A t \in Thread : IsInjective(dying[t])
    /\ target \in [Thread -> Ep \cup {NoEp}]
    /\ pc \in [Thread -> PCs]
    /\ sends \in Nat

\* Net::new
Init ==
    /\ endpoints = <<>>
    /\ hueid = FirstEid
    /\ netlock = NoThread
    /\ reserved = {}
    /\ eid = [e \in Ep |-> NoId]
    /\ issued = {} /\ taken = {}
    /\ refcnt = [e \in Ep |-> 0]
    /\ dropped = [e \in Ep |-> FALSE]
    /\ handles = [t \in Thread |-> [e \in Ep |-> 0]]
    /\ dying = [t \in Thread |-> <<>>]
    /\ target = [t \in Thread |-> NoEp]
    /\ pc = [t \in Thread |-> "idle"]
    /\ sends = 0

----------------------------------------------------------------------------
(* Making an endpoint *)

Idle(t, method) == pc[t] = "idle" /\ method \in Calls[t]
Step(t, from, to) == pc[t] = from /\ pc' = [pc EXCEPT ![t] = to]
Own(t, e, n) == handles' = [handles EXCEPT ![t][e] = @ + n]

\* A new endpoint with one handle for its maker and one more clone of it.
Make(t, e, id) ==
    /\ e \notin Made
    /\ eid' = [eid EXCEPT ![e] = id]
    /\ refcnt' = [refcnt EXCEPT ![e] = 2]
    /\ UNCHANGED dropped

\* Endpoint::new, clone and push, all under the lock.
NewEndpoint(t, e) ==
    /\ Idle(t, "new_endpoint") /\ netlock = NoThread
    /\ Make(t, e, hueid)
    /\ issued' = issued \cup {e}
    /\ hueid' = (hueid + 1) % EidMod
    /\ endpoints' = Append(endpoints, e)
    /\ Own(t, e, 1)
    /\ UNCHANGED <<netlock, reserved, taken, dying, target, pc, sends>>

GetNewEid(t) ==
    /\ Idle(t, "get_neweid") /\ netlock = NoThread
    /\ Cardinality(reserved) < MaxReserved
    /\ reserved' = reserved \cup {hueid}
    /\ hueid' = (hueid + 1) % EidMod
    /\ UNCHANGED <<endpoints, netlock, eid, issued, taken, counts, handles, dying, target, pc, sends>>

\* new_endpoint_withid moves hueid past an identifier above it.  The mutant
\* moves it only up to that identifier.
HueidUpTo(id) == IF id > hueid THEN id ELSE hueid
HueidAfter(id) == IF id > hueid THEN (id + 1) % EidMod ELSE hueid

NewEndpointWithId(t, e, id) ==
    /\ Idle(t, "new_endpoint_withid") /\ netlock = NoThread
    /\ Make(t, e, id)
    /\ issued' = IF id \in reserved THEN issued \cup {e} ELSE issued
    /\ taken' = IF id \in reserved \/ id > hueid THEN taken ELSE taken \cup {e}
    /\ reserved' = reserved \ {id}
    /\ hueid' = HueidAfter(id)
    /\ endpoints' = Append(endpoints, e)
    /\ Own(t, e, 1)
    /\ UNCHANGED <<netlock, dying, target, pc, sends>>

\* The bridges make their endpoint with Endpoint::new and an identifier from
\* get_neweid, clone it and then hand the clone to add_endpoint.
NewBridgeEndpoint(t, e, id) ==
    /\ Idle(t, "add_endpoint")
    /\ Make(t, e, id)
    /\ issued' = issued \cup {e}
    /\ reserved' = reserved \ {id}
    /\ Own(t, e, 1)
    /\ target' = [target EXCEPT ![t] = e]
    /\ Step(t, "idle", "add")
    /\ UNCHANGED <<endpoints, netlock, hueid, taken, dying, sends>>

AddEndpoint(t) ==
    /\ Step(t, "add", "idle")
    /\ netlock = NoThread
    /\ endpoints' = Append(endpoints, target[t])
    /\ target' = [target EXCEPT ![t] = NoEp]
    /\ UNCHANGED <<netlock, ids, counts, handles, dying, sends>>

----------------------------------------------------------------------------
(* Handles *)

\* Endpoint::clone; the clone may go to another thread.
Clone(t, u, e) ==
    /\ Idle(t, "clone")
    /\ handles[t][e] > 0 /\ handles[u][e] < MaxHandles
    /\ refcnt' = [refcnt EXCEPT ![e] = @ + 1]
    /\ Own(u, e, 1)
    /\ UNCHANGED <<endpoints, netlock, ids, dropped, dying, target, pc, sends>>

\* A handle goes out of scope.
Drop(t, e) ==
    /\ Idle(t, "drop")
    /\ handles[t][e] > 0
    /\ Own(t, e, -1)
    /\ dying' = [dying EXCEPT ![t] = <<e>>]
    /\ Step(t, "idle", "drop")
    /\ UNCHANGED <<endpoints, netlock, ids, counts, target, sends>>

\* send_internal: the registry is cloned, one endpoint after the other, under
\* the lock ...
SendBegin(t) ==
    /\ Idle(t, "send") /\ sends < MaxSends
    /\ netlock = NoThread /\ netlock' = t
    /\ sends' = sends + 1
    /\ Step(t, "idle", "clone")
    /\ UNCHANGED <<endpoints, ids, counts, handles, dying, target>>

\* The mutants clone without counting, and count down.
CountedUnchanged(e) == refcnt
CountedDown(e) == [refcnt EXCEPT ![e] = @ - 1]
CountedClone(e) == [refcnt EXCEPT ![e] = @ + 1]

SendClone(t) ==
    /\ pc[t] = "clone"
    /\ Len(dying[t]) < Len(endpoints)
    /\ LET e == endpoints[Len(dying[t]) + 1]
       IN  /\ refcnt' = CountedClone(e)
           /\ dying' = [dying EXCEPT ![t] = Append(@, e)]
    /\ UNCHANGED <<endpoints, netlock, ids, dropped, handles, target, pc, sends>>

\* ... the message is given without it (module Delivery), and the clones drop.
SendGive(t) ==
    /\ Step(t, "clone", "drop")
    /\ Len(dying[t]) = Len(endpoints)
    /\ netlock' = NoThread
    /\ UNCHANGED <<endpoints, ids, counts, handles, dying, target, sends>>

----------------------------------------------------------------------------
(* Drop of Endpoint, and drop_endpoint *)

\* refcnt.fetch_sub: only the net's handle is left if the count becomes 1.  The
\* mutants: the value before is compared; the caller's own handle is counted.
OnlyNetLeftBefore(e) == refcnt[e] = 1
OnlyNetLeftAndMine(e) == refcnt[e] = 3
OnlyNetLeft(e) == refcnt[e] = 2

DropCount(t) ==
    /\ pc[t] = "drop" /\ dying[t] # <<>>
    /\ LET e == Head(dying[t])
       IN  /\ refcnt' = [refcnt EXCEPT ![e] = @ - 1]
           /\ IF OnlyNetLeft(e)
              THEN Step(t, "drop", "cas") /\ target' = [target EXCEPT ![t] = e]
              ELSE UNCHANGED <<pc, target>>
    /\ dying' = [dying EXCEPT ![t] = Tail(@)]
    /\ UNCHANGED <<endpoints, netlock, ids, dropped, handles, sends>>

DropDone(t) ==
    /\ Step(t, "drop", "idle")
    /\ dying[t] = <<>>
    /\ UNCHANGED <<endpoints, netlock, ids, counts, handles, dying, target, sends>>

\* dropped.compare_and_swap: a clone of a send, made and dropped since, can
\* bring the count to 1 again.  The mutant swaps without comparing.
WinsAlways(e) == TRUE
Wins(e) == ~dropped[e]

DropSwap(t) ==
    /\ pc[t] = "cas"
    /\ IF Wins(target[t])
       THEN Step(t, "cas", "lock") /\ UNCHANGED target
       ELSE Step(t, "cas", "drop") /\ target' = [target EXCEPT ![t] = NoEp]
    /\ dropped' = [e \in Ep |-> dropped[e] \/ e = target[t]]
    /\ UNCHANGED <<endpoints, netlock, ids, refcnt, handles, dying, sends>>

DropLock(t) ==
    /\ Step(t, "lock", "remove")
    /\ netlock = NoThread /\ netlock' = t
    /\ UNCHANGED <<endpoints, ids, counts, handles, dying, target, sends>>

\* The end of drop_endpoint.
Unlock(t, from) ==
    /\ Step(t, from, "drop")
    /\ netlock' = NoThread
    /\ target' = [target EXCEPT ![t] = NoEp]

\* endpoints.remove(ndx) drops the net's handle while the lock is held.
DropRemove(t) ==
    /\ pc[t] = "remove"
    /\ \/ /\ \E ndx \in DOMAIN endpoints :
                endpoints[ndx] = target[t] /\ endpoints' = RemoveAt(endpoints, ndx)
          /\ Step(t, "remove", "nested")
          /\ UNCHANGED <<netlock, target>>
       \/ target[t] \notin Registered /\ Unlock(t, "remove") /\ UNCHANGED endpoints
    /\ UNCHANGED <<ids, counts, handles, dying, sends>>

\* Drop of the net's handle: its count ...
NestedCount(t) ==
    /\ pc[t] = "nested"
    /\ refcnt' = [refcnt EXCEPT ![target[t]] = @ - 1]
    /\ IF OnlyNetLeft(target[t])
       THEN Step(t, "nested", "nestedcas") /\ UNCHANGED <<netlock, target>>
       ELSE Unlock(t, "nested")
    /\ UNCHANGED <<endpoints, ids, dropped, handles, dying, sends>>

\* ... and its compare_and_swap: a drop that wins here calls drop_endpoint
\* again and waits for the lock this thread holds.
NestedSwap(t) ==
    /\ pc[t] = "nestedcas"
    /\ IF Wins(target[t])
       THEN Step(t, "nestedcas", "relock") /\ UNCHANGED <<netlock, target>>
       ELSE Unlock(t, "nestedcas")
    /\ dropped' = [e \in Ep |-> dropped[e] \/ e = target[t]]
    /\ UNCHANGED <<endpoints, ids, refcnt, handles, dying, sends>>

----------------------------------------------------------------------------

Begin(t) ==
    \/ GetNewEid(t) \/ SendBegin(t)
    \/ \E e \in Ep :
          \/ NewEndpoint(t, e)
          \/ \E id \in reserved : NewBridgeEndpoint(t, e, id)
          \/ \E id \in ExplicitIds \cup reserved : NewEndpointWithId(t, e, id)
          \/ \E u \in Thread : Clone(t, u, e)
          \/ Drop(t, e)

Continue(t) ==
    \/ AddEndpoint(t) \/ SendClone(t) \/ SendGive(t)
    \/ DropCount(t) \/ DropDone(t) \/ DropSwap(t) \/ DropLock(t)
    \/ DropRemove(t) \/ NestedCount(t) \/ NestedSwap(t)

Next == \E t \in Thread : Begin(t) \/ Continue(t)

Spec == Init /\ [][Next]_vars

\* A thread in a call goes on; the owners of handles may keep them forever.
FairSpec == Spec /\ \A t \in Thread : WF_vars(Continue(t))

----------------------------------------------------------------------------
(* What must hold *)

Owned(e) == \E t \in Thread : handles[t][e] > 0

\* The live values of type Endpoint in a thread, numbered: its handles, the clone
\* of its send (0), and the net's handle on its way in or out of the registry (-1).
Values(t, e) ==
    1..handles[t][e]
      \cup (IF e \in ToSet(dying[t]) THEN {0} ELSE {})
      \cup (IF target[t] = e /\ pc[t] \in {"add", "nested"} THEN {-1} ELSE {})

\* All of them, with the net's handle in the registry.
Refs(e) ==
    (UNION {{t} \X Values(t, e) : t \in Thread})
      \cup (IF e \in Registered THEN {<<NoThread, 0>>} ELSE {})

\* refcnt is exact whatever clones and drops interleave: the decision to remove
\* an endpoint rests on it (endpoint.rs:215, 232; net.rs:218).
RefcntExact == \A e \in Ep : refcnt[e] = Cardinality(Refs(e))

\* An endpoint that somebody owns stays on the net, so that messages reach it:
\* no drop takes it out while a clone of it can still be made
\* (endpoint.rs:231-241).
OwnerRegistered ==
    \A e \in Ep :
        Owned(e) => e \in Registered \/ \E t \in Thread : pc[t] = "add" /\ target[t] = e

\* No nested drop waits for the lock its own thread holds: "hopefully it is
\* capable of handling a nested call back into it's self" (net.rs:281-283).
NoReentry == \A t \in Thread : pc[t] # "relock"

\* "Returns a ID that is unique to this net" (net.rs:230): an identifier that
\* the net chose is that of one endpoint, and of none before it is used, but for
\* callers of new_endpoint_withid with an identifier up to hueid, hueid itself
\* included: such a call does not move it (net.rs:257).
UniqueEid ==
    /\ \A e \in issued, f \in Made \ taken : eid[e] = eid[f] => e = f
    /\ \A e \in Made \ taken : eid[e] \notin reserved

\* An endpoint that nobody owns leaves the net (endpoint.rs:226-230).
UnownedLeaves ==
    \A e \in Ep : e \in Registered /\ ~Owned(e) ~> e \notin Registered
=============================================================================
