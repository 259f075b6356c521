--------------------------- MODULE ListenerProofs ---------------------------
(***************************************************************************)
(* That terminate stops the listener, for any connections and callers.     *)
(*                                                                         *)
(* StopsAccepting alone is not inductive: it needs that a call that has    *)
(* returned has either closed the acceptor or met a thread that is still   *)
(* to look at the flag.                                                    *)
(*                                                                         *)
(* Nor is NegotiatedAreClients: it needs the connections that are not yet  *)
(* negotiated, each of which will raise negcount once.                     *)
(***************************************************************************)
EXTENDS Listener, FiniteSetTheorems, TLAPS

Returned == \E p \in Caller : caller[p] = "returned"

Early == {"bind", "publish", "failed"}

\* What the calls have done so far.
CallInv ==
    /\ caller \in [Caller -> {"idle", "look", "close", "returned"}]
    /\ acc \in Early <=> acceptor = "none"
    /\ \A p \in Caller : caller[p] # "idle" => terminate
    /\ \A p \in Caller : caller[p] = "close" => acceptor # "none"

\* A call that has returned leaves no way to accept.
StopInv ==
    Returned => acceptor = "closed" \/ (terminate /\ acc \in Early \cup {"check", "ended"})

\* The one connection that is served after that.
LateInv ==
    /\ late \in {0, 1}
    /\ late = 1 => Returned /\ acc # "serve"

Inv == CallInv /\ StopInv /\ LateInv

LEMMA InvInit == Init => Inv
  BY DEF Init, Inv, CallInv, StopInv, LateInv, Returned, Early

\* The steps of the accepting thread.
LEMMA InvAccept == Inv /\ AcceptThread => Inv'
<1> SUFFICES ASSUME Inv, AcceptThread PROVE Inv'
  OBVIOUS
<1> USE DEF Inv, CallInv, StopInv, LateInv, Returned, Early, Acc, counts, threads
<1>1. CASE Bind \/ BindFails
  BY <1>1 DEF Bind, BindFails
<1>2. CASE Publish
  BY <1>2 DEF Publish
<1>3. CASE Check
  BY <1>3 DEF Check, FlagSeen
<1>4. CASE Accept
  \* An open acceptor: no call has returned, and nothing was served late.
  <2>1. ~Returned
    BY <1>4 DEF Accept
  <2>2. late = 0
    BY <2>1
  <2> QED
    BY <1>4, <2>1, <2>2 DEF Accept
<1>5. CASE AcceptError \/ Continue
  BY <1>5 DEF AcceptError, Continue
<1>6. CASE Serve
  BY <1>6 DEF Serve
<1>7. CASE StartRx \/ StartTx \/ Count
  BY <1>7 DEF StartRx, StartTx, Count
<1> QED
  BY <1>1, <1>2, <1>3, <1>4, <1>5, <1>6, <1>7 DEF AcceptThread

\* The steps of everybody else.
LEMMA InvOthers ==
  ASSUME Inv,
         \/ \E c \in Conn : RxThread(c) \/ PeerConnects(c) \/ PeerCloses(c)
         \/ \E p \in Caller : Terminate(p) \/ Look(p) \/ CloseAccept(p)
  PROVE  Inv'
<1> USE DEF Inv, CallInv, StopInv, LateInv, Returned, Early, counts, threads
<1>1. ASSUME NEW c \in Conn, RxThread(c) \/ PeerConnects(c) \/ PeerCloses(c)
      PROVE  Inv'
  BY <1>1 DEF RxThread, RxReadSid, RxNegotiated, RxEnd, PeerConnects, PeerCloses
<1>2. ASSUME NEW p \in Caller, Terminate(p) PROVE Inv'
  BY <1>2 DEF Terminate, Calls
<1>3. ASSUME NEW p \in Caller, Look(p) PROVE Inv'
  \* With an acceptor it goes on to close it, without one the thread is early.
  <2>1. caller[p] # "returned" /\ caller[p] # "idle" /\ terminate
    BY <1>3 DEF Look, Calls
  <2> QED
    BY <1>3, <2>1 DEF Look, Calls
<1>4. ASSUME NEW p \in Caller, CloseAccept(p) PROVE Inv'
  BY <1>4 DEF CloseAccept, Calls
<1> QED
  BY <1>1, <1>2, <1>3, <1>4

\* terminate ends the accepting of connections, but for one that had been
\* accepted (listener.rs:56-64, 111-118).
THEOREM TerminateStops == Spec => []StopsAccepting
<1>1. Init => Inv
  BY InvInit
<1>2. Inv /\ [Next]_vars => Inv'
  <2>1. Inv /\ UNCHANGED vars => Inv'
    BY DEF vars, threads, Inv, CallInv, StopInv, LateInv, Returned, Early
  <2> QED
    BY <2>1, InvAccept, InvOthers DEF Next
<1>3. Inv => StopsAccepting
  BY DEF Inv, LateInv, StopsAccepting
<1> QED
  BY <1>1, <1>2, <1>3, PTL DEF Spec

----------------------------------------------------------------------------

\* The connections that will still be counted as negotiated.  The one whose
\* threads are being started joins them when the lock is given back.
Pending ==
    {c \in Conn : rx[c] \in {"readsid", "negotiated"} /\ ~(acc = "starttx" /\ c = cur)}

\* The connection that clientcountinc is still to count.
Window == IF acc = "count" THEN 1 ELSE 0

CountType ==
    /\ negcount \in Nat /\ clientcount \in Nat
    /\ rx \in [Conn -> {"none", "readsid", "negotiated", "read", "ended"}]

CountInv == CountType /\ negcount + Cardinality(Pending) <= clientcount + Window

LEMMA PendingFinite == IsFiniteSet(Pending) /\ Cardinality(Pending) \in Nat
  BY ConnAssumption, FS_Subset, FS_CardinalityType DEF Pending

LEMMA PendingFiniteNext == IsFiniteSet(Pending') /\ Cardinality(Pending') \in Nat
  BY ConnAssumption, FS_Subset, FS_CardinalityType DEF Pending

\* A step that makes nothing pending and does not touch the counts.
LEMMA CountKept ==
  ASSUME CountInv, CountType', Pending' \subseteq Pending,
         negcount' = negcount, clientcount + Window <= clientcount' + Window'
  PROVE  CountInv'
<1>1. Cardinality(Pending') <= Cardinality(Pending)
  BY PendingFinite, FS_Subset
<1>2. Window \in Nat /\ Window' \in Nat
  BY DEF Window
<1>3. negcount \in Nat /\ clientcount \in Nat /\ clientcount' \in Nat
  BY DEF CountInv, CountType
<1>4. negcount + Cardinality(Pending) <= clientcount + Window
  BY DEF CountInv
<1>5. negcount' + Cardinality(Pending') <= clientcount' + Window'
  <2>1. \A n, p, q, k, w, i, v \in Nat :
           q <= p /\ n + p <= k + w /\ k + w <= i + v => n + q <= i + v
    OBVIOUS
  <2>2. Cardinality(Pending) \in Nat /\ Cardinality(Pending') \in Nat
    BY PendingFinite, PendingFiniteNext
  <2> QED
    BY <1>1, <1>2, <1>3, <1>4, <2>1, <2>2, Zenon
<1> QED
  BY <1>5 DEF CountInv

LEMMA CountInit == Init => CountInv
<1> SUFFICES ASSUME Init PROVE CountInv
  OBVIOUS
<1>1. Pending = {}
  BY DEF Init, Pending
<1> QED
  BY <1>1, FS_EmptySet DEF Init, CountInv, CountType, Window

LEMMA CountAccept == CountInv /\ AcceptThread => CountInv'
<1> SUFFICES ASSUME CountInv, AcceptThread PROVE CountInv'
  OBVIOUS
<1> USE DEF Acc, counts, threads
<1>1. CASE Bind \/ BindFails \/ Publish \/ Check \/ Accept \/ AcceptError \/ Continue \/ Serve
  <2>1. /\ CountType' /\ Pending' \subseteq Pending
        /\ negcount' = negcount /\ clientcount' = clientcount
        /\ Window = 0 /\ Window' = 0
    BY <1>1 DEF Bind, BindFails, Publish, Check, Accept, AcceptError, Continue, Serve,
                CountInv, CountType, Pending, Window
  <2> QED
    BY <2>1, CountKept DEF CountInv, CountType
<1>2. CASE StartRx
  \* The new one is not pending as long as the lock is held.
  <2>1. /\ CountType' /\ Pending' \subseteq Pending
        /\ negcount' = negcount /\ clientcount' = clientcount
        /\ Window = 0 /\ Window' = 0
    BY <1>2 DEF StartRx, CountInv, CountType, Pending, Window
  <2> QED
    BY <2>1, CountKept DEF CountInv, CountType
<1>3. CASE StartTx
  <2>1. Pending' \subseteq Pending \cup {cur}
    BY <1>3 DEF StartTx, Pending
  <2>2. Cardinality(Pending') <= Cardinality(Pending) + 1
    <3>1. IsFiniteSet(Pending \cup {cur})
      BY PendingFinite, FS_AddElement
    <3>2. Cardinality(Pending \cup {cur}) \in {Cardinality(Pending), Cardinality(Pending) + 1}
      BY PendingFinite, FS_AddElement, Zenon
    <3>3. Cardinality(Pending \cup {cur}) \in Nat
      BY <3>1, FS_CardinalityType
    <3> QED
      BY <2>1, <3>1, <3>2, <3>3, FS_Subset, PendingFinite, PendingFiniteNext
  <2>3. CountType' /\ negcount' = negcount /\ clientcount' = clientcount
    BY <1>3 DEF StartTx, CountInv, CountType
  <2>4. Window = 0 /\ Window' = 1
    BY <1>3 DEF StartTx, Window
  <2> QED
    BY <2>2, <2>3, <2>4, PendingFinite, PendingFiniteNext DEF CountInv, CountType
<1>4. CASE Count
  <2>1. /\ CountType' /\ Pending' \subseteq Pending
        /\ negcount' = negcount /\ clientcount' = clientcount + 1
        /\ Window = 1 /\ Window' = 0
    BY <1>4 DEF Count, Counted, CountInv, CountType, Pending, Window
  <2> QED
    BY <2>1, CountKept DEF CountInv, CountType
<1> QED
  BY <1>1, <1>2, <1>3, <1>4 DEF AcceptThread

LEMMA CountRx ==
  ASSUME CountInv, NEW c \in Conn, RxThread(c)
  PROVE  CountInv'
<1> USE DEF counts
<1>1. CASE RxReadSid(c) \/ RxEnd(c)
  <2>1. /\ CountType' /\ Pending' \subseteq Pending
        /\ negcount' = negcount /\ clientcount' = clientcount /\ Window' = Window
    BY <1>1 DEF RxReadSid, RxEnd, CountInv, CountType, Pending, Window
  <2> QED
    BY <2>1, CountKept DEF CountInv, CountType, Window
<1>2. CASE RxNegotiated(c)
  <2>1. c \in Pending /\ Pending' = Pending \ {c}
    BY <1>2 DEF RxNegotiated, Unlocked, CountInv, CountType, Pending
  <2>2. Cardinality(Pending') = Cardinality(Pending) - 1
    BY <2>1, PendingFinite, FS_RemoveElement
  <2>3. /\ CountType'
        /\ negcount' = negcount + 1 /\ clientcount' = clientcount /\ Window' = Window
    BY <1>2 DEF RxNegotiated, CountInv, CountType, Window
  <2> QED
    BY <2>2, <2>3, PendingFinite DEF CountInv, CountType, Window
<1> QED
  BY <1>1, <1>2 DEF RxThread

LEMMA CountRest ==
  ASSUME CountInv,
         \/ \E c \in Conn : PeerConnects(c) \/ PeerCloses(c)
         \/ \E p \in Caller : Terminate(p) \/ Look(p) \/ CloseAccept(p)
         \/ UNCHANGED vars
  PROVE  CountInv'
<1>1. /\ CountType' /\ Pending' = Pending
      /\ negcount' = negcount /\ clientcount' = clientcount /\ Window' = Window
  BY DEF PeerConnects, PeerCloses, Terminate, Look, CloseAccept, vars, counts, threads,
         CountInv, CountType, Pending, Window
<1> QED
  BY <1>1, CountKept DEF CountInv, CountType, Window

\* A negotiated connection is a counted one, or the one that is being counted
\* (listener.rs:82-104, 126-142).
THEOREM NegotiatedNeverAhead == Spec => []NegotiatedAreClients
<1>1. Init => CountInv
  BY CountInit
<1>2. CountInv /\ [Next]_vars => CountInv'
  BY CountAccept, CountRx, CountRest DEF Next
<1>3. CountInv => NegotiatedAreClients
  BY PendingFinite DEF CountInv, CountType, Window, NegotiatedAreClients
<1> QED
  BY <1>1, <1>2, <1>3, PTL DEF Spec

----------------------------------------------------------------------------
(* Types, and the bounds of the counts *)

Serving == {"serve", "startrx", "starttx", "count"}

\* The connections that were accepted.
Served == {c \in Conn : stream[c] \in {"open", "shut"}}

\* The one that is accepted and not counted.
Uncounted == IF acc \in Serving THEN 1 ELSE 0

Shapes ==
    /\ acc \in {"bind", "publish", "check", "accept", "error", "serve", "startrx",
                "starttx", "count", "ended", "failed"}
    /\ cur \in Conn \cup {NoConn}
    /\ acceptor \in {"none", "open", "closed"}
    /\ terminate \in BOOLEAN
    /\ clientcount \in Nat /\ negcount \in Nat /\ late \in Nat
    /\ stream \in [Conn -> {"none", "waiting", "open", "shut"}]
    /\ rx \in [Conn -> {"none", "readsid", "negotiated", "read", "ended"}]
    /\ sending \subseteq Conn
    /\ caller \in [Caller -> {"idle", "look", "close", "returned"}]

ServeInv ==
    /\ Shapes
    /\ acc \in Serving => cur \in Served
    /\ clientcount + Uncounted <= Cardinality(Served)
    /\ late # 0 => Served # {}

LEMMA ServedFinite ==
    /\ IsFiniteSet(Served) /\ Cardinality(Served) \in Nat
    /\ Cardinality(Conn) \in Nat /\ Cardinality(Served) <= Cardinality(Conn)
  BY ConnAssumption, FS_Subset, FS_CardinalityType DEF Served

LEMMA ServedFiniteNext == IsFiniteSet(Served') /\ Cardinality(Served') \in Nat
  BY ConnAssumption, FS_Subset, FS_CardinalityType DEF Served

\* A step that accepts no connection.
LEMMA ServedKept ==
  ASSUME ServeInv, Shapes', Served' = Served,
         acc' \in Serving => acc \in Serving /\ cur' = cur,
         clientcount' + Uncounted' = clientcount + Uncounted,
         late' # late => acc \in Serving
  PROVE  ServeInv'
  BY DEF ServeInv

LEMMA ServeAccept == ServeInv /\ AcceptThread => ServeInv'
<1> SUFFICES ASSUME ServeInv, AcceptThread PROVE ServeInv'
  OBVIOUS
<1>1. Shapes /\ clientcount \in Nat
  BY DEF ServeInv, Shapes
<1> USE DEF Acc, counts, threads
<1>2. CASE Bind \/ BindFails \/ Publish \/ Check \/ AcceptError \/ Continue \/ Serve
  <2>1. Shapes' /\ Served' = Served /\ clientcount' = clientcount /\ Uncounted' = Uncounted
    BY <1>1, <1>2 DEF Bind, BindFails, Publish, Check, AcceptError, Continue, Serve, Shapes,
                      Served, Uncounted, Serving
  <2>2. /\ acc' \in Serving => acc \in Serving /\ cur' = cur
        /\ late' # late => acc \in Serving
    BY <1>2 DEF Bind, BindFails, Publish, Check, AcceptError, Continue, Serve, Serving
  <2> QED
    BY <2>1, <2>2, ServedKept
<1>3. CASE StartRx \/ StartTx
  <2>1. cur \in Conn
    BY <1>3 DEF StartRx, StartTx, ServeInv, Serving, Served
  <2>2. Shapes' /\ Served' = Served /\ clientcount' = clientcount /\ Uncounted' = Uncounted
    BY <1>1, <1>3, <2>1 DEF StartRx, StartTx, Shapes, Served, Uncounted, Serving
  <2>3. acc \in Serving /\ cur' = cur /\ late' = late
    BY <1>3 DEF StartRx, StartTx, Serving
  <2> QED
    BY <2>2, <2>3, ServedKept
<1>4. CASE Count
  <2>1. Shapes' /\ Served' = Served
    BY <1>1, <1>4 DEF Count, Counted, Shapes, Served
  <2>2. clientcount' = clientcount + 1 /\ Uncounted = 1 /\ Uncounted' = 0
    BY <1>4 DEF Count, Counted, Uncounted, Serving
  <2>3. acc' \notin Serving /\ late' = late
    BY <1>4 DEF Count, Serving
  <2> QED
    BY <1>1, <2>1, <2>2, <2>3, ServedKept
<1>5. CASE Accept
  <2>1. PICK c \in Conn :
           /\ stream[c] = "waiting" /\ cur' = c
           /\ stream' = [stream EXCEPT ![c] = "open"]
    BY <1>5 DEF Accept
  <2>2. Shapes' /\ clientcount' = clientcount /\ Uncounted = 0 /\ Uncounted' = 1
    BY <1>1, <1>5, <2>1 DEF Accept, Shapes, Uncounted, Serving
  <2>3. c \notin Served /\ Served' = Served \cup {c}
    BY <1>1, <2>1 DEF Shapes, Served
  <2>4. Cardinality(Served') = Cardinality(Served) + 1
    BY <2>3, ServedFinite, FS_AddElement
  <2>5. clientcount' + Uncounted' <= Cardinality(Served')
    BY <1>1, <2>2, <2>4, ServedFinite, ServedFiniteNext DEF ServeInv
  <2> QED
    BY <2>1, <2>2, <2>3, <2>5 DEF ServeInv
<1> QED
  BY <1>2, <1>3, <1>4, <1>5 DEF AcceptThread

LEMMA ServeOthers ==
  ASSUME ServeInv,
         \/ \E c \in Conn : RxThread(c) \/ PeerConnects(c) \/ PeerCloses(c)
         \/ \E p \in Caller : Terminate(p) \/ Look(p) \/ CloseAccept(p)
         \/ UNCHANGED vars
  PROVE  ServeInv'
<1>1. Shapes
  BY DEF ServeInv
<1>2. Shapes' /\ Served' = Served
  <2> USE DEF Shapes, Served, counts, threads
  <2>1. ASSUME NEW c \in Conn, RxThread(c) PROVE Shapes' /\ Served' = Served
    BY <1>1, <2>1 DEF RxThread, RxReadSid, RxNegotiated, RxEnd
  <2>2. ASSUME NEW c \in Conn, PeerConnects(c) \/ PeerCloses(c)
        PROVE  Shapes' /\ Served' = Served
    BY <1>1, <2>2 DEF PeerConnects, PeerCloses
  <2>3. ASSUME NEW p \in Caller, Terminate(p) \/ Look(p) \/ CloseAccept(p)
        PROVE  Shapes' /\ Served' = Served
    BY <1>1, <2>3 DEF Terminate, Look, CloseAccept, Calls
  <2>4. ASSUME UNCHANGED vars PROVE Shapes' /\ Served' = Served
    BY <1>1, <2>4 DEF vars
  <2> QED
    BY <2>1, <2>2, <2>3, <2>4
<1>3. UNCHANGED <<acc, cur, clientcount, late>>
  BY DEF RxThread, RxReadSid, RxNegotiated, RxEnd, PeerConnects, PeerCloses, Terminate, Look,
         CloseAccept, vars, counts
<1>4. Uncounted' = Uncounted
  BY <1>3 DEF Uncounted
<1> QED
  BY <1>2, <1>3, <1>4, ServedKept

\* The types, and that no count goes beyond the connections there are, though
\* each is raised by another thread and never goes down (listener.rs:83-104).
THEOREM TypeCorrect == Spec => []TypeOK
<1>1. Init => ServeInv
  <2> SUFFICES ASSUME Init PROVE ServeInv
    OBVIOUS
  <2>1. Served = {}
    BY DEF Init, Served
  <2>2. Shapes /\ clientcount = 0 /\ Uncounted = 0 /\ acc \notin Serving /\ late = 0
    BY DEF Init, Shapes, Uncounted, Serving
  <2> QED
    BY <2>1, <2>2, FS_EmptySet DEF ServeInv
<1>2. ServeInv /\ [Next]_vars => ServeInv'
  BY ServeAccept, ServeOthers DEF Next
<1>3. ServeInv /\ StopsAccepting /\ NegotiatedAreClients => TypeOK
  <2> SUFFICES ASSUME ServeInv, StopsAccepting, NegotiatedAreClients PROVE TypeOK
    OBVIOUS
  <2>1. Shapes /\ clientcount \in Nat /\ negcount \in Nat /\ late \in Nat
    BY DEF ServeInv, Shapes
  <2>2. clientcount <= Cardinality(Conn) /\ negcount <= Cardinality(Conn)
    <3>1. clientcount + Uncounted <= Cardinality(Served)
      BY DEF ServeInv
    <3>2. Uncounted \in {0, 1} /\ negcount <= clientcount + Uncounted
      BY <2>1 DEF NegotiatedAreClients, Uncounted, Serving
    <3> QED
      BY <2>1, <3>1, <3>2, ServedFinite
  <2>3. late <= Cardinality(Conn)
    <3>1. CASE late = 0
      BY <3>1, ServedFinite
    <3>2. CASE late # 0
      <4>1. Cardinality(Served) # 0
        BY <3>2, ServedFinite, FS_EmptySet DEF ServeInv
      <4> QED
        BY <2>1, <4>1, ServedFinite DEF StopsAccepting
    <3> QED
      BY <3>1, <3>2
  <2> QED
    BY <2>1, <2>2, <2>3, ServedFinite DEF Shapes, TypeOK
<1>4. Spec => []ServeInv
  BY <1>1, <1>2, PTL DEF Spec
<1> QED
  BY <1>3, <1>4, TerminateStops, NegotiatedNeverAhead, PTL
=============================================================================
