------------------------------ MODULE Bridged -------------------------------
(***************************************************************************)
(* Two nets joined by a pair of bridges: messages on their way from an     *)
(* application over its net, the bridge's endpoint and sending thread, the *)
(* connection, the other bridge's receiving thread and the other net       *)
(* (src/src/tcp/mod.rs), with the buffers of raw messages, which send      *)
(* copies, the endpoints of a net share, and receive copies again.         *)
(*                                                                         *)
(* A send gives its message to all endpoints of a net at once (module      *)
(* Delivery has it step by step), and endpoints have no limits.  Module    *)
(* Bridge has the life of the threads; here both are there, the connection *)
(* may break, and it stays broken (ConnectsOnce of Bridge).                *)
(***************************************************************************)
EXTENDS RawMessage, Addressing

CONSTANTS
    Net, Sid,        \* the two nets and their identifiers
    NetOf,           \* the net of each endpoint
    Bridge,          \* the endpoint of each net's bridge
    Capacity,        \* of the buffer each thread writes its messages in
    MaxEdits,        \* bound: changes of such a buffer
    MaxLaps,         \* bound: crossings of one message
    Hello,           \* the frame that brings the identifier of a net
    None

ASSUME NetAssumption ==
    /\ \E n, o \in Net : n # o /\ Net = {n, o}
    /\ Sid \in [Net -> Nat \ {Anyone, ThisNet}]
    /\ NetOf \in [Ep -> Net] /\ Bridge \in [Net -> Ep]
    /\ \A n \in Net : NetOf[Bridge[n]] = n
ASSUME BufferAssumption == Capacity \in Nat \ {0} /\ MaxEdits \in Nat /\ MaxLaps \in Nat
\* canloop is false in every message that the library makes, thread_rx included.
ASSUME LoopAssumption == CanLoop = {}
\* What has an address or a type of its own in the code has a name of its own here.
ASSUME NameAssumption ==
    /\ Thread \cap Ep = {} /\ (Thread \cup Ep) \cap (Msg \X (0..MaxLaps)) = {}
    /\ None \notin Thread \cup Ep \cup Msg \cup (Msg \X (0..MaxLaps))
    /\ Hello \notin [msg : Msg, size : {Capacity}, bytes : Seq(Byte)]

VARIABLES
    addr,        \* address of each endpoint
    queue,       \* its messages, with the buffers of the raw ones
    held,        \* the message its application received last
    inbox,       \* the messages its application has received (history)
    heap,        \* the buffers
    next,        \* how far each thread is in its script
    src,         \* source address of each message
    said,        \* what the thread's buffer was when it sent it (history)
    valid,       \* SyncMessage.valid
    up,          \* the connection
    wire,        \* frames on their way to each net
    cut,         \* the message whose frame was cut, for each net (history)
    rx, tx,      \* thread_rx and thread_tx of each net's bridge
    edits, laps  \* for the bounds

ends == <<held, inbox>>
app == <<next, said, edits>>
link == <<up, wire, cut, rx, tx, laps>>
vars == <<addr, queue, ends, heap, app, src, valid, link>>

Raw == Msg \ SyncMsg
Apps == Ep \ {Bridge[n] : n \in Net}
Other(n) == CHOOSE o \in Net : o # n

\* allocate gives an address that is not in use; which one does not matter, so a
\* buffer is named for who made it: the one thread t writes in and sends clones of,
\* the one endpoint e returns, the one that send makes for message m.
Buf == Thread \cup Apps \cup (Raw \X (0..MaxLaps))
Copy == [msg : Msg, buf : Buf \cup {None}]
RawType == [len : 0..Capacity, data : [1..Capacity -> Byte]]
Frame == [msg : Raw, size : {Capacity}, bytes : Seq(Byte)]

TypeOK ==
    /\ \A e \in Ep : addr[e].eid = Home[e].eid /\ addr[e].sid \in {Home[e].sid, Sid[Other(NetOf[e])]}
    /\ queue \in [Ep -> Seq(Copy)] /\ held \in [Apps -> Copy \cup {None}]
    /\ inbox \in [Apps -> Seq(Msg)]
    /\ heap \in [Buf -> RawType \cup {None}]
    /\ next \in [Thread -> Nat]
    /\ DOMAIN src = Msg /\ said \in [Msg -> RawType \cup {None}]
    /\ valid \in [SyncMsg -> BOOLEAN]
    /\ up \in BOOLEAN /\ wire \in [Net -> Seq({Hello} \cup Frame)]
    /\ cut \in [Net -> Raw \cup {None}]
    /\ rx \in [Net -> {"hello", "read", "ended"}] /\ tx \in [Net -> {"hello", "recv"}]
    /\ edits \in 0..MaxEdits /\ laps \in [Msg -> 0..MaxLaps]

Init ==
    /\ addr = Home
    /\ queue = [e \in Ep |-> <<>>]
    /\ held = [e \in Apps |-> None] /\ inbox = [e \in Apps |-> <<>>]
    /\ \E draft \in [Thread -> New(Capacity)] :
          heap = [b \in Buf |-> IF b \in Thread THEN draft[b] ELSE None]
    /\ next = [t \in Thread |-> 1]
    /\ src = [m \in Msg |-> Unsent] /\ said = [m \in Msg |-> None]
    /\ valid = [m \in SyncMsg |-> TRUE]
    /\ up = TRUE /\ wire = [n \in Net |-> <<>>] /\ cut = [n \in Net |-> None]
    /\ rx = [n \in Net |-> "hello"] /\ tx = [n \in Net |-> "hello"]
    /\ edits = 0 /\ laps = [m \in Msg |-> 0]

----------------------------------------------------------------------------
(* Buffers *)

Queued == (UNION {{c.buf : c \in ToSet(queue[e])} : e \in Ep}) \ {None}
Received == {held[e].buf : e \in {f \in Apps : held[f] # None}} \ {None}

\* The last reference that goes frees a buffer.
Kept(h) == [b \in Buf |-> IF b \in Thread \cup (Queued \cup Received)' THEN h[b] ELSE None]

----------------------------------------------------------------------------
(* Applications *)

Edited(raw) ==
    (UNION {SetLen(raw, len) : len \in 0..Capacity})
      \cup (UNION {WriteStruct(raw, i, <<b>>) \cup WriteFromSlice(raw, i, <<b>>) :
                     i \in 0..Capacity - 1, b \in Byte})

Edit(t) ==
    /\ edits < MaxEdits /\ edits' = edits + 1
    /\ \E raw \in Edited(heap[t]) : heap' = [heap EXCEPT ![t] = raw]
    /\ UNCHANGED <<addr, queue, ends, next, said, src, valid, link>>

Takers(n, m) == {e \in Ep : NetOf[e] = n /\ Accepts(Sid[n], m, src'[m], addr[e])}

\* send_internal, and the clones of the endpoints, which share the buffer.  One
\* mutant stops at the first endpoint that takes the message, one has it overtake.
GiveOne(n, m, buf) ==
    queue' = [e \in Ep |-> IF Takers(n, m) # {} /\ e = CHOOSE f \in Takers(n, m) : TRUE
                           THEN Append(queue[e], [msg |-> m, buf |-> buf]) ELSE queue[e]]
GiveAtFront(n, m, buf) ==
    queue' = [e \in Ep |-> IF e \in Takers(n, m)
                           THEN <<[msg |-> m, buf |-> buf]>> \o queue[e] ELSE queue[e]]
GiveAll(n, m, buf) ==
    queue' = [e \in Ep |-> IF e \in Takers(n, m)
                           THEN Append(queue[e], [msg |-> m, buf |-> buf]) ELSE queue[e]]

\* Net::send duplicates a raw message; the mutant does not.
NetSendShared(n, m, buf) == GiveAll(n, m, buf) /\ heap' = Kept(heap)
NetSend(n, m, buf) ==
    IF m \in Raw
    THEN GiveAll(n, m, <<m, 0>>) /\ heap' = Kept([heap EXCEPT ![<<m, 0>>] = Dup(heap[buf])])
    ELSE GiveAll(n, m, None) /\ heap' = Kept(heap)

Send(t) ==
    /\ next[t] \in DOMAIN Script[t] /\ next' = [next EXCEPT ![t] = @ + 1]
    /\ LET m == Script[t][next[t]]
       IN  /\ src' = [src EXCEPT ![m] = addr[From[m]]]
           /\ said' = [said EXCEPT ![m] = IF m \in Raw THEN heap[t] ELSE None]
           /\ UNCHANGED ends
           /\ NetSend(NetOf[From[m]], m, t)
    /\ UNCHANGED <<addr, edits, valid, link>>

\* dup_ifok and dup in Internal::recv.  The mutant returns the shared buffer.
TakenShared(e, c) == held' = [held EXCEPT ![e] = c] /\ heap' = Kept(heap)
Taken(e, c) ==
    IF c.msg \in Raw
    THEN /\ held' = [held EXCEPT ![e] = [c EXCEPT !.buf = e]]
         /\ heap' = Kept([heap EXCEPT ![e] = Dup(heap[c.buf])])
    ELSE held' = [held EXCEPT ![e] = c] /\ heap' = Kept(heap)

Recv(e) ==
    /\ queue[e] # <<>> /\ queue' = [queue EXCEPT ![e] = Tail(@)]
    /\ LET c == Head(queue[e])
       IN  /\ c.msg \in SyncMsg => valid[c.msg]
           /\ valid' = [m \in SyncMsg |-> valid[m] /\ m # c.msg]
           /\ inbox' = [inbox EXCEPT ![e] = Append(@, c.msg)]
           /\ Taken(e, c)
    /\ UNCHANGED <<addr, next, said, edits, src, link>>

\* A sync message that another endpoint has taken.
Discard(e) ==
    /\ queue[e] # <<>> /\ Head(queue[e]).msg \in SyncMsg /\ ~valid[Head(queue[e]).msg]
    /\ queue' = [queue EXCEPT ![e] = Tail(@)]
    /\ UNCHANGED <<addr, ends, heap, app, src, valid, link>>

----------------------------------------------------------------------------
(* The bridge of net n *)

\* Results of writes are ignored: on a broken connection they go nowhere.
Write(n, frame) == wire' = IF up THEN [wire EXCEPT ![Other(n)] = Append(@, frame)] ELSE wire

TxHello(n) ==
    /\ tx[n] = "hello" /\ tx' = [tx EXCEPT ![n] = "recv"]
    /\ Write(n, Hello)
    /\ UNCHANGED <<addr, queue, ends, heap, app, src, valid, up, cut, rx, laps>>

\* recvorblock gives thread_tx a copy of a raw message, and it sends the whole slice.
TxRaw(n) ==
    /\ tx[n] = "recv" /\ queue[Bridge[n]] # <<>>
    /\ LET c == Head(queue[Bridge[n]])
       IN  /\ c.msg \in Raw
           /\ queue' = [queue EXCEPT ![Bridge[n]] = Tail(@)]
           /\ IF laps[c.msg] < MaxLaps
              THEN /\ Write(n, [msg |-> c.msg, size |-> Len(AsSlice(Dup(heap[c.buf]))),
                                bytes |-> AsSlice(Dup(heap[c.buf]))])
                   /\ laps' = [laps EXCEPT ![c.msg] = @ + 1]
              ELSE UNCHANGED <<wire, laps>>
    /\ UNCHANGED ends /\ heap' = Kept(heap)
    /\ UNCHANGED <<addr, next, said, edits, src, valid, up, cut, rx, tx>>

\* A sync message is taken, if it is still there, and thrown away.
TxSync(n) ==
    /\ tx[n] = "recv" /\ queue[Bridge[n]] # <<>>
    /\ LET m == Head(queue[Bridge[n]]).msg
       IN  m \in SyncMsg /\ valid' = [valid EXCEPT ![m] = FALSE]
    /\ queue' = [queue EXCEPT ![Bridge[n]] = Tail(@)]
    /\ UNCHANGED <<addr, ends, heap, app, src, link>>

RxHello(n) ==
    /\ rx[n] = "hello" /\ wire[n] # <<>>
    /\ rx' = [rx EXCEPT ![n] = "read"]
    /\ wire' = [wire EXCEPT ![n] = Tail(@)]
    /\ addr' = [addr EXCEPT ![Bridge[n]].sid = Sid[Other(n)]]
    /\ UNCHANGED <<queue, ends, heap, app, src, valid, up, cut, tx, laps>>

\* The result of read_at_least is ignored too: what is missing of a payload is
\* what was in memory.
Payload(frame) ==
    UNION {WriteFromSlice(raw, 0, v) : raw \in New(frame.size),
             v \in {w \in [1..frame.size -> Byte] : IsPrefix(frame.bytes, w)}}

\* sendx leaves the source that came over the connection.
RxMessage(n) ==
    /\ rx[n] = "read" /\ wire[n] # <<>>
    /\ wire' = [wire EXCEPT ![n] = Tail(@)]
    /\ LET frame == Head(wire[n])
       IN  /\ UNCHANGED <<ends, src>>
           /\ GiveAll(n, frame.msg, <<frame.msg, laps[frame.msg]>>)
           /\ \E raw \in Payload(frame) :
                 heap' = Kept([heap EXCEPT ![<<frame.msg, laps[frame.msg]>>] = Dup(raw)])
    /\ UNCHANGED <<addr, next, said, edits, valid, up, cut, rx, tx, laps>>

\* The end of the stream is an error of the first read, or panics in a later one.
RxEnd(n) ==
    /\ ~up /\ rx[n] # "ended" /\ wire[n] = <<>>
    /\ rx' = [rx EXCEPT ![n] = "ended"]
    /\ UNCHANGED <<addr, queue, ends, heap, app, src, valid, up, wire, cut, tx, laps>>

\* What a connection that breaks still delivers: some frames, and perhaps the
\* head of another with a part of its payload.
CutAt(frames, i, k) ==
    Append(SubSeq(frames, 1, i - 1), [frames[i] EXCEPT !.bytes = SubSeq(@, 1, k)])
Remains(frames) ==
    {SubSeq(frames, 1, i) : i \in 0..Len(frames)}
      \cup {CutAt(frames, i, k) :
              i \in {j \in DOMAIN frames : frames[j] # Hello}, k \in 0..Capacity - 1}

Break ==
    /\ up /\ up' = FALSE
    /\ \E L, R \in UNION {Remains(wire[n]) : n \in Net} :
          wire' = [n \in Net |-> IF n = CHOOSE o \in Net : TRUE THEN L ELSE R]
    /\ \A n \in Net : wire'[n] \in Remains(wire[n])
    /\ cut' = [n \in Net |->
                 IF wire'[n] # <<>> /\ Last(wire'[n]) # Hello
                      /\ Len(Last(wire'[n]).bytes) < Last(wire'[n]).size
                 THEN Last(wire'[n]).msg ELSE None]
    /\ UNCHANGED <<addr, queue, ends, heap, app, src, valid, rx, tx, laps>>

----------------------------------------------------------------------------

Works(n) == TxHello(n) \/ TxRaw(n) \/ TxSync(n) \/ RxHello(n) \/ RxMessage(n) \/ RxEnd(n)

Next ==
    \/ \E t \in Thread : Edit(t) \/ Send(t)
    \/ \E e \in Apps : Recv(e) \/ Discard(e)
    \/ \E n \in Net : Works(n)
    \/ Break

\* Threads of a bridge run, and applications receive; nobody has to send.
Fairness ==
    /\ \A e \in Apps : WF_vars(Recv(e) \/ Discard(e))
    /\ \A n \in Net : /\ WF_vars(TxHello(n) \/ TxRaw(n) \/ TxSync(n))
                      /\ WF_vars(RxHello(n) \/ RxMessage(n) \/ RxEnd(n))

Spec == Init /\ [][Next]_vars /\ Fairness

----------------------------------------------------------------------------
(* What must hold *)

\* A buffer in the hands of an application is nobody else's: neither a receiver
\* sees what a sender writes later, nor two receivers what one of them writes
\* (net.rs:198-206, endpoint.rs:266-271).
Separate ==
    /\ (Thread \cup Received) \cap Queued = {} /\ Thread \cap Received = {}
    /\ \A e, f \in Apps :
          e # f /\ held[e] # None /\ held[f] # None /\ held[e].buf # None
             => held[e].buf # held[f].buf

\* Each copy of a message, queued or received, on either net, has the bytes its
\* sender sent and the whole capacity as length; only the last frame of a
\* connection that broke may bring others (net.rs:198-206, tcp/mod.rs:84-108,
\* 138-156).
Intact ==
    \A e \in Ep :
        LET have == ToSet(queue[e]) \cup (IF e \in Apps THEN {held[e]} \ {None} ELSE {})
        IN  \A c \in have : c.msg \in Raw =>
               \/ heap[c.buf] = [len |-> Capacity, data |-> said[c.msg].data]
               \/ c.msg = cut[NetOf[e]]

\* A message to one net comes to each endpoint once, over the pair of bridges too (the
\* nets have one connection here); and of messages that one thread sends through one endpoint the first
\* copies come in the order in which they were sent, also on the other net
\* (tcp/mod.rs:58-108, endpoint.rs:353-373).
OnceInOrder ==
    \A e \in Apps : \A i, j \in DOMAIN inbox[e] : i < j =>
        /\ Dst[inbox[e][i]].sid # 0 => inbox[e][i] # inbox[e][j]
        /\ From[inbox[e][i]] = From[inbox[e][j]] /\ SentBefore(inbox[e][j], inbox[e][i])
              => \E k \in 1..i - 1 : inbox[e][k] = inbox[e][j]

\* A message to all of the other net, which the bridge's endpoint took, arrives
\* everywhere there, or the connection breaks (tcp/mod.rs:111-156, 58-108).
Arrives ==
    \A n \in Net, m \in Raw :
        (/\ Dst[m] = [sid |-> Sid[Other(n)], eid |-> 0]
         /\ m \in {c.msg : c \in ToSet(queue[Bridge[n]])})
          ~> (~up \/ \A e \in Apps : NetOf[e] = Other(n) => m \in ToSet(inbox[e]))
=============================================================================
