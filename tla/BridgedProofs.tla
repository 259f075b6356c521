--------------------------- MODULE BridgedProofs ----------------------------
(***************************************************************************)
(* That no application's buffer is anybody else's, that messages cross a   *)
(* pair of bridges with their bytes, and that they arrive once and in      *)
(* order, for any endpoints, threads, messages, capacity and bounds.       *)
(*                                                                         *)
(* Intact is not inductive.  A message is sent once, and after that is in  *)
(* at most one place from where it can cross: in the queue of one bridge   *)
(* or in one frame.  So a buffer that a crossing fills is new.             *)
(*                                                                         *)
(* OnceInOrder needs the same of the order: what waits at a bridge is      *)
(* behind what crosses, and that behind what has arrived; and what an      *)
(* endpoint may be given once more it has already had.                     *)
(***************************************************************************)
EXTENDS Bridged, FiniteSetTheorems, SequenceTheorems, TLAPS

----------------------------------------------------------------------------
(* Sequences *)

LEMMA AppendSet ==
    ASSUME NEW S, NEW s \in Seq(S), NEW x \in S
    PROVE  Append(s, x) \in Seq(S) /\ ToSet(Append(s, x)) = ToSet(s) \cup {x}
  <1>1. /\ Append(s, x) \in Seq(S) /\ Len(Append(s, x)) = Len(s) + 1
        /\ \A i \in 1..Len(s) : Append(s, x)[i] = s[i]
        /\ Append(s, x)[Len(s) + 1] = x
    OBVIOUS
  <1>2. DOMAIN s = 1..Len(s) /\ DOMAIN Append(s, x) = 1..Len(s) + 1 /\ Len(s) \in Nat
    BY <1>1
  <1> QED BY <1>1, <1>2 DEF ToSet

LEMMA TailSet ==
    ASSUME NEW S, NEW s \in Seq(S), s # <<>>
    PROVE  /\ Tail(s) \in Seq(S) /\ ToSet(Tail(s)) \subseteq ToSet(s)
           /\ Len(s) # 1 => Tail(s) # <<>>
  <1>1. /\ Tail(s) \in Seq(S) /\ Len(s) \in Nat \ {0} /\ Len(Tail(s)) = Len(s) - 1
        /\ \A i \in 1..Len(s) - 1 : Tail(s)[i] = s[i + 1]
    OBVIOUS
  <1>2. DOMAIN s = 1..Len(s) /\ DOMAIN Tail(s) = 1..Len(s) - 1
    BY <1>1
  <1>3. ToSet(Tail(s)) \subseteq ToSet(s)
    BY <1>1, <1>2 DEF ToSet
  <1>4. Len(s) # 1 => Len(Tail(s)) # 0
    BY <1>1
  <1>5. \A r \in Seq(S) : Len(r) # 0 => r # <<>>
    OBVIOUS
  <1> QED BY <1>1, <1>3, <1>4, <1>5, Zenon

----------------------------------------------------------------------------
(* The invariant of the bytes *)

\* A thread has called send with the message.
Sent(m) == \E t \in Thread : \E i \in DOMAIN Script[t] : i < next[t] /\ Script[t][i] = m

\* The bytes of its sender, and the whole capacity.
AsSent(m) == [len |-> Capacity, data |-> said[m].data]

\* A copy on net n of a raw message.
Good(c, n) ==
    /\ Sent(c.msg) /\ c.buf \in Buf /\ heap[c.buf] \in RawType
    /\ c.msg # cut[n] => heap[c.buf] = AsSent(c.msg)

\* Its buffer is the one that the send or a crossing made.
CopyInv(c, n) ==
    /\ c.msg \in SyncMsg => c.buf = None
    /\ c.msg \in Raw => Good(c, n) /\ \E k \in 0..laps[c.msg] : c.buf = <<c.msg, k>>

QueueInv(e) == \A c \in ToSet(queue[e]) : CopyInv(c, NetOf[e])

HeldInv(e) ==
    held[e] # None =>
        /\ held[e].msg \in SyncMsg => held[e].buf = None
        /\ held[e].msg \in Raw => Good(held[e], NetOf[e]) /\ held[e].buf = e

\* What a thread of the bridge has done, and what the other finds.
Greeting(n) ==
    /\ tx[Other(n)] = "hello" => wire[n] = <<>> /\ rx[n] # "read"
    /\ rx[n] = "ended" => ~up
    /\ up => cut[n] = None
    /\ \A i \in DOMAIN wire[n] : wire[n][i] = Hello => i = 1 /\ rx[n] = "hello"

\* Frames have the bytes of their senders; the buffer that one will fill is free.
WireInv(n) ==
    \A f \in ToSet(wire[n]) \ {Hello} :
        /\ Sent(f.msg)
        /\ f.msg # cut[n] => f.bytes = said[f.msg].data
        /\ \A e \in Ep : \A c \in ToSet(queue[e]) : c.buf # <<f.msg, laps[f.msg]>>

\* A raw message is in one frame, or in the queue of one bridge, once.
OneFrame ==
    \A n, o \in Net : \A i \in DOMAIN wire[n], j \in DOMAIN wire[o] :
        /\ wire[n][i] # Hello /\ wire[o][j] # Hello
        /\ wire[n][i].msg = wire[o][j].msg
        => n = o /\ i = j

Waiting(n) == queue[Bridge[n]]

OneWaits ==
    \A n, o \in Net : \A i \in DOMAIN Waiting(n), j \in DOMAIN Waiting(o) :
        /\ Waiting(n)[i].msg \in Raw
        /\ Waiting(n)[i].msg = Waiting(o)[j].msg
        => n = o /\ i = j

OneOrOther ==
    \A n, o \in Net : \A i \in DOMAIN wire[n], j \in DOMAIN Waiting(o) :
        wire[n][i] # Hello => wire[n][i].msg # Waiting(o)[j].msg

CopiesInv == \A e \in Ep : QueueInv(e) /\ (e \in Apps => HeldInv(e))
LinkInv == \A n \in Net : Greeting(n) /\ WireInv(n)
TokenInv == OneFrame /\ OneWaits /\ OneOrOther

Types ==
    /\ TypeOK
    /\ addr \in [Ep -> Address]
    /\ \A t \in Thread : heap[t] \in RawType
    /\ \A m \in Raw : Sent(m) => said[m] \in RawType

BridgedInv == Types /\ CopiesInv /\ LinkInv /\ TokenInv

----------------------------------------------------------------------------
(* Sequences, nets and names *)

LEMMA AppendParts ==
    ASSUME NEW S, NEW s \in Seq(S), NEW x \in S
    PROVE  /\ Append(s, x) \in Seq(S) /\ Len(s) \in Nat
           /\ DOMAIN s = 1..Len(s) /\ DOMAIN Append(s, x) = 1..Len(s) + 1
           /\ \A i \in 1..Len(s) : Append(s, x)[i] = s[i]
           /\ Append(s, x)[Len(s) + 1] = x
           /\ ToSet(Append(s, x)) = ToSet(s) \cup {x}
  <1>1. ToSet(Append(s, x)) = ToSet(s) \cup {x}
    BY AppendSet
  <1> QED BY <1>1

LEMMA TailParts ==
    ASSUME NEW S, NEW s \in Seq(S), s # <<>>
    PROVE  /\ Tail(s) \in Seq(S) /\ Head(s) = s[1] /\ 1 \in DOMAIN s /\ Head(s) \in S
           /\ \A i \in DOMAIN Tail(s) : i \in Nat \ {0} /\ i + 1 \in DOMAIN s /\ i + 1 # 1
                                        /\ Tail(s)[i] = s[i + 1]
           /\ ToSet(Tail(s)) \subseteq ToSet(s) /\ Head(s) \in ToSet(s)
  <1>1. /\ Tail(s) \in Seq(S) /\ Head(s) = s[1] /\ 1 \in DOMAIN s /\ Head(s) \in S
        /\ \A i \in DOMAIN Tail(s) : i \in Nat \ {0} /\ i + 1 \in DOMAIN s /\ i + 1 # 1
                                     /\ Tail(s)[i] = s[i + 1]
    OBVIOUS
  <1>2. Head(s) \in ToSet(s)
    BY <1>1 DEF ToSet
  <1> QED BY <1>1, <1>2, TailSet

LEMMA OtherNet ==
    ASSUME NEW n \in Net
    PROVE  /\ Other(n) \in Net /\ Other(n) # n /\ Other(Other(n)) = n
           /\ \A o \in Net : o = n \/ o = Other(n)
  <1>1. PICK a, b \in Net : a # b /\ Net = {a, b}
    BY NetAssumption
  <1>2. \A m \in Net : Other(m) \in Net /\ Other(m) # m
    BY <1>1 DEF Other
  <1> QED BY <1>1, <1>2

LEMMA Names ==
    /\ Apps \subseteq Ep /\ Raw \subseteq Msg /\ None \notin Buf /\ None \notin Msg
    /\ \A n \in Net : Bridge[n] \in Ep /\ NetOf[Bridge[n]] = n /\ Bridge[n] \notin Apps
    /\ \A m, k : <<m, k>> \in Raw \X (0..MaxLaps) => <<m, k>> \in Buf /\ <<m, k>> \notin Thread \cup Apps
    /\ \A t \in Thread : t \in Buf /\ t \notin Apps
    /\ \A e \in Apps : e \in Buf
  BY NetAssumption, NameAssumption DEF Apps, Raw, Buf

----------------------------------------------------------------------------
(* Buffers *)

LEMMA DupRight ==
    ASSUME NEW raw \in RawType
    PROVE  /\ Dup(raw) = [len |-> Capacity, data |-> raw.data] /\ Dup(raw) \in RawType
           /\ AsSlice(Dup(raw)) = raw.data /\ Len(AsSlice(Dup(raw))) = Capacity
           /\ AsSlice(Dup(raw)) \in Seq(Byte)
  <1>1. /\ raw.data \in [1..Capacity -> Byte] /\ raw.len \in 0..Capacity
        /\ raw = [len |-> raw.len, data |-> raw.data]
    BY DEF RawType
  <1>2. raw.data \in Seq(Byte) /\ Len(raw.data) = Capacity
    BY <1>1, BufferAssumption
  <1>3. Dup(raw) = [len |-> Capacity, data |-> raw.data]
    BY <1>1, <1>2 DEF Dup, Cap
  <1>4. Dup(raw) \in RawType
    BY <1>1, <1>3, BufferAssumption DEF RawType
  <1>5. SubSeq(raw.data, 1, Capacity) = raw.data
    BY <1>1, <1>2, BufferAssumption
  <1> QED BY <1>2, <1>3, <1>4, <1>5 DEF AsSlice

\* A write that stays within the buffer keeps its size.
LEMMA WriteRight ==
    ASSUME NEW raw \in RawType, NEW i \in 0..Capacity, NEW v \in Seq(Byte), i + Len(v) <= Capacity
    PROVE  /\ \A r \in WriteStruct(raw, i, v) \cup WriteFromSlice(raw, i, v) :
                 r \in RawType /\ r.data = Overwrite(raw.data, i, v)
           /\ Overwrite(raw.data, i, v) \in [1..Capacity -> Byte]
  <1>1. /\ raw.data \in [1..Capacity -> Byte] /\ raw.len \in 0..Capacity
        /\ raw = [len |-> raw.len, data |-> raw.data] /\ Len(v) \in Nat /\ Capacity \in Nat
    BY BufferAssumption DEF RawType
  <1> DEFINE d == Overwrite(raw.data, i, v)
  <1>2. d \in [1..Capacity -> Byte]
    <2>1. d = [k \in 1..Capacity |-> IF k - i \in DOMAIN v THEN v[k - i] ELSE raw.data[k]]
      BY <1>1 DEF Overwrite
    <2>2. \A k \in 1..Capacity : k - i \in DOMAIN v => v[k - i] \in Byte
      OBVIOUS
    <2> QED BY <1>1, <2>1, <2>2
  <1> HIDE DEF d
  <1>3. \A l \in 0..Capacity : [len |-> l, data |-> d] \in RawType
    BY <1>2 DEF RawType
  <1>4. \A r \in WriteStruct(raw, i, v) : r = [len |-> raw.len, data |-> d]
    BY <1>1 DEF WriteStruct, d
  <1>5. \A r \in WriteFromSlice(raw, i, v) :
           r = [len |-> IF i + Len(v) > raw.len THEN i + Len(v) ELSE raw.len, data |-> d]
    <2>1. ASSUME NEW q \in WriteStruct(raw, i, v)
          PROVE  [q EXCEPT !.len = IF i + Len(v) > @ THEN i + Len(v) ELSE @]
                   = [len |-> IF i + Len(v) > raw.len THEN i + Len(v) ELSE raw.len, data |-> d]
      BY <1>4
    <2> QED BY <2>1 DEF WriteFromSlice
  <1>6. (IF i + Len(v) > raw.len THEN i + Len(v) ELSE raw.len) \in 0..Capacity
    BY <1>1
  <1>7. ASSUME NEW r \in WriteStruct(raw, i, v) \cup WriteFromSlice(raw, i, v)
        PROVE  r \in RawType /\ r.data = d
    <2>1. PICK l \in 0..Capacity : r = [len |-> l, data |-> d]
      BY <1>1, <1>4, <1>5, <1>6
    <2> QED BY <1>3, <2>1
  <1> QED BY <1>2, <1>7 DEF d

LEMMA EditedRight ==
    ASSUME NEW raw \in RawType, NEW r \in Edited(raw)
    PROVE  r \in RawType
  <1>1. CASE \E l \in 0..Capacity : r \in SetLen(raw, l)
    BY <1>1 DEF SetLen, RawType
  <1>2. ASSUME NEW i \in 0..Capacity - 1, NEW b \in Byte,
               r \in WriteStruct(raw, i, <<b>>) \cup WriteFromSlice(raw, i, <<b>>)
        PROVE  r \in RawType
    <2>1. <<b>> \in Seq(Byte) /\ Len(<<b>>) = 1 /\ i \in 0..Capacity /\ i + 1 <= Capacity
      BY BufferAssumption
    <2> QED BY <1>2, <2>1, WriteRight
  <1>3. \/ \E l \in 0..Capacity : r \in SetLen(raw, l)
        \/ \E i \in 0..Capacity - 1, b \in Byte :
              r \in WriteStruct(raw, i, <<b>>) \cup WriteFromSlice(raw, i, <<b>>)
    <2> DEFINE A == {SetLen(raw, len) : len \in 0..Capacity}
               B == {WriteStruct(raw, i, <<b>>) \cup WriteFromSlice(raw, i, <<b>>) :
                       i \in 0..Capacity - 1, b \in Byte}
    <2>1. Edited(raw) = (UNION A) \cup (UNION B)
      BY DEF Edited
    <2>2. \A x \in A : \E l \in 0..Capacity : x = SetLen(raw, l)
      OBVIOUS
    <2>3. \A x \in B : \E i \in 0..Capacity - 1, b \in Byte :
             x = WriteStruct(raw, i, <<b>>) \cup WriteFromSlice(raw, i, <<b>>)
      OBVIOUS
    <2> HIDE DEF A, B
    <2> QED BY <2>1, <2>2, <2>3
  <1> QED BY <1>1, <1>2, <1>3

LEMMA NewRight == New(Capacity) \subseteq RawType
  BY BufferAssumption DEF New, NewOfSize, RawType

\* What thread_rx makes of a frame: the bytes that came, if all of them did.
LEMMA PayloadRight ==
    ASSUME NEW f \in Frame, NEW raw \in Payload(f)
    PROVE  raw \in RawType /\ (f.bytes \in [1..Capacity -> Byte] => raw.data = f.bytes)
  <1>1. f.size = Capacity /\ f.bytes \in Seq(Byte) /\ Capacity \in Nat
    BY BufferAssumption DEF Frame
  <1>2. PICK n \in New(Capacity), v \in [1..Capacity -> Byte] :
           IsPrefix(f.bytes, v) /\ raw \in WriteFromSlice(n, 0, v)
    BY <1>1 DEF Payload
  <1>3. v \in Seq(Byte) /\ Len(v) = Capacity /\ n \in RawType /\ n.data \in [1..Capacity -> Byte]
    BY <1>1, <1>2, NewRight DEF RawType
  <1>4. raw \in RawType /\ raw.data = Overwrite(n.data, 0, v)
    BY <1>1, <1>2, <1>3, WriteRight
  <1>5. Overwrite(n.data, 0, v) = v
    BY <1>1, <1>3 DEF Overwrite
  <1>6. ASSUME f.bytes \in [1..Capacity -> Byte] PROVE v = f.bytes
    <2>1. Len(f.bytes) = Capacity /\ SubSeq(f.bytes, 1, Capacity) = SubSeq(v, 1, Capacity)
      BY <1>1, <1>2, <1>6 DEF IsPrefix
    <2>2. SubSeq(f.bytes, 1, Capacity) = f.bytes /\ SubSeq(v, 1, Capacity) = v
      BY <1>1, <1>3, <1>6, <2>1
    <2> QED BY <2>1, <2>2
  <1> QED BY <1>4, <1>5, <1>6

----------------------------------------------------------------------------
(* What the parts of a step do *)

LEMMA KeptRight ==
    ASSUME NEW h \in [Buf -> RawType \cup {None}], heap' = Kept(h)
    PROVE  /\ heap' \in [Buf -> RawType \cup {None}]
           /\ \A t \in Thread : heap'[t] = h[t]
           /\ \A e \in Ep : \A c \in ToSet(queue'[e]) :
                 c.buf \in Buf => heap'[c.buf] = h[c.buf]
           /\ \A e \in Apps : held'[e] # None /\ held'[e].buf \in Buf =>
                 heap'[held'[e].buf] = h[held'[e].buf]
  <1>1. heap' = [b \in Buf |-> IF b \in Thread \cup (Queued' \cup Received') THEN h[b] ELSE None]
    BY DEF Kept
  <1>2. \A b \in Buf : b \in Thread \cup Queued' \cup Received' => heap'[b] = h[b]
    BY <1>1
  <1>3. heap' \in [Buf -> RawType \cup {None}]
    BY <1>1
  <1>4. ASSUME NEW e \in Ep, NEW c \in ToSet(queue'[e]), c.buf \in Buf
        PROVE  c.buf \in Queued'
    BY <1>4, Names DEF Queued
  <1>5. ASSUME NEW e \in Apps, held'[e] # None, held'[e].buf \in Buf
        PROVE  held'[e].buf \in Received'
    BY <1>5, Names DEF Received
  <1> QED BY <1>2, <1>3, <1>4, <1>5, Names

\* Each endpoint of the net gets the copy at the end of its queue, or nothing.
LEMMA GiveRight ==
    ASSUME queue \in [Ep -> Seq(Copy)], NEW n \in Net, NEW m \in Msg, NEW b \in Buf \cup {None},
           GiveAll(n, m, b)
    PROVE  /\ queue' \in [Ep -> Seq(Copy)]
           /\ \A e \in Ep : \/ queue'[e] = queue[e]
                            \/ /\ NetOf[e] = n
                               /\ queue'[e] = Append(queue[e], [msg |-> m, buf |-> b])
           /\ \A e \in Ep : \A c \in ToSet(queue'[e]) :
                 c \in ToSet(queue[e]) \/ (NetOf[e] = n /\ c = [msg |-> m, buf |-> b])
  <1> DEFINE x == [msg |-> m, buf |-> b]
  <1>1. x \in Copy
    BY DEF Copy
  <1>2. \A e \in Ep : queue'[e] = IF e \in Takers(n, m) THEN Append(queue[e], x) ELSE queue[e]
    BY DEF GiveAll
  <1>3. \A e \in Takers(n, m) : NetOf[e] = n
    BY Zenon DEF Takers
  <1> HIDE DEF x
  <1>4. \A e \in Ep : Append(queue[e], x) \in Seq(Copy)
                      /\ ToSet(Append(queue[e], x)) = ToSet(queue[e]) \cup {x}
    BY <1>1, AppendSet
  <1>5. queue' \in [Ep -> Seq(Copy)]
    <2>1. queue' = [e \in Ep |-> IF e \in Takers(n, m) THEN Append(queue[e], x) ELSE queue[e]]
      BY DEF GiveAll, x
    <2> QED BY <1>4, <2>1
  <1>6. ASSUME NEW e \in Ep
        PROVE  queue'[e] = queue[e] \/ (NetOf[e] = n /\ queue'[e] = Append(queue[e], x))
    BY <1>2, <1>3
  <1>7. ASSUME NEW e \in Ep, NEW c \in ToSet(queue'[e])
        PROVE  c \in ToSet(queue[e]) \/ (NetOf[e] = n /\ c = x)
    BY <1>4, <1>6
  <1> QED BY <1>5, <1>6, <1>7 DEF x

\* Nothing is called back that was sent.
LEMMA SentStep ==
    ASSUME TypeOK, [Next]_vars
    PROVE  /\ next' \in [Thread -> Nat] /\ \A t \in Thread : next'[t] >= next[t]
           /\ \A m : Sent(m) => Sent(m)'
  <1>1. UNCHANGED next \/ \E t \in Thread : Send(t)
    BY DEF Next, Edit, Recv, Discard, Works, TxHello, TxRaw, TxSync, RxHello, RxMessage, RxEnd,
           Break, app, vars
  <1>2. next' \in [Thread -> Nat] /\ \A t \in Thread : next'[t] >= next[t]
    <2>1. next \in [Thread -> Nat]
      BY DEF TypeOK
    <2>2. ASSUME NEW t \in Thread, Send(t) PROVE next' = [next EXCEPT ![t] = @ + 1]
      BY <2>2 DEF Send
    <2> QED BY <1>1, <2>1, <2>2
  <1>3. ASSUME NEW m, Sent(m) PROVE Sent(m)'
    <2>1. PICK t \in Thread : \E i \in DOMAIN Script[t] : i < next[t] /\ Script[t][i] = m
      BY <1>3 DEF Sent
    <2> PICK i \in DOMAIN Script[t] : i < next[t] /\ Script[t][i] = m
      BY <2>1
    <2>2. i \in Nat /\ next[t] \in Nat /\ next'[t] \in Nat /\ next'[t] >= next[t]
      BY <1>2, ScriptAssumption DEF TypeOK
    <2>3. i < next'[t]
      BY <2>2
    <2> QED BY <2>3 DEF Sent
  <1> QED BY <1>2, <1>3

LEMMA GoodKept ==
    ASSUME NEW c, NEW n, Good(c, n), c.msg \in Msg, Sent(c.msg) => Sent(c.msg)',
           heap'[c.buf] = heap[c.buf], said'[c.msg] = said[c.msg],
           cut'[n] = cut[n] \/ cut[n] = None
    PROVE  Good(c, n)'
  BY Names DEF Good, AsSent

\* What a thread is about to send has not been sent.
LEMMA SendsNew ==
    ASSUME TypeOK, NEW t \in Thread, next[t] \in DOMAIN Script[t]
    PROVE  Script[t][next[t]] \in Msg /\ ~Sent(Script[t][next[t]])
  <1>1. Script[t] \in Seq(Msg) /\ next[t] \in Nat
    BY ScriptAssumption DEF TypeOK
  <1>2. ASSUME Sent(Script[t][next[t]]) PROVE FALSE
    <2>1. PICK u \in Thread :
             \E i \in DOMAIN Script[u] : i < next[u] /\ Script[u][i] = Script[t][next[t]]
      BY <1>2 DEF Sent
    <2>2. PICK i \in DOMAIN Script[u] : i < next[u] /\ Script[u][i] = Script[t][next[t]]
      BY <2>1
    <2>3. u = t /\ i = next[t]
      BY <2>2, ScriptAssumption
    <2> QED BY <1>1, <2>2, <2>3
  <1> QED BY <1>1, <1>2

\* The history of a message that was sent does not change.
LEMMA HistoryKept ==
    ASSUME BridgedInv, [Next]_vars
    PROVE  /\ \A m \in Msg : Sent(m) => said'[m] = said[m]
           /\ laps' \in [Msg -> 0..MaxLaps] /\ \A m \in Msg : laps'[m] >= laps[m]
           /\ \A n \in Net : cut'[n] = cut[n] \/ cut[n] = None
  <1>1. TypeOK /\ \A n \in Net : up => cut[n] = None
    BY DEF BridgedInv, Types, LinkInv, Greeting
  <1>2. UNCHANGED said \/ \E t \in Thread : Send(t)
    BY DEF Next, Edit, Recv, Discard, Works, TxHello, TxRaw, TxSync, RxHello, RxMessage, RxEnd,
           Break, app, vars
  <1>3. ASSUME NEW t \in Thread, Send(t), NEW m \in Msg, Sent(m) PROVE said'[m] = said[m]
    <2>1. m # Script[t][next[t]]
      BY <1>1, <1>3, SendsNew DEF Send
    <2>2. \E x : said' = [said EXCEPT ![Script[t][next[t]]] = x]
      BY <1>3 DEF Send
    <2> QED BY <1>1, <2>1, <2>2 DEF TypeOK
  <1>4. UNCHANGED laps \/ \E n \in Net : TxRaw(n)
    BY DEF Next, Edit, Send, Recv, Discard, Works, TxHello, TxSync, RxHello, RxMessage, RxEnd,
           Break, link, vars
  <1>5. ASSUME NEW n \in Net, TxRaw(n)
        PROVE  laps' \in [Msg -> 0..MaxLaps] /\ \A m \in Msg : laps'[m] >= laps[m]
    <2>1. PICK m : laps' = laps \/ (laps[m] < MaxLaps /\ laps' = [laps EXCEPT ![m] = @ + 1])
      BY <1>5 DEF TxRaw
    <2>2. laps \in [Msg -> 0..MaxLaps] /\ MaxLaps \in Nat
      BY <1>1, BufferAssumption DEF TypeOK
    <2>3. CASE laps' = [laps EXCEPT ![m] = @ + 1] /\ laps[m] < MaxLaps
      <3>1. ASSUME NEW k \in Msg PROVE laps'[k] \in 0..MaxLaps /\ laps'[k] >= laps[k]
        BY <2>2, <2>3
      <3> QED BY <2>2, <2>3, <3>1
    <2> QED BY <2>1, <2>2, <2>3
  <1>6. UNCHANGED cut \/ up
    BY DEF Next, Edit, Send, Recv, Discard, Works, TxHello, TxRaw, TxSync, RxHello, RxMessage,
           RxEnd, Break, link, vars
  <1>7. UNCHANGED laps => laps' \in [Msg -> 0..MaxLaps] /\ \A m \in Msg : laps'[m] >= laps[m]
    BY <1>1, BufferAssumption DEF TypeOK
  <1> QED BY <1>1, <1>2, <1>3, <1>4, <1>5, <1>6, <1>7

LEMMA CopyKept ==
    ASSUME BridgedInv, [Next]_vars, NEW n \in Net, NEW c, c.msg \in Msg, CopyInv(c, n),
           c.msg \in Raw => heap'[c.buf] = heap[c.buf]
    PROVE  CopyInv(c, n)'
  <1>1. TypeOK /\ (c.msg \in Raw => Good(c, n) /\ Sent(c.msg))
    BY DEF CopyInv, Good, BridgedInv, Types
  <1>2. c.msg \in Raw => Good(c, n)'
    BY <1>1, GoodKept, HistoryKept, SentStep
  <1>3. ASSUME NEW k \in 0..laps[c.msg] PROVE k \in 0..laps'[c.msg]
    <2>1. laps[c.msg] \in Nat /\ laps'[c.msg] \in Nat /\ laps'[c.msg] >= laps[c.msg]
      BY <1>1, HistoryKept, BufferAssumption DEF TypeOK
    <2> QED BY <2>1
  <1> QED BY <1>2, <1>3 DEF CopyInv

LEMMA HeldKept ==
    ASSUME BridgedInv, [Next]_vars, NEW e \in Apps, held'[e] = held[e],
           held[e] # None /\ held[e].msg \in Raw => heap'[e] = heap[e]
    PROVE  HeldInv(e)'
  <1>1. PICK c : c = held[e]
    OBVIOUS
  <1>2. NetOf[e] \in Net /\ (c # None => c.msg \in Msg) /\ HeldInv(e)
    BY <1>1, Names, NetAssumption DEF BridgedInv, Types, CopiesInv, TypeOK, Copy
  <1>3. TypeOK /\ (c # None /\ c.msg \in Raw => Good(c, NetOf[e]) /\ Sent(c.msg) /\ c.buf = e)
    BY <1>1, <1>2 DEF HeldInv, Good, BridgedInv, Types
  <1>4. c # None /\ c.msg \in Raw => Good(c, NetOf[e])'
    BY <1>1, <1>2, <1>3, GoodKept, HistoryKept, SentStep
  <1>5. held'[e] = c
    BY <1>1
  <1> QED BY <1>1, <1>2, <1>4, <1>5 DEF HeldInv

----------------------------------------------------------------------------
(* Copies and their buffers *)

\* Copies of queues and of applications have buffers in Buf if they are raw.
LEMMA CopyParts ==
    ASSUME BridgedInv
    PROVE  /\ \A e \in Ep : \A c \in ToSet(queue[e]) :
                 /\ c \in Copy /\ c.msg \in Msg /\ CopyInv(c, NetOf[e]) /\ NetOf[e] \in Net
                 /\ c.msg \in Raw => c.buf \in Buf \ (Thread \cup Apps) /\ heap[c.buf] \in RawType
                                     /\ Sent(c.msg)
           /\ \A e \in Apps : held[e] # None =>
                 /\ held[e] \in Copy /\ held[e].msg \in Msg
                 /\ held[e].msg \in Raw => held[e].buf = e /\ heap[e] \in RawType
  <1>1. TypeOK /\ CopiesInv
    BY DEF BridgedInv, Types
  <1>2. ASSUME NEW e \in Ep, NEW c \in ToSet(queue[e])
        PROVE  /\ c \in Copy /\ c.msg \in Msg /\ CopyInv(c, NetOf[e]) /\ NetOf[e] \in Net
               /\ c.msg \in Raw => c.buf \in Buf \ (Thread \cup Apps) /\ heap[c.buf] \in RawType
                                   /\ Sent(c.msg)
    <2>1. queue[e] \in Seq(Copy)
      BY <1>1 DEF TypeOK
    <2>2. c \in Copy
      BY <2>1 DEF ToSet
    <2>3. c.msg \in Msg /\ CopyInv(c, NetOf[e]) /\ NetOf[e] \in Net
      BY <1>1, <2>2, NetAssumption DEF CopiesInv, QueueInv, Copy
    <2>4. ASSUME c.msg \in Raw PROVE c.buf \notin Thread \cup Apps
      <3>1. PICK k \in 0..laps[c.msg] : c.buf = <<c.msg, k>>
        BY <2>3, <2>4 DEF CopyInv
      <3>2. k \in 0..MaxLaps
        BY <1>1, <2>3, BufferAssumption DEF TypeOK
      <3> QED BY <2>4, <3>1, <3>2, Names
    <2> QED BY <2>2, <2>3, <2>4 DEF CopyInv, Good
  <1>3. ASSUME NEW e \in Apps, held[e] # None
        PROVE  /\ held[e] \in Copy /\ held[e].msg \in Msg
               /\ held[e].msg \in Raw => held[e].buf = e /\ heap[e] \in RawType
    <2>1. held[e] \in Copy /\ HeldInv(e)
      BY <1>1, <1>3, Names DEF TypeOK, CopiesInv
    <2> QED BY <1>3, <2>1 DEF HeldInv, Good, Copy
  <1> QED BY <1>2, <1>3

LEMMA CopiesShrink ==
    ASSUME BridgedInv, [Next]_vars, UNCHANGED held,
           \A e \in Ep : ToSet(queue'[e]) \subseteq ToSet(queue[e]),
           \A e \in Ep : \A c \in ToSet(queue'[e]) : c.msg \in Raw => heap'[c.buf] = heap[c.buf],
           \A e \in Apps : held[e] # None /\ held[e].msg \in Raw => heap'[e] = heap[e]
    PROVE  CopiesInv'
  <1>1. ASSUME NEW e \in Ep, NEW c \in ToSet(queue'[e]) PROVE CopyInv(c, NetOf[e])'
    BY <1>1, CopyParts, CopyKept
  <1>2. ASSUME NEW e \in Apps PROVE HeldInv(e)'
    BY <1>2, HeldKept
  <1> QED BY <1>1, <1>2 DEF CopiesInv, QueueInv

\* Kept leaves the buffers of copies as they are.
LEMMA KeptHeap ==
    ASSUME BridgedInv, NEW h \in [Buf -> RawType \cup {None}], heap' = Kept(h), NEW b \in Buf,
           \A x \in Buf : x # b => h[x] = heap[x]
    PROVE  /\ heap' \in [Buf -> RawType \cup {None}]
           /\ \A t \in Thread : heap'[t] = h[t]
           /\ \A e \in Ep : \A c \in ToSet(queue'[e]) :
                 c \in ToSet(queue[e]) /\ c.msg \in Raw /\ c.buf # b => heap'[c.buf] = heap[c.buf]
           /\ \A e \in Apps : e # b /\ held'[e] = held[e] /\ held[e] # None /\ held[e].msg \in Raw
                 => heap'[e] = heap[e]
  <1>1. ASSUME NEW e \in Ep, NEW c \in ToSet(queue'[e]),
               c \in ToSet(queue[e]), c.msg \in Raw, c.buf # b
        PROVE  heap'[c.buf] = heap[c.buf]
    <2>1. c.buf \in Buf
      BY <1>1, CopyParts
    <2> QED BY <1>1, <2>1, KeptRight
  <1>2. ASSUME NEW e \in Apps, e # b, held'[e] = held[e], held[e] # None, held[e].msg \in Raw
        PROVE  heap'[e] = heap[e]
    <2>1. held'[e].buf = e /\ e \in Buf /\ held'[e] # None
      BY <1>2, CopyParts, Names
    <2> QED BY <1>2, <2>1, KeptRight
  <1> QED BY <1>1, <1>2, KeptRight

\* Steps after which no thread has sent more, and what was sent is as it was.
LEMMA SaidKept ==
    ASSUME Types, UNCHANGED <<next, said>>
    PROVE  \A m \in Raw : Sent(m)' => said'[m] \in RawType
  <1>1. \A m : Sent(m)' <=> Sent(m)
    BY DEF Sent
  <1> QED BY <1>1 DEF Types

LEMMA EditStep ==
    ASSUME BridgedInv, [Next]_vars, NEW t \in Thread, Edit(t)
    PROVE  Types' /\ CopiesInv'
  <1>1. TypeOK /\ Types /\ heap[t] \in RawType /\ t \in Buf /\ heap \in [Buf -> RawType \cup {None}]
    BY Names DEF BridgedInv, Types, TypeOK
  <1>2. PICK raw \in RawType : heap' = [heap EXCEPT ![t] = raw]
    BY <1>1, EditedRight DEF Edit
  <1>3. heap' \in [Buf -> RawType \cup {None}] /\ \A u \in Thread : heap'[u] \in RawType
    BY <1>1, <1>2, Names DEF Types
  <1>4. edits' \in 0..MaxEdits
    BY <1>1, BufferAssumption DEF Edit, TypeOK
  <1>5. UNCHANGED <<addr, queue, held, inbox, next, said, src, valid, up, wire, cut, rx, tx, laps>>
    BY DEF Edit, ends, link
  <1>6. TypeOK'
    BY <1>1, <1>3, <1>4, <1>5 DEF TypeOK
  <1>7. Types'
    BY <1>1, <1>3, <1>5, <1>6, SaidKept DEF Types
  <1>8. \A e \in Ep : \A c \in ToSet(queue'[e]) : c.msg \in Raw => heap'[c.buf] = heap[c.buf]
    BY <1>1, <1>2, <1>5, CopyParts
  <1>9. \A e \in Apps : heap'[e] = heap[e]
    BY <1>1, <1>2, Names
  <1> QED BY <1>5, <1>7, <1>8, <1>9, CopiesShrink

LEMMA SendStep ==
    ASSUME BridgedInv, [Next]_vars, NEW t \in Thread, Send(t)
    PROVE  Types' /\ CopiesInv'
  <1>1. TypeOK /\ Types /\ heap[t] \in RawType /\ t \in Buf /\ heap \in [Buf -> RawType \cup {None}]
    BY Names DEF BridgedInv, Types, TypeOK
  <1>2. PICK m \in Msg : m = Script[t][next[t]] /\ ~Sent(m)
    BY <1>1, SendsNew DEF Send
  <1>3. PICK n \in Net : n = NetOf[From[m]]
    BY MessageAssumption, NetAssumption
  <1>4. m \in Raw => <<m, 0>> \in Buf /\ <<m, 0>> \notin Thread \cup Apps
    BY BufferAssumption, Names
  <1>5. PICK b \in Buf \cup {None} : b = IF m \in Raw THEN <<m, 0>> ELSE None
    BY <1>4
  <1>6. PICK h \in [Buf -> RawType \cup {None}] :
           h = IF m \in Raw THEN [heap EXCEPT ![<<m, 0>>] = Dup(heap[t])] ELSE heap
    BY <1>1, <1>4, DupRight
  <1>7. /\ GiveAll(n, m, b) /\ heap' = Kept(h) /\ next' = [next EXCEPT ![t] = @ + 1]
        /\ src' = [src EXCEPT ![m] = addr[From[m]]]
        /\ said' = [said EXCEPT ![m] = IF m \in Raw THEN heap[t] ELSE None]
        /\ UNCHANGED <<addr, held, inbox, valid, edits, up, wire, cut, rx, tx, laps>>
    BY <1>2, <1>3, <1>5, <1>6 DEF Send, NetSend, ends, link
  <1>8. /\ queue' \in [Ep -> Seq(Copy)]
        /\ \A e \in Ep : \A c \in ToSet(queue'[e]) :
              c \in ToSet(queue[e]) \/ (NetOf[e] = n /\ c = [msg |-> m, buf |-> b])
    <2>1. queue \in [Ep -> Seq(Copy)]
      BY <1>1 DEF TypeOK
    <2> QED BY <1>7, <2>1, GiveRight
  <1>9. /\ m \in Raw => h[<<m, 0>>] = [len |-> Capacity, data |-> heap[t].data]
                         /\ h[<<m, 0>>] \in RawType
        /\ \A x \in Buf : x # b => h[x] = heap[x]
    BY <1>1, <1>4, <1>5, <1>6, DupRight
  <1>10. /\ heap' \in [Buf -> RawType \cup {None}] /\ \A u \in Thread : heap'[u] = heap[u]
         /\ \A e \in Ep : \A c \in ToSet(queue'[e]) : c.buf \in Buf => heap'[c.buf] = h[c.buf]
    BY <1>4, <1>5, <1>7, <1>9, KeptRight, Names
  <1>11. ASSUME NEW e \in Ep, NEW c \in ToSet(queue'[e]), c \in ToSet(queue[e])
         PROVE  CopyInv(c, NetOf[e])'
    <2>1. c.msg \in Raw => c.buf \in Buf /\ c.msg # m /\ \E k : c.buf = <<c.msg, k>>
      BY <1>2, <1>11, CopyParts DEF CopyInv
    <2>2. c.msg \in Raw => heap'[c.buf] = heap[c.buf]
      <3>1. ASSUME c.msg \in Raw PROVE c.buf \in Buf /\ c.buf # b
        <4>1. PICK k : c.buf = <<c.msg, k>>
          BY <2>1, <3>1
        <4> QED BY <1>5, <2>1, <3>1, <4>1, Names
      <3> QED BY <1>9, <1>10, <3>1
    <2> QED BY <1>11, <2>2, CopyParts, CopyKept
  <1>12. Sent(m)' /\ said'[m] = (IF m \in Raw THEN heap[t] ELSE None)
    <2>1. next[t] < next'[t] /\ next[t] \in DOMAIN Script[t]
      BY <1>1, <1>7 DEF TypeOK, Send
    <2> QED BY <1>1, <1>2, <1>7, <2>1 DEF TypeOK, Sent
  <1>13. ASSUME NEW e \in Ep, NEW c \in ToSet(queue'[e]), c = [msg |-> m, buf |-> b]
         PROVE  CopyInv(c, NetOf[e])'
    <2>1. CASE m \in Raw
      <3>1. c.msg = m /\ c.buf = <<m, 0>> /\ c.buf \in Buf /\ 0 \in 0..laps'[m] /\ m \notin SyncMsg
        BY <1>1, <1>4, <1>5, <1>7, <1>13, <2>1, BufferAssumption DEF TypeOK, Raw
      <3>2. heap'[c.buf] = [len |-> Capacity, data |-> said'[m].data] /\ heap'[c.buf] \in RawType
        BY <1>9, <1>10, <1>12, <1>13, <2>1, <3>1
      <3> QED BY <1>12, <3>1, <3>2 DEF CopyInv, Good, AsSent
    <2>2. CASE m \notin Raw
      BY <1>5, <1>13, <2>2 DEF CopyInv
    <2> QED BY <2>1, <2>2
  <1>14. ASSUME NEW e \in Apps PROVE HeldInv(e)'
    <2>1. held'[e] = held[e] /\ (held[e] # None /\ held[e].msg \in Raw => heap'[e] = h[e])
      <3>1. UNCHANGED held /\ (held[e] # None /\ held[e].msg \in Raw => held[e].buf = e /\ e \in Buf)
        BY <1>7, CopyParts, Names
      <3>2. held'[e] # None /\ held'[e].buf \in Buf => heap'[held'[e].buf] = h[held'[e].buf]
        BY <1>7, KeptRight
      <3> QED BY <3>1, <3>2
    <2>2. h[e] = heap[e]
      BY <1>4, <1>5, <1>9, Names
    <2> QED BY <2>1, <2>2, HeldKept
  <1>15. TypeOK'
    <2>1. next' \in [Thread -> Nat] /\ DOMAIN src' = Msg /\ said' \in [Msg -> RawType \cup {None}]
      BY <1>1, <1>7 DEF TypeOK
    <2> QED BY <1>1, <1>7, <1>8, <1>10, <2>1 DEF TypeOK
  <1>16. ASSUME NEW k \in Raw, Sent(k)' PROVE said'[k] \in RawType
    <2>1. k # m => Sent(k)
      <3>1. PICK u \in Thread : \E i \in DOMAIN Script[u] : i < next'[u] /\ Script[u][i] = k
        BY <1>16 DEF Sent
      <3>2. PICK i \in DOMAIN Script[u] : i < next'[u] /\ Script[u][i] = k
        BY <3>1
      <3>3. i < next[u] \/ (u = t /\ i = next[t])
        <4>1. i \in Nat /\ next[u] \in Nat /\ next'[u] = IF u = t THEN next[u] + 1 ELSE next[u]
          <5>1. next \in [Thread -> Nat]
            BY <1>1 DEF TypeOK
          <5>2. i \in Nat
            BY ScriptAssumption
          <5> QED BY <1>7, <5>1, <5>2
        <4> QED BY <3>2, <4>1
      <3> QED BY <1>2, <3>2, <3>3 DEF Sent
    <2> QED BY <1>1, <1>7, <1>12, <2>1 DEF Types, TypeOK
  <1>17. Types'
    BY <1>1, <1>7, <1>10, <1>15, <1>16 DEF Types
  <1> QED BY <1>8, <1>11, <1>13, <1>14, <1>17 DEF CopiesInv, QueueInv

LEMMA RecvStep ==
    ASSUME BridgedInv, [Next]_vars, NEW e \in Apps, Recv(e)
    PROVE  Types' /\ CopiesInv'
  <1>1. /\ TypeOK /\ Types /\ e \in Buf /\ e \notin Thread /\ e \in Ep /\ e # None
        /\ heap \in [Buf -> RawType \cup {None}] /\ queue[e] \in Seq(Copy) /\ queue[e] # <<>>
    BY Names DEF BridgedInv, Types, TypeOK, Recv
  <1>2. PICK c \in Copy : c = Head(queue[e]) /\ c \in ToSet(queue[e])
    BY <1>1, TailParts
  <1>3. /\ c.msg \in Msg /\ CopyInv(c, NetOf[e]) /\ NetOf[e] \in Net
        /\ c.msg \in Raw => c.buf \in Buf \ (Thread \cup Apps) /\ heap[c.buf] \in RawType /\ Sent(c.msg)
    BY <1>1, <1>2, CopyParts
  <1>4. PICK h \in [Buf -> RawType \cup {None}] :
           h = IF c.msg \in Raw THEN [heap EXCEPT ![e] = Dup(heap[c.buf])] ELSE heap
    BY <1>1, <1>3, DupRight
  <1>5. PICK d \in Copy : d = IF c.msg \in Raw THEN [c EXCEPT !.buf = e] ELSE c
    BY <1>1, <1>2 DEF Copy
  <1>6. /\ queue' = [queue EXCEPT ![e] = Tail(@)]
        /\ held' = [held EXCEPT ![e] = d] /\ heap' = Kept(h)
        /\ valid' = [m \in SyncMsg |-> valid[m] /\ m # c.msg]
        /\ inbox' = [inbox EXCEPT ![e] = Append(@, c.msg)]
        /\ UNCHANGED <<addr, next, said, edits, src, up, wire, cut, rx, tx, laps>>
    BY <1>2, <1>4, <1>5 DEF Recv, Taken, link
  <1>7. \A x \in Buf : x # e => h[x] = heap[x]
    BY <1>1, <1>4
  <1>8. /\ heap' \in [Buf -> RawType \cup {None}] /\ \A t \in Thread : heap'[t] = heap[t]
        /\ \A f \in Ep : \A x \in ToSet(queue'[f]) :
              x \in ToSet(queue[f]) /\ x.msg \in Raw => heap'[x.buf] = heap[x.buf]
        /\ \A f \in Apps : f # e /\ held'[f] = held[f] /\ held[f] # None /\ held[f].msg \in Raw
              => heap'[f] = heap[f]
    <2>1. /\ heap' \in [Buf -> RawType \cup {None}] /\ \A t \in Thread : heap'[t] = h[t]
          /\ \A f \in Ep : \A x \in ToSet(queue'[f]) :
                x \in ToSet(queue[f]) /\ x.msg \in Raw /\ x.buf # e => heap'[x.buf] = heap[x.buf]
          /\ \A f \in Apps : f # e /\ held'[f] = held[f] /\ held[f] # None /\ held[f].msg \in Raw
                => heap'[f] = heap[f]
      BY <1>1, <1>6, <1>7, KeptHeap
    <2>2. \A t \in Thread : t \in Buf /\ t # e
      BY <1>1, Names
    <2> QED BY <1>7, <2>1, <2>2, CopyParts
  <1>9. /\ queue' \in [Ep -> Seq(Copy)] /\ \A f \in Ep : ToSet(queue'[f]) \subseteq ToSet(queue[f])
    <2>1. Tail(queue[e]) \in Seq(Copy) /\ ToSet(Tail(queue[e])) \subseteq ToSet(queue[e])
      BY <1>1, TailParts
    <2>2. queue \in [Ep -> Seq(Copy)]
      BY <1>1 DEF TypeOK
    <2> QED BY <1>1, <1>6, <2>1, <2>2
  <1>10. ASSUME NEW f \in Ep, NEW x \in ToSet(queue'[f]) PROVE CopyInv(x, NetOf[f])'
    BY <1>8, <1>9, CopyParts, CopyKept
  <1>11. held'[e] = d /\ \A f \in Apps : f # e => held'[f] = held[f]
    BY <1>1, <1>6 DEF TypeOK
  <1>12. HeldInv(e)'
    <2>1. CASE c.msg \in Raw
      <3>1. /\ d.msg = c.msg /\ d.buf = e /\ c.msg \notin SyncMsg
            /\ h[e] = [len |-> Capacity, data |-> heap[c.buf].data] /\ h[e] \in RawType
        BY <1>1, <1>2, <1>3, <1>4, <1>5, <2>1, DupRight DEF Copy, Raw
      <3>2. d # None => heap'[e] = h[e]
        BY <1>1, <1>6, <1>11, <3>1, KeptRight
      <3>3. Sent(c.msg)' /\ (c.msg # cut'[NetOf[e]] => h[e] = AsSent(c.msg)')
        <4>1. Sent(c.msg)' /\ said' = said /\ cut' = cut
          BY <1>1, <1>3, <1>6, <2>1, SentStep
        <4>2. c.msg # cut[NetOf[e]] => heap[c.buf] = AsSent(c.msg)
          BY <1>3, <2>1 DEF CopyInv, Good
        <4> QED BY <3>1, <4>1, <4>2 DEF AsSent
      <3>4. d # None => Good(d, NetOf[e])'
        BY <1>1, <3>1, <3>2, <3>3 DEF Good, AsSent
      <3> QED BY <1>11, <3>1, <3>4 DEF HeldInv
    <2>2. CASE c.msg \notin Raw
      <3>1. d = c /\ c.buf = None /\ c.msg \in SyncMsg
        BY <1>3, <1>5, <2>2 DEF CopyInv, Raw
      <3> QED BY <1>11, <2>2, <3>1 DEF HeldInv
    <2> QED BY <2>1, <2>2
  <1>13. ASSUME NEW f \in Apps PROVE HeldInv(f)'
    BY <1>8, <1>11, <1>12, HeldKept
  <1>14. TypeOK'
    <2>1. held' \in [Apps -> Copy \cup {None}] /\ valid' \in [SyncMsg -> BOOLEAN]
      BY <1>1, <1>6 DEF TypeOK
    <2>2. inbox' \in [Apps -> Seq(Msg)]
      BY <1>1, <1>3, <1>6 DEF TypeOK
    <2> QED BY <1>1, <1>6, <1>8, <1>9, <2>1, <2>2 DEF TypeOK
  <1>15. Types'
    BY <1>1, <1>6, <1>8, <1>14, SaidKept DEF Types
  <1> QED BY <1>10, <1>13, <1>15 DEF CopiesInv, QueueInv

\* A queue of which the first copy is gone.
LEMMA QueueTail ==
    ASSUME TypeOK, NEW e \in Ep, queue[e] # <<>>, queue' = [queue EXCEPT ![e] = Tail(@)]
    PROVE  /\ queue' \in [Ep -> Seq(Copy)] /\ \A f \in Ep : ToSet(queue'[f]) \subseteq ToSet(queue[f])
           /\ queue'[e] = Tail(queue[e]) /\ \A f \in Ep \ {e} : queue'[f] = queue[f]
           /\ \A i \in DOMAIN queue'[e] : i \in Nat \ {0} /\ i + 1 \in DOMAIN queue[e] /\ i + 1 # 1
                                          /\ queue'[e][i] = queue[e][i + 1]
           /\ 1 \in DOMAIN queue[e] /\ Head(queue[e]) = queue[e][1]
  <1>1. queue \in [Ep -> Seq(Copy)] /\ queue[e] \in Seq(Copy)
    BY DEF TypeOK
  <1>2. Tail(queue[e]) \in Seq(Copy) /\ ToSet(Tail(queue[e])) \subseteq ToSet(queue[e])
    BY <1>1, TailParts
  <1>3. /\ \A i \in DOMAIN Tail(queue[e]) : i \in Nat \ {0} /\ i + 1 \in DOMAIN queue[e] /\ i + 1 # 1
                                            /\ Tail(queue[e])[i] = queue[e][i + 1]
        /\ 1 \in DOMAIN queue[e] /\ Head(queue[e]) = queue[e][1]
    BY <1>1, TailParts
  <1>4. queue'[e] = Tail(queue[e]) /\ \A f \in Ep \ {e} : queue'[f] = queue[f]
    BY <1>1
  <1> QED BY <1>1, <1>2, <1>3, <1>4

LEMMA DiscardStep ==
    ASSUME BridgedInv, [Next]_vars, NEW e \in Apps, Discard(e)
    PROVE  Types' /\ CopiesInv'
  <1>1. TypeOK /\ Types /\ e \in Ep /\ queue[e] # <<>> /\ queue' = [queue EXCEPT ![e] = Tail(@)]
    BY Names DEF BridgedInv, Types, Discard
  <1>2. UNCHANGED <<addr, held, inbox, heap, next, said, edits, src, valid, up, wire, cut, rx, tx, laps>>
    BY DEF Discard, ends, app, link
  <1>3. /\ queue' \in [Ep -> Seq(Copy)] /\ \A f \in Ep : ToSet(queue'[f]) \subseteq ToSet(queue[f])
    BY <1>1, QueueTail
  <1>4. TypeOK'
    BY <1>1, <1>2, <1>3 DEF TypeOK
  <1>5. Types'
    BY <1>1, <1>2, <1>4, SaidKept DEF Types
  <1> QED BY <1>2, <1>3, <1>5, CopiesShrink

\* What a thread of the bridge writes, or the connection swallows.
LEMMA WriteFrame ==
    ASSUME TypeOK, NEW n \in Net, NEW f \in {Hello} \cup Frame, Write(n, f)
    PROVE  /\ wire' \in [Net -> Seq({Hello} \cup Frame)]
           /\ wire'[n] = wire[n]
           /\ \/ wire'[Other(n)] = wire[Other(n)]
              \/ up /\ wire'[Other(n)] = Append(wire[Other(n)], f)
  <1>1. wire \in [Net -> Seq({Hello} \cup Frame)] /\ Other(n) \in Net /\ Other(n) # n
    BY OtherNet DEF TypeOK
  <1>2. wire[Other(n)] \in Seq({Hello} \cup Frame)
    BY <1>1
  <1>3. Append(wire[Other(n)], f) \in Seq({Hello} \cup Frame)
    BY <1>2, AppendSet
  <1>4. wire' = IF up THEN [wire EXCEPT ![Other(n)] = Append(wire[Other(n)], f)] ELSE wire
    BY DEF Write
  <1> QED BY <1>1, <1>3, <1>4

LEMMA TxHelloStep ==
    ASSUME BridgedInv, [Next]_vars, NEW n \in Net, TxHello(n)
    PROVE  Types' /\ CopiesInv'
  <1>1. TypeOK /\ Types
    BY DEF BridgedInv, Types
  <1>2. UNCHANGED <<addr, queue, held, inbox, heap, next, said, edits, src, valid, up, cut, rx, laps>>
    BY DEF TxHello, ends, app
  <1>3. wire' \in [Net -> Seq({Hello} \cup Frame)]
    BY <1>1, WriteFrame DEF TxHello
  <1>4. tx' \in [Net -> {"hello", "recv"}]
    BY <1>1 DEF TxHello, TypeOK
  <1>5. TypeOK'
    BY <1>1, <1>2, <1>3, <1>4 DEF TypeOK
  <1>6. Types'
    BY <1>1, <1>2, <1>5, SaidKept DEF Types
  <1> QED BY <1>2, <1>6, CopiesShrink

\* A raw copy at the head of the queue of a bridge, and the frame it becomes.
TxFrame(c) == [msg |-> c.msg, size |-> Capacity, bytes |-> heap[c.buf].data]

LEMMA TxRawRight ==
    ASSUME BridgedInv, NEW n \in Net, TxRaw(n)
    PROVE  \E c \in Copy :
              /\ c = queue[Bridge[n]][1] /\ c \in ToSet(queue[Bridge[n]]) /\ c.msg \in Raw
              /\ Sent(c.msg) /\ heap[c.buf] \in RawType /\ TxFrame(c) \in Frame
              /\ c.msg # cut[n] => heap[c.buf] = AsSent(c.msg)
              /\ \/ UNCHANGED <<wire, laps>>
                 \/ /\ Write(n, TxFrame(c)) /\ laps[c.msg] < MaxLaps
                    /\ laps' = [laps EXCEPT ![c.msg] = @ + 1]
  <1>1. /\ Bridge[n] \in Ep /\ NetOf[Bridge[n]] = n /\ queue[Bridge[n]] \in Seq(Copy)
        /\ queue[Bridge[n]] # <<>>
    BY Names DEF BridgedInv, Types, TypeOK, TxRaw
  <1>2. PICK c \in Copy : c = queue[Bridge[n]][1] /\ c = Head(queue[Bridge[n]])
                          /\ c \in ToSet(queue[Bridge[n]])
    BY <1>1, TailParts
  <1>3. /\ c.msg \in Raw /\ Sent(c.msg) /\ heap[c.buf] \in RawType
        /\ c.msg # cut[n] => heap[c.buf] = AsSent(c.msg)
    BY <1>1, <1>2, CopyParts DEF TxRaw, CopyInv, Good
  <1>4. /\ AsSlice(Dup(heap[c.buf])) = heap[c.buf].data /\ Len(AsSlice(Dup(heap[c.buf]))) = Capacity
        /\ heap[c.buf].data \in Seq(Byte)
    BY <1>3, DupRight
  <1>5. TxFrame(c) \in Frame
    BY <1>3, <1>4 DEF TxFrame, Frame
  <1>6. \/ UNCHANGED <<wire, laps>>
        \/ /\ Write(n, TxFrame(c)) /\ laps[c.msg] < MaxLaps
           /\ laps' = [laps EXCEPT ![c.msg] = @ + 1]
    BY <1>2, <1>4 DEF TxRaw, TxFrame
  <1> QED BY <1>2, <1>3, <1>5, <1>6

LEMMA TxRawStep ==
    ASSUME BridgedInv, [Next]_vars, NEW n \in Net, TxRaw(n)
    PROVE  Types' /\ CopiesInv'
  <1>1. /\ TypeOK /\ Types /\ Bridge[n] \in Ep /\ None \notin Apps
        /\ heap \in [Buf -> RawType \cup {None}] /\ queue[Bridge[n]] # <<>>
    BY Names DEF BridgedInv, Types, TypeOK, TxRaw
  <1>2. PICK h \in [Buf -> RawType \cup {None}] : h = heap
    BY <1>1
  <1>3. /\ queue' = [queue EXCEPT ![Bridge[n]] = Tail(@)] /\ heap' = Kept(h)
        /\ UNCHANGED <<addr, held, inbox, next, said, edits, src, valid, up, cut, rx, tx>>
    BY <1>2 DEF TxRaw, ends
  <1>4. /\ queue' \in [Ep -> Seq(Copy)] /\ \A f \in Ep : ToSet(queue'[f]) \subseteq ToSet(queue[f])
    BY <1>1, <1>3, QueueTail
  <1>5. wire' \in [Net -> Seq({Hello} \cup Frame)]
    <2>1. UNCHANGED wire \/ \E f \in Frame : Write(n, f)
      BY TxRawRight
    <2> QED BY <1>1, <2>1, WriteFrame DEF TypeOK
  <1>6. laps' \in [Msg -> 0..MaxLaps]
    BY HistoryKept
  <1>7. heap' \in [Buf -> RawType \cup {None}] /\ \A t \in Thread : heap'[t] = heap[t]
    BY <1>2, <1>3, KeptRight
  <1>8. TypeOK'
    BY <1>1, <1>3, <1>4, <1>5, <1>6, <1>7 DEF TypeOK
  <1>9. Types'
    BY <1>1, <1>3, <1>7, <1>8, SaidKept DEF Types
  <1>10. \A e \in Ep : \A c \in ToSet(queue'[e]) : c.msg \in Raw => heap'[c.buf] = heap[c.buf]
    BY <1>2, <1>3, <1>4, CopyParts, KeptRight
  <1>11. ASSUME NEW e \in Apps, held[e] # None, held[e].msg \in Raw PROVE heap'[e] = heap[e]
    <2>1. held'[e] = held[e] /\ held[e].buf = e /\ e \in Buf
      BY <1>3, <1>11, CopyParts, Names
    <2> QED BY <1>2, <1>3, <1>11, <2>1, KeptRight
  <1> QED BY <1>3, <1>4, <1>9, <1>10, <1>11, CopiesShrink

LEMMA TxSyncStep ==
    ASSUME BridgedInv, [Next]_vars, NEW n \in Net, TxSync(n)
    PROVE  Types' /\ CopiesInv'
  <1>1. TypeOK /\ Types /\ Bridge[n] \in Ep /\ queue[Bridge[n]] # <<>>
    BY Names DEF BridgedInv, Types, TxSync
  <1>2. /\ queue' = [queue EXCEPT ![Bridge[n]] = Tail(@)]
        /\ UNCHANGED <<addr, held, inbox, heap, next, said, edits, src, up, wire, cut, rx, tx, laps>>
    BY DEF TxSync, ends, app, link
  <1>3. /\ queue' \in [Ep -> Seq(Copy)] /\ \A f \in Ep : ToSet(queue'[f]) \subseteq ToSet(queue[f])
    BY <1>1, <1>2, QueueTail
  <1>4. valid' \in [SyncMsg -> BOOLEAN]
    BY <1>1 DEF TxSync, TypeOK
  <1>5. TypeOK'
    BY <1>1, <1>2, <1>3, <1>4 DEF TypeOK
  <1>6. Types'
    BY <1>1, <1>2, <1>5, SaidKept DEF Types
  <1> QED BY <1>2, <1>3, <1>6, CopiesShrink

LEMMA WireTail ==
    ASSUME TypeOK, NEW n \in Net, wire[n] # <<>>, wire' = [wire EXCEPT ![n] = Tail(@)]
    PROVE  /\ wire' \in [Net -> Seq({Hello} \cup Frame)] /\ wire'[n] = Tail(wire[n])
           /\ \A o \in Net \ {n} : wire'[o] = wire[o]
           /\ \A o \in Net : ToSet(wire'[o]) \subseteq ToSet(wire[o])
           /\ Head(wire[n]) = wire[n][1] /\ 1 \in DOMAIN wire[n] /\ wire[n][1] \in ToSet(wire[n])
           /\ wire[n][1] \in {Hello} \cup Frame
           /\ \A i \in DOMAIN wire'[n] : i \in Nat \ {0} /\ i + 1 \in DOMAIN wire[n] /\ i + 1 # 1
                                         /\ wire'[n][i] = wire[n][i + 1]
  <1>1. wire \in [Net -> Seq({Hello} \cup Frame)] /\ wire[n] \in Seq({Hello} \cup Frame)
    BY DEF TypeOK
  <1>2. /\ Tail(wire[n]) \in Seq({Hello} \cup Frame) /\ ToSet(Tail(wire[n])) \subseteq ToSet(wire[n])
        /\ Head(wire[n]) = wire[n][1] /\ 1 \in DOMAIN wire[n] /\ Head(wire[n]) \in ToSet(wire[n])
        /\ Head(wire[n]) \in {Hello} \cup Frame
        /\ \A i \in DOMAIN Tail(wire[n]) : i \in Nat \ {0} /\ i + 1 \in DOMAIN wire[n] /\ i + 1 # 1
                                           /\ Tail(wire[n])[i] = wire[n][i + 1]
    BY <1>1, TailParts
  <1>3. wire'[n] = Tail(wire[n]) /\ \A o \in Net \ {n} : wire'[o] = wire[o]
    BY <1>1
  <1> QED BY <1>1, <1>2, <1>3

LEMMA RxHelloStep ==
    ASSUME BridgedInv, [Next]_vars, NEW n \in Net, RxHello(n)
    PROVE  Types' /\ CopiesInv'
  <1>1. /\ TypeOK /\ Types /\ Bridge[n] \in Ep /\ NetOf[Bridge[n]] = n /\ Other(n) \in Net
        /\ addr \in [Ep -> Address] /\ Sid[Other(n)] \in Nat
    BY Names, OtherNet, NetAssumption DEF BridgedInv, Types
  <1>2. UNCHANGED <<queue, held, inbox, heap, next, said, edits, src, valid, up, cut, tx, laps>>
    BY DEF RxHello, ends, app
  <1>3. wire' \in [Net -> Seq({Hello} \cup Frame)]
    BY <1>1, WireTail DEF RxHello
  <1>4. rx' \in [Net -> {"hello", "read", "ended"}]
    BY <1>1 DEF RxHello, TypeOK
  <1>5. addr' = [addr EXCEPT ![Bridge[n]] = [addr[Bridge[n]] EXCEPT !.sid = Sid[Other(n)]]]
    BY DEF RxHello
  <1>6. addr' \in [Ep -> Address]
    BY <1>1, <1>5 DEF Address
  <1>7. ASSUME NEW e \in Ep
        PROVE  addr'[e].eid = Home[e].eid /\ addr'[e].sid \in {Home[e].sid, Sid[Other(NetOf[e])]}
    <2>1. CASE e = Bridge[n]
      BY <1>1, <1>5, <2>1 DEF TypeOK, Address
    <2>2. CASE e # Bridge[n]
      BY <1>1, <1>5, <2>2 DEF TypeOK
    <2> QED BY <2>1, <2>2
  <1>8. TypeOK'
    BY <1>1, <1>2, <1>3, <1>4, <1>7 DEF TypeOK
  <1>9. Types'
    BY <1>1, <1>2, <1>6, <1>8, SaidKept DEF Types
  <1> QED BY <1>2, <1>9, CopiesShrink

LEMMA RxEndStep ==
    ASSUME BridgedInv, [Next]_vars, NEW n \in Net, RxEnd(n)
    PROVE  Types' /\ CopiesInv'
  <1>1. TypeOK /\ Types
    BY DEF BridgedInv, Types
  <1>2. UNCHANGED <<addr, queue, held, inbox, heap, next, said, edits, src, valid, up, wire, cut, tx, laps>>
    BY DEF RxEnd, ends, app
  <1>3. rx' \in [Net -> {"hello", "read", "ended"}]
    BY <1>1 DEF RxEnd, TypeOK
  <1>4. TypeOK'
    BY <1>1, <1>2, <1>3 DEF TypeOK
  <1>5. Types'
    BY <1>1, <1>2, <1>4, SaidKept DEF Types
  <1> QED BY <1>2, <1>5, CopiesShrink

LEMMA HelloNoFrame == Hello \notin Frame
  BY NameAssumption, Names DEF Frame

\* A frame that thread_rx reads.
LEMMA RxFrame ==
    ASSUME BridgedInv, NEW n \in Net, RxMessage(n)
    PROVE  \E f \in Frame :
              /\ f = Head(wire[n]) /\ f = wire[n][1] /\ f \in ToSet(wire[n]) \ {Hello}
              /\ Sent(f.msg) /\ (f.msg # cut[n] => f.bytes = said[f.msg].data)
              /\ said[f.msg] \in RawType /\ f.msg \in Raw /\ <<f.msg, laps[f.msg]>> \in Buf
              /\ \A e \in Ep : \A c \in ToSet(queue[e]) : c.buf # <<f.msg, laps[f.msg]>>
  <1>1. TypeOK /\ Types /\ Greeting(n) /\ WireInv(n) /\ wire[n] # <<>> /\ rx[n] = "read"
        /\ wire' = [wire EXCEPT ![n] = Tail(@)]
    BY DEF BridgedInv, Types, LinkInv, RxMessage
  <1>2. /\ Head(wire[n]) = wire[n][1] /\ 1 \in DOMAIN wire[n] /\ wire[n][1] \in ToSet(wire[n])
        /\ wire[n][1] \in {Hello} \cup Frame
    BY <1>1, WireTail
  <1>3. wire[n][1] # Hello
    BY <1>1, <1>2 DEF Greeting
  <1>4. PICK f \in Frame : f = wire[n][1]
    BY <1>2, <1>3
  <1>5. f.msg \in Raw /\ laps[f.msg] \in 0..MaxLaps
    BY <1>1, Names DEF Frame, TypeOK
  <1>6. /\ Sent(f.msg) /\ (f.msg # cut[n] => f.bytes = said[f.msg].data)
        /\ \A e \in Ep : \A c \in ToSet(queue[e]) : c.buf # <<f.msg, laps[f.msg]>>
    BY <1>1, <1>2, <1>3, <1>4 DEF WireInv
  <1>7. said[f.msg] \in RawType
    BY <1>1, <1>5, <1>6 DEF Types
  <1> QED BY <1>2, <1>3, <1>4, <1>5, <1>6, <1>7, Names

LEMMA RxMessageStep ==
    ASSUME BridgedInv, [Next]_vars, NEW n \in Net, RxMessage(n)
    PROVE  Types' /\ CopiesInv'
  <1>1. /\ TypeOK /\ Types /\ heap \in [Buf -> RawType \cup {None}] /\ wire[n] # <<>>
        /\ queue \in [Ep -> Seq(Copy)]
    BY DEF BridgedInv, Types, TypeOK, RxMessage
  <1>2. PICK f \in Frame :
           /\ f = Head(wire[n]) /\ Sent(f.msg) /\ (f.msg # cut[n] => f.bytes = said[f.msg].data)
           /\ said[f.msg] \in RawType /\ f.msg \in Raw /\ <<f.msg, laps[f.msg]>> \in Buf
           /\ \A e \in Ep : \A c \in ToSet(queue[e]) : c.buf # <<f.msg, laps[f.msg]>>
    BY RxFrame
  <1>3. PICK m \in Raw : m = f.msg
    BY <1>2
  <1>4. PICK b \in Buf : b = <<m, laps[m]>>
    BY <1>2, <1>3
  <1>5. PICK raw \in Payload(f) : heap' = Kept([heap EXCEPT ![b] = Dup(raw)])
    BY <1>2, <1>3, <1>4 DEF RxMessage
  <1>6. /\ Dup(raw) = [len |-> Capacity, data |-> raw.data] /\ Dup(raw) \in RawType
        /\ m # cut[n] => raw.data = said[m].data
    <2>1. said[m].data \in [1..Capacity -> Byte]
      BY <1>2, <1>3 DEF RawType
    <2> QED BY <1>2, <1>3, <1>5, <2>1, PayloadRight, DupRight
  <1>7. PICK h \in [Buf -> RawType \cup {None}] : h = [heap EXCEPT ![b] = Dup(raw)]
    BY <1>1, <1>6
  <1>8. /\ GiveAll(n, m, b) /\ heap' = Kept(h) /\ wire' = [wire EXCEPT ![n] = Tail(@)]
        /\ UNCHANGED <<addr, held, inbox, next, said, edits, src, valid, up, cut, rx, tx, laps>>
    BY <1>2, <1>3, <1>4, <1>5, <1>7 DEF RxMessage, ends
  <1>9. /\ queue' \in [Ep -> Seq(Copy)]
        /\ \A e \in Ep : \A c \in ToSet(queue'[e]) :
              c \in ToSet(queue[e]) \/ (NetOf[e] = n /\ c = [msg |-> m, buf |-> b])
    <2>1. m \in Msg /\ b \in Buf \cup {None}
      BY Names
    <2>2. queue \in [Ep -> Seq(Copy)]
      BY <1>1
    <2>3. GiveAll(n, m, b)
      BY <1>8
    <2>4. /\ queue' \in [Ep -> Seq(Copy)]
          /\ \A e \in Ep : \/ queue'[e] = queue[e]
                           \/ /\ NetOf[e] = n
                              /\ queue'[e] = Append(queue[e], [msg |-> m, buf |-> b])
          /\ \A e \in Ep : \A c \in ToSet(queue'[e]) :
                c \in ToSet(queue[e]) \/ (NetOf[e] = n /\ c = [msg |-> m, buf |-> b])
      BY <2>1, <2>2, <2>3, GiveRight
    <2> QED BY <2>4
  <1>10. wire' \in [Net -> Seq({Hello} \cup Frame)]
    BY <1>1, <1>8, WireTail
  <1>11. b \notin Thread \cup Apps /\ laps[m] \in 0..MaxLaps
    <2>1. laps[m] \in 0..MaxLaps
      BY <1>1, Names DEF TypeOK
    <2> QED BY <1>4, <2>1, Names
  <1>12. /\ heap' \in [Buf -> RawType \cup {None}] /\ \A t \in Thread : heap'[t] = heap[t]
         /\ \A e \in Ep : \A c \in ToSet(queue'[e]) :
               c \in ToSet(queue[e]) /\ c.msg \in Raw => heap'[c.buf] = heap[c.buf]
         /\ \A e \in Apps : held[e] # None /\ held[e].msg \in Raw => heap'[e] = heap[e]
    <2>1. \A x \in Buf : x # b => h[x] = heap[x]
      BY <1>1, <1>7
    <2>2. /\ heap' \in [Buf -> RawType \cup {None}] /\ \A t \in Thread : heap'[t] = h[t]
          /\ \A e \in Ep : \A c \in ToSet(queue'[e]) :
                c \in ToSet(queue[e]) /\ c.msg \in Raw /\ c.buf # b => heap'[c.buf] = heap[c.buf]
          /\ \A e \in Apps : e # b /\ held'[e] = held[e] /\ held[e] # None /\ held[e].msg \in Raw
                => heap'[e] = heap[e]
      BY <1>8, <2>1, KeptHeap
    <2>3. \A t \in Thread : h[t] = heap[t]
      BY <1>11, <2>1, Names
    <2> QED BY <1>2, <1>3, <1>4, <1>8, <1>11, <2>2, <2>3
  <1>13. ASSUME NEW e \in Ep, NEW c \in ToSet(queue'[e]), c \in ToSet(queue[e])
         PROVE  CopyInv(c, NetOf[e])'
    BY <1>12, <1>13, CopyParts, CopyKept
  <1>14. ASSUME NEW e \in Ep, NEW c \in ToSet(queue'[e]),
                NetOf[e] = n, c = [msg |-> m, buf |-> b]
         PROVE  CopyInv(c, NetOf[e])'
    <2>1. c.msg = m /\ c.buf = b /\ m \notin SyncMsg
      BY <1>14 DEF Raw
    <2>2. heap'[b] = [len |-> Capacity, data |-> raw.data] /\ heap'[b] \in RawType
      <3>1. heap'[c.buf] = h[c.buf]
        BY <1>8, <1>14, <2>1, KeptRight
      <3> QED BY <1>1, <1>6, <1>7, <2>1, <3>1
    <2>3. Sent(m)' /\ UNCHANGED <<said, cut, laps>>
      BY <1>1, <1>2, <1>3, <1>8, SentStep
    <2>4. laps'[m] \in 0..laps'[m] /\ b = <<m, laps'[m]>>
      BY <1>4, <1>11, <2>3, BufferAssumption
    <2> QED BY <1>6, <1>14, <2>1, <2>2, <2>3, <2>4 DEF CopyInv, Good, AsSent
  <1>15. ASSUME NEW e \in Apps PROVE HeldInv(e)'
    BY <1>8, <1>12, HeldKept
  <1>16. TypeOK'
    BY <1>1, <1>8, <1>9, <1>10, <1>12 DEF TypeOK
  <1>17. Types'
    BY <1>1, <1>8, <1>12, <1>16, SaidKept DEF Types
  <1> QED BY <1>9, <1>13, <1>14, <1>15, <1>17 DEF CopiesInv, QueueInv

\* What arrives of frames that are whole: all that were before one, and of that
\* one perhaps a part.
LEMMA RemainsRight ==
    ASSUME NEW s \in Seq({Hello} \cup Frame), NEW r \in Remains(s),
           \A i \in DOMAIN s : s[i] # Hello => Len(s[i].bytes) = Capacity
    PROVE  /\ r \in Seq({Hello} \cup Frame)
           /\ \A i \in DOMAIN r :
                 /\ i \in DOMAIN s
                 /\ \/ r[i] = s[i]
                    \/ /\ i = Len(r) /\ s[i] # Hello /\ r[i] \in Frame /\ r[i].msg = s[i].msg
                       /\ Len(r[i].bytes) < r[i].size
  <1>1. CASE \E k \in 0..Len(s) : r = SubSeq(s, 1, k)
    BY <1>1
  <1>2. ASSUME NEW k \in DOMAIN s, s[k] # Hello, NEW l \in 0..Capacity - 1,
               r = Append(SubSeq(s, 1, k - 1), [s[k] EXCEPT !.bytes = SubSeq(@, 1, l)])
        PROVE  /\ r \in Seq({Hello} \cup Frame)
               /\ \A i \in DOMAIN r :
                     /\ i \in DOMAIN s
                     /\ \/ r[i] = s[i]
                        \/ /\ i = Len(r) /\ s[i] # Hello /\ r[i] \in Frame /\ r[i].msg = s[i].msg
                           /\ Len(r[i].bytes) < r[i].size
    <2>1. PICK f \in Frame : f = s[k]
      BY <1>2
    <2>2. PICK v \in Seq(Byte) : v = SubSeq(f.bytes, 1, l) /\ Len(v) = l
      <3>1. PICK w \in Seq(Byte) : w = f.bytes /\ Len(w) = Capacity
        BY <1>2, <2>1 DEF Frame
      <3>2. \A j \in 1..l : w[j] \in Byte
        BY <3>1, BufferAssumption
      <3>3. SubSeq(w, 1, l) \in Seq(Byte) /\ Len(SubSeq(w, 1, l)) = l
        BY <3>1, <3>2, BufferAssumption
      <3> QED BY <3>1, <3>3
    <2>3. PICK g \in Frame : g = [f EXCEPT !.bytes = v]
      BY DEF Frame
    <2>4. g.msg = f.msg /\ Len(g.bytes) < g.size
      BY <2>2, <2>3, BufferAssumption DEF Frame
    <2>5. /\ SubSeq(s, 1, k - 1) \in Seq({Hello} \cup Frame) /\ Len(SubSeq(s, 1, k - 1)) = k - 1
          /\ \A i \in 1..k - 1 : SubSeq(s, 1, k - 1)[i] = s[i] /\ i \in DOMAIN s
          /\ k \in Nat \ {0}
      BY <1>2
    <2>6. r = Append(SubSeq(s, 1, k - 1), g)
      BY <1>2, <2>1, <2>2, <2>3
    <2>7. /\ r \in Seq({Hello} \cup Frame) /\ DOMAIN r = 1..k /\ Len(r) = k
          /\ \A i \in 1..k - 1 : r[i] = s[i] /\ i \in DOMAIN s
          /\ r[k] = g
      BY <2>5, <2>6, AppendParts
    <2>8. ASSUME NEW i \in DOMAIN r
          PROVE  /\ i \in DOMAIN s
                 /\ \/ r[i] = s[i]
                    \/ /\ i = Len(r) /\ s[i] # Hello /\ r[i] \in Frame /\ r[i].msg = s[i].msg
                       /\ Len(r[i].bytes) < r[i].size
      <3>1. i \in 1..k - 1 \/ i = k
        BY <2>5, <2>7
      <3> QED BY <1>2, <2>1, <2>4, <2>7, <3>1
    <2> QED BY <2>7, <2>8
  <1>3. \/ \E k \in 0..Len(s) : r = SubSeq(s, 1, k)
        \/ \E k \in DOMAIN s, l \in 0..Capacity - 1 : s[k] # Hello /\ r = CutAt(s, k, l)
    <2> DEFINE A == {SubSeq(s, 1, k) : k \in 0..Len(s)}
               K == {j \in DOMAIN s : s[j] # Hello}
               B == {CutAt(s, k, l) : k \in K, l \in 0..Capacity - 1}
    <2>1. Remains(s) = A \cup B
      BY DEF Remains
    <2>2. \A x \in A : \E k \in 0..Len(s) : x = SubSeq(s, 1, k)
      OBVIOUS
    <2>3. \A k \in K : k \in DOMAIN s /\ s[k] # Hello
      OBVIOUS
    <2> HIDE DEF K
    <2>4. \A x \in B : \E k \in K, l \in 0..Capacity - 1 : x = CutAt(s, k, l)
      OBVIOUS
    <2> HIDE DEF A, B
    <2> QED BY <2>1, <2>2, <2>3, <2>4
  <1>4. \A k \in DOMAIN s, l \in 0..Capacity - 1 :
           CutAt(s, k, l) = Append(SubSeq(s, 1, k - 1), [s[k] EXCEPT !.bytes = SubSeq(@, 1, l)])
    BY DEF CutAt
  <1> QED BY <1>1, <1>2, <1>3, <1>4

\* What Break leaves of the frames: of one it cut, cut tells.
LEMMA BreakWire ==
    ASSUME BridgedInv, Break
    PROVE  /\ wire' \in [Net -> Seq({Hello} \cup Frame)] /\ cut' \in [Net -> Raw \cup {None}]
           /\ \A n \in Net : \A i \in DOMAIN wire'[n] :
                 /\ i \in DOMAIN wire[n]
                 /\ \/ wire'[n][i] = wire[n][i]
                    \/ /\ wire[n][i] # Hello /\ wire'[n][i] \in Frame
                       /\ wire'[n][i].msg = wire[n][i].msg /\ wire'[n][i].msg = cut'[n]
  <1>1. TypeOK /\ Types /\ up /\ \A n \in Net : Greeting(n) /\ WireInv(n)
    BY DEF BridgedInv, Types, LinkInv, Break
  <1>2. wire' = [n \in Net |-> wire'[n]]
    <2>1. PICK L, R : wire' = [n \in Net |-> IF n = CHOOSE o \in Net : TRUE THEN L ELSE R]
      BY DEF Break
    <2> QED BY <2>1
  <1>3. ASSUME NEW n \in Net
        PROVE  /\ wire'[n] \in Seq({Hello} \cup Frame) /\ cut'[n] \in Raw \cup {None}
               /\ \A i \in DOMAIN wire'[n] :
                     /\ i \in DOMAIN wire[n]
                     /\ \/ wire'[n][i] = wire[n][i]
                        \/ /\ wire[n][i] # Hello /\ wire'[n][i] \in Frame
                           /\ wire'[n][i].msg = wire[n][i].msg /\ wire'[n][i].msg = cut'[n]
    <2>1. PICK s \in Seq({Hello} \cup Frame) : s = wire[n]
      BY <1>1 DEF TypeOK
    <2>2. PICK r : r = wire'[n]
      OBVIOUS
    <2>3. r \in Remains(s)
      BY <2>1, <2>2 DEF Break
    <2>4. \A i \in DOMAIN s : s[i] # Hello => Len(s[i].bytes) = Capacity
      <3>1. ASSUME NEW i \in DOMAIN s, s[i] # Hello PROVE Len(s[i].bytes) = Capacity
        <4>1. PICK f \in Frame : f = s[i]
          BY <3>1
        <4>2. f \in ToSet(s) \ {Hello} /\ cut[n] = None /\ f.msg \in Raw /\ f.msg # None
          BY <1>1, <3>1, <4>1, Names DEF Greeting, Frame, ToSet
        <4>3. f.bytes = said[f.msg].data /\ said[f.msg] \in RawType
          BY <1>1, <2>1, <4>2 DEF WireInv, Types
        <4> QED BY <4>1, <4>3, BufferAssumption DEF RawType
      <3> QED BY <3>1
    <2>5. /\ r \in Seq({Hello} \cup Frame)
          /\ \A i \in DOMAIN r :
                /\ i \in DOMAIN s
                /\ \/ r[i] = s[i]
                   \/ /\ i = Len(r) /\ s[i] # Hello /\ r[i] \in Frame /\ r[i].msg = s[i].msg
                      /\ Len(r[i].bytes) < r[i].size
      BY <2>3, <2>4, RemainsRight
    <2>6. cut'[n] = IF r # <<>> /\ Last(r) # Hello /\ Len(Last(r).bytes) < Last(r).size
                    THEN Last(r).msg ELSE None
      BY <2>2 DEF Break
    <2>7. ASSUME NEW i \in DOMAIN r, i = Len(r), r[i] \in Frame, Len(r[i].bytes) < r[i].size
          PROVE  r[i].msg = cut'[n]
      BY <2>6, <2>7, HelloNoFrame DEF Last
    <2>8. r # <<>> => Last(r) \in {Hello} \cup Frame
      BY <2>5 DEF Last
    <2>9. cut'[n] \in Raw \cup {None}
      BY <2>6, <2>8 DEF Frame
    <2> QED BY <2>1, <2>2, <2>5, <2>7, <2>9
  <1>4. cut' = [n \in Net |-> cut'[n]]
    BY DEF Break
  <1>5. wire' \in [Net -> Seq({Hello} \cup Frame)]
    BY <1>2, <1>3
  <1>6. cut' \in [Net -> Raw \cup {None}]
    BY <1>3, <1>4
  <1> QED BY <1>3, <1>5, <1>6

LEMMA BreakStep ==
    ASSUME BridgedInv, [Next]_vars, Break
    PROVE  Types' /\ CopiesInv'
  <1>1. TypeOK /\ Types
    BY DEF BridgedInv, Types
  <1>2. /\ UNCHANGED <<addr, queue, held, inbox, heap, next, said, edits, src, valid, rx, tx, laps>>
        /\ up' = FALSE
    BY DEF Break, ends, app
  <1>3. TypeOK'
    BY <1>1, <1>2, BreakWire DEF TypeOK
  <1>4. Types'
    BY <1>1, <1>2, <1>3, SaidKept DEF Types
  <1> QED BY <1>2, <1>4, CopiesShrink

----------------------------------------------------------------------------
(* The connection *)

LEMMA FrameParts ==
    ASSUME BridgedInv, NEW n \in Net
    PROVE  /\ wire[n] \in Seq({Hello} \cup Frame) /\ Greeting(n)
           /\ \A f \in ToSet(wire[n]) \ {Hello} :
                 /\ f \in Frame /\ f.msg \in Raw /\ f.msg \in Msg /\ Sent(f.msg)
                 /\ f.msg # cut[n] => f.bytes = said[f.msg].data
                 /\ laps[f.msg] \in 0..MaxLaps /\ <<f.msg, laps[f.msg]>> \in Buf
                 /\ \A e \in Ep : \A c \in ToSet(queue[e]) : c.buf # <<f.msg, laps[f.msg]>>
  <1>1. TypeOK /\ Greeting(n) /\ WireInv(n)
    BY DEF BridgedInv, Types, LinkInv
  <1>2. wire[n] \in Seq({Hello} \cup Frame)
    BY <1>1 DEF TypeOK
  <1>3. ASSUME NEW f \in ToSet(wire[n]) \ {Hello}
        PROVE  f \in Frame /\ f.msg \in Raw /\ f.msg \in Msg /\ laps[f.msg] \in 0..MaxLaps
    <2>1. f \in Frame
      BY <1>2, <1>3 DEF ToSet
    <2>2. laps \in [Msg -> 0..MaxLaps]
      BY <1>1 DEF TypeOK
    <2> QED BY <2>1, <2>2, Names DEF Frame
  <1> QED BY <1>1, <1>2, <1>3, Names DEF WireInv

\* Frames that were there before a step, if nothing takes the buffer of one.
LEMMA FrameKept ==
    ASSUME BridgedInv, [Next]_vars, NEW n \in Net, NEW f \in ToSet(wire[n]) \ {Hello},
           cut'[n] = cut[n] \/ cut[n] = None, laps'[f.msg] = laps[f.msg],
           \A e \in Ep : \A c \in ToSet(queue'[e]) :
              c \in ToSet(queue[e]) \/ c.buf # <<f.msg, laps[f.msg]>>
    PROVE  /\ Sent(f.msg)'
           /\ f.msg # cut'[n] => f.bytes = said'[f.msg].data
           /\ \A e \in Ep : \A c \in ToSet(queue'[e]) : c.buf # <<f.msg, laps'[f.msg]>>
  <1>1. /\ f.msg \in Raw /\ f.msg \in Msg /\ Sent(f.msg) /\ f.msg # None
        /\ f.msg # cut[n] => f.bytes = said[f.msg].data
        /\ \A e \in Ep : \A c \in ToSet(queue[e]) : c.buf # <<f.msg, laps[f.msg]>>
    BY FrameParts, Names
  <1>2. TypeOK
    BY DEF BridgedInv, Types
  <1>3. said'[f.msg] = said[f.msg]
    BY <1>1, HistoryKept
  <1> QED BY <1>1, <1>2, <1>3, SentStep

\* Steps that add no frame to a net's.
LEMMA WireKept ==
    ASSUME BridgedInv, [Next]_vars, NEW n \in Net, cut'[n] = cut[n],
           ToSet(wire'[n]) \subseteq ToSet(wire[n]) \cup {Hello},
           \A f \in ToSet(wire'[n]) \ {Hello} :
              /\ laps'[f.msg] = laps[f.msg]
              /\ \A e \in Ep : \A c \in ToSet(queue'[e]) :
                    c \in ToSet(queue[e]) \/ c.buf # <<f.msg, laps[f.msg]>>
    PROVE  WireInv(n)'
  <1>1. ASSUME NEW f \in ToSet(wire'[n]) \ {Hello}
        PROVE  /\ Sent(f.msg)'
               /\ f.msg # cut'[n] => f.bytes = said'[f.msg].data
               /\ \A e \in Ep : \A c \in ToSet(queue'[e]) : c.buf # <<f.msg, laps'[f.msg]>>
    BY <1>1, FrameKept
  <1> QED BY <1>1 DEF WireInv

LEMMA GreetingKept ==
    ASSUME BridgedInv, NEW n \in Net, tx'[Other(n)] = tx[Other(n)], rx'[n] = rx[n],
           UNCHANGED up, cut'[n] = cut[n], wire'[n] = wire[n]
    PROVE  Greeting(n)'
  <1>1. Greeting(n)
    BY FrameParts
  <1> QED BY <1>1 DEF Greeting

\* Steps that do not touch the connection and give no copies.
LEMMA LinkKept ==
    ASSUME BridgedInv, [Next]_vars, UNCHANGED <<up, wire, cut, rx, tx, laps>>,
           \A e \in Ep : ToSet(queue'[e]) \subseteq ToSet(queue[e])
    PROVE  LinkInv'
  <1>1. ASSUME NEW n \in Net PROVE Greeting(n)' /\ WireInv(n)'
    BY GreetingKept, WireKept
  <1> QED BY <1>1 DEF LinkInv

LEMMA SendLink ==
    ASSUME BridgedInv, [Next]_vars, NEW t \in Thread, Send(t)
    PROVE  LinkInv'
  <1>1. TypeOK /\ queue \in [Ep -> Seq(Copy)]
    BY DEF BridgedInv, Types, TypeOK
  <1>2. PICK m \in Msg : m = Script[t][next[t]] /\ ~Sent(m)
    BY <1>1, SendsNew DEF Send
  <1>3. PICK n \in Net : n = NetOf[From[m]]
    BY MessageAssumption, NetAssumption
  <1>4. PICK b \in Buf \cup {None} : b = IF m \in Raw THEN <<m, 0>> ELSE None
    <2>1. m \in Raw => <<m, 0>> \in Buf
      BY BufferAssumption, Names
    <2> QED BY <2>1
  <1>5. GiveAll(n, m, b) /\ UNCHANGED <<up, wire, cut, rx, tx, laps>>
    BY <1>2, <1>3, <1>4 DEF Send, NetSend, link
  <1>6. /\ queue' \in [Ep -> Seq(Copy)]
        /\ \A e \in Ep : \A c \in ToSet(queue'[e]) :
              c \in ToSet(queue[e]) \/ (NetOf[e] = n /\ c = [msg |-> m, buf |-> b])
    <2>1. queue \in [Ep -> Seq(Copy)]
      BY <1>1
    <2>2. GiveAll(n, m, b)
      BY <1>5
    <2> QED BY <2>1, <2>2, GiveRight
  <1>7. ASSUME NEW o \in Net, NEW f \in ToSet(wire'[o]) \ {Hello} PROVE b # <<f.msg, laps[f.msg]>>
    <2>1. f \in ToSet(wire[o]) \ {Hello}
      BY <1>5, <1>7
    <2>2. Sent(f.msg) /\ <<f.msg, laps[f.msg]>> \in Buf
      BY <2>1, FrameParts
    <2>3. f.msg # m /\ <<f.msg, laps[f.msg]>> # None
      BY <1>2, <2>2, Names
    <2> QED BY <1>4, <2>3
  <1>8. ASSUME NEW o \in Net PROVE Greeting(o)' /\ WireInv(o)'
    <2>1. Greeting(o)'
      BY <1>5, GreetingKept
    <2>2. \A f \in ToSet(wire'[o]) \ {Hello} : \A e \in Ep : \A c \in ToSet(queue'[e]) :
             c \in ToSet(queue[e]) \/ c.buf # <<f.msg, laps[f.msg]>>
      <3>1. [msg |-> m, buf |-> b].buf = b
        OBVIOUS
      <3> QED BY <1>6, <1>7, <3>1
    <2> QED BY <1>5, <2>1, <2>2, WireKept
  <1> QED BY <1>8 DEF LinkInv

LEMMA TxHelloLink ==
    ASSUME BridgedInv, [Next]_vars, NEW n \in Net, TxHello(n)
    PROVE  LinkInv'
  <1>1. /\ TypeOK /\ tx \in [Net -> {"hello", "recv"}] /\ Other(n) \in Net /\ Other(n) # n
        /\ Other(Other(n)) = n /\ \A o \in Net : o = n \/ o = Other(n)
    BY OtherNet DEF BridgedInv, Types, TypeOK
  <1>2. /\ UNCHANGED <<queue, up, cut, rx, laps>> /\ tx[n] = "hello"
        /\ tx' = [tx EXCEPT ![n] = "recv"] /\ Write(n, Hello)
    BY DEF TxHello
  <1>3. /\ wire'[n] = wire[n]
        /\ \/ wire'[Other(n)] = wire[Other(n)]
           \/ up /\ wire'[Other(n)] = Append(wire[Other(n)], Hello)
    BY <1>1, <1>2, WriteFrame
  <1>4. Greeting(n)' /\ WireInv(n)'
    <2>1. tx'[Other(n)] = tx[Other(n)] /\ rx'[n] = rx[n] /\ cut'[n] = cut[n] /\ wire'[n] = wire[n]
      BY <1>1, <1>2, <1>3
    <2>2. Greeting(n)'
      BY <1>2, <2>1, GreetingKept
    <2> QED BY <1>2, <2>1, <2>2, WireKept
  <1>5. PICK o \in Net : o = Other(n) /\ o # n /\ Other(o) = n
    BY <1>1
  <1>6. /\ wire[o] = <<>> /\ rx[o] # "read" /\ (rx[o] = "ended" => ~up) /\ (up => cut[o] = None)
        /\ rx[o] \in {"hello", "read", "ended"}
    BY <1>1, <1>2, <1>5, FrameParts DEF Greeting, TypeOK
  <1>7. wire'[o] = <<>> \/ (up /\ wire'[o] = <<Hello>>)
    BY <1>3, <1>5, <1>6
  <1>8. Greeting(o)'
    <2>1. tx'[Other(o)] = "recv"
      BY <1>1, <1>2, <1>5
    <2>2. ASSUME NEW i \in DOMAIN wire'[o] PROVE i = 1 /\ rx'[o] = "hello"
      BY <1>2, <1>6, <1>7, <2>2
    <2> QED BY <1>2, <1>6, <2>1, <2>2 DEF Greeting
  <1>9. ToSet(wire'[o]) \subseteq {Hello}
    BY <1>7 DEF ToSet
  <1>10. WireInv(o)'
    BY <1>9 DEF WireInv
  <1> QED BY <1>1, <1>4, <1>5, <1>8, <1>10 DEF LinkInv

LEMMA TxRawLink ==
    ASSUME BridgedInv, [Next]_vars, NEW n \in Net, TxRaw(n)
    PROVE  LinkInv'
  <1>1. /\ TypeOK /\ Other(n) \in Net /\ Other(n) # n /\ Bridge[n] \in Ep
        /\ Other(Other(n)) = n /\ \A o \in Net : o = n \/ o = Other(n)
        /\ queue[Bridge[n]] # <<>> /\ queue[Bridge[n]] \in Seq(Copy)
        /\ laps \in [Msg -> 0..MaxLaps]
    BY OtherNet, Names DEF BridgedInv, Types, TypeOK, TxRaw
  <1>2. /\ UNCHANGED <<up, cut, rx, tx>> /\ tx[n] = "recv"
        /\ queue' = [queue EXCEPT ![Bridge[n]] = Tail(@)]
    BY DEF TxRaw
  <1>3. \A e \in Ep : ToSet(queue'[e]) \subseteq ToSet(queue[e])
    BY <1>1, <1>2, QueueTail
  <1>4. PICK c \in Copy :
           /\ c = queue[Bridge[n]][1] /\ c \in ToSet(queue[Bridge[n]]) /\ c.msg \in Raw
           /\ Sent(c.msg) /\ heap[c.buf] \in RawType /\ TxFrame(c) \in Frame
           /\ c.msg # cut[n] => heap[c.buf] = AsSent(c.msg)
           /\ \/ UNCHANGED <<wire, laps>>
              \/ /\ Write(n, TxFrame(c)) /\ laps[c.msg] < MaxLaps
                 /\ laps' = [laps EXCEPT ![c.msg] = @ + 1]
    BY TxRawRight
  <1>5. \A o \in Net : \A f \in ToSet(wire[o]) \ {Hello} : f.msg \in Msg /\ f.msg # c.msg
    <2>1. OneOrOther /\ 1 \in DOMAIN queue[Bridge[n]]
      BY <1>1 DEF BridgedInv, TokenInv
    <2>2. ASSUME NEW o \in Net, NEW f \in ToSet(wire[o]) \ {Hello} PROVE f.msg # c.msg
      <3>1. PICK i \in DOMAIN wire[o] : wire[o][i] = f
        BY <2>2 DEF ToSet
      <3> QED BY <1>4, <2>1, <2>2, <3>1 DEF OneOrOther, Waiting
    <2> QED BY <2>2, FrameParts
  <1>6. \A o \in Net : \A f \in ToSet(wire[o]) \ {Hello} : laps'[f.msg] = laps[f.msg]
    BY <1>1, <1>4, <1>5
  <1>7. CASE UNCHANGED wire
    <2>1. ASSUME NEW o \in Net PROVE Greeting(o)' /\ WireInv(o)'
      BY <1>2, <1>3, <1>6, <1>7, GreetingKept, WireKept
    <2> QED BY <2>1 DEF LinkInv
  <1>8. CASE Write(n, TxFrame(c)) /\ laps[c.msg] < MaxLaps /\ laps' = [laps EXCEPT ![c.msg] = @ + 1]
    <2>1. PICK f \in Frame : f = TxFrame(c)
      BY <1>4
    <2>2. Write(n, f)
      BY <1>8, <2>1
    <2>3. /\ wire'[n] = wire[n]
          /\ wire'[Other(n)] = wire[Other(n)] \/ (up /\ wire'[Other(n)] = Append(wire[Other(n)], f))
      BY <1>1, <2>2, WriteFrame
    <2>4. ASSUME NEW o \in Net, wire'[o] = wire[o] PROVE Greeting(o)' /\ WireInv(o)'
      BY <1>2, <1>3, <1>6, <2>4, GreetingKept, WireKept
    <2>5. ASSUME NEW o \in Net, o = Other(n), up, wire'[o] = Append(wire[o], f)
          PROVE  Greeting(o)' /\ WireInv(o)'
      <3>1. /\ wire[o] \in Seq({Hello} \cup Frame) /\ Greeting(o) /\ f # Hello /\ f \in {Hello} \cup Frame
            /\ cut[n] = None /\ tx[Other(o)] = "recv"
        BY <1>1, <1>2, <2>5, FrameParts, HelloNoFrame DEF Greeting
      <3>2. /\ DOMAIN wire[o] = 1..Len(wire[o]) /\ DOMAIN wire'[o] = 1..Len(wire[o]) + 1
            /\ \A i \in 1..Len(wire[o]) : wire'[o][i] = wire[o][i]
            /\ wire'[o][Len(wire[o]) + 1] = f /\ ToSet(wire'[o]) = ToSet(wire[o]) \cup {f}
        BY <2>5, <3>1, AppendParts
      <3>3. ASSUME NEW i \in DOMAIN wire'[o], wire'[o][i] = Hello PROVE i \in DOMAIN wire[o] /\ wire[o][i] = Hello
        BY <3>1, <3>2, <3>3
      <3>4. Greeting(o)'
        BY <1>2, <2>5, <3>1, <3>3 DEF Greeting
      <3>5. ASSUME NEW g \in ToSet(wire[o]) \ {Hello}
            PROVE  /\ Sent(g.msg)'
                   /\ g.msg # cut'[o] => g.bytes = said'[g.msg].data
                   /\ \A e \in Ep : \A x \in ToSet(queue'[e]) : x.buf # <<g.msg, laps'[g.msg]>>
        BY <1>2, <1>3, <1>6, <3>5, FrameKept
      <3>6. f.msg = c.msg /\ f.bytes = heap[c.buf].data /\ c.msg \in Msg /\ c.msg # None
        BY <1>4, <2>1, Names DEF TxFrame
      <3>7. Sent(f.msg)' /\ f.bytes = said'[f.msg].data
        BY <1>1, <1>4, <3>1, <3>6, SentStep, HistoryKept DEF AsSent
      <3>8. ASSUME NEW e \in Ep, NEW x \in ToSet(queue'[e]) PROVE x.buf # <<f.msg, laps'[f.msg]>>
        <4>1. /\ x.msg \in SyncMsg => x.buf = None
              /\ x.msg \in Raw => \E k \in 0..laps[x.msg] : x.buf = <<x.msg, k>>
              /\ x.msg \in Msg
          BY <1>3, <3>8, CopyParts DEF CopyInv
        <4>2. /\ laps'[f.msg] = laps[f.msg] + 1 /\ laps[f.msg] \in 0..MaxLaps
              /\ laps'[f.msg] \in 0..MaxLaps /\ f.msg \in Raw
          BY <1>1, <1>4, <1>8, <3>6, BufferAssumption
        <4>3. CASE x.msg \in Raw
          <5>1. PICK k \in 0..laps[x.msg] : x.buf = <<x.msg, k>>
            BY <4>1, <4>3
          <5>2. x.msg = f.msg => k # laps'[f.msg]
            BY <4>2, <5>1, BufferAssumption
          <5> QED BY <5>1, <5>2
        <4>4. CASE x.msg \in SyncMsg
          <5>1. <<f.msg, laps'[f.msg]>> \in Buf
            BY <4>2, Names
          <5> QED BY <4>1, <4>4, <5>1, Names
        <4> QED BY <4>1, <4>3, <4>4 DEF Raw
      <3> QED BY <3>2, <3>4, <3>5, <3>7, <3>8 DEF WireInv
    <2> QED BY <1>1, <2>3, <2>4, <2>5 DEF LinkInv
  <1> QED BY <1>4, <1>7, <1>8

LEMMA RxHelloLink ==
    ASSUME BridgedInv, [Next]_vars, NEW n \in Net, RxHello(n)
    PROVE  LinkInv'
  <1>1. /\ TypeOK /\ UNCHANGED <<queue, up, cut, tx, laps>> /\ wire[n] # <<>>
        /\ rx[n] = "hello" /\ rx' = [rx EXCEPT ![n] = "read"]
        /\ wire' = [wire EXCEPT ![n] = Tail(@)] /\ rx \in [Net -> {"hello", "read", "ended"}]
    BY DEF RxHello, BridgedInv, Types, TypeOK
  <1>2. /\ wire'[n] = Tail(wire[n]) /\ \A o \in Net \ {n} : wire'[o] = wire[o]
        /\ \A o \in Net : ToSet(wire'[o]) \subseteq ToSet(wire[o])
    BY <1>1, WireTail
  <1>3. Greeting(n)'
    <2>1. Greeting(n) /\ wire[n] \in Seq({Hello} \cup Frame) /\ rx'[n] = "read"
      BY <1>1, FrameParts
    <2>2. \A i \in DOMAIN wire'[n] : i + 1 \in DOMAIN wire[n] /\ i + 1 # 1 /\ wire'[n][i] = wire[n][i + 1]
      BY <1>1, WireTail
    <2> QED BY <1>1, <2>1, <2>2 DEF Greeting
  <1>4. ASSUME NEW o \in Net PROVE Greeting(o)' /\ WireInv(o)'
    <2>1. o # n => Greeting(o)'
      BY <1>1, <1>2, GreetingKept
    <2> QED BY <1>1, <1>2, <1>3, <2>1, WireKept
  <1> QED BY <1>4 DEF LinkInv

LEMMA RxEndLink ==
    ASSUME BridgedInv, [Next]_vars, NEW n \in Net, RxEnd(n)
    PROVE  LinkInv'
  <1>1. /\ UNCHANGED <<queue, up, wire, cut, tx, laps>> /\ ~up /\ wire[n] = <<>>
        /\ rx' = [rx EXCEPT ![n] = "ended"] /\ rx \in [Net -> {"hello", "read", "ended"}]
    BY DEF RxEnd, BridgedInv, Types, TypeOK
  <1>2. ASSUME NEW o \in Net PROVE Greeting(o)' /\ WireInv(o)'
    <2>1. o # n => Greeting(o)'
      BY <1>1, GreetingKept
    <2>2. Greeting(n)'
      BY <1>1, FrameParts DEF Greeting
    <2> QED BY <1>1, <2>1, <2>2, WireKept
  <1> QED BY <1>2 DEF LinkInv

LEMMA RxMessageLink ==
    ASSUME BridgedInv, [Next]_vars, NEW n \in Net, RxMessage(n)
    PROVE  LinkInv'
  <1>1. /\ TypeOK /\ UNCHANGED <<up, cut, rx, tx, laps>> /\ wire[n] # <<>> /\ rx[n] = "read"
        /\ wire' = [wire EXCEPT ![n] = Tail(@)] /\ OneFrame
    BY DEF RxMessage, BridgedInv, Types, TokenInv
  <1>2. PICK f \in Frame :
           /\ f = Head(wire[n]) /\ f = wire[n][1] /\ f \in ToSet(wire[n]) \ {Hello}
           /\ f.msg \in Raw /\ <<f.msg, laps[f.msg]>> \in Buf
    BY RxFrame
  <1>3. PICK m \in Raw : m = f.msg /\ m \in Msg
    BY <1>2, Names
  <1>4. PICK b \in Buf \cup {None} : b = <<m, laps[m]>>
    BY <1>2, <1>3
  <1>5. GiveAll(n, m, b)
    BY <1>2, <1>3, <1>4 DEF RxMessage
  <1>6. /\ queue' \in [Ep -> Seq(Copy)]
        /\ \A e \in Ep : \A c \in ToSet(queue'[e]) :
              c \in ToSet(queue[e]) \/ (NetOf[e] = n /\ c = [msg |-> m, buf |-> b])
    <2>1. queue \in [Ep -> Seq(Copy)]
      BY <1>1 DEF TypeOK
    <2>2. GiveAll(n, m, b) /\ m \in Msg
      BY <1>3, <1>5
    <2> QED BY <2>1, <2>2, GiveRight
  <1>7. /\ wire'[n] = Tail(wire[n]) /\ \A o \in Net \ {n} : wire'[o] = wire[o]
        /\ \A o \in Net : ToSet(wire'[o]) \subseteq ToSet(wire[o])
        /\ wire[n] \in Seq({Hello} \cup Frame)
    BY <1>1, WireTail, FrameParts
  <1>8. ASSUME NEW o \in Net, NEW g \in ToSet(wire'[o]) \ {Hello} PROVE g.msg # m
    <2>1. PICK i \in DOMAIN wire'[o] : g = wire'[o][i]
      BY <1>8 DEF ToSet
    <2>2. 1 \in DOMAIN wire[n] /\ wire[n][1] # Hello /\ wire[n][1].msg = m
      BY <1>1, <1>2, <1>3, <1>7, TailParts
    <2>3. CASE o = n
      <3>1. i + 1 \in DOMAIN wire[n] /\ i + 1 # 1 /\ g = wire[n][i + 1]
        BY <1>1, <2>1, <2>3, WireTail
      <3> QED BY <1>1, <1>8, <2>2, <3>1 DEF OneFrame
    <2>4. CASE o # n
      BY <1>1, <1>7, <1>8, <2>1, <2>2, <2>4 DEF OneFrame
    <2> QED BY <2>3, <2>4
  <1>9. Greeting(n)'
    <2>1. Greeting(n)
      BY FrameParts
    <2>2. \A i \in DOMAIN wire'[n] : i + 1 \in DOMAIN wire[n] /\ wire'[n][i] = wire[n][i + 1]
      BY <1>1, WireTail
    <2>3. \A i \in DOMAIN wire'[n] : wire'[n][i] # Hello
      BY <1>1, <2>1, <2>2 DEF Greeting
    <2> QED BY <1>1, <2>1, <2>3 DEF Greeting
  <1>10. ASSUME NEW o \in Net PROVE Greeting(o)' /\ WireInv(o)'
    <2>1. o # n => Greeting(o)'
      BY <1>1, <1>7, GreetingKept
    <2>2. \A g \in ToSet(wire'[o]) \ {Hello} : \A e \in Ep : \A c \in ToSet(queue'[e]) :
             c \in ToSet(queue[e]) \/ c.buf # <<g.msg, laps[g.msg]>>
      <3>1. [msg |-> m, buf |-> b].buf = <<m, laps[m]>>
        BY <1>4
      <3> QED BY <1>6, <1>8, <3>1
    <2> QED BY <1>1, <1>7, <1>9, <2>1, <2>2, WireKept
  <1> QED BY <1>10 DEF LinkInv

LEMMA BreakLink ==
    ASSUME BridgedInv, [Next]_vars, Break
    PROVE  LinkInv'
  <1>1. UNCHANGED <<queue, rx, tx, laps>> /\ up /\ up' = FALSE
    BY DEF Break
  <1>2. ASSUME NEW n \in Net PROVE Greeting(n)' /\ WireInv(n)'
    <2>1. /\ wire[n] \in Seq({Hello} \cup Frame) /\ Greeting(n) /\ cut[n] = None
          /\ wire'[n] \in Seq({Hello} \cup Frame)
      BY <1>1, FrameParts, BreakWire DEF Greeting
    <2>2. \A i \in DOMAIN wire'[n] :
             /\ i \in DOMAIN wire[n]
             /\ \/ wire'[n][i] = wire[n][i]
                \/ /\ wire[n][i] # Hello /\ wire'[n][i] \in Frame
                   /\ wire'[n][i].msg = wire[n][i].msg /\ wire'[n][i].msg = cut'[n]
      BY BreakWire
    <2>3. Greeting(n)'
      <3>1. ASSUME wire[n] = <<>> PROVE wire'[n] = <<>>
        <4>1. PICK s \in Seq({Hello} \cup Frame) : s = wire'[n]
          BY <2>1
        <4>2. DOMAIN s = 1..Len(s) /\ Len(s) \in Nat /\ DOMAIN s = {}
          BY <2>2, <3>1, <4>1
        <4>3. Len(s) = 0
          BY <4>2
        <4> QED BY <4>1, <4>3
      <3> QED BY <1>1, <2>1, <2>2, <3>1, HelloNoFrame DEF Greeting
    <2>4. ASSUME NEW f \in ToSet(wire'[n]) \ {Hello}
          PROVE  /\ Sent(f.msg)'
                 /\ f.msg # cut'[n] => f.bytes = said'[f.msg].data
                 /\ \A e \in Ep : \A c \in ToSet(queue'[e]) : c.buf # <<f.msg, laps'[f.msg]>>
      <3>1. PICK i \in DOMAIN wire'[n] : f = wire'[n][i]
        BY <2>4 DEF ToSet
      <3>2. PICK g : g = wire[n][i]
        OBVIOUS
      <3>3. g \in ToSet(wire[n]) \ {Hello} /\ g.msg = f.msg /\ (f = g \/ f.msg = cut'[n])
        BY <2>2, <2>4, <3>1, <3>2 DEF ToSet
      <3>4. /\ Sent(g.msg)'
            /\ \A e \in Ep : \A c \in ToSet(queue'[e]) : c.buf # <<g.msg, laps'[g.msg]>>
        BY <1>1, <2>1, <3>3, FrameKept
      <3>5. g.bytes = said'[g.msg].data
        <4>1. g.msg \in Msg /\ g.msg # None /\ Sent(g.msg) /\ (g.msg # cut[n] => g.bytes = said[g.msg].data)
          BY <3>3, FrameParts, Names
        <4> QED BY <2>1, <4>1, HistoryKept
      <3> QED BY <1>1, <3>3, <3>4, <3>5
    <2> QED BY <2>3, <2>4 DEF WireInv
  <1> QED BY <1>2 DEF LinkInv

----------------------------------------------------------------------------
(* Where a raw message is *)

\* Of the frames, or of the copies in the queues of the bridges, the first one of a
\* net may go, and then the others move by d.
WireFrom(d) ==
    \A n \in Net : \A i \in DOMAIN wire'[n] : wire'[n][i] # Hello =>
        /\ i \in Nat \ {0} /\ i + d[n] \in DOMAIN wire[n] /\ wire[n][i + d[n]] # Hello
        /\ wire[n][i + d[n]].msg = wire'[n][i].msg

WaitsFrom(d) ==
    \A n \in Net : \A i \in DOMAIN Waiting(n)' :
        /\ i \in Nat \ {0} /\ i + d[n] \in DOMAIN Waiting(n)
        /\ Waiting(n)[i + d[n]].msg = Waiting(n)'[i].msg

LEMMA FramesShrink ==
    ASSUME OneFrame, NEW d \in [Net -> {0, 1}], WireFrom(d)
    PROVE  OneFrame'
  <1>1. ASSUME NEW n \in Net, NEW o \in Net, NEW i \in DOMAIN wire'[n], NEW j \in DOMAIN wire'[o],
               wire'[n][i] # Hello, wire'[o][j] # Hello, wire'[n][i].msg = wire'[o][j].msg
        PROVE  n = o /\ i = j
    <2>1. PICK k \in DOMAIN wire[n] :
             k = i + d[n] /\ i \in Nat /\ wire[n][k] # Hello /\ wire[n][k].msg = wire'[n][i].msg
      BY <1>1 DEF WireFrom
    <2>2. PICK l \in DOMAIN wire[o] :
             l = j + d[o] /\ j \in Nat /\ wire[o][l] # Hello /\ wire[o][l].msg = wire'[o][j].msg
      BY <1>1 DEF WireFrom
    <2>3. n = o /\ k = l
      BY <1>1, <2>1, <2>2 DEF OneFrame
    <2>4. d[n] \in Nat
      OBVIOUS
    <2> QED BY <2>1, <2>2, <2>3, <2>4
  <1> QED BY <1>1 DEF OneFrame

LEMMA WaitsShrink ==
    ASSUME OneWaits, NEW d \in [Net -> {0, 1}], WaitsFrom(d)
    PROVE  OneWaits'
  <1>1. ASSUME NEW n \in Net, NEW o \in Net,
               NEW i \in DOMAIN Waiting(n)', NEW j \in DOMAIN Waiting(o)',
               Waiting(n)'[i].msg \in Raw, Waiting(n)'[i].msg = Waiting(o)'[j].msg
        PROVE  n = o /\ i = j
    <2>1. PICK k \in DOMAIN Waiting(n) :
             k = i + d[n] /\ i \in Nat /\ Waiting(n)[k].msg = Waiting(n)'[i].msg
      BY <1>1 DEF WaitsFrom
    <2>2. PICK l \in DOMAIN Waiting(o) :
             l = j + d[o] /\ j \in Nat /\ Waiting(o)[l].msg = Waiting(o)'[j].msg
      BY <1>1 DEF WaitsFrom
    <2>3. n = o /\ k = l
      BY <1>1, <2>1, <2>2 DEF OneWaits
    <2>4. d[n] \in Nat
      OBVIOUS
    <2> QED BY <2>1, <2>2, <2>3, <2>4
  <1> QED BY <1>1 DEF OneWaits

\* Steps that add nothing that has a raw message.
LEMMA TokenShrink ==
    ASSUME TokenInv, \E d \in [Net -> {0, 1}] : WireFrom(d), \E d \in [Net -> {0, 1}] : WaitsFrom(d)
    PROVE  TokenInv'
  <1>1. PICK d \in [Net -> {0, 1}] : WireFrom(d)
    OBVIOUS
  <1>2. PICK q \in [Net -> {0, 1}] : WaitsFrom(q)
    OBVIOUS
  <1>3. OneFrame' /\ OneWaits'
    BY <1>1, <1>2, FramesShrink, WaitsShrink DEF TokenInv
  <1>4. ASSUME NEW n \in Net, NEW o \in Net,
               NEW i \in DOMAIN wire'[n], NEW j \in DOMAIN Waiting(o)', wire'[n][i] # Hello
        PROVE  wire'[n][i].msg # Waiting(o)'[j].msg
    <2>1. PICK k \in DOMAIN wire[n] : wire[n][k] # Hello /\ wire[n][k].msg = wire'[n][i].msg
      BY <1>1, <1>4 DEF WireFrom
    <2>2. PICK l \in DOMAIN Waiting(o) : Waiting(o)[l].msg = Waiting(o)'[j].msg
      BY <1>2 DEF WaitsFrom
    <2> QED BY <2>1, <2>2 DEF TokenInv, OneOrOther
  <1>5. OneOrOther'
    BY <1>4 DEF OneOrOther
  <1> QED BY <1>3, <1>5 DEF TokenInv

LEMMA TokenParts ==
    ASSUME BridgedInv, NEW n \in Net
    PROVE  /\ wire[n] \in Seq({Hello} \cup Frame) /\ Waiting(n) \in Seq(Copy)
           /\ \A i \in DOMAIN wire[n] : i \in Nat \ {0} /\ i + 0 = i
           /\ \A i \in DOMAIN Waiting(n) : i \in Nat \ {0} /\ i + 0 = i
  <1>1. wire[n] \in Seq({Hello} \cup Frame) /\ Waiting(n) \in Seq(Copy)
    BY Names DEF BridgedInv, Types, TypeOK, Waiting
  <1> QED BY <1>1

LEMMA WireStays ==
    ASSUME BridgedInv,
           \A n \in Net : wire'[n] = wire[n] \/ wire'[n] = Append(wire[n], Hello)
    PROVE  \E d \in [Net -> {0, 1}] : WireFrom(d)
  <1>1. PICK d \in [Net -> {0, 1}] : d = [n \in Net |-> 0]
    OBVIOUS
  <1>2. ASSUME NEW n \in Net, NEW i \in DOMAIN wire'[n], wire'[n][i] # Hello
        PROVE  i \in Nat \ {0} /\ i + d[n] \in DOMAIN wire[n] /\ wire[n][i + d[n]] = wire'[n][i]
    <2>1. wire[n] \in Seq({Hello} \cup Frame) /\ \A j \in DOMAIN wire[n] : j \in Nat \ {0} /\ j + 0 = j
      BY TokenParts
    <2>2. i \in DOMAIN wire[n] /\ wire[n][i] = wire'[n][i]
      BY <1>2, <2>1
    <2> QED BY <1>1, <2>1, <2>2
  <1>3. WireFrom(d)
    BY <1>2 DEF WireFrom
  <1> QED BY <1>3

LEMMA WaitsStay ==
    ASSUME BridgedInv, \A n \in Net : Waiting(n)' = Waiting(n)
    PROVE  \E d \in [Net -> {0, 1}] : WaitsFrom(d)
  <1>1. PICK d \in [Net -> {0, 1}] : d = [n \in Net |-> 0]
    OBVIOUS
  <1>2. WaitsFrom(d)
    BY <1>1, TokenParts DEF WaitsFrom
  <1> QED BY <1>2

LEMMA WireTaken ==
    ASSUME BridgedInv, NEW n \in Net, wire[n] # <<>>, wire' = [wire EXCEPT ![n] = Tail(@)]
    PROVE  \E d \in [Net -> {0, 1}] : d[n] = 1 /\ WireFrom(d) /\ \A o \in Net \ {n} : d[o] = 0
  <1>1. PICK d \in [Net -> {0, 1}] : d = [o \in Net |-> IF o = n THEN 1 ELSE 0]
    OBVIOUS
  <1>2. TypeOK
    BY DEF BridgedInv, Types
  <1>3. ASSUME NEW o \in Net, NEW i \in DOMAIN wire'[o]
        PROVE  i \in Nat \ {0} /\ i + d[o] \in DOMAIN wire[o] /\ wire[o][i + d[o]] = wire'[o][i]
    <2>1. CASE o = n
      BY <1>1, <1>2, <1>3, <2>1, WireTail
    <2>2. CASE o # n
      BY <1>1, <1>2, <1>3, <2>2, WireTail, TokenParts
    <2> QED BY <2>1, <2>2
  <1>4. WireFrom(d)
    BY <1>3 DEF WireFrom
  <1> QED BY <1>1, <1>4

LEMMA WaitsTaken ==
    ASSUME BridgedInv, NEW n \in Net, queue[Bridge[n]] # <<>>,
           queue' = [queue EXCEPT ![Bridge[n]] = Tail(@)]
    PROVE  \E d \in [Net -> {0, 1}] : d[n] = 1 /\ WaitsFrom(d) /\ \A o \in Net \ {n} : d[o] = 0
  <1>1. PICK d \in [Net -> {0, 1}] : d = [o \in Net |-> IF o = n THEN 1 ELSE 0]
    OBVIOUS
  <1>2. TypeOK /\ \A o \in Net : Bridge[o] \in Ep /\ (o # n => Bridge[o] # Bridge[n])
    BY Names DEF BridgedInv, Types
  <1>3. ASSUME NEW o \in Net, NEW i \in DOMAIN Waiting(o)'
        PROVE  i \in Nat \ {0} /\ i + d[o] \in DOMAIN Waiting(o) /\ Waiting(o)[i + d[o]] = Waiting(o)'[i]
    <2>1. CASE o = n
      BY <1>1, <1>2, <1>3, <2>1, QueueTail DEF Waiting
    <2>2. CASE o # n
      <3>1. Waiting(o)' = Waiting(o)
        BY <1>2, <2>2, QueueTail DEF Waiting
      <3> QED BY <1>1, <1>3, <2>2, <3>1, TokenParts
    <2> QED BY <2>1, <2>2
  <1>4. WaitsFrom(d)
    BY <1>3 DEF WaitsFrom
  <1> QED BY <1>1, <1>4

\* A frame and the first copy in the queue of a bridge have different messages.
LEMMA HeadNoFrame ==
    ASSUME BridgedInv, NEW n \in Net, queue[Bridge[n]] # <<>>,
           NEW o \in Net, NEW i \in DOMAIN wire[o], wire[o][i] # Hello
    PROVE  wire[o][i].msg # queue[Bridge[n]][1].msg
  <1>1. 1 \in DOMAIN queue[Bridge[n]] /\ OneOrOther
    BY TokenParts DEF BridgedInv, TokenInv, Waiting
  <1> QED BY <1>1 DEF OneOrOther, Waiting

\* A copy comes into the queue of a bridge whose message is nowhere else.
LEMMA TokenGive ==
    ASSUME BridgedInv, NEW n \in Net, NEW x \in Copy,
           \E d \in [Net -> {0, 1}] : WireFrom(d),
           \A o \in Net : \A i \in DOMAIN wire'[o] : wire'[o][i] # Hello => wire'[o][i].msg # x.msg,
           \A o \in Net : \A i \in DOMAIN Waiting(o) : Waiting(o)[i].msg # x.msg,
           \A o \in Net : \/ Waiting(o)' = Waiting(o)
                          \/ o = n /\ Waiting(o)' = Append(Waiting(o), x)
    PROVE  TokenInv'
  <1>1. PICK d \in [Net -> {0, 1}] : WireFrom(d)
    OBVIOUS
  <1>2. OneFrame'
    BY <1>1, FramesShrink DEF BridgedInv, TokenInv
  <1>3. ASSUME NEW o \in Net, NEW i \in DOMAIN Waiting(o)'
        PROVE  \/ /\ i \in DOMAIN Waiting(o) /\ Waiting(o)'[i] = Waiting(o)[i]
                  /\ Waiting(o)'[i].msg # x.msg
               \/ o = n /\ i = Len(Waiting(n)) + 1 /\ Waiting(o)'[i] = x
    <2>1. Waiting(o) \in Seq(Copy)
      BY TokenParts
    <2>2. CASE Waiting(o)' = Waiting(o)
      BY <1>3, <2>2
    <2>3. CASE o = n /\ Waiting(o)' = Append(Waiting(o), x)
      BY <1>3, <2>1, <2>3, AppendParts
    <2> QED BY <2>2, <2>3
  <1>4. ASSUME NEW o \in Net, NEW p \in Net,
               NEW i \in DOMAIN Waiting(o)', NEW j \in DOMAIN Waiting(p)',
               Waiting(o)'[i].msg \in Raw, Waiting(o)'[i].msg = Waiting(p)'[j].msg
        PROVE  o = p /\ i = j
    BY <1>3, <1>4 DEF BridgedInv, TokenInv, OneWaits
  <1>5. OneWaits'
    BY <1>4 DEF OneWaits
  <1>6. ASSUME NEW o \in Net, NEW p \in Net,
               NEW i \in DOMAIN wire'[o], NEW j \in DOMAIN Waiting(p)', wire'[o][i] # Hello
        PROVE  wire'[o][i].msg # Waiting(p)'[j].msg
    <2>1. PICK k \in DOMAIN wire[o] : wire[o][k] # Hello /\ wire[o][k].msg = wire'[o][i].msg
      BY <1>1, <1>6 DEF WireFrom
    <2> QED BY <1>3, <1>6, <2>1 DEF BridgedInv, TokenInv, OneOrOther
  <1>7. OneOrOther'
    BY <1>6 DEF OneOrOther
  <1> QED BY <1>2, <1>5, <1>7 DEF TokenInv

LEMMA SendToken ==
    ASSUME BridgedInv, [Next]_vars, NEW t \in Thread, Send(t)
    PROVE  TokenInv'
  <1>1. TypeOK /\ queue \in [Ep -> Seq(Copy)]
    BY DEF BridgedInv, Types, TypeOK
  <1>2. PICK m \in Msg : m = Script[t][next[t]] /\ ~Sent(m)
    BY <1>1, SendsNew DEF Send
  <1>3. PICK n \in Net : n = NetOf[From[m]]
    BY MessageAssumption, NetAssumption
  <1>4. PICK b \in Buf \cup {None} : b = IF m \in Raw THEN <<m, 0>> ELSE None
    <2>1. m \in Raw => <<m, 0>> \in Buf
      BY BufferAssumption, Names
    <2> QED BY <2>1
  <1>5. GiveAll(n, m, b) /\ UNCHANGED wire
    BY <1>2, <1>3, <1>4 DEF Send, NetSend, link
  <1>6. PICK x \in Copy : x = [msg |-> m, buf |-> b]
    BY DEF Copy
  <1>7. \A e \in Ep : \/ queue'[e] = queue[e]
                      \/ NetOf[e] = n /\ queue'[e] = Append(queue[e], x)
    <2>1. queue \in [Ep -> Seq(Copy)]
      BY <1>1
    <2>2. GiveAll(n, m, b)
      BY <1>5
    <2>3. \A e \in Ep : \/ queue'[e] = queue[e]
                        \/ NetOf[e] = n /\ queue'[e] = Append(queue[e], [msg |-> m, buf |-> b])
      BY <2>1, <2>2, GiveRight
    <2> QED BY <1>6, <2>3
  <1>8. \A o \in Net : \/ Waiting(o)' = Waiting(o)
                       \/ o = n /\ Waiting(o)' = Append(Waiting(o), x)
    BY <1>7, Names DEF Waiting
  <1>9. CASE m \in Raw
    <2>1. \A o \in Net : \A i \in DOMAIN wire'[o] : wire'[o][i] # Hello => wire'[o][i].msg # x.msg
      <3>1. ASSUME NEW o \in Net, NEW i \in DOMAIN wire'[o], wire'[o][i] # Hello PROVE wire'[o][i].msg # m
        BY <1>2, <1>5, <3>1, FrameParts DEF ToSet
      <3> QED BY <1>6, <3>1
    <2>2. \A o \in Net : \A i \in DOMAIN Waiting(o) : Waiting(o)[i].msg # x.msg
      <3>1. ASSUME NEW o \in Net, NEW i \in DOMAIN Waiting(o) PROVE Waiting(o)[i].msg # m
        <4>1. Waiting(o)[i] \in ToSet(queue[Bridge[o]]) /\ Bridge[o] \in Ep
          BY <3>1, Names DEF Waiting, ToSet
        <4> QED BY <1>2, <1>9, <4>1, CopyParts
      <3> QED BY <1>6, <3>1
    <2> QED BY <1>5, <1>8, <2>1, <2>2, WireStays, TokenGive
  <1>10. CASE m \notin Raw
    <2>1. OneFrame /\ OneWaits /\ OneOrOther
      BY DEF BridgedInv, TokenInv
    <2>2. OneFrame'
      BY <1>5, <2>1 DEF OneFrame
    <2>3. ASSUME NEW o \in Net, NEW i \in DOMAIN Waiting(o)'
          PROVE  \/ i \in DOMAIN Waiting(o) /\ Waiting(o)'[i] = Waiting(o)[i]
                 \/ Waiting(o)'[i].msg \notin Raw
      <3>1. Waiting(o) \in Seq(Copy)
        BY TokenParts
      <3>2. CASE o = n /\ Waiting(o)' = Append(Waiting(o), x)
        BY <1>6, <1>10, <2>3, <3>1, <3>2, AppendParts
      <3> QED BY <1>8, <2>3, <3>2
    <2>4. ASSUME NEW o \in Net, NEW p \in Net,
                 NEW i \in DOMAIN Waiting(o)', NEW j \in DOMAIN Waiting(p)',
                 Waiting(o)'[i].msg \in Raw, Waiting(o)'[i].msg = Waiting(p)'[j].msg
          PROVE  o = p /\ i = j
      BY <2>1, <2>3, <2>4 DEF OneWaits
    <2>5. OneWaits'
      BY <2>4 DEF OneWaits
    <2>6. ASSUME NEW o \in Net, NEW p \in Net,
                 NEW i \in DOMAIN wire'[o], NEW j \in DOMAIN Waiting(p)', wire'[o][i] # Hello
          PROVE  wire'[o][i].msg # Waiting(p)'[j].msg
      <3>1. wire'[o][i] = wire[o][i] /\ i \in DOMAIN wire[o] /\ wire[o][i].msg \in Raw
        BY <1>5, <2>6, FrameParts DEF ToSet
      <3> QED BY <2>1, <2>3, <2>6, <3>1 DEF OneOrOther
    <2>7. OneOrOther'
      BY <2>6 DEF OneOrOther
    <2> QED BY <2>2, <2>5, <2>7 DEF TokenInv
  <1> QED BY <1>9, <1>10

\* thread_rx takes the frame and gives the message to the endpoints of its net.
LEMMA RxMessageToken ==
    ASSUME BridgedInv, [Next]_vars, NEW n \in Net, RxMessage(n)
    PROVE  TokenInv'
  <1>1. /\ TypeOK /\ OneFrame /\ OneOrOther /\ wire[n] # <<>>
        /\ wire' = [wire EXCEPT ![n] = Tail(@)]
    BY DEF RxMessage, BridgedInv, Types, TokenInv
  <1>2. PICK f \in Frame :
           /\ f = Head(wire[n]) /\ f = wire[n][1] /\ f # Hello
           /\ f.msg \in Raw /\ <<f.msg, laps[f.msg]>> \in Buf
    BY RxFrame
  <1>3. PICK m \in Raw : m = f.msg /\ m \in Msg
    BY <1>2, Names
  <1>4. PICK b \in Buf \cup {None} : b = <<m, laps[m]>>
    BY <1>2, <1>3
  <1>5. PICK x \in Copy : x = [msg |-> m, buf |-> b]
    BY <1>3 DEF Copy
  <1>6. \A e \in Ep : \/ queue'[e] = queue[e]
                      \/ NetOf[e] = n /\ queue'[e] = Append(queue[e], x)
    <2>1. queue \in [Ep -> Seq(Copy)]
      BY <1>1 DEF TypeOK
    <2>2. GiveAll(n, m, b)
      BY <1>2, <1>3, <1>4 DEF RxMessage
    <2>3. \A e \in Ep : \/ queue'[e] = queue[e]
                        \/ NetOf[e] = n /\ queue'[e] = Append(queue[e], [msg |-> m, buf |-> b])
      BY <1>3, <2>1, <2>2, GiveRight
    <2> QED BY <1>5, <2>3
  <1>7. \A o \in Net : \/ Waiting(o)' = Waiting(o)
                       \/ o = n /\ Waiting(o)' = Append(Waiting(o), x)
    BY <1>6, Names DEF Waiting
  <1>8. PICK d \in [Net -> {0, 1}] : d[n] = 1 /\ WireFrom(d) /\ \A o \in Net \ {n} : d[o] = 0
    BY <1>1, WireTaken
  <1>9. 1 \in DOMAIN wire[n] /\ wire[n][1] # Hello /\ wire[n][1].msg = m
    BY <1>1, <1>2, <1>3, WireTail
  <1>10. ASSUME NEW o \in Net, NEW i \in DOMAIN wire'[o], wire'[o][i] # Hello
         PROVE  wire'[o][i].msg # x.msg
    <2>1. PICK k \in DOMAIN wire[o] : /\ k = i + d[o] /\ i \in Nat \ {0} /\ wire[o][k] # Hello
                                      /\ wire[o][k].msg = wire'[o][i].msg
      BY <1>8, <1>10 DEF WireFrom
    <2>2. o = n => k # 1
      BY <1>8, <2>1
    <2>3. wire[o][k].msg # m
      BY <1>1, <1>9, <2>1, <2>2 DEF OneFrame
    <2> QED BY <1>5, <2>1, <2>3
  <1>11. \A o \in Net : \A i \in DOMAIN Waiting(o) : Waiting(o)[i].msg # x.msg
    BY <1>1, <1>5, <1>9 DEF OneOrOther
  <1> QED BY <1>7, <1>8, <1>10, <1>11, TokenGive

\* thread_tx takes the first copy and writes the frame.
LEMMA TxRawToken ==
    ASSUME BridgedInv, [Next]_vars, NEW n \in Net, TxRaw(n)
    PROVE  TokenInv'
  <1>1. /\ TypeOK /\ OneFrame /\ OneWaits /\ OneOrOther /\ TokenInv
        /\ queue' = [queue EXCEPT ![Bridge[n]] = Tail(@)]
        /\ queue[Bridge[n]] # <<>> /\ Other(n) \in Net /\ Other(n) # n
        /\ \A o \in Net : o = n \/ o = Other(n)
    BY OtherNet DEF TxRaw, BridgedInv, Types, TokenInv
  <1>2. PICK c \in Copy :
           /\ c = queue[Bridge[n]][1] /\ c.msg \in Raw /\ TxFrame(c) \in Frame
           /\ UNCHANGED wire \/ Write(n, TxFrame(c))
    BY TxRawRight
  <1>3. PICK d \in [Net -> {0, 1}] : d[n] = 1 /\ WaitsFrom(d) /\ \A o \in Net \ {n} : d[o] = 0
    BY <1>1, WaitsTaken
  <1>4. CASE UNCHANGED wire
    BY <1>1, <1>3, <1>4, WireStays, TokenShrink
  <1>5. CASE Write(n, TxFrame(c))
    <2>1. PICK f \in Frame : f = TxFrame(c) /\ f.msg = c.msg
      BY <1>2 DEF TxFrame
    <2>2. Write(n, f)
      BY <1>5, <2>1
    <2>3. /\ wire'[n] = wire[n]
          /\ wire'[Other(n)] = wire[Other(n)] \/ wire'[Other(n)] = Append(wire[Other(n)], f)
      BY <1>1, <2>2, WriteFrame
    <2>4. ASSUME NEW o \in Net, NEW i \in DOMAIN wire'[o], wire'[o][i] # Hello
          PROVE  \/ /\ i \in DOMAIN wire[o] /\ wire'[o][i] = wire[o][i]
                    /\ wire'[o][i].msg # c.msg
                 \/ o = Other(n) /\ i = Len(wire[o]) + 1 /\ wire'[o][i] = f
      <3>1. wire[o] \in Seq({Hello} \cup Frame)
        BY TokenParts
      <3>2. CASE wire'[o] = wire[o]
        BY <1>1, <1>2, <2>4, <3>2, HeadNoFrame
      <3>3. CASE o = Other(n) /\ wire'[o] = Append(wire[o], f)
        <4>1. \/ i \in DOMAIN wire[o] /\ wire'[o][i] = wire[o][i]
              \/ i = Len(wire[o]) + 1 /\ wire'[o][i] = f
          BY <2>4, <3>1, <3>3, AppendParts
        <4> QED BY <1>1, <1>2, <2>4, <3>3, <4>1, HeadNoFrame
      <3> QED BY <1>1, <2>3, <3>2, <3>3
    <2>5. ASSUME NEW o \in Net, NEW j \in DOMAIN Waiting(o)'
          PROVE  /\ Waiting(o)'[j].msg # c.msg
                 /\ \E k \in DOMAIN Waiting(o) : Waiting(o)[k].msg = Waiting(o)'[j].msg
      <3>1. PICK k \in DOMAIN Waiting(o) :
               k = j + d[o] /\ j \in Nat \ {0} /\ Waiting(o)[k].msg = Waiting(o)'[j].msg
        BY <1>3, <2>5 DEF WaitsFrom
      <3>2. o = n => k # 1
        BY <1>3, <3>1
      <3>3. 1 \in DOMAIN Waiting(n) /\ Waiting(n)[1].msg = c.msg
        BY <1>1, <1>2, TokenParts DEF Waiting
      <3> QED BY <1>1, <1>2, <3>1, <3>2, <3>3 DEF OneWaits
    <2>6. OneFrame'
      <3>1. ASSUME NEW o \in Net, NEW p \in Net, NEW i \in DOMAIN wire'[o], NEW j \in DOMAIN wire'[p],
                   wire'[o][i] # Hello, wire'[p][j] # Hello, wire'[o][i].msg = wire'[p][j].msg
            PROVE  o = p /\ i = j
        BY <1>1, <2>1, <2>4, <3>1 DEF OneFrame
      <3> QED BY <3>1 DEF OneFrame
    <2>7. OneWaits'
      BY <1>1, <1>3, WaitsShrink
    <2>8. OneOrOther'
      <3>1. ASSUME NEW o \in Net, NEW p \in Net,
                   NEW i \in DOMAIN wire'[o], NEW j \in DOMAIN Waiting(p)', wire'[o][i] # Hello
            PROVE  wire'[o][i].msg # Waiting(p)'[j].msg
        <4>1. PICK k \in DOMAIN Waiting(p) : Waiting(p)[k].msg = Waiting(p)'[j].msg
          BY <2>5
        <4>2. Waiting(p)'[j].msg # c.msg
          BY <2>5
        <4> QED BY <1>1, <2>1, <2>4, <3>1, <4>1, <4>2 DEF OneOrOther
      <3> QED BY <3>1 DEF OneOrOther
    <2> QED BY <2>6, <2>7, <2>8 DEF TokenInv
  <1> QED BY <1>2, <1>4, <1>5

\* The other steps.
LEMMA QuietPlaces ==
    ASSUME BridgedInv,
           \/ \E t \in Thread : Edit(t)
           \/ \E e \in Apps : Recv(e) \/ Discard(e)
           \/ \E n \in Net : TxHello(n) \/ TxSync(n) \/ RxHello(n) \/ RxEnd(n)
           \/ Break
           \/ UNCHANGED vars
    PROVE  (\E d \in [Net -> {0, 1}] : WireFrom(d)) /\ (\E d \in [Net -> {0, 1}] : WaitsFrom(d))
  <1> DEFINE Q == (\E d \in [Net -> {0, 1}] : WireFrom(d)) /\ (\E d \in [Net -> {0, 1}] : WaitsFrom(d))
  <1>1. TypeOK /\ \A n \in Net : Bridge[n] \in Ep /\ Bridge[n] \notin Apps
    BY Names DEF BridgedInv, Types
  <1>2. ASSUME UNCHANGED wire, \A n \in Net : Waiting(n)' = Waiting(n) PROVE Q
    BY <1>1, <1>2, WireStays, WaitsStay
  <1>3. CASE UNCHANGED vars \/ \E t \in Thread : Edit(t)
    BY <1>2, <1>3 DEF Edit, vars, link, Waiting
  <1>4. ASSUME NEW e \in Apps, Recv(e) \/ Discard(e) PROVE Q
    <2>1. UNCHANGED wire /\ queue[e] # <<>> /\ queue' = [queue EXCEPT ![e] = Tail(@)] /\ e \in Ep
      BY <1>4, Names DEF Recv, Discard, link
    <2>2. \A n \in Net : Waiting(n)' = Waiting(n)
      BY <1>1, <2>1, QueueTail DEF Waiting
    <2> QED BY <1>2, <2>1, <2>2
  <1>5. ASSUME NEW n \in Net, TxHello(n) PROVE Q
    <2>1. Write(n, Hello) /\ UNCHANGED queue
      BY <1>5 DEF TxHello
    <2>2. wire'[n] = wire[n] /\ (wire'[Other(n)] = wire[Other(n)] \/ wire'[Other(n)] = Append(wire[Other(n)], Hello))
      BY <1>1, <2>1, WriteFrame
    <2>3. \A o \in Net : wire'[o] = wire[o] \/ wire'[o] = Append(wire[o], Hello)
      BY <2>2, OtherNet
    <2>4. \A o \in Net : Waiting(o)' = Waiting(o)
      BY <2>1 DEF Waiting
    <2> QED BY <1>1, <2>3, <2>4, WireStays, WaitsStay
  <1>6. ASSUME NEW n \in Net, TxSync(n) PROVE Q
    <2>1. UNCHANGED wire /\ queue[Bridge[n]] # <<>> /\ queue' = [queue EXCEPT ![Bridge[n]] = Tail(@)]
      BY <1>6 DEF TxSync, link
    <2> QED BY <1>1, <2>1, WireStays, WaitsTaken
  <1>7. ASSUME NEW n \in Net, RxHello(n) PROVE Q
    <2>1. UNCHANGED queue /\ wire[n] # <<>> /\ wire' = [wire EXCEPT ![n] = Tail(@)]
      BY <1>7 DEF RxHello
    <2>2. \A o \in Net : Waiting(o)' = Waiting(o)
      BY <2>1 DEF Waiting
    <2> QED BY <1>1, <2>1, <2>2, WireTaken, WaitsStay
  <1>8. ASSUME NEW n \in Net, RxEnd(n) PROVE Q
    BY <1>2, <1>8 DEF RxEnd, Waiting
  <1>9. CASE Break
    <2>1. \A o \in Net : Waiting(o)' = Waiting(o)
      BY <1>9 DEF Break, Waiting
    <2>2. PICK d \in [Net -> {0, 1}] : d = [n \in Net |-> 0]
      OBVIOUS
    <2>3. ASSUME NEW n \in Net, NEW i \in DOMAIN wire'[n], wire'[n][i] # Hello
          PROVE  /\ i \in Nat \ {0} /\ i + d[n] \in DOMAIN wire[n] /\ wire[n][i + d[n]] # Hello
                 /\ wire[n][i + d[n]].msg = wire'[n][i].msg
      <3>1. i \in DOMAIN wire[n] /\ wire[n][i] # Hello /\ wire[n][i].msg = wire'[n][i].msg
        BY <1>9, <2>3, BreakWire
      <3>2. i \in Nat \ {0} /\ i + 0 = i /\ d[n] = 0
        BY <2>2, <3>1, TokenParts
      <3> QED BY <3>1, <3>2
    <2>4. WireFrom(d)
      BY <2>3 DEF WireFrom
    <2> QED BY <1>1, <2>1, <2>4, WaitsStay
  <1> QED BY <1>3, <1>4, <1>5, <1>6, <1>7, <1>8, <1>9

LEMMA TokenKept ==
    ASSUME BridgedInv,
           \/ \E t \in Thread : Edit(t)
           \/ \E e \in Apps : Recv(e) \/ Discard(e)
           \/ \E n \in Net : TxHello(n) \/ TxSync(n) \/ RxHello(n) \/ RxEnd(n)
           \/ Break
           \/ UNCHANGED vars
    PROVE  TokenInv'
  BY QuietPlaces, TokenShrink DEF BridgedInv

----------------------------------------------------------------------------
(* The invariant *)

LEMMA InitInv == Init => BridgedInv
  <1> SUFFICES ASSUME Init PROVE BridgedInv
    OBVIOUS
  <1>1. PICK draft \in [Thread -> New(Capacity)] :
           heap = [b \in Buf |-> IF b \in Thread THEN draft[b] ELSE None]
    BY DEF Init
  <1>2. heap \in [Buf -> RawType \cup {None}] /\ \A t \in Thread : heap[t] \in RawType
    BY <1>1, NewRight, Names
  <1>3. \A m : ~Sent(m)
    <2>1. ASSUME NEW m, Sent(m) PROVE FALSE
      <3>1. PICK t \in Thread : \E i \in DOMAIN Script[t] : i < next[t] /\ Script[t][i] = m
        BY <2>1 DEF Sent
      <3>2. PICK i \in DOMAIN Script[t] : i < next[t]
        BY <3>1
      <3>3. next[t] = 1 /\ i \in Nat \ {0}
        BY <3>1, <3>2, ScriptAssumption DEF Init
      <3> QED BY <3>2, <3>3
    <2> QED BY <2>1
  <1>4. TypeOK
    <2>1. \A e \in Ep : addr[e].eid = Home[e].eid /\ addr[e].sid = Home[e].sid
      BY DEF Init
    <2>2. queue \in [Ep -> Seq(Copy)] /\ held \in [Apps -> Copy \cup {None}] /\ inbox \in [Apps -> Seq(Msg)]
      BY DEF Init
    <2>3. next \in [Thread -> Nat] /\ DOMAIN src = Msg /\ said \in [Msg -> RawType \cup {None}]
      BY DEF Init
    <2>4. /\ valid \in [SyncMsg -> BOOLEAN] /\ up \in BOOLEAN
          /\ wire \in [Net -> Seq({Hello} \cup Frame)] /\ cut \in [Net -> Raw \cup {None}]
      BY DEF Init
    <2>5. rx \in [Net -> {"hello", "read", "ended"}] /\ tx \in [Net -> {"hello", "recv"}]
      BY DEF Init
    <2>6. edits \in 0..MaxEdits /\ laps \in [Msg -> 0..MaxLaps]
      BY BufferAssumption DEF Init
    <2> QED BY <1>2, <2>1, <2>2, <2>3, <2>4, <2>5, <2>6 DEF TypeOK
  <1>5. Types
    BY <1>2, <1>3, <1>4, AddressAssumption DEF Types, Init
  <1>6. \A e \in Ep : queue[e] = <<>> /\ (e \in Apps => held[e] = None)
    BY DEF Init
  <1>7. CopiesInv
    BY <1>6 DEF CopiesInv, QueueInv, HeldInv, ToSet
  <1>8. \A n \in Net : wire[n] = <<>> /\ cut[n] = None /\ rx[n] = "hello" /\ Waiting(n) = <<>>
    BY <1>6, Names DEF Init, Waiting
  <1>9. LinkInv
    BY <1>8 DEF LinkInv, Greeting, WireInv, ToSet
  <1>10. TokenInv
    BY <1>8 DEF TokenInv, OneFrame, OneWaits, OneOrOther
  <1> QED BY <1>5, <1>7, <1>9, <1>10 DEF BridgedInv

LEMMA StutterStep ==
    ASSUME BridgedInv, UNCHANGED vars
    PROVE  Types' /\ CopiesInv' /\ LinkInv'
  <1>1. UNCHANGED <<addr, queue, held, inbox, heap, next, src, said, valid>>
    BY DEF vars, ends, app
  <1>2. UNCHANGED <<up, wire, cut, rx, tx, edits, laps>>
    BY DEF vars, app, link
  <1>3. TypeOK /\ Types /\ \A e \in Apps : heap'[e] = heap[e]
    BY <1>1 DEF BridgedInv, Types
  <1>4. TypeOK'
    BY <1>1, <1>2, <1>3 DEF TypeOK
  <1>5. Types'
    BY <1>1, <1>3, <1>4, SaidKept DEF Types
  <1>6. CopiesInv'
    BY <1>1, <1>3, CopiesShrink
  <1>7. LinkInv'
    BY <1>1, <1>2, LinkKept
  <1> QED BY <1>5, <1>6, <1>7

LEMMA NextInv == BridgedInv /\ [Next]_vars => BridgedInv'
  <1> SUFFICES ASSUME BridgedInv, [Next]_vars PROVE BridgedInv'
    OBVIOUS
  <1>1. TypeOK
    BY DEF BridgedInv, Types
  <1>2. ASSUME NEW t \in Thread, Edit(t) PROVE BridgedInv'
    <2>1. UNCHANGED <<queue, up, wire, cut, rx, tx, laps>>
      BY <1>2 DEF Edit, link
    <2> QED BY <1>2, <2>1, EditStep, LinkKept, TokenKept DEF BridgedInv
  <1>3. ASSUME NEW t \in Thread, Send(t) PROVE BridgedInv'
    BY <1>3, SendStep, SendLink, SendToken DEF BridgedInv
  <1>4. ASSUME NEW e \in Apps, Recv(e) \/ Discard(e) PROVE BridgedInv'
    <2>1. UNCHANGED <<up, wire, cut, rx, tx, laps>>
      BY <1>4 DEF Recv, Discard, link
    <2>2. queue[e] # <<>> /\ queue' = [queue EXCEPT ![e] = Tail(@)] /\ e \in Ep
      BY <1>4, Names DEF Recv, Discard
    <2>3. \A f \in Ep : ToSet(queue'[f]) \subseteq ToSet(queue[f])
      BY <1>1, <2>2, QueueTail
    <2> QED BY <1>4, <2>1, <2>3, RecvStep, DiscardStep, LinkKept, TokenKept DEF BridgedInv
  <1>5. ASSUME NEW n \in Net, TxHello(n) PROVE BridgedInv'
    BY <1>5, TxHelloStep, TxHelloLink, TokenKept DEF BridgedInv
  <1>6. ASSUME NEW n \in Net, TxRaw(n) PROVE BridgedInv'
    BY <1>6, TxRawStep, TxRawLink, TxRawToken DEF BridgedInv
  <1>7. ASSUME NEW n \in Net, TxSync(n) PROVE BridgedInv'
    <2>1. UNCHANGED <<up, wire, cut, rx, tx, laps>>
      BY <1>7 DEF TxSync, link
    <2>2. /\ queue[Bridge[n]] # <<>> /\ queue' = [queue EXCEPT ![Bridge[n]] = Tail(@)]
          /\ Bridge[n] \in Ep
      BY <1>7, Names DEF TxSync
    <2>3. \A f \in Ep : ToSet(queue'[f]) \subseteq ToSet(queue[f])
      BY <1>1, <2>2, QueueTail
    <2> QED BY <1>7, <2>1, <2>3, TxSyncStep, LinkKept, TokenKept DEF BridgedInv
  <1>8. ASSUME NEW n \in Net, RxHello(n) PROVE BridgedInv'
    BY <1>8, RxHelloStep, RxHelloLink, TokenKept DEF BridgedInv
  <1>9. ASSUME NEW n \in Net, RxMessage(n) PROVE BridgedInv'
    BY <1>9, RxMessageStep, RxMessageLink, RxMessageToken DEF BridgedInv
  <1>10. ASSUME NEW n \in Net, RxEnd(n) PROVE BridgedInv'
    BY <1>10, RxEndStep, RxEndLink, TokenKept DEF BridgedInv
  <1>11. CASE Break
    BY <1>11, BreakStep, BreakLink, TokenKept DEF BridgedInv
  <1>12. CASE UNCHANGED vars
    BY <1>12, StutterStep, TokenKept DEF BridgedInv
  <1> QED BY <1>2, <1>3, <1>4, <1>5, <1>6, <1>7, <1>8, <1>9, <1>10, <1>11, <1>12 DEF Next, Works

LEMMA InvSeparate == BridgedInv => Separate
  <1> SUFFICES ASSUME BridgedInv PROVE Separate
    OBVIOUS
  <1>1. \A e \in Apps : held[e] # None /\ held[e].buf # None => held[e].buf = e
    <2>1. ASSUME NEW e \in Apps, held[e] # None, held[e].buf # None PROVE held[e].buf = e
      <3>1. HeldInv(e) /\ held[e].msg \in Msg
        BY <2>1, CopyParts, Names DEF BridgedInv, CopiesInv
      <3> QED BY <2>1, <3>1 DEF HeldInv, Raw
    <2> QED BY <2>1
  <1>2. Received \subseteq Apps
    <2>1. ASSUME NEW b \in Received PROVE b \in Apps
      <3>1. PICK e \in Apps : held[e] # None /\ b = held[e].buf /\ b # None
        BY <2>1 DEF Received
      <3> QED BY <1>1, <3>1
    <2> QED BY <2>1
  <1>3. Queued \cap (Thread \cup Apps) = {}
    <2>1. ASSUME NEW b \in Queued PROVE b \notin Thread \cup Apps
      <3>1. PICK e \in Ep : \E c \in ToSet(queue[e]) : b = c.buf /\ b # None
        BY <2>1 DEF Queued
      <3>2. PICK c \in ToSet(queue[e]) : b = c.buf /\ b # None
        BY <3>1
      <3>3. c.msg \in Raw
        BY <3>2, CopyParts DEF CopyInv, Raw
      <3> QED BY <3>2, <3>3, CopyParts
    <2> QED BY <2>1
  <1>4. Thread \cap Apps = {}
    BY Names
  <1> QED BY <1>1, <1>2, <1>3, <1>4 DEF Separate

LEMMA InvIntact == BridgedInv => Intact
  <1> SUFFICES ASSUME BridgedInv PROVE Intact
    OBVIOUS
  <1>1. ASSUME NEW e \in Ep, NEW c \in ToSet(queue[e]), c.msg \in Raw
        PROVE  heap[c.buf] = [len |-> Capacity, data |-> said[c.msg].data] \/ c.msg = cut[NetOf[e]]
    BY <1>1, CopyParts DEF CopyInv, Good, AsSent
  <1>2. ASSUME NEW e \in Apps, held[e] # None, held[e].msg \in Raw
        PROVE  \/ heap[held[e].buf] = [len |-> Capacity, data |-> said[held[e].msg].data]
               \/ held[e].msg = cut[NetOf[e]]
    BY <1>2, Names DEF BridgedInv, CopiesInv, HeldInv, Good, AsSent
  <1> QED BY <1>1, <1>2 DEF Intact

LEMMA Invariant == Spec => []BridgedInv
  BY InitInv, NextInv, PTL DEF Spec

\* What Bridged keeps has its type: a queue has copies, a buffer a capacity's bytes
\* or none, and what a connection brings is the greeting or a frame
\* (tcp/mod.rs:33-157).
THEOREM TypeCorrect == Spec => []TypeOK
  <1>1. BridgedInv => TypeOK
    BY DEF BridgedInv, Types
  <1> QED BY <1>1, Invariant, PTL

\* The buffer of an application's message is not that of a copy in a queue, nor of
\* another application's: send and recv both duplicate (net.rs:198-206,
\* endpoint.rs:266-271).
THEOREM BuffersSeparate == Spec => []Separate
  BY Invariant, InvSeparate, PTL

\* A raw message arrives on either net, after any number of crossings, with the bytes
\* it was sent with, unless the break of the connection cut its frame
\* (net.rs:198-206, tcp/mod.rs:84-108, 138-156).
THEOREM BytesIntact == Spec => []Intact
  BY Invariant, InvIntact, PTL

----------------------------------------------------------------------------
(* The order of messages *)

\* All that an application has received or will, in that order.
Joined(had, copies) == had \o [i \in DOMAIN copies |-> copies[i].msg]
Seen(e) == Joined(inbox[e], queue[e])

Before(m, l) == From[m] = From[l] /\ SentBefore(m, l)
Single == SyncMsg \cup {m \in Msg : Dst[m].sid # Anyone}

\* First copies come in order, and a sync message or one to a net comes once.
Ordered(s) ==
    \A i, j \in DOMAIN s : i < j /\ Before(s[j], s[i]) => \E k \in DOMAIN s : k < i /\ s[k] = s[j]
Once(s) == \A i, j \in DOMAIN s : s[i] = s[j] /\ s[i] \in Single => i = j

Has(e, m) == m \in ToSet(Seen(e))
Waits(n, m) == \E i \in DOMAIN Waiting(n) : Waiting(n)[i].msg = m
Crosses(n, m) == \E i \in DOMAIN wire[n] : wire[n][i] # Hello /\ wire[n][i].msg = m

AllSent ==
    \A m \in Msg :
        /\ laps[m] # 0 => Sent(m)
        /\ \A n \in Net : (Waits(n, m) => Sent(m)) /\ (Crosses(n, m) => laps[m] # 0)
        /\ \A e \in Apps : Has(e, m) => Sent(m)

\* A message that has not crossed yet, and one that crosses for the first time.
FirstWaits(n, m) == laps[m] = 0 /\ Waits(n, m)
FirstCrosses(n, m) == laps[m] = 1 /\ Crosses(n, m)

WaitsInOrder(n) ==
    \A i, j \in DOMAIN Waiting(n) :
        /\ laps[Waiting(n)[i].msg] = 0 /\ laps[Waiting(n)[j].msg] = 0
        /\ Before(Waiting(n)[j].msg, Waiting(n)[i].msg)
        => j < i
CrossesInOrder(n) ==
    \A i, j \in DOMAIN wire[n] :
        /\ wire[n][i] # Hello /\ wire[n][j] # Hello
        /\ laps[wire[n][i].msg] = 1 /\ laps[wire[n][j].msg] = 1
        /\ Before(wire[n][j].msg, wire[n][i].msg)
        => j < i

\* What waits is behind what crosses, and that behind what has arrived.
Behind(n) ==
    \A m, l \in Msg : Before(m, l) =>
        /\ FirstCrosses(Other(n), l) => ~FirstWaits(n, m)
        /\ \A e \in Apps :
              NetOf[From[m]] = n /\ NetOf[e] = Other(n) /\ Has(e, l)
              => ~FirstWaits(n, m) /\ ~FirstCrosses(Other(n), m)

\* Message m has been given to the endpoints of net n.
Reached(n, m) ==
    \/ NetOf[From[m]] = n
    \/ Crosses(Other(n), m) \/ Waits(n, m)
    \/ laps[m] > 1 /\ Crosses(n, m)
    \/ laps[m] > 0 /\ Waits(Other(n), m)

Served(e) ==
    \A m \in Raw : /\ Sent(m) /\ Reached(NetOf[e], m)
                   /\ Accepts(Sid[NetOf[e]], m, src[m], addr[e])
                   => Has(e, m)

\* A bridge takes of the messages to one net those to the other, which has not had
\* them.
Outward(n) ==
    /\ rx[n] = "read" => addr[Bridge[n]].sid = Sid[Other(n)]
    /\ \A m \in Raw : Dst[m].sid # Anyone /\ (Crosses(Other(n), m) \/ Waits(n, m)) =>
          /\ Dst[m].sid \in {Home[Bridge[n]].sid, Sid[Other(n)]}
          /\ \A e \in Apps : NetOf[e] = Other(n) => ~Has(e, m)

OrderInv ==
    /\ AllSent
    /\ \A e \in Apps : Ordered(Seen(e)) /\ Once(Seen(e)) /\ Served(e)
    /\ \A n \in Net : WaitsInOrder(n) /\ CrossesInOrder(n) /\ Behind(n) /\ Outward(n)

\* The identifiers of the two nets differ from each other and from the one that the
\* endpoint of a bridge has before the greeting.
OwnSids ==
    /\ \A n, o \in Net : n # o => Sid[n] # Sid[o]
    /\ \A n, o \in Net : Home[Bridge[n]].sid # Sid[o]

----------------------------------------------------------------------------
(* Sequences of messages *)

LEMMA BeforeRight ==
    /\ \A m : ~Before(m, m)
    /\ \A m, l : Before(m, l) => From[m] = From[l]
    /\ TypeOK => \A m, l : Before(m, l) /\ Sent(l) => Sent(m)
  <1>1. ASSUME NEW m, Before(m, m) PROVE FALSE
    <2>1. PICK t \in Thread : \E i, j \in DOMAIN Script[t] :
             i < j /\ Script[t][i] = m /\ Script[t][j] = m
      BY <1>1 DEF Before, SentBefore
    <2>2. PICK i, j \in DOMAIN Script[t] : i < j /\ Script[t][i] = m /\ Script[t][j] = m
      BY <2>1
    <2>3. i = j /\ i \in Nat
      BY <2>2, ScriptAssumption
    <2> QED BY <2>2, <2>3
  <1>2. ASSUME TypeOK, NEW m, NEW l, Before(m, l), Sent(l) PROVE Sent(m)
    <2>1. PICK t \in Thread : \E i, j \in DOMAIN Script[t] :
             i < j /\ Script[t][i] = m /\ Script[t][j] = l
      BY <1>2 DEF Before, SentBefore
    <2>2. PICK i, j \in DOMAIN Script[t] : i < j /\ Script[t][i] = m /\ Script[t][j] = l
      BY <2>1
    <2>3. PICK u \in Thread : \E k \in DOMAIN Script[u] : k < next[u] /\ Script[u][k] = l
      BY <1>2 DEF Sent
    <2>4. PICK k \in DOMAIN Script[u] : k < next[u] /\ Script[u][k] = l
      BY <2>3
    <2>5. u = t /\ k = j
      BY <2>2, <2>4, ScriptAssumption
    <2>6. i \in Nat /\ j \in Nat /\ next[t] \in Nat
      BY <1>2, ScriptAssumption DEF TypeOK
    <2>7. i < next[t]
      BY <2>2, <2>4, <2>5, <2>6
    <2> QED BY <2>2, <2>7 DEF Sent
  <1> QED BY <1>1, <1>2 DEF Before

LEMMA JoinedParts ==
    ASSUME NEW a \in Seq(Msg), NEW q \in Seq(Copy)
    PROVE  /\ Joined(a, q) \in Seq(Msg) /\ Len(Joined(a, q)) = Len(a) + Len(q)
           /\ Len(a) \in Nat /\ Len(q) \in Nat
           /\ DOMAIN Joined(a, q) = 1..Len(a) + Len(q)
           /\ \A i \in 1..Len(a) : Joined(a, q)[i] = a[i]
           /\ \A i \in Len(a) + 1..Len(a) + Len(q) : Joined(a, q)[i] = q[i - Len(a)].msg
  <1> DEFINE b == [i \in DOMAIN q |-> q[i].msg]
  <1>1. b \in Seq(Msg) /\ Len(b) = Len(q) /\ \A i \in 1..Len(q) : b[i] = q[i].msg
    <2>1. q \in Seq(Copy) /\ DOMAIN q = 1..Len(q) /\ Len(q) \in Nat
      OBVIOUS
    <2>2. ASSUME NEW i \in DOMAIN q PROVE q[i].msg \in Msg
      <3>1. q[i] \in Copy
        BY <2>2
      <3> QED BY <3>1 DEF Copy
    <2> QED BY <2>1, <2>2
  <1>2. Joined(a, q) = a \o b
    BY DEF Joined
  <1> HIDE DEF b
  <1>3. \A i \in Len(a) + 1..Len(a) + Len(q) : i - Len(a) \in 1..Len(q)
    OBVIOUS
  <1>4. Len(a) \in Nat /\ Len(b) \in Nat
    BY <1>1
  <1>5. /\ a \o b \in Seq(Msg) /\ Len(a \o b) = Len(a) + Len(b)
        /\ \A i \in 1..Len(a) : (a \o b)[i] = a[i]
        /\ \A i \in Len(a) + 1..Len(a) + Len(b) : (a \o b)[i] = b[i - Len(a)]
    <2>1. b \in Seq(Msg)
      BY <1>1
    <2>2. a \o b \in Seq(Msg) /\ Len(a \o b) = Len(a) + Len(b)
      BY <2>1
    <2>3. \A i \in 1..Len(a) : (a \o b)[i] = a[i]
      BY <2>1
    <2>4. \A i \in Len(a) + 1..Len(a) + Len(b) : (a \o b)[i] = b[i - Len(a)]
      BY <2>1
    <2> QED BY <2>2, <2>3, <2>4
  <1> QED BY <1>1, <1>2, <1>3, <1>4, <1>5

LEMMA SameSeq ==
    ASSUME NEW S, NEW s \in Seq(S), NEW u \in Seq(S), Len(s) = Len(u),
           \A i \in 1..Len(s) : s[i] = u[i]
    PROVE  s = u
  OBVIOUS

LEMMA AppendLen ==
    ASSUME NEW S, NEW s \in Seq(S), NEW x \in S
    PROVE  /\ Append(s, x) \in Seq(S) /\ Len(Append(s, x)) = Len(s) + 1 /\ Len(s) \in Nat
           /\ \A i \in 1..Len(s) : Append(s, x)[i] = s[i]
           /\ Append(s, x)[Len(s) + 1] = x
  OBVIOUS

LEMMA TailLen ==
    ASSUME NEW S, NEW s \in Seq(S), s # <<>>
    PROVE  /\ Tail(s) \in Seq(S) /\ Len(s) = Len(Tail(s)) + 1 /\ Len(Tail(s)) \in Nat
           /\ \A i \in 1..Len(Tail(s)) : Tail(s)[i] = s[i + 1]
           /\ Head(s) = s[1] /\ s[1] \in S
  OBVIOUS

LEMMA JoinedAppend ==
    ASSUME NEW a \in Seq(Msg), NEW q \in Seq(Copy), NEW x \in Copy
    PROVE  Joined(a, Append(q, x)) = Append(Joined(a, q), x.msg)
  <1>1. PICK r : r = Append(q, x)
    OBVIOUS
  <1>2. /\ r \in Seq(Copy) /\ Len(r) = Len(q) + 1 /\ Len(q) \in Nat /\ Len(a) \in Nat
        /\ \A i \in 1..Len(q) : r[i] = q[i]
        /\ r[Len(q) + 1] = x
    BY <1>1, AppendLen
  <1>3. x.msg \in Msg
    BY DEF Copy
  <1>4. PICK j : j = Joined(a, q)
    OBVIOUS
  <1>5. /\ j \in Seq(Msg) /\ Len(j) = Len(a) + Len(q)
        /\ \A i \in 1..Len(a) : j[i] = a[i]
        /\ \A i \in Len(a) + 1..Len(a) + Len(q) : j[i] = q[i - Len(a)].msg
    BY <1>4, JoinedParts
  <1>6. PICK s : s = Append(j, x.msg)
    OBVIOUS
  <1>7. /\ s \in Seq(Msg) /\ Len(s) = Len(j) + 1
        /\ \A i \in 1..Len(j) : s[i] = j[i]
        /\ s[Len(j) + 1] = x.msg
    BY <1>3, <1>5, <1>6, AppendLen
  <1>8. PICK u : u = Joined(a, r)
    OBVIOUS
  <1>9. /\ u \in Seq(Msg) /\ Len(u) = Len(a) + Len(r)
        /\ \A i \in 1..Len(a) : u[i] = a[i]
        /\ \A i \in Len(a) + 1..Len(a) + Len(r) : u[i] = r[i - Len(a)].msg
    BY <1>2, <1>8, JoinedParts
  <1>10. ASSUME NEW i \in 1..Len(u) PROVE u[i] = s[i]
    <2>1. CASE i \in 1..Len(a)
      BY <1>2, <1>5, <1>7, <1>9, <2>1
    <2>2. CASE i \in Len(a) + 1..Len(a) + Len(q)
      <3>1. i - Len(a) \in 1..Len(q) /\ i \in Len(a) + 1..Len(a) + Len(r) /\ i \in 1..Len(j)
        BY <1>2, <1>5, <2>2
      <3> QED BY <1>2, <1>5, <1>7, <1>9, <2>2, <3>1
    <2>3. CASE i = Len(j) + 1
      <3>1. i - Len(a) = Len(q) + 1 /\ i \in Len(a) + 1..Len(a) + Len(r)
        BY <1>2, <1>5, <2>3
      <3> QED BY <1>2, <1>7, <1>9, <2>3, <3>1
    <2>4. Len(u) = Len(a) + Len(q) + 1 /\ Len(j) = Len(a) + Len(q)
      BY <1>2, <1>5, <1>9
    <2>5. i \in 1..Len(a) \/ i \in Len(a) + 1..Len(a) + Len(q) \/ i = Len(j) + 1
      BY <1>2, <2>4
    <2> QED BY <2>1, <2>2, <2>3, <2>5
  <1>11. u = s
    <2>1. Len(u) = Len(s)
      BY <1>2, <1>5, <1>7, <1>9
    <2> QED BY <1>7, <1>9, <1>10, <2>1, SameSeq
  <1> QED BY <1>1, <1>4, <1>6, <1>8, <1>11

\* The first copy goes, and its message to the received ones or not.
LEMMA JoinedTail ==
    ASSUME NEW a \in Seq(Msg), NEW q \in Seq(Copy), q # <<>>
    PROVE  /\ Joined(Append(a, Head(q).msg), Tail(q)) = Joined(a, q)
           /\ Joined(a, Tail(q)) \in Seq(Msg) /\ Len(Joined(a, q)) = Len(Joined(a, Tail(q))) + 1
           /\ Len(a) \in Nat /\ Len(a) < Len(Joined(a, q))
           /\ Joined(a, q)[Len(a) + 1] = Head(q).msg
           /\ \A i \in 1..Len(a) : Joined(a, Tail(q))[i] = Joined(a, q)[i]
           /\ \A i \in Len(a) + 1..Len(Joined(a, Tail(q))) :
                 Joined(a, Tail(q))[i] = Joined(a, q)[i + 1]
  <1>1. PICK r, c : r = Tail(q) /\ c = Head(q)
    OBVIOUS
  <1>2. /\ r \in Seq(Copy) /\ Len(q) = Len(r) + 1 /\ Len(r) \in Nat /\ Len(a) \in Nat
        /\ \A i \in 1..Len(r) : r[i] = q[i + 1]
        /\ c = q[1] /\ c \in Copy
    BY <1>1, TailLen
  <1>3. c.msg \in Msg
    BY <1>2 DEF Copy
  <1>4. PICK b : b = Append(a, c.msg)
    OBVIOUS
  <1>5. /\ b \in Seq(Msg) /\ Len(b) = Len(a) + 1
        /\ \A i \in 1..Len(a) : b[i] = a[i]
        /\ b[Len(a) + 1] = c.msg
    BY <1>3, <1>4, AppendLen
  <1>6. PICK j : j = Joined(a, q)
    OBVIOUS
  <1>7. /\ j \in Seq(Msg) /\ Len(j) = Len(a) + Len(q)
        /\ \A i \in 1..Len(a) : j[i] = a[i]
        /\ \A i \in Len(a) + 1..Len(a) + Len(q) : j[i] = q[i - Len(a)].msg
    BY <1>6, JoinedParts
  <1>8. PICK u : u = Joined(b, r)
    OBVIOUS
  <1>9. /\ u \in Seq(Msg) /\ Len(u) = Len(b) + Len(r)
        /\ \A i \in 1..Len(b) : u[i] = b[i]
        /\ \A i \in Len(b) + 1..Len(b) + Len(r) : u[i] = r[i - Len(b)].msg
    BY <1>2, <1>5, <1>8, JoinedParts
  <1>10. PICK v : v = Joined(a, r)
    OBVIOUS
  <1>11. /\ v \in Seq(Msg) /\ Len(v) = Len(a) + Len(r)
         /\ \A i \in 1..Len(a) : v[i] = a[i]
         /\ \A i \in Len(a) + 1..Len(a) + Len(r) : v[i] = r[i - Len(a)].msg
    BY <1>2, <1>10, JoinedParts
  <1>12. j[Len(a) + 1] = c.msg
    <2>1. Len(a) + 1 \in Len(a) + 1..Len(a) + Len(q) /\ Len(a) + 1 - Len(a) = 1
      BY <1>2
    <2>2. j[Len(a) + 1] = q[1].msg
      BY <1>7, <2>1
    <2> QED BY <1>2, <2>2
  <1>13. ASSUME NEW i \in 1..Len(u) PROVE u[i] = j[i]
    <2>1. CASE i \in 1..Len(a)
      <3>1. i \in 1..Len(b)
        BY <1>2, <1>5, <2>1
      <3> QED BY <1>5, <1>7, <1>9, <2>1, <3>1
    <2>2. CASE i = Len(a) + 1
      <3>1. i \in 1..Len(b)
        BY <1>2, <1>5, <2>2
      <3> QED BY <1>5, <1>9, <1>12, <2>2, <3>1
    <2>3. CASE i \in Len(a) + 2..Len(a) + Len(q)
      <3>1. /\ i \in Len(b) + 1..Len(b) + Len(r) /\ i \in Len(a) + 1..Len(a) + Len(q)
            /\ i - Len(b) \in 1..Len(r) /\ i - Len(b) + 1 = i - Len(a)
        BY <1>2, <1>5, <2>3
      <3>2. u[i] = r[i - Len(b)].msg /\ j[i] = q[i - Len(a)].msg
        BY <1>7, <1>9, <3>1
      <3> QED BY <1>2, <3>1, <3>2
    <2> QED BY <1>2, <1>5, <1>9, <2>1, <2>2, <2>3
  <1>14. u = j
    <2>1. Len(u) = Len(j)
      BY <1>2, <1>5, <1>7, <1>9
    <2> QED BY <1>7, <1>9, <1>13, <2>1, SameSeq
  <1>15. ASSUME NEW i \in Len(a) + 1..Len(v) PROVE v[i] = j[i + 1]
    <2>1. /\ i + 1 \in Len(a) + 1..Len(a) + Len(q) /\ i \in Len(a) + 1..Len(a) + Len(r)
          /\ i - Len(a) \in 1..Len(r) /\ i - Len(a) + 1 = i + 1 - Len(a)
      BY <1>2, <1>11
    <2>2. v[i] = r[i - Len(a)].msg /\ j[i + 1] = q[i + 1 - Len(a)].msg
      BY <1>7, <1>11, <2>1
    <2> QED BY <1>2, <2>1, <2>2
  <1>16. /\ Len(j) = Len(v) + 1 /\ Len(a) < Len(j) /\ \A i \in 1..Len(a) : v[i] = j[i]
    BY <1>2, <1>7, <1>11
  <1> QED BY <1>1, <1>2, <1>4, <1>6, <1>8, <1>10, <1>11, <1>12, <1>14, <1>15, <1>16

----------------------------------------------------------------------------
(* One message more or fewer *)

\* A message at the end is one that was there, or one that none was behind.
LEMMA OrderAppend ==
    ASSUME NEW s \in Seq(Msg), NEW m \in Msg, Ordered(s), Once(s)
    PROVE  /\ m \in ToSet(s) \/ (\A l \in ToSet(s) : ~Before(m, l)) => Ordered(Append(s, m))
           /\ m \notin ToSet(s) \/ m \notin Single => Once(Append(s, m))
  <1>1. PICK u : u = Append(s, m)
    OBVIOUS
  <1>2. /\ u \in Seq(Msg) /\ Len(u) = Len(s) + 1 /\ Len(s) \in Nat
        /\ \A i \in 1..Len(s) : u[i] = s[i]
        /\ u[Len(s) + 1] = m
    BY <1>1, AppendLen
  <1>3. DOMAIN u = 1..Len(s) + 1 /\ DOMAIN s = 1..Len(s)
    BY <1>2
  <1>4. \A i \in DOMAIN u : (i \in DOMAIN s /\ u[i] = s[i]) \/ (i = Len(s) + 1 /\ u[i] = m)
    BY <1>2, <1>3
  <1>5. \A i \in DOMAIN s : i \in DOMAIN u /\ u[i] = s[i] /\ i < Len(s) + 1 /\ s[i] \in ToSet(s)
    <2>1. \A i \in DOMAIN s : s[i] \in ToSet(s)
      BY DEF ToSet
    <2> QED BY <1>2, <1>3, <2>1
  <1>6. \A l \in ToSet(s) : \E k \in DOMAIN s : s[k] = l
    BY DEF ToSet
  <1>7. ASSUME m \in ToSet(s) \/ (\A l \in ToSet(s) : ~Before(m, l)) PROVE Ordered(u)
    <2>1. ASSUME NEW i \in DOMAIN u, NEW j \in DOMAIN u, i < j, Before(u[j], u[i])
          PROVE  \E k \in DOMAIN u : k < i /\ u[k] = u[j]
      <3>1. i \in DOMAIN s /\ u[i] = s[i]
        BY <1>2, <1>3, <1>4, <2>1
      <3>2. CASE j \in DOMAIN s /\ u[j] = s[j]
        <4>1. PICK k \in DOMAIN s : k < i /\ s[k] = s[j]
          BY <2>1, <3>1, <3>2 DEF Ordered
        <4> QED BY <1>5, <3>2, <4>1
      <3>3. CASE u[j] = m
        <4>1. PICK k \in DOMAIN s : s[k] = m
          BY <1>5, <1>6, <1>7, <2>1, <3>1, <3>3
        <4>2. i # k
          BY <2>1, <3>1, <3>3, <4>1, BeforeRight
        <4>3. CASE k < i
          BY <1>5, <3>3, <4>1, <4>3
        <4>4. CASE i < k
          <5>1. PICK l \in DOMAIN s : l < i /\ s[l] = s[k]
            BY <2>1, <3>1, <3>3, <4>1, <4>4 DEF Ordered
          <5> QED BY <1>5, <3>3, <4>1, <5>1
        <4>5. i < k \/ k < i
          BY <1>2, <1>3, <3>1, <4>2
        <4> QED BY <4>3, <4>4, <4>5
      <3> QED BY <1>4, <2>1, <3>2, <3>3
    <2> QED BY <2>1 DEF Ordered
  <1>8. ASSUME m \notin ToSet(s) \/ m \notin Single PROVE Once(u)
    <2>1. ASSUME NEW i \in DOMAIN u, NEW j \in DOMAIN u, u[i] = u[j], u[i] \in Single
          PROVE  i = j
      <3>1. CASE i \in DOMAIN s /\ j \in DOMAIN s
        BY <1>5, <2>1, <3>1 DEF Once
      <3> QED BY <1>4, <1>5, <1>8, <2>1, <3>1
    <2> QED BY <2>1 DEF Once
  <1> QED BY <1>1, <1>7, <1>8

\* A message that is there once goes.
LEMMA OrderRemove ==
    ASSUME NEW s \in Seq(Msg), NEW u \in Seq(Msg), NEW p \in Nat, p < Len(s), Len(s) = Len(u) + 1,
           \A i \in 1..p : u[i] = s[i], \A i \in p + 1..Len(u) : u[i] = s[i + 1],
           s[p + 1] \in Single, Ordered(s), Once(s)
    PROVE  /\ Ordered(u) /\ Once(u) /\ ToSet(u) \subseteq ToSet(s)
           /\ \A m \in ToSet(s) : m # s[p + 1] => m \in ToSet(u)
  <1>1. PICK at : at = [i \in DOMAIN u |-> IF i <= p THEN i ELSE i + 1]
    OBVIOUS
  <1>2. Len(u) \in Nat /\ DOMAIN u = 1..Len(u) /\ DOMAIN s = 1..Len(u) + 1
    OBVIOUS
  <1>3. ASSUME NEW i \in DOMAIN u
        PROVE  at[i] \in DOMAIN s /\ u[i] = s[at[i]] /\ at[i] # p + 1
    BY <1>1, <1>2
  <1>4. \A i, j \in DOMAIN u : (i < j <=> at[i] < at[j]) /\ (i = j <=> at[i] = at[j])
    BY <1>1, <1>2
  <1>5. \A i \in DOMAIN s : i # p + 1 => \E k \in DOMAIN u : at[k] = i
    <2>1. ASSUME NEW i \in DOMAIN s, i # p + 1 PROVE \E k \in DOMAIN u : at[k] = i
      <3>1. CASE i <= p
        <4>1. i \in DOMAIN u
          BY <1>2, <2>1, <3>1
        <4> QED BY <1>1, <3>1, <4>1
      <3>2. CASE i > p + 1
        <4>1. i - 1 \in DOMAIN u /\ ~(i - 1 <= p) /\ i - 1 + 1 = i
          BY <1>2, <2>1, <3>2
        <4> QED BY <1>1, <4>1
      <3> QED BY <1>2, <2>1, <3>1, <3>2
    <2> QED BY <2>1
  <1>6. Once(u)
    BY <1>3, <1>4 DEF Once
  <1>7. ASSUME NEW i \in DOMAIN u, NEW j \in DOMAIN u, i < j, Before(u[j], u[i])
        PROVE  \E k \in DOMAIN u : k < i /\ u[k] = u[j]
    <2>1. PICK k \in DOMAIN s : k < at[i] /\ s[k] = s[at[j]]
      BY <1>3, <1>4, <1>7 DEF Ordered
    <2>2. k # p + 1
      <3>1. ASSUME k = p + 1 PROVE FALSE
        <4>1. k = at[j]
          BY <1>3, <2>1, <3>1 DEF Once
        <4> QED BY <1>3, <3>1, <4>1
      <3> QED BY <3>1
    <2>3. PICK l \in DOMAIN u : at[l] = k
      BY <1>5, <2>2
    <2> QED BY <1>3, <1>4, <2>1, <2>3
  <1>8. Ordered(u)
    BY <1>7 DEF Ordered
  <1>9. ToSet(u) \subseteq ToSet(s)
    BY <1>3 DEF ToSet
  <1>10. ASSUME NEW m \in ToSet(s), m # s[p + 1] PROVE m \in ToSet(u)
    <2>1. PICK i \in DOMAIN s : s[i] = m
      BY DEF ToSet
    <2>2. PICK k \in DOMAIN u : at[k] = i
      BY <1>5, <1>10, <2>1
    <2>3. u[k] = m
      BY <1>3, <2>1, <2>2
    <2> QED BY <2>3 DEF ToSet
  <1> QED BY <1>6, <1>8, <1>9, <1>10

----------------------------------------------------------------------------
(* Steps that give nothing *)

LEMMA SeenType ==
    ASSUME TypeOK, NEW e \in Apps
    PROVE  inbox[e] \in Seq(Msg) /\ queue[e] \in Seq(Copy) /\ Seen(e) \in Seq(Msg)
  <1>1. inbox[e] \in Seq(Msg) /\ queue[e] \in Seq(Copy)
    BY Names DEF TypeOK
  <1> QED BY <1>1, JoinedParts DEF Seen

\* A raw message is in one place from where it can cross.
LEMMA Places ==
    ASSUME BridgedInv, NEW n \in Net, NEW o \in Net, NEW m
    PROVE  /\ Crosses(n, m) /\ Crosses(o, m) => n = o
           /\ ~(Crosses(n, m) /\ Waits(o, m))
           /\ m \in Raw /\ Waits(n, m) /\ Waits(o, m) => n = o
           /\ Crosses(n, m) => m \in Raw
  <1>1. OneFrame /\ OneWaits /\ OneOrOther
    BY DEF BridgedInv, TokenInv
  <1>2. ASSUME Crosses(n, m) PROVE m \in Raw
    <2>1. PICK i \in DOMAIN wire[n] : wire[n][i] # Hello /\ wire[n][i].msg = m
      BY <1>2 DEF Crosses
    <2>2. wire[n][i] \in Frame
      BY <2>1, TokenParts
    <2> QED BY <2>1, <2>2 DEF Frame
  <1> QED BY <1>1, <1>2 DEF OneFrame, OneWaits, OneOrOther, Crosses, Waits

LEMMA FewerPlaces ==
    ASSUME \E d \in [Net -> {0, 1}] : WireFrom(d), \E d \in [Net -> {0, 1}] : WaitsFrom(d),
           NEW n \in Net, NEW m
    PROVE  (Crosses(n, m)' => Crosses(n, m)) /\ (Waits(n, m)' => Waits(n, m))
  <1>1. PICK d \in [Net -> {0, 1}] : WireFrom(d)
    OBVIOUS
  <1>2. PICK q \in [Net -> {0, 1}] : WaitsFrom(q)
    OBVIOUS
  <1>3. ASSUME Crosses(n, m)' PROVE Crosses(n, m)
    <2>1. PICK i \in DOMAIN wire'[n] : wire'[n][i] # Hello /\ wire'[n][i].msg = m
      BY <1>3 DEF Crosses
    <2> QED BY <1>1, <2>1 DEF WireFrom, Crosses
  <1>4. ASSUME Waits(n, m)' PROVE Waits(n, m)
    <2>1. PICK i \in DOMAIN Waiting(n)' : Waiting(n)'[i].msg = m
      BY <1>4 DEF Waits
    <2> QED BY <1>2, <2>1 DEF WaitsFrom, Waits
  <1> QED BY <1>3, <1>4

\* Order among those that are left.
LEMMA FewerWait ==
    ASSUME NEW n \in Net, WaitsInOrder(n), \E d \in [Net -> {0, 1}] : WaitsFrom(d),
           \A m : Waits(n, m)' /\ laps'[m] = 0 => laps[m] = 0
    PROVE  WaitsInOrder(n)'
  <1>1. PICK d \in [Net -> {0, 1}] : WaitsFrom(d)
    OBVIOUS
  <1>2. ASSUME NEW i \in DOMAIN Waiting(n)', NEW j \in DOMAIN Waiting(n)',
               laps'[Waiting(n)'[i].msg] = 0, laps'[Waiting(n)'[j].msg] = 0,
               Before(Waiting(n)'[j].msg, Waiting(n)'[i].msg)
        PROVE  j < i
    <2>1. PICK k \in DOMAIN Waiting(n) :
             k = i + d[n] /\ i \in Nat /\ Waiting(n)[k].msg = Waiting(n)'[i].msg
      BY <1>1 DEF WaitsFrom
    <2>2. PICK l \in DOMAIN Waiting(n) :
             l = j + d[n] /\ j \in Nat /\ Waiting(n)[l].msg = Waiting(n)'[j].msg
      BY <1>1 DEF WaitsFrom
    <2>3. laps[Waiting(n)[k].msg] = 0 /\ laps[Waiting(n)[l].msg] = 0
      BY <1>2, <2>1, <2>2 DEF Waits
    <2>4. l < k
      BY <1>2, <2>1, <2>2, <2>3 DEF WaitsInOrder
    <2>5. d[n] \in Nat
      OBVIOUS
    <2> QED BY <2>1, <2>2, <2>4, <2>5
  <1> QED BY <1>2 DEF WaitsInOrder

LEMMA FewerCross ==
    ASSUME NEW n \in Net, CrossesInOrder(n), \E d \in [Net -> {0, 1}] : WireFrom(d),
           \A m : Crosses(n, m)' /\ laps'[m] = 1 => laps[m] = 1
    PROVE  CrossesInOrder(n)'
  <1>1. PICK d \in [Net -> {0, 1}] : WireFrom(d)
    OBVIOUS
  <1>2. ASSUME NEW i \in DOMAIN wire'[n], NEW j \in DOMAIN wire'[n],
               wire'[n][i] # Hello, wire'[n][j] # Hello,
               laps'[wire'[n][i].msg] = 1, laps'[wire'[n][j].msg] = 1,
               Before(wire'[n][j].msg, wire'[n][i].msg)
        PROVE  j < i
    <2>1. PICK k \in DOMAIN wire[n] :
             k = i + d[n] /\ i \in Nat /\ wire[n][k] # Hello /\ wire[n][k].msg = wire'[n][i].msg
      BY <1>1, <1>2 DEF WireFrom
    <2>2. PICK l \in DOMAIN wire[n] :
             l = j + d[n] /\ j \in Nat /\ wire[n][l] # Hello /\ wire[n][l].msg = wire'[n][j].msg
      BY <1>1, <1>2 DEF WireFrom
    <2>3. laps[wire[n][k].msg] = 1 /\ laps[wire[n][l].msg] = 1
      BY <1>2, <2>1, <2>2 DEF Crosses
    <2>4. l < k
      BY <1>2, <2>1, <2>2, <2>3 DEF CrossesInOrder
    <2>5. d[n] \in Nat
      OBVIOUS
    <2> QED BY <2>1, <2>2, <2>4, <2>5
  <1> QED BY <1>2 DEF CrossesInOrder

\* An application gets no message, and loses at most a sync message.
SeenKept(e) ==
    /\ Ordered(Seen(e))' /\ Once(Seen(e))'
    /\ \A m : Has(e, m)' => Has(e, m)
    /\ \A m \in Raw : Has(e, m) => Has(e, m)'

LEMMA SeenSame ==
    ASSUME NEW e \in Apps, Ordered(Seen(e)), Once(Seen(e)), Seen(e)' = Seen(e)
    PROVE  SeenKept(e)
  BY DEF SeenKept, Has

LEMMA RecvSeen ==
    ASSUME BridgedInv, OrderInv, NEW f \in Apps, Recv(f), NEW e \in Apps
    PROVE  SeenKept(e)
  <1>1. /\ TypeOK /\ f \in Ep /\ queue[f] # <<>> /\ queue' = [queue EXCEPT ![f] = Tail(@)]
        /\ inbox' = [inbox EXCEPT ![f] = Append(@, Head(queue[f]).msg)]
        /\ inbox \in [Apps -> Seq(Msg)] /\ e \in Ep
    BY Names DEF BridgedInv, Types, Recv, TypeOK
  <1>2. CASE e = f
    <2>1. queue'[e] = Tail(queue[e]) /\ inbox'[e] = Append(inbox[e], Head(queue[e]).msg)
      BY <1>1, <1>2, QueueTail
    <2>2. Joined(Append(inbox[e], Head(queue[e]).msg), Tail(queue[e])) = Joined(inbox[e], queue[e])
      BY <1>1, <1>2, SeenType, JoinedTail
    <2>3. Seen(e)' = Seen(e)
      BY <2>1, <2>2 DEF Seen
    <2> QED BY <2>3, SeenSame DEF OrderInv
  <1>3. CASE e # f
    <2>1. queue'[e] = queue[e] /\ inbox'[e] = inbox[e]
      BY <1>1, <1>3, QueueTail
    <2>2. Seen(e)' = Seen(e)
      BY <2>1 DEF Seen
    <2> QED BY <2>2, SeenSame DEF OrderInv
  <1> QED BY <1>2, <1>3

LEMMA DiscardSeen ==
    ASSUME BridgedInv, OrderInv, NEW f \in Apps, Discard(f), NEW e \in Apps
    PROVE  SeenKept(e)
  <1>1. /\ TypeOK /\ f \in Ep /\ queue[f] # <<>> /\ queue' = [queue EXCEPT ![f] = Tail(@)]
        /\ inbox' = inbox /\ Head(queue[f]).msg \in SyncMsg /\ e \in Ep
    BY Names DEF BridgedInv, Types, Discard, ends
  <1>2. CASE e = f
    <2>1. queue'[e] = Tail(queue[e]) /\ inbox'[e] = inbox[e]
      BY <1>1, <1>2, QueueTail
    <2>2. PICK u : u = Joined(inbox[e], Tail(queue[e]))
      OBVIOUS
    <2>3. Seen(e)' = u
      BY <2>1, <2>2 DEF Seen
    <2>4. PICK p : p = Len(inbox[e])
      OBVIOUS
    <2>5. /\ u \in Seq(Msg) /\ p \in Nat /\ p < Len(Seen(e)) /\ Len(Seen(e)) = Len(u) + 1
          /\ \A i \in 1..p : u[i] = Seen(e)[i]
          /\ \A i \in p + 1..Len(u) : u[i] = Seen(e)[i + 1]
          /\ Seen(e)[p + 1] = Head(queue[e]).msg
      <3>1. inbox[e] \in Seq(Msg) /\ queue[e] \in Seq(Copy) /\ queue[e] # <<>>
        BY <1>1, <1>2, SeenType
      <3>2. u = Joined(inbox[e], Tail(queue[e])) /\ p = Len(inbox[e])
        BY <2>2, <2>4
      <3>3. /\ u \in Seq(Msg) /\ p \in Nat
            /\ p < Len(Joined(inbox[e], queue[e]))
            /\ Len(Joined(inbox[e], queue[e])) = Len(u) + 1
            /\ Joined(inbox[e], queue[e])[p + 1] = Head(queue[e]).msg
        BY <3>1, <3>2, JoinedTail
      <3>4. /\ \A i \in 1..p : u[i] = Joined(inbox[e], queue[e])[i]
            /\ \A i \in p + 1..Len(u) : u[i] = Joined(inbox[e], queue[e])[i + 1]
        BY <3>1, <3>2, JoinedTail
      <3> QED BY <3>3, <3>4 DEF Seen
    <2>6. Seen(e)[p + 1] \in Single /\ Seen(e)[p + 1] \notin Raw
      BY <1>1, <1>2, <2>5 DEF Single, Raw
    <2>7. Seen(e) \in Seq(Msg) /\ Ordered(Seen(e)) /\ Once(Seen(e))
      BY <1>1, SeenType DEF OrderInv
    <2>8. /\ Ordered(u) /\ Once(u) /\ ToSet(u) \subseteq ToSet(Seen(e))
          /\ \A m \in ToSet(Seen(e)) : m # Seen(e)[p + 1] => m \in ToSet(u)
      BY <2>5, <2>6, <2>7, OrderRemove
    <2> QED BY <2>3, <2>6, <2>8 DEF SeenKept, Has
  <1>3. CASE e # f
    <2>1. queue'[e] = queue[e] /\ inbox'[e] = inbox[e]
      BY <1>1, <1>3, QueueTail
    <2>2. Seen(e)' = Seen(e)
      BY <2>1 DEF Seen
    <2> QED BY <2>2, SeenSame DEF OrderInv
  <1> QED BY <1>2, <1>3

\* Steps that send, give and write nothing.
LEMMA QuietStep ==
    ASSUME BridgedInv, OrderInv, UNCHANGED <<laps, src, next>>,
           \E d \in [Net -> {0, 1}] : WireFrom(d), \E d \in [Net -> {0, 1}] : WaitsFrom(d),
           \A e \in Apps : addr'[e] = addr[e] /\ SeenKept(e),
           \A n \in Net : rx'[n] = "read" => addr'[Bridge[n]].sid = Sid[Other(n)]
    PROVE  OrderInv'
  <1>1. laps' = laps /\ src' = src /\ \A m : Sent(m)' <=> Sent(m)
    BY DEF Sent
  <1>2. \A n \in Net : \A m : (Crosses(n, m)' => Crosses(n, m)) /\ (Waits(n, m)' => Waits(n, m))
    BY FewerPlaces
  <1>3. AllSent'
    BY <1>1, <1>2 DEF AllSent, OrderInv, SeenKept
  <1>4. \A n \in Net : Other(n) \in Net
    BY OtherNet
  <1>5. ASSUME NEW n \in Net, NEW m, Reached(n, m)' PROVE Reached(n, m)
    BY <1>1, <1>2, <1>4, <1>5 DEF Reached
  <1>6. ASSUME NEW e \in Apps PROVE Served(e)'
    <2>1. ASSUME NEW m \in Raw, Sent(m)', Reached(NetOf[e], m)',
                 Accepts(Sid[NetOf[e]], m, src'[m], addr'[e])
          PROVE  Has(e, m)'
      <3>1. Sent(m) /\ Reached(NetOf[e], m) /\ Accepts(Sid[NetOf[e]], m, src[m], addr[e])
        BY <1>1, <1>5, <2>1, Names, NetAssumption
      <3> QED BY <3>1 DEF Served, OrderInv, SeenKept
    <2> QED BY <2>1 DEF Served
  <1>7. ASSUME NEW n \in Net PROVE WaitsInOrder(n)' /\ CrossesInOrder(n)'
    BY <1>1, FewerWait, FewerCross DEF OrderInv
  <1>8. ASSUME NEW n \in Net PROVE Behind(n)'
    <2>1. Behind(n) /\ Other(n) \in Net
      BY <1>4 DEF OrderInv
    <2>2. \A m : (FirstWaits(n, m)' => FirstWaits(n, m))
                 /\ (FirstCrosses(Other(n), m)' => FirstCrosses(Other(n), m))
      BY <1>1, <1>2, <2>1 DEF FirstWaits, FirstCrosses
    <2>3. \A e \in Apps : \A m : Has(e, m)' => Has(e, m)
      BY DEF SeenKept
    <2> QED BY <2>1, <2>2, <2>3 DEF Behind
  <1>9. ASSUME NEW n \in Net PROVE Outward(n)'
    <2>1. Outward(n) /\ Other(n) \in Net
      BY <1>4 DEF OrderInv
    <2>2. \A e \in Apps : \A m : Has(e, m)' => Has(e, m)
      BY DEF SeenKept
    <2> QED BY <1>2, <2>1, <2>2 DEF Outward
  <1>10. ASSUME NEW e \in Apps PROVE Ordered(Seen(e))' /\ Once(Seen(e))'
    BY DEF SeenKept
  <1> QED BY <1>3, <1>6, <1>7, <1>8, <1>9, <1>10 DEF OrderInv

LEMMA QuietOrder ==
    ASSUME BridgedInv, OrderInv,
           \/ \E t \in Thread : Edit(t)
           \/ \E e \in Apps : Recv(e) \/ Discard(e)
           \/ \E n \in Net : TxHello(n) \/ TxSync(n) \/ RxHello(n) \/ RxEnd(n)
           \/ Break
           \/ UNCHANGED vars
    PROVE  OrderInv'
  <1>1. (\E d \in [Net -> {0, 1}] : WireFrom(d)) /\ (\E d \in [Net -> {0, 1}] : WaitsFrom(d))
    BY QuietPlaces
  <1>2. UNCHANGED <<laps, src, next>>
    BY DEF Edit, Recv, Discard, TxHello, TxSync, RxHello, RxEnd, Break, app, link, vars
  <1>3. \A n \in Net : Outward(n) /\ Bridge[n] \in Ep /\ Bridge[n] \notin Apps
    BY Names DEF OrderInv
  <1>4. ASSUME NEW e \in Apps PROVE SeenKept(e)
    <2>1. CASE \E f \in Apps : Recv(f) \/ Discard(f)
      BY <2>1, RecvSeen, DiscardSeen
    <2>2. CASE ~ \E f \in Apps : Recv(f) \/ Discard(f)
      <3>1. inbox' = inbox /\ (queue' = queue \/ \E n \in Net : TxSync(n))
        BY <2>2 DEF Edit, TxHello, TxSync, RxHello, RxEnd, Break, ends, vars
      <3>2. queue'[e] = queue[e]
        <4>1. ASSUME NEW n \in Net, TxSync(n) PROVE queue'[e] = queue[e]
          <5>1. TypeOK /\ queue[Bridge[n]] # <<>> /\ queue' = [queue EXCEPT ![Bridge[n]] = Tail(@)]
            BY <4>1 DEF TxSync, BridgedInv, Types
          <5>2. e \in Ep \ {Bridge[n]}
            BY <1>3, Names
          <5> QED BY <1>3, <5>1, <5>2, QueueTail
        <4> QED BY <3>1, <4>1
      <3>3. Seen(e)' = Seen(e)
        BY <3>1, <3>2 DEF Seen
      <3> QED BY <3>3, SeenSame DEF OrderInv
    <2> QED BY <2>1, <2>2
  <1>5. CASE \E n \in Net : RxHello(n)
    <2>1. PICK n \in Net : RxHello(n)
      BY <1>5
    <2>2. addr' = [addr EXCEPT ![Bridge[n]] = [addr[Bridge[n]] EXCEPT !.sid = Sid[Other(n)]]]
      BY <2>1 DEF RxHello
    <2>3. addr \in [Ep -> Address] /\ rx \in [Net -> {"hello", "read", "ended"}]
      BY DEF BridgedInv, Types, TypeOK
    <2>4. addr'[Bridge[n]].sid = Sid[Other(n)] /\ \A e \in Ep : e # Bridge[n] => addr'[e] = addr[e]
      BY <1>3, <2>2, <2>3 DEF Address
    <2>5. \A o \in Net : o # n => rx'[o] = rx[o]
      BY <2>1, <2>3 DEF RxHello
    <2>6. \A o \in Net : o # n => Bridge[o] # Bridge[n]
      BY Names
    <2>7. \A e \in Apps : addr'[e] = addr[e]
      BY <1>3, <2>4, Names
    <2>8. ASSUME NEW o \in Net, rx'[o] = "read" PROVE addr'[Bridge[o]].sid = Sid[Other(o)]
      <3>1. CASE o = n
        BY <2>4, <3>1
      <3>2. CASE o # n
        BY <1>3, <2>4, <2>5, <2>6, <2>8, <3>2 DEF Outward
      <3> QED BY <3>1, <3>2
    <2> QED BY <1>1, <1>2, <1>4, <2>7, <2>8, QuietStep
  <1>6. CASE ~ \E n \in Net : RxHello(n)
    <2>1. addr' = addr
      BY <1>6 DEF Edit, Recv, Discard, TxHello, TxSync, RxEnd, Break, vars
    <2>2. rx' = rx \/ \E n \in Net : rx' = [rx EXCEPT ![n] = "ended"]
      BY <1>6 DEF Edit, Recv, Discard, TxHello, TxSync, RxEnd, Break, link, vars
    <2>3. \A n \in Net : rx'[n] = "read" => rx[n] = "read"
      <3>1. rx \in [Net -> {"hello", "read", "ended"}]
        BY DEF BridgedInv, Types, TypeOK
      <3> QED BY <2>2, <3>1
    <2>4. \A n \in Net : rx'[n] = "read" => addr'[Bridge[n]].sid = Sid[Other(n)]
      BY <1>3, <2>1, <2>3 DEF Outward
    <2> QED BY <1>1, <1>2, <1>4, <2>1, <2>4, QuietStep
  <1> QED BY <1>5, <1>6

----------------------------------------------------------------------------
(* What a give adds *)

\* Message m from address s is for endpoint e of net n.
For(n, m, s, e) == NetOf[e] = n /\ Accepts(Sid[n], m, s, addr[e])

\* The endpoints of net n it is for get copy x, and nobody else gets anything.
Given(n, m, s, x) ==
    /\ \A e \in Apps : Seen(e)' = IF For(n, m, s, e) THEN Append(Seen(e), m) ELSE Seen(e)
    /\ \A o \in Net : Waiting(o)' = IF For(n, m, s, Bridge[o]) THEN Append(Waiting(o), x)
                                    ELSE Waiting(o)

LEMMA GiveGiven ==
    ASSUME TypeOK, NEW n \in Net, NEW m \in Msg, NEW b \in Buf \cup {None},
           NEW x \in Copy, x = [msg |-> m, buf |-> b], NEW s, s = src'[m],
           GiveAll(n, m, b), UNCHANGED inbox
    PROVE  Given(n, m, s, x)
  <1>1. \A e \in Ep : queue'[e] = IF e \in Takers(n, m) THEN Append(queue[e], x) ELSE queue[e]
    BY DEF GiveAll
  <1>2. \A e \in Ep : e \in Takers(n, m) <=> For(n, m, s, e)
    BY DEF Takers, For
  <1>3. \A e \in Ep : queue'[e] = IF For(n, m, s, e) THEN Append(queue[e], x) ELSE queue[e]
    BY <1>1, <1>2
  <1>4. ASSUME NEW e \in Apps
        PROVE  Seen(e)' = IF For(n, m, s, e) THEN Append(Seen(e), m) ELSE Seen(e)
    <2>1. e \in Ep /\ inbox'[e] = inbox[e] /\ inbox[e] \in Seq(Msg) /\ queue[e] \in Seq(Copy)
      BY SeenType, Names
    <2>2. Joined(inbox[e], Append(queue[e], x)) = Append(Joined(inbox[e], queue[e]), m)
      <3>1. x.msg = m
        OBVIOUS
      <3> QED BY <2>1, <3>1, JoinedAppend
    <2>3. Seen(e)' = Joined(inbox[e], queue'[e])
      BY <2>1 DEF Seen
    <2> QED BY <1>3, <2>1, <2>2, <2>3 DEF Seen
  <1>5. \A o \in Net : Waiting(o)' = IF For(n, m, s, Bridge[o]) THEN Append(Waiting(o), x)
                                     ELSE Waiting(o)
    BY <1>3, Names DEF Waiting
  <1> QED BY <1>4, <1>5 DEF Given

LEMMA GivenSets ==
    ASSUME BridgedInv, NEW n \in Net, NEW m \in Msg, NEW x \in Copy, x.msg = m, NEW s,
           Given(n, m, s, x)
    PROVE  /\ \A e \in Apps : \A k : Has(e, k)' <=> Has(e, k) \/ (k = m /\ For(n, m, s, e))
           /\ \A o \in Net : \A k :
                 Waits(o, k)' <=> Waits(o, k) \/ (k = m /\ For(n, m, s, Bridge[o]))
  <1>1. TypeOK
    BY DEF BridgedInv, Types
  <1>2. ASSUME NEW e \in Apps, NEW k
        PROVE  Has(e, k)' <=> Has(e, k) \/ (k = m /\ For(n, m, s, e))
    <2>1. Seen(e) \in Seq(Msg) /\ Seen(e)' = IF For(n, m, s, e) THEN Append(Seen(e), m) ELSE Seen(e)
      BY <1>1, SeenType DEF Given
    <2>2. ToSet(Append(Seen(e), m)) = ToSet(Seen(e)) \cup {m}
      BY <2>1, AppendParts
    <2> QED BY <2>1, <2>2 DEF Has
  <1>3. ASSUME NEW o \in Net, NEW k
        PROVE  Waits(o, k)' <=> Waits(o, k) \/ (k = m /\ For(n, m, s, Bridge[o]))
    <2>1. Waiting(o) \in Seq(Copy)
      BY TokenParts
    <2>2. Waiting(o)' = IF For(n, m, s, Bridge[o]) THEN Append(Waiting(o), x) ELSE Waiting(o)
      BY DEF Given
    <2>3. Waits(o, k)' <=> \E i \in DOMAIN Waiting(o)' : Waiting(o)'[i].msg = k
      BY DEF Waits
    <2>4. CASE For(n, m, s, Bridge[o])
      <3>1. PICK u : u = Append(Waiting(o), x)
        OBVIOUS
      <3>2. /\ DOMAIN u = 1..Len(Waiting(o)) + 1 /\ DOMAIN Waiting(o) = 1..Len(Waiting(o))
            /\ Len(Waiting(o)) \in Nat /\ u[Len(Waiting(o)) + 1] = x
            /\ \A i \in 1..Len(Waiting(o)) : u[i] = Waiting(o)[i]
        BY <2>1, <3>1, AppendParts
      <3>3. Waiting(o)' = u
        BY <2>2, <2>4, <3>1
      <3>4. (\E i \in DOMAIN u : u[i].msg = k) <=> (\E i \in DOMAIN Waiting(o) : Waiting(o)[i].msg = k) \/ k = m
        <4>1. \A i \in DOMAIN u : (i \in DOMAIN Waiting(o) /\ u[i] = Waiting(o)[i]) \/ u[i] = x
          BY <3>2
        <4>2. Len(Waiting(o)) + 1 \in DOMAIN u /\ \A i \in DOMAIN Waiting(o) : i \in DOMAIN u
          BY <3>2
        <4> QED BY <3>2, <4>1, <4>2
      <3> QED BY <2>3, <2>4, <3>3, <3>4 DEF Waits
    <2>5. CASE ~For(n, m, s, Bridge[o])
      BY <2>2, <2>3, <2>5 DEF Waits
    <2> QED BY <2>4, <2>5
  <1> QED BY <1>2, <1>3

\* The copies come behind, and their message is new to whom no other may come twice.
LEMMA GivenSeen ==
    ASSUME BridgedInv, OrderInv, NEW n \in Net, NEW m \in Msg, NEW x \in Copy, x.msg = m, NEW s,
           Given(n, m, s, x),
           \A e \in Apps : For(n, m, s, e) =>
              /\ Has(e, m) \/ \A l \in Msg : Has(e, l) => ~Before(m, l)
              /\ ~Has(e, m) \/ m \notin Single,
           NEW e \in Apps
    PROVE  Ordered(Seen(e))' /\ Once(Seen(e))'
  <1>1. /\ Seen(e) \in Seq(Msg) /\ Ordered(Seen(e)) /\ Once(Seen(e))
        /\ Seen(e)' = IF For(n, m, s, e) THEN Append(Seen(e), m) ELSE Seen(e)
    BY SeenType DEF OrderInv, Given, BridgedInv, Types
  <1>2. CASE For(n, m, s, e)
    <2>1. /\ m \in ToSet(Seen(e)) \/ \A l \in Msg : l \in ToSet(Seen(e)) => ~Before(m, l)
          /\ m \notin ToSet(Seen(e)) \/ m \notin Single
      BY <1>2 DEF Has
    <2>2. \A l \in ToSet(Seen(e)) : l \in Msg
      BY <1>1 DEF ToSet
    <2>3. Ordered(Append(Seen(e), m)) /\ Once(Append(Seen(e), m))
      BY <1>1, <2>1, <2>2, OrderAppend
    <2> QED BY <1>1, <1>2, <2>3
  <1>3. CASE ~For(n, m, s, e)
    BY <1>1, <1>3
  <1> QED BY <1>2, <1>3

\* The message at the end of a queue has crossed, or none is behind it.
LEMMA GivenWaits ==
    ASSUME BridgedInv, OrderInv, NEW n \in Net, NEW m \in Msg, NEW x \in Copy, x.msg = m, NEW s,
           Given(n, m, s, x), UNCHANGED laps, NEW o \in Net,
           laps[m] # 0 \/ \A l \in Msg : Waits(o, l) => ~Before(m, l)
    PROVE  WaitsInOrder(o)'
  <1>1. /\ Waiting(o) \in Seq(Copy) /\ WaitsInOrder(o)
        /\ Waiting(o)' = IF For(n, m, s, Bridge[o]) THEN Append(Waiting(o), x) ELSE Waiting(o)
    BY TokenParts DEF OrderInv, Given
  <1>2. PICK u : u = Waiting(o)'
    OBVIOUS
  <1>3. ASSUME NEW i \in DOMAIN u
        PROVE  \/ i \in DOMAIN Waiting(o) /\ u[i] = Waiting(o)[i]
               \/ i = Len(Waiting(o)) + 1 /\ u[i] = x
    BY <1>1, <1>2, <1>3, AppendParts
  <1>4. \A i \in DOMAIN Waiting(o) : /\ i \in Nat /\ i < Len(Waiting(o)) + 1
                                     /\ Waits(o, Waiting(o)[i].msg) /\ Waiting(o)[i].msg \in Msg
    <2>1. ASSUME NEW i \in DOMAIN Waiting(o)
          PROVE  /\ i \in Nat /\ i < Len(Waiting(o)) + 1
                 /\ Waits(o, Waiting(o)[i].msg) /\ Waiting(o)[i].msg \in Msg
      <3>1. i \in Nat /\ i < Len(Waiting(o)) + 1 /\ Waiting(o)[i] \in Copy
        BY <1>1, <2>1
      <3> QED BY <2>1, <3>1 DEF Waits, Copy
    <2> QED BY <2>1
  <1>5. ASSUME NEW i \in DOMAIN u, NEW j \in DOMAIN u,
               laps[u[i].msg] = 0, laps[u[j].msg] = 0, Before(u[j].msg, u[i].msg)
        PROVE  j < i
    <2>1. CASE i \in DOMAIN Waiting(o) /\ j \in DOMAIN Waiting(o) /\ u[i] = Waiting(o)[i] /\ u[j] = Waiting(o)[j]
      BY <1>1, <1>5, <2>1 DEF WaitsInOrder
    <2>2. CASE i \in DOMAIN Waiting(o) /\ u[i] = Waiting(o)[i] /\ u[j] = x
      BY <1>4, <1>5, <2>2
    <2>3. CASE j \in DOMAIN Waiting(o) /\ i = Len(Waiting(o)) + 1
      BY <1>4, <2>3
    <2>4. CASE u[i] = x /\ u[j] = x
      BY <1>5, <2>4, BeforeRight
    <2> QED BY <1>3, <2>1, <2>2, <2>3, <2>4
  <1>6. laps' = laps
    OBVIOUS
  <1> QED BY <1>2, <1>5, <1>6 DEF WaitsInOrder

----------------------------------------------------------------------------
(* Sending and crossing *)

LEMMA SentMore ==
    ASSUME TypeOK, NEW t \in Thread, next[t] \in DOMAIN Script[t], next' = [next EXCEPT ![t] = @ + 1]
    PROVE  \A k : Sent(k)' <=> Sent(k) \/ k = Script[t][next[t]]
  <1>1. next \in [Thread -> Nat]
    BY DEF TypeOK
  <1>2. ASSUME NEW u \in Thread, NEW i \in DOMAIN Script[u]
        PROVE  i < next'[u] <=> i < next[u] \/ (u = t /\ i = next[t])
    <2>1. i \in Nat /\ next[u] \in Nat /\ next'[u] = IF u = t THEN next[u] + 1 ELSE next[u]
      BY <1>1, ScriptAssumption
    <2> QED BY <2>1
  <1>3. ASSUME NEW k, Sent(k)' PROVE Sent(k) \/ k = Script[t][next[t]]
    <2>1. PICK u \in Thread : \E i \in DOMAIN Script[u] : i < next'[u] /\ Script[u][i] = k
      BY <1>3 DEF Sent
    <2> QED BY <1>2, <2>1 DEF Sent
  <1>4. ASSUME NEW k, Sent(k) \/ k = Script[t][next[t]] PROVE Sent(k)'
    BY <1>2, <1>4 DEF Sent
  <1> QED BY <1>3, <1>4

\* A message to one net that the endpoint of a bridge takes is for where it leads.
LEMMA BridgeTakes ==
    ASSUME TypeOK, OwnSids, NEW n \in Net, NEW m \in Msg, NEW s, For(n, m, s, Bridge[n]),
           Dst[m].sid # Anyone
    PROVE  /\ Dst[m].sid = addr[Bridge[n]].sid
           /\ Dst[m].sid \in {Home[Bridge[n]].sid, Sid[Other(n)]}
  <1>1. Bridge[n] \in Ep /\ NetOf[Bridge[n]] = n /\ Other(n) \in Net /\ Other(n) # n
    BY Names, OtherNet
  <1>2. addr[Bridge[n]].sid \in {Home[Bridge[n]].sid, Sid[Other(n)]}
    BY <1>1 DEF TypeOK
  <1>3. addr[Bridge[n]].sid # Sid[n]
    BY <1>1, <1>2 DEF OwnSids
  <1> QED BY <1>2, <1>3 DEF For, Accepts, NetAccepts

LEMMA SendOrder ==
    ASSUME BridgedInv, OrderInv, OwnSids, NEW t \in Thread, Send(t)
    PROVE  OrderInv'
  <1>1. TypeOK /\ next[t] \in DOMAIN Script[t] /\ next' = [next EXCEPT ![t] = @ + 1]
    BY DEF BridgedInv, Types, Send
  <1>2. PICK m \in Msg : m = Script[t][next[t]] /\ ~Sent(m)
    BY <1>1, SendsNew
  <1>3. PICK n \in Net : n = NetOf[From[m]]
    BY MessageAssumption, NetAssumption
  <1>4. PICK b \in Buf \cup {None} : b = IF m \in Raw THEN <<m, 0>> ELSE None
    <2>1. m \in Raw => <<m, 0>> \in Buf
      BY BufferAssumption, Names
    <2> QED BY <2>1
  <1>5. PICK x \in Copy : x = [msg |-> m, buf |-> b] /\ x.msg = m
    <2>1. [msg |-> m, buf |-> b] \in Copy
      BY DEF Copy
    <2> QED BY <2>1
  <1>6. PICK s : s = src'[m]
    OBVIOUS
  <1>7. /\ GiveAll(n, m, b) /\ UNCHANGED <<inbox, wire, laps, rx, addr>>
        /\ src' = [src EXCEPT ![m] = addr[From[m]]]
    BY <1>2, <1>3, <1>4 DEF Send, NetSend, link, ends
  <1>8. Given(n, m, s, x)
    <2>1. UNCHANGED inbox
      BY <1>7
    <2>2. GiveAll(n, m, b)
      BY <1>7
    <2> QED BY <1>1, <1>5, <1>6, <2>1, <2>2, GiveGiven
  <1>9. /\ \A e \in Apps : \A k : Has(e, k)' <=> Has(e, k) \/ (k = m /\ For(n, m, s, e))
        /\ \A o \in Net : \A k : Waits(o, k)' <=> Waits(o, k) \/ (k = m /\ For(n, m, s, Bridge[o]))
    BY <1>5, <1>8, GivenSets
  <1>10. /\ \A o \in Net : \A k : Crosses(o, k)' <=> Crosses(o, k)
         /\ laps' = laps /\ addr' = addr /\ rx' = rx
         /\ \A k \in Msg : k # m => src'[k] = src[k]
    BY <1>1, <1>7 DEF Crosses, TypeOK
  <1>11. \A k : Sent(k)' <=> Sent(k) \/ k = m
    BY <1>1, <1>2, SentMore
  <1>12. /\ laps[m] = 0
         /\ \A o \in Net : ~Waits(o, m) /\ ~Crosses(o, m)
         /\ \A e \in Apps : ~Has(e, m)
    BY <1>2 DEF OrderInv, AllSent
  <1>13. /\ \A l : Before(m, l) => ~Sent(l)
         /\ \A l \in Msg : /\ \A o \in Net : Waits(o, l) \/ Crosses(o, l) => Sent(l)
                           /\ \A e \in Apps : Has(e, l) => Sent(l)
    BY <1>1, <1>2, BeforeRight DEF OrderInv, AllSent
  <1>14. /\ \A o \in Net : NetOf[Bridge[o]] = o /\ Other(o) \in Net /\ Other(o) # o
         /\ \A e \in Ep : For(n, m, s, e) => NetOf[e] = n
    BY Names, OtherNet DEF For
  <1>15. AllSent'
    BY <1>9, <1>10, <1>11 DEF OrderInv, AllSent
  <1>16. ASSUME NEW e \in Apps PROVE Served(e)'
    <2>1. e \in Ep /\ NetOf[e] \in Net
      BY Names, NetAssumption
    <2>2. PICK o \in Net : o = NetOf[e]
      BY <2>1
    <2>3. ASSUME NEW k \in Raw, Sent(k)', Reached(o, k)', Accepts(Sid[o], k, src'[k], addr'[e])
          PROVE  Has(e, k)'
      <3>1. CASE k = m
        <4>1. o = n
          <5>1. laps'[m] = 0 /\ ~Crosses(Other(o), m)' /\ ~Crosses(o, m)'
            BY <1>10, <1>12, <1>14
          <5>2. NetOf[From[m]] = o \/ Waits(o, m)'
            BY <2>3, <3>1, <5>1 DEF Reached
          <5>3. Waits(o, m)' => NetOf[Bridge[o]] = n
            BY <1>9, <1>12, <1>14, Names
          <5> QED BY <1>3, <1>14, <5>2, <5>3
        <4>2. For(n, m, s, e)
          BY <1>6, <1>10, <2>2, <2>3, <3>1, <4>1 DEF For
        <4> QED BY <1>9, <3>1, <4>2
      <3>2. CASE k # m
        <4>1. Reached(o, k)
          BY <1>9, <1>10, <1>14, <2>3, <3>2 DEF Reached
        <4>2. Sent(k) /\ src'[k] = src[k]
          BY <1>10, <1>11, <2>3, <3>2, Names
        <4>3. Has(e, k)
          BY <1>10, <2>2, <2>3, <4>1, <4>2 DEF OrderInv, Served
        <4> QED BY <1>9, <4>3
      <3> QED BY <3>1, <3>2
    <2> QED BY <2>2, <2>3 DEF Served
  <1>17. ASSUME NEW e \in Apps PROVE Ordered(Seen(e))' /\ Once(Seen(e))'
    <2>1. \A f \in Apps : For(n, m, s, f) =>
             /\ Has(f, m) \/ \A l \in Msg : Has(f, l) => ~Before(m, l)
             /\ ~Has(f, m) \/ m \notin Single
      BY <1>12, <1>13
    <2> QED BY <1>5, <1>8, <2>1, GivenSeen
  <1>18. ASSUME NEW o \in Net PROVE WaitsInOrder(o)' /\ CrossesInOrder(o)'
    <2>1. WaitsInOrder(o)'
      <3>1. \A l \in Msg : Waits(o, l) => ~Before(m, l)
        BY <1>13
      <3>2. UNCHANGED laps
        BY <1>10
      <3> QED BY <1>5, <1>8, <3>1, <3>2, GivenWaits
    <2>2. CrossesInOrder(o)'
      BY <1>7 DEF OrderInv, CrossesInOrder
    <2> QED BY <2>1, <2>2
  <1>19. ASSUME NEW o \in Net PROVE Behind(o)'
    <2>1. Behind(o)
      BY DEF OrderInv
    <2>2. \A k : /\ FirstCrosses(Other(o), k)' <=> FirstCrosses(Other(o), k)
                 /\ FirstWaits(o, k)' => FirstWaits(o, k) \/ k = m
      BY <1>9, <1>10, <1>14 DEF FirstCrosses, FirstWaits
    <2>3. ASSUME NEW k \in Msg, NEW l \in Msg, Before(k, l), FirstCrosses(Other(o), l)'
          PROVE  ~FirstWaits(o, k)'
      <3>1. Sent(l)
        BY <1>13, <1>14, <2>2, <2>3 DEF FirstCrosses
      <3>2. k # m
        BY <1>13, <2>3, <3>1
      <3> QED BY <2>1, <2>2, <2>3, <3>2 DEF Behind
    <2>4. ASSUME NEW k \in Msg, NEW l \in Msg, Before(k, l), NEW e \in Apps,
                 NetOf[From[k]] = o, NetOf[e] = Other(o), Has(e, l)'
          PROVE  ~FirstWaits(o, k)' /\ ~FirstCrosses(Other(o), k)'
      <3>1. Has(e, l)
        <4>1. ASSUME l = m, For(n, m, s, e) PROVE FALSE
          BY <1>3, <1>14, <2>4, <4>1, BeforeRight, Names
        <4> QED BY <1>9, <2>4, <4>1
      <3>2. k # m
        BY <1>13, <2>4, <3>1
      <3> QED BY <2>1, <2>2, <2>4, <3>1, <3>2 DEF Behind
    <2> QED BY <2>3, <2>4 DEF Behind
  <1>20. ASSUME NEW o \in Net PROVE Outward(o)'
    <2>1. Outward(o)
      BY DEF OrderInv
    <2>2. ASSUME NEW k \in Raw, Dst[k].sid # Anyone, Crosses(Other(o), k)' \/ Waits(o, k)'
          PROVE  /\ Dst[k].sid \in {Home[Bridge[o]].sid, Sid[Other(o)]}
                 /\ \A e \in Apps : NetOf[e] = Other(o) => ~Has(e, k)'
      <3>1. CASE k = m
        <4>1. For(n, m, s, Bridge[o]) /\ Bridge[o] \in Ep
          BY <1>9, <1>10, <1>12, <1>14, <2>2, <3>1, Names
        <4>2. o = n
          BY <1>14, <4>1
        <4>3. Dst[k].sid \in {Home[Bridge[o]].sid, Sid[Other(o)]}
          BY <1>1, <2>2, <3>1, <4>1, <4>2, BridgeTakes
        <4>4. \A e \in Apps : NetOf[e] = Other(o) => ~Has(e, k)'
          BY <1>9, <1>12, <1>14, <3>1, <4>2, Names
        <4> QED BY <4>3, <4>4
      <3>2. CASE k # m
        BY <1>9, <1>10, <1>14, <2>1, <2>2, <3>2 DEF Outward
      <3> QED BY <3>1, <3>2
    <2> QED BY <1>10, <2>1, <2>2 DEF Outward
  <1> QED BY <1>15, <1>16, <1>17, <1>18, <1>19, <1>20 DEF OrderInv

LEMMA RxMessageOrder ==
    ASSUME BridgedInv, OrderInv, OwnSids, NEW n \in Net, RxMessage(n)
    PROVE  OrderInv'
  <1>1. /\ TypeOK /\ OneFrame /\ wire[n] # <<>> /\ rx[n] = "read"
        /\ wire' = [wire EXCEPT ![n] = Tail(@)]
    BY DEF RxMessage, BridgedInv, Types, TokenInv
  <1>2. PICK f \in Frame :
           /\ f = Head(wire[n]) /\ f = wire[n][1] /\ f # Hello
           /\ f.msg \in Raw /\ <<f.msg, laps[f.msg]>> \in Buf
    BY RxFrame
  <1>3. PICK m \in Raw : m = f.msg /\ m \in Msg
    BY <1>2, Names
  <1>4. PICK b \in Buf \cup {None} : b = <<m, laps[m]>>
    BY <1>2, <1>3
  <1>5. PICK x \in Copy : x = [msg |-> m, buf |-> b] /\ x.msg = m
    <2>1. [msg |-> m, buf |-> b] \in Copy
      BY <1>3 DEF Copy
    <2> QED BY <2>1
  <1>6. PICK s : s = src[m] /\ s = src'[m]
    BY DEF RxMessage
  <1>7. /\ GiveAll(n, m, b) /\ UNCHANGED <<inbox, laps, rx, addr, src, next>>
    BY <1>2, <1>3, <1>4 DEF RxMessage, ends
  <1>8. Given(n, m, s, x)
    <2>1. UNCHANGED inbox
      BY <1>7
    <2>2. GiveAll(n, m, b)
      BY <1>7
    <2> QED BY <1>1, <1>3, <1>5, <1>6, <2>1, <2>2, GiveGiven
  <1>9. /\ \A e \in Apps : \A k : Has(e, k)' <=> Has(e, k) \/ (k = m /\ For(n, m, s, e))
        /\ \A o \in Net : \A k : Waits(o, k)' <=> Waits(o, k) \/ (k = m /\ For(n, m, s, Bridge[o]))
    BY <1>3, <1>5, <1>8, GivenSets
  <1>10. laps' = laps /\ addr' = addr /\ rx' = rx /\ src' = src /\ \A k : Sent(k)' <=> Sent(k)
    BY <1>7 DEF Sent
  <1>11. /\ 1 \in DOMAIN wire[n] /\ wire[n][1] # Hello /\ wire[n][1].msg = m
         /\ Crosses(n, m) /\ \A o \in Net : ~Waits(o, m)
    <2>1. 1 \in DOMAIN wire[n] /\ wire[n][1] # Hello /\ wire[n][1].msg = m
      BY <1>1, <1>2, <1>3, WireTail
    <2>2. Crosses(n, m)
      BY <2>1 DEF Crosses
    <2> QED BY <2>1, <2>2, Places
  <1>12. PICK d \in [Net -> {0, 1}] : d[n] = 1 /\ WireFrom(d) /\ \A o \in Net \ {n} : d[o] = 0
    BY <1>1, WireTaken
  <1>13. \A o \in Net : \A k : Crosses(o, k)' => Crosses(o, k) /\ k # m
    <2>1. ASSUME NEW o \in Net, NEW k, Crosses(o, k)' PROVE Crosses(o, k) /\ k # m
      <3>1. PICK i \in DOMAIN wire'[o] : wire'[o][i] # Hello /\ wire'[o][i].msg = k
        BY <2>1 DEF Crosses
      <3>2. PICK j \in DOMAIN wire[o] :
               j = i + d[o] /\ i \in Nat \ {0} /\ wire[o][j] # Hello /\ wire[o][j].msg = k
        BY <1>12, <3>1 DEF WireFrom
      <3>3. o = n => j # 1
        BY <1>12, <3>2
      <3> QED BY <1>1, <1>11, <3>2, <3>3 DEF OneFrame, Crosses
    <2> QED BY <2>1
  <1>14. /\ laps[m] # 0 /\ laps[m] \in Nat /\ Sent(m)
    BY <1>1, <1>3, <1>11, BufferAssumption DEF OrderInv, AllSent, TypeOK
  <1>15. /\ \A o \in Net : /\ NetOf[Bridge[o]] = o /\ Other(o) \in Net /\ Other(o) # o
                           /\ Other(Other(o)) = o /\ (o = n \/ o = Other(n))
         /\ \A e \in Ep : For(n, m, s, e) => NetOf[e] = n
         /\ \A e \in Apps : e \in Ep /\ NetOf[e] \in Net
    BY Names, OtherNet, NetAssumption DEF For
  <1>16. \A e \in Apps : For(n, m, s, e) /\ Reached(n, m) => Has(e, m)
    BY <1>3, <1>6, <1>14, <1>15 DEF OrderInv, Served, For
  <1>17. AllSent'
    BY <1>9, <1>10, <1>13, <1>14 DEF OrderInv, AllSent
  <1>18. ASSUME NEW e \in Apps PROVE Served(e)'
    <2>1. PICK o \in Net : o = NetOf[e]
      BY <1>15
    <2>2. ASSUME NEW k \in Raw, Sent(k)', Reached(o, k)', Accepts(Sid[o], k, src'[k], addr'[e])
          PROVE  Has(e, k)'
      <3>1. CASE k = m /\ o = n
        <4>1. For(n, m, s, e)
          BY <1>6, <1>10, <2>1, <2>2, <3>1 DEF For
        <4> QED BY <1>9, <3>1, <4>1
      <3>2. CASE ~(k = m /\ o = n)
        <4>1. Reached(o, k)
          <5>1. CASE k = m
            <6>1. o = Other(n) /\ Crosses(Other(o), m)
              BY <1>11, <1>15, <3>2, <5>1
            <6> QED BY <5>1, <6>1 DEF Reached
          <5>2. CASE k # m
            BY <1>9, <1>10, <1>13, <1>15, <2>2, <5>2 DEF Reached
          <5> QED BY <5>1, <5>2
        <4>2. Has(e, k)
          BY <1>10, <2>1, <2>2, <4>1 DEF OrderInv, Served
        <4> QED BY <1>9, <4>2
      <3> QED BY <3>1, <3>2
    <2> QED BY <2>1, <2>2 DEF Served
  <1>19. ASSUME NEW e \in Apps PROVE Ordered(Seen(e))' /\ Once(Seen(e))'
    <2>1. ASSUME NEW g \in Apps, For(n, m, s, g)
          PROVE  /\ Has(g, m) \/ \A l \in Msg : Has(g, l) => ~Before(m, l)
                 /\ ~Has(g, m) \/ m \notin Single
      <3>1. NetOf[g] = n
        BY <1>15, <2>1
      <3>2. Has(g, m) \/ \A l \in Msg : Has(g, l) => ~Before(m, l)
        <4>1. CASE laps[m] > 1 \/ NetOf[From[m]] = n
          BY <1>11, <1>16, <2>1, <4>1 DEF Reached
        <4>2. CASE ~(laps[m] > 1 \/ NetOf[From[m]] = n)
          <5>1. laps[m] = 1
            BY <1>14, <4>2
          <5>2. NetOf[From[m]] = Other(n)
            BY <1>3, <1>15, <4>2, MessageAssumption, NetAssumption
          <5>3. FirstCrosses(Other(Other(n)), m) /\ NetOf[g] = Other(Other(n))
            BY <1>11, <1>15, <3>1, <5>1 DEF FirstCrosses
          <5>4. Behind(Other(n))
            BY <1>15 DEF OrderInv
          <5> QED BY <1>3, <5>2, <5>3, <5>4 DEF Behind
        <4> QED BY <4>1, <4>2
      <3>3. ~Has(g, m) \/ m \notin Single
        <4>1. ASSUME m \in Single PROVE ~Has(g, m)
          <5>1. Dst[m].sid # Anyone
            BY <1>3, <4>1 DEF Single, Raw
          <5>2. Outward(Other(n)) /\ Crosses(Other(Other(n)), m) /\ NetOf[g] = Other(Other(n))
            BY <1>11, <1>15, <3>1 DEF OrderInv
          <5> QED BY <5>1, <5>2 DEF Outward
        <4> QED BY <4>1
      <3> QED BY <3>2, <3>3
    <2> QED BY <1>3, <1>5, <1>8, <2>1, GivenSeen
  <1>20. ASSUME NEW o \in Net PROVE WaitsInOrder(o)' /\ CrossesInOrder(o)'
    <2>1. WaitsInOrder(o)'
      <3>1. UNCHANGED laps
        BY <1>10
      <3> QED BY <1>3, <1>5, <1>8, <1>14, <3>1, GivenWaits
    <2>2. CrossesInOrder(o)'
      BY <1>10, <1>12, FewerCross DEF OrderInv
    <2> QED BY <2>1, <2>2
  <1>21. ASSUME NEW o \in Net PROVE Behind(o)'
    <2>1. Behind(o) /\ CrossesInOrder(n)
      BY DEF OrderInv
    <2>2. \A k : /\ FirstCrosses(Other(o), k)' => FirstCrosses(Other(o), k) /\ k # m
                 /\ FirstWaits(o, k)' => FirstWaits(o, k) /\ k # m
      BY <1>9, <1>10, <1>13, <1>14, <1>15 DEF FirstCrosses, FirstWaits
    <2>3. ASSUME NEW k \in Msg, NEW l \in Msg, Before(k, l), NEW e \in Apps,
                 NetOf[From[k]] = o, NetOf[e] = Other(o), Has(e, l)'
          PROVE  ~FirstWaits(o, k)' /\ ~FirstCrosses(Other(o), k)'
      <3>1. CASE Has(e, l)
        BY <2>1, <2>2, <2>3, <3>1 DEF Behind
      <3>2. CASE ~Has(e, l)
        <4>1. l = m /\ For(n, m, s, e)
          BY <1>9, <2>3, <3>2
        <4>2. Other(o) = n /\ ~Reached(n, m)
          BY <1>15, <1>16, <2>3, <3>2, <4>1
        <4>3. FirstCrosses(n, m)
          BY <1>11, <1>14, <4>2 DEF Reached, FirstCrosses
        <4>4. ~FirstWaits(o, k)
          BY <2>1, <2>3, <4>1, <4>2, <4>3 DEF Behind
        <4>5. ~FirstCrosses(n, k)
          <5>1. ASSUME FirstCrosses(n, k) PROVE FALSE
            <6>1. PICK j \in DOMAIN wire[n] : wire[n][j] # Hello /\ wire[n][j].msg = k
              BY <5>1 DEF FirstCrosses, Crosses
            <6>2. j < 1
              BY <1>11, <2>1, <2>3, <4>1, <4>3, <5>1, <6>1 DEF CrossesInOrder, FirstCrosses
            <6>3. j \in Nat \ {0}
              BY <6>1, TokenParts
            <6> QED BY <6>2, <6>3
          <5> QED BY <5>1
        <4> QED BY <2>2, <4>2, <4>4, <4>5
      <3> QED BY <3>1, <3>2
    <2> QED BY <2>1, <2>2, <2>3 DEF Behind
  <1>22. ASSUME NEW o \in Net PROVE Outward(o)'
    <2>1. Outward(o) /\ Outward(n) /\ Outward(Other(n))
      BY <1>15 DEF OrderInv
    <2>2. ASSUME NEW k \in Raw, Dst[k].sid # Anyone, Crosses(Other(o), k)' \/ Waits(o, k)'
          PROVE  /\ Dst[k].sid \in {Home[Bridge[o]].sid, Sid[Other(o)]}
                 /\ \A e \in Apps : NetOf[e] = Other(o) => ~Has(e, k)'
      <3>1. k # m
        <4>1. ASSUME k = m PROVE FALSE
          <5>1. For(n, m, s, Bridge[o])
            BY <1>9, <1>11, <1>13, <1>15, <2>2, <4>1
          <5>2. o = n
            BY <1>15, <5>1, Names
          <5>3. Dst[m].sid = Sid[Other(n)]
            BY <1>1, <1>3, <2>1, <2>2, <4>1, <5>1, <5>2, BridgeTakes DEF Outward
          <5>4. Dst[m].sid \in {Home[Bridge[Other(n)]].sid, Sid[n]}
            BY <1>3, <1>11, <1>15, <2>1, <2>2, <4>1 DEF Outward
          <5> QED BY <1>15, <5>3, <5>4 DEF OwnSids
        <4> QED BY <4>1
      <3> QED BY <1>9, <1>13, <1>15, <2>1, <2>2, <3>1 DEF Outward
    <2> QED BY <1>10, <2>1, <2>2 DEF Outward
  <1> QED BY <1>17, <1>18, <1>19, <1>20, <1>21, <1>22 DEF OrderInv

\* thread_tx takes the first message of its queue: it crosses, or is lost.
LEMMA TxRawPlaces ==
    ASSUME BridgedInv, NEW n \in Net, TxRaw(n)
    PROVE  \E m \in Raw :
              /\ 1 \in DOMAIN Waiting(n) /\ Waiting(n)[1].msg = m
              /\ \A o \in Net : \A k : Waits(o, k)' => Waits(o, k) /\ k # m
              /\ \E d \in [Net -> {0, 1}] : WaitsFrom(d)
              /\ laps' \in [Msg -> 0..MaxLaps] /\ \A k \in Msg : k # m => laps'[k] = laps[k]
              /\ \A o \in Net : \A i \in DOMAIN wire'[o] : wire'[o][i] # Hello =>
                    \/ i \in DOMAIN wire[o] /\ wire[o][i] = wire'[o][i] /\ wire'[o][i].msg # m
                    \/ /\ o = Other(n) /\ wire'[o][i].msg = m /\ laps'[m] = laps[m] + 1
                       /\ \A j \in DOMAIN wire[o] : j < i
  <1>1. /\ TypeOK /\ OneWaits /\ queue[Bridge[n]] # <<>>
        /\ queue' = [queue EXCEPT ![Bridge[n]] = Tail(@)]
        /\ laps \in [Msg -> 0..MaxLaps] /\ MaxLaps \in Nat
        /\ Other(n) \in Net /\ \A o \in Net : o = n \/ o = Other(n)
    BY OtherNet, BufferAssumption DEF TxRaw, BridgedInv, Types, TokenInv, TypeOK
  <1>2. PICK c \in Copy :
           /\ c = queue[Bridge[n]][1] /\ c.msg \in Raw /\ TxFrame(c) \in Frame
           /\ \/ UNCHANGED <<wire, laps>>
              \/ /\ Write(n, TxFrame(c)) /\ laps[c.msg] < MaxLaps
                 /\ laps' = [laps EXCEPT ![c.msg] = @ + 1]
    BY TxRawRight
  <1>3. PICK m \in Raw : m = c.msg /\ m \in Msg
    BY <1>2, Names
  <1>4. 1 \in DOMAIN Waiting(n) /\ Waiting(n)[1].msg = m
    BY <1>1, <1>2, <1>3, TokenParts DEF Waiting
  <1>5. PICK d \in [Net -> {0, 1}] : d[n] = 1 /\ WaitsFrom(d) /\ \A o \in Net \ {n} : d[o] = 0
    BY <1>1, WaitsTaken
  <1>6. ASSUME NEW o \in Net, NEW k, Waits(o, k)' PROVE Waits(o, k) /\ k # m
    <2>1. PICK i \in DOMAIN Waiting(o)' : Waiting(o)'[i].msg = k
      BY <1>6 DEF Waits
    <2>2. PICK j \in DOMAIN Waiting(o) : j = i + d[o] /\ i \in Nat \ {0} /\ Waiting(o)[j].msg = k
      BY <1>5, <2>1 DEF WaitsFrom
    <2>3. o = n => j # 1
      BY <1>5, <2>2
    <2> QED BY <1>1, <1>4, <2>2, <2>3 DEF OneWaits, Waits
  <1>7. laps' \in [Msg -> 0..MaxLaps] /\ \A k \in Msg : k # m => laps'[k] = laps[k]
    <2>1. CASE laps' = laps
      BY <1>1, <2>1
    <2>2. CASE laps[m] < MaxLaps /\ laps' = [laps EXCEPT ![m] = @ + 1]
      <3>1. ASSUME NEW k \in Msg PROVE laps'[k] \in 0..MaxLaps
        BY <1>1, <2>2
      <3> QED BY <1>1, <2>2, <3>1
    <2> QED BY <1>2, <1>3, <2>1, <2>2
  <1>8. ASSUME NEW o \in Net, NEW i \in DOMAIN wire[o], wire[o][i] # Hello
        PROVE  wire[o][i].msg # m
    BY <1>1, <1>2, <1>3, <1>8, HeadNoFrame
  <1>9. ASSUME NEW o \in Net, NEW i \in DOMAIN wire'[o], wire'[o][i] # Hello
        PROVE  \/ i \in DOMAIN wire[o] /\ wire[o][i] = wire'[o][i] /\ wire'[o][i].msg # m
               \/ /\ o = Other(n) /\ wire'[o][i].msg = m /\ laps'[m] = laps[m] + 1
                  /\ \A j \in DOMAIN wire[o] : j < i
    <2>1. CASE wire'[o] = wire[o]
      BY <1>8, <1>9, <2>1
    <2>2. CASE wire'[o] # wire[o]
      <3>1. Write(n, TxFrame(c)) /\ laps' = [laps EXCEPT ![m] = @ + 1]
        BY <1>2, <1>3, <2>2
      <3>2. PICK f \in Frame : f = TxFrame(c) /\ f.msg = m
        BY <1>2, <1>3 DEF TxFrame
      <3>3. wire'[n] = wire[n] /\ (wire'[Other(n)] = wire[Other(n)] \/ wire'[Other(n)] = Append(wire[Other(n)], f))
        BY <1>1, <3>1, <3>2, WriteFrame
      <3>4. o = Other(n) /\ wire'[o] = Append(wire[o], f) /\ wire[o] \in Seq({Hello} \cup Frame)
        BY <1>1, <2>2, <3>3, TokenParts
      <3>5. \/ i \in DOMAIN wire[o] /\ wire[o][i] = wire'[o][i]
            \/ i = Len(wire[o]) + 1 /\ wire'[o][i] = f
        BY <1>9, <3>4, AppendParts
      <3>6. \A j \in DOMAIN wire[o] : j < Len(wire[o]) + 1
        BY <3>4
      <3>7. laps'[m] = laps[m] + 1
        BY <1>1, <1>3, <3>1
      <3> QED BY <1>8, <1>9, <3>2, <3>4, <3>5, <3>6, <3>7
    <2> QED BY <2>1, <2>2
  <1> QED BY <1>4, <1>5, <1>6, <1>7, <1>9

LEMMA TxRawOrder ==
    ASSUME BridgedInv, OrderInv, NEW n \in Net, TxRaw(n)
    PROVE  OrderInv'
  <1>1. PICK m \in Raw :
           /\ 1 \in DOMAIN Waiting(n) /\ Waiting(n)[1].msg = m
           /\ \A o \in Net : \A k : Waits(o, k)' => Waits(o, k) /\ k # m
           /\ \E d \in [Net -> {0, 1}] : WaitsFrom(d)
           /\ laps' \in [Msg -> 0..MaxLaps] /\ \A k \in Msg : k # m => laps'[k] = laps[k]
           /\ \A o \in Net : \A i \in DOMAIN wire'[o] : wire'[o][i] # Hello =>
                 \/ i \in DOMAIN wire[o] /\ wire[o][i] = wire'[o][i] /\ wire'[o][i].msg # m
                 \/ /\ o = Other(n) /\ wire'[o][i].msg = m /\ laps'[m] = laps[m] + 1
                    /\ \A j \in DOMAIN wire[o] : j < i
    BY TxRawPlaces
  <1>2. /\ m \in Msg /\ laps[m] \in Nat /\ laps'[m] \in Nat /\ Waits(n, m) /\ Sent(m)
    <2>1. m \in Msg /\ Waits(n, m)
      BY <1>1, Names DEF Waits
    <2>2. laps \in [Msg -> 0..MaxLaps] /\ MaxLaps \in Nat
      BY BufferAssumption DEF BridgedInv, Types, TypeOK
    <2> QED BY <1>1, <2>1, <2>2 DEF OrderInv, AllSent
  <1>3. \A o \in Net : \A k : Crosses(o, k)' =>
           \/ Crosses(o, k) /\ k # m
           \/ k = m /\ o = Other(n) /\ laps'[m] = laps[m] + 1
    <2>1. ASSUME NEW o \in Net, NEW k, Crosses(o, k)'
          PROVE  \/ Crosses(o, k) /\ k # m
                 \/ k = m /\ o = Other(n) /\ laps'[m] = laps[m] + 1
      <3>1. PICK i \in DOMAIN wire'[o] : wire'[o][i] # Hello /\ wire'[o][i].msg = k
        BY <2>1 DEF Crosses
      <3> QED BY <1>1, <3>1 DEF Crosses
    <2> QED BY <2>1
  <1>4. /\ \A o \in Net : Other(o) \in Net /\ Other(o) # o /\ Other(Other(o)) = o
        /\ \A o \in Net : Other(o) = Other(n) => o = n
        /\ \A e \in Apps : e \in Ep /\ NetOf[e] \in Net
    BY Names, OtherNet, NetAssumption
  <1>5. /\ UNCHANGED <<inbox, src, addr, rx, next>>
        /\ \A k : Sent(k)' <=> Sent(k)
    BY DEF TxRaw, ends, Sent
  <1>6. \A e \in Apps : Seen(e)' = Seen(e) /\ \A k : Has(e, k)' <=> Has(e, k)
    <2>1. ASSUME NEW e \in Apps PROVE Seen(e)' = Seen(e)
      <3>1. /\ TypeOK /\ queue[Bridge[n]] # <<>> /\ queue' = [queue EXCEPT ![Bridge[n]] = Tail(@)]
            /\ Bridge[n] \in Ep /\ e \in Ep \ {Bridge[n]}
        BY Names DEF TxRaw, BridgedInv, Types
      <3>2. queue'[e] = queue[e]
        BY <3>1, QueueTail
      <3> QED BY <1>5, <3>2 DEF Seen
    <2> QED BY <2>1 DEF Has
  <1>7. AllSent'
    <2>1. ASSUME NEW k \in Msg PROVE laps'[k] # 0 => Sent(k)
      BY <1>1, <1>2, <2>1 DEF OrderInv, AllSent
    <2>2. ASSUME NEW k \in Msg, NEW o \in Net PROVE Crosses(o, k)' => laps'[k] # 0
      <3>1. CASE k = m
        BY <1>2, <1>3, <3>1
      <3>2. CASE k # m
        BY <1>1, <1>3, <3>2 DEF OrderInv, AllSent
      <3> QED BY <3>1, <3>2
    <2> QED BY <1>1, <1>5, <1>6, <2>1, <2>2 DEF OrderInv, AllSent
  <1>8. ASSUME NEW o \in Net, NEW k \in Raw, Reached(o, k)' PROVE Reached(o, k)
    <2>1. CASE k = m
      <3>1. NetOf[From[m]] = o \/ o = n \/ (Other(n) = o /\ laps'[m] > 1 /\ laps'[m] = laps[m] + 1)
        BY <1>1, <1>3, <1>4, <1>8, <2>1 DEF Reached
      <3>2. laps'[m] > 1 /\ laps'[m] = laps[m] + 1 => laps[m] > 0
        BY <1>2
      <3>3. o = Other(n) => Other(o) = n
        BY <1>4
      <3> QED BY <1>2, <2>1, <3>1, <3>2, <3>3 DEF Reached
    <2>2. CASE k # m
      <3>1. laps'[k] = laps[k]
        BY <1>1, <2>2, Names
      <3> QED BY <1>1, <1>3, <1>4, <1>8, <2>2, <3>1 DEF Reached
    <2> QED BY <2>1, <2>2
  <1>9. ASSUME NEW e \in Apps PROVE Ordered(Seen(e))' /\ Once(Seen(e))' /\ Served(e)'
    <2>1. Ordered(Seen(e))' /\ Once(Seen(e))'
      BY <1>6 DEF OrderInv
    <2>2. Served(e)'
      BY <1>4, <1>5, <1>6, <1>8 DEF OrderInv, Served
    <2> QED BY <2>1, <2>2
  <1>10. ASSUME NEW o \in Net PROVE WaitsInOrder(o)'
    <2>1. WaitsInOrder(o) /\ \A k : Waits(o, k) => k \in Msg
      <3>1. ASSUME NEW k, Waits(o, k) PROVE k \in Msg
        <4>1. PICK i \in DOMAIN Waiting(o) : Waiting(o)[i].msg = k
          BY <3>1 DEF Waits
        <4>2. Waiting(o)[i] \in Copy
          BY <4>1, TokenParts
        <4> QED BY <4>1, <4>2 DEF Copy
      <3> QED BY <3>1 DEF OrderInv
    <2>2. \A k : Waits(o, k)' /\ laps'[k] = 0 => laps[k] = 0
      BY <1>1, <2>1
    <2> QED BY <1>1, <2>1, <2>2, FewerWait
  <1>11. \A k \in Msg : /\ \A o \in Net : FirstWaits(o, k)' => FirstWaits(o, k) /\ k # m
                        /\ \A o \in Net : FirstCrosses(o, k)' =>
                              \/ FirstCrosses(o, k) /\ k # m
                              \/ k = m /\ o = Other(n) /\ FirstWaits(n, m)
    <2>1. ASSUME NEW k \in Msg, NEW o \in Net, FirstWaits(o, k)'
          PROVE  FirstWaits(o, k) /\ k # m
      BY <1>1, <2>1 DEF FirstWaits
    <2>2. ASSUME NEW k \in Msg, NEW o \in Net, FirstCrosses(o, k)'
          PROVE  \/ FirstCrosses(o, k) /\ k # m
                 \/ k = m /\ o = Other(n) /\ FirstWaits(n, m)
      <3>1. CASE k = m
        <4>1. o = Other(n) /\ laps'[m] = laps[m] + 1 /\ laps'[m] = 1
          BY <1>3, <2>2, <3>1 DEF FirstCrosses
        <4>2. laps[m] = 0
          BY <1>2, <4>1
        <4> QED BY <1>2, <3>1, <4>1, <4>2 DEF FirstWaits
      <3>2. CASE k # m
        BY <1>1, <1>3, <2>2, <3>2 DEF FirstCrosses
      <3> QED BY <3>1, <3>2
    <2> QED BY <2>1, <2>2
  <1>12. ASSUME NEW o \in Net PROVE CrossesInOrder(o)'
    <2>1. CrossesInOrder(o) /\ Behind(n)
      BY DEF OrderInv
    <2>2. PICK w : w = wire'[o]
      OBVIOUS
    <2>3. ASSUME NEW i \in DOMAIN w, w[i] # Hello, laps'[w[i].msg] = 1
          PROVE  \/ /\ i \in DOMAIN wire[o] /\ wire[o][i] = w[i] /\ laps[w[i].msg] = 1
                    /\ FirstCrosses(o, w[i].msg) /\ w[i].msg \in Msg
                 \/ /\ o = Other(n) /\ w[i].msg = m /\ FirstWaits(n, m)
                    /\ \A j \in DOMAIN wire[o] : j < i
      <3>1. CASE i \in DOMAIN wire[o] /\ wire[o][i] = w[i] /\ w[i].msg # m
        <4>1. w[i] \in Frame /\ w[i].msg \in Msg
          <5>1. w[i] \in Frame
            BY <2>3, <3>1, TokenParts
          <5> QED BY <5>1, Names DEF Frame
        <4> QED BY <1>1, <2>3, <3>1, <4>1 DEF FirstCrosses, Crosses
      <3>2. CASE /\ o = Other(n) /\ w[i].msg = m /\ laps'[m] = laps[m] + 1
                 /\ \A j \in DOMAIN wire[o] : j < i
        <4>1. laps[m] = 0
          BY <1>2, <2>3, <3>2
        <4> QED BY <1>2, <3>2, <4>1 DEF FirstWaits
      <3> QED BY <1>1, <2>2, <2>3, <3>1, <3>2
    <2>4. ASSUME NEW i \in DOMAIN w, NEW j \in DOMAIN w, w[i] # Hello, w[j] # Hello,
                 laps'[w[i].msg] = 1, laps'[w[j].msg] = 1, Before(w[j].msg, w[i].msg)
          PROVE  j < i
      <3>1. CASE /\ i \in DOMAIN wire[o] /\ wire[o][i] = w[i] /\ laps[w[i].msg] = 1
                 /\ FirstCrosses(o, w[i].msg) /\ w[i].msg \in Msg
        <4>1. CASE j \in DOMAIN wire[o] /\ wire[o][j] = w[j] /\ laps[w[j].msg] = 1
          BY <2>1, <2>4, <3>1, <4>1 DEF CrossesInOrder
        <4>2. CASE o = Other(n) /\ w[j].msg = m /\ FirstWaits(n, m)
          BY <1>2, <2>1, <2>4, <3>1, <4>2 DEF Behind
        <4> QED BY <2>3, <2>4, <4>1, <4>2
      <3>2. CASE w[i].msg = m /\ \A l \in DOMAIN wire[o] : l < i
        <4>1. w[j].msg # m
          BY <2>4, <3>2, BeforeRight
        <4> QED BY <2>3, <2>4, <3>2, <4>1
      <3> QED BY <2>3, <2>4, <3>1, <3>2
    <2> QED BY <2>2, <2>4 DEF CrossesInOrder
  <1>13. ASSUME NEW o \in Net PROVE Behind(o)'
    <2>1. Behind(o) /\ WaitsInOrder(n) /\ Other(o) \in Net
      BY <1>4 DEF OrderInv
    <2>2. ASSUME NEW k \in Msg, NEW l \in Msg, Before(k, l), FirstCrosses(Other(o), l)'
          PROVE  ~FirstWaits(o, k)'
      <3>1. CASE FirstCrosses(Other(o), l)
        BY <1>11, <2>1, <2>2, <3>1 DEF Behind
      <3>2. CASE l = m /\ o = n /\ FirstWaits(n, m)
        <4>1. ASSUME FirstWaits(n, k) PROVE FALSE
          <5>1. PICK j \in DOMAIN Waiting(n) : Waiting(n)[j].msg = k
            BY <4>1 DEF FirstWaits, Waits
          <5>2. j < 1
            BY <1>1, <2>1, <2>2, <3>2, <4>1, <5>1 DEF WaitsInOrder, FirstWaits
          <5>3. j \in Nat \ {0}
            BY <5>1, TokenParts
          <5> QED BY <5>2, <5>3
        <4> QED BY <1>11, <3>2, <4>1
      <3> QED BY <1>4, <1>11, <2>1, <2>2, <3>1, <3>2
    <2>3. ASSUME NEW k \in Msg, NEW l \in Msg, Before(k, l), NEW e \in Apps,
                 NetOf[From[k]] = o, NetOf[e] = Other(o), Has(e, l)'
          PROVE  ~FirstWaits(o, k)' /\ ~FirstCrosses(Other(o), k)'
      <3>1. Has(e, l)
        BY <1>6, <2>3
      <3>2. ~FirstWaits(o, k) /\ ~FirstCrosses(Other(o), k)
        BY <2>1, <2>3, <3>1 DEF Behind
      <3>3. FirstCrosses(Other(o), k)' => k = m /\ o = n /\ FirstWaits(n, m)
        BY <1>4, <1>11, <2>1, <2>3, <3>2
      <3> QED BY <1>11, <2>3, <3>2, <3>3
    <2> QED BY <2>2, <2>3 DEF Behind
  <1>14. ASSUME NEW o \in Net PROVE Outward(o)'
    <2>1. Outward(o)
      BY DEF OrderInv
    <2>2. \A k \in Raw : Crosses(Other(o), k)' \/ Waits(o, k)' => Crosses(Other(o), k) \/ Waits(o, k)
      BY <1>1, <1>2, <1>3, <1>4
    <2> QED BY <1>5, <1>6, <2>1, <2>2 DEF Outward
  <1> QED BY <1>7, <1>9, <1>10, <1>12, <1>13, <1>14 DEF OrderInv

----------------------------------------------------------------------------
(* The invariant of the order *)

LEMMA InitOrder == Init => OrderInv
  <1> SUFFICES ASSUME Init PROVE OrderInv
    OBVIOUS
  <1>1. \A e \in Apps : Seen(e) = <<>>
    <2>1. ASSUME NEW e \in Apps PROVE Seen(e) = <<>>
      <3>1. inbox[e] = <<>> /\ queue[e] = <<>>
        BY <2>1, Names DEF Init
      <3>2. <<>> \in Seq(Msg) /\ <<>> \in Seq(Copy) /\ Len(<<>>) = 0
        OBVIOUS
      <3>3. Joined(<<>>, <<>>) \in Seq(Msg) /\ Len(Joined(<<>>, <<>>)) = Len(<<>>) + Len(<<>>)
        BY <3>2, JoinedParts
      <3>4. Len(Joined(<<>>, <<>>)) = 0
        BY <3>2, <3>3
      <3> QED BY <3>1, <3>3, <3>4 DEF Seen
    <2> QED BY <2>1
  <1>2. \A n \in Net : wire[n] = <<>> /\ Waiting(n) = <<>> /\ rx[n] = "hello"
    BY Names DEF Init, Waiting
  <1>3. DOMAIN <<>> = {}
    OBVIOUS
  <1>4. /\ \A n \in Net : \A m : ~Waits(n, m) /\ ~Crosses(n, m)
        /\ \A e \in Apps : \A m : ~Has(e, m)
    BY <1>1, <1>2, <1>3 DEF Waits, Crosses, Has, ToSet
  <1>5. \A m : ~Sent(m)
    BY ScriptAssumption DEF Init, Sent
  <1>6. \A m \in Msg : laps[m] = 0
    BY DEF Init
  <1>7. AllSent
    BY <1>4, <1>6 DEF AllSent
  <1>8. \A e \in Apps : Ordered(Seen(e)) /\ Once(Seen(e)) /\ Served(e)
    BY <1>1, <1>3, <1>5 DEF Ordered, Once, Served
  <1>9. \A n \in Net : WaitsInOrder(n) /\ CrossesInOrder(n)
    BY <1>2, <1>3 DEF WaitsInOrder, CrossesInOrder
  <1>10. \A n \in Net : Behind(n) /\ Outward(n)
    BY <1>2, <1>4, OtherNet DEF Behind, Outward, FirstWaits, FirstCrosses
  <1> QED BY <1>7, <1>8, <1>9, <1>10 DEF OrderInv

LEMMA NextOrder == ASSUME OwnSids PROVE BridgedInv /\ OrderInv /\ [Next]_vars => OrderInv'
  <1> SUFFICES ASSUME BridgedInv, OrderInv, [Next]_vars PROVE OrderInv'
    OBVIOUS
  <1>1. ASSUME NEW t \in Thread, Send(t) PROVE OrderInv'
    BY <1>1, SendOrder
  <1>2. ASSUME NEW n \in Net, TxRaw(n) PROVE OrderInv'
    BY <1>2, TxRawOrder
  <1>3. ASSUME NEW n \in Net, RxMessage(n) PROVE OrderInv'
    BY <1>3, RxMessageOrder
  <1>4. \/ \E t \in Thread : Send(t)
        \/ \E n \in Net : TxRaw(n) \/ RxMessage(n)
        \/ \E t \in Thread : Edit(t)
        \/ \E e \in Apps : Recv(e) \/ Discard(e)
        \/ \E n \in Net : TxHello(n) \/ TxSync(n) \/ RxHello(n) \/ RxEnd(n)
        \/ Break
        \/ UNCHANGED vars
    BY DEF Next, Works
  <1> QED BY <1>1, <1>2, <1>3, <1>4, QuietOrder

LEMMA OrderRight == BridgedInv /\ OrderInv => OnceInOrder
  <1> SUFFICES ASSUME BridgedInv, OrderInv,
                      NEW e \in Apps, NEW i \in DOMAIN inbox[e], NEW j \in DOMAIN inbox[e], i < j
               PROVE  /\ Dst[inbox[e][i]].sid # 0 => inbox[e][i] # inbox[e][j]
                      /\ From[inbox[e][i]] = From[inbox[e][j]] /\ SentBefore(inbox[e][j], inbox[e][i])
                            => \E k \in 1..i - 1 : inbox[e][k] = inbox[e][j]
    BY DEF OnceInOrder
  <1>1. PICK s : s = Seen(e)
    OBVIOUS
  <1>2. Ordered(s) /\ Once(s)
    BY <1>1 DEF OrderInv
  <1>3. inbox[e] \in Seq(Msg) /\ queue[e] \in Seq(Copy)
    BY SeenType DEF BridgedInv, Types
  <1>4. DOMAIN inbox[e] = 1..Len(inbox[e]) /\ Len(inbox[e]) \in Nat
    BY <1>3
  <1>5. \A k \in DOMAIN inbox[e] : k \in DOMAIN s /\ s[k] = inbox[e][k] /\ inbox[e][k] \in Msg
    <2>1. /\ DOMAIN s = 1..Len(inbox[e]) + Len(queue[e]) /\ Len(queue[e]) \in Nat
          /\ \A k \in 1..Len(inbox[e]) : s[k] = inbox[e][k]
      BY <1>1, <1>3, JoinedParts DEF Seen
    <2> SUFFICES ASSUME NEW k \in DOMAIN inbox[e]
                 PROVE  k \in DOMAIN s /\ s[k] = inbox[e][k] /\ inbox[e][k] \in Msg
      OBVIOUS
    <2>2. k \in 1..Len(inbox[e])
      BY <1>4
    <2>3. k \in 1..Len(inbox[e]) + Len(queue[e])
      <3>1. Len(queue[e]) \in Nat
        BY <2>1
      <3>2. ASSUME NEW p \in Nat, NEW q \in Nat, k \in 1..p PROVE k \in 1..p + q
        BY <3>2
      <3> QED BY <1>4, <2>2, <3>1, <3>2
    <2>4. inbox[e][k] \in Msg
      BY <1>3
    <2> QED BY <2>1, <2>2, <2>3, <2>4
  <1>6. ASSUME Dst[inbox[e][i]].sid # 0 PROVE inbox[e][i] # inbox[e][j]
    <2>1. inbox[e][i] \in Single
      BY <1>5, <1>6 DEF Single, Anyone
    <2>2. i # j
      BY <1>4
    <2> QED BY <1>2, <1>5, <2>1, <2>2 DEF Once
  <1>7. ASSUME From[inbox[e][i]] = From[inbox[e][j]], SentBefore(inbox[e][j], inbox[e][i])
        PROVE  \E k \in 1..i - 1 : inbox[e][k] = inbox[e][j]
    <2>1. Before(s[j], s[i])
      BY <1>5, <1>7 DEF Before
    <2>2. PICK k \in DOMAIN s : k < i /\ s[k] = s[j]
      BY <1>2, <1>5, <2>1 DEF Ordered
    <2>3. k \in 1..i - 1 /\ k \in DOMAIN inbox[e]
      <3>1. k \in Nat \ {0}
        BY <1>1, <1>3, <2>2, JoinedParts DEF Seen
      <3> QED BY <1>4, <2>2, <3>1
    <2> QED BY <1>5, <2>2, <2>3
  <1> QED BY <1>6, <1>7

\* Of messages that one thread sends through one endpoint an application receives the
\* first copies in the order in which they were sent, also over the bridges, and a
\* message to one net once; if the identifiers of the nets differ and no bridge's
\* endpoint has one of them before the greeting (tcp/mod.rs:58-108,
\* endpoint.rs:353-373).
THEOREM InOrder == ASSUME OwnSids PROVE Spec => []OnceInOrder
  <1>1. Init => OrderInv
    BY InitOrder
  <1>2. BridgedInv /\ OrderInv /\ [Next]_vars => OrderInv'
    BY NextOrder
  <1>3. BridgedInv /\ OrderInv => OnceInOrder
    BY OrderRight
  <1> QED BY <1>1, <1>2, <1>3, Invariant, PTL DEF Spec
=============================================================================
