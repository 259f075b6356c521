--------------------------- MODULE DeliveryProofs ---------------------------
(* What is proved of Delivery for all values of its constants. *)
EXTENDS Delivery, FiniteSetTheorems, SequenceTheorems, TLAPS

----------------------------------------------------------------------------
(* Sequences *)

LEMMA AppendSet ==
    ASSUME NEW S, NEW s \in Seq(S), NEW x \in S
    PROVE  Append(s, x) \in Seq(S) /\ ToSet(Append(s, x)) = ToSet(s) \cup {x}
  <1>1. /\ Append(s, x) \in Seq(S) /\ Len(Append(s, x)) = Len(s) + 1
        /\ \A i \in 1..Len(s) : Append(s, x)[i] = s[i]
        /\ Append(s, x)[Len(s) + 1] = x
    OBVIOUS
  <1>2. DOMAIN s = 1..Len(s) /\ DOMAIN Append(s, x) = 1..Len(s) + 1 /\ Len(s) \in Nat
    BY <1>1
  <1> QED BY <1>1, <1>2 DEF ToSet

LEMMA AppendOne ==
    ASSUME NEW S, NEW s \in Seq(S), NEW x \in S, IsInjective(s), x \notin ToSet(s)
    PROVE  /\ Append(s, x) \in Seq(S) /\ IsInjective(Append(s, x))
           /\ ToSet(Append(s, x)) = ToSet(s) \cup {x}
  <1>1. /\ Append(s, x) \in Seq(S) /\ Len(Append(s, x)) = Len(s) + 1
        /\ \A i \in 1..Len(s) : Append(s, x)[i] = s[i]
        /\ Append(s, x)[Len(s) + 1] = x
    OBVIOUS
  <1>2. DOMAIN s = 1..Len(s) /\ DOMAIN Append(s, x) = 1..Len(s) + 1 /\ Len(s) \in Nat
    BY <1>1
  <1>3. \A i \in 1..Len(s) : Append(s, x)[i] # x
    BY <1>1, <1>2 DEF ToSet
  <1>4. IsInjective(Append(s, x))
    BY <1>1, <1>2, <1>3 DEF IsInjective
  <1> QED BY <1>1, <1>4, AppendSet

LEMMA TailSet ==
    ASSUME NEW S, NEW s \in Seq(S), s # <<>>
    PROVE  /\ Tail(s) \in Seq(S) /\ ToSet(Tail(s)) \subseteq ToSet(s)
           /\ Len(s) # 1 => Tail(s) # <<>>
  <1>1. /\ Tail(s) \in Seq(S) /\ Len(s) \in Nat \ {0} /\ Len(Tail(s)) = Len(s) - 1
        /\ \A i \in 1..Len(s) - 1 : Tail(s)[i] = s[i + 1]
    OBVIOUS
  <1>2. DOMAIN s = 1..Len(s) /\ DOMAIN Tail(s) = 1..Len(s) - 1
    BY <1>1
  <1>3. ToSet(Tail(s)) \subseteq ToSet(s)
    BY <1>1, <1>2 DEF ToSet
  <1>4. Len(s) # 1 => Len(Tail(s)) # 0
    BY <1>1
  <1>5. \A r \in Seq(S) : Len(r) # 0 => r # <<>>
    OBVIOUS
  <1> QED BY <1>1, <1>3, <1>4, <1>5, Zenon

LEMMA TailOne ==
    ASSUME NEW S, NEW s \in Seq(S), IsInjective(s), s # <<>>
    PROVE  /\ Tail(s) \in Seq(S) /\ IsInjective(Tail(s))
           /\ Head(s) \in S /\ Head(s) \in ToSet(s)
           /\ ToSet(Tail(s)) = ToSet(s) \ {Head(s)}
  <1>1. /\ Tail(s) \in Seq(S) /\ Len(s) \in Nat \ {0} /\ Len(Tail(s)) = Len(s) - 1
        /\ \A i \in 1..Len(s) - 1 : Tail(s)[i] = s[i + 1]
        /\ Head(s) = s[1]
    OBVIOUS
  <1>2. DOMAIN s = 1..Len(s) /\ DOMAIN Tail(s) = 1..Len(s) - 1
    BY <1>1
  <1>3. Head(s) \in S /\ Head(s) \in ToSet(s)
    BY <1>1, <1>2 DEF ToSet
  <1>4. IsInjective(Tail(s))
    BY <1>1, <1>2 DEF IsInjective
  <1>5. ToSet(Tail(s)) = ToSet(s) \ {Head(s)}
    <2>1. \A i \in 1..Len(s) : i # 1 => i - 1 \in 1..Len(s) - 1 /\ s[i] = Tail(s)[i - 1]
      BY <1>1
    <2>2. \A i \in 1..Len(s) - 1 : i + 1 \in 1..Len(s) /\ s[i + 1] # s[1]
      BY <1>1, <1>2 DEF IsInjective
    <2>3. ASSUME NEW v \in ToSet(Tail(s)) PROVE v \in ToSet(s) \ {Head(s)}
      BY <1>1, <1>2, <2>2 DEF ToSet
    <2>4. ASSUME NEW v \in ToSet(s), v # Head(s) PROVE v \in ToSet(Tail(s))
      <3>1. PICK i \in 1..Len(s) : v = s[i]
        BY <1>2 DEF ToSet
      <3>2. i # 1
        BY <1>1, <2>4, <3>1
      <3> QED BY <1>2, <2>1, <3>1, <3>2 DEF ToSet
    <2> QED BY <2>3, <2>4
  <1> QED BY <1>1, <1>3, <1>4, <1>5

LEMMA RemoveOne ==
    ASSUME NEW S, NEW s \in Seq(S), IsInjective(s), NEW n \in DOMAIN s
    PROVE  /\ RemoveAt(s, n) \in Seq(S) /\ IsInjective(RemoveAt(s, n))
           /\ ToSet(RemoveAt(s, n)) = ToSet(s) \ {s[n]}
  <1> DEFINE r == RemoveAt(s, n)
             old(i) == IF i < n THEN i ELSE i + 1
  <1>1. DOMAIN s = 1..Len(s) /\ Len(s) \in Nat /\ n \in 1..Len(s)
    OBVIOUS
  <1>2. /\ r \in Seq(S) /\ DOMAIN r = 1..Len(s) - 1
        /\ \A i \in 1..Len(s) - 1 : r[i] = s[old(i)]
    <2> DEFINE a == SubSeq(s, 1, n - 1)
               b == SubSeq(s, n + 1, Len(s))
    <2>1. /\ a \in Seq(S) /\ Len(a) = n - 1 /\ \A i \in 1..n - 1 : a[i] = s[i]
          /\ b \in Seq(S) /\ Len(b) = Len(s) - n /\ \A i \in 1..Len(s) - n : b[i] = s[n + i]
      BY <1>1, SMTT(20)
    <2>2. r = a \o b
      BY DEF RemoveAt
    <2> HIDE DEF a, b
    <2> HIDE DEF r
    <2>3. /\ r \in Seq(S) /\ Len(r) = Len(a) + Len(b)
          /\ \A i \in 1..Len(a) + Len(b) : r[i] = IF i <= Len(a) THEN a[i] ELSE b[i - Len(a)]
      BY <2>1, <2>2, ConcatProperties
    <2>4. ASSUME NEW i \in 1..Len(s) - 1 PROVE r[i] = s[old(i)]
      <3>1. CASE i < n
        BY <1>1, <2>1, <2>3, <3>1
      <3>2. CASE i >= n
        <4>1. /\ i - (n - 1) \in 1..Len(s) - n /\ n + (i - (n - 1)) = i + 1
              /\ i \in 1..Len(a) + Len(b) /\ ~(i <= Len(a)) /\ i - Len(a) = i - (n - 1)
          BY <1>1, <2>1, <3>2
        <4>2. r[i] = b[i - Len(a)]
          BY <2>3, <4>1
        <4>3. b[i - (n - 1)] = s[n + (i - (n - 1))]
          BY <2>1, <4>1
        <4>4. old(i) = i + 1
          BY <1>1, <3>2
        <4> QED BY <4>1, <4>2, <4>3, <4>4
      <3> QED BY <1>1, <3>1, <3>2
    <2>5. DOMAIN r = 1..Len(s) - 1
      BY <1>1, <2>1, <2>3
    <2> QED BY <2>3, <2>4, <2>5
  <1> HIDE DEF r
  <1>3. \A i \in 1..Len(s) - 1 : old(i) \in 1..Len(s) \ {n}
    BY <1>1
  <1>4. \A i, j \in 1..Len(s) - 1 : old(i) = old(j) => i = j
    OBVIOUS
  <1>5. \A j \in 1..Len(s) \ {n} : \E i \in 1..Len(s) - 1 : old(i) = j
    <2> TAKE j \in 1..Len(s) \ {n}
    <2>1. CASE j < n
      BY <1>1, <2>1
    <2>2. CASE j > n
      <3>1. j - 1 \in 1..Len(s) - 1 /\ old(j - 1) = j
        BY <1>1, <2>2
      <3> QED BY <3>1
    <2> QED BY <1>1, <2>1, <2>2
  <1> HIDE DEF old
  <1>6. IsInjective(r)
    BY <1>1, <1>2, <1>3, <1>4 DEF IsInjective
  <1>7. ToSet(r) = ToSet(s) \ {s[n]}
    <2>1. \A i \in 1..Len(s) \ {n} : s[i] # s[n]
      BY <1>1 DEF IsInjective
    <2>2. ASSUME NEW v \in ToSet(r) PROVE v \in ToSet(s) \ {s[n]}
      BY <1>1, <1>2, <1>3, <2>1 DEF ToSet
    <2>3. ASSUME NEW v \in ToSet(s), v # s[n] PROVE v \in ToSet(r)
      <3>1. PICK j \in 1..Len(s) \ {n} : v = s[j]
        BY <1>1, <2>3 DEF ToSet
      <3>2. PICK i \in 1..Len(s) - 1 : old(i) = j
        BY <1>5
      <3> QED BY <1>2, <3>1, <3>2 DEF ToSet
    <2> QED BY <2>2, <2>3
  <1> QED BY <1>2, <1>6, <1>7 DEF r

----------------------------------------------------------------------------
(* The inductive invariant *)

Giving == {"snap", "give", "put"}
Queued(e) == ToSet(queue[e])
Sent(m) == src[m] # Unsent
For(e, m) == e \in cast[m] /\ \E a \in past[e] : Accepts(NetSid, m, src[m], a)
Puts(e) == {t \in Thread : pc[t] = "put" /\ Head(todo[t]) = e}
Ordered == {e \in Ep : Cardinality({t \in Thread : e \in ToSet(Receives[t])}) <= 1}

\* TypeOK but for the length of the queues.
Types ==
    /\ addr \in [Ep -> Address] /\ past \in [Ep -> SUBSET Address]
    /\ queue \in [Ep -> Seq(Msg)] /\ inbox \in [Ep -> Seq(Msg)]
    /\ src \in [Msg -> Address \cup {Unsent}]
    /\ valid \in [SyncMsg -> BOOLEAN] /\ next \in [Thread -> Nat]
    /\ count \in [Msg -> Nat] /\ given \in [Msg -> SUBSET Ep]
    /\ reg \in Seq(Ep) /\ IsInjective(reg)
    /\ life \in [Ep -> {"new", "owned", "released", "leaving", "gone"}]
    /\ \A e \in Ep : life[e] \in {"owned", "released", "leaving"} <=> e \in ToSet(reg)
    /\ cast \in [Msg -> SUBSET Ep]
    /\ pc \in [Thread -> {"idle", "snap", "give", "put", "drop", "get", "take"}]
    /\ hand \in [Thread -> Msg \cup {NoMsg}]
    /\ at \in [Thread -> Seq(Ep)] /\ todo \in [Thread -> Seq(Ep)]
    /\ snap \in [Thread -> SUBSET Ep]

\* A thread has sent its script up to the message it sends now.
Progress(t) ==
    /\ next[t] \in 1..Len(Script[t]) + 1
    /\ \A i \in DOMAIN Script[t] : Sent(Script[t][i]) <=> i < next[t]
    /\ pc[t] \in Giving =>
          next[t] > 1 /\ hand[t] = Script[t][next[t] - 1] /\ life[From[hand[t]]] = "owned"

\* The endpoints left in its snapshot have not been given the message yet.
Sending(t) ==
    /\ pc[t] = "snap" => cast[hand[t]] = {}
    /\ pc[t] \in {"give", "put"} =>
          /\ todo[t] # <<>> /\ IsInjective(todo[t]) /\ ToSet(todo[t]) \subseteq cast[hand[t]]
          /\ \A e \in ToSet(todo[t]) :
                /\ hand[t] \notin Queued(e) /\ e \notin given[hand[t]]
                /\ hand[t] \notin SyncMsg => hand[t] \notin ToSet(inbox[e])
    /\ pc[t] \in Giving => hand[t] \in Msg
    /\ pc[t] = "put" => For(Head(todo[t]), hand[t])

\* A sync message in the hands of its receiver came before the rest of the queue.
Receiving(t) ==
    /\ ToSet(at[t]) \subseteq ToSet(Receives[t])
    /\ pc[t] \in {"get", "take"} => at[t] # <<>>
    /\ pc[t] = "take" =>
          LET e == Head(at[t])
          IN  /\ hand[t] \in SyncMsg /\ For(e, hand[t])
              /\ \A n \in Queued(e) : ~SentBefore(n, hand[t])
              /\ e \in Ordered => \A n \in ToSet(inbox[e]) : ~SentBefore(hand[t], n)

\* A queue holds a message once, in the order of its sender, and no message
\* that was received before.
Queue(e) ==
    /\ IsInjective(queue[e]) /\ \A m \in Queued(e) : For(e, m)
    /\ \A i, j \in DOMAIN queue[e] : i < j => ~SentBefore(queue[e][j], queue[e][i])
    /\ \A m \in Queued(e) \ SyncMsg : m \notin ToSet(inbox[e])
    /\ e \in Ordered => \A m \in Queued(e), n \in ToSet(inbox[e]) : ~SentBefore(m, n)
    /\ addr[e] \in past[e]
    /\ \A m \in ToSet(inbox[e]) : e \in cast[m]

\* A put that is admitted counts for the limit as long as it is not done.
Limited(e) ==
    Limit[e] > 0 => Len(queue[e]) + Cardinality(Puts(e)) < Limit[e] + Cardinality(Senders)

\* What was given and is not received is where it was put, unless its endpoint
\* has left; a sync message is valid until somebody has it.
Given(m) ==
    /\ given[m] \subseteq cast[m] /\ count[m] = Cardinality(given[m])
    /\ Copies(m) \subseteq given[m] /\ (m \notin SyncMsg => Receivers(m) \subseteq given[m])
Kept(m) == \A e \in given[m] : life[e] # "gone" => e \in Copies(m) \cup Receivers(m)
Sync(m) ==
    /\ valid[m] <=> Receivers(m) = {}
    /\ valid[m] => \A e \in given[m] : life[e] # "gone" => e \in Copies(m) \cup Held(m)

Unsnapped(m) == ~Sent(m) => cast[m] = {}

DeliveryInv ==
    /\ Types
    /\ \A t \in Thread : Progress(t) /\ Sending(t) /\ Receiving(t)
    /\ \A e \in Ep : Queue(e) /\ Limited(e)
    /\ \A m \in SyncMsg : Sync(m)
    /\ \A m \in Msg : Unsnapped(m) /\ Given(m)
    /\ \A m \in Msg \ SyncMsg : Kept(m)

----------------------------------------------------------------------------
(* Types *)

Does(t) ==
    \/ SendBegin(t) \/ Snapshot(t) \/ Refuse(t) \/ Admit(t) \/ Put(t) \/ DropSnapshot(t)
    \/ RecvBegin(t) \/ Get(t) \/ GetNone(t) \/ Take(t) \/ Discard(t)
Changes(e) == SetAddress(e) \/ Join(e) \/ Release(e) \/ LastDrop(e) \/ DropEndpoint(e)

LEMMA TypesInit == Init => Types
  <1> SUFFICES ASSUME Init PROVE Types
    OBVIOUS
  <1>1. Home \in [Ep -> Address] /\ Order \in Seq(Ep) /\ IsInjective(Order) /\ SyncMsg \subseteq Msg
    BY AddressAssumption, OrderAssumption, MessageAssumption
  <1>2. past \in [Ep -> SUBSET Address]
    BY <1>1 DEF Init
  <1> QED BY <1>1, <1>2 DEF Init, Types

\* A queue stays, or is emptied with its endpoint.
LEMMA FreedQueues ==
    ASSUME DeliveryInv, NEW es, queue' = Freed(es)
    PROVE  /\ queue' \in [Ep -> Seq(Msg)]
           /\ \A e \in Ep : queue'[e] = IF e \in es THEN <<>> ELSE queue[e]
  BY DEF DeliveryInv, Types, Freed

LEMMA TypesDoes ==
    ASSUME DeliveryInv, NEW t \in Thread, Does(t)
    PROVE  Types'
  <1> USE MessageAssumption DEF net, local, books
  <1>1. Types /\ Progress(t) /\ Sending(t) /\ Receiving(t)
    BY DEF DeliveryInv
  <1>2. CASE SendBegin(t)
    <2>1. Script[t][next[t]] \in Msg /\ From[Script[t][next[t]]] \in Ep
      BY <1>2, ScriptAssumption DEF SendBegin
    <2>2. src' \in [Msg -> Address \cup {Unsent}] /\ next' \in [Thread -> Nat]
      BY <1>1, <1>2, <2>1 DEF SendBegin, Types
    <2>3. /\ hand' \in [Thread -> Msg \cup {NoMsg}]
          /\ pc' \in [Thread -> {"idle", "snap", "give", "put", "drop", "get", "take"}]
      BY <1>1, <1>2, <2>1 DEF SendBegin, Types
    <2>4. UNCHANGED <<addr, past, queue, inbox, valid, count, given, reg, life, cast, at, todo, snap>>
      BY <1>2 DEF SendBegin
    <2> QED BY <1>1, <2>2, <2>3, <2>4 DEF Types
  <1>3. CASE Snapshot(t)
    <2>1. hand[t] \in Msg /\ ToSet(reg) \in SUBSET Ep
      BY <1>1, <1>3 DEF Snapshot, Types, Sending, Giving, ToSet
    <2>2. todo' \in [Thread -> Seq(Ep)] /\ snap' \in [Thread -> SUBSET Ep]
      BY <1>1, <1>3, <2>1 DEF Snapshot, Types
    <2> QED BY <1>1, <1>3, <2>1, <2>2 DEF Snapshot, Types
  <1>4. ASSUME NextEndpoint(t), pc[t] \in {"give", "put"}
        PROVE  /\ Head(todo[t]) \in Ep /\ hand[t] \in Msg
               /\ todo' \in [Thread -> Seq(Ep)]
               /\ pc' \in [Thread -> {"idle", "snap", "give", "put", "drop", "get", "take"}]
    <2>1. todo[t] \in Seq(Ep) /\ todo[t] # <<>> /\ hand[t] \in Msg
      BY <1>1, <1>4 DEF Types, Sending, Giving
    <2>2. Head(todo[t]) \in Ep /\ Tail(todo[t]) \in Seq(Ep)
      BY <2>1
    <2> QED BY <1>1, <1>4, <2>1, <2>2 DEF NextEndpoint, Types
  <1>5. CASE Refuse(t)
    BY <1>1, <1>4, <1>5 DEF Refuse, Counted, Types
  <1>6. CASE Admit(t)
    BY <1>1, <1>6 DEF Admit, FlagShared, Types
  <1>7. CASE Put(t)
    <2>1. count' \in [Msg -> Nat] /\ queue' \in [Ep -> Seq(Msg)] /\ given' \in [Msg -> SUBSET Ep]
      BY <1>1, <1>4, <1>7 DEF Put, Counted, Types
    <2> QED BY <1>1, <1>4, <1>7, <2>1 DEF Put, Types
  <1>8. CASE RecvBegin(t)
    BY <1>1, <1>8, ReceiveAssumption DEF RecvBegin, Types
  <1>9. ASSUME RecvEnd(t)
         PROVE  /\ pc' \in [Thread -> {"idle", "snap", "give", "put", "drop", "get", "take"}]
                /\ hand' \in [Thread -> Msg \cup {NoMsg}] /\ at' \in [Thread -> Seq(Ep)]
    BY <1>1, <1>9 DEF RecvEnd, Types
  <1>10. CASE Get(t)
    <2>1. Head(at[t]) \in Ep
      BY <1>1, <1>10 DEF Get, Receiving, Types
    <2>2. Head(queue[Head(at[t])]) \in Msg /\ Tail(queue[Head(at[t])]) \in Seq(Msg)
      BY <1>1, <1>10, <2>1 DEF Get, Types
    <2>3. queue' \in [Ep -> Seq(Msg)]
      BY <1>1, <1>10, <2>1, <2>2 DEF Get, Types
    <2>4. CASE Head(queue[Head(at[t])]) \in SyncMsg
      <3>1. /\ inbox' = inbox /\ at' = at /\ pc' = [pc EXCEPT ![t] = "take"]
            /\ hand' = [hand EXCEPT ![t] = Head(queue[Head(at[t])])]
        BY <1>10, <2>4 DEF Get
      <3> QED BY <1>1, <1>10, <2>2, <2>3, <3>1 DEF Get, Types
    <2>5. CASE Head(queue[Head(at[t])]) \notin SyncMsg
      <3>1. /\ inbox' = [inbox EXCEPT ![Head(at[t])] = Append(@, Head(queue[Head(at[t])]))]
            /\ RecvEnd(t)
        BY <1>10, <2>5 DEF Get
      <3>2. inbox' \in [Ep -> Seq(Msg)]
        BY <1>1, <2>1, <2>2, <3>1 DEF Types
      <3> QED BY <1>1, <1>10, <1>9, <2>3, <3>1, <3>2 DEF Get, Types
    <2> QED BY <2>4, <2>5
  <1>11. CASE GetNone(t)
    <2>1. Tail(at[t]) \in Seq(Ep)
      BY <1>1, <1>11 DEF GetNone, Receiving, Types
    <2>2. CASE Len(at[t]) = 1
      BY <1>1, <1>11, <1>9, <2>2 DEF GetNone, Types
    <2>3. CASE Len(at[t]) # 1
      BY <1>1, <1>11, <2>1, <2>3, ZenonT(40) DEF GetNone, Types
    <2> QED BY <2>2, <2>3
  <1>12. CASE Take(t)
    <2>1. Head(at[t]) \in Ep /\ hand[t] \in SyncMsg
      BY <1>1, <1>12 DEF Take, Receiving, Types
    <2>2. inbox' \in [Ep -> Seq(Msg)]
      BY <1>1, <1>12, <2>1 DEF Take, Types
    <2> QED BY <1>1, <1>12, <1>9, <2>1, <2>2 DEF Take, FlagTaken, Types
  <1>13. CASE Discard(t)
    BY <1>1, <1>13 DEF Discard, Types
  <1>14. CASE DropSnapshot(t)
    <2>1. queue' \in [Ep -> Seq(Msg)]
      BY <1>14, FreedQueues DEF DropSnapshot
    <2> QED BY <1>1, <1>14, <2>1 DEF DropSnapshot, Types
  <1> QED
    BY <1>2, <1>3, <1>5, <1>6, <1>7, <1>8, <1>10, <1>11, <1>12, <1>13, <1>14 DEF Does

LEMMA TypesChanges ==
    ASSUME DeliveryInv, NEW e \in Ep, Changes(e)
    PROVE  Types'
  <1> USE DEF net, local, books
  <1>1. Types /\ \A f \in Ep : life[f] \in {"owned", "released", "leaving"} <=> f \in ToSet(reg)
    BY DEF DeliveryInv, Types
  <1>2. CASE SetAddress(e)
    <2>1. PICK a \in Moves[e] \ {addr[e]} :
             addr' = [addr EXCEPT ![e] = a] /\ past' = [past EXCEPT ![e] = @ \cup {a}]
      BY <1>2 DEF SetAddress
    <2>2. a \in Address
      BY <2>1, LimitAssumption
    <2>3. UNCHANGED <<queue, inbox, src, valid, books, net, local>>
      BY <1>2 DEF SetAddress
    <2> QED BY <1>1, <2>1, <2>2, <2>3 DEF Types
  <1>3. CASE Join(e)
    <2>1. reg \in Seq(Ep) /\ IsInjective(reg) /\ e \notin ToSet(reg) /\ reg' = Append(reg, e)
      BY <1>1, <1>3 DEF Join, Types
    <2>2. reg' \in Seq(Ep) /\ IsInjective(reg') /\ ToSet(reg') = ToSet(reg) \cup {e}
      BY <2>1, AppendOne
    <2>3. life' = [life EXCEPT ![e] = "owned"]
      BY <1>3 DEF Join
    <2>4. \A f \in Ep : life'[f] \in {"owned", "released", "leaving"} <=> f \in ToSet(reg')
      BY <1>1, <2>2, <2>3 DEF Types
    <2> QED BY <1>1, <1>3, <2>2, <2>4 DEF Join, Types
  <1>4. CASE Release(e)
    BY <1>1, <1>4 DEF Release, Types
  <1>5. CASE LastDrop(e)
    BY <1>1, <1>5 DEF LastDrop, Types
  <1>6. CASE DropEndpoint(e)
    <2>1. PICK ndx \in DOMAIN reg : reg[ndx] = e /\ reg' = RemoveAt(reg, ndx)
      BY <1>6 DEF DropEndpoint
    <2>2. reg' \in Seq(Ep) /\ IsInjective(reg') /\ ToSet(reg') = ToSet(reg) \ {e}
      BY <1>1, <2>1, RemoveOne DEF Types
    <2>3. life' = [life EXCEPT ![e] = "gone"]
      BY <1>6 DEF DropEndpoint
    <2>4. \A f \in Ep : life'[f] \in {"owned", "released", "leaving"} <=> f \in ToSet(reg')
      BY <1>1, <2>2, <2>3 DEF Types
    <2>5. queue' \in [Ep -> Seq(Msg)]
      BY <1>6, FreedQueues DEF DropEndpoint
    <2> QED BY <1>1, <1>6, <2>2, <2>4, <2>5 DEF DropEndpoint, Types
  <1> QED BY <1>2, <1>3, <1>4, <1>5, <1>6 DEF Changes

----------------------------------------------------------------------------
(* Who has sent what *)

LEMMA CastSent ==
    ASSUME DeliveryInv, NEW m \in Msg, NEW e \in cast[m]
    PROVE  Sent(m)
  BY DEF DeliveryInv, Unsnapped

LEMMA HandSent ==
    ASSUME DeliveryInv, NEW t \in Thread, pc[t] \in Giving
    PROVE  /\ hand[t] \in Msg /\ Sent(hand[t]) /\ t \in Senders
           /\ \E i \in DOMAIN Script[t] : i = next[t] - 1 /\ hand[t] = Script[t][i]
  <1>1. Progress(t) /\ Sending(t) /\ Script[t] \in Seq(Msg)
    BY ScriptAssumption DEF DeliveryInv
  <1>2. next[t] - 1 \in DOMAIN Script[t] /\ next[t] - 1 < next[t] /\ hand[t] = Script[t][next[t] - 1]
    BY <1>1 DEF Progress
  <1>3. Script[t] # <<>>
    BY <1>2
  <1> QED BY <1>1, <1>2, <1>3 DEF Progress, Sending, Senders

LEMMA HandsDiffer ==
    ASSUME DeliveryInv, NEW t \in Thread, NEW u \in Thread, t # u,
           pc[t] \in Giving, pc[u] \in Giving
    PROVE  hand[t] # hand[u]
  <1>1. PICK i \in DOMAIN Script[t] : hand[t] = Script[t][i]
    BY HandSent
  <1>2. PICK j \in DOMAIN Script[u] : hand[u] = Script[u][j]
    BY HandSent
  <1> QED BY <1>1, <1>2, ScriptAssumption

\* Nothing that was sent comes after what a thread is sending, in its order.
LEMMA LatestIsLast ==
    ASSUME DeliveryInv, NEW t \in Thread, pc[t] \in Giving, NEW n \in Msg, Sent(n)
    PROVE  ~SentBefore(hand[t], n)
  <1> SUFFICES ASSUME SentBefore(hand[t], n) PROVE FALSE
    OBVIOUS
  <1>1. PICK i \in DOMAIN Script[t] : i = next[t] - 1 /\ hand[t] = Script[t][i]
    BY HandSent
  <1>2. PICK u \in Thread : \E k, j \in DOMAIN Script[u] :
            k < j /\ Script[u][k] = hand[t] /\ Script[u][j] = n
    BY DEF SentBefore
  <1>3. PICK k \in DOMAIN Script[u], j \in DOMAIN Script[u] :
            k < j /\ Script[u][k] = hand[t] /\ Script[u][j] = n
    BY <1>2
  <1>4. u = t /\ k = i
    BY <1>1, <1>3, ScriptAssumption
  <1>5. Sent(Script[t][j]) <=> j < next[t]
    BY <1>3, <1>4 DEF DeliveryInv, Progress
  <1>6. i \in Int /\ j \in Int /\ next[t] \in Int
    BY <1>1, <1>3, ScriptAssumption DEF DeliveryInv, Progress
  <1> QED BY <1>1, <1>3, <1>4, <1>5, <1>6

\* What a step leaves: addresses in messages, and for whom they are.
LEMMA Grows ==
    ASSUME DeliveryInv,
           (\E t \in Thread : Does(t)) \/ (\E e \in Ep : Changes(e))
    PROVE  /\ \A m \in Msg : Sent(m) => src'[m] = src[m]
           /\ \A m \in Msg : cast[m] \subseteq cast'[m]
           /\ \A e \in Ep : past[e] \subseteq past'[e]
           /\ \A e \in Ep, m \in Msg : For(e, m) => For(e, m)'
  <1> USE DEF net, local, books
  <1>1. /\ src \in [Msg -> Address \cup {Unsent}] /\ cast \in [Msg -> SUBSET Ep]
        /\ past \in [Ep -> SUBSET Address]
    BY DEF DeliveryInv, Types
  <1>2. \A m \in Msg : Sent(m) => src'[m] = src[m]
    <2>1. CASE src' = src
      BY <2>1
    <2>2. ASSUME NEW t \in Thread, SendBegin(t)
          PROVE  \A m \in Msg : Sent(m) => src'[m] = src[m]
      <3>1. ~Sent(Script[t][next[t]])
        BY <2>2 DEF DeliveryInv, Progress, SendBegin, Types
      <3> QED BY <1>1, <2>2, <3>1 DEF SendBegin
    <2>3. src' = src \/ \E t \in Thread : SendBegin(t)
      BY DEF Does, Changes, Snapshot, Refuse, Admit, Put,
             DropSnapshot, RecvBegin, Get, GetNone, Take, Discard,
             SetAddress, Join, Release, LastDrop, DropEndpoint
    <2> QED BY <2>1, <2>2, <2>3
  <1>3. \A m \in Msg : cast[m] \subseteq cast'[m]
    <2>1. ASSUME NEW t \in Thread, Snapshot(t)
          PROVE  \A m \in Msg : cast[m] \subseteq cast'[m]
      <3>1. cast[hand[t]] = {}
        BY <2>1 DEF DeliveryInv, Sending, Snapshot
      <3> QED BY <1>1, <2>1, <3>1 DEF Snapshot
    <2>2. cast' = cast \/ \E t \in Thread : Snapshot(t)
      BY DEF Does, Changes, SendBegin, Refuse, Admit, Put,
             DropSnapshot, RecvBegin, Get, GetNone, Take, Discard,
             SetAddress, Join, Release, LastDrop, DropEndpoint
    <2> QED BY <2>1, <2>2
  <1>4. \A e \in Ep : past[e] \subseteq past'[e]
    <2>1. past' = past \/ \E e \in Ep : SetAddress(e)
      BY DEF Does, Changes, SendBegin, Snapshot, Refuse, Admit, Put,
             DropSnapshot, RecvBegin, Get, GetNone, Take,
             Discard, Join, Release, LastDrop, DropEndpoint
    <2> QED BY <1>1, <2>1 DEF SetAddress
  <1>5. ASSUME NEW e \in Ep, NEW m \in Msg, For(e, m) PROVE For(e, m)'
    <2>1. Sent(m)
      BY <1>5, CastSent DEF For
    <2> QED BY <1>2, <1>3, <1>4, <1>5, <2>1 DEF For
  <1> QED BY <1>2, <1>3, <1>4, <1>5

----------------------------------------------------------------------------
(* The threads *)

LEMMA ProgressStep ==
    ASSUME DeliveryInv, NEW u \in Thread,
           (\E t \in Thread : Does(t)) \/ (\E e \in Ep : Changes(e))
    PROVE  Progress(u)'
  <1> USE DEF net, local, books
  <1>1. Types /\ Progress(u) /\ Sending(u) /\ Script[u] \in Seq(Msg)
    BY ScriptAssumption DEF DeliveryInv
  <1>2. ASSUME UNCHANGED <<src, next>>,
               pc'[u] \in Giving => pc[u] \in Giving /\ hand'[u] = hand[u] /\ life'[From[hand[u]]] = "owned"
        PROVE  Progress(u)'
    BY <1>1, <1>2 DEF Progress, Sent
  <1>3. ASSUME NEW t \in Thread, SendBegin(t)
        PROVE  Progress(u)'
    <2> DEFINE m == Script[t][next[t]]
    <2>1. m \in Msg /\ From[m] \in Ep /\ next[t] \in DOMAIN Script[t] /\ life[From[m]] = "owned"
      BY <1>3, ScriptAssumption, MessageAssumption DEF SendBegin
    <2>2. addr[From[m]] # Unsent
      BY <1>1, <2>1, AddressAssumption DEF Types
    <2>3. src' = [src EXCEPT ![m] = addr[From[m]]] /\ hand' = [hand EXCEPT ![t] = m]
      BY <1>3 DEF SendBegin
    <2>4. CASE t = u
      <3>1. \A i \in DOMAIN Script[u] : Script[u][i] = m => i = next[u]
        BY <2>1, <2>4, ScriptAssumption
      <3>2. next[u] \in Nat /\ next'[u] = next[u] + 1 /\ next[u] \in 1..Len(Script[u])
        BY <1>1, <1>3, <2>1, <2>4 DEF SendBegin, Types, Progress
      <3>3. \A i \in DOMAIN Script[u] : src'[Script[u][i]] # Unsent <=> i < next'[u]
        <4> TAKE i \in DOMAIN Script[u]
        <4>1. i \in Nat /\ Script[u][i] \in Msg
          BY <1>1
        <4>2. CASE i = next[u]
          BY <1>1, <2>2, <2>3, <2>4, <3>2, <4>1, <4>2 DEF Types
        <4>3. CASE i # next[u]
          <5>1. src'[Script[u][i]] = src[Script[u][i]]
            BY <1>1, <2>3, <3>1, <4>1, <4>3 DEF Types
          <5>2. i < next'[u] <=> i < next[u]
            BY <3>2, <4>1, <4>3
          <5> QED BY <1>1, <5>1, <5>2 DEF Progress, Sent
        <4> QED BY <4>2, <4>3
      <3>4. hand'[u] = m /\ life'[From[m]] = "owned" /\ next'[u] > 1 /\ next'[u] - 1 = next[u]
        BY <1>1, <1>3, <2>1, <2>3, <2>4, <3>2, SMTT(20) DEF Types, SendBegin
      <3>5. next'[u] \in 1..Len(Script[u]) + 1
        BY <1>1, <3>2
      <3> HIDE DEF m
      <3> QED BY <2>4, <3>3, <3>4, <3>5 DEF Progress, Sent, m
    <2>5. CASE t # u
      <3>1. \A i \in DOMAIN Script[u] : Script[u][i] # m
        BY <2>1, <2>5, ScriptAssumption
      <3>2. \A i \in DOMAIN Script[u] : src'[Script[u][i]] = src[Script[u][i]]
        BY <1>1, <2>3, <3>1 DEF Types
      <3>3. next'[u] = next[u] /\ hand'[u] = hand[u] /\ pc'[u] = pc[u] /\ life' = life
        BY <1>1, <1>3, <2>5 DEF Types, SendBegin
      <3> HIDE DEF m
      <3> QED BY <1>1, <3>2, <3>3 DEF Progress, Sent
    <2> QED BY <2>4, <2>5
  <1>4. ASSUME NEW t \in Thread, Does(t), ~SendBegin(t)
        PROVE  Progress(u)'
    <2>1. src' = src /\ next' = next /\ life' = life
      BY <1>4 DEF Does, Snapshot, Refuse, Admit, Put,
                  DropSnapshot, RecvBegin, Get, GetNone, Take, Discard
    <2>2. CASE t = u
      <3>1. pc'[u] \in Giving => pc[u] \in Giving /\ hand'[u] = hand[u]
        BY <1>1, <1>4, <2>2, ZenonT(30)
        DEF Does, Snapshot, Refuse, Admit, Put,
            DropSnapshot, RecvBegin, Get, GetNone, Take, Discard, NextEndpoint,
            RecvEnd, Types, Giving
      <3> QED BY <1>1, <1>2, <2>1, <3>1 DEF Progress
    <2>3. CASE t # u
      <3>1. pc'[u] = pc[u] /\ hand'[u] = hand[u]
        BY <1>1, <1>4, <2>3
        DEF Does, Snapshot, Refuse, Admit, Put,
            DropSnapshot, RecvBegin, Get, GetNone, Take, Discard, NextEndpoint,
            RecvEnd, Types
      <3> QED BY <1>1, <1>2, <2>1, <3>1 DEF Progress
    <2> QED BY <2>2, <2>3
  <1>5. ASSUME NEW e \in Ep, Changes(e)
        PROVE  Progress(u)'
    <2>1. UNCHANGED <<src, next, pc, hand>>
      BY <1>5 DEF Changes, SetAddress, Join, Release, LastDrop, DropEndpoint
    <2>2. pc[u] \in Giving => From[hand[u]] \in Ep /\ life[From[hand[u]]] = "owned"
      BY <1>1, MessageAssumption DEF Progress, Sending
    <2>3. pc[u] \in Giving => life'[From[hand[u]]] = "owned"
      BY <1>1, <1>5, <2>2
      DEF Changes, SetAddress, Join, Release, LastDrop, DropEndpoint, Types, Giving
    <2> QED BY <1>2, <2>1, <2>3
  <1> QED BY <1>3, <1>4, <1>5

\* The endpoint a thread is at, and the rest of its snapshot.
LEMMA AtHead ==
    ASSUME DeliveryInv, NEW t \in Thread, pc[t] \in {"give", "put"}
    PROVE  LET s == todo[t]
           IN  /\ s \in Seq(Ep) /\ s # <<>> /\ IsInjective(s)
               /\ Head(s) \in Ep /\ Head(s) \in ToSet(s) /\ Head(s) \in cast[hand[t]]
               /\ Tail(s) \in Seq(Ep) /\ IsInjective(Tail(s))
               /\ ToSet(Tail(s)) = ToSet(s) \ {Head(s)}
               /\ Len(s) # 1 => Tail(s) # <<>>
               /\ hand[t] \notin Queued(Head(s))
               /\ hand[t] \notin SyncMsg => hand[t] \notin ToSet(inbox[Head(s)])
  <1>1. Sending(t) /\ todo[t] \in Seq(Ep) /\ todo[t] # <<>> /\ IsInjective(todo[t])
    BY DEF DeliveryInv, Types, Sending
  <1>2. /\ Tail(todo[t]) \in Seq(Ep) /\ IsInjective(Tail(todo[t]))
        /\ Head(todo[t]) \in Ep /\ Head(todo[t]) \in ToSet(todo[t])
        /\ ToSet(Tail(todo[t])) = ToSet(todo[t]) \ {Head(todo[t])}
    BY <1>1, TailOne
  <1>3. Len(todo[t]) # 1 => Tail(todo[t]) # <<>>
    BY <1>1, TailSet
  <1> QED BY <1>1, <1>2, <1>3 DEF Sending

\* The message that a receive takes from a queue.
LEMMA QueueHead ==
    ASSUME DeliveryInv, NEW e \in Ep, queue[e] # <<>>
    PROVE  LET q == queue[e]
           IN  /\ q \in Seq(Msg) /\ Head(q) \in Msg /\ Head(q) \in Queued(e)
               /\ Tail(q) \in Seq(Msg) /\ IsInjective(Tail(q))
               /\ ToSet(Tail(q)) = Queued(e) \ {Head(q)}
               /\ \A n \in Queued(e) : ~SentBefore(n, Head(q)) \/ n = Head(q)
  <1>1. Queue(e) /\ queue[e] \in Seq(Msg) /\ IsInjective(queue[e])
    BY DEF DeliveryInv, Types, Queue
  <1>2. /\ Tail(queue[e]) \in Seq(Msg) /\ IsInjective(Tail(queue[e]))
        /\ Head(queue[e]) \in Msg /\ Head(queue[e]) \in ToSet(queue[e])
        /\ ToSet(Tail(queue[e])) = ToSet(queue[e]) \ {Head(queue[e])}
    BY <1>1, TailOne
  <1>3. ASSUME NEW n \in Queued(e) PROVE ~SentBefore(n, Head(queue[e])) \/ n = Head(queue[e])
    <2>1. PICK i \in DOMAIN queue[e] : n = queue[e][i]
      BY <1>3 DEF Queued, ToSet
    <2>2. i \in 1..Len(queue[e]) /\ 1 \in DOMAIN queue[e] /\ Head(queue[e]) = queue[e][1]
      BY <1>1, <2>1
    <2> QED BY <1>1, <2>1, <2>2 DEF Queue
  <1> QED BY <1>1, <1>2, <1>3 DEF Queued

\* The steps that free queues.
Frees == (\E t \in Thread : DropSnapshot(t)) \/ (\E f \in Ep : DropEndpoint(f))

LEMMA FreesGone ==
    ASSUME DeliveryInv, Frees, NEW e \in Ep
    PROVE  /\ queue'[e] = queue[e] \/ (queue'[e] = <<>> /\ life'[e] = "gone")
           /\ UNCHANGED <<inbox, valid, count, given>>
           /\ \A t \in Thread : ~Get(t) /\ ~Put(t) /\ ~Take(t)
  <1> USE DEF net, local, books
  <1>1. ASSUME NEW t \in Thread, DropSnapshot(t)
        PROVE  /\ queue'[e] = queue[e] \/ (queue'[e] = <<>> /\ life'[e] = "gone")
               /\ UNCHANGED <<inbox, valid, count, given>>
               /\ \A u \in Thread : ~Get(u) /\ ~Put(u) /\ ~Take(u)
    <2> DEFINE es == {f \in snap[t] :
                        life[f] = "gone" /\ \A u \in Thread \ {t} : f \notin snap[u]}
    <2>1. queue' = Freed(es) /\ life' = life /\ UNCHANGED <<inbox, valid, count, given>>
      BY <1>1 DEF DropSnapshot
    <2>2. queue'[e] = IF e \in es THEN <<>> ELSE queue[e]
      BY <2>1, FreedQueues
    <2>3. hand'[t] = NoMsg /\ pc'[t] = "idle" /\ pc[t] = "drop"
      BY <1>1 DEF DropSnapshot, DeliveryInv, Types
    <2>4. ASSUME NEW u \in Thread, Get(u) \/ Put(u) \/ Take(u) PROVE FALSE
      <3>1. u # t
        BY <2>3, <2>4 DEF Get, Put, Take
      <3>2. pc'[u] = pc[u]
        BY <1>1, <3>1 DEF DropSnapshot, DeliveryInv, Types
      <3>3. pc'[u] # pc[u]
        BY <2>4, <3>1 DEF Get, Put, Take, NextEndpoint, RecvEnd, DeliveryInv, Types
      <3> QED BY <3>2, <3>3
    <2> QED BY <2>1, <2>2, <2>4
  <1>2. ASSUME NEW f \in Ep, DropEndpoint(f)
        PROVE  /\ queue'[e] = queue[e] \/ (queue'[e] = <<>> /\ life'[e] = "gone")
               /\ UNCHANGED <<inbox, valid, count, given>>
               /\ \A t \in Thread : ~Get(t) /\ ~Put(t) /\ ~Take(t)
    <2>1. /\ life' = [life EXCEPT ![f] = "gone"] /\ life[f] # "gone"
          /\ UNCHANGED <<inbox, valid, count, given>>
      BY <1>2 DEF DropEndpoint
    <2>2. \/ queue'[e] = queue[e]
          \/ queue'[e] = <<>> /\ e = f
      BY <1>2, FreedQueues DEF DropEndpoint
    <2>3. life'[f] = "gone" /\ life' # life
      BY <2>1 DEF DeliveryInv, Types
    <2> QED BY <2>1, <2>2, <2>3 DEF Get, Put, Take
  <1> QED BY <1>1, <1>2 DEF Frees

\* What a step may add to a queue and to what was received.
LEMMA Arrivals ==
    ASSUME DeliveryInv, NEW e \in Ep, NEW m,
           (\E t \in Thread : Does(t)) \/ (\E f \in Ep : Changes(f))
    PROVE  /\ m \in Queued(e)' =>
                 \/ m \in Queued(e)
                 \/ \E t \in Thread : Put(t) /\ Head(todo[t]) = e /\ m = hand[t]
           /\ m \in ToSet(inbox[e])' =>
                 \/ m \in ToSet(inbox[e])
                 \/ \E t \in Thread :
                       /\ Get(t) /\ queue[e] # <<>> /\ Head(at[t]) = e
                       /\ m = Head(queue[e]) /\ m \notin SyncMsg
                 \/ \E t \in Thread : Take(t) /\ Head(at[t]) = e /\ m = hand[t]
  <1> USE DEF net, local, books
  <1>1. Types
    BY DEF DeliveryInv
  <1>2. ASSUME NEW t \in Thread, Put(t)
        PROVE  /\ inbox' = inbox
               /\ m \in Queued(e)' => m \in Queued(e) \/ (Head(todo[t]) = e /\ m = hand[t])
    <2>1. Head(todo[t]) \in Ep /\ hand[t] \in Msg
      BY <1>2, AtHead, HandSent DEF Put, Giving
    <2>2. queue' = [queue EXCEPT ![Head(todo[t])] = Append(@, hand[t])] /\ inbox' = inbox
      BY <1>2 DEF Put
    <2>3. CASE Head(todo[t]) = e
      <3>1. queue'[e] = Append(queue[e], hand[t]) /\ queue[e] \in Seq(Msg)
        BY <1>1, <2>2, <2>3 DEF Types
      <3>2. ToSet(queue'[e]) = ToSet(queue[e]) \cup {hand[t]}
        BY <2>1, <3>1, AppendSet
      <3> QED BY <2>2, <2>3, <3>2 DEF Queued
    <2>4. CASE Head(todo[t]) # e
      BY <1>1, <2>2, <2>4 DEF Types, Queued
    <2> QED BY <2>3, <2>4
  <1>3. ASSUME NEW t \in Thread, Get(t)
        PROVE  /\ m \in Queued(e)' => m \in Queued(e)
               /\ \/ inbox'[e] = inbox[e]
                  \/ /\ queue[e] # <<>> /\ Head(at[t]) = e /\ Head(queue[e]) \notin SyncMsg
                     /\ m \in ToSet(inbox[e])' => m \in ToSet(inbox[e]) \/ m = Head(queue[e])
    <2>1. Head(at[t]) \in Ep /\ queue[Head(at[t])] # <<>>
      BY <1>1, <1>3 DEF Get, Types, DeliveryInv, Receiving
    <2>2. CASE Head(at[t]) # e
      <3>1. queue'[e] = queue[e] /\ inbox'[e] = inbox[e]
        BY <1>1, <1>3, <2>2 DEF Get, Types
      <3> QED BY <3>1 DEF Queued
    <2>3. CASE Head(at[t]) = e
      <3>1. queue'[e] = Tail(queue[e])
        BY <1>1, <1>3, <2>3 DEF Get, Types
      <3>2. ToSet(Tail(queue[e])) \subseteq Queued(e) /\ Head(queue[e]) \in Msg
        BY <2>1, <2>3, QueueHead
      <3>3. CASE Head(queue[e]) \in SyncMsg
        BY <1>3, <2>3, <3>1, <3>2, <3>3 DEF Get, Queued
      <3>4. CASE Head(queue[e]) \notin SyncMsg
        <4>1. inbox'[e] = Append(inbox[e], Head(queue[e])) /\ inbox[e] \in Seq(Msg)
          BY <1>1, <1>3, <2>3, <3>4 DEF Get, Types
        <4>2. ToSet(inbox'[e]) = ToSet(inbox[e]) \cup {Head(queue[e])}
          BY <3>2, <4>1, AppendSet
        <4> QED BY <2>1, <2>3, <3>1, <3>2, <3>4, <4>2 DEF Queued
      <3> QED BY <3>3, <3>4
    <2> QED BY <2>2, <2>3
  <1>4. ASSUME NEW t \in Thread, Take(t)
        PROVE  /\ queue' = queue
               /\ m \in ToSet(inbox[e])' => m \in ToSet(inbox[e]) \/ (Head(at[t]) = e /\ m = hand[t])
    <2>1. Head(at[t]) \in Ep /\ hand[t] \in Msg
      BY <1>1, <1>4, MessageAssumption DEF Take, Types, DeliveryInv, Receiving
    <2>2. inbox' = [inbox EXCEPT ![Head(at[t])] = Append(@, hand[t])] /\ queue' = queue
      BY <1>4 DEF Take
    <2>3. CASE Head(at[t]) = e
      <3>1. inbox'[e] = Append(inbox[e], hand[t]) /\ inbox[e] \in Seq(Msg)
        BY <1>1, <2>2, <2>3 DEF Types
      <3>2. ToSet(inbox'[e]) = ToSet(inbox[e]) \cup {hand[t]}
        BY <2>1, <3>1, AppendSet
      <3> QED BY <2>2, <2>3, <3>2
    <2>4. CASE Head(at[t]) # e
      BY <1>1, <2>2, <2>4 DEF Types
    <2> QED BY <2>3, <2>4
  <1>5. \/ queue' = queue /\ inbox' = inbox
        \/ Frees
        \/ \E t \in Thread : Put(t) \/ Get(t) \/ Take(t)
    BY DEF Does, Changes, Frees, SendBegin, Snapshot, Refuse, Admit, RecvBegin, GetNone, Discard,
           SetAddress, Join, Release, LastDrop
  <1>6. CASE queue' = queue /\ inbox' = inbox
    BY <1>6 DEF Queued
  <1>7. CASE Frees
    <2>1. inbox' = inbox /\ (queue'[e] = queue[e] \/ queue'[e] = <<>>)
      BY <1>7, FreesGone
    <2>2. ToSet(<<>>) = {}
      BY DEF ToSet
    <2> QED BY <2>1, <2>2 DEF Queued
  <1> QED BY <1>2, <1>3, <1>4, <1>5, <1>6, <1>7 DEF Queued

\* What a thread still has to give has not been given, whoever else moves.
LEMMA GivesNew ==
    ASSUME DeliveryInv, NEW u \in Thread, pc[u] \in {"give", "put"}, NEW e \in ToSet(todo[u]),
           (\E t \in Thread : Does(t)) \/ (\E f \in Ep : Changes(f)),
           ~(Put(u) /\ Head(todo[u]) = e)
    PROVE  /\ hand[u] \notin Queued(e)' /\ e \notin given'[hand[u]]
           /\ hand[u] \notin SyncMsg => hand[u] \notin ToSet(inbox[e])'
  <1>1. /\ Sending(u) /\ hand[u] \in Msg /\ hand[u] \notin Queued(e) /\ e \notin given[hand[u]]
        /\ hand[u] \notin SyncMsg => hand[u] \notin ToSet(inbox[e])
    BY HandSent DEF DeliveryInv, Sending, Giving
  <1>2. e \in Ep
    BY DEF DeliveryInv, Types, ToSet
  <1>3. hand[u] \notin Queued(e)'
    <2>1. ASSUME NEW t \in Thread, Put(t), Head(todo[t]) = e, hand[u] = hand[t]
          PROVE  FALSE
      <3>1. t = u
        BY <2>1, HandsDiffer DEF Put, Giving
      <3> QED BY <2>1, <3>1
    <2> QED BY <1>1, <1>2, <2>1, Arrivals
  <1>4. ASSUME hand[u] \notin SyncMsg PROVE hand[u] \notin ToSet(inbox[e])'
    <2>1. ASSUME queue[e] # <<>> PROVE hand[u] # Head(queue[e])
      BY <1>1, <1>2, <2>1, QueueHead
    <2>2. ASSUME NEW t \in Thread, Take(t) PROVE hand[t] \in SyncMsg
      BY <2>2 DEF Take, DeliveryInv, Receiving
    <2> QED BY <1>1, <1>2, <1>4, <2>1, <2>2, Arrivals
  <1>5. e \notin given'[hand[u]]
    <2>1. ASSUME NEW t \in Thread, Put(t) PROVE e \notin given'[hand[u]]
      <3>1. given' = [given EXCEPT ![hand[t]] = @ \cup {Head(todo[t])}]
        BY <2>1 DEF Put
      <3>2. hand[t] = hand[u] => t = u
        BY <2>1, HandsDiffer DEF Put, Giving
      <3>3. hand[t] = hand[u] => Head(todo[t]) # e
        BY <2>1, <3>2
      <3> QED BY <1>1, <3>1, <3>3 DEF DeliveryInv, Types
    <2>2. given' = given \/ \E t \in Thread : Put(t)
      BY DEF Does, Changes, SendBegin, Snapshot, Refuse, Admit, DropSnapshot, RecvBegin, Get,
             GetNone, Take, Discard, SetAddress, Join, Release, LastDrop, DropEndpoint, books
    <2> QED BY <1>1, <2>1, <2>2
  <1> QED BY <1>3, <1>4, <1>5

\* In a step of another thread or of an endpoint.
LEMMA SendingOther ==
    ASSUME DeliveryInv, NEW u \in Thread,
           (\E t \in Thread : Does(t)) \/ (\E f \in Ep : Changes(f)),
           pc'[u] = pc[u], hand'[u] = hand[u], todo'[u] = todo[u],
           pc[u] = "snap" => cast'[hand[u]] = cast[hand[u]],
           ~Put(u)
    PROVE  Sending(u)'
  <1>1. Sending(u) /\ Types
    BY DEF DeliveryInv
  <1>2. ASSUME pc[u] = "snap" PROVE cast'[hand[u]] = {}
    BY <1>1, <1>2 DEF Sending
  <1>3. ASSUME pc[u] \in {"give", "put"}
        PROVE  /\ todo[u] # <<>> /\ IsInjective(todo[u]) /\ ToSet(todo[u]) \subseteq cast'[hand[u]]
               /\ \A e \in ToSet(todo[u]) :
                     /\ hand[u] \notin Queued(e)' /\ e \notin given'[hand[u]]
                     /\ hand[u] \notin SyncMsg => hand[u] \notin ToSet(inbox[e])'
    BY <1>1, <1>3, Grows, GivesNew DEF Sending, Giving
  <1>4. ASSUME pc[u] = "put" PROVE For(Head(todo[u]), hand[u])'
    <2>1. Head(todo[u]) \in Ep /\ hand[u] \in Msg /\ For(Head(todo[u]), hand[u])
      BY <1>1, <1>4, AtHead, HandSent DEF Sending, Giving
    <2>2. PICK e \in Ep : e = Head(todo[u])
      BY <2>1
    <2>3. PICK m \in Msg : m = hand[u]
      BY <2>1
    <2>4. For(e, m)'
      BY <2>1, <2>2, <2>3, Grows
    <2> QED BY <1>4, <2>2, <2>3, <2>4 DEF For
  <1> QED BY <1>1, <1>2, <1>3, <1>4 DEF Sending, For, Queued

LEMMA SendingNext ==
    ASSUME DeliveryInv, NEW t \in Thread, Refuse(t) \/ Put(t)
    PROVE  Sending(t)'
  <1> USE DEF net
  <1>1. Sending(t) /\ Types /\ pc[t] \in {"give", "put"} /\ NextEndpoint(t) /\ Does(t)
    BY DEF DeliveryInv, Refuse, Put, Does
  <1>2. cast' = cast /\ todo'[t] = Tail(todo[t])
    BY <1>1 DEF Refuse, Put, NextEndpoint, Types
  <1>3. CASE Len(todo[t]) = 1
    <2>1. pc'[t] = "drop"
      BY <1>1, <1>3 DEF NextEndpoint, Types
    <2> QED BY <2>1 DEF Sending, Giving
  <1>4. CASE Len(todo[t]) # 1
    <2>1. pc'[t] = "give" /\ hand' = hand
      BY <1>1, <1>4 DEF Refuse, Put, NextEndpoint, Types
    <2>2. /\ Tail(todo[t]) # <<>> /\ IsInjective(Tail(todo[t]))
          /\ ToSet(Tail(todo[t])) = ToSet(todo[t]) \ {Head(todo[t])}
          /\ hand[t] \in Msg
      BY <1>1, <1>4, AtHead, HandSent DEF Giving
    <2>3. ASSUME NEW e \in ToSet(Tail(todo[t]))
          PROVE  /\ hand[t] \notin Queued(e)' /\ e \notin given'[hand[t]]
                 /\ hand[t] \notin SyncMsg => hand[t] \notin ToSet(inbox[e])'
      BY <1>1, <2>2, <2>3, GivesNew
    <2>4. ToSet(Tail(todo[t])) \subseteq cast[hand[t]]
      BY <1>1, <2>2 DEF Sending
    <2> QED BY <1>2, <2>1, <2>2, <2>3, <2>4 DEF Sending, Queued
  <1> QED BY <1>3, <1>4

LEMMA SendingDoes ==
    ASSUME DeliveryInv, NEW t \in Thread, Does(t)
    PROVE  Sending(t)'
  <1> USE DEF net, local, books
  <1>1. Sending(t) /\ Types /\ Progress(t)
    BY DEF DeliveryInv
  <1>2. CASE SendBegin(t)
    <2> DEFINE m == Script[t][next[t]]
    <2>1. m \in Msg /\ ~Sent(m)
      <3>1. next[t] \in DOMAIN Script[t] /\ Script[t] \in Seq(Msg) /\ next[t] \in Nat
        BY <1>1, <1>2, ScriptAssumption DEF SendBegin, Types
      <3> QED BY <1>1, <3>1 DEF Progress
    <2>2. cast[m] = {}
      BY <2>1 DEF DeliveryInv, Unsnapped
    <2>3. pc'[t] = "snap" /\ hand'[t] = m /\ cast' = cast
      BY <1>1, <1>2 DEF SendBegin, Types
    <2> QED BY <2>1, <2>2, <2>3 DEF Sending
  <1>3. CASE Snapshot(t)
    <2>1. /\ hand[t] \in Msg /\ cast[hand[t]] = {} /\ life[From[hand[t]]] = "owned"
          /\ From[hand[t]] \in Ep
      BY <1>1, <1>3, HandSent, MessageAssumption DEF Snapshot, Sending, Progress, Giving
    <2>2. /\ pc'[t] = "give" /\ hand' = hand /\ todo'[t] = reg /\ cast'[hand[t]] = ToSet(reg)
          /\ queue' = queue /\ inbox' = inbox /\ given' = given
      BY <1>1, <1>3, <2>1 DEF Snapshot, Types
    <2>3. reg # <<>> /\ IsInjective(reg) /\ reg \in Seq(Ep)
      <3>1. From[hand[t]] \in ToSet(reg)
        BY <1>1, <2>1 DEF Types
      <3> QED BY <1>1, <3>1 DEF Types, ToSet
    <2>4. ASSUME NEW e \in ToSet(reg)
          PROVE  /\ hand[t] \notin Queued(e) /\ hand[t] \notin ToSet(inbox[e])
                 /\ e \notin given[hand[t]]
      <3>1. e \in Ep /\ Queue(e) /\ Given(hand[t])
        BY <1>1, <2>1 DEF Types, DeliveryInv, ToSet
      <3> QED BY <2>1, <3>1 DEF Queue, For, Given
    <2> QED BY <2>1, <2>2, <2>3, <2>4 DEF Sending, Queued
  <1>4. CASE Refuse(t) \/ Put(t)
    BY <1>4, SendingNext
  <1>5. CASE Admit(t)
    <2> DEFINE e == Head(todo[t])
    <2>1. e \in Ep /\ e \in cast[hand[t]] /\ hand[t] \in Msg
      BY <1>5, AtHead, HandSent DEF Admit, Giving
    <2>2. addr[e] \in past[e]
      BY <2>1 DEF DeliveryInv, Queue
    <2>3. For(e, hand[t])
      BY <1>5, <2>1, <2>2 DEF For, Admit
    <2>4. pc'[t] = "put" /\ UNCHANGED <<hand, todo, cast, past, src, queue, inbox, given>>
      BY <1>1, <1>5 DEF Admit, Types
    <2> HIDE DEF e
    <2>5. pc[t] = "give"
      BY <1>5 DEF Admit
    <2> QED BY <1>1, <2>1, <2>3, <2>4, <2>5 DEF Sending, For, Queued, e
  <1>6. CASE DropSnapshot(t) \/ RecvBegin(t) \/ Get(t) \/ GetNone(t) \/ Take(t) \/ Discard(t)
    <2>1. pc'[t] \in {"idle", "get", "take"}
      BY <1>1, <1>6 DEF DropSnapshot, RecvBegin, Get, GetNone, Take, Discard, RecvEnd, Types
    <2> QED BY <2>1 DEF Sending, Giving
  <1> QED BY <1>2, <1>3, <1>4, <1>5, <1>6 DEF Does

LEMMA SendingStep ==
    ASSUME DeliveryInv, NEW u \in Thread,
           (\E t \in Thread : Does(t)) \/ (\E f \in Ep : Changes(f))
    PROVE  Sending(u)'
  <1> USE DEF net, local, books
  <1>1. Types
    BY DEF DeliveryInv
  <1>2. ASSUME NEW t \in Thread, Does(t), t # u
        PROVE  Sending(u)'
    <2>1. pc'[u] = pc[u] /\ hand'[u] = hand[u] /\ todo'[u] = todo[u]
      BY <1>1, <1>2
      DEF Does, SendBegin, Snapshot, Refuse, Admit, Put,
          DropSnapshot, RecvBegin, Get, GetNone, Take, Discard,
          NextEndpoint, RecvEnd, Types
    <2>2. ASSUME pc[u] = "snap" PROVE cast'[hand[u]] = cast[hand[u]]
      <3>1. CASE Snapshot(t)
        <4>1. hand[t] # hand[u] /\ hand[u] \in Msg
          BY <1>2, <2>2, <3>1, HandsDiffer, HandSent DEF Snapshot, Giving
        <4> QED BY <1>1, <3>1, <4>1 DEF Snapshot, Types
      <3>2. CASE ~Snapshot(t)
        BY <1>2, <3>2
        DEF Does, SendBegin, Refuse, Admit, Put,
            DropSnapshot, RecvBegin, Get, GetNone, Take, Discard
      <3> QED BY <3>1, <3>2
    <2>3. CASE Put(u)
      BY <2>3, SendingNext
    <2>4. CASE ~Put(u)
      BY <1>2, <2>1, <2>2, <2>4, SendingOther
    <2> QED BY <2>3, <2>4
  <1>3. ASSUME NEW f \in Ep, Changes(f)
        PROVE  Sending(u)'
    <2>1. UNCHANGED <<pc, hand, todo, cast>>
      BY <1>3 DEF Changes, SetAddress, Join, Release, LastDrop, DropEndpoint
    <2>2. CASE Put(u)
      BY <2>2, SendingNext
    <2>3. CASE ~Put(u)
      BY <1>3, <2>1, <2>3, SendingOther
    <2> QED BY <2>2, <2>3
  <1> QED BY <1>2, <1>3, SendingDoes

LEMMA AtFirst ==
    ASSUME DeliveryInv, NEW t \in Thread, pc[t] \in {"get", "take"}
    PROVE  /\ at[t] \in Seq(Ep) /\ at[t] # <<>> /\ Head(at[t]) \in Ep
           /\ Head(at[t]) \in ToSet(Receives[t])
  <1>1. at[t] \in Seq(Ep) /\ at[t] # <<>> /\ ToSet(at[t]) \subseteq ToSet(Receives[t])
    BY DEF DeliveryInv, Types, Receiving
  <1>2. 1 \in DOMAIN at[t] /\ Head(at[t]) = at[t][1] /\ Head(at[t]) \in Ep
    BY <1>1
  <1> QED BY <1>1, <1>2 DEF ToSet

LEMMA OneReceiver ==
    ASSUME NEW e \in Ordered, NEW t \in Thread, NEW u \in Thread,
           e \in ToSet(Receives[t]), e \in ToSet(Receives[u])
    PROVE  t = u
  <1> DEFINE S == {v \in Thread : e \in ToSet(Receives[v])}
  <1> SUFFICES ASSUME t # u PROVE FALSE
    OBVIOUS
  <1>1. IsFiniteSet(S) /\ Cardinality(S) <= 1
    BY FiniteAssumption, FS_Subset DEF Ordered
  <1>2. {t, u} \subseteq S
    OBVIOUS
  <1> HIDE DEF S
  <1>3. Cardinality({t, u}) = 2 /\ Cardinality({t, u}) <= Cardinality(S) /\ Cardinality(S) \in Nat
    <2>1. IsFiniteSet({t}) /\ Cardinality({t}) = 1
      BY FS_Singleton
    <2>2. IsFiniteSet({t} \cup {u}) /\ Cardinality({t} \cup {u}) = 1 + 1
      BY <2>1, FS_AddElement
    <2>3. {t, u} = {t} \cup {u}
      OBVIOUS
    <2>4. Cardinality({t, u}) = 2
      BY <2>2, <2>3
    <2> QED BY <1>1, <1>2, <2>4, FS_Subset, FS_CardinalityType
  <1> QED BY <1>1, <1>3

\* What a receiver has in its hands stays the first of what is to be received.
LEMMA TakesFirst ==
    ASSUME DeliveryInv, NEW u \in Thread, pc[u] = "take",
           (\E t \in Thread : Does(t)) \/ (\E f \in Ep : Changes(f)),
           ~Take(u), NEW e \in Ep, e = Head(at[u]), NEW m \in Msg, m = hand[u]
    PROVE  /\ For(e, m)'
           /\ \A n \in Queued(e)' : ~SentBefore(n, m)
           /\ e \in Ordered => \A n \in ToSet(inbox[e])' : ~SentBefore(m, n)
  <1>1. Receiving(u) /\ Types
    BY DEF DeliveryInv
  <1>2. /\ For(e, m) /\ \A n \in Queued(e) : ~SentBefore(n, m)
        /\ e \in Ordered => \A n \in ToSet(inbox[e]) : ~SentBefore(m, n)
    BY <1>1 DEF Receiving
  <1>3. ASSUME NEW n \in Queued(e)' PROVE ~SentBefore(n, m)
    <2>1. ASSUME NEW t \in Thread, Put(t), n = hand[t] PROVE ~SentBefore(n, m)
      <3>1. Sent(m)
        BY <1>2, CastSent DEF For
      <3> QED BY <2>1, <3>1, LatestIsLast DEF Put, Giving
    <2> QED BY <1>2, <1>3, <2>1, Arrivals
  <1>4. ASSUME e \in Ordered, NEW n \in ToSet(inbox[e])' PROVE ~SentBefore(m, n)
    <2>1. ASSUME NEW t \in Thread, Get(t) \/ Take(t), Head(at[t]) = e
          PROVE  FALSE
      <3>1. t # u
        BY <2>1 DEF Get
      <3>2. e \in ToSet(Receives[t]) /\ e \in ToSet(Receives[u])
        BY <2>1, AtFirst DEF Get, Take
      <3> QED BY <1>4, <3>1, <3>2, OneReceiver
    <2> QED BY <1>2, <1>4, <2>1, Arrivals
  <1>5. For(e, m)'
    BY <1>2, Grows
  <1> QED BY <1>3, <1>4, <1>5

LEMMA ReceivingOther ==
    ASSUME DeliveryInv, NEW u \in Thread,
           (\E t \in Thread : Does(t)) \/ (\E f \in Ep : Changes(f)),
           pc'[u] = pc[u], hand'[u] = hand[u], at'[u] = at[u], ~Take(u)
    PROVE  Receiving(u)'
  <1>1. Receiving(u)
    BY DEF DeliveryInv
  <1>2. CASE pc[u] = "take"
    <2>1. PICK e \in Ep : e = Head(at[u])
      BY <1>2, AtFirst
    <2>2. PICK m \in Msg : m = hand[u]
      BY <1>1, <1>2, MessageAssumption DEF Receiving
    <2>3. /\ For(e, m)' /\ \A n \in Queued(e)' : ~SentBefore(n, m)
          /\ e \in Ordered => \A n \in ToSet(inbox[e])' : ~SentBefore(m, n)
      BY <1>2, <2>1, <2>2, TakesFirst
    <2> QED BY <1>1, <1>2, <2>1, <2>2, <2>3 DEF Receiving, For, Queued
  <1>3. CASE pc[u] # "take"
    BY <1>1, <1>3 DEF Receiving
  <1> QED BY <1>2, <1>3

LEMMA ReceivingDoes ==
    ASSUME DeliveryInv, NEW t \in Thread, Does(t)
    PROVE  Receiving(t)'
  <1> USE DEF net, local, books
  <1>1. Receiving(t) /\ Types
    BY DEF DeliveryInv
  <1>2. CASE SendBegin(t) \/ Snapshot(t) \/ Refuse(t) \/ Admit(t) \/ Put(t) \/ DropSnapshot(t)
    <2>1. pc'[t] \in {"idle", "snap", "give", "put", "drop"} /\ at' = at
      BY <1>1, <1>2 DEF SendBegin, Snapshot, Refuse, Admit, Put, DropSnapshot, NextEndpoint, Types
    <2> QED BY <1>1, <2>1 DEF Receiving
  <1>3. CASE RecvBegin(t)
    <2>1. pc'[t] = "get" /\ at'[t] = Receives[t] /\ Receives[t] # <<>>
      BY <1>1, <1>3 DEF RecvBegin, Types
    <2> QED BY <2>1 DEF Receiving
  <1>4. ASSUME RecvEnd(t)
        PROVE  Receiving(t)'
    <2>1. pc'[t] = "idle" /\ at'[t] = <<>>
      BY <1>1, <1>4 DEF RecvEnd, Types
    <2>2. ToSet(<<>>) = {}
      BY DEF ToSet
    <2> QED BY <2>1, <2>2 DEF Receiving
  <1>5. CASE Get(t)
    <2>1. PICK e \in Ep : e = Head(at[t])
      BY <1>5, AtFirst DEF Get
    <2>2. PICK m \in Msg : m = Head(queue[e]) /\ m \in Queued(e)
      BY <1>5, <2>1, QueueHead DEF Get
    <2>3. CASE m \notin SyncMsg
      BY <1>4, <1>5, <2>1, <2>2, <2>3 DEF Get
    <2>4. CASE m \in SyncMsg
      <3>1. /\ pc'[t] = "take" /\ hand'[t] = m /\ at' = at /\ inbox' = inbox
            /\ queue'[e] = Tail(queue[e])
        BY <1>1, <1>5, <2>1, <2>2, <2>4 DEF Get, Types
      <3>2. /\ ToSet(Tail(queue[e])) = Queued(e) \ {m}
            /\ \A n \in Queued(e) : ~SentBefore(n, m) \/ n = m
        BY <1>5, <2>1, <2>2, QueueHead DEF Get
      <3>3. For(e, m) /\ (e \in Ordered => \A n \in ToSet(inbox[e]) : ~SentBefore(m, n))
        BY <2>2 DEF DeliveryInv, Queue
      <3>4. For(e, m)'
        BY <1>5, <3>3, Grows DEF Does
      <3>5. pc[t] = "get"
        BY <1>5 DEF Get
      <3> QED BY <1>1, <2>1, <2>4, <3>1, <3>2, <3>3, <3>4, <3>5 DEF Receiving, Queued, For
    <2> QED BY <2>3, <2>4
  <1>6. CASE GetNone(t)
    <2>1. CASE Len(at[t]) = 1
      BY <1>4, <1>6, <2>1 DEF GetNone
    <2>2. CASE Len(at[t]) # 1
      <3>1. at'[t] = Tail(at[t]) /\ pc' = pc /\ pc[t] = "get"
        BY <1>1, <1>6, <2>2 DEF GetNone, Types
      <3>2. at[t] \in Seq(Ep) /\ at[t] # <<>>
        BY <1>6, AtFirst DEF GetNone
      <3>3. Tail(at[t]) # <<>> /\ ToSet(Tail(at[t])) \subseteq ToSet(at[t])
        BY <2>2, <3>2, TailSet
      <3> QED BY <1>1, <3>1, <3>3 DEF Receiving
    <2> QED BY <2>1, <2>2
  <1>7. CASE Take(t)
    BY <1>4, <1>7 DEF Take
  <1>8. CASE Discard(t)
    <2>1. pc'[t] = "get" /\ at' = at /\ pc[t] = "take"
      BY <1>1, <1>8 DEF Discard, Types
    <2> QED BY <1>1, <2>1 DEF Receiving
  <1> QED BY <1>2, <1>3, <1>5, <1>6, <1>7, <1>8 DEF Does

LEMMA ReceivingStep ==
    ASSUME DeliveryInv, NEW u \in Thread,
           (\E t \in Thread : Does(t)) \/ (\E f \in Ep : Changes(f))
    PROVE  Receiving(u)'
  <1> USE DEF net, local, books
  <1>1. CASE Does(u)
    BY <1>1, ReceivingDoes
  <1>2. CASE ~Does(u)
    <2>1. ASSUME NEW t \in Thread, Does(t)
          PROVE  pc'[u] = pc[u] /\ hand'[u] = hand[u] /\ at'[u] = at[u]
      <3>1. t # u /\ Types
        BY <1>2, <2>1 DEF DeliveryInv
      <3> QED BY <2>1, <3>1
        DEF Does, SendBegin, Snapshot, Refuse, Admit, Put,
            DropSnapshot, RecvBegin, Get, GetNone, Take, Discard,
            NextEndpoint, RecvEnd, Types
    <2>2. ASSUME NEW f \in Ep, Changes(f)
          PROVE  UNCHANGED <<pc, hand, at>>
      BY <2>2 DEF Changes, SetAddress, Join, Release, LastDrop, DropEndpoint
    <2>3. ~Take(u)
      BY <1>2 DEF Does
    <2> QED BY <2>1, <2>2, <2>3, ReceivingOther
  <1> QED BY <1>1, <1>2

----------------------------------------------------------------------------
(* The endpoints *)

\* What a step does to one queue.
LEMMA QueueChange ==
    ASSUME DeliveryInv, NEW e \in Ep,
           (\E t \in Thread : Does(t)) \/ (\E f \in Ep : Changes(f))
    PROVE  \/ queue'[e] = queue[e] /\ \A t \in Thread : Get(t) => Head(at[t]) # e
           \/ \E t \in Thread :
                 Put(t) /\ Head(todo[t]) = e /\ queue'[e] = Append(queue[e], hand[t])
           \/ \E t \in Thread :
                 /\ Get(t) /\ Head(at[t]) = e /\ queue[e] # <<>>
                 /\ queue'[e] = Tail(queue[e])
           \/ queue'[e] = <<>>
  <1> USE DEF net, local, books
  <1>1. Types
    BY DEF DeliveryInv
  <1>2. ASSUME NEW t \in Thread, Get(t), Head(at[t]) = e
        PROVE  queue[e] # <<>> /\ queue'[e] = Tail(queue[e])
    BY <1>1, <1>2 DEF Get, Types
  <1>3. ASSUME NEW t \in Thread, Get(t), Head(at[t]) # e
        PROVE  queue'[e] = queue[e]
    BY <1>1, <1>3 DEF Get, Types
  <1>4. ASSUME NEW t \in Thread, Put(t)
        PROVE  queue'[e] = IF Head(todo[t]) = e THEN Append(queue[e], hand[t]) ELSE queue[e]
    BY <1>1, <1>4 DEF Put, Types
  <1>5. queue' = queue \/ Frees \/ \E t \in Thread : Put(t) \/ Get(t)
    BY DEF Does, Changes, Frees, SendBegin, Snapshot, Refuse, Admit, RecvBegin, GetNone, Take,
           Discard, SetAddress, Join, Release, LastDrop
  <1>6. CASE Frees
    BY <1>6, FreesGone
  <1> QED BY <1>2, <1>3, <1>4, <1>5, <1>6

LEMMA QueueOrder ==
    ASSUME DeliveryInv, NEW e \in Ep,
           (\E t \in Thread : Does(t)) \/ (\E f \in Ep : Changes(f))
    PROVE  /\ IsInjective(queue'[e])
           /\ \A i, j \in DOMAIN queue'[e] : i < j => ~SentBefore(queue'[e][j], queue'[e][i])
  <1> DEFINE q == queue[e]
  <1>1. /\ Queue(e) /\ q \in Seq(Msg) /\ IsInjective(q)
        /\ \A i, j \in DOMAIN q : i < j => ~SentBefore(q[j], q[i])
    BY DEF DeliveryInv, Types, Queue
  <1>2. ASSUME NEW t \in Thread, Put(t), Head(todo[t]) = e, queue'[e] = Append(q, hand[t])
        PROVE  /\ IsInjective(queue'[e])
               /\ \A i, j \in DOMAIN queue'[e] : i < j => ~SentBefore(queue'[e][j], queue'[e][i])
    <2>1. hand[t] \in Msg /\ hand[t] \notin ToSet(q) /\ pc[t] \in Giving
      BY <1>2, AtHead, HandSent DEF Put, Queued, Giving
    <2>2. IsInjective(queue'[e])
      BY <1>1, <1>2, <2>1, AppendOne
    <2>3. \A i \in DOMAIN q : ~SentBefore(hand[t], q[i])
      <3> TAKE i \in DOMAIN q
      <3>1. q[i] \in Msg /\ q[i] \in Queued(e)
        BY <1>1 DEF Queued, ToSet
      <3>2. Sent(q[i])
        BY <1>1, <3>1, CastSent DEF Queue, For
      <3> QED BY <2>1, <3>1, <3>2, LatestIsLast
    <2>4. /\ Len(Append(q, hand[t])) = Len(q) + 1 /\ Append(q, hand[t])[Len(q) + 1] = hand[t]
          /\ \A i \in 1..Len(q) : Append(q, hand[t])[i] = q[i]
          /\ DOMAIN Append(q, hand[t]) = 1..Len(q) + 1 /\ DOMAIN q = 1..Len(q) /\ Len(q) \in Nat
      BY <1>1, <2>1
    <2>5. \A i \in 1..Len(q) + 1 : i \in 1..Len(q) \/ i = Len(q) + 1
      BY <2>4
    <2>6. \A i, j \in 1..Len(q) + 1 : i < j => i \in 1..Len(q)
      BY <2>4
    <2> HIDE DEF q
    <2> QED BY <1>1, <1>2, <2>2, <2>3, <2>4, <2>5, <2>6
  <1>3. ASSUME NEW t \in Thread, Get(t), q # <<>>, queue'[e] = Tail(q)
        PROVE  /\ IsInjective(queue'[e])
               /\ \A i, j \in DOMAIN queue'[e] : i < j => ~SentBefore(queue'[e][j], queue'[e][i])
    <2>1. IsInjective(Tail(q))
      BY <1>1, <1>3, TailOne
    <2>2. /\ Len(q) \in Nat /\ DOMAIN Tail(q) = 1..Len(q) - 1 /\ DOMAIN q = 1..Len(q)
          /\ \A i \in 1..Len(q) - 1 : Tail(q)[i] = q[i + 1]
      BY <1>1, <1>3
    <2>3. \A i \in 1..Len(q) - 1 : i + 1 \in 1..Len(q)
      BY <2>2
    <2>4. \A i, j \in 1..Len(q) - 1 : i < j => i + 1 < j + 1
      BY <2>2
    <2> HIDE DEF q
    <2> QED BY <1>1, <1>3, <2>1, <2>2, <2>3, <2>4
  <1>4. ASSUME queue'[e] = <<>>
        PROVE  /\ IsInjective(queue'[e])
               /\ \A i, j \in DOMAIN queue'[e] : i < j => ~SentBefore(queue'[e][j], queue'[e][i])
    BY <1>4 DEF IsInjective
  <1> QED BY <1>1, <1>2, <1>3, <1>4, QueueChange

LEMMA QueueStep ==
    ASSUME DeliveryInv, NEW e \in Ep,
           (\E t \in Thread : Does(t)) \/ (\E f \in Ep : Changes(f))
    PROVE  Queue(e)'
  <1> USE DEF net, local, books
  <1>1. Queue(e) /\ Types
    BY DEF DeliveryInv
  <1>2. ASSUME NEW m \in Queued(e)' PROVE For(e, m)'
    <2>1. CASE m \in Queued(e)
      <3>1. m \in Msg /\ For(e, m)
        BY <1>1, <2>1 DEF Types, Queue, Queued, ToSet
      <3> QED BY <3>1, Grows
    <2>2. ASSUME NEW t \in Thread, Put(t), Head(todo[t]) = e, m = hand[t]
          PROVE  For(e, m)'
      <3>1. m \in Msg /\ For(e, m)
        BY <2>2, HandSent DEF Put, Giving, DeliveryInv, Sending
      <3> QED BY <3>1, Grows
    <2> QED BY <1>2, <2>1, <2>2, Arrivals
  <1>3. ASSUME NEW m \in Queued(e)', NEW n \in ToSet(inbox[e])'
        PROVE  /\ m \notin SyncMsg => m # n
               /\ e \in Ordered => ~SentBefore(m, n)
    <2>1. ASSUME NEW t \in Thread, Put(t), Head(todo[t]) = e, m = hand[t]
          PROVE  (m \notin SyncMsg => m # n) /\ ~SentBefore(m, n)
      <3>1. n \in ToSet(inbox[e])
        BY <2>1 DEF Put
      <3>2. n \in Msg /\ e \in cast[n]
        BY <1>1, <3>1 DEF Types, Queue, ToSet
      <3>3. Sent(n)
        BY <3>2, CastSent
      <3> QED BY <2>1, <3>1, <3>2, <3>3, AtHead, LatestIsLast DEF Put, Giving
    <2>2. CASE m \in Queued(e)
      <3>1. CASE n \in ToSet(inbox[e])
        BY <1>1, <2>2, <3>1 DEF Queue
      <3>2. ASSUME NEW t \in Thread, Get(t), queue[e] # <<>>, Head(at[t]) = e, n = Head(queue[e])
            PROVE  m # n /\ ~SentBefore(m, n)
        <4>1. queue'[e] = Tail(queue[e])
          BY <1>1, <3>2 DEF Get, Types
        <4> QED BY <1>3, <2>2, <3>2, <4>1, QueueHead DEF Queued
      <3>3. ASSUME NEW t \in Thread, Take(t), Head(at[t]) = e, n = hand[t]
            PROVE  (m \notin SyncMsg => m # n) /\ ~SentBefore(m, n)
        BY <2>2, <3>3 DEF DeliveryInv, Receiving, Take
      <3> QED BY <1>3, <3>1, <3>2, <3>3, Arrivals
    <2> QED BY <1>3, <2>1, <2>2, Arrivals
  <1>4. addr'[e] \in past'[e]
    <2>1. addr[e] \in past[e]
      BY <1>1 DEF Queue
    <2>2. CASE addr' = addr
      BY <2>1, <2>2, Grows
    <2>3. ASSUME NEW f \in Ep, SetAddress(f)
          PROVE  addr'[e] \in past'[e]
      BY <1>1, <2>1, <2>3 DEF SetAddress, Types
    <2>4. addr' = addr \/ \E f \in Ep : SetAddress(f)
      BY DEF Does, Changes, SendBegin, Snapshot, Refuse, Admit, Put,
             DropSnapshot, RecvBegin, Get, GetNone, Take,
             Discard, Join, Release, LastDrop, DropEndpoint
    <2> QED BY <2>2, <2>3, <2>4
  <1>5. ASSUME NEW m \in ToSet(inbox[e])' PROVE e \in cast'[m]
    <2>1. ASSUME queue[e] # <<>>, m = Head(queue[e]) PROVE m \in Msg /\ e \in cast[m]
      BY <1>1, <2>1, QueueHead DEF Queue, For
    <2>2. ASSUME NEW t \in Thread, Take(t), Head(at[t]) = e, m = hand[t]
          PROVE  m \in Msg /\ e \in cast[m]
      BY <2>2, MessageAssumption DEF Take, DeliveryInv, Receiving, For
    <2>3. ASSUME m \in ToSet(inbox[e]) PROVE m \in Msg /\ e \in cast[m]
      BY <1>1, <2>3 DEF Types, Queue, ToSet
    <2>4. m \in Msg /\ e \in cast[m]
      BY <1>5, <2>1, <2>2, <2>3, Arrivals
    <2> QED BY <2>4, Grows
  <1>6. /\ IsInjective(queue'[e])
        /\ \A i, j \in DOMAIN queue'[e] : i < j => ~SentBefore(queue'[e][j], queue'[e][i])
    BY QueueOrder
  <1> QED BY <1>2, <1>3, <1>4, <1>5, <1>6 DEF Queue, Queued

\* A message that a thread admits has room, and one that it has put is in.
LEMMA LimitedStep ==
    ASSUME DeliveryInv, NEW e \in Ep,
           (\E t \in Thread : Does(t)) \/ (\E f \in Ep : Changes(f))
    PROVE  Limited(e)'
  <1> USE DEF net, local, books
  <1> DEFINE P == Puts(e)
             Q == {t \in Thread : pc'[t] = "put" /\ Head(todo'[t]) = e}
  <1>1. Types /\ Limited(e) /\ Limit[e] \in Nat /\ queue[e] \in Seq(Msg)
    BY LimitAssumption DEF DeliveryInv, Types
  <1>2. /\ IsFiniteSet(Senders) /\ P \subseteq Senders
        /\ \A t \in Thread : pc[t] = "give" => t \in Senders \ P
    BY FiniteAssumption, FS_Subset, HandSent DEF Senders, Puts, Giving
  <1>3. IsFiniteSet(P) /\ Cardinality(P) \in Nat /\ Cardinality(Senders) \in Nat
    BY <1>2, FS_Subset, FS_CardinalityType
  <1>4. /\ Len(queue[e]) \in Nat
        /\ Limit[e] > 0 => Len(queue[e]) + Cardinality(P) < Limit[e] + Cardinality(Senders)
    BY <1>1 DEF Limited
  <1>5. SUFFICES Limit[e] > 0 => Len(queue'[e]) + Cardinality(Q) < Limit[e] + Cardinality(Senders)
    BY DEF Limited, Puts
  <1>6. CASE queue' = queue /\ Q = P
    BY <1>4, <1>6
  <1>7. ASSUME NEW t \in Thread, Admit(t)
        PROVE  Limit[e] > 0 => Len(queue'[e]) + Cardinality(Q) < Limit[e] + Cardinality(Senders)
    <2>1. /\ queue' = queue /\ todo' = todo /\ pc'[t] = "put" /\ pc[t] = "give"
          /\ \A u \in Thread : u # t => pc'[u] = pc[u]
      BY <1>1, <1>7 DEF Admit, Types
    <2>2. CASE Head(todo[t]) # e
      <3>1. Q = P
        BY <2>1, <2>2 DEF Puts
      <3> QED BY <1>6, <2>1, <3>1
    <2>3. CASE Head(todo[t]) = e
      <3>1. Q = P \cup {t} /\ t \in Senders \ P
        BY <1>2, <2>1, <2>3 DEF Puts
      <3>2. Limit[e] > 0 => Len(queue[e]) < Limit[e]
        BY <1>1, <1>7, <2>3 DEF Admit, Room
      <3>3. Q \subseteq Senders
        BY <1>2, <3>1
      <3> HIDE DEF Q, P
      <3>4. Cardinality(Q) <= Cardinality(Senders) /\ Cardinality(Q) \in Nat
        BY <1>2, <3>3, FS_Subset, FS_CardinalityType
      <3> QED BY <1>1, <1>3, <1>4, <2>1, <3>2, <3>4
    <2> QED BY <2>2, <2>3
  <1>8. ASSUME NEW t \in Thread, Put(t)
        PROVE  Limit[e] > 0 => Len(queue'[e]) + Cardinality(Q) < Limit[e] + Cardinality(Senders)
    <2>1. /\ pc[t] = "put" /\ pc'[t] # "put"
          /\ \A u \in Thread : u # t => pc'[u] = pc[u] /\ todo'[u] = todo[u]
      BY <1>1, <1>8 DEF Put, NextEndpoint, Types
    <2>2. CASE Head(todo[t]) # e
      <3>1. queue'[e] = queue[e] /\ Q = P
        BY <1>1, <1>8, <2>1, <2>2 DEF Put, Types, Puts
      <3> QED BY <1>4, <3>1
    <2>3. CASE Head(todo[t]) = e
      <3>1. Q = P \ {t} /\ t \in P
        BY <2>1, <2>3 DEF Puts
      <3>2. hand[t] \in Msg /\ queue'[e] = Append(queue[e], hand[t])
        BY <1>1, <1>8, <2>1, <2>3, HandSent DEF Put, Types, Giving
      <3>3. Len(queue'[e]) = Len(queue[e]) + 1
        BY <1>1, <3>2
      <3> HIDE DEF Q, P
      <3>4. Cardinality(Q) = Cardinality(P) - 1
        BY <1>3, <3>1, FS_CardinalityType, FS_AddElement, FS_RemoveElement
      <3> QED BY <1>3, <1>4, <3>3, <3>4
    <2> QED BY <2>2, <2>3
  <1>9. ASSUME NEW t \in Thread, Get(t)
        PROVE  Limit[e] > 0 => Len(queue'[e]) + Cardinality(Q) < Limit[e] + Cardinality(Senders)
    <2>1. /\ pc[t] = "get" /\ pc'[t] \in {"take", "idle"} /\ todo' = todo
          /\ \A u \in Thread : u # t => pc'[u] = pc[u]
      BY <1>1, <1>9 DEF Get, RecvEnd, Types
    <2>2. Q = P
      BY <2>1 DEF Puts
    <2>3. \/ queue'[e] = queue[e]
          \/ queue[e] # <<>> /\ queue'[e] = Tail(queue[e])
      BY <1>1, <1>9 DEF Get, Types
    <2>4. Len(queue'[e]) \in Nat /\ Len(queue'[e]) <= Len(queue[e])
      <3>1. \A s \in Seq(Msg) : /\ Len(s) \in Nat /\ Len(s) <= Len(s)
                                /\ s # <<>> => Len(Tail(s)) \in Nat /\ Len(Tail(s)) <= Len(s)
        OBVIOUS
      <3> QED BY <1>1, <2>3, <3>1
    <2> HIDE DEF Q, P
    <2> QED BY <1>1, <1>3, <1>4, <2>2, <2>4
  <1>10. ASSUME NEW t \in Thread,
                \/ SendBegin(t) \/ Snapshot(t) \/ Refuse(t) \/ RecvBegin(t)
                \/ GetNone(t) \/ Take(t) \/ Discard(t)
         PROVE  queue' = queue /\ Q = P
    <2>1. /\ queue' = queue /\ pc[t] # "put" /\ pc'[t] # "put"
          /\ \A u \in Thread : u # t => pc'[u] = pc[u] /\ todo'[u] = todo[u]
      BY <1>1, <1>10
      DEF SendBegin, Snapshot, Refuse,
          DropSnapshot, RecvBegin, GetNone, Take, Discard, NextEndpoint, RecvEnd, Types
    <2> QED BY <2>1 DEF Puts
  <1>11. ASSUME NEW f \in Ep, Changes(f), ~Frees
         PROVE  queue' = queue /\ Q = P
    BY <1>11 DEF Changes, Frees, SetAddress, Join, Release, LastDrop, Puts
  <1>12. ASSUME Frees
         PROVE  Limit[e] > 0 => Len(queue'[e]) + Cardinality(Q) < Limit[e] + Cardinality(Senders)
    <2>1. ASSUME NEW t \in Thread, DropSnapshot(t) PROVE Q = P
      <3>1. /\ pc[t] = "drop" /\ pc'[t] = "idle" /\ todo' = todo
            /\ \A u \in Thread : u # t => pc'[u] = pc[u]
        BY <1>1, <2>1 DEF DropSnapshot, Types
      <3> QED BY <3>1 DEF Puts
    <2>2. ASSUME NEW f \in Ep, DropEndpoint(f) PROVE Q = P
      BY <2>2 DEF DropEndpoint, Puts
    <2>3. Q = P
      BY <1>12, <2>1, <2>2 DEF Frees
    <2> HIDE DEF P, Q
    <2>4. queue'[e] = queue[e] \/ queue'[e] = <<>>
      BY <1>12, FreesGone
    <2>5. Len(<<>>) = 0
      OBVIOUS
    <2>6. Len(queue'[e]) \in Nat /\ Len(queue'[e]) <= Len(queue[e])
      BY <1>4, <2>4, <2>5
    <2> QED BY <1>1, <1>3, <1>4, <2>3, <2>6
  <1> HIDE DEF P, Q
  <1> QED BY <1>6, <1>7, <1>8, <1>9, <1>10, <1>11, <1>12 DEF Does, Frees

----------------------------------------------------------------------------
(* The messages *)

LEMMA UnsnappedStep ==
    ASSUME DeliveryInv, NEW m \in Msg,
           (\E t \in Thread : Does(t)) \/ (\E f \in Ep : Changes(f))
    PROVE  Unsnapped(m)'
  <1> USE DEF net, local, books
  <1>1. Unsnapped(m) /\ Types /\ (Sent(m) => src'[m] = src[m])
    BY Grows DEF DeliveryInv
  <1>2. CASE Sent(m)
    BY <1>1, <1>2 DEF Unsnapped, Sent
  <1>3. CASE ~Sent(m)
    <2>1. \A t \in Thread : pc[t] \in Giving => hand[t] # m
      BY <1>3, HandSent
    <2>2. cast[m] = {}
      BY <1>1, <1>3 DEF Unsnapped
    <2>3. ASSUME NEW t \in Thread, Does(t)
          PROVE  cast'[m] = {}
      BY <1>1, <2>1, <2>2, <2>3
      DEF Does, SendBegin, Snapshot, Refuse, Admit, Put,
          DropSnapshot, RecvBegin, Get, GetNone, Take, Discard,
          Counted, Types, Giving
    <2>4. ASSUME NEW f \in Ep, Changes(f)
          PROVE  cast' = cast
      BY <2>4 DEF Changes, SetAddress, Join, Release, LastDrop, DropEndpoint
    <2> QED BY <2>2, <2>3, <2>4 DEF Unsnapped
  <1> QED BY <1>2, <1>3

\* Who holds a message stays, and where, if no thread comes to hold it or lets it go.
LEMMA HeldSame ==
    ASSUME NEW m,
           \A u \in Thread :
              /\ (pc'[u] = "take" /\ hand'[u] = m) <=> (pc[u] = "take" /\ hand[u] = m)
              /\ pc[u] = "take" /\ hand[u] = m => at'[u] = at[u]
    PROVE  Holders(m)' = Holders(m) /\ Held(m)' = Held(m)
  <1>1. Holders(m)' = Holders(m)
    BY DEF Holders
  <1>2. \A u \in Holders(m) : at'[u] = at[u]
    BY DEF Holders
  <1> QED BY <1>1, <1>2 DEF Held

\* What a put does to the books of messages.
LEMMA PutBooks ==
    ASSUME DeliveryInv, NEW t \in Thread, Put(t), NEW m \in Msg
    PROVE  /\ Receivers(m)' = Receivers(m) /\ Held(m)' = Held(m)
           /\ UNCHANGED <<valid, life, cast>>
           /\ m # hand[t] => /\ count'[m] = count[m] /\ given'[m] = given[m]
                             /\ Copies(m)' = Copies(m)
           /\ m = hand[t] => /\ count'[m] = count[m] + 1
                             /\ given'[m] = given[m] \cup {Head(todo[t])}
                             /\ Head(todo[t]) \in cast[m] \ given[m]
                             /\ Copies(m)' = Copies(m) \cup {Head(todo[t])}
  <1>1. /\ Types /\ Head(todo[t]) \in Ep /\ hand[t] \in Msg
        /\ Head(todo[t]) \in cast[hand[t]] \ given[hand[t]]
    BY AtHead, HandSent DEF DeliveryInv, Put, Giving, Sending
  <1>2. /\ \A e \in Ep : ToSet(queue'[e]) = IF e = Head(todo[t]) THEN ToSet(queue[e]) \cup {hand[t]}
                                            ELSE ToSet(queue[e])
        /\ UNCHANGED <<inbox, valid, life, cast>> /\ count' = [count EXCEPT ![hand[t]] = @ + 1]
        /\ given' = [given EXCEPT ![hand[t]] = @ \cup {Head(todo[t])}]
    <2>1. \A e \in Ep : queue[e] \in Seq(Msg)
      BY <1>1 DEF Types
    <2>2. \A e \in Ep : queue'[e] = IF e = Head(todo[t]) THEN Append(queue[e], hand[t]) ELSE queue[e]
      BY <1>1 DEF Put, Types
    <2>3. \A e \in Ep : ToSet(Append(queue[e], hand[t])) = ToSet(queue[e]) \cup {hand[t]}
      BY <1>1, <2>1, AppendSet
    <2>4. /\ UNCHANGED <<inbox, valid, life, cast>> /\ count' = [count EXCEPT ![hand[t]] = @ + 1]
          /\ given' = [given EXCEPT ![hand[t]] = @ \cup {Head(todo[t])}]
      BY DEF Put, Counted, net
    <2> QED BY <2>2, <2>3, <2>4
  <1>3. /\ at' = at
        /\ \A u \in Thread : (pc'[u] = "take" /\ hand'[u] = m) <=> (pc[u] = "take" /\ hand[u] = m)
    BY <1>1 DEF Put, NextEndpoint, Types
  <1>4. Receivers(m)' = Receivers(m) /\ Held(m)' = Held(m)
    BY <1>2, <1>3, HeldSame DEF Receivers
  <1>5. m # hand[t] => /\ count'[m] = count[m] /\ given'[m] = given[m]
                       /\ Copies(m)' = Copies(m)
    <2>1. m # hand[t] => Copies(m)' = Copies(m)
      BY <1>1, <1>2 DEF Copies
    <2> QED BY <1>1, <1>2, <2>1 DEF Types
  <1>6. m = hand[t] => /\ count'[m] = count[m] + 1
                       /\ given'[m] = given[m] \cup {Head(todo[t])}
                       /\ Head(todo[t]) \in cast[m] \ given[m]
                       /\ Copies(m)' = Copies(m) \cup {Head(todo[t])}
    BY <1>1, <1>2 DEF Copies, Types, Queued
  <1> QED BY <1>2, <1>4, <1>5, <1>6

\* What a get does to them.
LEMMA GetBooks ==
    ASSUME DeliveryInv, NEW t \in Thread, Get(t), NEW m \in Msg
    PROVE  LET e == Head(at[t])
           IN  /\ UNCHANGED <<count, given, valid, life, cast>> /\ e \in Ep /\ queue[e] # <<>>
               /\ m # Head(queue[e]) =>
                     /\ Copies(m)' = Copies(m) /\ Receivers(m)' = Receivers(m)
                     /\ Held(m)' = Held(m)
               /\ m = Head(queue[e]) => Copies(m)' = Copies(m) \ {e} /\ e \in Copies(m)
               /\ m = Head(queue[e]) /\ m \in SyncMsg =>
                     Held(m) \cup {e} \subseteq Held(m)' /\ Receivers(m)' = Receivers(m)
               /\ m = Head(queue[e]) /\ m \notin SyncMsg =>
                     Receivers(m)' = Receivers(m) \cup {e}
  <1> DEFINE e == Head(at[t])
             h == Head(queue[e])
  <1>1. /\ Types /\ e \in Ep /\ queue[e] # <<>> /\ pc[t] = "get"
        /\ UNCHANGED <<count, given, valid, life, cast>>
    BY AtFirst DEF DeliveryInv, Get, books, net
  <1>2. h \in Msg /\ h \in Queued(e) /\ ToSet(Tail(queue[e])) = Queued(e) \ {h}
    BY <1>1, QueueHead
  <1>3. \A f \in Ep : ToSet(queue'[f]) = IF f = e THEN ToSet(queue[f]) \ {h} ELSE ToSet(queue[f])
    <2>1. \A f \in Ep : queue'[f] = IF f = e THEN Tail(queue[f]) ELSE queue[f]
      BY <1>1 DEF Get, Types
    <2> HIDE DEF h, e
    <2> QED BY <1>2, <2>1 DEF Queued
  <1>4. CASE h \in SyncMsg
    <2>1. /\ inbox' = inbox /\ at' = at
          /\ pc' = [pc EXCEPT ![t] = "take"] /\ hand' = [hand EXCEPT ![t] = h]
      BY <1>4 DEF Get
    <2>2. Head(at'[t]) = e
      BY <2>1
    <2> HIDE DEF h, e
    <2>3. Receivers(m)' = Receivers(m)
      BY <2>1 DEF Receivers
    <2>4. /\ pc'[t] = "take" /\ hand'[t] = h
          /\ \A u \in Thread : u # t => pc'[u] = pc[u] /\ hand'[u] = hand[u]
      BY <1>1, <2>1 DEF Types
    <2>5. m = h => Held(m) \cup {e} \subseteq Held(m)'
      <3>1. m = h => t \in Holders(m)' /\ Holders(m) \subseteq Holders(m)'
        BY <1>1, <2>4 DEF Holders
      <3> QED BY <2>1, <2>2, <3>1 DEF Held
    <2>6. m # h => Held(m)' = Held(m)
      BY <1>1, <2>1, <2>4, HeldSame
    <2>7. m # h => Copies(m)' = Copies(m)
      BY <1>3 DEF Copies
    <2>8. m = h => Copies(m)' = Copies(m) \ {e} /\ e \in Copies(m)
      BY <1>1, <1>2, <1>3 DEF Copies, Queued
    <2> QED BY <1>1, <1>4, <2>3, <2>5, <2>6, <2>7, <2>8 DEF h, e
  <1>5. CASE h \notin SyncMsg
    <2>1. inbox' = [inbox EXCEPT ![e] = Append(@, h)] /\ RecvEnd(t)
      BY <1>5 DEF Get
    <2> HIDE DEF h, e
    <2>2. \A f \in Ep : inbox'[f] = IF f = e THEN Append(inbox[f], h) ELSE inbox[f]
      BY <1>1, <2>1 DEF Types
    <2>3. ToSet(Append(inbox[e], h)) = ToSet(inbox[e]) \cup {h}
      BY <1>1, <1>2, AppendSet DEF Types
    <2>4. /\ pc'[t] # "take"
          /\ \A u \in Thread : u # t => pc'[u] = pc[u] /\ hand'[u] = hand[u] /\ at'[u] = at[u]
      BY <1>1, <2>1 DEF RecvEnd, Types
    <2>5. Held(m)' = Held(m)
      BY <1>1, <2>4, HeldSame
    <2>6. m # h => Copies(m)' = Copies(m) /\ Receivers(m)' = Receivers(m)
      BY <1>3, <2>2, <2>3 DEF Copies, Receivers
    <2>7. m = h => Copies(m)' = Copies(m) \ {e} /\ e \in Copies(m)
      BY <1>1, <1>2, <1>3 DEF Copies, Queued
    <2>8. m = h => Receivers(m)' = Receivers(m) \cup {e}
      BY <1>1, <2>2, <2>3 DEF Receivers
    <2> QED BY <1>1, <1>5, <2>5, <2>6, <2>7, <2>8 DEF h, e
  <1> QED BY <1>4, <1>5

\* What a take does to them.
LEMMA TakeBooks ==
    ASSUME DeliveryInv, NEW t \in Thread, Take(t), NEW m \in Msg
    PROVE  /\ UNCHANGED <<count, given, life, cast>>
           /\ Copies(m)' = Copies(m) /\ hand[t] \in SyncMsg
           /\ m # hand[t] => /\ Receivers(m)' = Receivers(m) /\ Held(m)' = Held(m)
                             /\ m \in SyncMsg => valid'[m] = valid[m]
           /\ m = hand[t] => Receivers(m)' # {} /\ ~valid'[m]
  <1> DEFINE e == Head(at[t])
             h == hand[t]
  <1>1. /\ Types /\ e \in Ep /\ pc[t] = "take" /\ queue' = queue
        /\ UNCHANGED <<count, given, life, cast>>
    BY AtFirst DEF DeliveryInv, Take, books, net
  <1>2. h \in SyncMsg /\ h \in Msg
    BY <1>1, MessageAssumption DEF DeliveryInv, Receiving
  <1>3. /\ valid' = [valid EXCEPT ![h] = FALSE] /\ RecvEnd(t)
        /\ inbox' = [inbox EXCEPT ![e] = Append(@, h)]
    BY DEF Take, FlagTaken
  <1> HIDE DEF e, h
  <1>4. \A f \in Ep : inbox'[f] = IF f = e THEN Append(inbox[f], h) ELSE inbox[f]
    BY <1>1, <1>3 DEF Types
  <1>5. ToSet(Append(inbox[e], h)) = ToSet(inbox[e]) \cup {h}
    BY <1>1, <1>2, AppendSet DEF Types
  <1>6. /\ pc'[t] # "take"
        /\ \A u \in Thread : u # t => pc'[u] = pc[u] /\ hand'[u] = hand[u] /\ at'[u] = at[u]
    BY <1>1, <1>3 DEF RecvEnd, Types
  <1>7. m # h => Receivers(m)' = Receivers(m)
    BY <1>4, <1>5 DEF Receivers
  <1>8. m = h => Receivers(m)' # {}
    BY <1>1, <1>4, <1>5 DEF Receivers
  <1>9. m # h => Held(m)' = Held(m)
    BY <1>6, HeldSame DEF h
  <1>10. (m \in SyncMsg /\ m # h => valid'[m] = valid[m]) /\ ~valid'[h]
    BY <1>1, <1>2, <1>3 DEF Types
  <1>11. Copies(m)' = Copies(m)
    BY <1>1 DEF Copies
  <1> QED BY <1>1, <1>2, <1>7, <1>8, <1>9, <1>10, <1>11 DEF h

\* What the other steps do to them: the queue of an endpoint that goes is lost.
LEMMA OtherBooks ==
    ASSUME DeliveryInv, NEW m \in Msg,
           (\E t \in Thread : Does(t)) \/ (\E f \in Ep : Changes(f)),
           \A t \in Thread : ~Put(t) /\ ~Get(t) /\ ~Take(t)
    PROVE  /\ UNCHANGED <<count, given, valid>> /\ Receivers(m)' = Receivers(m)
           /\ Copies(m)' \subseteq Copies(m)
           /\ \A e \in Ep : life'[e] # "gone" =>
                 life[e] # "gone" /\ (e \in Copies(m) => e \in Copies(m)')
           /\ m \in SyncMsg /\ valid[m] => Held(m)' = Held(m)
  <1> USE DEF net, local, books
  <1>1. Types
    BY DEF DeliveryInv
  <1>2. UNCHANGED <<inbox, count, given, valid>> /\ (queue' = queue \/ Frees)
    BY DEF Does, Changes, Frees, SendBegin, Snapshot, Refuse, Admit, DropSnapshot, RecvBegin,
           GetNone, Discard, FlagShared, Counted, SetAddress, Join, Release, LastDrop, DropEndpoint
  <1>3. ASSUME NEW e \in Ep
        PROVE  queue'[e] = queue[e] \/ (queue'[e] = <<>> /\ life'[e] = "gone")
    BY <1>2, FreesGone
  <1>4. ASSUME NEW e \in Ep, life'[e] # "gone" PROVE life[e] # "gone"
    <2>1. ASSUME NEW f \in Ep, Changes(f) PROVE life[e] # "gone"
      BY <1>1, <1>4, <2>1 DEF Changes, SetAddress, Join, Release, LastDrop, DropEndpoint, Types
    <2>2. ASSUME NEW t \in Thread, Does(t) PROVE life' = life
      BY <2>2 DEF Does, SendBegin, Snapshot, Refuse, Admit, Put, DropSnapshot, RecvBegin, Get,
                  GetNone, Take, Discard
    <2> QED BY <1>4, <2>1, <2>2
  <1>5. Receivers(m)' = Receivers(m)
    BY <1>2 DEF Receivers
  <1>6. ToSet(<<>>) = {}
    BY DEF ToSet
  <1>7. Copies(m)' \subseteq Copies(m)
    BY <1>3, <1>6 DEF Copies
  <1>8. \A e \in Ep : life'[e] # "gone" => (e \in Copies(m) => e \in Copies(m)')
    BY <1>3 DEF Copies
  <1>9. ASSUME m \in SyncMsg, valid[m], NEW u \in Thread
        PROVE  /\ (pc'[u] = "take" /\ hand'[u] = m) <=> (pc[u] = "take" /\ hand[u] = m)
               /\ pc[u] = "take" /\ hand[u] = m => at'[u] = at[u]
    <2>1. ASSUME NEW t \in Thread, Does(t), t # u
          PROVE  pc'[u] = pc[u] /\ hand'[u] = hand[u] /\ at'[u] = at[u]
      BY <1>1, <2>1
      DEF Does, SendBegin, Snapshot, Refuse, Admit, DropSnapshot, RecvBegin, GetNone, Discard,
          NextEndpoint, RecvEnd, Types
    <2>2. ASSUME Does(u)
          PROVE  ~(pc'[u] = "take") /\ ~(pc[u] = "take" /\ hand[u] = m)
      <3>1. ~(pc'[u] = "take")
        BY <1>1, <2>2
        DEF Does, SendBegin, Snapshot, Refuse, Admit, DropSnapshot, RecvBegin, GetNone, Discard,
            NextEndpoint, RecvEnd, Types
      <3>2. ~(pc[u] = "take" /\ hand[u] = m)
        BY <1>9, <2>2
        DEF Does, SendBegin, Snapshot, Refuse, Admit, DropSnapshot, RecvBegin, GetNone, Discard
      <3> QED BY <3>1, <3>2
    <2>3. ASSUME NEW f \in Ep, Changes(f)
          PROVE  pc' = pc /\ hand' = hand /\ at' = at
      BY <2>3 DEF Changes, SetAddress, Join, Release, LastDrop, DropEndpoint
    <2> QED BY <2>1, <2>2, <2>3
  <1>10. m \in SyncMsg /\ valid[m] => Held(m)' = Held(m)
    BY <1>9, HeldSame
  <1> QED BY <1>2, <1>4, <1>5, <1>7, <1>8, <1>10

LEMMA GivenStep ==
    ASSUME DeliveryInv, NEW m \in Msg,
           (\E t \in Thread : Does(t)) \/ (\E f \in Ep : Changes(f))
    PROVE  Given(m)'
  <1>1. Given(m) /\ Types /\ cast[m] \subseteq cast'[m]
    BY Grows DEF DeliveryInv
  <1>2. ASSUME NEW t \in Thread, Put(t) PROVE Given(m)'
    <2>1. CASE m # hand[t]
      BY <1>1, <1>2, <2>1, PutBooks DEF Given
    <2>2. CASE m = hand[t]
      <3>1. /\ count'[m] = count[m] + 1 /\ given'[m] = given[m] \cup {Head(todo[t])}
            /\ Head(todo[t]) \in cast[m] /\ Head(todo[t]) \notin given[m] /\ cast' = cast
            /\ Copies(m)' = Copies(m) \cup {Head(todo[t])} /\ Receivers(m)' = Receivers(m)
        BY <1>2, <2>2, PutBooks
      <3>2. IsFiniteSet(given[m])
        BY <1>1, FiniteAssumption, FS_Subset DEF Types
      <3>3. Cardinality(given'[m]) = Cardinality(given[m]) + 1
        BY <3>1, <3>2, FS_AddElement
      <3> QED BY <1>1, <3>1, <3>3 DEF Given
    <2> QED BY <2>1, <2>2
  <1>3. ASSUME NEW t \in Thread, Get(t) PROVE Given(m)'
    <2> DEFINE e == Head(at[t])
    <2>1. /\ UNCHANGED <<count, given, cast>>
          /\ \/ Copies(m)' = Copies(m) /\ Receivers(m)' = Receivers(m)
             \/ /\ Copies(m)' = Copies(m) \ {e} /\ e \in Copies(m)
                /\ m \notin SyncMsg => Receivers(m)' = Receivers(m) \cup {e}
      BY <1>3, GetBooks
    <2> HIDE DEF e
    <2> QED BY <1>1, <2>1 DEF Given
  <1>4. ASSUME NEW t \in Thread, Take(t) PROVE Given(m)'
    BY <1>1, <1>4, TakeBooks DEF Given
  <1>5. CASE \A t \in Thread : ~Put(t) /\ ~Get(t) /\ ~Take(t)
    BY <1>1, <1>5, OtherBooks DEF Given
  <1> QED BY <1>2, <1>3, <1>4, <1>5

LEMMA KeptStep ==
    ASSUME DeliveryInv, NEW m \in Msg \ SyncMsg,
           (\E t \in Thread : Does(t)) \/ (\E f \in Ep : Changes(f))
    PROVE  Kept(m)'
  <1>1. Kept(m) /\ given[m] \subseteq Ep
    BY DEF DeliveryInv, Types
  <1>2. ASSUME NEW t \in Thread, Put(t) PROVE Kept(m)'
    <2>1. /\ life' = life /\ Receivers(m)' = Receivers(m)
          /\ \/ given'[m] = given[m] /\ Copies(m)' = Copies(m)
             \/ /\ given'[m] = given[m] \cup {Head(todo[t])}
                /\ Copies(m)' = Copies(m) \cup {Head(todo[t])}
      BY <1>2, PutBooks
    <2> QED BY <1>1, <2>1 DEF Kept
  <1>3. ASSUME NEW t \in Thread, Get(t) PROVE Kept(m)'
    <2> DEFINE e == Head(at[t])
    <2>1. /\ life' = life /\ given' = given
          /\ \/ Copies(m)' = Copies(m) /\ Receivers(m)' = Receivers(m)
             \/ Copies(m)' = Copies(m) \ {e} /\ Receivers(m)' = Receivers(m) \cup {e}
      BY <1>3, GetBooks
    <2> HIDE DEF e
    <2> QED BY <1>1, <2>1 DEF Kept
  <1>4. ASSUME NEW t \in Thread, Take(t) PROVE Kept(m)'
    BY <1>1, <1>4, TakeBooks DEF Kept
  <1>5. CASE \A t \in Thread : ~Put(t) /\ ~Get(t) /\ ~Take(t)
    BY <1>1, <1>5, OtherBooks DEF Kept
  <1> QED BY <1>2, <1>3, <1>4, <1>5

LEMMA SyncStep ==
    ASSUME DeliveryInv, NEW m \in SyncMsg,
           (\E t \in Thread : Does(t)) \/ (\E f \in Ep : Changes(f))
    PROVE  Sync(m)'
  <1>1. m \in Msg /\ Sync(m) /\ given[m] \subseteq Ep
    BY MessageAssumption DEF DeliveryInv, Types
  <1>2. ASSUME NEW t \in Thread, Put(t) PROVE Sync(m)'
    <2>1. /\ UNCHANGED <<life, valid>> /\ Receivers(m)' = Receivers(m) /\ Held(m)' = Held(m)
          /\ \/ given'[m] = given[m] /\ Copies(m)' = Copies(m)
             \/ /\ given'[m] = given[m] \cup {Head(todo[t])}
                /\ Copies(m)' = Copies(m) \cup {Head(todo[t])}
      BY <1>1, <1>2, PutBooks
    <2> QED BY <1>1, <2>1 DEF Sync
  <1>3. ASSUME NEW t \in Thread, Get(t) PROVE Sync(m)'
    <2> DEFINE e == Head(at[t])
    <2>1. /\ UNCHANGED <<given, life, valid>> /\ Receivers(m)' = Receivers(m)
          /\ \/ Copies(m)' = Copies(m) /\ Held(m)' = Held(m)
             \/ Copies(m)' = Copies(m) \ {e} /\ Held(m) \cup {e} \subseteq Held(m)'
      BY <1>1, <1>3, GetBooks
    <2> HIDE DEF e
    <2> QED BY <1>1, <2>1 DEF Sync
  <1>4. ASSUME NEW t \in Thread, Take(t) PROVE Sync(m)'
    <2>1. CASE m # hand[t]
      BY <1>1, <1>4, <2>1, TakeBooks DEF Sync
    <2>2. CASE m = hand[t]
      BY <1>1, <1>4, <2>2, TakeBooks DEF Sync
    <2> QED BY <2>1, <2>2
  <1>5. CASE \A t \in Thread : ~Put(t) /\ ~Get(t) /\ ~Take(t)
    BY <1>1, <1>5, OtherBooks DEF Sync
  <1> QED BY <1>2, <1>3, <1>4, <1>5

----------------------------------------------------------------------------
(* The invariant holds *)

LEMMA InvInit == Init => DeliveryInv
  <1> SUFFICES ASSUME Init PROVE DeliveryInv
    OBVIOUS
  <1> USE DEF Init
  <1>1. Types
    BY TypesInit
  <1>2. ToSet(<<>>) = {} /\ Len(<<>>) = 0 /\ DOMAIN <<>> = {}
    BY DEF ToSet
  <1>3. ASSUME NEW t \in Thread PROVE Progress(t) /\ Sending(t) /\ Receiving(t)
    <2>1. Script[t] \in Seq(Msg) /\ pc[t] = "idle" /\ next[t] = 1 /\ at[t] = <<>>
      BY ScriptAssumption
    <2>2. \A i \in DOMAIN Script[t] : src[Script[t][i]] = Unsent /\ ~(i < 1)
      BY <2>1
    <2>3. 1 \in 1..Len(Script[t]) + 1
      BY <2>1
    <2> QED BY <1>2, <2>1, <2>2, <2>3 DEF Progress, Sending, Receiving, Giving, Sent
  <1>4. ASSUME NEW e \in Ep PROVE Queue(e) /\ Limited(e)
    <2>1. queue[e] = <<>> /\ inbox[e] = <<>> /\ addr[e] \in past[e]
      BY DEF Init
    <2>2. Queue(e)
      BY <1>2, <2>1 DEF Queue, Queued, IsInjective
    <2>3. Puts(e) = {} /\ Cardinality({}) = 0
      BY FS_EmptySet DEF Puts
    <2>4. Limit[e] \in Nat /\ Cardinality(Senders) \in Nat
      BY LimitAssumption, FiniteAssumption, FS_Subset, FS_CardinalityType DEF Senders
    <2>5. Limited(e)
      BY <1>2, <2>1, <2>3, <2>4 DEF Limited
    <2> QED BY <2>2, <2>5
  <1>5. \A m \in Msg : /\ Receivers(m) = {} /\ Copies(m) = {} /\ count[m] = 0
                        /\ cast[m] = {} /\ given[m] = {}
    BY <1>2 DEF Receivers, Copies
  <1>6. \A m \in SyncMsg : Sync(m)
    BY <1>5, MessageAssumption DEF Sync
  <1>7. \A m \in Msg : Unsnapped(m) /\ Given(m) /\ Kept(m)
    <2>1. Cardinality({}) = 0
      BY FS_EmptySet
    <2> QED BY <1>5, <2>1 DEF Unsnapped, Given, Kept
  <1> QED BY <1>1, <1>3, <1>4, <1>6, <1>7 DEF DeliveryInv

LEMMA NextActs == Next <=> (\E t \in Thread : Does(t)) \/ (\E e \in Ep : Changes(e))
  BY DEF Next, Does, Changes

LEMMA InvStep == DeliveryInv /\ [Next]_vars => DeliveryInv'
  <1> SUFFICES ASSUME DeliveryInv, [Next]_vars PROVE DeliveryInv'
    OBVIOUS
  <1>1. CASE Next
    <2>1. (\E t \in Thread : Does(t)) \/ (\E e \in Ep : Changes(e))
      BY <1>1, NextActs
    <2>2. Types'
      BY <2>1, TypesDoes, TypesChanges
    <2>3. \A t \in Thread : Progress(t)' /\ Sending(t)' /\ Receiving(t)'
      BY <2>1, ProgressStep, SendingStep, ReceivingStep
    <2>4. \A e \in Ep : Queue(e)' /\ Limited(e)'
      BY <2>1, QueueStep, LimitedStep
    <2>5. \A m \in SyncMsg : Sync(m)'
      BY <2>1, SyncStep
    <2>6. \A m \in Msg : Unsnapped(m)' /\ Given(m)'
      BY <2>1, UnsnappedStep, GivenStep
    <2>7. \A m \in Msg \ SyncMsg : Kept(m)'
      BY <2>1, KeptStep
    <2> QED BY <2>2, <2>3, <2>4, <2>5, <2>6, <2>7 DEF DeliveryInv
  <1>2. CASE UNCHANGED vars
    <2>1. /\ UNCHANGED <<addr, past, queue, inbox, src, valid, count, given, reg, life, cast>>
          /\ UNCHANGED <<next, pc, hand, at, todo, snap>>
      BY <1>2 DEF vars, net, local, books
    <2>2. Types'
      BY <2>1 DEF DeliveryInv, Types
    <2>3. \A t \in Thread : Progress(t)' /\ Sending(t)' /\ Receiving(t)'
      <3> TAKE t \in Thread
      <3>1. Progress(t) /\ Sending(t) /\ Receiving(t)
        BY DEF DeliveryInv
      <3>2. Progress(t)'
        BY <2>1, <3>1 DEF Progress, Sent
      <3>3. Sending(t)'
        BY <2>1, <3>1 DEF Sending, Queued, For
      <3>4. Receiving(t)'
        BY <2>1, <3>1 DEF Receiving, Queued, For
      <3> QED BY <3>2, <3>3, <3>4
    <2>4. \A e \in Ep : Queue(e)' /\ Limited(e)'
      BY <2>1 DEF DeliveryInv, Queue, Limited, Queued, For, Puts
    <2>5. \A m \in Msg : Copies(m)' = Copies(m) /\ Receivers(m)' = Receivers(m) /\ Held(m)' = Held(m)
      BY <2>1 DEF Copies, Receivers, Holders, Held
    <2>6. \A m \in SyncMsg : Sync(m)'
      BY <2>1, <2>5, MessageAssumption DEF DeliveryInv, Sync
    <2>7. \A m \in Msg : Unsnapped(m)' /\ Given(m)'
      BY <2>1, <2>5 DEF DeliveryInv, Unsnapped, Sent, Given
    <2>8. \A m \in Msg \ SyncMsg : Kept(m)'
      BY <2>1, <2>5 DEF DeliveryInv, Kept
    <2> QED BY <2>2, <2>3, <2>4, <2>6, <2>7, <2>8 DEF DeliveryInv
  <1> QED BY <1>1, <1>2

LEMMA InvHolds == Spec => []DeliveryInv
  BY InvInit, InvStep, PTL DEF Spec

\* The types, and the bound of a queue that send and recv of several threads
\* keep: no more than the senders between its check and their puts exceed it
\* (endpoint.rs:380-398).
THEOREM TypeCorrect == Spec => []TypeOK
  <1>1. DeliveryInv => TypeOK
    <2> SUFFICES ASSUME DeliveryInv PROVE TypeOK
      OBVIOUS
    <2>1. Types
      BY DEF DeliveryInv
    <2>2. ASSUME NEW e \in Ep, Limit[e] > 0
          PROVE  Len(queue[e]) < Limit[e] + Cardinality(Senders)
      <3>1. Limited(e) /\ queue[e] \in Seq(Msg) /\ Limit[e] \in Nat
        BY LimitAssumption DEF DeliveryInv, Types
      <3>2. Cardinality(Puts(e)) \in Nat /\ Cardinality(Senders) \in Nat
        BY FiniteAssumption, FS_Subset, FS_CardinalityType DEF Puts, Senders
      <3> QED BY <2>2, <3>1, <3>2 DEF Limited
    <2> QED BY <2>1, <2>2 DEF Types, TypeOK
  <1> QED BY <1>1, InvHolds, PTL

\* What send returns: a clone message is counted once for each endpoint whose give
\* returned true, and each of these that has not left the net has a copy or returned
\* it, however the threads and the comings and goings interleave (net.rs:212-228,
\* endpoint.rs:254-284).
THEOREM CountsKept == Spec => []CountKept
  <1>1. DeliveryInv => CountKept
    BY DEF DeliveryInv, CountKept, Given, Kept
  <1> QED BY <1>1, InvHolds, PTL

\* A sync message that nobody has taken can be received from every endpoint that
\* admitted it and still has its owner: the copies that receivers throw away are
\* those of a message that is taken (endpoint.rs:272-279).  It is lost only with
\* the last of these endpoints, whose queue goes with its handles.
THEOREM SyncNotLost == Spec => []SyncReachable
  <1>1. DeliveryInv => SyncReachable
    BY MessageAssumption DEF DeliveryInv, SyncReachable, Sync
  <1> QED BY <1>1, InvHolds, PTL

----------------------------------------------------------------------------
(* The net keeps the promise of Mail *)

LEMMA SameWords ==
    /\ \A n, m, a, b : M!Accepts(n, m, a, b) <=> Accepts(n, m, a, b)
    /\ \A m, n : M!SentBefore(m, n) <=> SentBefore(m, n)
    /\ \A s : M!ToSet(s) = ToSet(s)
  <1>1. \A n, m, a, b : M!Accepts(n, m, a, b) <=> Accepts(n, m, a, b)
    BY DEF M!Accepts, M!NetAccepts, M!Anyone, M!ThisNet, Accepts, NetAccepts, Anyone, ThisNet
  <1>2. \A m, n : M!SentBefore(m, n) <=> SentBefore(m, n)
    BY DEF M!SentBefore, SentBefore
  <1>3. \A s : M!ToSet(s) = ToSet(s)
    BY DEF M!ToSet, ToSet
  <1> QED BY <1>1, <1>2, <1>3

LEMMA MailInit == Init => M!Init
  <1> SUFFICES ASSUME Init PROVE M!Init
    OBVIOUS
  <1>1. ToSet(reg) \subseteq Ep
    BY OrderAssumption DEF Init, ToSet
  <1> QED BY <1>1 DEF Init, M!Init

\* SendBegin is the send of Mail ...
LEMMA SendsMail ==
    ASSUME DeliveryInv, NEW t \in Thread, SendBegin(t)
    PROVE  \E m \in Msg : M!Send(m)
  <1> DEFINE m == Script[t][next[t]]
  <1>1. Types /\ Progress(t) /\ Script[t] \in Seq(Msg)
    BY ScriptAssumption DEF DeliveryInv
  <1>2. /\ m \in Msg /\ From[m] \in Ep /\ next[t] \in DOMAIN Script[t] /\ next[t] \in Nat
        /\ src' = [src EXCEPT ![m] = addr[From[m]]]
        /\ UNCHANGED <<past, inbox, reg, cast>>
    BY <1>1, MessageAssumption DEF SendBegin, Types, net
  <1>3. src[m] = Unsent
    BY <1>1, <1>2 DEF Progress, Sent
  <1>4. ASSUME NEW n \in Msg, SentBefore(n, m) PROVE src[n] # Unsent
    <2>1. PICK u \in Thread : \E i, j \in DOMAIN Script[u] :
              i < j /\ Script[u][i] = n /\ Script[u][j] = m
      BY <1>4 DEF SentBefore
    <2>2. PICK i \in DOMAIN Script[u], j \in DOMAIN Script[u] :
              i < j /\ Script[u][i] = n /\ Script[u][j] = m
      BY <2>1
    <2>3. u = t /\ j = next[t]
      BY <1>2, <2>2, ScriptAssumption
    <2> QED BY <1>1, <2>2, <2>3 DEF Progress, Sent
  <1>5. addr[From[m]] \in past[From[m]]
    BY <1>2 DEF DeliveryInv, Queue
  <1> HIDE DEF m
  <1>6. M!Send(m)
    BY <1>2, <1>3, <1>4, <1>5, SameWords DEF M!Send
  <1> QED BY <1>2, <1>6

\* ... Snapshot its cast ...
LEMMA CastsMail ==
    ASSUME DeliveryInv, NEW t \in Thread, Snapshot(t)
    PROVE  \E m \in Msg : M!Cast(m)
  <1>1. hand[t] \in Msg /\ Sent(hand[t]) /\ cast[hand[t]] = {}
    BY HandSent DEF Snapshot, Giving, DeliveryInv, Sending
  <1>2. \A e \in Ep : hand[t] \notin ToSet(inbox[e])
    BY <1>1 DEF DeliveryInv, Queue
  <1>3. /\ cast' = [cast EXCEPT ![hand[t]] = ToSet(reg)]
        /\ UNCHANGED <<src, past, inbox, reg>>
    BY DEF Snapshot
  <1>4. M!Cast(hand[t])
    BY <1>1, <1>2, <1>3, SameWords DEF M!Cast, Sent
  <1> QED BY <1>1, <1>4

\* ... and the receive of a clone message and the take of a sync message are its
\* receive.
LEMMA GetsMail ==
    ASSUME DeliveryInv, NEW t \in Thread, Get(t)
    PROVE  (\E e \in Ep, m \in Msg : M!Receive(e, m)) \/ UNCHANGED M!vars
  <1> DEFINE e == Head(at[t])
             m == Head(queue[e])
  <1>1. /\ e \in Ep /\ queue[e] # <<>> /\ UNCHANGED <<src, past, reg, cast>>
    BY AtFirst DEF Get, net
  <1>2. m \in Msg /\ m \in Queued(e) /\ Queue(e)
    BY <1>1, QueueHead DEF DeliveryInv
  <1>3. CASE m \in SyncMsg
    BY <1>1, <1>3 DEF Get, M!vars
  <1>4. CASE m \notin SyncMsg
    <2>1. inbox' = [inbox EXCEPT ![e] = Append(@, m)]
      BY <1>4 DEF Get
    <2> HIDE DEF m, e
    <2>2. /\ e \in cast[m] /\ (\E a \in past[e] : Accepts(NetSid, m, src[m], a)) /\ m \notin ToSet(inbox[e])
          /\ e \in Ordered => \A n \in ToSet(inbox[e]) : ~SentBefore(m, n)
      BY <1>2, <1>4 DEF Queue, For
    <2>3. M!Receive(e, m)
      BY <1>1, <1>4, <2>1, <2>2, SameWords DEF M!Receive, Ordered
    <2> QED BY <1>1, <1>2, <2>3
  <1> QED BY <1>3, <1>4

LEMMA TakesMail ==
    ASSUME DeliveryInv, NEW t \in Thread, Take(t)
    PROVE  \E e \in Ep, m \in Msg : M!Receive(e, m)
  <1> DEFINE e == Head(at[t])
             m == hand[t]
  <1>1. /\ e \in Ep /\ UNCHANGED <<src, past, reg, cast>>
        /\ valid[m] /\ inbox' = [inbox EXCEPT ![e] = Append(@, m)]
    BY AtFirst DEF Take, net
  <1>2. /\ m \in SyncMsg /\ For(e, m)
        /\ e \in Ordered => \A n \in ToSet(inbox[e]) : ~SentBefore(m, n)
    BY DEF Take, DeliveryInv, Receiving
  <1>3. m \in Msg /\ \A f \in Ep : m \notin ToSet(inbox[f])
    BY <1>1, <1>2, MessageAssumption DEF DeliveryInv, Sync, Receivers
  <1> HIDE DEF m, e
  <1>4. M!Receive(e, m)
    BY <1>1, <1>2, <1>3, SameWords DEF M!Receive, Ordered, For
  <1> QED BY <1>1, <1>3, <1>4

LEMMA ChangesMail ==
    ASSUME DeliveryInv, NEW e \in Ep, Changes(e)
    PROVE  M!Readdress(e) \/ M!Join(e) \/ M!Leave(e) \/ UNCHANGED M!vars
  <1> USE DEF net, local, books
  <1>1. Types
    BY DEF DeliveryInv
  <1>2. CASE SetAddress(e)
    <2>1. PICK a \in Moves[e] \ {addr[e]} : past' = [past EXCEPT ![e] = @ \cup {a}]
      BY <1>2 DEF SetAddress
    <2>2. a \in Address /\ past'[e] = past[e] \cup {a}
      BY <1>1, <2>1, LimitAssumption DEF Types
    <2>3. a \in M!Address
      BY <2>2 DEF M!Address, Address
    <2>4. UNCHANGED <<src, inbox, reg, cast>>
      BY <1>2 DEF SetAddress
    <2> QED BY <2>1, <2>2, <2>3, <2>4 DEF M!Readdress
  <1>3. CASE Join(e)
    <2>1. /\ reg \in Seq(Ep) /\ e \notin ToSet(reg) /\ reg' = Append(reg, e)
          /\ UNCHANGED <<src, past, inbox, cast>>
      BY <1>1, <1>3 DEF Join, Types
    <2>2. ToSet(reg') = ToSet(reg) \cup {e}
      BY <2>1, AppendSet
    <2> QED BY <2>1, <2>2 DEF M!Join
  <1>4. CASE Release(e) \/ LastDrop(e)
    BY <1>4 DEF Release, LastDrop, M!vars
  <1>5. CASE DropEndpoint(e)
    <2>1. PICK ndx \in DOMAIN reg : reg[ndx] = e /\ reg' = RemoveAt(reg, ndx)
      BY <1>5 DEF DropEndpoint
    <2>2. ToSet(reg') = ToSet(reg) \ {e}
      BY <1>1, <2>1, RemoveOne DEF Types
    <2>3. e \in ToSet(reg) /\ UNCHANGED <<src, past, inbox, cast>>
      BY <1>5, <2>1 DEF DropEndpoint, ToSet
    <2> QED BY <2>2, <2>3 DEF M!Leave
  <1> QED BY <1>2, <1>3, <1>4, <1>5 DEF Changes

LEMMA MailStep == DeliveryInv /\ [Next]_vars => [M!Next]_(M!vars)
  <1> SUFFICES ASSUME DeliveryInv, [Next]_vars PROVE M!Next \/ UNCHANGED M!vars
    OBVIOUS
  <1> USE DEF net, local, books
  <1>1. ASSUME NEW t \in Thread, Does(t) PROVE M!Next \/ UNCHANGED M!vars
    <2>1. CASE SendBegin(t)
      BY <2>1, SendsMail DEF M!Next
    <2>2. CASE Snapshot(t)
      BY <2>2, CastsMail DEF M!Next
    <2>3. CASE Get(t)
      BY <2>3, GetsMail DEF M!Next
    <2>4. CASE Take(t)
      BY <2>4, TakesMail DEF M!Next
    <2>5. CASE \/ Refuse(t) \/ Admit(t) \/ Put(t) \/ DropSnapshot(t)
               \/ RecvBegin(t) \/ GetNone(t) \/ Discard(t)
      BY <2>5 DEF Refuse, Admit, Put, DropSnapshot, RecvBegin, GetNone, Discard, M!vars
    <2> QED BY <1>1, <2>1, <2>2, <2>3, <2>4, <2>5 DEF Does
  <1>2. ASSUME NEW e \in Ep, Changes(e) PROVE M!Next \/ UNCHANGED M!vars
    BY <1>2, ChangesMail DEF M!Next
  <1>3. CASE UNCHANGED vars
    BY <1>3 DEF vars, M!vars
  <1> QED BY <1>1, <1>2, <1>3, NextActs

\* Only messages that were sent are received, at endpoints they are for, once, in
\* the order of their sender where one thread receives, and a sync message at one
\* endpoint of the net ("can only be recieved by a single endpoint on the local
\* net", syncmessage.rs:10-11).
THEOREM NetKeepsPromise == Spec => KeepsPromise
  BY MailInit, MailStep, InvHolds, PTL DEF Spec, KeepsPromise, M!Spec
=============================================================================
