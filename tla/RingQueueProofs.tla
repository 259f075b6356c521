-------------------------- MODULE RingQueueProofs ---------------------------
(***************************************************************************)
(* That the ring is a queue until it is broken, for any number of          *)
(* producers, consumers, messages and slots.                               *)
(*                                                                         *)
(* Fifo is not inductive.  The argument is about positions: those of one   *)
(* slot are claimed by producers in their order and taken by consumers in  *)
(* the same order, a position is claimed only after the one before it in   *)
(* the slot was taken, and so the message that a get finds in its slot is  *)
(* the one that was put at its position.                                   *)
(***************************************************************************)
EXTENDS RingQueue, FiniteSetTheorems, SequenceTheorems, TLAPS

\* The slot of a position.
Place(q) == q % Size

\* The position has been drawn by a put, which has claimed its slot.
Claimed(q) == q \in 0..tx-1 /\ \A p \in Producer : pc[p] = "claim" => pos[p] # q

\* It has been drawn by a get, which has found the slot full.
Taken(q) ==
    q \in 0..rx-1 /\ \A c \in Consumer : pc[c] \in {"claim", "back"} => pos[c] # q

Slots == state \in [Slot -> 0..3] /\ value \in [Slot -> Msg \cup {None}]

\* Messages are put once each, and those that have a position are at the head of
\* what their producers have still to put, or gone from it.
Distinct ==
    /\ tx = Len(order)
    /\ \A p, q \in Producer : \A i \in DOMAIN todo[p], j \in DOMAIN todo[q] :
          todo[p][i] = todo[q][j] => p = q /\ i = j
    /\ \A i, j \in DOMAIN order : order[i] = order[j] => i = j
    /\ \A p \in Producer : \A i \in DOMAIN todo[p], j \in DOMAIN order :
          order[j] = todo[p][i] => i = 1 /\ pc[p] # "idle" /\ j = pos[p] + 1

Producing(p) ==
    /\ pc[p] \in {"idle", "claim", "again", "copy", "store", "count"}
    /\ pc[p] # "idle" =>
          todo[p] # <<>> /\ pos[p] \in 0..tx-1 /\ order[pos[p] + 1] = Head(todo[p])
    /\ pc[p] \in {"again", "copy", "store"} =>
          state[At(p)] = 1 /\ Claimed(pos[p]) /\ ~Taken(pos[p])
    /\ pc[p] = "store" => value[At(p)] = Head(todo[p])

\* What a consumer holds comes after all it got.
Consuming(c) ==
    /\ pc[c] \in {"idle", "claim", "back", "draw", "copy", "free", "count"}
    /\ pc[c] \in {"claim", "back", "copy"} =>
          /\ pos[c] \in 0..rx-1
          /\ \A i \in DOMAIN got[c], q \in DOMAIN order : order[q] = got[c][i] => q <= pos[c]
    /\ pc[c] = "copy" => Taken(pos[c]) /\ value[At(c)] = order[pos[c] + 1]
    /\ pc[c] \in {"copy", "free"} => state[At(c)] = 3

\* Two consumers hold neither one position nor one slot.
Apart ==
    \A c, d \in Consumer : c # d =>
        /\ {pc[c], pc[d]} \subseteq {"claim", "back", "copy"} => pos[c] # pos[d]
        /\ {pc[c], pc[d]} \subseteq {"copy", "free"} => At(c) # At(d)

\* The slot is in use for one position, or for none.
Using(s) ==
    /\ state[s] \in {0, 3} => \A q \in Nat : Place(q) = s /\ Claimed(q) => Taken(q)
    /\ state[s] \in {1, 2} =>
          \E q \in Nat : /\ Place(q) = s /\ Claimed(q) /\ ~Taken(q)
                         /\ state[s] = 2 => value[s] = order[q + 1]

\* Positions of one slot are claimed and taken in turn.
InTurn ==
    /\ \A q \in Nat : Taken(q) => Claimed(q)
    /\ \A q, r \in Nat : q < r /\ Place(q) = Place(r) /\ Claimed(r) => Taken(q)

\* What was returned was taken, and what was taken was returned or will be.
Returns ==
    /\ \A c \in Consumer : \A i \in DOMAIN got[c] :
          \E q \in Nat : /\ Taken(q) /\ order[q + 1] = got[c][i]
                         /\ \A d \in Consumer : pc[d] = "copy" => pos[d] # q
    /\ \A q \in Nat : Taken(q) =>
          \/ order[q + 1] \in Returned
          \/ \E d \in Consumer : pc[d] = "copy" /\ pos[d] = q
    /\ \A c, d \in Consumer : \A i \in DOMAIN got[c], j \in DOMAIN got[d] :
          got[c][i] = got[d][j] => c = d /\ i = j
    /\ \A c \in Consumer : \A i, j \in DOMAIN got[c] : \A q, r \in DOMAIN order :
          order[q] = got[c][i] /\ order[r] = got[c][j] /\ i < j => q < r

Queue ==
    /\ Distinct
    /\ \A p \in Producer : Producing(p)
    /\ \A c \in Consumer : Consuming(c)
    /\ Apart
    /\ \A s \in Slot : Using(s)
    /\ InTurn
    /\ Returns

RingInv == TypeOK /\ (~broken => Queue)

----------------------------------------------------------------------------
(* Slots, and what a step leaves as it is *)

LEMMA PlaceSlot == \A q \in Nat : Place(q) \in Slot
<1>1. \A q \in Nat, n \in Nat \ {0} : q % n \in 0..n-1
    OBVIOUS
<1> QED BY <1>1, SizeAssumption DEF Place, Slot

LEMMA AtPlace ==
    ASSUME NEW t \in Thread
    PROVE  At(t) = Place(pos[t]) /\ At(t)' = Place(pos'[t])
BY DEF At, Place

LEMMA AtSlot ==
    ASSUME TypeOK, NEW t \in Thread
    PROVE  At(t) \in Slot
BY AtPlace, PlaceSlot DEF TypeOK

\* No position is claimed or taken, and none that was is given back.
SameMarks ==
    \A q \in Nat : (Claimed(q)' <=> Claimed(q)) /\ (Taken(q)' <=> Taken(q))

LEMMA MarksKept ==
    ASSUME tx' = tx, rx' = rx,
           \A p \in Producer : pc[p] = "claim" \/ pc'[p] = "claim" =>
               pc[p] = pc'[p] /\ pos'[p] = pos[p],
           \A c \in Consumer : pc[c] \in {"claim", "back"} \/ pc'[c] \in {"claim", "back"} =>
               {pc[c], pc'[c]} \subseteq {"claim", "back"} /\ pos'[c] = pos[c]
    PROVE  SameMarks
BY DEF SameMarks, Claimed, Taken

LEMMA InTurnKept == InTurn /\ SameMarks => InTurn'
BY DEF InTurn, SameMarks

\* Positions that were drawn keep their messages.
SameOrder == tx' >= tx /\ \A q \in 0..tx-1 : order'[q + 1] = order[q + 1]

LEMMA UsingKept ==
    ASSUME NEW s \in Slot, Using(s), SameMarks, SameOrder,
           state'[s] = state[s], state[s] = 2 => value'[s] = value[s]
    PROVE  Using(s)'
<1>1. CASE state[s] \in {0, 3}
    BY <1>1 DEF Using, SameMarks
<1>2. CASE state[s] \in {1, 2}
    <2>1. PICK q \in Nat : /\ Place(q) = s /\ Claimed(q) /\ ~Taken(q)
                           /\ state[s] = 2 => value[s] = order[q + 1]
        BY <1>2 DEF Using
    <2>2. q \in 0..tx-1
        BY <2>1 DEF Claimed
    <2>3. /\ Place(q) = s /\ Claimed(q)' /\ ~Taken(q)'
          /\ state'[s] = 2 => value'[s] = order'[q + 1]
        BY <2>1, <2>2 DEF SameMarks, SameOrder
    <2> QED BY <1>2, <2>3 DEF Using
<1>3. CASE state[s] \notin 0..3
    BY <1>3 DEF Using
<1> QED BY <1>1, <1>2, <1>3

LEMMA ProducingKept ==
    ASSUME NEW p \in Producer, Producing(p), SameMarks, SameOrder, pos[p] \in Nat,
           pc'[p] = pc[p], pos'[p] = pos[p], todo'[p] = todo[p],
           pc[p] \in {"again", "copy", "store"} =>
               state'[At(p)] = state[At(p)] /\ value'[At(p)] = value[At(p)],
           tx \in Nat, tx' \in Nat
    PROVE  Producing(p)'
<1>1. At(p)' = At(p)
    BY AtPlace DEF Thread
<1>2. pc[p] # "idle" => pos[p] \in 0..tx-1 /\ order'[pos[p] + 1] = order[pos[p] + 1]
    BY DEF Producing, SameOrder
<1>3. (Claimed(pos[p])' <=> Claimed(pos[p])) /\ (Taken(pos[p])' <=> Taken(pos[p]))
    <2>1. PICK q \in Nat : q = pos[p]
        OBVIOUS
    <2>2. (Claimed(q)' <=> Claimed(q)) /\ (Taken(q)' <=> Taken(q))
        BY DEF SameMarks
    <2>3. /\ Claimed(pos[p]) <=> Claimed(q)
          /\ Taken(pos[p]) <=> Taken(q)
          /\ Claimed(pos[p])' <=> Claimed(q)'
          /\ Taken(pos[p])' <=> Taken(q)'
        BY <2>1 DEF Claimed, Taken
    <2> QED BY <2>2, <2>3
<1> QED BY <1>1, <1>2, <1>3 DEF Producing, SameOrder

LEMMA ConsumingKept ==
    ASSUME NEW c \in Consumer, Consuming(c), SameMarks, pos[c] \in Nat,
           pc'[c] = pc[c], pos'[c] = pos[c], got'[c] = got[c], order' = order,
           pc[c] \in {"claim", "back", "copy"} => pos[c] \in 0..rx'-1,
           pc[c] \in {"copy", "free"} =>
               state'[At(c)] = state[At(c)] /\ value'[At(c)] = value[At(c)]
    PROVE  Consuming(c)'
<1>1. At(c)' = At(c)
    BY AtPlace DEF Thread
<1>3. Taken(pos[c])' <=> Taken(pos[c])
    <2>1. PICK q \in Nat : q = pos[c]
        OBVIOUS
    <2>2. Taken(q)' <=> Taken(q)
        BY DEF SameMarks
    <2>3. /\ Taken(pos[c]) <=> Taken(q)
          /\ Taken(pos[c])' <=> Taken(q)'
        BY <2>1 DEF Taken
    <2> QED BY <2>2, <2>3
<1> QED BY <1>1, <1>3 DEF Consuming

LEMMA ApartKept ==
    ASSUME Apart,
           \A c \in Consumer : pos'[c] = pos[c],
           \A c \in Consumer : pc'[c] \in {"claim", "back", "copy"} =>
               pc[c] \in {"claim", "back", "copy"},
           \A c \in Consumer : pc'[c] \in {"copy", "free"} => pc[c] \in {"copy", "free"}
    PROVE  Apart'
<1>1. \A c \in Consumer : At(c)' = At(c)
    BY AtPlace DEF Thread
<1> QED BY <1>1 DEF Apart

LEMMA DistinctKept ==
    ASSUME Distinct, tx' = tx, order' = order, todo' = todo,
           \A p \in Producer : pc[p] # "idle" => pc'[p] # "idle" /\ pos'[p] = pos[p]
    PROVE  Distinct'
BY DEF Distinct

LEMMA ReturnsKept ==
    ASSUME Returns, SameMarks, got' = got, order' = order,
           \A d \in Consumer : /\ pc'[d] = "copy" <=> pc[d] = "copy"
                               /\ pc[d] = "copy" => pos'[d] = pos[d]
    PROVE  Returns'
<1>1. Returned' = Returned
    BY DEF Returned
<1> QED BY <1>1 DEF Returns, SameMarks

----------------------------------------------------------------------------
(* Types *)

LEMMA ModRange == \A i \in Int : i % LenMod \in 0..LenMod-1
<1>1. \A i \in Int, n \in Nat \ {0} : i % n \in 0..n-1
    OBVIOUS
<1> QED BY <1>1, SizeAssumption

\* A message that has been drawn a position.
LEMMA Drawn ==
    ASSUME TypeOK, Distinct, NEW q \in 0..tx-1
    PROVE  q + 1 \in DOMAIN order /\ order[q + 1] \in Msg
<1>1. order \in Seq(Msg) /\ tx = Len(order) /\ q + 1 \in 1..Len(order)
    BY DEF TypeOK, Distinct
<1> QED BY <1>1

LEMMA HeadTail ==
    ASSUME NEW s \in Seq(Msg), s # <<>>
    PROVE  /\ Head(s) \in Msg /\ Tail(s) \in Seq(Msg)
           /\ Len(s) \in Nat \ {0} /\ DOMAIN s = 1..Len(s) /\ Head(s) = s[1]
           /\ Len(Tail(s)) = Len(s) - 1 /\ DOMAIN Tail(s) = 1..Len(s)-1
           /\ \A i \in 1..Len(s)-1 : Tail(s)[i] = s[i + 1]
OBVIOUS

LEMMA AppendFacts ==
    ASSUME NEW s \in Seq(Msg), NEW m \in Msg
    PROVE  /\ Append(s, m) \in Seq(Msg) /\ Len(s) \in Nat
           /\ Len(Append(s, m)) = Len(s) + 1
           /\ DOMAIN s = 1..Len(s) /\ DOMAIN Append(s, m) = 1..Len(s)+1
           /\ Append(s, m)[Len(s) + 1] = m
           /\ \A i \in 1..Len(s) : Append(s, m)[i] = s[i]
OBVIOUS

LEMMA SwapType ==
    ASSUME TypeOK, NEW t, At(t) \in Slot, NEW old, NEW new \in 0..3, Swap(t, old, new)
    PROVE  state' \in [Slot -> 0..3]
<1>1. state' = [state EXCEPT ![At(t)] = new] \/ state' = state
    BY DEF Swap, SetState
<1>2. state \in [Slot -> 0..3]
    BY DEF TypeOK
<1> QED BY <1>1, <1>2

LEMMA TypeProducer ==
    ASSUME TypeOK, Queue, NEW p \in Producer, PutBegin(p) \/ Put(p)
    PROVE  TypeOK'
<1> USE AtSlot DEF TypeOK, Step, SetState, Swap, ring, history, Thread
<1>0. Producing(p) /\ Distinct /\ At(p) \in Slot /\ todo[p] \in Seq(Msg)
    BY DEF Queue
<1>1. CASE PutBegin(p)
    <2>1. Head(todo[p]) \in Msg
        BY <1>0, <1>1, HeadTail DEF PutBegin
    <2> QED BY <1>1, <2>1, AppendFacts DEF PutBegin
<1>2. CASE Claim(p) BY <1>0, <1>2 DEF Claim
<1>3. CASE ClaimAgain(p)
    <2>1. state' \in [Slot -> 0..3]
        <3> HIDE DEF TypeOK, Swap
        <3> QED BY <1>0, <1>3, SwapType DEF ClaimAgain
    <2>2. pc' \in [Thread -> {"idle", "claim", "again", "copy", "store", "count",
                               "back", "draw", "free"}]
        BY <1>3 DEF ClaimAgain
    <2> QED BY <1>3, <2>1, <2>2 DEF ClaimAgain
<1>4. CASE CopyIn(p)
    <2>1. Head(todo[p]) \in Msg
        BY <1>0, <1>4, HeadTail DEF CopyIn, Producing
    <2> QED BY <1>0, <1>4, <2>1 DEF CopyIn, CopyUnmarked
<1>5. CASE Store(p) BY <1>0, <1>5 DEF Store, Stored
<1>6. CASE CountIn(p)
    <2>1. Tail(todo[p]) \in Seq(Msg)
        BY <1>0, <1>6, HeadTail DEF CountIn, Producing
    <2>2. len' \in 0..LenMod-1
        BY <1>6, ModRange, SizeAssumption DEF CountIn
    <2> QED BY <1>6, <2>1, <2>2 DEF CountIn
<1> QED BY <1>1, <1>2, <1>3, <1>4, <1>5, <1>6 DEF Put

LEMMA TypeConsumer ==
    ASSUME TypeOK, Queue, NEW c \in Consumer, GetBegin(c) \/ Get(c)
    PROVE  TypeOK'
<1> USE AtSlot DEF TypeOK, Step, SetState, Swap, ring, history, Thread, Draw
<1>0. Consuming(c) /\ Distinct /\ InTurn /\ At(c) \in Slot
    BY DEF Queue
<1>1. CASE GetBegin(c)
    BY <1>1, BlocksAssumption, SizeAssumption DEF GetBegin
<1>2. CASE Take(c)
    <2>1. state' \in [Slot -> 0..3]
        <3> HIDE DEF TypeOK, Swap
        <3> QED BY <1>0, <1>2, SwapType DEF Take
    <2>2. pc' \in [Thread -> {"idle", "claim", "again", "copy", "store", "count",
                               "back", "draw", "free"}]
        BY <1>2 DEF Take
    <2>3. broken' \in BOOLEAN
        BY <1>2 DEF Take
    <2> QED BY <1>2, <2>1, <2>2, <2>3 DEF Take
<1>3. CASE ComeBack(c) BY <1>3 DEF ComeBack
<1>4. CASE Fail(c) BY <1>4 DEF Fail
<1>5. CASE GiveBack(c)
    <2>1. rx - 1 \in Nat
        BY <1>0, <1>5 DEF GiveBack, Consuming
    <2> QED BY <1>5, <2>1 DEF GiveBack, RxBack
<1>6. CASE DrawAgain(c) BY <1>6 DEF DrawAgain
<1>7. CASE CopyOut(c)
    <2>1. value[At(c)] = order[pos[c] + 1] /\ Taken(pos[c]) /\ pos[c] \in Nat
        BY <1>0, <1>7 DEF CopyOut, Consuming
    <2>2. pos[c] \in 0..tx-1
        BY <1>0, <2>1 DEF InTurn, Claimed
    <2>3. value[At(c)] \in Msg
        BY <1>0, <2>1, <2>2, Drawn
    <2> QED BY <1>7, <2>3, AppendFacts DEF CopyOut
<1>8. CASE Free(c) BY <1>0, <1>8 DEF Free
<1>9. CASE CountOut(c)
    <2>1. len' \in 0..LenMod-1
        BY <1>9, ModRange, SizeAssumption DEF CountOut, LenDown
    <2> QED BY <1>9, <2>1 DEF CountOut
<1> QED BY <1>1, <1>2, <1>3, <1>4, <1>5, <1>6, <1>7, <1>8, <1>9 DEF Get

----------------------------------------------------------------------------
(* The steps of put *)

\* Producers have positions of their own ...
LEMMA PositionsApart ==
    ASSUME TypeOK, Queue, NEW p \in Producer, NEW r \in Producer, p # r,
           pc[p] # "idle", pc[r] # "idle"
    PROVE  pos[p] # pos[r]
<1>1. Producing(p) /\ Producing(r) /\ Distinct
    BY DEF Queue
<1>2. todo[p] \in Seq(Msg) /\ todo[r] \in Seq(Msg)
    BY DEF TypeOK
<1>3. /\ order[pos[p] + 1] = todo[p][1] /\ 1 \in DOMAIN todo[p]
      /\ order[pos[r] + 1] = todo[r][1] /\ 1 \in DOMAIN todo[r]
    BY <1>1, <1>2, HeadTail DEF Producing
<1>4. todo[p][1] # todo[r][1]
    BY <1>1, <1>3 DEF Distinct
<1> QED BY <1>3, <1>4

\* ... and those that fill a slot have it for themselves.
LEMMA OwnersApart ==
    ASSUME TypeOK, Queue, NEW p \in Producer, NEW r \in Producer, p # r,
           {pc[p], pc[r]} \subseteq {"again", "copy", "store"}
    PROVE  At(p) # At(r)
<1>1. /\ Claimed(pos[p]) /\ ~Taken(pos[p]) /\ Claimed(pos[r]) /\ ~Taken(pos[r])
      /\ pos[p] \in Nat /\ pos[r] \in Nat
    BY DEF Queue, Producing, TypeOK, Thread
<1>2. pos[p] # pos[r]
    BY PositionsApart
<1>3. Place(pos[p]) # Place(pos[r])
    BY <1>1, <1>2 DEF Queue, InTurn
<1> QED BY <1>3, AtPlace DEF Thread

\* What is still to be put has not been returned.
LEMMA NotReturned ==
    ASSUME TypeOK, Queue, NEW c \in Consumer, NEW i \in DOMAIN got[c]
    PROVE  \E q \in 0..tx-1 : Taken(q) /\ order[q + 1] = got[c][i] /\ q + 1 \in DOMAIN order
<1>1. PICK q \in Nat : Taken(q) /\ order[q + 1] = got[c][i]
    BY DEF Queue, Returns
<1>2. q \in 0..tx-1
    BY <1>1 DEF Queue, InTurn, Claimed
<1> QED BY <1>1, <1>2, Drawn DEF Queue

LEMMA PutBeginKeeps ==
    ASSUME TypeOK, Queue, NEW p \in Producer, PutBegin(p)
    PROVE  Queue'
<1> USE DEF Step, history
<1>1. /\ todo[p] # <<>> /\ pc[p] = "idle" /\ pc' = [pc EXCEPT ![p] = "claim"]
      /\ pos' = [pos EXCEPT ![p] = tx] /\ tx' = tx + 1
      /\ order' = Append(order, Head(todo[p]))
      /\ UNCHANGED <<state, value, rx, todo, got>>
    BY DEF PutBegin
<1>2. /\ pc \in [Thread -> {"idle", "claim", "again", "copy", "store", "count",
                            "back", "draw", "free"}]
      /\ pos \in [Thread -> Nat] /\ todo[p] \in Seq(Msg) /\ order \in Seq(Msg)
      /\ tx \in Nat /\ rx \in Nat /\ p \in Thread /\ Producer \subseteq Thread
      /\ Consumer \subseteq Thread /\ p \notin Consumer
    BY ThreadAssumption DEF TypeOK, Thread
<1>3. Distinct /\ tx = Len(order)
    BY DEF Queue, Distinct
<1> DEFINE m == todo[p][1]
<1>4. /\ m = Head(todo[p]) /\ m \in Msg /\ 1 \in DOMAIN todo[p]
      /\ DOMAIN order = 1..tx /\ DOMAIN order' = 1..tx+1
      /\ order'[tx + 1] = m /\ \A i \in 1..tx : order'[i] = order[i]
      /\ Len(order') = tx + 1
    BY <1>1, <1>2, <1>3, HeadTail, AppendFacts
<1>5. \A i \in 1..tx : order[i] # m
    BY <1>1, <1>3, <1>4 DEF Distinct
<1>6. \A c \in Consumer : \A i \in DOMAIN got[c] : got[c][i] # m
    <2>1. ASSUME NEW c \in Consumer, NEW i \in DOMAIN got[c] PROVE got[c][i] # m
        BY <1>4, <1>5, NotReturned
    <2> QED BY <2>1
<1> HIDE DEF m
<1>7. SameOrder
    BY <1>1, <1>2, <1>4 DEF SameOrder
<1>8. SameMarks
    <2>1. ASSUME NEW q \in Nat PROVE Claimed(q)' <=> Claimed(q)
        BY <1>1, <1>2 DEF Claimed
    <2>2. ASSUME NEW q \in Nat PROVE Taken(q)' <=> Taken(q)
        BY <1>1, <1>2 DEF Taken
    <2> QED BY <2>1, <2>2 DEF SameMarks
<1>9. Distinct'
    <2>1. tx' = Len(order')
        BY <1>1, <1>4
    <2>2. \A i, j \in DOMAIN order' : order'[i] = order'[j] => i = j
        BY <1>2, <1>3, <1>4, <1>5 DEF Distinct
    <2>3. ASSUME NEW r \in Producer, NEW i \in DOMAIN todo[r], NEW j \in DOMAIN order',
                 order'[j] = todo[r][i]
          PROVE  i = 1 /\ pc'[r] # "idle" /\ j = pos'[r] + 1
        <3>1. CASE j = tx + 1
            <4>1. r = p /\ i = 1
                BY <1>3, <1>4, <2>3, <3>1 DEF Distinct, m
            <4> QED BY <1>1, <1>2, <3>1, <4>1
        <3>2. CASE j # tx + 1
            <4>1. j \in DOMAIN order /\ order[j] = todo[r][i]
                BY <1>2, <1>4, <2>3, <3>2
            <4>2. i = 1 /\ pc[r] # "idle" /\ j = pos[r] + 1
                BY <1>3, <4>1 DEF Distinct
            <4>3. r # p
                BY <1>1, <4>2
            <4> QED BY <1>1, <1>2, <4>2, <4>3
        <3> QED BY <3>1, <3>2
    <2> QED BY <1>1, <1>3, <2>1, <2>2, <2>3 DEF Distinct
<1>10. ASSUME NEW r \in Producer PROVE Producing(r)'
    <2>1. CASE r = p
        BY <1>1, <1>2, <1>4, <2>1 DEF Producing
    <2>2. CASE r # p
        <3>1. Producing(r) /\ pos[r] \in Nat /\ tx' \in Nat
            BY <1>1, <1>2 DEF Queue
        <3>2. pc'[r] = pc[r] /\ pos'[r] = pos[r] /\ todo'[r] = todo[r]
            BY <1>1, <1>2, <2>2
        <3> QED BY <1>1, <1>2, <1>7, <1>8, <3>1, <3>2, ProducingKept
    <2> QED BY <2>1, <2>2
<1>11. ASSUME NEW c \in Consumer PROVE Consuming(c)'
    <2>1. Consuming(c) /\ pc'[c] = pc[c] /\ pos'[c] = pos[c] /\ got'[c] = got[c]
          /\ pos[c] \in Nat
        BY <1>1, <1>2 DEF Queue
    <2>2. \A i \in DOMAIN got[c], q \in DOMAIN order' :
             order'[q] = got[c][i] => q \in DOMAIN order /\ order[q] = got[c][i]
        BY <1>2, <1>4, <1>6
    <2>3. At(c)' = At(c)
        BY <1>2, <2>1, AtPlace
    <2>4. pc[c] = "copy" => /\ Taken(pos[c])' /\ order'[pos[c] + 1] = order[pos[c] + 1]
        <3>1. Taken(pos[c]) => pos[c] \in 0..tx-1
            BY <2>1 DEF Queue, InTurn, Claimed
        <3>2. Taken(pos[c]) => Taken(pos[c])'
            BY <1>1, <1>2, <2>1 DEF Taken
        <3> QED BY <1>7, <2>1, <3>1, <3>2 DEF Consuming, SameOrder
    <2> QED BY <1>1, <2>1, <2>2, <2>3, <2>4 DEF Consuming
<1>12. Apart'
    BY <1>1, <1>2, ApartKept DEF Queue
<1>13. ASSUME NEW s \in Slot PROVE Using(s)'
    BY <1>1, <1>7, <1>8, UsingKept DEF Queue
<1>14. InTurn'
    BY <1>8, InTurnKept DEF Queue
<1>15. Returns'
    <2>1. /\ Returned' = Returned
          /\ \A d \in Consumer : pc'[d] = pc[d] /\ pos'[d] = pos[d]
        BY <1>1, <1>2 DEF Returned
    <2>2. \A q \in Nat : Taken(q) => order'[q + 1] = order[q + 1]
        BY <1>7 DEF Queue, InTurn, Claimed, SameOrder
    <2>3. ASSUME NEW c \in Consumer, NEW i \in DOMAIN got[c]
          PROVE  \E q \in Nat : /\ Taken(q)' /\ order'[q + 1] = got[c][i]
                                /\ \A d \in Consumer : pc'[d] = "copy" => pos'[d] # q
        <3>1. PICK q \in Nat : /\ Taken(q) /\ order[q + 1] = got[c][i]
                               /\ \A d \in Consumer : pc[d] = "copy" => pos[d] # q
            BY DEF Queue, Returns
        <3>2. Taken(q)' /\ order'[q + 1] = got[c][i]
            BY <1>8, <2>2, <3>1 DEF SameMarks
        <3>3. \A d \in Consumer : pc'[d] = "copy" => pos'[d] # q
            BY <2>1, <3>1
        <3> QED BY <3>2, <3>3
    <2>4. ASSUME NEW q \in Nat, Taken(q)'
          PROVE  \/ order'[q + 1] \in Returned
                 \/ \E d \in Consumer : pc'[d] = "copy" /\ pos'[d] = q
        <3>1. Taken(q) /\ order'[q + 1] = order[q + 1]
            BY <1>8, <2>2, <2>4 DEF SameMarks
        <3>2. order[q + 1] \in Returned \/ \E d \in Consumer : pc[d] = "copy" /\ pos[d] = q
            BY <3>1 DEF Queue, Returns
        <3> QED BY <2>1, <3>1, <3>2
    <2>5. ASSUME NEW c \in Consumer, NEW i \in DOMAIN got[c], NEW j \in DOMAIN got[c],
                 NEW q \in DOMAIN order', NEW r \in DOMAIN order',
                 order'[q] = got[c][i], order'[r] = got[c][j], i < j
          PROVE  q < r
        <3>1. q \in DOMAIN order /\ r \in DOMAIN order
              /\ order[q] = got[c][i] /\ order[r] = got[c][j]
            BY <1>2, <1>4, <1>6, <2>5
        <3> QED BY <2>5, <3>1 DEF Queue, Returns
    <2>6. \A c, d \in Consumer : \A i \in DOMAIN got[c], j \in DOMAIN got[d] :
             got[c][i] = got[d][j] => c = d /\ i = j
        BY DEF Queue, Returns
    <2>7. got' = got
        BY <1>1
    <2> QED BY <2>1, <2>3, <2>4, <2>5, <2>6, <2>7 DEF Returns
<1> QED BY <1>9, <1>10, <1>11, <1>12, <1>13, <1>14, <1>15 DEF Queue

\* The types that the steps below need.
LEMMA Shapes ==
    ASSUME TypeOK
    PROVE  /\ state \in [Slot -> 0..3] /\ value \in [Slot -> Msg \cup {None}]
           /\ pc \in [Thread -> {"idle", "claim", "again", "copy", "store", "count",
                                 "back", "draw", "free"}]
           /\ pos \in [Thread -> Nat] /\ tx \in Nat /\ rx \in Nat
           /\ todo \in [Producer -> Seq(Msg)] /\ got \in [Consumer -> Seq(Msg)]
           /\ Producer \subseteq Thread /\ Consumer \subseteq Thread
           /\ \A p \in Producer : p \notin Consumer
           /\ \A t \in Thread : At(t) \in Slot
BY AtSlot, ThreadAssumption DEF TypeOK, Thread

LEMMA ClaimKeeps ==
    ASSUME TypeOK, Queue, NEW p \in Producer, Claim(p), ~broken'
    PROVE  Queue'
<1>0. PICK k \in Nat : k = pos[p]
    BY Shapes
<1>1. /\ pc[p] = "claim" /\ state[At(p)] = 0 /\ ~Lapped(p, Producer)
      /\ pc' = [pc EXCEPT ![p] = "again"] /\ state' = [state EXCEPT ![At(p)] = 1]
      /\ UNCHANGED <<value, tx, rx, pos, todo, order, got>>
    BY DEF Claim, Step, Swap, SetState
<1>2. p \in Thread /\ p \notin Consumer /\ At(p) \in Slot
    BY Shapes
<1>3. k \in 0..tx-1 /\ k \in Nat /\ Place(k) = At(p)
    BY <1>0, <1>1, <1>2, Shapes, AtPlace DEF Queue, Producing
<1>4. ~Claimed(k) /\ ~Taken(k)
    BY <1>0, <1>1, <1>3 DEF Claimed, Queue, InTurn
<1>5. \A q \in Nat : Claimed(q)' <=> Claimed(q) \/ q = k
    <2>1. \A r \in Producer : r # p => pc'[r] = pc[r] /\ (pc[r] = "claim" => pos[r] # k)
        BY <1>0, <1>1, Shapes, PositionsApart
    <2>2. pc'[p] # "claim" /\ pc[p] = "claim" /\ pos[p] = k
        BY <1>0, <1>1, <1>2, Shapes
    <2> QED BY <1>1, <1>3, <2>1, <2>2 DEF Claimed
<1>6. \A q \in Nat : Taken(q)' <=> Taken(q)
    BY <1>1, Shapes DEF Taken
\* Earlier positions of the slot are used up.
<1>7. \A q \in Nat : Place(q) = At(p) /\ q < k => Claimed(q) /\ Taken(q)
    <2>1. ASSUME NEW q \in Nat, Place(q) = At(p), q < k PROVE Claimed(q)
        <3>1. q \in 0..tx-1
            BY <1>3, <2>1, Shapes
        <3>2. ASSUME NEW r \in Producer, pc[r] = "claim", pos[r] = q PROVE FALSE
            <4>1. At(r) = At(p)
                BY <2>1, <3>2, Shapes, AtPlace
            <4> QED BY <1>0, <1>1, <2>1, <3>2, <4>1 DEF Lapped
        <3> QED BY <3>1, <3>2 DEF Claimed
    <2>2. Using(At(p))
        BY <1>2 DEF Queue
    <2> QED BY <1>1, <2>1, <2>2 DEF Using
<1>8. Distinct'
    BY <1>1, <1>2, Shapes DEF Queue, Distinct
<1>9. ASSUME NEW r \in Producer PROVE Producing(r)'
    <2>1. Producing(r) /\ pos[r] \in Nat /\ At(r)' = At(r)
        BY <1>1, Shapes, AtPlace DEF Queue
    <2>2. Claimed(pos[r]) => Claimed(pos[r])'
        BY <1>1, <2>1, Shapes DEF Claimed
    <2>3. Taken(pos[r])' => Taken(pos[r])
        BY <1>1, <2>1, Shapes DEF Taken
    <2>4. CASE r = p
        <3>1. Claimed(pos[p])' /\ ~Taken(pos[p])'
            <4>1. Claimed(k)' /\ ~Taken(k)'
                BY <1>3, <1>4, <1>5, <1>6
            <4> QED BY <1>0, <1>1, <4>1 DEF Claimed, Taken
        <3>2. state'[At(p)] = 1 /\ pc'[p] = "again"
            BY <1>1, <1>2, Shapes
        <3> QED BY <1>1, <2>1, <2>4, <3>1, <3>2 DEF Producing
    <2>5. CASE r # p
        <3>1. pc'[r] = pc[r]
            BY <1>1, <2>5, Shapes
        <3>2. pc[r] \in {"again", "copy", "store"} => state'[At(r)] = state[At(r)]
            BY <1>1, <2>1, Shapes DEF Producing
        <3> QED BY <1>1, <2>1, <2>2, <2>3, <3>1, <3>2 DEF Producing
    <2> QED BY <2>4, <2>5
<1>10. ASSUME NEW c \in Consumer PROVE Consuming(c)'
    <2>1. Consuming(c) /\ pos[c] \in Nat /\ At(c)' = At(c) /\ pc'[c] = pc[c]
        BY <1>1, <1>2, Shapes, AtPlace DEF Queue
    <2>2. Taken(pos[c]) => Taken(pos[c])'
        BY <1>1, <2>1, Shapes DEF Taken
    <2>3. pc[c] \in {"copy", "free"} => state'[At(c)] = state[At(c)]
        BY <1>1, <2>1, Shapes DEF Consuming
    <2> QED BY <1>1, <2>1, <2>2, <2>3 DEF Consuming
<1>11. Apart'
    BY <1>1, <1>2, Shapes, ApartKept DEF Queue
<1>12. ASSUME NEW s \in Slot PROVE Using(s)'
    <2>1. CASE s = At(p)
        <3>1. state'[s] = 1 /\ Place(k) = s /\ Claimed(k)' /\ ~Taken(k)'
            BY <1>1, <1>2, <1>3, <1>4, <1>5, <1>6, <2>1, Shapes
        <3> QED BY <1>3, <3>1 DEF Using
    <2>2. CASE s # At(p)
        <3>1. Using(s) /\ state'[s] = state[s]
            BY <1>1, <2>2, Shapes DEF Queue
        <3>2. \A q \in Nat : Place(q) = s => /\ Claimed(q)' <=> Claimed(q)
                                             /\ Taken(q)' <=> Taken(q)
            BY <1>3, <1>5, <1>6, <2>2
        <3> QED BY <1>1, <3>1, <3>2 DEF Using
    <2> QED BY <2>1, <2>2
<1>13. InTurn'
    <2>1. ASSUME NEW q \in Nat, Taken(q)' PROVE Claimed(q)'
        BY <1>5, <1>6, <2>1 DEF Queue, InTurn
    <2>2. ASSUME NEW q \in Nat, NEW r \in Nat, q < r, Place(q) = Place(r), Claimed(r)'
          PROVE  Taken(q)'
        <3>1. CASE r = k
            BY <1>3, <1>6, <1>7, <2>2, <3>1
        <3>2. CASE r # k
            BY <1>5, <1>6, <2>2, <3>2 DEF Queue, InTurn
        <3> QED BY <3>1, <3>2
    <2> QED BY <2>1, <2>2 DEF InTurn
<1>14. Returns'
    <2>1. Returned' = Returned /\ \A d \in Consumer : pc'[d] = pc[d]
        BY <1>1, <1>2, Shapes DEF Returned
    <2> QED BY <1>1, <1>6, <2>1 DEF Queue, Returns
<1> QED BY <1>8, <1>9, <1>10, <1>11, <1>12, <1>13, <1>14 DEF Queue

\* The rest of put, in which no position is drawn, claimed or taken.
LEMMA ProducerMarks ==
    ASSUME TypeOK, NEW p \in Producer, tx' = tx, rx' = rx, pos' = pos, order' = order,
           pc[p] # "claim", pc'[p] # "claim", \A t \in Thread : t # p => pc'[t] = pc[t]
    PROVE  SameMarks /\ SameOrder
<1>1. SameMarks
    <2>1. \A c \in Consumer : pc'[c] = pc[c]
        BY Shapes
    <2> QED BY <2>1, MarksKept, Shapes
<1>2. SameOrder
    BY Shapes DEF SameOrder
<1> QED BY <1>1, <1>2

LEMMA ClaimAgainKeeps ==
    ASSUME TypeOK, Queue, NEW p \in Producer, ClaimAgain(p)
    PROVE  Queue'
<1>1. p \in Thread /\ p \notin Consumer /\ At(p) \in Slot /\ Producing(p)
    BY Shapes DEF Queue
\* The slot is claimed already.
<1>2. state[At(p)] = 1 /\ pc[p] = "again"
    BY <1>1 DEF ClaimAgain, Step, Producing
<1>3. /\ pc' = [pc EXCEPT ![p] = "copy"]
      /\ UNCHANGED <<state, value, tx, rx, pos, todo, order, got>>
    BY <1>2 DEF ClaimAgain, Step, Swap, history
<1>4. SameMarks /\ SameOrder
    <2>1. pc'[p] # "claim" /\ \A t \in Thread : t # p => pc'[t] = pc[t]
        BY <1>1, <1>2, <1>3, Shapes
    <2> QED BY <1>2, <1>3, <2>1, ProducerMarks
<1>5. ASSUME NEW r \in Producer PROVE Producing(r)'
    <2>1. pos[r] \in Nat /\ Producing(r) /\ At(r)' = At(r)
        BY <1>3, Shapes, AtPlace DEF Queue
    <2>2. CASE r = p
        <3>1. Claimed(pos[p])' <=> Claimed(pos[p])
            BY <1>2, <1>3, <1>1, Shapes DEF Claimed
        <3>2. Taken(pos[p])' <=> Taken(pos[p])
            BY <1>3, <1>1, Shapes DEF Taken
        <3> QED BY <1>1, <1>2, <1>3, <2>1, <2>2, <3>1, <3>2, Shapes DEF Producing
    <2>3. CASE r # p
        BY <1>3, <1>4, <2>1, <2>3, ProducingKept, Shapes
    <2> QED BY <2>2, <2>3
<1>6. ASSUME NEW c \in Consumer PROVE Consuming(c)'
    <2>1. /\ Consuming(c) /\ pos[c] \in Nat /\ pc'[c] = pc[c]
          /\ pc[c] \in {"claim", "back", "copy"} => pos[c] \in 0..rx'-1
        BY <1>1, <1>3, Shapes DEF Queue, Consuming
    <2> QED BY <1>3, <1>4, <2>1, ConsumingKept
<1>7. Distinct'
    BY <1>2, <1>3, <1>1, Shapes, DistinctKept DEF Queue
<1>8. Apart'
    BY <1>1, <1>3, Shapes, ApartKept DEF Queue
<1>9. \A s \in Slot : Using(s)'
    BY <1>3, <1>4, UsingKept DEF Queue
<1>10. InTurn'
    BY <1>4, InTurnKept DEF Queue
<1>11. Returns'
    BY <1>1, <1>3, <1>4, Shapes, ReturnsKept DEF Queue
<1> QED BY <1>5, <1>6, <1>7, <1>8, <1>9, <1>10, <1>11 DEF Queue

LEMMA CopyInKeeps ==
    ASSUME TypeOK, Queue, NEW p \in Producer, CopyIn(p)
    PROVE  Queue'
<1>1. p \in Thread /\ p \notin Consumer /\ At(p) \in Slot /\ Producing(p)
    BY Shapes DEF Queue
<1>2. /\ pc[p] = "copy" /\ pc' = [pc EXCEPT ![p] = "store"]
      /\ value' = [value EXCEPT ![At(p)] = Head(todo[p])]
      /\ UNCHANGED <<state, tx, rx, pos, todo, order, got>>
    BY DEF CopyIn, CopyUnmarked, Step, history
<1>3. state[At(p)] = 1
    BY <1>1, <1>2 DEF Producing
<1>4. SameMarks /\ SameOrder
    <2>1. pc'[p] # "claim" /\ \A t \in Thread : t # p => pc'[t] = pc[t]
        BY <1>1, <1>2, Shapes
    <2> QED BY <1>2, <2>1, ProducerMarks
<1>5. ASSUME NEW r \in Producer PROVE Producing(r)'
    <2>1. pos[r] \in Nat /\ Producing(r) /\ At(r)' = At(r)
        BY <1>2, Shapes, AtPlace DEF Queue
    <2>2. CASE r = p
        <3>1. Claimed(pos[p])' <=> Claimed(pos[p])
            BY <1>1, <1>2, Shapes DEF Claimed
        <3>2. Taken(pos[p])' <=> Taken(pos[p])
            BY <1>1, <1>2, Shapes DEF Taken
        <3>3. value'[At(p)] = Head(todo[p])
            BY <1>1, <1>2, Shapes
        <3> QED BY <1>1, <1>2, <2>1, <2>2, <3>1, <3>2, <3>3, Shapes DEF Producing
    <2>3. CASE r # p
        <3>1. pc[r] \in {"again", "copy", "store"} => value'[At(r)] = value[At(r)]
            BY <1>1, <1>2, <2>3, OwnersApart, Shapes
        <3> QED BY <1>2, <1>4, <2>1, <2>3, <3>1, ProducingKept, Shapes
    <2> QED BY <2>2, <2>3
<1>6. ASSUME NEW c \in Consumer PROVE Consuming(c)'
    <2>1. /\ Consuming(c) /\ pos[c] \in Nat /\ pc'[c] = pc[c]
          /\ pc[c] \in {"claim", "back", "copy"} => pos[c] \in 0..rx'-1
        BY <1>1, <1>2, Shapes DEF Queue, Consuming
    <2>2. pc[c] \in {"copy", "free"} => value'[At(c)] = value[At(c)]
        BY <1>1, <1>2, <1>3, <2>1, Shapes DEF Consuming
    <2> QED BY <1>2, <1>4, <2>1, <2>2, ConsumingKept
<1>7. Distinct'
    BY <1>2, <1>1, Shapes, DistinctKept DEF Queue
<1>8. Apart'
    BY <1>1, <1>2, Shapes, ApartKept DEF Queue
<1>9. ASSUME NEW s \in Slot PROVE Using(s)'
    <2>1. state[s] = 2 => value'[s] = value[s]
        BY <1>1, <1>2, <1>3, Shapes
    <2> QED BY <1>2, <1>4, <2>1, UsingKept DEF Queue
<1>10. InTurn'
    BY <1>4, InTurnKept DEF Queue
<1>11. Returns'
    BY <1>1, <1>2, <1>4, Shapes, ReturnsKept DEF Queue
<1> QED BY <1>5, <1>6, <1>7, <1>8, <1>9, <1>10, <1>11 DEF Queue

LEMMA StoreKeeps ==
    ASSUME TypeOK, Queue, NEW p \in Producer, Store(p)
    PROVE  Queue'
<1>1. p \in Thread /\ p \notin Consumer /\ At(p) \in Slot /\ Producing(p)
    BY Shapes DEF Queue
<1>2. /\ pc[p] = "store" /\ pc' = [pc EXCEPT ![p] = "count"]
      /\ state' = [state EXCEPT ![At(p)] = 2]
      /\ UNCHANGED <<value, tx, rx, pos, todo, order, got>>
    BY DEF Store, Stored, SetState, Step, history
<1>3. /\ state[At(p)] = 1 /\ Claimed(pos[p]) /\ ~Taken(pos[p])
      /\ pos[p] \in 0..tx-1 /\ value[At(p)] = order[pos[p] + 1]
    BY <1>1, <1>2 DEF Producing
<1>4. SameMarks /\ SameOrder
    <2>1. pc'[p] # "claim" /\ \A t \in Thread : t # p => pc'[t] = pc[t]
        BY <1>1, <1>2, Shapes
    <2> QED BY <1>2, <2>1, ProducerMarks
<1>5. ASSUME NEW r \in Producer PROVE Producing(r)'
    <2>1. pos[r] \in Nat /\ Producing(r) /\ At(r)' = At(r)
        BY <1>2, Shapes, AtPlace DEF Queue
    <2>2. CASE r = p
        BY <1>1, <1>2, <2>1, <2>2, Shapes DEF Producing
    <2>3. CASE r # p
        <3>1. pc[r] \in {"again", "copy", "store"} => state'[At(r)] = state[At(r)]
            BY <1>1, <1>2, <2>3, OwnersApart, Shapes
        <3> QED BY <1>2, <1>4, <2>1, <2>3, <3>1, ProducingKept, Shapes
    <2> QED BY <2>2, <2>3
<1>6. ASSUME NEW c \in Consumer PROVE Consuming(c)'
    <2>1. /\ Consuming(c) /\ pos[c] \in Nat /\ pc'[c] = pc[c]
          /\ pc[c] \in {"claim", "back", "copy"} => pos[c] \in 0..rx'-1
        BY <1>1, <1>2, Shapes DEF Queue, Consuming
    <2>2. pc[c] \in {"copy", "free"} => state'[At(c)] = state[At(c)]
        BY <1>1, <1>2, <1>3, <2>1, Shapes DEF Consuming
    <2> QED BY <1>2, <1>4, <2>1, <2>2, ConsumingKept
<1>7. Distinct'
    BY <1>2, <1>1, Shapes, DistinctKept DEF Queue
<1>8. Apart'
    BY <1>1, <1>2, Shapes, ApartKept DEF Queue
<1>9. ASSUME NEW s \in Slot PROVE Using(s)'
    <2>1. CASE s # At(p)
        BY <1>1, <1>2, <1>4, <2>1, UsingKept, Shapes DEF Queue
    <2>2. CASE s = At(p)
        <3>1. PICK q \in Nat : q = pos[p]
            BY <1>1, Shapes
        <3>2. Place(q) = s /\ Claimed(q) /\ ~Taken(q) /\ value[s] = order[q + 1]
            BY <1>1, <1>3, <2>2, <3>1, AtPlace DEF Claimed, Taken
        <3>3. Claimed(q)' /\ ~Taken(q)' /\ value'[s] = order'[q + 1] /\ state'[s] = 2
            BY <1>1, <1>2, <1>4, <2>2, <3>2, Shapes DEF SameMarks
        <3> QED BY <3>2, <3>3 DEF Using
    <2> QED BY <2>1, <2>2
<1>10. InTurn'
    BY <1>4, InTurnKept DEF Queue
<1>11. Returns'
    BY <1>1, <1>2, <1>4, Shapes, ReturnsKept DEF Queue
<1> QED BY <1>5, <1>6, <1>7, <1>8, <1>9, <1>10, <1>11 DEF Queue

LEMMA CountInKeeps ==
    ASSUME TypeOK, Queue, NEW p \in Producer, CountIn(p)
    PROVE  Queue'
<1>1. p \in Thread /\ p \notin Consumer /\ At(p) \in Slot /\ Producing(p) /\ Distinct
    BY Shapes DEF Queue
<1>2. /\ pc[p] = "count" /\ pc' = [pc EXCEPT ![p] = "idle"]
      /\ todo' = [todo EXCEPT ![p] = Tail(@)]
      /\ UNCHANGED <<state, value, tx, rx, pos, order, got>>
    BY DEF CountIn, Step, history
<1>3. todo[p] # <<>> /\ todo[p] \in Seq(Msg)
    BY <1>1, <1>2, Shapes DEF Producing
<1>4. SameMarks /\ SameOrder
    <2>1. pc'[p] # "claim" /\ \A t \in Thread : t # p => pc'[t] = pc[t]
        BY <1>1, <1>2, Shapes
    <2> QED BY <1>2, <2>1, ProducerMarks
<1>5. ASSUME NEW r \in Producer PROVE Producing(r)'
    <2>1. pos[r] \in Nat /\ Producing(r)
        BY Shapes DEF Queue
    <2>2. CASE r = p
        BY <1>1, <1>2, <2>2, Shapes DEF Producing
    <2>3. CASE r # p
        BY <1>2, <1>4, <2>1, <2>3, ProducingKept, Shapes
    <2> QED BY <2>2, <2>3
<1>6. ASSUME NEW c \in Consumer PROVE Consuming(c)'
    <2>1. /\ Consuming(c) /\ pos[c] \in Nat /\ pc'[c] = pc[c]
          /\ pc[c] \in {"claim", "back", "copy"} => pos[c] \in 0..rx'-1
        BY <1>1, <1>2, Shapes DEF Queue, Consuming
    <2> QED BY <1>2, <1>4, <2>1, ConsumingKept
<1>7. Distinct'
    \* What is left of todo was there, one place further.
    <2>1. \A r \in Producer : \A i \in DOMAIN todo'[r] :
             \/ r # p /\ i \in DOMAIN todo[r] /\ todo'[r][i] = todo[r][i]
             \/ r = p /\ i \in Nat \ {0} /\ i + 1 \in DOMAIN todo[r]
                      /\ todo'[r][i] = todo[r][i + 1]
        BY <1>2, <1>3, HeadTail, Shapes
    <2>2. ASSUME NEW r \in Producer, NEW u \in Producer,
                 NEW i \in DOMAIN todo'[r], NEW j \in DOMAIN todo'[u],
                 todo'[r][i] = todo'[u][j]
          PROVE  r = u /\ i = j
        BY <1>1, <2>1, <2>2 DEF Distinct
    <2>3. ASSUME NEW r \in Producer, NEW i \in DOMAIN todo'[r], NEW j \in DOMAIN order,
                 order[j] = todo'[r][i]
          PROVE  i = 1 /\ pc'[r] # "idle" /\ j = pos[r] + 1
        BY <1>1, <1>2, <2>1, <2>3, Shapes DEF Distinct
    <2> QED BY <1>1, <1>2, <2>2, <2>3 DEF Distinct
<1>8. Apart'
    BY <1>1, <1>2, Shapes, ApartKept DEF Queue
<1>9. \A s \in Slot : Using(s)'
    BY <1>2, <1>4, UsingKept DEF Queue
<1>10. InTurn'
    BY <1>4, InTurnKept DEF Queue
<1>11. Returns'
    BY <1>1, <1>2, <1>4, Shapes, ReturnsKept DEF Queue
<1> QED BY <1>5, <1>6, <1>7, <1>8, <1>9, <1>10, <1>11 DEF Queue

----------------------------------------------------------------------------
(* The steps of maybeget *)

\* A step that takes no position and changes no slot that is being filled.
LEMMA ProducersKept ==
    ASSUME TypeOK, Queue, SameMarks, NEW c \in Consumer,
           tx' = tx, order' = order, todo' = todo,
           \A p \in Producer : pc'[p] = pc[p] /\ pos'[p] = pos[p],
           \A s \in Slot : state[s] = 1 => state'[s] = 1 /\ value'[s] = value[s]
    PROVE  Distinct' /\ (\A p \in Producer : Producing(p)') /\ SameOrder
<1>1. SameOrder
    BY Shapes DEF SameOrder
<1>2. ASSUME NEW p \in Producer PROVE Producing(p)'
    <2>1. /\ Producing(p) /\ pos[p] \in Nat
          /\ pc[p] \in {"again", "copy", "store"} =>
                state'[At(p)] = state[At(p)] /\ value'[At(p)] = value[At(p)]
        BY Shapes DEF Queue, Producing
    <2>2. pc'[p] = pc[p] /\ pos'[p] = pos[p] /\ todo'[p] = todo[p] /\ tx \in Nat /\ tx' \in Nat
        BY Shapes
    <2> QED BY <1>1, <2>1, <2>2, ProducingKept
<1>3. Distinct'
    BY DistinctKept DEF Queue
<1> QED BY <1>1, <1>2, <1>3

LEMMA DrawKeeps ==
    ASSUME TypeOK, Queue, NEW c \in Consumer, Draw(c), pc[c] \in {"idle", "draw"},
           pc' = [pc EXCEPT ![c] = "claim"], UNCHANGED <<state, value, tx, todo, order, got>>
    PROVE  Queue'
<1>1. /\ pos' = [pos EXCEPT ![c] = rx] /\ rx' = rx + 1
      /\ c \in Thread /\ c \notin Producer
    BY Shapes DEF Draw
<1>2. /\ \A t \in Thread : t # c => pc'[t] = pc[t] /\ pos'[t] = pos[t]
      /\ pc'[c] = "claim" /\ pos'[c] = rx
    BY <1>1, Shapes
<1>3. SameMarks
    <2>1. ASSUME NEW q \in Nat PROVE Claimed(q)' <=> Claimed(q)
        BY <1>1, <1>2, Shapes DEF Claimed
    <2>2. ASSUME NEW q \in Nat PROVE Taken(q)' <=> Taken(q)
        BY <1>1, <1>2, Shapes DEF Taken
    <2> QED BY <2>1, <2>2 DEF SameMarks
<1>4. Distinct' /\ (\A p \in Producer : Producing(p)') /\ SameOrder
    BY <1>1, <1>2, <1>3, ProducersKept, Shapes
<1>5. ASSUME NEW d \in Consumer PROVE Consuming(d)'
    <2>1. CASE d = c
        <3>1. \A i \in DOMAIN got[c], q \in DOMAIN order : order[q] = got[c][i] => q <= rx
            <4>1. ASSUME NEW i \in DOMAIN got[c], NEW q \in DOMAIN order, order[q] = got[c][i]
                  PROVE  q <= rx
                <5>1. PICK r \in 0..tx-1 :
                         Taken(r) /\ order[r + 1] = got[c][i] /\ r + 1 \in DOMAIN order
                    BY NotReturned
                <5>2. q = r + 1
                    BY <4>1, <5>1 DEF Queue, Distinct
                <5> QED BY <5>1, <5>2, Shapes DEF Taken
            <4> QED BY <4>1
        <3> QED BY <1>1, <1>2, <2>1, <3>1, Shapes DEF Consuming
    <2>2. CASE d # c
        <3>1. /\ Consuming(d) /\ pos[d] \in Nat /\ pc'[d] = pc[d] /\ pos'[d] = pos[d]
              /\ pc[d] \in {"claim", "back", "copy"} => pos[d] \in 0..rx'-1
            BY <1>1, <1>2, <2>2, Shapes DEF Queue, Consuming
        <3> QED BY <1>3, <3>1, ConsumingKept
    <2> QED BY <2>1, <2>2
<1>6. Apart'
    <2>1. ASSUME NEW d \in Consumer, d # c PROVE At(d)' = At(d)
        <3>1. d \in Thread /\ pos'[d] = pos[d]
            BY <1>2, <2>1, Shapes
        <3> QED BY <3>1, AtPlace
    <2>2. \A d \in Consumer : d # c /\ pc[d] \in {"claim", "back", "copy"} => pos[d] # rx
        BY Shapes DEF Queue, Consuming
    <2> QED BY <1>2, <2>1, <2>2, Shapes DEF Queue, Apart
<1>7. \A s \in Slot : Using(s)'
    BY <1>3, <1>4, UsingKept DEF Queue
<1>8. InTurn'
    BY <1>3, InTurnKept DEF Queue
<1>9. Returns'
    BY <1>1, <1>2, <1>3, Shapes, ReturnsKept DEF Queue
<1> QED BY <1>4, <1>5, <1>6, <1>7, <1>8, <1>9 DEF Queue

LEMMA TakeKeeps ==
    ASSUME TypeOK, Queue, NEW c \in Consumer, Take(c), ~broken'
    PROVE  Queue'
<1>0. PICK k \in Nat : k = pos[c]
    BY Shapes
<1>1. /\ pc[c] = "claim" /\ state[At(c)] = 2 /\ ~Lapped(c, Consumer)
      /\ pc' = [pc EXCEPT ![c] = "copy"] /\ state' = [state EXCEPT ![At(c)] = 3]
      /\ UNCHANGED <<value, tx, rx, pos, todo, order, got>>
    BY DEF Take, Full, Step, Swap, SetState
<1>2. c \in Thread /\ c \notin Producer /\ At(c) \in Slot /\ Place(k) = At(c)
    BY <1>0, Shapes, AtPlace
<1>3. k \in 0..rx-1 /\ ~Taken(k)
    BY <1>0, <1>1, Shapes DEF Queue, Consuming, Taken
\* What is in the slot was put at this position.
<1>4. Claimed(k) /\ value[At(c)] = order[k + 1]
    <2>1. PICK q \in Nat : /\ Place(q) = At(c) /\ Claimed(q) /\ ~Taken(q)
                           /\ value[At(c)] = order[q + 1]
        BY <1>1, <1>2 DEF Queue, Using
    <2>2. ~(q < k)
        <3>1. ASSUME q < k PROVE FALSE
            <4>1. PICK d \in Consumer : pc[d] \in {"claim", "back"} /\ pos[d] = q
                BY <1>3, <2>1, <3>1, Shapes DEF Taken
            <4>2. At(d) = At(c)
                BY <2>1, <4>1, Shapes, AtPlace
            <4> QED BY <1>0, <1>1, <3>1, <4>1, <4>2 DEF Lapped
        <3> QED BY <3>1
    <2>3. ~(k < q)
        BY <1>2, <1>3, <2>1 DEF Queue, InTurn
    <2>4. q = k
        BY <2>2, <2>3
    <2> QED BY <2>1, <2>4
<1>5. \A t \in Thread : t # c => pc'[t] = pc[t]
    BY <1>1, Shapes
<1>6. \A q \in Nat : Claimed(q)' <=> Claimed(q)
    BY <1>1, <1>2, <1>5, Shapes DEF Claimed
<1>7. \A q \in Nat : Taken(q)' <=> Taken(q) \/ q = k
    <2>1. \A d \in Consumer : d # c => pc'[d] = pc[d] /\ (pc[d] \in {"claim", "back"} => pos[d] # k)
        BY <1>0, <1>1, <1>5, Shapes DEF Queue, Apart
    <2>2. pc'[c] = "copy"
        BY <1>1, <1>2, Shapes
    <2> QED BY <1>0, <1>1, <1>3, <2>1, <2>2 DEF Taken
<1>8. ASSUME NEW p \in Producer PROVE Producing(p)'
    <2>1. Producing(p) /\ pos[p] \in Nat /\ At(p)' = At(p) /\ pc'[p] = pc[p]
        BY <1>1, <1>2, <1>5, Shapes, AtPlace DEF Queue
    <2>2. pc[p] \in {"again", "copy", "store"} =>
             Claimed(pos[p])' /\ ~Taken(pos[p])' /\ state'[At(p)] = 1
        <3> SUFFICES ASSUME pc[p] \in {"again", "copy", "store"}
                     PROVE  Claimed(pos[p])' /\ ~Taken(pos[p])' /\ state'[At(p)] = 1
            OBVIOUS
        <3>1. state[At(p)] = 1 /\ Claimed(pos[p]) /\ ~Taken(pos[p])
            BY <2>1 DEF Producing
        <3>2. PICK q \in Nat : q = pos[p]
            BY <2>1
        <3>3. q # k
            BY <1>1, <1>2, <3>1, <3>2, Shapes, AtPlace
        <3>4. Claimed(q)' /\ ~Taken(q)'
            <4>1. Claimed(q) /\ ~Taken(q)
                BY <3>1, <3>2 DEF Claimed, Taken
            <4> QED BY <1>6, <1>7, <3>3, <4>1
        <3>5. Claimed(pos[p])' /\ ~Taken(pos[p])'
            BY <1>1, <3>2, <3>4 DEF Claimed, Taken
        <3> QED BY <1>1, <3>1, <3>5, Shapes
    <2> QED BY <1>1, <2>1, <2>2 DEF Producing
<1>9. Distinct'
    BY <1>1, <1>2, <1>5, Shapes, DistinctKept DEF Queue
<1>10. ASSUME NEW d \in Consumer PROVE Consuming(d)'
    <2>1. Consuming(d) /\ pos[d] \in Nat /\ At(d)' = At(d)
        BY <1>1, Shapes, AtPlace DEF Queue
    <2>2. CASE d = c
        <3>1. Taken(pos[c])'
            <4>1. Taken(k)'
                BY <1>7
            <4> QED BY <1>0, <1>1, <4>1 DEF Taken
        <3>2. pc'[c] = "copy" /\ state'[At(c)] = 3
            BY <1>1, <1>2, Shapes
        <3> QED BY <1>0, <1>1, <1>4, <2>1, <2>2, <3>1, <3>2 DEF Consuming
    <2>3. CASE d # c
        <3>1. pc'[d] = pc[d]
            BY <1>5, <2>3, Shapes
        <3>2. Taken(pos[d]) => Taken(pos[d])'
            <4>1. PICK q \in Nat : q = pos[d]
                BY <2>1
            <4>2. Taken(q) => Taken(q)'
                BY <1>7
            <4> QED BY <1>1, <4>1, <4>2 DEF Taken
        <3>3. pc[d] \in {"copy", "free"} => state'[At(d)] = state[At(d)]
            BY <1>1, <1>2, <2>1, Shapes DEF Consuming
        <3> QED BY <1>1, <2>1, <3>1, <3>2, <3>3 DEF Consuming
    <2> QED BY <2>2, <2>3
<1>11. Apart'
    <2>1. \A d \in Consumer : At(d)' = At(d) /\ pos'[d] = pos[d]
        BY <1>1, Shapes, AtPlace
    <2>2. \A d \in Consumer : d # c => pc'[d] = pc[d]
        BY <1>5, Shapes
    <2>3. \A d \in Consumer : pc[d] \in {"copy", "free"} => At(d) # At(c)
        BY <1>1 DEF Queue, Consuming
    <2>4. pc'[c] = "copy" /\ pc[c] = "claim"
        BY <1>1, <1>2, Shapes
    <2> QED BY <2>1, <2>2, <2>3, <2>4 DEF Queue, Apart
<1>12. ASSUME NEW s \in Slot PROVE Using(s)'
    <2>1. CASE s = At(c)
        <3>1. state'[s] = 3
            BY <1>1, <1>2, <2>1, Shapes
        <3>2. ASSUME NEW q \in Nat, Place(q) = s, Claimed(q)' PROVE Taken(q)'
            <4>1. CASE q < k
                BY <1>2, <1>4, <1>7, <2>1, <3>2, <4>1 DEF Queue, InTurn
            <4>2. CASE q = k
                BY <1>7, <4>2
            <4>3. CASE k < q
                BY <1>2, <1>3, <1>6, <2>1, <3>2, <4>3 DEF Queue, InTurn
            <4> QED BY <4>1, <4>2, <4>3
        <3> QED BY <3>1, <3>2 DEF Using
    <2>2. CASE s # At(c)
        <3>1. Using(s) /\ state'[s] = state[s]
            BY <1>1, <2>2, Shapes DEF Queue
        <3>2. \A q \in Nat : Place(q) = s => /\ Claimed(q)' <=> Claimed(q)
                                             /\ Taken(q)' <=> Taken(q)
            BY <1>2, <1>6, <1>7, <2>2
        <3> QED BY <1>1, <3>1, <3>2 DEF Using
    <2> QED BY <2>1, <2>2
<1>13. InTurn'
    BY <1>4, <1>6, <1>7 DEF Queue, InTurn
<1>14. Returns'
    <2>1. Returned' = Returned
        BY <1>1 DEF Returned
    <2>2. /\ \A d \in Consumer : d # c => pc'[d] = pc[d]
          /\ pc'[c] = "copy" /\ pc[c] = "claim" /\ pos[c] = k
        BY <1>0, <1>1, <1>2, <1>5, Shapes
    <2>3. ASSUME NEW d \in Consumer, NEW i \in DOMAIN got[d]
          PROVE  \E q \in Nat : /\ Taken(q)' /\ order[q + 1] = got[d][i]
                                /\ \A u \in Consumer : pc'[u] = "copy" => pos[u] # q
        <3>1. PICK q \in Nat : /\ Taken(q) /\ order[q + 1] = got[d][i]
                               /\ \A u \in Consumer : pc[u] = "copy" => pos[u] # q
            BY DEF Queue, Returns
        <3>2. q # k
            BY <1>3, <3>1
        <3>3. Taken(q)' /\ \A u \in Consumer : pc'[u] = "copy" => pos[u] # q
            BY <1>7, <2>2, <3>1, <3>2
        <3> QED BY <3>1, <3>3
    <2>4. ASSUME NEW q \in Nat, Taken(q)'
          PROVE  \/ order[q + 1] \in Returned
                 \/ \E d \in Consumer : pc'[d] = "copy" /\ pos[d] = q
        <3>1. CASE q = k
            BY <2>2, <3>1
        <3>2. CASE q # k
            <4>1. \/ order[q + 1] \in Returned
                  \/ \E d \in Consumer : pc[d] = "copy" /\ pos[d] = q
                BY <1>7, <2>4, <3>2 DEF Queue, Returns
            <4> QED BY <2>2, <4>1
        <3> QED BY <3>1, <3>2
    <2> QED BY <1>1, <2>1, <2>3, <2>4 DEF Queue, Returns
<1> QED BY <1>8, <1>9, <1>10, <1>11, <1>12, <1>13, <1>14 DEF Queue

\* Steps in which consumer c draws, takes and returns nothing, and no slot is
\* filled.
LEMMA ConsumerMarks ==
    ASSUME TypeOK, NEW c \in Consumer, tx' = tx, rx' = rx, pos' = pos,
           \A t \in Thread : t # c => pc'[t] = pc[t],
           \/ {pc[c], pc'[c]} \subseteq {"claim", "back"}
           \/ {pc[c], pc'[c]} \cap {"claim", "back"} = {}
    PROVE  SameMarks
<1>1. \A p \in Producer : pc'[p] = pc[p]
    BY Shapes
<1> QED BY <1>1, MarksKept, Shapes

LEMMA FailKeeps ==
    ASSUME TypeOK, Queue, NEW c \in Consumer, Fail(c)
    PROVE  Queue'
<1>1. /\ pc[c] = "claim" /\ pc' = [pc EXCEPT ![c] = "back"]
      /\ UNCHANGED <<state, value, tx, rx, pos, todo, order, got>>
    BY DEF Fail, Step, ring, history
<1>2. /\ c \in Thread /\ c \notin Producer /\ pc'[c] = "back"
      /\ \A t \in Thread : t # c => pc'[t] = pc[t]
    BY <1>1, Shapes
<1>3. SameMarks
    BY <1>1, <1>2, ConsumerMarks
<1>4. Distinct' /\ (\A p \in Producer : Producing(p)') /\ SameOrder
    BY <1>1, <1>2, <1>3, ProducersKept, Shapes
<1>5. ASSUME NEW d \in Consumer PROVE Consuming(d)'
    <2>1. /\ Consuming(d) /\ pos[d] \in Nat
          /\ pc[d] \in {"claim", "back", "copy"} => pos[d] \in 0..rx'-1
        BY <1>1, Shapes DEF Queue, Consuming
    <2>2. CASE d = c
        BY <1>1, <1>2, <2>1, <2>2 DEF Consuming
    <2>3. CASE d # c
        BY <1>1, <1>2, <1>3, <2>1, <2>3, ConsumingKept, Shapes
    <2> QED BY <2>2, <2>3
<1>6. Apart'
    BY <1>1, <1>2, Shapes, ApartKept DEF Queue
<1>7. \A s \in Slot : Using(s)'
    BY <1>1, <1>3, <1>4, UsingKept DEF Queue
<1>8. InTurn'
    BY <1>3, InTurnKept DEF Queue
<1>9. Returns'
    BY <1>1, <1>2, <1>3, Shapes, ReturnsKept DEF Queue
<1> QED BY <1>4, <1>5, <1>6, <1>7, <1>8, <1>9 DEF Queue

LEMMA GiveBackKeeps ==
    ASSUME TypeOK, Queue, NEW c \in Consumer, GiveBack(c), ~broken'
    PROVE  Queue'
<1>1. /\ pc[c] = "back" /\ pc' = [pc EXCEPT ![c] = "draw"]
      /\ rx = pos[c] + 1 /\ rx' = rx - 1
      /\ UNCHANGED <<state, value, tx, pos, todo, order, got>>
    BY DEF GiveBack, RxBack, Step
<1>2. /\ c \in Thread /\ c \notin Producer /\ pc'[c] = "draw"
      /\ \A t \in Thread : t # c => pc'[t] = pc[t]
    BY <1>1, Shapes
<1>3. SameMarks
    <2>1. \A q \in Nat : Claimed(q)' <=> Claimed(q)
        BY <1>1, <1>2, Shapes DEF Claimed
    <2>2. ASSUME NEW q \in Nat PROVE Taken(q)' <=> Taken(q)
        <3>1. CASE q = pos[c]
            BY <1>1, <3>1, Shapes DEF Taken
        <3>2. CASE q # pos[c]
            <4>1. q \in 0..rx-1 <=> q \in 0..rx'-1
                BY <1>1, <3>2, Shapes
            <4> QED BY <1>1, <1>2, <3>2, <4>1, Shapes DEF Taken
        <3> QED BY <3>1, <3>2
    <2> QED BY <2>1, <2>2 DEF SameMarks
<1>4. Distinct' /\ (\A p \in Producer : Producing(p)') /\ SameOrder
    BY <1>1, <1>2, <1>3, ProducersKept, Shapes
<1>5. ASSUME NEW d \in Consumer PROVE Consuming(d)'
    <2>1. CASE d = c
        BY <1>2, <2>1 DEF Consuming
    <2>2. CASE d # c
        <3>1. Consuming(d) /\ pos[d] \in Nat /\ pc'[d] = pc[d]
            BY <1>2, <2>2, Shapes DEF Queue
        <3>2. pc[d] \in {"claim", "back", "copy"} => pos[d] \in 0..rx'-1
            BY <1>1, <2>2, <3>1, Shapes DEF Queue, Consuming, Apart
        <3> QED BY <1>1, <1>3, <3>1, <3>2, ConsumingKept
    <2> QED BY <2>1, <2>2
<1>6. Apart'
    BY <1>1, <1>2, Shapes, ApartKept DEF Queue
<1>7. \A s \in Slot : Using(s)'
    BY <1>1, <1>3, <1>4, UsingKept DEF Queue
<1>8. InTurn'
    BY <1>3, InTurnKept DEF Queue
<1>9. Returns'
    BY <1>1, <1>2, <1>3, Shapes, ReturnsKept DEF Queue
<1> QED BY <1>4, <1>5, <1>6, <1>7, <1>8, <1>9 DEF Queue

LEMMA CopyOutKeeps ==
    ASSUME TypeOK, Queue, NEW c \in Consumer, CopyOut(c)
    PROVE  Queue'
<1>0. PICK k \in Nat : k = pos[c]
    BY Shapes
<1> DEFINE m == order[k + 1]
<1>1. /\ pc[c] = "copy" /\ pc' = [pc EXCEPT ![c] = "free"]
      /\ got' = [got EXCEPT ![c] = Append(@, value[At(c)])]
      /\ UNCHANGED <<state, value, tx, rx, pos, todo, order>>
    BY DEF CopyOut, Step, ring
<1>2. /\ c \in Thread /\ c \notin Producer /\ pc'[c] = "free"
      /\ \A t \in Thread : t # c => pc'[t] = pc[t]
    BY <1>1, Shapes
<1>3. SameMarks
    BY <1>1, <1>2, ConsumerMarks
<1>4. Distinct' /\ (\A p \in Producer : Producing(p)') /\ SameOrder
    BY <1>1, <1>2, <1>3, ProducersKept, Shapes
<1>5. ASSUME NEW d \in Consumer PROVE Consuming(d)'
    <2>1. /\ Consuming(d) /\ pos[d] \in Nat /\ At(d)' = At(d)
          /\ pc[d] \in {"claim", "back", "copy"} => pos[d] \in 0..rx'-1
        BY <1>1, Shapes, AtPlace DEF Queue, Consuming
    <2>2. CASE d = c
        BY <1>1, <1>2, <2>1, <2>2 DEF Consuming
    <2>3. CASE d # c
        BY <1>1, <1>2, <1>3, <2>1, <2>3, ConsumingKept, Shapes
    <2> QED BY <2>2, <2>3
<1>6. Apart'
    BY <1>1, <1>2, Shapes, ApartKept DEF Queue
<1>7. \A s \in Slot : Using(s)'
    BY <1>1, <1>3, <1>4, UsingKept DEF Queue
<1>8. InTurn'
    BY <1>3, InTurnKept DEF Queue
<1>9. Returns'
    <2>1. /\ Taken(k) /\ value[At(c)] = m
          /\ \A i \in DOMAIN got[c], q \in DOMAIN order : order[q] = got[c][i] => q <= k
        BY <1>0, <1>1 DEF Queue, Consuming, Taken
    <2>2. k \in 0..tx-1 /\ k + 1 \in DOMAIN order /\ m \in Msg
        BY <2>1, Drawn DEF Queue, InTurn, Claimed
    <2>3. Distinct
        BY DEF Queue
    <2>4. /\ got[c] \in Seq(Msg) /\ got'[c] = Append(got[c], m)
          /\ \A d \in Consumer : d # c => got'[d] = got[d]
        BY <1>1, <2>1, Shapes
    <2> DEFINE n == Len(got[c]) + 1
    <2>5. /\ Len(got[c]) \in Nat /\ DOMAIN got[c] = 1..Len(got[c]) /\ DOMAIN got'[c] = 1..n
          /\ got'[c][n] = m /\ \A i \in DOMAIN got[c] : got'[c][i] = got[c][i]
        <3>1. got[c] \in Seq(Msg) /\ m \in Msg
            BY <2>2, <2>4
        <3> HIDE DEF m
        <3> QED BY <2>4, <3>1, AppendFacts
    \* What c returns had not been returned.
    <2>6. \A d \in Consumer : \A i \in DOMAIN got[d] : got[d][i] # m
        <3>1. ASSUME NEW d \in Consumer, NEW i \in DOMAIN got[d], got[d][i] = m PROVE FALSE
            <4>1. PICK q \in Nat : /\ Taken(q) /\ order[q + 1] = got[d][i]
                                   /\ \A u \in Consumer : pc[u] = "copy" => pos[u] # q
                BY DEF Queue, Returns
            <4>2. q + 1 \in DOMAIN order
                BY <2>3, <4>1, Drawn DEF Queue, InTurn, Claimed
            <4>3. q = k
                BY <2>2, <2>3, <3>1, <4>1, <4>2 DEF Distinct
            <4> QED BY <1>0, <1>1, <4>1, <4>3
        <3> QED BY <3>1
    <2> HIDE DEF m, n
    \* Every returned message is one of before, or m.
    <2>7. \A d \in Consumer : \A i \in DOMAIN got'[d] :
             \/ i \in DOMAIN got[d] /\ got'[d][i] = got[d][i]
             \/ d = c /\ i = n /\ got'[d][i] = m
        BY <2>4, <2>5 DEF n
    <2>8. \A d \in Consumer : pc'[d] = "copy" <=> pc[d] = "copy" /\ d # c
        BY <1>2, Shapes
    <2>9. ASSUME NEW d \in Consumer, NEW i \in DOMAIN got'[d]
          PROVE  \E q \in Nat : /\ Taken(q)' /\ order[q + 1] = got'[d][i]
                                /\ \A u \in Consumer : pc'[u] = "copy" => pos[u] # q
        <3>1. CASE i \in DOMAIN got[d] /\ got'[d][i] = got[d][i]
            <4>1. PICK q \in Nat : /\ Taken(q) /\ order[q + 1] = got[d][i]
                                   /\ \A u \in Consumer : pc[u] = "copy" => pos[u] # q
                BY <3>1 DEF Queue, Returns
            <4> QED BY <1>3, <2>8, <3>1, <4>1 DEF SameMarks
        <3>2. CASE d = c /\ i = n /\ got'[d][i] = m
            <4>1. \A u \in Consumer : pc[u] = "copy" /\ u # c => pos[u] # k
                BY <1>0, <1>1 DEF Queue, Apart
            <4>2. Taken(k)'
                BY <1>3, <2>1 DEF SameMarks
            <4> QED BY <2>8, <3>2, <4>1, <4>2 DEF m
        <3> QED BY <2>7, <3>1, <3>2
    <2>10. ASSUME NEW q \in Nat, Taken(q)'
           PROVE  \/ order[q + 1] \in Returned'
                  \/ \E d \in Consumer : pc'[d] = "copy" /\ pos[d] = q
        <3>1. Returned \subseteq Returned'
            <4>1. \A d \in Consumer : \A i \in DOMAIN got[d] :
                     i \in DOMAIN got'[d] /\ got'[d][i] = got[d][i]
                BY <2>4, <2>5 DEF n
            <4> QED BY <4>1 DEF Returned, ToSet
        <3>2. m \in Returned'
            BY <2>2, <2>5 DEF Returned, ToSet, n
        <3>3. Taken(q)
            BY <1>3, <2>10 DEF SameMarks
        <3>4. \/ order[q + 1] \in Returned
              \/ \E d \in Consumer : pc[d] = "copy" /\ pos[d] = q
            BY <3>3 DEF Queue, Returns
        <3> QED BY <1>0, <2>8, <3>1, <3>2, <3>4 DEF m
    <2>11. ASSUME NEW d \in Consumer, NEW u \in Consumer,
                  NEW i \in DOMAIN got'[d], NEW j \in DOMAIN got'[u], got'[d][i] = got'[u][j]
           PROVE  d = u /\ i = j
        BY <2>6, <2>7, <2>11 DEF Queue, Returns
    <2>12. ASSUME NEW d \in Consumer, NEW i \in DOMAIN got'[d], NEW j \in DOMAIN got'[d],
                  NEW q \in DOMAIN order, NEW r \in DOMAIN order,
                  order[q] = got'[d][i], order[r] = got'[d][j], i < j
           PROVE  q < r
        <3>1. i \in DOMAIN got[d] /\ got'[d][i] = got[d][i]
            BY <2>5, <2>7, <2>12 DEF n
        <3>2. CASE j \in DOMAIN got[d] /\ got'[d][j] = got[d][j]
            BY <2>12, <3>1, <3>2 DEF Queue, Returns
        <3>3. CASE d = c /\ j = n /\ got'[d][j] = m
            <4>1. r = k + 1
                BY <2>2, <2>3, <2>12, <3>3 DEF Distinct, m
            <4>2. q <= k
                BY <2>1, <2>12, <3>1, <3>3
            <4>3. q \in Nat
                <5>1. order \in Seq(Msg)
                    BY DEF TypeOK
                <5> QED BY <5>1
            <4> QED BY <4>1, <4>2, <4>3
        <3> QED BY <2>7, <3>2, <3>3
    <2> HIDE DEF Returned
    <2> QED BY <1>1, <2>9, <2>10, <2>11, <2>12 DEF Returns
<1> QED BY <1>4, <1>5, <1>6, <1>7, <1>8, <1>9 DEF Queue

LEMMA FreeKeeps ==
    ASSUME TypeOK, Queue, NEW c \in Consumer, Free(c)
    PROVE  Queue'
<1>1. /\ pc[c] = "free" /\ pc' = [pc EXCEPT ![c] = "count"]
      /\ state' = [state EXCEPT ![At(c)] = 0]
      /\ UNCHANGED <<value, tx, rx, pos, todo, order, got>>
    BY DEF Free, SetState, Step, history
<1>2. /\ c \in Thread /\ c \notin Producer /\ pc'[c] = "count" /\ At(c) \in Slot
      /\ \A t \in Thread : t # c => pc'[t] = pc[t]
    BY <1>1, Shapes
<1>3. SameMarks
    BY <1>1, <1>2, ConsumerMarks
<1>4. state[At(c)] = 3
    BY <1>1 DEF Queue, Consuming
<1>5. Distinct' /\ (\A p \in Producer : Producing(p)') /\ SameOrder
    <2>1. \A s \in Slot : state[s] = 1 => state'[s] = 1
        BY <1>1, <1>2, <1>4, Shapes
    <2> QED BY <1>1, <1>2, <1>3, <2>1, ProducersKept, Shapes
<1>6. ASSUME NEW d \in Consumer PROVE Consuming(d)'
    <2>1. /\ Consuming(d) /\ pos[d] \in Nat
          /\ pc[d] \in {"claim", "back", "copy"} => pos[d] \in 0..rx'-1
        BY <1>1, Shapes DEF Queue, Consuming
    <2>2. CASE d = c
        BY <1>2, <2>2 DEF Consuming
    <2>3. CASE d # c
        <3>1. pc[d] \in {"copy", "free"} => state'[At(d)] = state[At(d)]
            BY <1>1, <1>2, <2>3, Shapes DEF Queue, Apart
        <3> QED BY <1>1, <1>2, <1>3, <2>1, <2>3, <3>1, ConsumingKept, Shapes
    <2> QED BY <2>2, <2>3
<1>7. Apart'
    BY <1>1, <1>2, Shapes, ApartKept DEF Queue
<1>8. ASSUME NEW s \in Slot PROVE Using(s)'
    <2>1. CASE s = At(c)
        <3>1. state'[s] = 0
            BY <1>1, <1>2, <2>1, Shapes
        <3>2. \A q \in Nat : Place(q) = s /\ Claimed(q) => Taken(q)
            BY <1>2, <1>4, <2>1 DEF Queue, Using
        <3> QED BY <1>3, <3>1, <3>2 DEF Using, SameMarks
    <2>2. CASE s # At(c)
        BY <1>1, <1>2, <1>3, <1>5, <2>2, UsingKept, Shapes DEF Queue
    <2> QED BY <2>1, <2>2
<1>9. InTurn'
    BY <1>3, InTurnKept DEF Queue
<1>10. Returns'
    BY <1>1, <1>2, <1>3, Shapes, ReturnsKept DEF Queue
<1> QED BY <1>5, <1>6, <1>7, <1>8, <1>9, <1>10 DEF Queue

LEMMA CountOutKeeps ==
    ASSUME TypeOK, Queue, NEW c \in Consumer, CountOut(c)
    PROVE  Queue'
<1>1. /\ pc[c] = "count" /\ pc' = [pc EXCEPT ![c] = "idle"]
      /\ UNCHANGED <<state, value, tx, rx, pos, todo, order, got>>
    BY DEF CountOut, Step, history
<1>2. /\ c \in Thread /\ c \notin Producer /\ pc'[c] = "idle"
      /\ \A t \in Thread : t # c => pc'[t] = pc[t]
    BY <1>1, Shapes
<1>3. SameMarks
    BY <1>1, <1>2, ConsumerMarks
<1>4. Distinct' /\ (\A p \in Producer : Producing(p)') /\ SameOrder
    BY <1>1, <1>2, <1>3, ProducersKept, Shapes
<1>5. ASSUME NEW d \in Consumer PROVE Consuming(d)'
    <2>1. /\ Consuming(d) /\ pos[d] \in Nat
          /\ pc[d] \in {"claim", "back", "copy"} => pos[d] \in 0..rx'-1
        BY <1>1, Shapes DEF Queue, Consuming
    <2>2. CASE d = c
        BY <1>2, <2>2 DEF Consuming
    <2>3. CASE d # c
        BY <1>1, <1>2, <1>3, <2>1, <2>3, ConsumingKept, Shapes
    <2> QED BY <2>2, <2>3
<1>6. Apart'
    BY <1>1, <1>2, Shapes, ApartKept DEF Queue
<1>7. \A s \in Slot : Using(s)'
    BY <1>1, <1>3, <1>4, UsingKept DEF Queue
<1>8. InTurn'
    BY <1>3, InTurnKept DEF Queue
<1>9. Returns'
    BY <1>1, <1>2, <1>3, Shapes, ReturnsKept DEF Queue
<1> QED BY <1>4, <1>5, <1>6, <1>7, <1>8, <1>9 DEF Queue

----------------------------------------------------------------------------
(* The ring is a queue *)

LEMMA RingInit == Init => RingInv
<1> SUFFICES ASSUME Init PROVE RingInv
    OBVIOUS
<1>1. <<>> \in Seq(Msg) /\ Len(<<>>) = 0 /\ DOMAIN <<>> = {}
    <2>1. \A s \in Seq(Msg) : DOMAIN s = 1..Len(s)
        OBVIOUS
    <2> QED BY <2>1
<1>2. TypeOK
    <2>1. /\ polls \in 0..MaxPolls /\ len \in 0..LenMod-1 /\ tx \in Nat /\ rx \in Nat
          /\ broken \in BOOLEAN
        <3>1. polls = 0 /\ len = 0 /\ tx = 0 /\ rx = 0 /\ broken = FALSE
            BY DEF Init
        <3>2. \A n \in Nat : 0 \in 0..n /\ (n # 0 => 0 \in 0..n-1)
            OBVIOUS
        <3> QED BY <3>1, <3>2, SizeAssumption
    <2>2. todo \in [Producer -> Seq(Msg)] /\ order \in Seq(Msg) /\ got \in [Consumer -> Seq(Msg)]
        BY <1>1, PutsAssumption DEF Init
    <2>3. /\ state \in [Slot -> 0..3] /\ value \in [Slot -> Msg \cup {None}]
          /\ pc \in [Thread -> {"idle", "claim", "again", "copy", "store", "count",
                                "back", "draw", "free"}]
          /\ pos \in [Thread -> Nat] /\ block \in [Consumer -> BOOLEAN]
        BY DEF Init
    <2> QED BY <2>1, <2>2, <2>3 DEF TypeOK
<1>3. /\ \A p \in Producer : pc[p] = "idle"
      /\ \A c \in Consumer : pc[c] = "idle" /\ DOMAIN got[c] = {}
      /\ tx = 0 /\ rx = 0 /\ order = <<>> /\ DOMAIN order = {} /\ Len(order) = 0
      /\ \A s \in Slot : state[s] = 0
    BY <1>1 DEF Init, Thread
<1>4. \A q \in Nat : ~Claimed(q) /\ ~Taken(q)
    BY <1>3 DEF Claimed, Taken
<1>5. Distinct
    BY <1>3, PutsAssumption DEF Init, Distinct
<1>6. \A p \in Producer : Producing(p)
    BY <1>3 DEF Producing
<1>7. \A c \in Consumer : Consuming(c)
    BY <1>3 DEF Consuming
<1>8. Apart /\ InTurn /\ \A s \in Slot : Using(s)
    BY <1>3, <1>4 DEF Apart, InTurn, Using
<1>9. Returns
    BY <1>3, <1>4 DEF Returns
<1> QED BY <1>2, <1>5, <1>6, <1>7, <1>8, <1>9 DEF RingInv, Queue

LEMMA RingStep == RingInv /\ [Next]_vars => RingInv'
<1> SUFFICES ASSUME RingInv, [Next]_vars PROVE RingInv'
    OBVIOUS
<1>1. CASE UNCHANGED vars
    <2>1. TypeOK' /\ (~broken' => ~broken)
        BY <1>1 DEF RingInv, TypeOK, vars, ring, history
    <2>2. UNCHANGED <<state, value, tx, rx, pc, pos, todo, order, got>>
        BY <1>1 DEF vars, ring, history
    <2>3. Queue => Queue'
        <3>1. SameMarks
            BY <2>2 DEF SameMarks, Claimed, Taken
        <3>2. \A t \in Thread : At(t)' = At(t)
            BY <2>2, AtPlace
        <3>3. \A p \in Producer : Producing(p) => Producing(p)'
            BY <2>2 DEF Producing, Claimed, Taken, At
        <3>4. \A c \in Consumer : Consuming(c) => Consuming(c)'
            BY <2>2 DEF Consuming, Taken, At
        <3>5. /\ Distinct => Distinct'
              /\ Apart => Apart'
            BY <2>2 DEF Distinct, Apart, At
        <3>6. \A s \in Slot : Using(s) => Using(s)'
            BY <2>2, <3>1 DEF Using, SameMarks
        <3>7. Returns => Returns'
            BY <2>2, <3>1, ReturnsKept
        <3> QED BY <3>1, <3>3, <3>4, <3>5, <3>6, <3>7, InTurnKept DEF Queue
    <2> QED BY <2>1, <2>3 DEF RingInv
<1>2. CASE Next
    <2>1. TypeOK /\ Queue
        BY <1>2 DEF RingInv, Next
    <2>2. ASSUME NEW p \in Producer, PutBegin(p) \/ Put(p) PROVE RingInv'
        <3>1. TypeOK'
            BY <2>1, <2>2, TypeProducer
        <3>2. ~broken' => Queue'
            BY <2>1, <2>2, PutBeginKeeps, ClaimKeeps, ClaimAgainKeeps, CopyInKeeps, StoreKeeps,
               CountInKeeps DEF Put
        <3> QED BY <3>1, <3>2 DEF RingInv
    <2>3. ASSUME NEW c \in Consumer, GetBegin(c) \/ Get(c) PROVE RingInv'
        <3>1. TypeOK'
            BY <2>1, <2>3, TypeConsumer
        <3>2. CASE GetBegin(c) \/ DrawAgain(c)
            <4>1. /\ Draw(c) /\ pc[c] \in {"idle", "draw"} /\ pc' = [pc EXCEPT ![c] = "claim"]
                  /\ UNCHANGED <<state, value, tx, todo, order, got>>
                BY <3>2 DEF GetBegin, DrawAgain, Step, history
            <4> QED BY <2>1, <3>1, <4>1, DrawKeeps DEF RingInv
        <3>3. CASE ComeBack(c)
            BY <3>1, <3>3 DEF ComeBack, RingInv
        <3>4. CASE Take(c) \/ Fail(c) \/ GiveBack(c) \/ CopyOut(c) \/ Free(c) \/ CountOut(c)
            BY <2>1, <3>1, <3>4, TakeKeeps, FailKeeps, GiveBackKeeps, CopyOutKeeps, FreeKeeps,
               CountOutKeeps DEF RingInv
        <3> QED BY <2>3, <3>2, <3>3, <3>4 DEF Get
    <2> QED BY <1>2, <2>2, <2>3 DEF Next
<1> QED BY <1>1, <1>2

\* The types of the slots, of the counters and of what threads hold, also of a
\* ring that has just been broken (queue.rs:92-142).
THEOREM TypeCorrect == Spec => []TypeOK
<1>1. RingInv => TypeOK
    BY DEF RingInv
<1> QED BY <1>1, RingInit, RingStep, PTL DEF Spec

\* No message is returned twice, overtaken or passed over, as long as no step
\* breaks the ring (queue.rs:144-161, 167-195).
THEOREM QueueUntilBroken == Spec => []Fifo
<1>1. RingInv => Fifo
    <2> SUFFICES ASSUME TypeOK, Queue PROVE Fifo
        BY DEF RingInv, Fifo
    <2>1. \A i, j \in DOMAIN order : order[i] = order[j] => i = j
        BY DEF Queue, Distinct
    <2>2. ASSUME NEW c \in Consumer, NEW d \in Consumer,
                 NEW i \in DOMAIN got[c], NEW j \in DOMAIN got[d]
          PROVE  /\ got[c][i] = got[d][j] => c = d /\ i = j
                 /\ c = d /\ i < j => Position(got[c][i]) < Position(got[d][j])
        <3>1. got[c][i] = got[d][j] => c = d /\ i = j
            BY DEF Queue, Returns
        <3>2. ASSUME c = d, i < j PROVE Position(got[c][i]) < Position(got[d][j])
            <4>1. /\ \E q \in DOMAIN order : order[q] = got[c][i]
                  /\ \E q \in DOMAIN order : order[q] = got[d][j]
                BY NotReturned
            <4>2. /\ Position(got[c][i]) \in DOMAIN order
                  /\ order[Position(got[c][i])] = got[c][i]
                  /\ Position(got[d][j]) \in DOMAIN order
                  /\ order[Position(got[d][j])] = got[d][j]
                BY <4>1 DEF Position
            <4> QED BY <3>2, <4>2 DEF Queue, Returns
        <3> QED BY <3>1, <3>2
    <2>3. ASSUME NEW i \in DOMAIN order
          PROVE  \/ order[i] \in Returned
                 \/ rx <= i - 1
                 \/ \E c \in Consumer : pos[c] = i - 1 /\ pc[c] \in {"claim", "back", "copy"}
        <3>1. PICK q \in Nat : i = q + 1
            <4>1. order \in Seq(Msg)
                BY DEF TypeOK
            <4>2. i \in Nat \ {0}
                BY <4>1
            <4> QED BY <4>2
        <3>2. CASE Taken(q)
            BY <3>1, <3>2 DEF Queue, Returns
        <3>3. CASE ~Taken(q)
            BY <3>1, <3>3, Shapes DEF Taken
        <3> QED BY <3>2, <3>3
    <2> QED BY <2>2, <2>3 DEF Fifo
<1> QED BY <1>1, RingInit, RingStep, PTL DEF Spec

----------------------------------------------------------------------------
(* What len counts *)

Filled == {s \in Slot : state[s] \in {2, 3}}
CountingIn == {p \in Producer : pc[p] = "count"}
CountingOut == {c \in Consumer : pc[c] = "count"}

LenInv == len = (Cardinality(Filled) - Cardinality(CountingIn) + Cardinality(CountingOut)) % LenMod

LEMMA CountsFinite ==
    /\ IsFiniteSet(Filled) /\ IsFiniteSet(CountingIn) /\ IsFiniteSet(CountingOut)
    /\ Cardinality(Filled) \in Nat /\ Cardinality(CountingIn) \in Nat
    /\ Cardinality(CountingOut) \in Nat
<1>1. IsFiniteSet(Slot)
    BY SizeAssumption, FS_Interval DEF Slot
<1>2. IsFiniteSet(Filled) /\ IsFiniteSet(CountingIn) /\ IsFiniteSet(CountingOut)
    BY <1>1, ThreadAssumption, FS_Subset DEF Filled, CountingIn, CountingOut
<1> QED BY <1>2, FS_CardinalityType

LEMMA ModUnique ==
    \A a, k, r \in Int, n \in Nat \ {0} : r \in 0..n-1 /\ a = k * n + r => a % n = r
OBVIOUS

LEMMA ModParts ==
    ASSUME NEW a \in Int, NEW n \in Nat \ {0}
    PROVE  a \div n \in Int /\ a % n \in 0..n-1 /\ a = (a \div n) * n + (a % n)
<1>1. a = n * (a \div n) + (a % n)
    BY Z3
<1>2. a \div n \in Int /\ a % n \in 0..n-1
    OBVIOUS
<1>3. \A k, m \in Int : m * k = k * m
    OBVIOUS
<1> QED BY <1>1, <1>2, <1>3

\* A counter in a machine word follows the one that is not cut.
LEMMA ModUp ==
    ASSUME NEW a \in Int, NEW n \in Nat \ {0}
    PROVE  ((a % n) + 1) % n = (a + 1) % n
<1> DEFINE r == a % n
           k == a \div n
<1>1. r \in 0..n-1 /\ k \in Int /\ a = k * n + r
    BY ModParts
<1> HIDE DEF r, k
<1>2. CASE r + 1 = n
    <2>1. (k + 1) * n = k * n + n
        BY <1>1
    <2>2. a + 1 = (k + 1) * n + 0 /\ r + 1 = 1 * n + 0
        BY <1>1, <1>2, <2>1
    <2>3. 0 \in 0..n-1 /\ k + 1 \in Int /\ 1 \in Int /\ r + 1 \in Int /\ a + 1 \in Int
        BY <1>1
    <2> QED BY <2>2, <2>3, ModUnique DEF r
<1>3. CASE r + 1 # n
    <2>1. r + 1 \in 0..n-1 /\ a + 1 = k * n + (r + 1) /\ r + 1 = 0 * n + (r + 1)
        BY <1>1, <1>3
    <2> QED BY <1>1, <2>1, ModUnique, SMTT(30) DEF r
<1> QED BY <1>2, <1>3

LEMMA ModDown ==
    ASSUME NEW a \in Int, NEW n \in Nat \ {0}
    PROVE  ((a % n) - 1) % n = (a - 1) % n
<1> DEFINE r == a % n
           k == a \div n
<1>1. r \in 0..n-1 /\ k \in Int /\ a = k * n + r
    BY ModParts
<1> HIDE DEF r, k
<1>2. PICK b \in Int, c \in Int, d \in Int : b = a - 1 /\ c = r - 1 /\ d = k - 1
    BY <1>1
<1>3. CASE r = 0
    <2>1. PICK e \in Int, o \in Int : e = n - 1 /\ o = 0 - 1
        OBVIOUS
    <2>2. d * n = k * n - n /\ o * n = 0 - n
        BY <1>1, <1>2, <2>1
    <2>3. b = d * n + e /\ c = o * n + e /\ e \in 0..n-1
        BY <1>1, <1>2, <1>3, <2>1, <2>2
    <2>4. b % n = e /\ c % n = e
        BY <2>3, ModUnique
    <2> QED BY <1>2, <2>4 DEF r
<1>4. CASE r # 0
    <2>1. c \in 0..n-1 /\ b = k * n + c /\ c = 0 * n + c
        BY <1>1, <1>2, <1>4
    <2>2. b % n = c /\ c % n = c
        BY <1>1, <2>1, ModUnique
    <2> QED BY <1>2, <2>2 DEF r
<1> QED BY <1>3, <1>4

LEMMA LenKeptStep ==
    ASSUME LenInv, Filled' = Filled, CountingIn' = CountingIn, CountingOut' = CountingOut,
           len' = len
    PROVE  LenInv'
BY DEF LenInv

LEMMA LenProducer ==
    ASSUME TypeOK, Queue, LenInv, NEW p \in Producer, PutBegin(p) \/ Put(p)
    PROVE  LenInv'
<1> DEFINE f == Cardinality(Filled)
           i == Cardinality(CountingIn)
           o == Cardinality(CountingOut)
<1>0. /\ p \in Thread /\ p \notin Consumer /\ At(p) \in Slot /\ Producing(p)
      /\ f \in Int /\ i \in Int /\ o \in Int
    BY Shapes, CountsFinite DEF Queue
<1> USE DEF Step, Swap, SetState, ring, history
<1>1. ASSUME pc'[p] # "count", pc[p] # "count", \A t \in Thread : t # p => pc'[t] = pc[t],
             \A s \in Slot : state'[s] = state[s] \/ {state[s], state'[s]} \subseteq {0, 1},
             len' = len
      PROVE  LenInv'
    <2>1. CountingIn' = CountingIn /\ CountingOut' = CountingOut
        BY <1>0, <1>1, Shapes DEF CountingIn, CountingOut
    <2>2. Filled' = Filled
        BY <1>1 DEF Filled
    <2> QED BY <1>1, <2>1, <2>2, LenKeptStep
<1>2. CASE PutBegin(p)
    BY <1>0, <1>1, <1>2, Shapes DEF PutBegin
<1>3. CASE Claim(p)
    BY <1>0, <1>1, <1>3, Shapes DEF Claim
<1>4. CASE ClaimAgain(p)
    BY <1>0, <1>1, <1>4, Shapes DEF ClaimAgain
<1>5. CASE CopyIn(p)
    BY <1>0, <1>1, <1>5, Shapes DEF CopyIn, CopyUnmarked
<1>6. CASE Store(p)
    <2>1. state[At(p)] = 1 /\ pc[p] = "store" /\ len' = len
        BY <1>0, <1>6 DEF Store, Producing
    <2>2. At(p) \notin Filled /\ Filled' = Filled \cup {At(p)}
        BY <1>0, <1>6, <2>1, Shapes DEF Store, Stored, Filled
    <2>3. p \notin CountingIn /\ CountingIn' = CountingIn \cup {p}
        BY <1>0, <1>6, <2>1, Shapes DEF Store, CountingIn
    <2>4. CountingOut' = CountingOut
        BY <1>0, <1>6, Shapes DEF Store, CountingOut
    <2>5. Cardinality(Filled') = f + 1 /\ Cardinality(CountingIn') = i + 1
        BY <2>2, <2>3, CountsFinite, FS_AddElement, FS_RemoveElement
    <2> HIDE DEF f, i, o
    <2>6. (f + 1) - (i + 1) + o = f - i + o
        BY <1>0
    <2>7. LenInv' <=> len' = ((f + 1) - (i + 1) + o) % LenMod
        BY <2>4, <2>5 DEF LenInv, o
    <2>8. len = (f - i + o) % LenMod
        BY DEF LenInv, f, i, o
    <2> QED BY <2>1, <2>6, <2>7, <2>8
<1>7. CASE CountIn(p)
    <2>1. p \in CountingIn /\ CountingIn' = CountingIn \ {p}
        BY <1>0, <1>7, Shapes DEF CountIn, CountingIn
    <2>2. CountingOut' = CountingOut /\ Filled' = Filled
        BY <1>0, <1>7, Shapes DEF CountIn, CountingOut, Filled
    <2>3. Cardinality(CountingIn') = i - 1
        BY <2>1, CountsFinite, FS_AddElement, FS_RemoveElement
    <2>4. len' = (len + 1) % LenMod
        BY <1>7 DEF CountIn
    <2> HIDE DEF f, i, o
    <2>5. LenInv' <=> len' = (f - (i - 1) + o) % LenMod
        BY <2>2, <2>3 DEF LenInv, f, o
    <2>6. len = (f - i + o) % LenMod
        BY DEF LenInv, f, i, o
    <2>7. f - (i - 1) + o = (f - i + o) + 1 /\ f - i + o \in Int
        BY <1>0
    <2> QED BY <2>4, <2>5, <2>6, <2>7, ModUp, SizeAssumption
<1> QED BY <1>2, <1>3, <1>4, <1>5, <1>6, <1>7 DEF Put

LEMMA LenConsumer ==
    ASSUME TypeOK, Queue, LenInv, NEW c \in Consumer, GetBegin(c) \/ Get(c)
    PROVE  LenInv'
<1> DEFINE f == Cardinality(Filled)
           i == Cardinality(CountingIn)
           o == Cardinality(CountingOut)
<1>0. /\ c \in Thread /\ c \notin Producer /\ At(c) \in Slot /\ Consuming(c)
      /\ f \in Int /\ i \in Int /\ o \in Int
    BY Shapes, CountsFinite DEF Queue
<1> USE DEF Step, Swap, SetState, ring, history
<1>1. ASSUME pc'[c] # "count", pc[c] # "count", \A t \in Thread : t # c => pc'[t] = pc[t],
             \A s \in Slot : state'[s] = state[s] \/ {state[s], state'[s]} \subseteq {2, 3},
             len' = len
      PROVE  LenInv'
    <2>1. CountingIn' = CountingIn /\ CountingOut' = CountingOut
        BY <1>0, <1>1, Shapes DEF CountingIn, CountingOut
    <2>2. Filled' = Filled
        BY <1>1 DEF Filled
    <2> QED BY <1>1, <2>1, <2>2, LenKeptStep
<1>2. CASE GetBegin(c)
    BY <1>0, <1>1, <1>2, Shapes DEF GetBegin
<1>3. CASE Take(c)
    BY <1>0, <1>1, <1>3, Shapes DEF Take, Full
<1>4. CASE ComeBack(c) \/ Fail(c)
    BY <1>0, <1>1, <1>4, Shapes DEF ComeBack, Fail
<1>5. CASE GiveBack(c) \/ DrawAgain(c) \/ CopyOut(c)
    BY <1>0, <1>1, <1>5, Shapes DEF GiveBack, DrawAgain, CopyOut
<1>6. CASE Free(c)
    <2>1. state[At(c)] = 3 /\ pc[c] = "free" /\ len' = len
        BY <1>0, <1>6 DEF Free, Consuming
    <2>2. At(c) \in Filled /\ Filled' = Filled \ {At(c)}
        BY <1>0, <1>6, <2>1, Shapes DEF Free, Filled
    <2>3. c \notin CountingOut /\ CountingOut' = CountingOut \cup {c}
        BY <1>0, <1>6, <2>1, Shapes DEF Free, CountingOut
    <2>4. CountingIn' = CountingIn
        BY <1>0, <1>6, Shapes DEF Free, CountingIn
    <2>5. Cardinality(Filled') = f - 1 /\ Cardinality(CountingOut') = o + 1
        BY <2>2, <2>3, CountsFinite, FS_AddElement, FS_RemoveElement
    <2> HIDE DEF f, i, o
    <2>6. (f - 1) - i + (o + 1) = f - i + o
        BY <1>0
    <2>7. LenInv' <=> len' = ((f - 1) - i + (o + 1)) % LenMod
        BY <2>4, <2>5 DEF LenInv, i
    <2>8. len = (f - i + o) % LenMod
        BY DEF LenInv, f, i, o
    <2> QED BY <2>1, <2>6, <2>7, <2>8
<1>7. CASE CountOut(c)
    <2>1. c \in CountingOut /\ CountingOut' = CountingOut \ {c}
        BY <1>0, <1>7, Shapes DEF CountOut, CountingOut
    <2>2. CountingIn' = CountingIn /\ Filled' = Filled
        BY <1>0, <1>7, Shapes DEF CountOut, CountingIn, Filled
    <2>3. Cardinality(CountingOut') = o - 1
        BY <2>1, CountsFinite, FS_AddElement, FS_RemoveElement
    <2>4. len' = (len - 1) % LenMod
        BY <1>7 DEF CountOut, LenDown
    <2> HIDE DEF f, i, o
    <2>5. LenInv' <=> len' = (f - i + (o - 1)) % LenMod
        BY <2>2, <2>3 DEF LenInv, f, i
    <2>6. len = (f - i + o) % LenMod
        BY DEF LenInv, f, i, o
    <2>7. f - i + (o - 1) = (f - i + o) - 1 /\ f - i + o \in Int
        BY <1>0
    <2> QED BY <2>4, <2>5, <2>6, <2>7, ModDown, SizeAssumption
<1> QED BY <1>2, <1>3, <1>4, <1>5, <1>6, <1>7 DEF Get

\* len is the number of filled slots, but for the threads that are still to
\* count, in a machine word (queue.rs:157-158, 192-193).
THEOREM LenExact == Spec => []LenAccounting
<1>1. Init => LenInv
    <2> SUFFICES ASSUME Init PROVE LenInv
        OBVIOUS
    <2>1. Filled = {} /\ CountingIn = {} /\ CountingOut = {} /\ len = 0
        BY DEF Init, Filled, CountingIn, CountingOut, Thread
    <2>2. 0 - 0 + 0 = 0 /\ 0 % LenMod = 0
        <3>1. \A n \in Nat \ {0} : 0 % n = 0
            OBVIOUS
        <3> QED BY <3>1, SizeAssumption
    <2> QED BY <2>1, <2>2, FS_EmptySet DEF LenInv
<1>2. RingInv /\ LenInv /\ [Next]_vars => LenInv'
    <2> SUFFICES ASSUME RingInv, LenInv, [Next]_vars PROVE LenInv'
        OBVIOUS
    <2>1. CASE UNCHANGED vars
        BY <2>1, LenKeptStep DEF vars, ring, Filled, CountingIn, CountingOut
    <2>2. CASE Next
        BY <2>2, LenProducer, LenConsumer DEF RingInv, Next
    <2> QED BY <2>1, <2>2
<1>3. LenInv => LenAccounting
    BY DEF LenInv, LenAccounting, Filled, CountingIn, CountingOut
<1> QED BY <1>1, <1>2, <1>3, RingInit, RingStep, PTL DEF Spec
=============================================================================
