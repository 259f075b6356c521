-------------------------- MODULE LinkQueueProofs ---------------------------
(***************************************************************************)
(* That the linked queue is a queue for one consumer, for any producers,   *)
(* messages, items and size of the cache.                                  *)
(*                                                                         *)
(* The links are not followed.  Instead the proof has the sequence p of    *)
(* the items in the order of their swaps into ptr, and three positions in  *)
(* it: the list consists of the items lo..w, which the consumer has not    *)
(* given to the cache yet, and of those from l, where lst is.  What links  *)
(* are set, which items are claimed and what each thread holds is said by  *)
(* positions, and an action changes p by at most one item and the          *)
(* positions by at most one step, but for the end of taildealloc.          *)
(***************************************************************************)
EXTENDS LinkQueue, FiniteSetTheorems, SequenceTheorems, TLAPS

----------------------------------------------------------------------------
(* The inductive invariant *)

\* Items whose contents a put has stored: all that a pointer leads to.
Filled == {i \in Item : node[i].payload \in Msg}
Known == Filled \cup {Null}

\* No pointer leads to an item that was never filled.
Pointers ==
    /\ ptr \in Known /\ lst \in Known
    /\ \A i \in Item : node[i].next \in Known /\ node[i].prev \in Known
    /\ \A s \in 0..CacheSize-1 : cache[s] \in Known
    /\ \A t \in Thread : cur[t] \in Known /\ other[t] \in Known /\ walk[t] \in Known

\* What a thread has in hand at its place in the code.
InPut == {"pop", "swap", "next", "prev", "count"}
InHand ==
    /\ \A t \in Producer : /\ pc[t] \in {"idle"} \cup InPut
                           /\ pc[t] \in InPut => todo[t] # <<>>
                           /\ pc[t] \in InPut \ {"pop"} => cur[t] # Null
    /\ \A t \in Consumer : /\ pc[t] \notin InPut
                           /\ pc[t] # "idle" => cur[t] # Null
                           /\ pc[t] = "push" => walk[t] # Null
                           /\ pc[t] \in {"swing", "lastswing"} => other[t] # Null

TypeInv == TypeOK /\ Pointers /\ InHand

\* An address is in one place: not allocated, in one slot of the cache, or in use.
Spare == Cached \cup free
Stored ==
    /\ Cached \cap free = {}
    /\ \A s, u \in 0..CacheSize-1 : cache[s] = cache[u] /\ cache[s] # Null => s = u

\* Item p[i] is the one that was swapped into ptr as the i-th.  Items lo..w, which
\* the consumer is done with, and l.., where lst is l, are in the list.
Listed(p, lo, w, l) == {i \in 1..Len(p) : (lo <= i /\ i <= w) \/ l <= i}
Linking(t) == pc[t] \in {"next", "prev"}
Linked(p, i) == \A t \in Producer : Linking(t) => cur[t] # p[i]

\* What range the positions have.
Shape(p, lo, w, l) ==
    /\ p \in Seq(Item) /\ Len(p) = Len(order)
    /\ lo \in Nat \ {0} /\ w \in Nat /\ l \in Nat
    /\ lo <= l /\ lo <= w + 1 /\ w < l
    /\ l = 1 \/ (l <= Len(p) /\ Linked(p, l))

\* ptr is the newest item; lst appears with the first link, and moves only to linked
\* items.
Ends(p, l) ==
    /\ ptr = IF p = <<>> THEN Null ELSE p[Len(p)]
    /\ lst = IF l <= Len(p) /\ Linked(p, l) THEN p[l] ELSE Null

\* The listed items are different ones, and nobody can be given them.
Apart(p, lo, w, l) ==
    /\ \A i, j \in Listed(p, lo, w, l) : p[i] = p[j] => i = j
    /\ \A i \in Listed(p, lo, w, l) : p[i] \notin Spare

\* next leads to the item before, unless that store is still to come.
Older(p, lo, w, l) ==
    \A i \in Listed(p, lo, w, l) :
        /\ i = lo => node[p[i]].next = Null
        /\ i # lo /\ i - 1 \in Listed(p, lo, w, l)
             => \/ node[p[i]].next = p[i - 1]
                \/ \E t \in Producer : pc[t] = "next" /\ cur[t] = p[i]

\* prev leads to the item behind as soon as that one is linked.
Newer(p, l) ==
    \A i \in 1..Len(p) : l <= i =>
        node[p[i]].prev = IF i < Len(p) /\ Linked(p, i + 1) THEN p[i + 1] ELSE Null

\* The messages that the consumer has claimed, and those it has released.
Taken(c) == Len(got) + (IF pc[c] \in {"countout", "last", "lastswing", "copy"} THEN 1 ELSE 0)
Released(c) == Len(got) - (IF pc[c] = "release" THEN 1 ELSE 0)

\* The items carry the messages in order; the first ones are claimed, and released.
Marks(c, p, lo, w, l) ==
    \A i \in Listed(p, lo, w, l) :
        /\ node[p[i]].payload = order[i]
        /\ node[p[i]].claimed <=> i <= Taken(c)
        /\ node[p[i]].needrel <=> i <= Released(c)

\* A producer has an item of its own, or links one that the consumer cannot reach.
Putting(t, p, lo, w, l) ==
    /\ pc[t] \in {"idle", "pop"} => cur[t] = Null
    /\ pc[t] = "swap" =>
          /\ cur[t] \notin Spare /\ node[cur[t]] = Empty(Head(todo[t]))
          /\ \A i \in Listed(p, lo, w, l) : cur[t] # p[i]
    /\ Linking(t) =>
          \E k \in 1..Len(p) :
             /\ k = 1 \/ k > l
             /\ l <= k /\ cur[t] = p[k]
             /\ other[t] = IF k = 1 THEN Null ELSE p[k - 1]
             /\ pc[t] = "next" => node[p[k]].next = Null

\* No two producers have the same item.
Mine ==
    \A t, u \in Producer :
        /\ pc[t] \in {"swap", "next", "prev"} /\ pc[u] \in {"swap", "next", "prev"}
        /\ cur[t] = cur[u]
        => t = u

\* The consumer is at the item behind the last it has, or still at that one.
AtOld == {"acquire", "tail", "free", "push", "unlock", "advance", "swing"}
AtNew == {"claim", "countout", "last", "lastswing"}
AtEither == {"check", "recheck"}
Taking(c, p, lo, w, l) ==
    LET g == Len(got)
    IN  /\ \A i \in 1..g : i \in 1..Len(order) /\ got[i] = order[i]
        /\ first[c] /\ pc[c] # "onward"
        /\ doingrel <=> pc[c] \in {"tail", "free", "push", "unlock"}
        /\ pc[c] \notin {"free", "push"} => w = l - 1
        /\ pc[c] \in AtOld => l = g
        /\ pc[c] \in AtNew => l = g + 1
        /\ pc[c] \in AtEither \cup {"idle", "release"} => l = g \/ l = g + 1
        /\ pc[c] = "copy" => /\ l = g + 1 \/ l = g + 2
                             /\ g + 1 \in Listed(p, lo, w, l) /\ cur[c] = p[g + 1]
        /\ pc[c] = "release" => g \in Listed(p, lo, w, l) /\ cur[c] = p[g]
        /\ pc[c] \in AtOld \cup AtNew \cup AtEither => l <= Len(p) /\ Linked(p, l) /\ cur[c] = p[l]
        /\ pc[c] \in {"swing", "lastswing"} =>
              l + 1 <= Len(p) /\ Linked(p, l + 1) /\ other[c] = p[l + 1]
        /\ pc[c] = "free" => walk[c] = IF w < lo THEN Null ELSE p[w]
        /\ pc[c] = "push" => /\ lo <= w /\ walk[c] = p[w]
                             /\ other[c] = IF w = lo THEN Null ELSE p[w - 1]
        /\ pc[c] = "idle" => cur[c] = Null

ListInv(c, p, lo, w, l) ==
    /\ Shape(p, lo, w, l) /\ Ends(p, l) /\ Apart(p, lo, w, l)
    /\ Older(p, lo, w, l) /\ Newer(p, l) /\ Marks(c, p, lo, w, l)
    /\ \A t \in Producer : Putting(t, p, lo, w, l)
    /\ Taking(c, p, lo, w, l)

\* With several consumers there is no such list.
LinkInv ==
    /\ TypeInv
    /\ \A c : Consumer = {c} => Stored /\ Mine /\ \E p, lo, w, l : ListInv(c, p, lo, w, l)

----------------------------------------------------------------------------
(* Types *)

\* The values of node.
Nodes == [Item -> [next : Pointer, prev : Pointer, claimed : BOOLEAN,
                   needrel : BOOLEAN, payload : Msg \cup {Null}]]

\* A store to one field of an item.
LEMMA NodeFields ==
    ASSUME node \in Nodes, NEW i \in Item, NEW x \in Pointer, NEW b \in BOOLEAN
    PROVE  /\ [node EXCEPT ![i].next = x] \in Nodes /\ [node EXCEPT ![i].prev = x] \in Nodes
           /\ [node EXCEPT ![i].claimed = b] \in Nodes /\ [node EXCEPT ![i].needrel = b] \in Nodes
  BY DEF Nodes

\* No step, not even of several consumers, breaks the types.
LEMMA TypeStep == TypeInv /\ [ManyNext]_vars => TypeInv'
  <1> SUFFICES ASSUME TypeInv, [ManyNext]_vars PROVE TypeInv'
    OBVIOUS
  <1> USE CacheAssumption, ThreadAssumption
  <1> USE DEF Step, Goto, Set, list, store, local, TypeInv, Thread, Pointer
  <1>1. ASSUME NEW t \in Producer, PutBegin(t) PROVE TypeInv'
    <2>1. TypeOK'
      BY <1>1 DEF PutBegin, Masked, TypeOK, InHand, PCs, InPut, Pointers, Known, Filled
    <2>2. Pointers'
      BY <1>1 DEF PutBegin, Masked, TypeOK, Pointers, Known, Filled, InHand, InPut
    <2>3. InHand'
      BY <1>1 DEF PutBegin, Masked, TypeOK, InHand, InPut, PCs
    <2> QED BY <2>1, <2>2, <2>3
  <1>2. ASSUME NEW t \in Producer, Pop(t) PROVE TypeInv'
    <2>1. TypeOK'
      BY <1>2 DEF Pop, Empty, TypeOK, InHand, PCs, InPut, Pointers, Known, Filled
    <2>2. Pointers'
      BY <1>2 DEF Pop, Empty, TypeOK, Pointers, Known, Filled, InHand, InPut
    <2>3. InHand'
      BY <1>2 DEF Pop, Empty, TypeOK, InHand, InPut, PCs
    <2> QED BY <2>1, <2>2, <2>3
  <1>3. ASSUME NEW t \in Producer, SwapPtr(t) PROVE TypeInv'
    <2>1. TypeOK'
      BY <1>3 DEF SwapPtr, TypeOK, InHand, PCs, InPut, Pointers, Known, Filled
    <2>2. Pointers'
      BY <1>3 DEF SwapPtr, TypeOK, Pointers, Known, Filled, InHand, InPut
    <2>3. InHand'
      BY <1>3 DEF SwapPtr, TypeOK, InHand, InPut, PCs
    <2> QED BY <2>1, <2>2, <2>3
  <1>4. ASSUME NEW t \in Producer, LinkNext(t) PROVE TypeInv'
    <2>1. TypeOK'
      <3>1. other[t] \in Pointer /\ cur[t] \in Item /\ node \in Nodes
        BY <1>4 DEF LinkNext, TypeOK, InHand, InPut, Nodes
      <3>2. node' \in Nodes
        BY <1>4, <3>1, NodeFields DEF LinkNext
      <3> QED BY <1>4, <3>1, <3>2 DEF LinkNext, TypeOK, PCs, Nodes
    <2>2. Pointers'
      BY <1>4 DEF LinkNext, TypeOK, Pointers, Known, Filled, InHand, InPut
    <2>3. InHand'
      BY <1>4 DEF LinkNext, TypeOK, InHand, InPut, PCs
    <2> QED BY <2>1, <2>2, <2>3
  <1>5. ASSUME NEW t \in Producer, LinkPrev(t) PROVE TypeInv'
    <2>1. TypeOK'
      <3>1. cur[t] \in Pointer /\ (other[t] # Null => other[t] \in Item) /\ node \in Nodes
        BY <1>5 DEF LinkPrev, TypeOK, InHand, InPut, Nodes
      <3>2. node' \in Nodes
        BY <1>5, <3>1, NodeFields DEF LinkPrev, LinkedBack
      <3> QED BY <1>5, <3>1, <3>2 DEF LinkPrev, TypeOK, PCs, Nodes, LstIfFirst
    <2>2. Pointers'
      BY <1>5 DEF LinkPrev, LstIfFirst, LinkedBack, TypeOK, Pointers, Known, Filled, InHand, InPut
    <2>3. InHand'
      BY <1>5 DEF LinkPrev, LstIfFirst, LinkedBack, TypeOK, InHand, InPut, PCs
    <2> QED BY <2>1, <2>2, <2>3
  <1>6. ASSUME NEW t \in Producer, Count(t) PROVE TypeInv'
    <2>1. TypeOK'
      BY <1>6 DEF Count, Return, TypeOK, InHand, PCs, InPut, Pointers, Known, Filled
    <2>2. Pointers'
      BY <1>6 DEF Count, Return, TypeOK, Pointers, Known, Filled, InHand, InPut
    <2>3. InHand'
      BY <1>6 DEF Count, Return, TypeOK, InHand, InPut, PCs
    <2> QED BY <2>1, <2>2, <2>3
  <1>7. ASSUME NEW t \in Consumer, GetBegin(t) PROVE TypeInv'
    <2>1. TypeOK'
      BY <1>7 DEF GetBegin, TypeOK, InHand, PCs, InPut, Pointers, Known, Filled
    <2>2. Pointers'
      BY <1>7 DEF GetBegin, TypeOK, Pointers, Known, Filled, InHand, InPut
    <2>3. InHand'
      BY <1>7 DEF GetBegin, TypeOK, InHand, InPut, PCs
    <2> QED BY <2>1, <2>2, <2>3
  <1>8. ASSUME NEW t \in Consumer, Check(t) PROVE TypeInv'
    <2>1. TypeOK'
      BY <1>8 DEF Check, TypeOK, InHand, PCs, InPut, Pointers, Known, Filled
    <2>2. Pointers'
      BY <1>8 DEF Check, TypeOK, Pointers, Known, Filled, InHand, InPut
    <2>3. InHand'
      BY <1>8 DEF Check, TypeOK, InHand, InPut, PCs
    <2> QED BY <2>1, <2>2, <2>3
  <1>9. ASSUME NEW t \in Consumer, Acquire(t) PROVE TypeInv'
    <2>1. TypeOK'
      BY <1>9 DEF Acquire, TypeOK, InHand, PCs, InPut, Pointers, Known, Filled
    <2>2. Pointers'
      BY <1>9 DEF Acquire, TypeOK, Pointers, Known, Filled, InHand, InPut
    <2>3. InHand'
      BY <1>9 DEF Acquire, TypeOK, InHand, InPut, PCs
    <2> QED BY <2>1, <2>2, <2>3
  <1>10. ASSUME NEW t \in Consumer, TailFirst(t) PROVE TypeInv'
    <2>1. TypeOK'
      BY <1>10 DEF TailFirst, TailAfter, TypeOK, InHand, PCs, InPut, Pointers, Known, Filled
    <2>2. Pointers'
      BY <1>10 DEF TailFirst, TailAfter, TypeOK, Pointers, Known, Filled, InHand, InPut
    <2>3. InHand'
      BY <1>10 DEF TailFirst, TailAfter, TypeOK, InHand, InPut, PCs
    <2> QED BY <2>1, <2>2, <2>3
  <1>11. ASSUME NEW t \in Consumer, Free(t) PROVE TypeInv'
    <2>1. TypeOK'
      BY <1>11 DEF Free, Masked, TypeOK, InHand, PCs, InPut, Pointers, Known, Filled
    <2>2. Pointers'
      BY <1>11 DEF Free, Masked, TypeOK, Pointers, Known, Filled, InHand, InPut
    <2>3. InHand'
      BY <1>11 DEF Free, Masked, TypeOK, InHand, InPut, PCs
    <2> QED BY <2>1, <2>2, <2>3
  <1>12. ASSUME NEW t \in Consumer, Push(t) PROVE TypeInv'
    <2>1. TypeOK'
      BY <1>12 DEF Push, TypeOK, InHand, PCs, InPut, Pointers, Known, Filled
    <2>2. Pointers'
      BY <1>12 DEF Push, TypeOK, Pointers, Known, Filled, InHand, InPut
    <2>3. InHand'
      BY <1>12 DEF Push, TypeOK, InHand, InPut, PCs
    <2> QED BY <2>1, <2>2, <2>3
  <1>13. ASSUME NEW t \in Consumer, TailDone(t) PROVE TypeInv'
    <2>1. TypeOK'
      <3>1. Null \in Pointer /\ cur[t] \in Item /\ node \in Nodes
        BY <1>13 DEF TailDone, TypeOK, InHand, InPut, Nodes
      <3>2. node' \in Nodes
        BY <1>13, <3>1, NodeFields DEF TailDone
      <3> QED BY <1>13, <3>1, <3>2 DEF TailDone, TypeOK, PCs, Nodes
    <2>2. Pointers'
      BY <1>13 DEF TailDone, TypeOK, Pointers, Known, Filled, InHand, InPut
    <2>3. InHand'
      BY <1>13 DEF TailDone, TypeOK, InHand, InPut, PCs
    <2> QED BY <2>1, <2>2, <2>3
  <1>14. ASSUME NEW t \in Consumer, Unlock(t) PROVE TypeInv'
    <2>1. TypeOK'
      BY <1>14 DEF Unlock, TypeOK, InHand, PCs, InPut, Pointers, Known, Filled
    <2>2. Pointers'
      BY <1>14 DEF Unlock, TypeOK, Pointers, Known, Filled, InHand, InPut
    <2>3. InHand'
      BY <1>14 DEF Unlock, TypeOK, InHand, InPut, PCs
    <2> QED BY <2>1, <2>2, <2>3
  <1>15. ASSUME NEW t \in Consumer, Recheck(t) PROVE TypeInv'
    <2>1. TypeOK'
      BY <1>15 DEF Recheck, TypeOK, InHand, PCs, InPut, Pointers, Known, Filled
    <2>2. Pointers'
      BY <1>15 DEF Recheck, TypeOK, Pointers, Known, Filled, InHand, InPut
    <2>3. InHand'
      BY <1>15 DEF Recheck, TypeOK, InHand, InPut, PCs
    <2> QED BY <2>1, <2>2, <2>3
  <1>16. ASSUME NEW t \in Consumer, Advance(t) PROVE TypeInv'
    <2>1. TypeOK'
      <3>1. node[cur[t]].prev \in Pointer
        BY <1>16 DEF Advance, TypeOK, InHand, InPut
      <3>2. CASE node[cur[t]].prev = Null
        <4>1. Return(t, "advance") /\ UNCHANGED <<list, store, todo, order, got>>
          BY <1>16, <3>2 DEF Advance
        <4> QED BY <4>1 DEF Return, TypeOK, PCs
      <3>3. CASE node[cur[t]].prev # Null
        BY <1>16, <3>1, <3>3 DEF Advance, TypeOK, PCs
      <3> QED BY <3>2, <3>3
    <2>2. Pointers'
      BY <1>16, SMTT(20) DEF Advance, Return, TypeOK, Pointers, Known, Filled, InHand, InPut
    <2>3. InHand'
      BY <1>16 DEF Advance, Return, TypeOK, InHand, InPut, PCs
    <2> QED BY <2>1, <2>2, <2>3
  <1>17. ASSUME NEW t \in Consumer, Swing(t) PROVE TypeInv'
    <2>1. TypeOK'
      BY <1>17 DEF Swing, LstAfter, TypeOK, InHand, PCs, InPut, Pointers, Known, Filled
    <2>2. Pointers'
      BY <1>17 DEF Swing, LstAfter, TypeOK, Pointers, Known, Filled, InHand, InPut
    <2>3. InHand'
      BY <1>17 DEF Swing, LstAfter, TypeOK, InHand, InPut, PCs
    <2> QED BY <2>1, <2>2, <2>3
  <1>18. ASSUME NEW t \in Consumer, Claim(t) PROVE TypeInv'
    <2>1. TypeOK'
      <3>1. TRUE \in BOOLEAN /\ cur[t] \in Item /\ node \in Nodes
        BY <1>18 DEF Claim, TypeOK, InHand, InPut, Nodes
      <3>2. node' \in Nodes
        BY <1>18, <3>1, NodeFields DEF Claim
      <3> QED BY <1>18, <3>1, <3>2 DEF Claim, TypeOK, PCs, Nodes
    <2>2. Pointers'
      BY <1>18 DEF Claim, TypeOK, Pointers, Known, Filled, InHand, InPut
    <2>3. InHand'
      BY <1>18 DEF Claim, TypeOK, InHand, InPut, PCs
    <2> QED BY <2>1, <2>2, <2>3
  <1>19. ASSUME NEW t \in Consumer, CountOut(t) PROVE TypeInv'
    <2>1. TypeOK'
      BY <1>19 DEF CountOut, TypeOK, InHand, PCs, InPut, Pointers, Known, Filled
    <2>2. Pointers'
      BY <1>19 DEF CountOut, TypeOK, Pointers, Known, Filled, InHand, InPut
    <2>3. InHand'
      BY <1>19 DEF CountOut, TypeOK, InHand, InPut, PCs
    <2> QED BY <2>1, <2>2, <2>3
  <1>20. ASSUME NEW t \in Consumer, LastOne(t) PROVE TypeInv'
    <2>1. TypeOK'
      BY <1>20 DEF LastOne, TypeOK, InHand, PCs, InPut, Pointers, Known, Filled
    <2>2. Pointers'
      BY <1>20 DEF LastOne, TypeOK, Pointers, Known, Filled, InHand, InPut
    <2>3. InHand'
      BY <1>20 DEF LastOne, TypeOK, InHand, InPut, PCs
    <2> QED BY <2>1, <2>2, <2>3
  <1>21. ASSUME NEW t \in Consumer, LastSwing(t) PROVE TypeInv'
    <2>1. TypeOK'
      BY <1>21 DEF LastSwing, LstAfter, TypeOK, InHand, PCs, InPut, Pointers, Known, Filled
    <2>2. Pointers'
      BY <1>21 DEF LastSwing, LstAfter, TypeOK, Pointers, Known, Filled, InHand, InPut
    <2>3. InHand'
      BY <1>21 DEF LastSwing, LstAfter, TypeOK, InHand, InPut, PCs
    <2> QED BY <2>1, <2>2, <2>3
  <1>22. ASSUME NEW t \in Consumer, Copy(t) PROVE TypeInv'
    <2>1. TypeOK'
      BY <1>22 DEF Copy, TypeOK, InHand, PCs, InPut, Pointers, Known, Filled
    <2>2. Pointers'
      BY <1>22 DEF Copy, TypeOK, Pointers, Known, Filled, InHand, InPut
    <2>3. InHand'
      BY <1>22 DEF Copy, TypeOK, InHand, InPut, PCs
    <2> QED BY <2>1, <2>2, <2>3
  <1>23. ASSUME NEW t \in Consumer, Release(t) PROVE TypeInv'
    <2>1. TypeOK'
      <3>1. TRUE \in BOOLEAN /\ cur[t] \in Item /\ node \in Nodes
        BY <1>23 DEF Release, Return, TypeOK, InHand, InPut, Nodes
      <3>2. node' \in Nodes
        BY <1>23, <3>1, NodeFields DEF Release
      <3> QED BY <1>23, <3>1, <3>2 DEF Release, TypeOK, PCs, Nodes, Return
    <2>2. Pointers'
      BY <1>23 DEF Release, Return, TypeOK, Pointers, Known, Filled, InHand, InPut
    <2>3. InHand'
      BY <1>23 DEF Release, Return, TypeOK, InHand, InPut, PCs
    <2> QED BY <2>1, <2>2, <2>3
  <1>24. ASSUME NEW t \in Consumer, Onward(t) PROVE TypeInv'
    <2>1. node[cur[t]].prev \in Pointer /\ node[cur[t]].prev \in Known /\ pc[t] = "onward"
      BY <1>24 DEF Onward, TypeOK, InHand, InPut, Pointers
    <2>2. CASE node[cur[t]].prev = Null
      <3>1. Return(t, "onward") /\ UNCHANGED <<list, store, todo, order, got>>
        BY <1>24, <2>2 DEF Onward
      <3>2. TypeOK'
        BY <3>1 DEF Return, TypeOK, PCs
      <3>3. Pointers'
        BY <3>1 DEF Return, TypeOK, Pointers, Known, Filled
      <3>4. InHand'
        BY <3>1 DEF Return, TypeOK, InHand, InPut, PCs
      <3> QED BY <3>2, <3>3, <3>4
    <2>3. CASE node[cur[t]].prev # Null
      <3>1. /\ pc' = [pc EXCEPT ![t] = "claim"] /\ cur' = [cur EXCEPT ![t] = node[cur[t]].prev]
            /\ first' = [first EXCEPT ![t] = FALSE]
            /\ UNCHANGED <<list, store, todo, other, walk, slot, order, got>>
        BY <1>24, <2>3 DEF Onward
      <3>2. TypeOK'
        BY <2>1, <3>1 DEF TypeOK, PCs
      <3>3. Pointers'
        BY <2>1, <3>1 DEF TypeOK, Pointers, Known, Filled
      <3>4. InHand'
        BY <2>3, <3>1 DEF TypeOK, InHand, InPut, PCs
      <3> QED BY <3>2, <3>3, <3>4
    <2> QED BY <2>2, <2>3
  <1>25. CASE UNCHANGED vars
    BY <1>25 DEF vars, TypeOK, Pointers, Known, Filled, InHand, InPut
  <1> QED BY <1>1, <1>2, <1>3, <1>4, <1>5, <1>6, <1>7, <1>8, <1>9, <1>10, <1>11, <1>12, <1>13, <1>14, <1>15, <1>16, <1>17, <1>18, <1>19, <1>20, <1>21, <1>22, <1>23, <1>24, <1>25 DEF ManyNext, Next, Put, Get

\* The types that a step needs.
LEMMA NodeTypes ==
    ASSUME TypeInv
    PROVE  /\ node \in Nodes /\ Null \notin Item
           /\ pc \in [Thread -> PCs] /\ cur \in [Thread -> Pointer] /\ other \in [Thread -> Pointer]
           /\ walk \in [Thread -> Pointer] /\ first \in [Thread -> BOOLEAN]
           /\ todo \in [Producer -> Seq(Msg)] /\ got \in Seq(Msg) /\ order \in Seq(Msg)
           /\ cache \in [0..CacheSize-1 -> Pointer] /\ slot \in [Thread -> 0..CacheSize-1]
           /\ free \subseteq Item
  BY CacheAssumption DEF TypeInv, TypeOK, Nodes

\* What the invariant says of numbers and items.
Grounds(c, p, lo, w, l) ==
    /\ p \in Seq(Item) /\ Len(p) \in Nat /\ Len(p) = Len(order)
    /\ \A i \in 1..Len(p) : p[i] \in Item /\ p[i] # Null
    /\ lo \in Nat \ {0} /\ w \in Nat /\ l \in Nat
    /\ lo <= l /\ lo <= w + 1 /\ w < l /\ (l = 1 \/ l <= Len(p))
    /\ Len(got) \in Nat /\ c \in Consumer /\ c \in Thread /\ c \notin Producer

LEMMA Ground ==
    ASSUME TypeInv, NEW c, Consumer = {c}, NEW p, NEW lo, NEW w, NEW l, ListInv(c, p, lo, w, l)
    PROVE  Grounds(c, p, lo, w, l)
  <1>1. p \in Seq(Item) /\ Len(p) = Len(order)
    BY DEF ListInv, Shape
  <1>2. \A i \in 1..Len(p) : p[i] \in Item /\ p[i] # Null
    BY <1>1, CacheAssumption
  <1>3. got \in Seq(Msg) /\ order \in Seq(Msg)
    BY DEF TypeInv, TypeOK
  <1>4. c \in Consumer /\ c \in Thread /\ c \notin Producer
    BY ThreadAssumption DEF Thread
  <1> QED BY <1>1, <1>2, <1>3, <1>4 DEF ListInv, Shape, Grounds

----------------------------------------------------------------------------
(* The consumer *)

\* Nothing that a producer has changes.
SameProducers ==
    /\ \A t \in Producer : pc'[t] = pc[t] /\ cur'[t] = cur[t] /\ other'[t] = other[t]
    /\ UNCHANGED <<todo, order>>

\* A get leaves the producers, and ptr, alone ...
LEMMA GetFrame ==
    ASSUME TypeInv, NEW t \in Consumer, GetBegin(t) \/ Get(t)
    PROVE  SameProducers /\ UNCHANGED ptr /\ \A u \in Producer : u # t
  <1>1. \A u \in Producer : u # t
    BY ThreadAssumption
  <1>2. /\ pc \in [Thread -> PCs] /\ cur \in [Thread -> Pointer] /\ other \in [Thread -> Pointer]
        /\ Producer \subseteq Thread /\ t \in Thread
    BY DEF TypeInv, TypeOK, Thread
  <1> USE DEF Step, Goto, Set, list, store, local, Return, SameProducers
  <1>3. CASE GetBegin(t) \/ Check(t) \/ Acquire(t) \/ TailFirst(t) \/ Free(t) \/ Push(t)
    BY <1>1, <1>2, <1>3 DEF GetBegin, Check, Acquire, TailFirst, Free, Push
  <1>4. CASE TailDone(t) \/ Unlock(t) \/ Recheck(t) \/ Advance(t)
    BY <1>1, <1>2, <1>4 DEF TailDone, Unlock, Recheck, Advance
  <1>5. CASE Swing(t) \/ Claim(t) \/ CountOut(t) \/ LastOne(t) \/ LastSwing(t)
    BY <1>1, <1>2, <1>5 DEF Swing, Claim, CountOut, LastOne, LastSwing
  <1>6. CASE Copy(t) \/ Release(t)
    BY <1>1, <1>2, <1>6 DEF Copy, Release
  <1> QED BY <1>3, <1>4, <1>5, <1>6 DEF Get

\* ... so that no link is made.
LEMMA LinkedSame ==
    ASSUME Mine, SameProducers
    PROVE  Mine' /\ \A p, i : Linked(p, i)' <=> Linked(p, i)
  <1>1. ASSUME NEW t \in Producer, NEW u \in Producer,
               pc'[t] \in {"swap", "next", "prev"}, pc'[u] \in {"swap", "next", "prev"}, cur'[t] = cur'[u]
        PROVE  t = u
    BY <1>1 DEF SameProducers, Mine
  <1>2. ASSUME NEW p, NEW i PROVE Linked(p, i)' <=> Linked(p, i)
    BY DEF SameProducers, Linked, Linking
  <1>3. Mine'
    BY <1>1 DEF Mine
  <1> QED BY <1>2, <1>3

\* Steps that change no item, but what the consumer has in hand.
LEMMA QuietGet ==
    ASSUME TypeInv, Stored, Mine, SameProducers, UNCHANGED <<node, ptr, lst, cache, free, got>>,
           NEW c, Consumer = {c}, NEW p, NEW lo, NEW w, NEW l, ListInv(c, p, lo, w, l),
           Taken(c)' = Taken(c), Released(c)' = Released(c), Taking(c, p, lo, w, l)'
    PROVE  Stored' /\ Mine' /\ ListInv(c, p, lo, w, l)'
  <1>1. Mine' /\ \A i : Linked(p, i)' <=> Linked(p, i)
    BY LinkedSame
  <1>2. Stored' /\ Spare' = Spare
    BY DEF Stored, Spare, Cached
  <1>3. order' = order /\ todo' = todo
    BY DEF SameProducers
  <1>4. Shape(p, lo, w, l)' /\ Ends(p, l)' /\ Newer(p, l)'
    BY <1>1, <1>3 DEF ListInv, Shape, Ends, Newer
  <1>5. Apart(p, lo, w, l)'
    BY <1>2 DEF ListInv, Apart, Listed
  <1>6. Older(p, lo, w, l)'
    BY DEF ListInv, Older, Listed, SameProducers
  <1>7. Marks(c, p, lo, w, l)'
    BY <1>3 DEF ListInv, Marks, Listed
  <1>8. ASSUME NEW t \in Producer PROVE Putting(t, p, lo, w, l)'
    <2>1. pc'[t] = pc[t] /\ cur'[t] = cur[t] /\ other'[t] = other[t]
      BY DEF SameProducers
    <2> QED BY <1>2, <1>3, <2>1 DEF ListInv, Putting, Listed, Linking
  <1> QED BY <1>1, <1>2, <1>4, <1>5, <1>6, <1>7, <1>8 DEF ListInv

\* What the consumer finds at lst, and at the next item to go.
LEMMA Here ==
    ASSUME TypeInv, NEW c, Consumer = {c}, NEW p, NEW lo, NEW w, NEW l, ListInv(c, p, lo, w, l)
    PROVE  /\ lst # Null => l \in 1..Len(p) /\ Linked(p, l) /\ lst = p[l]
           /\ \A i \in Listed(p, lo, w, l) : i < l => Linked(p, i)
           /\ pc[c] \in AtOld \cup AtNew \cup AtEither =>
                 /\ cur[c] = p[l] /\ l \in 1..Len(p) /\ Linked(p, l)
                 /\ node[p[l]].needrel <=> l <= Len(got)
                 /\ node[p[l]].claimed <=> l <= Taken(c)
                 /\ node[p[l]].prev # Null =>
                       l + 1 <= Len(p) /\ Linked(p, l + 1) /\ node[p[l]].prev = p[l + 1]
                 /\ w = l - 1 => node[p[l]].next = IF w < lo THEN Null ELSE p[w]
           /\ lo <= w => node[p[w]].next = IF w = lo THEN Null ELSE p[w - 1]
  <1>1. /\ Len(p) \in Nat /\ Len(p) = Len(order) /\ \A i \in 1..Len(p) : p[i] \in Item /\ p[i] # Null
        /\ lo \in Nat \ {0} /\ w \in Nat /\ l \in Nat /\ lo <= l /\ lo <= w + 1 /\ w < l
        /\ Len(got) \in Nat /\ c \in Consumer /\ c \in Thread
    <2>1. Grounds(c, p, lo, w, l)
      BY Ground
    <2> QED BY <2>1 DEF Grounds
  <1>2. \A i : i \in Listed(p, lo, w, l) <=> i \in 1..Len(p) /\ ((lo <= i /\ i <= w) \/ l <= i)
    BY DEF Listed
  <1>3. lst # Null => l \in 1..Len(p) /\ Linked(p, l) /\ lst = p[l]
    BY <1>1 DEF ListInv, Ends
  <1>4. ASSUME NEW i \in Listed(p, lo, w, l), i < l PROVE Linked(p, i)
    <2>1. ASSUME NEW t \in Producer, Linking(t), cur[t] = p[i] PROVE FALSE
      <3>1. PICK k \in 1..Len(p) : l <= k /\ cur[t] = p[k]
        BY <2>1 DEF ListInv, Putting
      <3>2. k \in Listed(p, lo, w, l) /\ k # i
        BY <1>1, <1>2, <1>4, <3>1
      <3> QED BY <2>1, <3>1, <3>2 DEF ListInv, Apart
    <2> QED BY <2>1 DEF Linked
  <1>5. ASSUME pc[c] \in AtOld \cup AtNew \cup AtEither
        PROVE  cur[c] = p[l] /\ l \in 1..Len(p) /\ Linked(p, l) /\ l \in Listed(p, lo, w, l)
    <2>1. l <= Len(p) /\ Linked(p, l) /\ cur[c] = p[l]
      BY <1>5 DEF ListInv, Taking
    <2> QED BY <1>1, <1>2, <2>1
  <1>6. ASSUME NEW i \in Listed(p, lo, w, l), Linked(p, i), i = lo \/ i - 1 \in Listed(p, lo, w, l)
        PROVE  node[p[i]].next = IF i = lo THEN Null ELSE p[i - 1]
    <2>1. ~\E t \in Producer : pc[t] = "next" /\ cur[t] = p[i]
      BY <1>6 DEF Linked, Linking
    <2> QED BY <1>6, <2>1 DEF ListInv, Older
  <1>7. ASSUME pc[c] \in AtOld \cup AtNew \cup AtEither
        PROVE  /\ node[p[l]].needrel <=> l <= Len(got)
               /\ node[p[l]].claimed <=> l <= Taken(c)
    <2>1. Released(c) = Len(got)
      BY <1>1, <1>7 DEF Released, AtOld, AtNew, AtEither
    <2> QED BY <1>5, <1>7, <2>1 DEF ListInv, Marks
  <1>8. ASSUME pc[c] \in AtOld \cup AtNew \cup AtEither, node[p[l]].prev # Null
        PROVE  l + 1 <= Len(p) /\ Linked(p, l + 1) /\ node[p[l]].prev = p[l + 1]
    BY <1>1, <1>5, <1>8 DEF ListInv, Newer
  <1>9. ASSUME pc[c] \in AtOld \cup AtNew \cup AtEither, w = l - 1
        PROVE  node[p[l]].next = IF w < lo THEN Null ELSE p[w]
    <2>1. l \in Listed(p, lo, w, l) /\ Linked(p, l)
      BY <1>5, <1>9
    <2>2. l = lo \/ l - 1 \in Listed(p, lo, w, l)
      BY <1>1, <1>2, <1>9, <2>1
    <2>3. node[p[l]].next = IF l = lo THEN Null ELSE p[l - 1]
      BY <1>6, <2>1, <2>2
    <2> QED BY <1>1, <1>9, <2>3
  <1>10. ASSUME lo <= w PROVE node[p[w]].next = IF w = lo THEN Null ELSE p[w - 1]
    <2>1. w \in 1..Len(p)
      <3>1. l = 1 \/ l <= Len(p)
        BY DEF ListInv, Shape
      <3> QED BY <1>1, <1>10, <3>1
    <2>2. w \in Listed(p, lo, w, l) /\ (w = lo \/ w - 1 \in Listed(p, lo, w, l))
      BY <1>1, <1>2, <1>10, <2>1
    <2>3. Linked(p, w)
      BY <1>1, <1>4, <2>2
    <2> QED BY <1>6, <2>2, <2>3
  <1> QED BY <1>3, <1>4, <1>5, <1>7, <1>8, <1>9, <1>10

\* What the steps that only read do to the consumer.
LEMMA QuietSteps ==
    ASSUME TypeInv, Mine, NEW c, Consumer = {c}, NEW p, NEW lo, NEW w, NEW l, ListInv(c, p, lo, w, l),
           \/ GetBegin(c) \/ Check(c) \/ Acquire(c) \/ TailFirst(c) \/ Free(c) \/ Unlock(c)
           \/ Recheck(c) \/ Advance(c) \/ CountOut(c) \/ LastOne(c)
    PROVE  /\ UNCHANGED <<node, ptr, lst, cache, free, got>>
           /\ Taken(c)' = Taken(c) /\ Released(c)' = Released(c)
           /\ Taking(c, p, lo, w, l)'
  <1> DEFINE Same == UNCHANGED <<node, ptr, lst, cache, free, got, order>>
             Counts == Taken(c)' = Taken(c) /\ Released(c)' = Released(c)
  <1>1. /\ pc \in [Thread -> PCs] /\ cur \in [Thread -> Pointer] /\ other \in [Thread -> Pointer]
        /\ walk \in [Thread -> Pointer] /\ first \in [Thread -> BOOLEAN]
        /\ node \in [Item -> [next : Pointer, prev : Pointer, claimed : BOOLEAN,
                              needrel : BOOLEAN, payload : Msg \cup {Null}]]
    BY DEF TypeInv, TypeOK
  <1>2. /\ Len(p) \in Nat /\ Len(p) = Len(order) /\ \A i \in 1..Len(p) : p[i] \in Item /\ p[i] # Null
        /\ lo \in Nat \ {0} /\ w \in Nat /\ l \in Nat /\ lo <= l /\ lo <= w + 1 /\ w < l
        /\ Len(got) \in Nat /\ c \in Consumer /\ c \in Thread
    <2>1. Grounds(c, p, lo, w, l)
      BY Ground
    <2> QED BY <2>1 DEF Grounds
  <1>a. \A i : i \in Listed(p, lo, w, l) <=> i \in 1..Len(p) /\ ((lo <= i /\ i <= w) \/ l <= i)
    BY DEF Listed
  <1>3. Taking(c, p, lo, w, l)
    BY DEF ListInv
  <1>b. /\ lst # Null => l \in 1..Len(p) /\ Linked(p, l) /\ lst = p[l]
        /\ pc[c] \in AtOld \cup AtNew \cup AtEither =>
              /\ cur[c] = p[l] /\ l \in 1..Len(p)
              /\ node[p[l]].needrel <=> l <= Len(got)
              /\ node[p[l]].prev # Null =>
                    l + 1 <= Len(p) /\ Linked(p, l + 1) /\ node[p[l]].prev = p[l + 1]
              /\ w = l - 1 => node[p[l]].next = IF w < lo THEN Null ELSE p[w]
        /\ lo <= w => node[p[w]].next = IF w = lo THEN Null ELSE p[w - 1]
    BY Here
  <1>4. \A i : Linked(p, i)' <=> Linked(p, i)
    BY GetFrame, LinkedSame, <1>2 DEF Get
  <1>5. CASE GetBegin(c)
    <2>1. /\ Same
          /\ pc[c] = "idle" /\ pc'[c] = "check" /\ lst # Null
          /\ cur'[c] = lst /\ other'[c] = other[c] /\ walk'[c] = walk[c] /\ first'[c] = first[c] /\ doingrel' = doingrel
      BY <1>1, <1>2, <1>5 DEF GetBegin, Step, Goto, Set, list, store, local
    <2>2. Counts
      BY <2>1 DEF Taken, Released
    <2>3. Taking(c, p, lo, w, l)'
      BY <1>2, <1>3, <1>4, <1>b, <2>1 DEF Taking, AtOld, AtNew, AtEither
    <2> QED BY <2>1, <2>2, <2>3
  <1>6. CASE Check(c)
    <2>1. /\ Same
          /\ pc[c] = "check" /\ pc'[c] = IF node[cur[c]].needrel THEN "acquire" ELSE "recheck"
          /\ cur'[c] = cur[c] /\ other'[c] = other[c] /\ walk'[c] = walk[c] /\ first'[c] = first[c] /\ doingrel' = doingrel
      BY <1>1, <1>2, <1>6 DEF Check, Step, Goto, Set, list, store, local
    <2>2. Counts
      BY <2>1 DEF Taken, Released
    <2>3. Taking(c, p, lo, w, l)'
      BY <1>2, <1>3, <1>4, <1>b, <2>1 DEF Taking, AtOld, AtNew, AtEither
    <2> QED BY <2>1, <2>2, <2>3
  <1>7. CASE Acquire(c)
    <2>1. /\ Same
          /\ pc[c] = "acquire" /\ pc'[c] = IF doingrel THEN "recheck" ELSE "tail"
          /\ cur'[c] = cur[c] /\ other'[c] = other[c] /\ walk'[c] = walk[c] /\ first'[c] = first[c] /\ doingrel' = TRUE
      BY <1>1, <1>2, <1>7 DEF Acquire, Step, Goto, Set, list, store, local
    <2>2. Counts
      BY <2>1 DEF Taken, Released
    <2>3. Taking(c, p, lo, w, l)'
      BY <1>2, <1>3, <1>4, <1>b, <2>1 DEF Taking, AtOld, AtNew, AtEither
    <2> QED BY <2>1, <2>2, <2>3
  <1>8. CASE TailFirst(c)
    <2>1. /\ Same
          /\ pc[c] = "tail" /\ pc'[c] = "free"
          /\ cur'[c] = cur[c] /\ other'[c] = other[c] /\ walk'[c] = node[cur[c]].next /\ first'[c] = first[c] /\ doingrel' = doingrel
      BY <1>1, <1>2, <1>8 DEF TailFirst, TailAfter, Step, Goto, Set, list, store, local
    <2>2. Counts
      BY <2>1 DEF Taken, Released
    <2>3. Taking(c, p, lo, w, l)'
      BY <1>2, <1>3, <1>4, <1>b, <2>1 DEF Taking, AtOld, AtNew, AtEither
    <2> QED BY <2>1, <2>2, <2>3
  <1>9. CASE Free(c)
    <2>1. /\ Same
          /\ pc[c] = "free" /\ pc'[c] = "push" /\ walk[c] # Null
          /\ cur'[c] = cur[c] /\ other'[c] = node[walk[c]].next /\ walk'[c] = walk[c] /\ first'[c] = first[c] /\ doingrel' = doingrel
      BY <1>1, <1>2, <1>9 DEF Free, Step, Goto, Set, list, store, local
    <2>2. Counts
      BY <2>1 DEF Taken, Released
    <2>3. Taking(c, p, lo, w, l)'
      BY <1>2, <1>3, <1>4, <1>b, <2>1 DEF Taking, AtOld, AtNew, AtEither
    <2> QED BY <2>1, <2>2, <2>3
  <1>10. CASE Unlock(c)
    <2>1. /\ Same
          /\ pc[c] = "unlock" /\ pc'[c] = "recheck"
          /\ cur'[c] = cur[c] /\ other'[c] = other[c] /\ walk'[c] = walk[c] /\ first'[c] = first[c] /\ doingrel' = FALSE
      BY <1>1, <1>2, <1>10 DEF Unlock, Step, Goto, Set, list, store, local
    <2>2. Counts
      BY <2>1 DEF Taken, Released
    <2>3. Taking(c, p, lo, w, l)'
      BY <1>2, <1>3, <1>4, <1>b, <2>1 DEF Taking, AtOld, AtNew, AtEither
    <2> QED BY <2>1, <2>2, <2>3
  <1>11. CASE Recheck(c)
    <2>1. /\ Same
          /\ pc[c] = "recheck" /\ pc'[c] = IF node[cur[c]].needrel THEN "advance" ELSE "claim"
          /\ cur'[c] = cur[c] /\ other'[c] = other[c] /\ walk'[c] = walk[c] /\ first'[c] = first[c] /\ doingrel' = doingrel
      BY <1>1, <1>2, <1>11 DEF Recheck, Step, Goto, Set, list, store, local
    <2>2. Counts
      BY <2>1 DEF Taken, Released
    <2>3. Taking(c, p, lo, w, l)'
      BY <1>2, <1>3, <1>4, <1>b, <2>1 DEF Taking, AtOld, AtNew, AtEither
    <2> QED BY <2>1, <2>2, <2>3
  <1>12. CASE Advance(c)
    <2>1. Same /\ doingrel' = doingrel /\ pc[c] = "advance"
      BY <1>12 DEF Advance, Step, Goto, Set, list, store, local
    <2>2. CASE node[cur[c]].prev = Null
      <3>1. pc'[c] = "idle" /\ cur'[c] = Null /\ first'[c]
        BY <1>1, <1>2, <1>12, <2>2 DEF Advance, Return, Step, Goto, Set
      <3>2. Counts
        BY <2>1, <3>1 DEF Taken, Released
      <3>3. Taking(c, p, lo, w, l)'
        BY <1>2, <1>3, <1>4, <1>b, <2>1, <3>1 DEF Taking, AtOld, AtNew, AtEither
      <3> QED BY <2>1, <3>2, <3>3
    <2>3. CASE node[cur[c]].prev # Null
      <3>1. pc'[c] = "swing" /\ other'[c] = node[cur[c]].prev /\ cur'[c] = cur[c] /\ first'[c] = first[c]
        BY <1>1, <1>2, <1>12, <2>3 DEF Advance, Goto, Set
      <3>2. Counts
        BY <2>1, <3>1 DEF Taken, Released
      <3>3. other'[c] = p[l + 1] /\ l + 1 <= Len(p) /\ Linked(p, l + 1)
        BY <1>b, <2>1, <2>3, <3>1 DEF AtOld
      <3>4. Taking(c, p, lo, w, l)'
        BY <1>2, <1>3, <1>4, <2>1, <3>1, <3>3 DEF Taking, AtOld, AtNew, AtEither
      <3> QED BY <2>1, <3>2, <3>4
    <2> QED BY <2>2, <2>3
  <1>13. CASE CountOut(c)
    <2>1. /\ Same
          /\ pc[c] = "countout" /\ pc'[c] = IF first[c] THEN "last" ELSE "copy"
          /\ cur'[c] = cur[c] /\ other'[c] = other[c] /\ walk'[c] = walk[c] /\ first'[c] = first[c] /\ doingrel' = doingrel
      BY <1>1, <1>2, <1>13 DEF CountOut, Step, Goto, Set, list, store, local
    <2>2. Counts
      BY <2>1 DEF Taken, Released
    <2>3. Taking(c, p, lo, w, l)'
      BY <1>2, <1>3, <1>4, <1>b, <2>1 DEF Taking, AtOld, AtNew, AtEither
    <2> QED BY <2>1, <2>2, <2>3
  <1>14. CASE LastOne(c)
    <2>1. /\ Same
          /\ pc[c] = "last" /\ pc'[c] = IF node[cur[c]].prev = Null THEN "copy" ELSE "lastswing"
          /\ cur'[c] = cur[c] /\ other'[c] = node[cur[c]].prev /\ walk'[c] = walk[c] /\ first'[c] = first[c] /\ doingrel' = doingrel
      BY <1>1, <1>2, <1>14 DEF LastOne, Step, Goto, Set, list, store, local
    <2>2. Counts
      BY <2>1 DEF Taken, Released
    <2>3. Taking(c, p, lo, w, l)'
      <3>1. CASE node[cur[c]].prev = Null
        BY <1>2, <1>3, <1>4, <1>b, <2>1, <3>1 DEF Taking, Listed, AtOld, AtNew, AtEither
      <3>2. CASE node[cur[c]].prev # Null
        <4>1. other'[c] = p[l + 1] /\ l + 1 <= Len(p) /\ Linked(p, l + 1) /\ pc'[c] = "lastswing"
          BY <1>b, <2>1, <3>2 DEF AtNew
        <4> QED BY <1>2, <1>3, <1>4, <2>1, <4>1 DEF Taking, AtOld, AtNew, AtEither
      <3> QED BY <3>1, <3>2
    <2> QED BY <2>1, <2>2, <2>3
  <1> QED BY <1>5, <1>6, <1>7, <1>8, <1>9, <1>10, <1>11, <1>12, <1>13, <1>14

\* lst moves on to the next item.
LEMMA LstMoves ==
    ASSUME TypeInv, Stored, Mine, SameProducers, UNCHANGED <<node, ptr, cache, free, got>>,
           NEW c, Consumer = {c}, NEW p, NEW lo, NEW w, NEW l, ListInv(c, p, lo, w, l),
           w = l - 1, l + 1 <= Len(p), Linked(p, l), Linked(p, l + 1), lst' = p[l + 1],
           Taken(c)' = Taken(c), Released(c)' = Released(c), Taking(c, p, lo, l, l + 1)'
    PROVE  Stored' /\ Mine' /\ ListInv(c, p, lo, l, l + 1)'
  <1>1. Mine' /\ \A i : Linked(p, i)' <=> Linked(p, i)
    BY LinkedSame
  <1>2. Stored' /\ Spare' = Spare
    BY DEF Stored, Spare, Cached
  <1>3. order' = order /\ todo' = todo
    BY DEF SameProducers
  <1>4. /\ Len(p) \in Nat /\ Len(p) = Len(order) /\ p \in Seq(Item)
        /\ lo \in Nat \ {0} /\ l \in Nat /\ lo <= l /\ w \in Nat
    <2>1. Grounds(c, p, lo, w, l)
      BY Ground
    <2> QED BY <2>1 DEF Grounds
  <1>5. Listed(p, lo, l, l + 1) = Listed(p, lo, w, l)
    BY <1>4 DEF Listed
  <1>6. Shape(p, lo, l, l + 1)' /\ Ends(p, l + 1)'
    <2>1. ptr = IF p = <<>> THEN Null ELSE p[Len(p)]
      BY DEF ListInv, Ends
    <2> QED BY <1>1, <1>3, <1>4, <2>1 DEF Shape, Ends
  <1>7. Newer(p, l + 1)'
    BY <1>1, <1>4 DEF ListInv, Newer
  <1>8. Apart(p, lo, l, l + 1)'
    BY <1>2, <1>5 DEF ListInv, Apart
  <1>9. Older(p, lo, l, l + 1)'
    BY <1>5 DEF ListInv, Older, SameProducers
  <1>10. Marks(c, p, lo, l, l + 1)'
    BY <1>3, <1>5 DEF ListInv, Marks
  <1>11. ASSUME NEW t \in Producer PROVE Putting(t, p, lo, l, l + 1)'
    <2>1. pc'[t] = pc[t] /\ cur'[t] = cur[t] /\ other'[t] = other[t]
      BY DEF SameProducers
    <2>2. Putting(t, p, lo, w, l)
      BY DEF ListInv
    <2>3. ASSUME Linking(t), NEW k \in 1..Len(p), l <= k, cur[t] = p[k] PROVE k > l + 1 /\ l + 1 <= k
      <3>1. k # l /\ k # l + 1
        BY <2>3 DEF Linked
      <3> QED BY <1>4, <2>3, <3>1
    <2>4. Linking(t)' => \E k \in 1..Len(p) :
             /\ k = 1 \/ k > l + 1
             /\ l + 1 <= k /\ cur'[t] = p[k]
             /\ other'[t] = IF k = 1 THEN Null ELSE p[k - 1]
             /\ pc'[t] = "next" => node'[p[k]].next = Null
      BY <2>1, <2>2, <2>3 DEF Putting, Linking
    <2> QED BY <1>2, <1>3, <1>5, <2>1, <2>2, <2>4 DEF Putting
  <1> QED BY <1>1, <1>2, <1>6, <1>7, <1>8, <1>9, <1>10, <1>11 DEF ListInv

\* The step that moves it: lst is still what the consumer found.
LEMMA LstSteps ==
    ASSUME TypeInv, Mine, NEW c, Consumer = {c}, NEW p, NEW lo, NEW w, NEW l,
           ListInv(c, p, lo, w, l), Swing(c) \/ LastSwing(c)
    PROVE  /\ UNCHANGED <<node, ptr, cache, free, got>>
           /\ w = l - 1 /\ l + 1 <= Len(p) /\ Linked(p, l) /\ Linked(p, l + 1) /\ lst' = p[l + 1]
           /\ Taken(c)' = Taken(c) /\ Released(c)' = Released(c) /\ Taking(c, p, lo, l, l + 1)'
  <1>1. /\ Len(p) \in Nat /\ Len(p) = Len(order) /\ lo \in Nat \ {0} /\ l \in Nat /\ lo <= l
        /\ Len(got) \in Nat /\ c \in Consumer /\ c \in Thread
    <2>1. Grounds(c, p, lo, w, l)
      BY Ground
    <2> QED BY <2>1 DEF Grounds
  <1>2. SameProducers /\ \A i : Linked(p, i)' <=> Linked(p, i)
    BY GetFrame, LinkedSame, <1>1 DEF Get
  <1>3. Taking(c, p, lo, w, l) /\ Ends(p, l)
    BY DEF ListInv
  <1>4. pc[c] \in {"swing", "lastswing"}
    BY DEF Swing, LastSwing, Step
  <1>5. /\ w = l - 1 /\ l + 1 <= Len(p) /\ Linked(p, l) /\ Linked(p, l + 1)
        /\ cur[c] = p[l] /\ other[c] = p[l + 1] /\ l <= Len(p)
    BY <1>1, <1>3, <1>4 DEF Taking, AtOld, AtNew
  <1>6. lst = p[l]
    BY <1>3, <1>5 DEF Ends
  <1>7. UNCHANGED <<node, ptr, cache, free, got, order, doingrel>> /\ lst' = p[l + 1]
    BY <1>5, <1>6 DEF Swing, LastSwing, LstAfter, list, store, Step
  <1>8. CASE Swing(c)
    <2>1. pc[c] = "swing" /\ pc'[c] = "claim" /\ cur'[c] = p[l + 1] /\ first'[c] = first[c]
      BY <1>1, <1>5, <1>8, NodeTypes DEF Swing, Step, Goto, Set
    <2>2. Taken(c)' = Taken(c) /\ Released(c)' = Released(c)
      BY <1>7, <2>1 DEF Taken, Released
    <2>3. Taking(c, p, lo, l, l + 1)'
      BY <1>1, <1>2, <1>3, <1>5, <1>7, <2>1, SMTT(20) DEF Taking, AtOld, AtNew, AtEither
    <2> QED BY <1>5, <1>7, <2>2, <2>3
  <1>9. CASE LastSwing(c)
    <2>1. pc[c] = "lastswing" /\ pc'[c] = "copy" /\ cur'[c] = p[l] /\ first'[c] = first[c]
      BY <1>1, <1>5, <1>9, NodeTypes DEF LastSwing, Step, Goto, local
    <2>2. Taken(c)' = Taken(c) /\ Released(c)' = Released(c)
      BY <1>7, <2>1 DEF Taken, Released
    <2>3. l \in Listed(p, lo, l, l + 1) /\ l = Len(got) + 1
      BY <1>1, <1>3, <1>5, <2>1 DEF Taking, AtNew, Listed
    <2>4. Taking(c, p, lo, l, l + 1)'
      BY <1>1, <1>2, <1>3, <1>5, <1>7, <2>1, <2>3 DEF Taking, Listed, AtOld, AtNew, AtEither
    <2> QED BY <1>5, <1>7, <2>2, <2>4
  <1> QED BY <1>8, <1>9

\* The oldest part of the list becomes shorter.
LEMMA PushStep ==
    ASSUME TypeInv, Stored, Mine, NEW c, Consumer = {c}, NEW p, NEW lo, NEW w, NEW l,
           ListInv(c, p, lo, w, l), Push(c)
    PROVE  Stored' /\ Mine' /\ ListInv(c, p, lo, w - 1, l)'
  <1>1. /\ p \in Seq(Item) /\ Len(p) \in Nat /\ Len(p) = Len(order) /\ lo \in Nat \ {0}
        /\ l \in Nat /\ lo <= l /\ w \in Nat /\ w < l /\ (l = 1 \/ l <= Len(p))
        /\ Len(got) \in Nat /\ c \in Consumer /\ c \in Thread
    <2>1. Grounds(c, p, lo, w, l)
      BY Ground
    <2> QED BY <2>1 DEF Grounds
  <1>2. SameProducers /\ Mine' /\ \A i : Linked(p, i)' <=> Linked(p, i)
    BY GetFrame, LinkedSame, <1>1 DEF Get
  <1>3. order' = order /\ todo' = todo
    BY <1>2 DEF SameProducers
  <1>4. /\ pc[c] = "push" /\ pc'[c] = "free" /\ walk'[c] = other[c] /\ cur'[c] = cur[c]
        /\ first'[c] = first[c]
        /\ UNCHANGED <<node, ptr, lst, doingrel, got>>
        /\ cache' = [cache EXCEPT ![slot[c]] = walk[c]]
        /\ free' = free \cup ({cache[slot[c]]} \ {Null})
    BY <1>1, NodeTypes DEF Push, Step, Goto, Set, list
  <1>5. lo <= w /\ walk[c] = p[w] /\ other[c] = IF w = lo THEN Null ELSE p[w - 1]
    BY <1>4 DEF ListInv, Taking
  <1>6. /\ w \in Listed(p, lo, w, l) /\ w \in 1..Len(p)
        /\ \A i : i \in Listed(p, lo, w - 1, l) <=> i \in Listed(p, lo, w, l) /\ i # w
    BY <1>1, <1>5 DEF Listed
  <1>7. Listed(p, lo, w - 1, l) \subseteq Listed(p, lo, w, l)
    BY <1>6
  <1>8. p[w] \notin Spare /\ p[w] \in Item /\ p[w] # Null
    BY <1>1, <1>6, NodeTypes DEF ListInv, Apart
  <1>9. Stored' /\ Spare' \subseteq Spare \cup {p[w]}
    <2>1. /\ cache \in [0..CacheSize-1 -> Pointer] /\ slot[c] \in 0..CacheSize-1
          /\ \A s \in 0..CacheSize-1 : cache'[s] = IF s = slot[c] THEN p[w] ELSE cache[s]
          /\ DOMAIN cache' = 0..CacheSize-1
      BY <1>1, <1>4, <1>5, NodeTypes
    <2>2. \A s \in 0..CacheSize-1 : cache[s] # Null => cache[s] \in Spare /\ cache[s] \notin free
      BY <2>1 DEF Stored, Spare, Cached
    <2>3. Cached' \subseteq Cached \cup {p[w]}
      BY <2>1 DEF Cached
    <2>4. cache[slot[c]] # Null => cache[slot[c]] \in Cached /\ cache[slot[c]] \notin Cached'
      BY <1>8, <2>1, <2>2 DEF Stored, Cached, Spare
    <2>5. Cached' \cap free' = {}
      BY <1>4, <1>8, <2>3, <2>4 DEF Stored, Spare
    <2>6. \A s, u \in 0..CacheSize-1 : cache'[s] = cache'[u] /\ cache'[s] # Null => s = u
      BY <1>8, <2>1, <2>2 DEF Stored
    <2>7. Spare' \subseteq Spare \cup {p[w]}
      BY <1>4, <2>1, <2>3, <2>4 DEF Spare
    <2> QED BY <2>5, <2>6, <2>7 DEF Stored
  <1>10. Shape(p, lo, w - 1, l)' /\ Ends(p, l)' /\ Newer(p, l)'
    <2>1. Shape(p, lo, w - 1, l)'
      BY <1>1, <1>2, <1>3, <1>5 DEF ListInv, Shape
    <2>2. Ends(p, l)'
      BY <1>2, <1>4 DEF ListInv, Ends
    <2>3. Newer(p, l)'
      BY <1>2, <1>4 DEF ListInv, Newer
    <2> QED BY <2>1, <2>2, <2>3
  <1>11. Apart(p, lo, w - 1, l)'
    BY <1>6, <1>9 DEF ListInv, Apart
  <1>12. Older(p, lo, w - 1, l)'
    BY <1>2, <1>4, <1>7 DEF ListInv, Older, SameProducers
  <1>13. Marks(c, p, lo, w - 1, l)'
    <2>1. Taken(c)' = Taken(c) /\ Released(c)' = Released(c)
      BY <1>4 DEF Taken, Released
    <2> QED BY <1>3, <1>4, <1>7, <2>1 DEF ListInv, Marks
  <1>14. ASSUME NEW t \in Producer PROVE Putting(t, p, lo, w - 1, l)'
    <2>1. pc'[t] = pc[t] /\ cur'[t] = cur[t] /\ other'[t] = other[t]
      BY <1>2 DEF SameProducers
    <2>2. Putting(t, p, lo, w, l)
      BY DEF ListInv
    <2>3. pc[t] = "swap" => cur[t] \notin Spare'
      BY <1>6, <1>9, <2>2 DEF Putting
    <2> QED BY <1>3, <1>4, <1>7, <2>1, <2>2, <2>3 DEF Putting, Linking
  <1>15. Taking(c, p, lo, w - 1, l)'
    <2>1. Taking(c, p, lo, w, l)
      BY DEF ListInv
    <2> QED BY <1>1, <1>2, <1>3, <1>4, <1>5, <2>1 DEF Taking, AtOld, AtNew, AtEither
  <1> QED BY <1>2, <1>9, <1>10, <1>11, <1>12, <1>13, <1>14, <1>15 DEF ListInv

\* A step that changes one listed item, but for its payload and prev; lo may become m.
LEMMA ItemStep ==
    ASSUME TypeInv, Stored, Mine, SameProducers, UNCHANGED <<ptr, lst, cache, free>>,
           NEW c, Consumer = {c}, NEW p, NEW lo, NEW w, NEW l, ListInv(c, p, lo, w, l),
           NEW j \in Listed(p, lo, w, l), NEW m, NEW v,
           \A i \in Item : i # p[j] => node'[i] = node[i],
           node'[p[j]].prev = node[p[j]].prev, node'[p[j]].payload = node[p[j]].payload,
           \/ m = lo /\ v = w /\ node'[p[j]].next = node[p[j]].next
           \/ m = l /\ v = l - 1 /\ w < lo /\ j = l /\ node'[p[j]].next = Null,
           Marks(c, p, m, v, l)', Taking(c, p, m, v, l)'
    PROVE  Stored' /\ Mine' /\ ListInv(c, p, m, v, l)'
  <1>1. Mine' /\ \A i : Linked(p, i)' <=> Linked(p, i)
    BY LinkedSame
  <1>2. Stored' /\ Spare' = Spare
    BY DEF Stored, Spare, Cached
  <1>3. order' = order /\ todo' = todo
    BY DEF SameProducers
  <1>4. /\ p \in Seq(Item) /\ Len(p) \in Nat /\ Len(p) = Len(order) /\ lo \in Nat \ {0}
        /\ l \in Nat /\ lo <= l /\ w \in Nat /\ w < l /\ (l = 1 \/ l <= Len(p)) /\ lo <= w + 1
        /\ \A i \in 1..Len(p) : p[i] \in Item
    <2>1. Grounds(c, p, lo, w, l)
      BY Ground
    <2> QED BY <2>1 DEF Grounds
  <1>5. Listed(p, m, v, l) = Listed(p, lo, w, l) /\ Listed(p, lo, w, l) \subseteq 1..Len(p)
    BY <1>4 DEF Listed
  <1>6. \A i \in Listed(p, lo, w, l) : p[i] = p[j] => i = j
    BY DEF ListInv, Apart
  <1>7. \A i \in Listed(p, lo, w, l) : i # j => node'[p[i]] = node[p[i]]
    BY <1>4, <1>5, <1>6
  <1>8. \A i \in Listed(p, lo, w, l) :
           node'[p[i]].prev = node[p[i]].prev /\ node'[p[i]].payload = node[p[i]].payload
    BY <1>7
  <1>9. Shape(p, m, v, l)' /\ Ends(p, l)'
    BY <1>1, <1>3, <1>4 DEF ListInv, Shape, Ends
  <1>10. Newer(p, l)'
    <2>1. \A i \in 1..Len(p) : l <= i => i \in Listed(p, lo, w, l)
      BY DEF Listed
    <2> QED BY <1>1, <1>8, <2>1 DEF ListInv, Newer
  <1>11. Apart(p, m, v, l)'
    BY <1>2, <1>5 DEF ListInv, Apart
  <1>12. Older(p, m, v, l)'
    <2>1. Older(p, lo, w, l)
      BY DEF ListInv
    <2>2. CASE m = lo /\ v = w /\ node'[p[j]].next = node[p[j]].next
      <3>1. \A i \in Listed(p, lo, w, l) : node'[p[i]].next = node[p[i]].next
        BY <1>7, <2>2
      <3> QED BY <2>1, <2>2, <3>1 DEF Older, SameProducers
    <2>3. CASE m = l /\ v = l - 1 /\ w < lo /\ j = l /\ node'[p[j]].next = Null
      <3>1. \A i \in Listed(p, m, v, l) : i # l => i # lo /\ node'[p[i]].next = node[p[i]].next
        BY <1>4, <1>5, <1>7, <2>3 DEF Listed
      <3> QED BY <1>5, <2>1, <2>3, <3>1 DEF Older, SameProducers
    <2> QED BY <2>2, <2>3
  <1>13. ASSUME NEW t \in Producer PROVE Putting(t, p, m, v, l)'
    <2>1. pc'[t] = pc[t] /\ cur'[t] = cur[t] /\ other'[t] = other[t] /\ cur[t] \in Pointer
      <3>1. t \in Thread
        BY DEF Thread
      <3> QED BY <3>1, NodeTypes DEF SameProducers
    <2>2. Putting(t, p, lo, w, l)
      BY DEF ListInv
    <2>3. pc[t] = "swap" => cur[t] # Null
      BY DEF TypeInv, InHand, InPut
    <2>4. pc[t] = "swap" => node'[cur[t]] = node[cur[t]]
      BY <2>1, <2>2, <2>3 DEF Putting, Pointer
    <2>5. \A k \in 1..Len(p) : l <= k /\ node[p[k]].next = Null => node'[p[k]].next = Null
      <3>1. \A k \in 1..Len(p) : l <= k => k \in Listed(p, lo, w, l)
        BY DEF Listed
      <3> QED BY <1>7, <3>1
    <2>6. Linking(t)' => \E k \in 1..Len(p) :
             /\ k = 1 \/ k > l
             /\ l <= k /\ cur'[t] = p[k]
             /\ other'[t] = IF k = 1 THEN Null ELSE p[k - 1]
             /\ pc'[t] = "next" => node'[p[k]].next = Null
      BY <2>1, <2>2, <2>5 DEF Putting, Linking
    <2> QED BY <1>2, <1>3, <1>5, <2>1, <2>2, <2>4, <2>6 DEF Putting
  <1> QED BY <1>1, <1>2, <1>9, <1>10, <1>11, <1>12, <1>13 DEF ListInv

\* The older items are gone, and lst is the oldest.
LEMMA TailDoneStep ==
    ASSUME TypeInv, Stored, Mine, NEW c, Consumer = {c}, NEW p, NEW lo, NEW w, NEW l,
           ListInv(c, p, lo, w, l), TailDone(c)
    PROVE  Stored' /\ Mine' /\ ListInv(c, p, l, l - 1, l)'
  <1>1. /\ p \in Seq(Item) /\ Len(p) \in Nat /\ Len(p) = Len(order) /\ lo \in Nat \ {0}
        /\ l \in Nat /\ lo <= l /\ w \in Nat /\ w < l /\ (l = 1 \/ l <= Len(p)) /\ lo <= w + 1
        /\ Len(got) \in Nat /\ c \in Consumer /\ c \in Thread
        /\ \A i \in 1..Len(p) : p[i] \in Item /\ p[i] # Null
    <2>1. Grounds(c, p, lo, w, l)
      BY Ground
    <2> QED BY <2>1 DEF Grounds
  <1>2. SameProducers /\ Mine' /\ \A i : Linked(p, i)' <=> Linked(p, i)
    BY GetFrame, LinkedSame, <1>1 DEF Get
  <1>3. /\ pc[c] = "free" /\ pc'[c] = "unlock" /\ cur'[c] = cur[c] /\ first'[c] = first[c]
        /\ walk[c] = Null
        /\ UNCHANGED <<ptr, lst, doingrel, got, order, cache, free>>
        /\ node' = [node EXCEPT ![cur[c]].next = Null]
    BY <1>1, NodeTypes DEF TailDone, Step, Goto, store, local
  <1>4. Taking(c, p, lo, w, l)
    BY DEF ListInv
  <1>5. cur[c] = p[l] /\ l \in 1..Len(p) /\ walk[c] = IF w < lo THEN Null ELSE p[w]
    BY <1>1, <1>3, <1>4 DEF Taking, AtOld
  <1>6. w < lo
    BY <1>1, <1>3, <1>5
  <1>7. l \in Listed(p, lo, w, l) /\ p[l] \in Item
    BY <1>1, <1>5 DEF Listed
  <1>8. /\ \A i \in Item : i # p[l] => node'[i] = node[i]
        /\ node'[p[l]] = [node[p[l]] EXCEPT !.next = Null]
    BY <1>3, <1>5, <1>7, NodeTypes DEF Nodes
  <1>9. /\ node'[p[l]].next = Null /\ node'[p[l]].prev = node[p[l]].prev
        /\ node'[p[l]].payload = node[p[l]].payload
        /\ node'[p[l]].claimed = node[p[l]].claimed /\ node'[p[l]].needrel = node[p[l]].needrel
    BY <1>7, <1>8, NodeTypes DEF Nodes
  <1>10. Marks(c, p, l, l - 1, l)'
    <2>1. Listed(p, l, l - 1, l) = Listed(p, lo, w, l) /\ Listed(p, lo, w, l) \subseteq 1..Len(p)
      BY <1>1, <1>6 DEF Listed
    <2>2. Taken(c)' = Taken(c) /\ Released(c)' = Released(c)
      BY <1>3 DEF Taken, Released
    <2>3. \A i \in Listed(p, lo, w, l) :
             /\ node'[p[i]].payload = node[p[i]].payload
             /\ node'[p[i]].claimed = node[p[i]].claimed /\ node'[p[i]].needrel = node[p[i]].needrel
      BY <1>1, <1>8, <1>9, <2>1
    <2> QED BY <1>3, <2>1, <2>2, <2>3 DEF ListInv, Marks
  <1>11. Taking(c, p, l, l - 1, l)'
    BY <1>1, <1>2, <1>3, <1>4, <1>5 DEF Taking, AtOld, AtNew, AtEither
  <1> QED BY <1>2, <1>3, <1>6, <1>7, <1>8, <1>9, <1>10, <1>11, ItemStep

\* The item behind the last one is not claimed: get takes it at once.
LEMMA ClaimStep ==
    ASSUME TypeInv, Stored, Mine, NEW c, Consumer = {c}, NEW p, NEW lo, NEW w, NEW l,
           ListInv(c, p, lo, w, l), Claim(c)
    PROVE  Stored' /\ Mine' /\ ListInv(c, p, lo, w, l)'
  <1>1. /\ p \in Seq(Item) /\ Len(p) \in Nat /\ Len(p) = Len(order)
        /\ l \in Nat /\ Len(got) \in Nat /\ c \in Consumer /\ c \in Thread
        /\ \A i \in 1..Len(p) : p[i] \in Item /\ p[i] # Null
    <2>1. Grounds(c, p, lo, w, l)
      BY Ground
    <2> QED BY <2>1 DEF Grounds
  <1>2. SameProducers /\ Mine' /\ \A i : Linked(p, i)' <=> Linked(p, i)
    BY GetFrame, LinkedSame, <1>1 DEF Get
  <1>3. Taking(c, p, lo, w, l) /\ pc[c] = "claim"
    BY DEF ListInv, Claim, Step
  <1>4. cur[c] = p[l] /\ l \in 1..Len(p) /\ l = Len(got) + 1 /\ (node[p[l]].claimed <=> l <= Taken(c))
    BY <1>3, Here DEF AtNew, Taking
  <1>5. Taken(c) = Len(got) /\ Released(c) = Len(got) /\ ~node[p[l]].claimed
    BY <1>1, <1>3, <1>4 DEF Taken, Released
  <1>6. /\ pc'[c] = "countout" /\ cur'[c] = cur[c] /\ first'[c] = first[c]
        /\ UNCHANGED <<ptr, lst, doingrel, got, order, cache, free>>
        /\ node' = [node EXCEPT ![cur[c]].claimed = TRUE]
    BY <1>1, <1>4, <1>5, NodeTypes DEF Claim, Step, Goto, store, local
  <1>7. l \in Listed(p, lo, w, l) /\ p[l] \in Item
    BY <1>1, <1>4 DEF Listed
  <1>8. /\ \A i \in Item : i # p[l] => node'[i] = node[i]
        /\ node'[p[l]] = [node[p[l]] EXCEPT !.claimed = TRUE]
    BY <1>4, <1>6, <1>7, NodeTypes DEF Nodes
  <1>9. /\ node'[p[l]].next = node[p[l]].next /\ node'[p[l]].prev = node[p[l]].prev
        /\ node'[p[l]].payload = node[p[l]].payload
        /\ node'[p[l]].claimed /\ node'[p[l]].needrel = node[p[l]].needrel
    BY <1>7, <1>8, NodeTypes DEF Nodes
  <1>10. Marks(c, p, lo, w, l)'
    <2>1. Taken(c)' = l /\ Released(c)' = Released(c)
      BY <1>3, <1>4, <1>6 DEF Taken, Released
    <2>2. Listed(p, lo, w, l) \subseteq 1..Len(p)
      BY DEF Listed
    <2>3. ASSUME NEW i \in Listed(p, lo, w, l)
          PROVE  /\ node'[p[i]].payload = order[i]
                 /\ node'[p[i]].claimed <=> i <= l
                 /\ node'[p[i]].needrel <=> i <= Released(c)
      <3>1. /\ node[p[i]].payload = order[i]
            /\ node[p[i]].claimed <=> i <= Len(got)
            /\ node[p[i]].needrel <=> i <= Released(c)
        BY <1>5 DEF ListInv, Marks
      <3>2. CASE i = l
        BY <1>4, <1>9, <3>1, <3>2
      <3>3. CASE i # l
        <4>1. p[i] # p[l]
          BY <1>7, <3>3 DEF ListInv, Apart
        <4>2. node'[p[i]] = node[p[i]]
          BY <1>1, <1>8, <2>2, <4>1
        <4>3. i \in Nat /\ (i <= l <=> i <= Len(got))
          BY <1>1, <1>4, <2>2, <3>3
        <4> QED BY <3>1, <4>2, <4>3
      <3> QED BY <3>2, <3>3
    <2> QED BY <1>6, <2>1, <2>3 DEF Marks
  <1>11. Taking(c, p, lo, w, l)'
    BY <1>1, <1>2, <1>3, <1>4, <1>6 DEF Taking, AtOld, AtNew, AtEither
  <1>12. UNCHANGED <<ptr, lst, cache, free>>
    BY <1>6
  <1>13. \A i \in Item : i # p[l] => node'[i] = node[i]
    BY <1>8
  <1>14. /\ node'[p[l]].prev = node[p[l]].prev /\ node'[p[l]].payload = node[p[l]].payload
         /\ node'[p[l]].next = node[p[l]].next
    BY <1>9
  <1>15. l \in Listed(p, lo, w, l) /\ SameProducers
    BY <1>2, <1>7
  <1> QED BY <1>10, <1>11, <1>12, <1>13, <1>14, <1>15, ItemStep

\* The item is used up, and the next taildealloc may have it.
LEMMA ReleaseStep ==
    ASSUME TypeInv, Stored, Mine, NEW c, Consumer = {c}, NEW p, NEW lo, NEW w, NEW l,
           ListInv(c, p, lo, w, l), Release(c)
    PROVE  Stored' /\ Mine' /\ ListInv(c, p, lo, w, l)'
  <1> DEFINE g == Len(got)
  <1>1. /\ p \in Seq(Item) /\ Len(p) \in Nat /\ Len(p) = Len(order)
        /\ l \in Nat /\ g \in Nat /\ c \in Consumer /\ c \in Thread
        /\ \A i \in 1..Len(p) : p[i] \in Item /\ p[i] # Null
    <2>1. Grounds(c, p, lo, w, l)
      BY Ground
    <2> QED BY <2>1 DEF Grounds
  <1>2. SameProducers /\ Mine' /\ \A i : Linked(p, i)' <=> Linked(p, i)
    BY GetFrame, LinkedSame, <1>1 DEF Get
  <1>3. Taking(c, p, lo, w, l) /\ pc[c] = "release"
    BY DEF ListInv, Release, Return, Step
  <1>4. cur[c] = p[g] /\ g \in Listed(p, lo, w, l)
    BY <1>3 DEF Taking
  <1>5. /\ pc'[c] = "idle" /\ cur'[c] = Null /\ first'[c]
        /\ UNCHANGED <<ptr, lst, doingrel, got, order, cache, free>>
        /\ node' = [node EXCEPT ![cur[c]].needrel = TRUE]
    BY <1>1, NodeTypes DEF Release, Return, Step, Goto, Set, store
  <1>6. g \in 1..Len(p) /\ p[g] \in Item
    BY <1>1, <1>4 DEF Listed
  <1>7. /\ \A i \in Item : i # p[g] => node'[i] = node[i]
        /\ node'[p[g]] = [node[p[g]] EXCEPT !.needrel = TRUE]
    BY <1>4, <1>5, <1>6, NodeTypes DEF Nodes
  <1>8. /\ node'[p[g]].next = node[p[g]].next /\ node'[p[g]].prev = node[p[g]].prev
        /\ node'[p[g]].payload = node[p[g]].payload
        /\ node'[p[g]].claimed = node[p[g]].claimed /\ node'[p[g]].needrel
    BY <1>6, <1>7, NodeTypes DEF Nodes
  <1>9. Marks(c, p, lo, w, l)'
    <2>1. Taken(c) = g /\ Taken(c)' = g /\ Released(c) = g - 1 /\ Released(c)' = g
      BY <1>1, <1>3, <1>5 DEF Taken, Released
    <2>2. Listed(p, lo, w, l) \subseteq 1..Len(p)
      BY DEF Listed
    <2>3. ASSUME NEW i \in Listed(p, lo, w, l)
          PROVE  /\ node'[p[i]].payload = order[i]
                 /\ node'[p[i]].claimed <=> i <= g
                 /\ node'[p[i]].needrel <=> i <= g
      <3>1. /\ node[p[i]].payload = order[i]
            /\ node[p[i]].claimed <=> i <= g
            /\ node[p[i]].needrel <=> i <= g - 1
        BY <2>1 DEF ListInv, Marks
      <3>2. CASE i = g
        BY <1>6, <1>8, <3>1, <3>2
      <3>3. CASE i # g
        <4>1. p[i] # p[g]
          BY <1>4, <3>3 DEF ListInv, Apart
        <4>2. node'[p[i]] = node[p[i]]
          BY <1>1, <1>7, <2>2, <4>1
        <4>3. i \in Nat /\ (i <= g <=> i <= g - 1)
          BY <1>1, <2>2, <3>3
        <4> QED BY <3>1, <4>2, <4>3
      <3> QED BY <3>2, <3>3
    <2> QED BY <1>5, <2>1, <2>3 DEF Marks
  <1>10. Taking(c, p, lo, w, l)'
    BY <1>1, <1>2, <1>3, <1>5 DEF Taking, AtOld, AtNew, AtEither
  <1> QED BY <1>2, <1>4, <1>5, <1>7, <1>8, <1>9, <1>10, ItemStep

\* The message is the next in the order of the swaps.
LEMMA CopyStep ==
    ASSUME TypeInv, Stored, Mine, NEW c, Consumer = {c}, NEW p, NEW lo, NEW w, NEW l,
           ListInv(c, p, lo, w, l), Copy(c)
    PROVE  Stored' /\ Mine' /\ ListInv(c, p, lo, w, l)'
  <1> DEFINE g == Len(got)
  <1>1. /\ p \in Seq(Item) /\ Len(p) \in Nat /\ Len(p) = Len(order)
        /\ l \in Nat /\ g \in Nat /\ c \in Consumer /\ c \in Thread
        /\ \A i \in 1..Len(p) : p[i] \in Item /\ p[i] # Null
    <2>1. Grounds(c, p, lo, w, l)
      BY Ground
    <2> QED BY <2>1 DEF Grounds
  <1>2. SameProducers /\ Mine' /\ \A i : Linked(p, i)' <=> Linked(p, i)
    BY GetFrame, LinkedSame, <1>1 DEF Get
  <1>3. Taking(c, p, lo, w, l) /\ pc[c] = "copy"
    BY DEF ListInv, Copy, Step
  <1>4. cur[c] = p[g + 1] /\ g + 1 \in Listed(p, lo, w, l) /\ (l = g + 1 \/ l = g + 2)
    BY <1>3 DEF Taking
  <1>5. g + 1 \in 1..Len(order) /\ node[p[g + 1]].payload = order[g + 1]
    BY <1>1, <1>4 DEF Listed, ListInv, Marks
  <1>6. /\ pc'[c] = "release" /\ cur'[c] = cur[c] /\ first'[c] = first[c]
        /\ UNCHANGED <<node, ptr, lst, doingrel, order, cache, free>>
        /\ got' = Append(got, order[g + 1])
    BY <1>1, <1>4, <1>5, NodeTypes DEF Copy, Step, Goto, list, store, local
  <1>7. got \in Seq(Msg) /\ order[g + 1] \in Msg
    BY <1>5, NodeTypes
  <1>8. /\ Len(got') = g + 1 /\ got'[g + 1] = order[g + 1]
        /\ \A i \in 1..g : got'[i] = got[i]
    BY <1>6, <1>7
  <1>9. Taking(c, p, lo, w, l)'
    <2>1. \A i \in 1..g + 1 : i \in 1..Len(order) /\ got'[i] = order[i]
      BY <1>1, <1>3, <1>5, <1>8 DEF Taking
    <2> HIDE DEF g
    <2> QED BY <1>1, <1>2, <1>3, <1>4, <1>6, <1>8, <2>1 DEF Taking, AtOld, AtNew, AtEither
  <1>10. Taken(c)' = Taken(c) /\ Released(c)' = Released(c)
    BY <1>1, <1>3, <1>6, <1>8 DEF Taken, Released
  <1>11. Stored' /\ Spare' = Spare
    BY <1>6 DEF Stored, Spare, Cached
  <1>12. ListInv(c, p, lo, w, l)'
    <2>1. Shape(p, lo, w, l)' /\ Ends(p, l)' /\ Newer(p, l)'
      BY <1>2, <1>6 DEF ListInv, Shape, Ends, Newer
    <2>2. Apart(p, lo, w, l)'
      BY <1>11 DEF ListInv, Apart
    <2>3. Older(p, lo, w, l)'
      BY <1>2, <1>6 DEF ListInv, Older, SameProducers
    <2>4. Marks(c, p, lo, w, l)'
      BY <1>6, <1>10 DEF ListInv, Marks
    <2>5. ASSUME NEW t \in Producer PROVE Putting(t, p, lo, w, l)'
      <3>1. pc'[t] = pc[t] /\ cur'[t] = cur[t] /\ other'[t] = other[t] /\ todo' = todo
        BY <1>2 DEF SameProducers
      <3> QED BY <1>6, <1>11, <3>1 DEF ListInv, Putting, Linking
    <2> QED BY <1>9, <2>1, <2>2, <2>3, <2>4, <2>5 DEF ListInv
  <1> QED BY <1>2, <1>11, <1>12

----------------------------------------------------------------------------
(* The producers *)

\* Nothing that any other thread has changes, nor what the consumer alone writes.
OthersSame(t) ==
    /\ \A u \in Thread : u # t =>
          /\ pc'[u] = pc[u] /\ cur'[u] = cur[u] /\ other'[u] = other[u]
          /\ walk'[u] = walk[u] /\ first'[u] = first[u]
    /\ \A u \in Producer : u # t => todo'[u] = todo[u]
    /\ UNCHANGED <<doingrel, got>>

\* A put leaves the other threads alone.
LEMMA PutFrame ==
    ASSUME TypeInv, NEW t \in Producer, PutBegin(t) \/ Put(t)
    PROVE  OthersSame(t)
  <1> USE DEF Step, Goto, Set, list, store, local, Return, OthersSame
  <1>1. t \in Thread /\ todo \in [Producer -> Seq(Msg)]
    BY NodeTypes DEF Thread
  <1>2. CASE PutBegin(t) \/ Pop(t)
    BY <1>1, <1>2, NodeTypes DEF PutBegin, Pop
  <1>3. CASE SwapPtr(t) \/ LinkNext(t) \/ LinkPrev(t)
    BY <1>1, <1>3, NodeTypes DEF SwapPtr, LinkNext, LinkPrev
  <1>4. CASE Count(t)
    BY <1>1, <1>4, NodeTypes DEF Count
  <1> QED BY <1>2, <1>3, <1>4 DEF Put

\* The consumer does not lose what it has.
LEMMA TakingKept ==
    ASSUME TypeInv, NEW t \in Producer, OthersSame(t), NEW c, Consumer = {c},
           NEW p, NEW lo, NEW w, NEW l, ListInv(c, p, lo, w, l),
           NEW q, Len(q) \in Nat, Len(p) <= Len(q), \A i \in 1..Len(p) : q[i] = p[i],
           \A i \in {l, l + 1} : i <= Len(p) /\ Linked(p, i) => Linked(q, i)',
           \A i \in 1..Len(order) : i \in 1..Len(order') /\ order'[i] = order[i]
    PROVE  Taking(c, q, lo, w, l)' /\ Taken(c)' = Taken(c) /\ Released(c)' = Released(c)
  <1>1. /\ Len(p) \in Nat /\ Len(p) = Len(order) /\ lo \in Nat \ {0}
        /\ l \in Nat /\ lo <= l /\ w \in Nat /\ w < l /\ (l = 1 \/ l <= Len(p))
        /\ Len(got) \in Nat /\ c \in Thread /\ c # t
    <2>1. Grounds(c, p, lo, w, l)
      BY Ground
    <2> QED BY <2>1 DEF Grounds
  <1>2. /\ pc'[c] = pc[c] /\ cur'[c] = cur[c] /\ other'[c] = other[c]
        /\ walk'[c] = walk[c] /\ first'[c] = first[c] /\ doingrel' = doingrel /\ got' = got
    BY <1>1 DEF OthersSame
  <1>3. Taking(c, p, lo, w, l)
    BY DEF ListInv
  <1>4. /\ \A i \in Listed(p, lo, w, l) : i \in Listed(q, lo, w, l) /\ q[i] = p[i]
        /\ l \in 1..Len(p) => q[l] = p[l]
        /\ l + 1 <= Len(p) => q[l + 1] = p[l + 1]
        /\ pc[c] = "push" => q[w] = p[w] /\ (w # lo => q[w - 1] = p[w - 1])
        /\ pc[c] = "free" => (lo <= w => q[w] = p[w])
    <2>1. \A i \in Listed(p, lo, w, l) : i \in Listed(q, lo, w, l) /\ q[i] = p[i]
      BY <1>1 DEF Listed
    <2>2. lo <= w => w \in 1..Len(p) /\ (w # lo => w - 1 \in 1..Len(p))
      BY <1>1
    <2>3. pc[c] = "push" => lo <= w
      BY <1>3 DEF Taking
    <2> QED BY <1>1, <2>1, <2>2, <2>3
  <1>5. Taking(c, q, lo, w, l)'
    BY <1>1, <1>2, <1>3, <1>4 DEF Taking, AtOld, AtNew, AtEither
  <1>6. Taken(c)' = Taken(c) /\ Released(c)' = Released(c)
    BY <1>2 DEF Taken, Released
  <1> QED BY <1>5, <1>6

\* The start and the end of a put.
LEMMA QuietPut ==
    ASSUME TypeInv, Stored, Mine, NEW c, Consumer = {c}, NEW p, NEW lo, NEW w, NEW l,
           ListInv(c, p, lo, w, l), NEW t \in Producer, PutBegin(t) \/ Count(t)
    PROVE  Stored' /\ Mine' /\ ListInv(c, p, lo, w, l)'
  <1>1. OthersSame(t) /\ t \in Thread
    BY PutFrame DEF Put, Thread
  <1>2. /\ UNCHANGED <<node, ptr, lst, cache, free, got, order>>
        /\ pc[t] \in {"idle", "count"} /\ pc'[t] \in {"pop", "idle"} /\ cur'[t] = Null
    <2>1. pc[t] = "idle" => cur[t] = Null
      BY DEF ListInv, Putting
    <2>2. CASE PutBegin(t)
      BY <1>1, <2>1, <2>2, NodeTypes DEF PutBegin, Step, Goto, list
    <2>3. CASE Count(t)
      BY <1>1, <2>3, NodeTypes DEF Count, Return, Step, Goto, Set, store
    <2> QED BY <2>2, <2>3
  <1>3. /\ \A u \in Producer : pc[u] \in {"swap", "next", "prev"} <=> pc'[u] \in {"swap", "next", "prev"}
        /\ \A u \in Producer : pc'[u] \in {"swap", "next", "prev"} => u # t /\ pc'[u] = pc[u] /\ cur'[u] = cur[u]
        /\ \A u \in Producer : (pc[u] = "next" <=> pc'[u] = "next")
    BY <1>1, <1>2 DEF OthersSame, Thread
  <1>4. \A i : Linked(p, i)' <=> Linked(p, i)
    BY <1>1, <1>2 DEF Linked, Linking, OthersSame, Thread
  <1>5. Stored' /\ Spare' = Spare
    BY <1>2 DEF Stored, Spare, Cached
  <1>6. Mine'
    BY <1>3 DEF Mine
  <1>7. Taking(c, p, lo, w, l)' /\ Taken(c)' = Taken(c) /\ Released(c)' = Released(c)
    <2>1. Len(p) \in Nat
      <3>1. Grounds(c, p, lo, w, l)
        BY Ground
      <3> QED BY <3>1 DEF Grounds
    <2>2. /\ \A i \in {l, l + 1} : i <= Len(p) /\ Linked(p, i) => Linked(p, i)'
          /\ \A i \in 1..Len(order) : i \in 1..Len(order') /\ order'[i] = order[i]
      BY <1>2, <1>4
    <2> QED BY <1>1, <2>1, <2>2, TakingKept
  <1>8. Shape(p, lo, w, l)' /\ Ends(p, l)' /\ Newer(p, l)'
    BY <1>2, <1>4 DEF ListInv, Shape, Ends, Newer
  <1>9. Apart(p, lo, w, l)'
    BY <1>5 DEF ListInv, Apart
  <1>10. Older(p, lo, w, l)'
    BY <1>2, <1>3 DEF ListInv, Older
  <1>11. Marks(c, p, lo, w, l)'
    BY <1>2, <1>7 DEF ListInv, Marks
  <1>12. ASSUME NEW u \in Producer PROVE Putting(u, p, lo, w, l)'
    <2>1. CASE u = t
      BY <1>2, <2>1 DEF Putting, Linking
    <2>2. CASE u # t
      <3>1. pc'[u] = pc[u] /\ cur'[u] = cur[u] /\ other'[u] = other[u] /\ todo'[u] = todo[u]
        BY <1>1, <2>2 DEF OthersSame, Thread
      <3> QED BY <1>2, <1>5, <3>1 DEF ListInv, Putting, Linking
    <2> QED BY <2>1, <2>2
  <1> QED BY <1>5, <1>6, <1>7, <1>8, <1>9, <1>10, <1>11, <1>12 DEF ListInv

\* An item from the cache, or a new one: nobody else has it.
LEMMA PopStep ==
    ASSUME TypeInv, Stored, Mine, NEW c, Consumer = {c}, NEW p, NEW lo, NEW w, NEW l,
           ListInv(c, p, lo, w, l), NEW t \in Producer, Pop(t)
    PROVE  Stored' /\ Mine' /\ ListInv(c, p, lo, w, l)'
  <1>1. OthersSame(t) /\ t \in Thread
    BY PutFrame DEF Put, Thread
  <1>2. /\ p \in Seq(Item) /\ Len(p) \in Nat /\ Len(p) = Len(order) /\ \A i \in 1..Len(p) : p[i] \in Item
    <2>1. Grounds(c, p, lo, w, l)
      BY Ground
    <2> QED BY <2>1 DEF Grounds
  <1>3. /\ pc[t] = "pop" /\ pc'[t] = "swap" /\ UNCHANGED <<ptr, lst, order, todo>>
        /\ cache' = [cache EXCEPT ![slot[t]] = Null]
    BY <1>1, NodeTypes DEF Pop, Step, Goto, Set
  <1>4. PICK x \in IF cache[slot[t]] # Null THEN {cache[slot[t]]} ELSE free :
           /\ cur' = [cur EXCEPT ![t] = x] /\ free' = free \ {x}
           /\ node' = [node EXCEPT ![x] = Empty(Head(todo[t]))]
    BY DEF Pop, Set
  <1>5. /\ \A s \in 0..CacheSize-1 : cache'[s] = IF s = slot[t] THEN Null ELSE cache[s]
        /\ slot[t] \in 0..CacheSize-1 /\ DOMAIN cache = 0..CacheSize-1 /\ DOMAIN cache' = 0..CacheSize-1
    BY <1>1, <1>3, NodeTypes
  <1>6. x \in Spare /\ x \in Item
    <2>1. CASE cache[slot[t]] # Null
      <3>1. x = cache[slot[t]]
        BY <2>1, <1>4
      <3> QED BY <1>5, <2>1, <3>1, NodeTypes DEF Spare, Cached, Pointer
    <2>2. CASE cache[slot[t]] = Null
      BY <1>4, <2>2, NodeTypes DEF Spare
    <2> QED BY <2>1, <2>2
  <1>7. Cached' \subseteq Cached /\ x \notin Cached'
    <2>1. Cached' \subseteq Cached
      BY <1>5 DEF Cached
    <2>2. CASE cache[slot[t]] # Null
      <3>1. x = cache[slot[t]]
        BY <2>2, <1>4
      <3> QED BY <1>5, <2>1, <2>2, <3>1 DEF Cached, Stored
    <2>3. CASE cache[slot[t]] = Null
      BY <1>4, <2>1, <2>3 DEF Stored
    <2> QED BY <2>1, <2>2, <2>3
  <1>8. Stored' /\ Spare' \subseteq Spare /\ x \notin Spare'
    <2>1. Cached' \cap free' = {} /\ Spare' \subseteq Spare /\ x \notin Spare'
      BY <1>4, <1>7 DEF Stored, Spare
    <2>2. \A s, u \in 0..CacheSize-1 : cache'[s] = cache'[u] /\ cache'[s] # Null => s = u
      BY <1>5 DEF Stored
    <2> QED BY <2>1, <2>2 DEF Stored
  <1>9. /\ cur'[t] = x /\ node'[x] = Empty(Head(todo[t]))
        /\ \A i \in Item : i # x => node'[i] = node[i]
    BY <1>1, <1>4, <1>6, NodeTypes DEF Nodes
  <1>10. \A i \in Listed(p, lo, w, l) : i \in 1..Len(p) /\ p[i] # x /\ node'[p[i]] = node[p[i]]
    BY <1>2, <1>6, <1>9 DEF ListInv, Apart, Listed
  <1>11. \A u \in Producer : u # t =>
            /\ pc'[u] = pc[u] /\ cur'[u] = cur[u] /\ other'[u] = other[u] /\ cur[u] \in Pointer
    BY <1>1, NodeTypes DEF OthersSame, Thread
  <1>12. \A i : Linked(p, i)' <=> Linked(p, i)
    BY <1>3, <1>11 DEF Linked, Linking
  <1>13. \A u \in Producer : pc[u] \in {"swap", "next", "prev"} => cur[u] # x
    <2>1. ASSUME NEW u \in Producer, Linking(u) PROVE cur[u] # x
      <3>1. PICK k \in 1..Len(p) : l <= k /\ cur[u] = p[k]
        BY <2>1 DEF ListInv, Putting
      <3>2. k \in Listed(p, lo, w, l)
        BY <3>1 DEF Listed
      <3> QED BY <1>10, <3>1, <3>2
    <2>2. ASSUME NEW u \in Producer, pc[u] = "swap" PROVE cur[u] # x
      BY <1>6, <2>2 DEF ListInv, Putting
    <2> QED BY <2>1, <2>2 DEF Linking
  <1>14. Mine'
    <2>1. ASSUME NEW u \in Producer, NEW v \in Producer,
                 pc'[u] \in {"swap", "next", "prev"}, pc'[v] \in {"swap", "next", "prev"}, cur'[u] = cur'[v]
          PROVE  u = v
      BY <1>9, <1>11, <1>13, <2>1 DEF Mine
    <2> QED BY <2>1 DEF Mine
  <1>15. Taking(c, p, lo, w, l)' /\ Taken(c)' = Taken(c) /\ Released(c)' = Released(c)
    <2>1. /\ \A i \in {l, l + 1} : i <= Len(p) /\ Linked(p, i) => Linked(p, i)'
          /\ \A i \in 1..Len(order) : i \in 1..Len(order') /\ order'[i] = order[i]
      BY <1>3, <1>12
    <2> QED BY <1>1, <1>2, <2>1, TakingKept
  <1>16. Shape(p, lo, w, l)' /\ Ends(p, l)'
    BY <1>3, <1>12 DEF ListInv, Shape, Ends
  <1>17. Newer(p, l)'
    <2>1. \A i \in 1..Len(p) : l <= i => i \in Listed(p, lo, w, l)
      BY DEF Listed
    <2> QED BY <1>10, <1>12, <2>1 DEF ListInv, Newer
  <1>18. Apart(p, lo, w, l)'
    BY <1>8 DEF ListInv, Apart
  <1>19. Older(p, lo, w, l)'
    <2>1. \A u \in Producer : pc[u] = "next" => u # t /\ pc'[u] = "next" /\ cur'[u] = cur[u]
      BY <1>3, <1>11
    <2> QED BY <1>10, <2>1 DEF ListInv, Older
  <1>20. Marks(c, p, lo, w, l)'
    BY <1>3, <1>10, <1>15 DEF ListInv, Marks
  <1>21. ASSUME NEW u \in Producer PROVE Putting(u, p, lo, w, l)'
    <2>1. CASE u = t
      <3>1. \A i \in Listed(p, lo, w, l) : cur'[t] # p[i]
        BY <1>9, <1>10
      <3>2. cur'[t] \notin Spare' /\ node'[cur'[t]] = Empty(Head(todo'[t]))
        BY <1>3, <1>8, <1>9
      <3> QED BY <1>3, <2>1, <3>1, <3>2 DEF Putting, Linking
    <2>2. CASE u # t
      <3>1. pc'[u] = pc[u] /\ cur'[u] = cur[u] /\ other'[u] = other[u] /\ todo'[u] = todo[u]
        BY <1>3, <1>11, <2>2
      <3>2. Putting(u, p, lo, w, l)
        BY DEF ListInv
      <3>3. pc[u] = "swap" => cur[u] \notin Spare' /\ node'[cur[u]] = Empty(Head(todo[u]))
        <4>1. pc[u] = "swap" => cur[u] \in Item /\ cur[u] # x
          BY <1>11, <1>13, <2>2 DEF TypeInv, InHand, InPut, Pointer
        <4> QED BY <1>8, <1>9, <3>2, <4>1 DEF Putting
      <3>4. \A k \in 1..Len(p) : l <= k => node'[p[k]] = node[p[k]]
        <4>1. \A k \in 1..Len(p) : l <= k => k \in Listed(p, lo, w, l)
          BY DEF Listed
        <4> QED BY <1>10, <4>1
      <3>5. Linking(u)' => \E k \in 1..Len(p) :
               /\ k = 1 \/ k > l
               /\ l <= k /\ cur'[u] = p[k]
               /\ other'[u] = IF k = 1 THEN Null ELSE p[k - 1]
               /\ pc'[u] = "next" => node'[p[k]].next = Null
        BY <3>1, <3>2, <3>4 DEF Putting, Linking
      <3> QED BY <3>1, <3>2, <3>3, <3>5 DEF Putting
    <2> QED BY <2>1, <2>2
  <1> QED BY <1>8, <1>14, <1>15, <1>16, <1>17, <1>18, <1>19, <1>20, <1>21 DEF ListInv

\* The consumer has claimed no more than there is.
LEMMA TakenBound ==
    ASSUME TypeInv, NEW c, Consumer = {c}, NEW p, NEW lo, NEW w, NEW l, ListInv(c, p, lo, w, l)
    PROVE  Taken(c) \in Int /\ Taken(c) <= Len(p) /\ Released(c) \in Int /\ Released(c) <= Len(p)
  <1>1. Len(p) \in Nat /\ Len(p) = Len(order) /\ Len(got) \in Nat /\ l \in Nat
    <2>1. Grounds(c, p, lo, w, l)
      BY Ground
    <2> QED BY <2>1 DEF Grounds
  <1>2. Taking(c, p, lo, w, l)
    BY DEF ListInv
  <1>3. Len(got) <= Len(p)
    <2>1. CASE Len(got) = 0
      BY <1>1, <2>1
    <2>2. CASE Len(got) # 0
      <3>1. Len(got) \in 1..Len(got)
        BY <1>1, <2>2
      <3>2. Len(got) \in 1..Len(order)
        BY <1>2, <3>1 DEF Taking
      <3> QED BY <1>1, <3>2
    <2> QED BY <2>1, <2>2
  <1>4. pc[c] \in {"countout", "last", "lastswing"} => Len(got) + 1 <= Len(p)
    BY <1>1, <1>2 DEF Taking, AtNew
  <1>5. pc[c] = "copy" => Len(got) + 1 <= Len(p)
    BY <1>1, <1>2 DEF Taking, Listed
  <1> QED BY <1>1, <1>3, <1>4, <1>5 DEF Taken, Released

\* The item becomes the newest: no get finds it yet.
LEMMA SwapPtrStep ==
    ASSUME TypeInv, Stored, Mine, NEW c, Consumer = {c}, NEW p, NEW lo, NEW w, NEW l,
           ListInv(c, p, lo, w, l), NEW t \in Producer, SwapPtr(t), NEW q, q = Append(p, cur[t])
    PROVE  Stored' /\ Mine' /\ ListInv(c, q, lo, w, l)'
  <1> DEFINE N == Len(p)
             m == Head(todo[t])
  <1>1. OthersSame(t) /\ t \in Thread
    BY PutFrame DEF Put, Thread
  <1>2. /\ p \in Seq(Item) /\ N \in Nat /\ N = Len(order) /\ \A i \in 1..N : p[i] \in Item
        /\ lo \in Nat \ {0} /\ w \in Nat /\ l \in Nat
        /\ lo <= l /\ lo <= w + 1 /\ w < l /\ (l = 1 \/ l <= N)
    <2>1. Grounds(c, p, lo, w, l)
      BY Ground
    <2> QED BY <2>1 DEF Grounds
  <1>3. /\ pc[t] = "swap" /\ pc'[t] = "next" /\ cur'[t] = cur[t] /\ other'[t] = ptr /\ ptr' = cur[t]
        /\ order' = Append(order, m)
        /\ UNCHANGED <<node, lst, cache, free, todo, got, cur>>
    BY <1>1, NodeTypes DEF SwapPtr, Step, Goto, Set, store
  <1>4. /\ cur[t] \in Item /\ cur[t] \notin Spare /\ node[cur[t]] = Empty(m)
        /\ \A i \in Listed(p, lo, w, l) : cur[t] # p[i]
    <2>1. Putting(t, p, lo, w, l)
      BY DEF ListInv
    <2>2. cur[t] \in Item
      BY <1>1, <1>3, NodeTypes DEF TypeInv, InHand, InPut, Pointer
    <2> QED BY <1>3, <2>1, <2>2 DEF Putting
  <1>5. m \in Msg
    <2>1. todo[t] \in Seq(Msg) /\ todo[t] # <<>>
      BY <1>3, NodeTypes DEF TypeInv, InHand, InPut
    <2> QED BY <2>1
  <1>6. /\ q \in Seq(Item) /\ Len(q) = N + 1 /\ q[N + 1] = cur[t] /\ \A i \in 1..N : q[i] = p[i]
    BY <1>2, <1>4
  <1>7. /\ Len(order') = N + 1 /\ order'[N + 1] = m /\ \A i \in 1..N : order'[i] = order[i]
    <2>1. order \in Seq(Msg)
      BY NodeTypes
    <2> QED BY <1>2, <1>3, <1>5, <2>1
  <1> HIDE DEF N, m
  <1>8. /\ \A i : i \in Listed(q, lo, w, l) <=> i \in Listed(p, lo, w, l) \/ i = N + 1
        /\ \A i \in Listed(p, lo, w, l) : i \in 1..N
    BY <1>2, <1>6 DEF Listed, N
  <1>9. \A i \in 1..N : l <= i => i \in Listed(p, lo, w, l)
    BY DEF Listed, N
  <1>10. /\ \A u \in Producer : u # t =>
               /\ pc'[u] = pc[u] /\ cur'[u] = cur[u] /\ other'[u] = other[u]
         /\ \A u \in Producer : Linking(u)' <=> (Linking(u) \/ u = t)
         /\ ~Linking(t)
    BY <1>1, <1>3 DEF OthersSame, Thread, Linking
  <1>11. \A i \in Listed(p, lo, w, l) : Linked(q, i)' <=> Linked(p, i)
    BY <1>3, <1>4, <1>6, <1>8, <1>10 DEF Linked
  <1>12. ~Linked(q, N + 1)'
    BY <1>3, <1>6, <1>10 DEF Linked
  <1>13. Stored' /\ Spare' = Spare
    BY <1>3 DEF Stored, Spare, Cached
  <1>14. Mine'
    <2>1. \A u \in Producer : pc'[u] \in {"swap", "next", "prev"} => pc[u] \in {"swap", "next", "prev"}
      BY <1>3, <1>10
    <2> QED BY <1>3, <2>1 DEF Mine
  <1>15. Taking(c, q, lo, w, l)' /\ Taken(c)' = Taken(c) /\ Released(c)' = Released(c)
    <2>1. \A i \in {l, l + 1} : i <= Len(p) /\ Linked(p, i) => Linked(q, i)'
      BY <1>2, <1>9, <1>11 DEF N
    <2>2. \A i \in 1..Len(order) : i \in 1..Len(order') /\ order'[i] = order[i]
      BY <1>2, <1>7 DEF N
    <2>3. Len(q) \in Nat /\ Len(p) <= Len(q) /\ \A i \in 1..Len(p) : q[i] = p[i]
      BY <1>2, <1>6 DEF N
    <2> QED BY <1>1, <2>1, <2>2, <2>3, TakingKept, ZenonT(30)
  <1>16. Shape(q, lo, w, l)'
    <2>1. l = 1 \/ (l <= N + 1 /\ Linked(q, l)')
      <3>1. l = 1 \/ (l <= N /\ Linked(p, l))
        BY DEF ListInv, Shape, N
      <3> QED BY <1>2, <1>9, <1>11, <3>1
    <2> QED BY <1>2, <1>6, <1>7, <2>1 DEF Shape
  <1>17. Ends(q, l)'
    <2>1. lst = IF l <= N /\ Linked(p, l) THEN p[l] ELSE Null
      BY DEF ListInv, Ends, N
    <2>2. l <= N + 1 /\ Linked(q, l)' <=> l <= N /\ Linked(p, l)
      BY <1>2, <1>9, <1>11, <1>12
    <2>3. l <= N => q[l] = p[l]
      BY <1>2, <1>6
    <2>4. lst' = IF l <= N + 1 /\ Linked(q, l)' THEN q[l] ELSE Null
      BY <1>3, <2>1, <2>2, <2>3
    <2>5. q # <<>> /\ ptr' = q[Len(q)]
      BY <1>2, <1>3, <1>6
    <2> QED BY <1>6, <2>4, <2>5 DEF Ends
  <1>18. Newer(q, l)'
    <2>1. ASSUME NEW i \in 1..N + 1, l <= i
          PROVE  node[q[i]].prev = IF i < N + 1 /\ Linked(q, i + 1)' THEN q[i + 1] ELSE Null
      <3>1. CASE i = N + 1
        BY <1>2, <1>4, <1>6, <3>1 DEF Empty
      <3>2. CASE i = N
        <4>1. node[p[i]].prev = Null
          BY <1>2, <2>1, <3>2 DEF ListInv, Newer, N
        <4> QED BY <1>2, <1>6, <1>12, <3>2, <4>1
      <3>3. CASE i < N
        <4>1. node[p[i]].prev = IF Linked(p, i + 1) THEN p[i + 1] ELSE Null
          BY <1>2, <2>1, <3>3 DEF ListInv, Newer, N
        <4>2. i \in 1..N /\ i + 1 \in 1..N /\ l <= i + 1
          BY <1>2, <2>1, <3>3
        <4>3. Linked(q, i + 1)' <=> Linked(p, i + 1)
          BY <1>9, <1>11, <4>2
        <4> QED BY <1>2, <1>6, <3>3, <4>1, <4>2, <4>3
      <3>4. i = N + 1 \/ i = N \/ i < N
        BY <1>2
      <3> QED BY <3>1, <3>2, <3>3, <3>4
    <2> QED BY <1>3, <1>6, <2>1 DEF Newer
  <1>19. Apart(q, lo, w, l)'
    <2>1. \A i \in Listed(p, lo, w, l) : q[i] = p[i] /\ p[i] # cur[t] /\ p[i] \notin Spare
      BY <1>4, <1>6, <1>8 DEF ListInv, Apart
    <2>2. \A i, j \in Listed(p, lo, w, l) : p[i] = p[j] => i = j
      BY DEF ListInv, Apart
    <2>3. N + 1 \notin Listed(p, lo, w, l)
      BY <1>2, <1>8
    <2>4. ASSUME NEW i \in Listed(q, lo, w, l), NEW j \in Listed(q, lo, w, l), q[i] = q[j] PROVE i = j
      <3>1. i \in Listed(p, lo, w, l) \/ i = N + 1
        BY <1>8
      <3>2. j \in Listed(p, lo, w, l) \/ j = N + 1
        BY <1>8
      <3> QED BY <1>6, <2>1, <2>2, <2>4, <3>1, <3>2
    <2>5. \A i \in Listed(q, lo, w, l) : q[i] \notin Spare'
      BY <1>4, <1>6, <1>8, <1>13, <2>1
    <2> QED BY <2>4, <2>5 DEF Apart, Listed
  <1>20. Older(q, lo, w, l)'
    <2>1. ASSUME NEW i \in Listed(q, lo, w, l)
          PROVE  /\ i = lo => node[q[i]].next = Null
                 /\ i # lo /\ i - 1 \in Listed(q, lo, w, l)
                      => \/ node[q[i]].next = q[i - 1]
                         \/ \E u \in Producer : pc'[u] = "next" /\ cur'[u] = q[i]
      <3>1. CASE i = N + 1
        BY <1>3, <1>4, <1>6, <3>1 DEF Empty
      <3>2. CASE i \in Listed(p, lo, w, l)
        <4>1. i \in 1..N /\ q[i] = p[i]
          BY <1>6, <1>8, <3>2
        <4>2. i - 1 \in Listed(q, lo, w, l) => i - 1 \in Listed(p, lo, w, l) /\ q[i - 1] = p[i - 1]
          BY <1>2, <1>6, <1>8, <4>1
        <4>3. /\ i = lo => node[p[i]].next = Null
              /\ i # lo /\ i - 1 \in Listed(p, lo, w, l)
                   => \/ node[p[i]].next = p[i - 1]
                      \/ \E u \in Producer : pc[u] = "next" /\ cur[u] = p[i]
          BY <3>2 DEF ListInv, Older
        <4>4. \A u \in Producer : pc[u] = "next" => pc'[u] = "next" /\ cur'[u] = cur[u]
          BY <1>3, <1>10
        <4> QED BY <4>1, <4>2, <4>3, <4>4
      <3> QED BY <1>8, <2>1, <3>1, <3>2
    <2> QED BY <1>3, <2>1 DEF Older, Listed
  <1>21. Marks(c, q, lo, w, l)'
    <2>1. /\ Taken(c) \in Int /\ Taken(c) <= N /\ Released(c) \in Int /\ Released(c) <= N
      BY TakenBound DEF N
    <2>2. ASSUME NEW i \in Listed(q, lo, w, l)
          PROVE  /\ node[q[i]].payload = order'[i]
                 /\ node[q[i]].claimed <=> i <= Taken(c)
                 /\ node[q[i]].needrel <=> i <= Released(c)
      <3>1. CASE i = N + 1
        BY <1>2, <1>4, <1>6, <1>7, <2>1, <3>1 DEF Empty
      <3>2. CASE i \in Listed(p, lo, w, l)
        <4>1. i \in 1..N /\ q[i] = p[i] /\ order'[i] = order[i]
          BY <1>6, <1>7, <1>8, <3>2
        <4> QED BY <3>2, <4>1 DEF ListInv, Marks
      <3> QED BY <1>8, <2>2, <3>1, <3>2
    <2> QED BY <1>3, <1>15, <2>2 DEF Marks, Listed
  <1>22. ASSUME NEW u \in Producer PROVE Putting(u, q, lo, w, l)'
    <2>1. Putting(u, p, lo, w, l)
      BY DEF ListInv
    <2>2. CASE u = t
      <3>1. ptr = IF N = 0 THEN Null ELSE p[N]
        <4>1. ptr = IF p = <<>> THEN Null ELSE p[N]
          BY DEF ListInv, Ends, N
        <4> QED BY <1>2, <4>1 DEF N
      <3>2. /\ N + 1 \in 1..Len(q) /\ (N + 1 = 1 \/ N + 1 > l) /\ l <= N + 1
            /\ cur'[t] = q[N + 1] /\ node'[q[N + 1]].next = Null
            /\ other'[t] = IF N + 1 = 1 THEN Null ELSE q[N + 1 - 1]
        BY <1>2, <1>3, <1>4, <1>6, <3>1 DEF Empty
      <3>3. \E k \in 1..Len(q) :
               /\ k = 1 \/ k > l
               /\ l <= k /\ cur'[t] = q[k]
               /\ other'[t] = IF k = 1 THEN Null ELSE q[k - 1]
               /\ pc'[t] = "next" => node'[q[k]].next = Null
        <4>1. PICK k \in 1..Len(q) : k = N + 1
          BY <3>2
        <4>2. /\ k = 1 \/ k > l
              /\ l <= k /\ cur'[t] = q[k]
              /\ other'[t] = IF k = 1 THEN Null ELSE q[k - 1]
              /\ pc'[t] = "next" => node'[q[k]].next = Null
          <5>1. k = 1 \/ k > l
            BY <3>2, <4>1
          <5>2. l <= k /\ cur'[t] = q[k]
            BY <3>2, <4>1
          <5>3. other'[t] = IF k = 1 THEN Null ELSE q[k - 1]
            BY <1>2, <3>2, <4>1
          <5>4. node'[q[k]].next = Null
            BY <3>2, <4>1
          <5> QED BY <5>1, <5>2, <5>3, <5>4
        <4> QED BY <4>2
      <3> QED BY <1>3, <2>2, <3>3 DEF Putting
    <2>3. CASE u # t
      <3>1. pc'[u] = pc[u] /\ cur'[u] = cur[u] /\ other'[u] = other[u]
        BY <1>10, <2>3
      <3>2. pc[u] = "swap" => \A i \in Listed(q, lo, w, l) : cur[u] # q[i]
        <4>1. pc[u] = "swap" => cur[u] # cur[t]
          BY <1>3, <2>3 DEF Mine
        <4>2. \A i \in Listed(p, lo, w, l) : q[i] = p[i]
          BY <1>6, <1>8
        <4> QED BY <1>6, <1>8, <2>1, <4>1, <4>2 DEF Putting
      <3>3. Linking(u)' => \E k \in 1..Len(q) :
               /\ k = 1 \/ k > l
               /\ l <= k /\ cur'[u] = q[k]
               /\ other'[u] = IF k = 1 THEN Null ELSE q[k - 1]
               /\ pc'[u] = "next" => node'[q[k]].next = Null
        <4>1. ASSUME Linking(u)
              PROVE  \E k \in 1..Len(q) :
                       /\ k = 1 \/ k > l
                       /\ l <= k /\ cur[u] = q[k]
                       /\ other[u] = IF k = 1 THEN Null ELSE q[k - 1]
                       /\ pc[u] = "next" => node[q[k]].next = Null
          <5>1. PICK k \in 1..N :
                   /\ k = 1 \/ k > l
                   /\ l <= k /\ cur[u] = p[k]
                   /\ other[u] = IF k = 1 THEN Null ELSE p[k - 1]
                   /\ pc[u] = "next" => node[p[k]].next = Null
            BY <2>1, <4>1 DEF Putting, N
          <5>2. k \in 1..Len(q) /\ q[k] = p[k] /\ (k # 1 => q[k - 1] = p[k - 1])
            BY <1>2, <1>6
          <5> QED BY <5>1, <5>2
        <4> QED BY <1>3, <3>1, <4>1 DEF Linking
      <3> QED BY <1>3, <1>13, <2>1, <3>1, <3>2, <3>3 DEF Putting, Listed
    <2> QED BY <2>2, <2>3
  <1> QED BY <1>13, <1>14, <1>15, <1>16, <1>17, <1>18, <1>19, <1>20, <1>21, <1>22 DEF ListInv

\* Where a producer is that links its item.
LEMMA AtLink ==
    ASSUME TypeInv, NEW c, Consumer = {c}, NEW p, NEW lo, NEW w, NEW l, ListInv(c, p, lo, w, l),
           NEW t \in Producer, Linking(t), NEW k \in 1..Len(p),
           l <= k, cur[t] = p[k]
    PROVE  /\ k = 1 \/ k > l
           /\ other[t] = IF k = 1 THEN Null ELSE p[k - 1]
           /\ pc[t] = "next" => node[p[k]].next = Null
           /\ k \in Listed(p, lo, w, l)
  <1>1. PICK j \in 1..Len(p) :
           /\ j = 1 \/ j > l
           /\ l <= j /\ cur[t] = p[j]
           /\ other[t] = IF j = 1 THEN Null ELSE p[j - 1]
           /\ pc[t] = "next" => node[p[j]].next = Null
    BY DEF ListInv, Putting
  <1>2. j \in Listed(p, lo, w, l) /\ k \in Listed(p, lo, w, l)
    BY <1>1 DEF Listed
  <1>3. j = k
    BY <1>1, <1>2 DEF ListInv, Apart
  <1> QED BY <1>1, <1>2, <1>3

\* From now on taildealloc finds what is older than the item.
LEMMA LinkNextStep ==
    ASSUME TypeInv, Stored, Mine, NEW c, Consumer = {c}, NEW p, NEW lo, NEW w, NEW l,
           ListInv(c, p, lo, w, l), NEW t \in Producer, LinkNext(t)
    PROVE  Stored' /\ Mine' /\ ListInv(c, p, lo, w, l)'
  <1>1. OthersSame(t) /\ t \in Thread
    BY PutFrame DEF Put, Thread
  <1>2. /\ p \in Seq(Item) /\ Len(p) \in Nat /\ Len(p) = Len(order) /\ \A i \in 1..Len(p) : p[i] \in Item
        /\ lo \in Nat \ {0} /\ w \in Nat /\ l \in Nat
        /\ lo <= l /\ lo <= w + 1 /\ w < l /\ (l = 1 \/ l <= Len(p))
    <2>1. Grounds(c, p, lo, w, l)
      BY Ground
    <2> QED BY <2>1 DEF Grounds
  <1>3. /\ pc[t] = "next" /\ pc'[t] = "prev"
        /\ UNCHANGED <<ptr, lst, cache, free, todo, got, order, cur, other>>
        /\ node' = [node EXCEPT ![cur[t]].next = other[t]]
    BY <1>1, NodeTypes DEF LinkNext, Step, Goto, store, local
  <1>4. PICK k \in 1..Len(p) : l <= k /\ cur[t] = p[k]
    BY <1>3 DEF ListInv, Putting, Linking
  <1>5. /\ k = 1 \/ k > l
        /\ other[t] = IF k = 1 THEN Null ELSE p[k - 1]
        /\ k \in Listed(p, lo, w, l)
    <2>1. Linking(t)
      BY <1>3 DEF Linking
    <2>2. /\ k = 1 \/ k > l
          /\ other[t] = IF k = 1 THEN Null ELSE p[k - 1]
          /\ pc[t] = "next" => node[p[k]].next = Null
          /\ k \in Listed(p, lo, w, l)
      BY <1>4, <2>1, AtLink
    <2> QED BY <2>2
  <1>6. /\ \A i \in Item : i # p[k] => node'[i] = node[i]
        /\ node'[p[k]].next = other[t] /\ node'[p[k]].prev = node[p[k]].prev
        /\ node'[p[k]].payload = node[p[k]].payload
        /\ node'[p[k]].claimed = node[p[k]].claimed /\ node'[p[k]].needrel = node[p[k]].needrel
    BY <1>2, <1>3, <1>4, NodeTypes DEF Nodes
  <1>7. /\ \A i \in Listed(p, lo, w, l) : i \in 1..Len(p) /\ p[i] \in Item
        /\ \A i \in Listed(p, lo, w, l) : p[i] = p[k] => i = k
    <2>1. \A i \in Listed(p, lo, w, l) : i \in 1..Len(p)
      BY DEF Listed
    <2> QED BY <1>2, <1>5, <2>1 DEF ListInv, Apart
  <1>8. \A i \in Listed(p, lo, w, l) :
           /\ node'[p[i]].prev = node[p[i]].prev /\ node'[p[i]].payload = node[p[i]].payload
           /\ node'[p[i]].claimed = node[p[i]].claimed /\ node'[p[i]].needrel = node[p[i]].needrel
           /\ i # k => node'[p[i]] = node[p[i]]
    BY <1>6, <1>7
  <1>9. \A u \in Producer : u # t => pc'[u] = pc[u]
    BY <1>1 DEF OthersSame, Thread
  <1>10. \A u \in Producer : Linking(u)' <=> Linking(u)
    BY <1>3, <1>9 DEF Linking
  <1>11. \A i : Linked(p, i)' <=> Linked(p, i)
    BY <1>3, <1>10 DEF Linked
  <1>12. Stored' /\ Spare' = Spare
    BY <1>3 DEF Stored, Spare, Cached
  <1>13. Mine'
    <2>1. \A u \in Producer : pc'[u] \in {"swap", "next", "prev"} => pc[u] \in {"swap", "next", "prev"}
      BY <1>3, <1>9
    <2> QED BY <1>3, <2>1 DEF Mine
  <1>14. Taking(c, p, lo, w, l)' /\ Taken(c)' = Taken(c) /\ Released(c)' = Released(c)
    <2>1. /\ \A i \in {l, l + 1} : i <= Len(p) /\ Linked(p, i) => Linked(p, i)'
          /\ \A i \in 1..Len(order) : i \in 1..Len(order') /\ order'[i] = order[i]
      BY <1>3, <1>11
    <2> QED BY <1>1, <1>2, <2>1, TakingKept
  <1>15. Shape(p, lo, w, l)' /\ Ends(p, l)'
    BY <1>3, <1>11 DEF ListInv, Shape, Ends
  <1>16. Newer(p, l)'
    <2>1. \A i \in 1..Len(p) : l <= i => i \in Listed(p, lo, w, l)
      BY DEF Listed
    <2> QED BY <1>8, <1>11, <2>1 DEF ListInv, Newer
  <1>17. Apart(p, lo, w, l)'
    BY <1>12 DEF ListInv, Apart
  <1>18. Older(p, lo, w, l)'
    <2>1. ASSUME NEW i \in Listed(p, lo, w, l)
          PROVE  /\ i = lo => node'[p[i]].next = Null
                 /\ i # lo /\ i - 1 \in Listed(p, lo, w, l)
                      => \/ node'[p[i]].next = p[i - 1]
                         \/ \E u \in Producer : pc'[u] = "next" /\ cur'[u] = p[i]
      <3>1. CASE i = k
        <4>1. i = lo => k = 1
          BY <1>2, <1>4, <1>5, <3>1
        <4>2. i - 1 \in Listed(p, lo, w, l) => k # 1
          BY <1>2, <1>7, <3>1
        <4> QED BY <1>5, <1>6, <3>1, <4>1, <4>2
      <3>2. CASE i # k
        <4>1. /\ i = lo => node[p[i]].next = Null
              /\ i # lo /\ i - 1 \in Listed(p, lo, w, l)
                   => \/ node[p[i]].next = p[i - 1]
                      \/ \E u \in Producer : pc[u] = "next" /\ cur[u] = p[i]
          BY DEF ListInv, Older
        <4>2. p[i] # cur[t] /\ node'[p[i]] = node[p[i]]
          BY <1>4, <1>7, <1>8, <3>2
        <4>3. \A u \in Producer : cur[u] = p[i] => pc'[u] = pc[u] /\ cur'[u] = cur[u]
          BY <1>3, <1>9, <4>2
        <4> QED BY <4>1, <4>2, <4>3
      <3> QED BY <3>1, <3>2
    <2> QED BY <2>1 DEF Older
  <1>19. Marks(c, p, lo, w, l)'
    BY <1>3, <1>8, <1>14 DEF ListInv, Marks
  <1>20. ASSUME NEW u \in Producer PROVE Putting(u, p, lo, w, l)'
    <2>1. Putting(u, p, lo, w, l)
      BY DEF ListInv
    <2>2. pc'[u] \in {"idle", "pop"} => cur'[u] = Null
      BY <1>3, <1>9, <2>1 DEF Putting
    <2>3. pc'[u] = "swap" =>
             /\ cur[u] \notin Spare /\ node'[cur[u]] = Empty(Head(todo[u]))
             /\ \A i \in Listed(p, lo, w, l) : cur[u] # p[i]
      <3>1. pc'[u] = "swap" => pc[u] = "swap" /\ cur[u] \in Item
        <4>1. u \in Thread
          BY DEF Thread
        <4> QED BY <1>3, <1>9, <4>1, NodeTypes DEF TypeInv, InHand, InPut, Pointer
      <3>2. pc'[u] = "swap" => node'[cur[u]] = node[cur[u]]
        BY <1>5, <1>6, <2>1, <3>1 DEF Putting
      <3> QED BY <2>1, <3>1, <3>2 DEF Putting
    <2>4. ASSUME Linking(u)'
          PROVE  \E j \in 1..Len(p) :
                    /\ j = 1 \/ j > l
                    /\ l <= j /\ cur'[u] = p[j]
                    /\ other'[u] = IF j = 1 THEN Null ELSE p[j - 1]
                    /\ pc'[u] = "next" => node'[p[j]].next = Null
      <3>1. PICK j \in 1..Len(p) :
               /\ j = 1 \/ j > l
               /\ l <= j /\ cur[u] = p[j]
               /\ other[u] = IF j = 1 THEN Null ELSE p[j - 1]
               /\ pc[u] = "next" => node[p[j]].next = Null
        BY <1>10, <2>1, <2>4 DEF Putting
      <3>2. pc'[u] = "next" => u # t /\ pc[u] = "next"
        BY <1>3, <1>9
      <3>3. pc'[u] = "next" => p[j] # p[k]
        BY <1>3, <1>4, <3>1, <3>2 DEF Mine
      <3>4. pc'[u] = "next" => node'[p[j]].next = Null
        BY <1>2, <1>6, <3>1, <3>2, <3>3
      <3> QED BY <1>3, <3>1, <3>4
    <2> QED BY <1>3, <1>12, <2>2, <2>3, <2>4 DEF Putting
  <1> QED BY <1>12, <1>13, <1>14, <1>15, <1>16, <1>17, <1>18, <1>19, <1>20 DEF ListInv

\* From now on get finds the item.
LEMMA LinkPrevStep ==
    ASSUME TypeInv, Stored, Mine, NEW c, Consumer = {c}, NEW p, NEW lo, NEW w, NEW l,
           ListInv(c, p, lo, w, l), NEW t \in Producer, LinkPrev(t)
    PROVE  Stored' /\ Mine' /\ ListInv(c, p, lo, w, l)'
  <1>1. OthersSame(t) /\ t \in Thread
    BY PutFrame DEF Put, Thread
  <1>2. /\ p \in Seq(Item) /\ Len(p) \in Nat /\ Len(p) = Len(order)
        /\ \A i \in 1..Len(p) : p[i] \in Item /\ p[i] # Null
        /\ lo \in Nat \ {0} /\ w \in Nat /\ l \in Nat
        /\ lo <= l /\ lo <= w + 1 /\ w < l /\ (l = 1 \/ l <= Len(p))
    <2>1. Grounds(c, p, lo, w, l)
      BY Ground
    <2> QED BY <2>1 DEF Grounds
  <1>3. /\ pc[t] = "prev" /\ pc'[t] = "count"
        /\ UNCHANGED <<ptr, cache, free, todo, got, order, cur, other>>
        /\ lst' = (IF other[t] = Null THEN cur[t] ELSE lst)
        /\ node' = (IF other[t] = Null THEN node ELSE [node EXCEPT ![other[t]].prev = cur[t]])
    BY <1>1, NodeTypes DEF LinkPrev, LstIfFirst, LinkedBack, Step, Goto, store, local
  <1>4. PICK k \in 1..Len(p) : l <= k /\ cur[t] = p[k]
    BY <1>3 DEF ListInv, Putting, Linking
  <1>5. /\ k = 1 \/ k > l
        /\ other[t] = IF k = 1 THEN Null ELSE p[k - 1]
        /\ k \in Listed(p, lo, w, l)
    <2>1. Linking(t)
      BY <1>3 DEF Linking
    <2>2. /\ k = 1 \/ k > l
          /\ other[t] = IF k = 1 THEN Null ELSE p[k - 1]
          /\ pc[t] = "next" => node[p[k]].next = Null
          /\ k \in Listed(p, lo, w, l)
      BY <1>4, <2>1, AtLink
    <2> QED BY <2>2
  <1>6. /\ \A i \in Listed(p, lo, w, l) : i \in 1..Len(p) /\ p[i] \in Item
        /\ \A i, j \in Listed(p, lo, w, l) : p[i] = p[j] => i = j
        /\ \A i \in 1..Len(p) : l <= i => i \in Listed(p, lo, w, l)
    <2>1. \A i \in Listed(p, lo, w, l) : i \in 1..Len(p)
      BY DEF Listed
    <2>2. \A i \in 1..Len(p) : l <= i => i \in Listed(p, lo, w, l)
      BY DEF Listed
    <2> QED BY <1>2, <2>1, <2>2 DEF ListInv, Apart
  <1>7. k = 1 => other[t] = Null /\ l = 1
    BY <1>2, <1>4, <1>5
  <1>8. k # 1 => k - 1 \in 1..Len(p) /\ l <= k - 1 /\ k - 1 \in Listed(p, lo, w, l)
    BY <1>2, <1>4, <1>5, <1>6
  <1>9. /\ k = 1 => node' = node /\ lst' = p[1] /\ l = 1
        /\ k # 1 => lst' = lst /\ node' = [node EXCEPT ![p[k - 1]].prev = p[k]]
    <2>1. k # 1 => other[t] = p[k - 1] /\ p[k - 1] # Null
      BY <1>2, <1>5, <1>8
    <2>2. CASE k = 1
      BY <1>3, <1>4, <1>7, <2>2
    <2>3. CASE k # 1
      BY <1>3, <1>4, <2>1, <2>3
    <2> QED BY <2>2, <2>3
  <1>10. k # 1 => /\ \A i \in Item : i # p[k - 1] => node'[i] = node[i]
                  /\ node'[p[k - 1]].prev = p[k]
    <2>1. k # 1 => p[k - 1] \in Item
      BY <1>2, <1>8
    <2> QED BY <1>9, <2>1, NodeTypes DEF Nodes
  <1>11. \A i \in Item :
            /\ node'[i].next = node[i].next /\ node'[i].payload = node[i].payload
            /\ node'[i].claimed = node[i].claimed /\ node'[i].needrel = node[i].needrel
    <2>1. k # 1 => p[k - 1] \in Item
      BY <1>2, <1>8
    <2>2. CASE k = 1
      BY <1>9, <2>2
    <2>3. CASE k # 1
      <3>1. /\ node'[p[k - 1]].next = node[p[k - 1]].next
            /\ node'[p[k - 1]].payload = node[p[k - 1]].payload
            /\ node'[p[k - 1]].claimed = node[p[k - 1]].claimed
            /\ node'[p[k - 1]].needrel = node[p[k - 1]].needrel
        <4>1. PICK x \in Item : x = p[k - 1]
          BY <2>1, <2>3
        <4>2. node' = [node EXCEPT ![x].prev = p[k]]
          BY <1>9, <2>3, <4>1
        <4>3. /\ node'[x].next = node[x].next /\ node'[x].payload = node[x].payload
              /\ node'[x].claimed = node[x].claimed /\ node'[x].needrel = node[x].needrel
          BY <4>2, NodeTypes DEF Nodes
        <4> QED BY <4>1, <4>3
      <3>2. \A i \in Item : i # p[k - 1] => node'[i] = node[i]
        BY <1>10, <2>3
      <3> QED BY <3>1, <3>2
    <2> QED BY <2>2, <2>3
  <1>12. /\ \A u \in Producer : u # t => pc'[u] = pc[u]
         /\ \A u \in Producer : Linking(u)' <=> Linking(u) /\ u # t
    <2>1. \A u \in Producer : u # t => pc'[u] = pc[u]
      BY <1>1 DEF OthersSame, Thread
    <2> QED BY <1>3, <2>1 DEF Linking
  <1>13. \A i \in Listed(p, lo, w, l) : i # k => (Linked(p, i)' <=> Linked(p, i))
    <2>1. \A i \in Listed(p, lo, w, l) : i # k => cur[t] # p[i]
      BY <1>4, <1>5, <1>6
    <2> QED BY <1>3, <1>12, <2>1 DEF Linked
  <1>14. Linked(p, k)'
    <2>1. \A u \in Producer : Linking(u) /\ u # t => cur[u] # cur[t]
      BY <1>3 DEF Mine, Linking
    <2> QED BY <1>3, <1>4, <1>12, <2>1 DEF Linked
  <1>15. Stored' /\ Spare' = Spare
    BY <1>3 DEF Stored, Spare, Cached
  <1>16. Mine'
    <2>1. \A u \in Producer : pc'[u] \in {"swap", "next", "prev"} => pc[u] \in {"swap", "next", "prev"}
      BY <1>3, <1>12
    <2> QED BY <1>3, <2>1 DEF Mine
  <1>17. Taking(c, p, lo, w, l)' /\ Taken(c)' = Taken(c) /\ Released(c)' = Released(c)
    <2>1. \A i \in {l, l + 1} : i <= Len(p) /\ Linked(p, i) => Linked(p, i)'
      <3>1. \A i \in {l, l + 1} : i <= Len(p) => i \in Listed(p, lo, w, l)
        BY <1>2, <1>6
      <3> QED BY <1>13, <1>14, <3>1
    <2>2. \A i \in 1..Len(order) : i \in 1..Len(order') /\ order'[i] = order[i]
      BY <1>3
    <2> QED BY <1>1, <1>2, <2>1, <2>2, TakingKept
  <1>18. l <= Len(p) => (Linked(p, l)' <=> Linked(p, l) \/ k = 1)
    <2>1. l <= Len(p) => l \in Listed(p, lo, w, l)
      BY <1>2, <1>6
    <2>2. k = l <=> k = 1
      BY <1>2, <1>5, <1>9
    <2> QED BY <1>13, <1>14, <2>1, <2>2
  <1>19. Shape(p, lo, w, l)'
    BY <1>3, <1>18 DEF ListInv, Shape
  <1>20. Ends(p, l)'
    <2>1. /\ ptr = IF p = <<>> THEN Null ELSE p[Len(p)]
          /\ lst = IF l <= Len(p) /\ Linked(p, l) THEN p[l] ELSE Null
      BY DEF ListInv, Ends
    <2>2. lst' = IF l <= Len(p) /\ Linked(p, l)' THEN p[l] ELSE Null
      <3>1. CASE k = 1
        BY <1>2, <1>9, <1>18, <3>1
      <3>2. CASE k # 1
        BY <1>9, <1>18, <2>1, <3>2
      <3> QED BY <3>1, <3>2
    <2> QED BY <1>3, <2>1, <2>2 DEF Ends
  <1>21. Newer(p, l)'
    <2>1. ASSUME NEW i \in 1..Len(p), l <= i
          PROVE  node'[p[i]].prev = IF i < Len(p) /\ Linked(p, i + 1)' THEN p[i + 1] ELSE Null
      <3>1. CASE k # 1 /\ i = k - 1
        <4>1. i < Len(p) /\ i + 1 = k
          BY <1>2, <3>1
        <4> QED BY <1>10, <1>14, <3>1, <4>1
      <3>2. CASE k = 1 \/ i # k - 1
        <4>1. node'[p[i]] = node[p[i]]
          <5>1. k # 1 => p[i] # p[k - 1]
            BY <1>6, <1>8, <2>1, <3>2
          <5> QED BY <1>2, <1>9, <1>10, <5>1
        <4>2. i < Len(p) => i + 1 \in Listed(p, lo, w, l) /\ i + 1 # k
          <5>1. i < Len(p) => i + 1 \in 1..Len(p) /\ l <= i + 1 /\ i + 1 # 1
            BY <1>2, <2>1
          <5> QED BY <1>6, <3>2, <5>1
        <4>3. i < Len(p) => (Linked(p, i + 1)' <=> Linked(p, i + 1))
          BY <1>13, <4>2
        <4> QED BY <2>1, <4>1, <4>3 DEF ListInv, Newer
      <3> QED BY <3>1, <3>2
    <2> QED BY <2>1 DEF Newer
  <1>22. Apart(p, lo, w, l)'
    BY <1>15 DEF ListInv, Apart
  <1>23. Older(p, lo, w, l)'
    <2>1. \A u \in Producer : pc[u] = "next" => pc'[u] = "next" /\ cur'[u] = cur[u]
      BY <1>3, <1>12
    <2> QED BY <1>6, <1>11, <2>1 DEF ListInv, Older
  <1>24. Marks(c, p, lo, w, l)'
    BY <1>3, <1>6, <1>11, <1>17 DEF ListInv, Marks
  <1>25. ASSUME NEW u \in Producer PROVE Putting(u, p, lo, w, l)'
    <2>1. Putting(u, p, lo, w, l)
      BY DEF ListInv
    <2>2. pc'[u] \in {"idle", "pop"} => cur'[u] = Null
      BY <1>3, <1>12, <2>1 DEF Putting
    <2>3. pc'[u] = "swap" =>
             /\ cur[u] \notin Spare /\ node'[cur[u]] = Empty(Head(todo[u]))
             /\ \A i \in Listed(p, lo, w, l) : cur[u] # p[i]
      <3>1. pc'[u] = "swap" => pc[u] = "swap" /\ cur[u] \in Item
        <4>1. u \in Thread
          BY DEF Thread
        <4> QED BY <1>3, <1>12, <4>1, NodeTypes DEF TypeInv, InHand, InPut, Pointer
      <3>2. pc'[u] = "swap" => node'[cur[u]] = node[cur[u]]
        BY <1>8, <1>9, <1>10, <2>1, <3>1 DEF Putting
      <3> QED BY <2>1, <3>1, <3>2 DEF Putting
    <2>4. Linking(u)' => \E j \in 1..Len(p) :
                    /\ j = 1 \/ j > l
                    /\ l <= j /\ cur'[u] = p[j]
                    /\ other'[u] = IF j = 1 THEN Null ELSE p[j - 1]
                    /\ pc'[u] = "next" => node'[p[j]].next = Null
      <3>1. Linking(u)' => Linking(u) /\ pc'[u] = pc[u] /\ cur' = cur /\ other' = other
        BY <1>3, <1>12
      <3>2. \A j \in 1..Len(p) : node'[p[j]].next = node[p[j]].next
        BY <1>2, <1>11
      <3> QED BY <2>1, <3>1, <3>2 DEF Putting
    <2> QED BY <1>3, <1>15, <2>2, <2>3, <2>4 DEF Putting
  <1> QED BY <1>15, <1>16, <1>17, <1>19, <1>20, <1>21, <1>22, <1>23, <1>24, <1>25 DEF ListInv

----------------------------------------------------------------------------
(* The invariant, and what it shows *)

\* At first no item is in use.
LEMMA LinkInvInit == Init => LinkInv
  <1> SUFFICES ASSUME Init PROVE LinkInv
    OBVIOUS
  <1> USE CacheAssumption, PutsAssumption, ThreadAssumption
  <1>1. TypeInv
    <2>1. TypeOK
      <3>1. node \in [Item -> [next : Pointer, prev : Pointer, claimed : BOOLEAN,
                               needrel : BOOLEAN, payload : Msg \cup {Null}]]
        BY DEF Init, Empty, Pointer
      <3>2. /\ ptr \in Pointer /\ lst \in Pointer /\ len \in Int /\ doingrel \in BOOLEAN
            /\ cache \in [0..CacheSize-1 -> Pointer] /\ pos \in 0..CacheSize-1
            /\ free \subseteq Item
        <4>1. Null \in Pointer /\ 0 \in 0..CacheSize-1
          BY DEF Pointer
        <4>2. cache \in [0..CacheSize-1 -> Pointer]
          BY <4>1 DEF Init, EmptyCache
        <4>3. ptr = Null /\ lst = Null /\ len = 0 /\ doingrel = FALSE /\ pos = 0 /\ free = Item
          BY Zenon DEF Init
        <4>4. len \in Int /\ doingrel \in BOOLEAN
          <5>1. len \in Int
            BY <4>3
          <5>2. doingrel \in {TRUE, FALSE}
            BY Zenon, <4>3
          <5> QED BY <5>1, <5>2
        <4>5. ptr \in Pointer /\ lst \in Pointer /\ pos \in 0..CacheSize-1 /\ free \subseteq Item
          BY <4>1, <4>3
        <4> QED BY <4>2, <4>4, <4>5
      <3>3. /\ pc \in [Thread -> PCs] /\ todo \in [Producer -> Seq(Msg)]
            /\ cur \in [Thread -> Pointer] /\ other \in [Thread -> Pointer]
            /\ walk \in [Thread -> Pointer]
        BY DEF Init, Pointer, PCs
      <3>4. /\ slot \in [Thread -> 0..CacheSize-1] /\ first \in [Thread -> BOOLEAN]
            /\ order \in Seq(Msg) /\ got \in Seq(Msg)
        BY DEF Init
      <3> QED BY <3>1, <3>2, <3>3, <3>4 DEF TypeOK
    <2>2. Pointers
      BY DEF Init, Pointers, Known, Filled, Empty, EmptyCache, Pointer
    <2>3. InHand
      BY DEF Init, InHand, InPut, Thread
    <2> QED BY <2>1, <2>2, <2>3 DEF TypeInv
  <1>2. Stored /\ Mine
    <2>1. cache = [s \in 0..CacheSize-1 |-> Null]
      BY DEF Init, EmptyCache
    <2>2. Stored
      BY <2>1 DEF Stored, Cached
    <2>3. Mine
      BY DEF Init, Mine, Thread
    <2> QED BY <2>2, <2>3
  <1>3. ASSUME NEW c, Consumer = {c} PROVE ListInv(c, <<>>, 1, 0, 1)
    <2>1. /\ <<>> \in Seq(Item) /\ Len(<<>>) = 0 /\ c \in Thread
          /\ Listed(<<>>, 1, 0, 1) = {}
      BY <1>3 DEF Thread, Listed
    <2>2. /\ ptr = Null /\ lst = Null /\ doingrel = FALSE /\ order = <<>> /\ got = <<>>
          /\ pc[c] = "idle" /\ cur[c] = Null /\ first[c]
          /\ \A t \in Producer : pc[t] = "idle" /\ cur[t] = Null
      BY <2>1 DEF Init, Thread
    <2>3. Shape(<<>>, 1, 0, 1) /\ Ends(<<>>, 1)
      BY <2>1, <2>2 DEF Shape, Ends
    <2>4. Apart(<<>>, 1, 0, 1) /\ Older(<<>>, 1, 0, 1) /\ Marks(c, <<>>, 1, 0, 1)
      BY <2>1 DEF Apart, Older, Marks
    <2>5. Newer(<<>>, 1)
      BY <2>1 DEF Newer
    <2>6. \A t \in Producer : Putting(t, <<>>, 1, 0, 1)
      BY <2>2 DEF Putting, Linking
    <2>7. Taking(c, <<>>, 1, 0, 1)
      BY <2>1, <2>2 DEF Taking, AtOld, AtNew, AtEither
    <2> QED BY <2>3, <2>4, <2>5, <2>6, <2>7 DEF ListInv
  <1> QED BY <1>1, <1>2, <1>3 DEF LinkInv

\* Every step leaves the list as ListInv says, perhaps with other bounds.
LEMMA ListStep ==
    ASSUME TypeInv, Stored, Mine, NEW c, Consumer = {c}, NEW p, NEW lo, NEW w, NEW l,
           ListInv(c, p, lo, w, l), [Next]_vars
    PROVE  Stored' /\ Mine' /\ \E q, a, b, d : ListInv(c, q, a, b, d)'
  <1> DEFINE Goal == Stored' /\ Mine' /\ \E q, a, b, d : ListInv(c, q, a, b, d)'
  <1>1. ASSUME NEW t \in Producer, PutBegin(t) \/ Count(t) PROVE Goal
    <2>1. Stored' /\ Mine' /\ ListInv(c, p, lo, w, l)'
      BY <1>1, QuietPut
    <2> QED BY <2>1
  <1>2. ASSUME NEW t \in Producer, Pop(t) PROVE Goal
    <2>1. Stored' /\ Mine' /\ ListInv(c, p, lo, w, l)'
      BY <1>2, PopStep
    <2> QED BY <2>1
  <1>3. ASSUME NEW t \in Producer, SwapPtr(t) PROVE Goal
    <2>1. PICK q : q = Append(p, cur[t])
      OBVIOUS
    <2>2. Stored' /\ Mine' /\ ListInv(c, q, lo, w, l)'
      BY <1>3, <2>1, SwapPtrStep
    <2> QED BY <2>2
  <1>4. ASSUME NEW t \in Producer, LinkNext(t) PROVE Goal
    <2>1. Stored' /\ Mine' /\ ListInv(c, p, lo, w, l)'
      BY <1>4, LinkNextStep
    <2> QED BY <2>1
  <1>5. ASSUME NEW t \in Producer, LinkPrev(t) PROVE Goal
    <2>1. Stored' /\ Mine' /\ ListInv(c, p, lo, w, l)'
      BY <1>5, LinkPrevStep
    <2> QED BY <2>1
  <1>6. ASSUME \/ GetBegin(c) \/ Check(c) \/ Acquire(c) \/ TailFirst(c) \/ Free(c) \/ Unlock(c)
               \/ Recheck(c) \/ Advance(c) \/ CountOut(c) \/ LastOne(c)
        PROVE  Goal
    <2>1. /\ UNCHANGED <<node, ptr, lst, cache, free, got>>
          /\ Taken(c)' = Taken(c) /\ Released(c)' = Released(c)
          /\ Taking(c, p, lo, w, l)'
      BY <1>6, QuietSteps
    <2>2. SameProducers
      BY <1>6, GetFrame DEF Get
    <2>3. Stored' /\ Mine' /\ ListInv(c, p, lo, w, l)'
      BY <2>1, <2>2, QuietGet
    <2> QED BY <2>3
  <1>7. ASSUME Swing(c) \/ LastSwing(c) PROVE Goal
    <2>1. /\ UNCHANGED <<node, ptr, cache, free, got>>
          /\ w = l - 1 /\ l + 1 <= Len(p) /\ Linked(p, l) /\ Linked(p, l + 1) /\ lst' = p[l + 1]
          /\ Taken(c)' = Taken(c) /\ Released(c)' = Released(c) /\ Taking(c, p, lo, l, l + 1)'
      BY <1>7, LstSteps
    <2>2. SameProducers
      BY <1>7, GetFrame DEF Get
    <2>3. Stored' /\ Mine' /\ ListInv(c, p, lo, l, l + 1)'
      BY <2>1, <2>2, LstMoves
    <2> QED BY <2>3
  <1>8. ASSUME Push(c) PROVE Goal
    <2>1. Stored' /\ Mine' /\ ListInv(c, p, lo, w - 1, l)'
      BY <1>8, PushStep
    <2> QED BY <2>1
  <1>9. ASSUME TailDone(c) PROVE Goal
    <2>1. Stored' /\ Mine' /\ ListInv(c, p, l, l - 1, l)'
      BY <1>9, TailDoneStep
    <2> QED BY <2>1
  <1>10. ASSUME Claim(c) PROVE Goal
    <2>1. Stored' /\ Mine' /\ ListInv(c, p, lo, w, l)'
      BY <1>10, ClaimStep
    <2> QED BY <2>1
  <1>11. ASSUME Copy(c) PROVE Goal
    <2>1. Stored' /\ Mine' /\ ListInv(c, p, lo, w, l)'
      BY <1>11, CopyStep
    <2> QED BY <2>1
  <1>12. ASSUME Release(c) PROVE Goal
    <2>1. Stored' /\ Mine' /\ ListInv(c, p, lo, w, l)'
      BY <1>12, ReleaseStep
    <2> QED BY <2>1
  <1>13. ASSUME UNCHANGED vars PROVE Goal
    <2> USE <1>13 DEF vars, list, store, local
    <2>1. Stored' /\ Mine' /\ Spare' = Spare
      BY DEF Stored, Mine, Spare, Cached
    <2>2. Shape(p, lo, w, l)' /\ Ends(p, l)' /\ Newer(p, l)'
      BY DEF ListInv, Shape, Ends, Newer, Linked, Linking
    <2>3. Apart(p, lo, w, l)'
      BY <2>1 DEF ListInv, Apart
    <2>4. Older(p, lo, w, l)' /\ Marks(c, p, lo, w, l)'
      BY DEF ListInv, Older, Marks, Taken, Released
    <2>5. \A t \in Producer : Putting(t, p, lo, w, l)'
      BY <2>1 DEF ListInv, Putting, Linking
    <2>6. Taking(c, p, lo, w, l)'
      BY DEF ListInv, Taking, Linked, Linking
    <2>7. ListInv(c, p, lo, w, l)'
      BY <2>2, <2>3, <2>4, <2>5, <2>6 DEF ListInv
    <2> QED BY <2>1, <2>7
  <1> HIDE DEF Goal
  <1>14. ASSUME NEW t \in Producer, PutBegin(t) \/ Put(t) PROVE Goal
    BY <1>1, <1>2, <1>3, <1>4, <1>5, <1>14 DEF Put
  <1>15. ASSUME GetBegin(c) \/ Get(c) PROVE Goal
    BY <1>6, <1>7, <1>8, <1>9, <1>10, <1>11, <1>12, <1>15 DEF Get
  <1>16. Goal
    BY <1>13, <1>14, <1>15 DEF Next
  <1> QED BY <1>16 DEF Goal

\* The invariant is inductive.
LEMMA LinkInvStep == LinkInv /\ [Next]_vars => LinkInv'
  <1> SUFFICES ASSUME LinkInv, [Next]_vars PROVE LinkInv'
    OBVIOUS
  <1>1. TypeInv'
    BY TypeStep DEF LinkInv, ManyNext
  <1>2. ASSUME NEW c, Consumer = {c}
        PROVE  Stored' /\ Mine' /\ \E p, lo, w, l : ListInv(c, p, lo, w, l)'
    <2>1. TypeInv /\ Stored /\ Mine
      BY <1>2 DEF LinkInv
    <2>2. PICK p, lo, w, l : ListInv(c, p, lo, w, l)
      BY <1>2 DEF LinkInv
    <2>3. Stored' /\ Mine' /\ \E q, a, b, d : ListInv(c, q, a, b, d)'
      BY <1>2, <2>1, <2>2, ListStep
    <2> QED BY <2>3
  <1> QED BY <1>1, <1>2 DEF LinkInv

\* The list, seen by those who wait for it.
LEMMA LinkInvShows == LinkInv => InOrder /\ Private
  <1> SUFFICES ASSUME LinkInv, Cardinality(Consumer) = 1
               PROVE  /\ IsPrefix(got, order)
                      /\ \A t \in Thread :
                            /\ pc[t] # "count" => cur[t] \notin Cached \cup free
                            /\ pc[t] \in {"prev", "swing", "lastswing"} => other[t] \notin Cached \cup free
    BY DEF InOrder, Private
  <1>1. PICK c : Consumer = {c}
    BY ThreadAssumption, FS_Singleton
  <1>2. TypeInv /\ Stored /\ Mine
    BY <1>1 DEF LinkInv
  <1>3. PICK p, lo, w, l : ListInv(c, p, lo, w, l)
    BY <1>1 DEF LinkInv
  <1>4. /\ Len(p) \in Nat /\ Len(p) = Len(order) /\ l \in Nat /\ lo <= l /\ lo \in Nat \ {0}
        /\ Len(got) \in Nat /\ c \in Thread
    <2>1. Grounds(c, p, lo, w, l)
      BY <1>1, <1>2, <1>3, Ground
    <2> QED BY <2>1 DEF Grounds
  <1>5. Taking(c, p, lo, w, l)
    BY <1>3 DEF ListInv
  <1>6. IsPrefix(got, order)
    <2>1. got \in Seq(Msg) /\ order \in Seq(Msg) /\ Len(got) <= Len(order)
      <3>1. Len(got) = 0 \/ Len(got) \in 1..Len(order)
        BY <1>4, <1>5 DEF Taking
      <3> QED BY <1>2, <1>4, <3>1, NodeTypes
    <2>2. \A i \in 1..Len(got) : got[i] = order[i]
      BY <1>5 DEF Taking
    <2>3. got = SubSeq(order, 1, Len(got))
      BY <1>4, <2>1, <2>2
    <2> QED BY <2>1, <2>3 DEF IsPrefix
  <1>7. /\ \A i \in Listed(p, lo, w, l) : p[i] \notin Cached \cup free
        /\ \A i \in 1..Len(p) : l <= i => i \in Listed(p, lo, w, l)
        /\ Null \notin Cached \cup free
    BY <1>2, <1>3, NodeTypes DEF ListInv, Apart, Spare, Listed, Cached
  <1>8. ASSUME NEW t \in Producer
        PROVE  /\ pc[t] # "count" => cur[t] \notin Cached \cup free
               /\ pc[t] = "prev" => other[t] \notin Cached \cup free
               /\ pc[t] \notin {"swing", "lastswing"}
    <2>1. Putting(t, p, lo, w, l) /\ pc[t] \in {"idle", "pop", "swap", "next", "prev", "count"}
      BY <1>2, <1>3 DEF ListInv, TypeInv, InHand, InPut
    <2>2. ASSUME Linking(t)
          PROVE  cur[t] \notin Cached \cup free /\ other[t] \notin Cached \cup free
      <3>1. PICK k \in 1..Len(p) :
               /\ k = 1 \/ k > l
               /\ l <= k /\ cur[t] = p[k]
               /\ other[t] = IF k = 1 THEN Null ELSE p[k - 1]
        BY <2>1, <2>2 DEF Putting
      <3>2. k # 1 => k - 1 \in 1..Len(p) /\ l <= k - 1
        BY <1>4, <3>1
      <3> QED BY <1>7, <3>1, <3>2
    <2> QED BY <1>7, <2>1, <2>2 DEF Putting, Linking, Spare
  <1>9. pc[c] # "count" => cur[c] \notin Cached \cup free
    <2>1. pc[c] \in AtOld \cup AtNew \cup AtEither \cup {"idle", "copy", "release"}
      BY <1>1, <1>2, <1>4, <1>5, NodeTypes DEF Taking, TypeInv, InHand, InPut, PCs, AtOld, AtNew, AtEither
    <2>2. pc[c] \in AtOld \cup AtNew \cup AtEither => cur[c] = p[l] /\ l \in 1..Len(p)
      BY <1>4, <1>5 DEF Taking
    <2> QED BY <1>4, <1>5, <1>7, <2>1, <2>2 DEF Taking
  <1>10. pc[c] # "prev" /\ (pc[c] \in {"swing", "lastswing"} => other[c] \notin Cached \cup free)
    <2>1. pc[c] # "prev"
      BY <1>1, <1>2 DEF TypeInv, InHand, InPut
    <2>2. pc[c] \in {"swing", "lastswing"} => l + 1 \in 1..Len(p) /\ l <= l + 1 /\ other[c] = p[l + 1]
      BY <1>4, <1>5 DEF Taking
    <2> QED BY <1>7, <2>1, <2>2
  <1> QED BY <1>1, <1>6, <1>8, <1>9, <1>10 DEF Thread

\* The fields of the queue, of its items and of the cache, and what each thread
\* holds of them, have their types (queue.rs:22-90, 229-432).
THEOREM TypeCorrect == Spec => []TypeOK
  <1>1. LinkInv => TypeOK
    BY DEF LinkInv, TypeInv
  <1> QED BY <1>1, LinkInvInit, LinkInvStep, PTL DEF Spec

\* The same with several consumers, which meet items that another one has claimed
\* (queue.rs:424-430).
THEOREM TypeCorrectMany == ManySpec => []TypeOK
  <1>1. Init => TypeInv
    BY LinkInvInit DEF LinkInv
  <1>2. TypeInv => TypeOK
    BY DEF TypeInv
  <1> QED BY <1>1, <1>2, TypeStep, PTL DEF ManySpec

\* One consumer gets the messages in the order in which the puts swapped ptr, and
\* none twice (queue.rs:292-304, 400-426).
THEOREM QueueInOrder == Spec => []InOrder
  BY LinkInvInit, LinkInvStep, LinkInvShows, PTL DEF Spec

\* With one consumer no item goes to the cache, or is deallocated, while a thread
\* will still read or write it (queue.rs:331-344).
THEOREM ItemsPrivate == Spec => []Private
  BY LinkInvInit, LinkInvStep, LinkInvShows, PTL DEF Spec
=============================================================================
