----------------------------- MODULE LinkQueue ------------------------------
(***************************************************************************)
(* The lock-free queue InfiniteLinkQueue and its cache of items,           *)
(* PointerCache (src/src/queue.rs:22-90, 229-432).                         *)
(*                                                                         *)
(* The items form a list, newest first: ptr is the newest, next leads to   *)
(* older ones and prev to newer ones, and lst is where get starts to look  *)
(* for an unclaimed item.  A get that starts at an item that is used up    *)
(* puts the older ones into the cache, from where put takes them again.    *)
(*                                                                         *)
(* A step is one access to shared memory, which is sequentially            *)
(* consistent; the stores by which put fills an item that nobody else has  *)
(* are one step.  The counters rinside, sent and needrel of the queue,     *)
(* which nothing reads, are left out.                                      *)
(***************************************************************************)
EXTENDS Integers, Sequences, SequencesExt, FiniteSets

CONSTANTS
    Producer, Consumer,
    Msg,
    Puts,        \* the messages that each producer puts, in order
    Item,        \* addresses of items
    CacheSize,   \* mask + 1
    Null

ASSUME CacheAssumption == CacheSize \in Nat \ {0} /\ Null \notin Item
\* A thread calls put or get; the consumers are finitely many.
ASSUME ThreadAssumption == Producer \cap Consumer = {} /\ IsFiniteSet(Consumer)
ASSUME PutsAssumption == Puts \in [Producer -> Seq(Msg)]

VARIABLES
    node,          \* the items' fields
    ptr, lst, len, doingrel,
    cache, pos,    \* PointerCache
    free,          \* addresses that are not allocated
    pc,
    todo,          \* what each producer has still to put
    cur,           \* the item each thread works on
    other,         \* one it has read: oldhead, nlst or ncur
    walk,          \* cur of taildealloc
    slot,          \* position in the cache
    first,
    order, got     \* messages in the order of the swaps of ptr, and as returned (history)

list == <<node, ptr, lst, len, doingrel>>
store == <<cache, pos, free>>
local == <<cur, other, walk, slot, first>>
vars == <<list, store, pc, todo, local, order, got>>

Thread == Producer \cup Consumer
Pointer == Item \cup {Null}
PCs == {"idle", "pop", "swap", "next", "prev", "count", "check", "acquire", "tail",
        "free", "push", "unlock", "recheck", "advance", "swing", "claim", "onward",
        "countout", "last", "lastswing", "copy", "release"}

TypeOK ==
    /\ node \in [Item -> [next : Pointer, prev : Pointer, claimed : BOOLEAN,
                          needrel : BOOLEAN, payload : Msg \cup {Null}]]
    /\ ptr \in Pointer /\ lst \in Pointer /\ len \in Int /\ doingrel \in BOOLEAN
    /\ cache \in [0..CacheSize-1 -> Pointer] /\ pos \in 0..CacheSize-1
    /\ free \subseteq Item
    /\ pc \in [Thread -> PCs]
    /\ todo \in [Producer -> Seq(Msg)]
    /\ cur \in [Thread -> Pointer] /\ other \in [Thread -> Pointer]
    /\ walk \in [Thread -> Pointer]
    /\ slot \in [Thread -> 0..CacheSize-1] /\ first \in [Thread -> BOOLEAN]
    /\ order \in Seq(Msg) /\ got \in Seq(Msg)

Empty(m) == [next |-> Null, prev |-> Null, claimed |-> FALSE, needrel |-> FALSE,
             payload |-> m]

\* PointerCache::new
EmptyCache == [s \in 0..CacheSize-1 |-> Null]

\* InfiniteLinkQueue::new
Init ==
    /\ node = [i \in Item |-> Empty(Null)]
    /\ ptr = Null /\ lst = Null /\ len = 0 /\ doingrel = FALSE
    /\ cache = EmptyCache /\ pos = 0
    /\ free = Item
    /\ pc = [t \in Thread |-> "idle"]
    /\ todo = Puts
    /\ cur = [t \in Thread |-> Null] /\ other = [t \in Thread |-> Null]
    /\ walk = [t \in Thread |-> Null]
    /\ slot = [t \in Thread |-> 0] /\ first = [t \in Thread |-> TRUE]
    /\ order = <<>> /\ got = <<>>

Goto(t, to) == pc' = [pc EXCEPT ![t] = to]
Step(t, from, to) == pc[t] = from /\ Goto(t, to)
Set(f, t, value) == [f EXCEPT ![t] = value]

\* The end of a call; what the thread had is of no use any more.
Return(t, from) ==
    /\ Step(t, from, "idle")
    /\ cur' = Set(cur, t, Null) /\ other' = Set(other, t, Null)
    /\ walk' = Set(walk, t, Null) /\ slot' = Set(slot, t, 0) /\ first' = Set(first, t, TRUE)

----------------------------------------------------------------------------
(* put *)

\* A position in the cache.  The mutant forgets the mask.
Unmasked(p) == p
Masked(p) == p % CacheSize

\* PointerCache::pop steps back in the cache ...
PutBegin(t) ==
    /\ todo[t] # <<>>
    /\ Step(t, "idle", "pop")
    /\ pos' = Masked(pos - 1)
    /\ slot' = Set(slot, t, pos')
    /\ UNCHANGED <<list, cache, free, todo, cur, other, walk, first, order, got>>

\* ... and swaps null in; if there was no item one is allocated.
Pop(t) ==
    /\ Step(t, "pop", "swap")
    /\ cache' = Set(cache, slot[t], Null)
    /\ \E i \in IF cache[slot[t]] # Null THEN {cache[slot[t]]} ELSE free :
          /\ cur' = Set(cur, t, i)
          /\ free' = free \ {i}
          /\ node' = Set(node, i, Empty(Head(todo[t])))
    /\ UNCHANGED <<ptr, lst, len, doingrel, pos, todo, other, walk, slot, first, order, got>>

SwapPtr(t) ==
    /\ Step(t, "swap", "next")
    /\ other' = Set(other, t, ptr)
    /\ ptr' = cur[t]
    /\ order' = Append(order, Head(todo[t]))
    /\ UNCHANGED <<node, lst, len, doingrel, store, todo, cur, walk, slot, first, got>>

LinkNext(t) ==
    /\ Step(t, "next", "prev")
    /\ node' = [node EXCEPT ![cur[t]].next = other[t]]
    /\ UNCHANGED <<ptr, lst, len, doingrel, store, todo, local, order, got>>

\* From here on get finds the item.  The mutants: lst moves to every new item;
\* the older item does not learn of the newer one.
LstAlways(t) == cur[t]
LstIfFirst(t) == IF other[t] = Null THEN cur[t] ELSE lst
NotLinkedBack(t) == node
LinkedBack(t) == IF other[t] = Null THEN node
                                    ELSE [node EXCEPT ![other[t]].prev = cur[t]]

LinkPrev(t) ==
    /\ Step(t, "prev", "count")
    /\ lst' = LstIfFirst(t)
    /\ node' = LinkedBack(t)
    /\ UNCHANGED <<ptr, len, doingrel, store, todo, local, order, got>>

Count(t) ==
    /\ Return(t, "count")
    /\ len' = len + 1
    /\ todo' = Set(todo, t, Tail(todo[t]))
    /\ UNCHANGED <<node, ptr, lst, doingrel, store, order, got>>

Put(t) == Pop(t) \/ SwapPtr(t) \/ LinkNext(t) \/ LinkPrev(t) \/ Count(t)

----------------------------------------------------------------------------
(* get *)

\* With no lst it returns None.
GetBegin(t) ==
    /\ lst # Null
    /\ Step(t, "idle", "check")
    /\ cur' = Set(cur, t, lst)
    /\ UNCHANGED <<list, store, todo, other, walk, slot, first, order, got>>

Check(t) ==
    /\ Step(t, "check", IF node[cur[t]].needrel THEN "acquire" ELSE "recheck")
    /\ UNCHANGED <<list, store, todo, local, order, got>>

Acquire(t) ==
    /\ Step(t, "acquire", IF doingrel THEN "recheck" ELSE "tail")
    /\ doingrel' = TRUE
    /\ UNCHANGED <<node, ptr, lst, len, store, todo, local, order, got>>

\* taildealloc frees what is after cur.  The mutant frees cur, too.
TailWithItself(t) == cur[t]
TailAfter(t) == node[cur[t]].next

TailFirst(t) ==
    /\ Step(t, "tail", "free")
    /\ walk' = Set(walk, t, TailAfter(t))
    /\ UNCHANGED <<list, store, todo, cur, other, slot, first, order, got>>

\* PointerCache::push steps forward: its fetch_add is one step with the load of next
\* that taildealloc makes just before it ...
Free(t) ==
    /\ walk[t] # Null
    /\ Step(t, "free", "push")
    /\ other' = Set(other, t, node[walk[t]].next)
    /\ slot' = Set(slot, t, pos)
    /\ pos' = Masked(pos + 1)
    /\ UNCHANGED <<list, cache, free, todo, cur, walk, first, order, got>>

\* ... swaps the item in, and deallocates the one that was there.
Push(t) ==
    /\ Step(t, "push", "free")
    /\ cache' = Set(cache, slot[t], walk[t])
    /\ free' = free \cup ({cache[slot[t]]} \ {Null})
    /\ walk' = Set(walk, t, other[t])
    /\ UNCHANGED <<list, pos, todo, cur, other, slot, first, order, got>>

TailDone(t) ==
    /\ walk[t] = Null
    /\ Step(t, "free", "unlock")
    /\ node' = [node EXCEPT ![cur[t]].next = Null]
    /\ UNCHANGED <<ptr, lst, len, doingrel, store, todo, local, order, got>>

Unlock(t) ==
    /\ Step(t, "unlock", "recheck")
    /\ doingrel' = FALSE
    /\ UNCHANGED <<node, ptr, lst, len, store, todo, local, order, got>>

Recheck(t) ==
    /\ Step(t, "recheck", IF node[cur[t]].needrel THEN "advance" ELSE "claim")
    /\ UNCHANGED <<list, store, todo, local, order, got>>

\* lst moves on to a newer item, if there is one.
Advance(t) ==
    /\ pc[t] = "advance"
    /\ IF node[cur[t]].prev = Null
       THEN Return(t, "advance")
       ELSE /\ Goto(t, "swing")
            /\ other' = Set(other, t, node[cur[t]].prev)
            /\ UNCHANGED <<cur, walk, slot, first>>
    /\ UNCHANGED <<list, store, todo, order, got>>

\* lst.compare_and_swap(cur, nlst)
LstAfter(t) == IF lst = cur[t] THEN other[t] ELSE lst

Swing(t) ==
    /\ Step(t, "swing", "claim")
    /\ lst' = LstAfter(t)
    /\ cur' = Set(cur, t, other[t])
    /\ UNCHANGED <<node, ptr, len, doingrel, store, todo, other, walk, slot, first, order, got>>

Claim(t) ==
    /\ Step(t, "claim", IF node[cur[t]].claimed THEN "onward" ELSE "countout")
    /\ node' = [node EXCEPT ![cur[t]].claimed = TRUE]
    /\ UNCHANGED <<ptr, lst, len, doingrel, store, todo, local, order, got>>

\* A claimed item: the next newer one, or None.  Only a second consumer can have
\* claimed it and not be done with it.
Onward(t) ==
    /\ pc[t] = "onward"
    /\ IF node[cur[t]].prev = Null
       THEN Return(t, "onward")
       ELSE /\ Goto(t, "claim")
            /\ cur' = Set(cur, t, node[cur[t]].prev)
            /\ first' = Set(first, t, FALSE)
            /\ UNCHANGED <<other, walk, slot>>
    /\ UNCHANGED <<list, store, todo, order, got>>

CountOut(t) ==
    /\ Step(t, "countout", IF first[t] THEN "last" ELSE "copy")
    /\ len' = len - 1
    /\ UNCHANGED <<node, ptr, lst, doingrel, store, todo, local, order, got>>

LastOne(t) ==
    /\ Step(t, "last", IF node[cur[t]].prev = Null THEN "copy" ELSE "lastswing")
    /\ other' = Set(other, t, node[cur[t]].prev)
    /\ UNCHANGED <<list, store, todo, cur, walk, slot, first, order, got>>

LastSwing(t) ==
    /\ Step(t, "lastswing", "copy")
    /\ lst' = LstAfter(t)
    /\ UNCHANGED <<node, ptr, len, doingrel, store, todo, local, order, got>>

Copy(t) ==
    /\ Step(t, "copy", "release")
    /\ got' = Append(got, node[cur[t]].payload)
    /\ UNCHANGED <<list, store, todo, local, order>>

Release(t) ==
    /\ Return(t, "release")
    /\ node' = [node EXCEPT ![cur[t]].needrel = TRUE]
    /\ UNCHANGED <<ptr, lst, len, doingrel, store, todo, order, got>>

Get(t) ==
    \/ Check(t) \/ Acquire(t) \/ TailFirst(t) \/ Free(t) \/ Push(t) \/ TailDone(t)
    \/ Unlock(t) \/ Recheck(t) \/ Advance(t) \/ Swing(t) \/ Claim(t)
    \/ CountOut(t) \/ LastOne(t) \/ LastSwing(t) \/ Copy(t) \/ Release(t)

----------------------------------------------------------------------------

Next ==
    \/ \E t \in Producer : PutBegin(t) \/ Put(t)
    \/ \E t \in Consumer : GetBegin(t) \/ Get(t)

Spec == Init /\ [][Next]_vars

\* With several consumers.
ManyNext == Next \/ \E t \in Consumer : Onward(t)
ManySpec == Init /\ [][ManyNext]_vars

\* One consumer: producers finish their puts, and the consumer keeps calling get.
FairSpec ==
    /\ Spec
    /\ \A t \in Producer : WF_vars(PutBegin(t) \/ Put(t))
    /\ \A t \in Consumer : WF_vars(GetBegin(t) \/ Get(t))

----------------------------------------------------------------------------
(* What must hold *)

\* One consumer gets the messages in the order in which put swapped ptr: none is
\* lost, doubled or overtaken, however the producers' links interleave
\* (queue.rs:292-304, 400-426).
InOrder == Cardinality(Consumer) = 1 => IsPrefix(got, order)

\* The items that a thread will still read or write.
Used(t) == {cur[t], walk[t], other[t]} \ {Null}
Cached == {cache[s] : s \in DOMAIN cache} \ {Null}

\* No item is given to the cache, or deallocated, while a producer is still
\* linking it or the consumer walks over it ("Frees anything after `after` but
\* not `after` itself", queue.rs:331-344).
Private ==
    Cardinality(Consumer) = 1 =>
        \A t \in Thread :
            /\ pc[t] # "count" => cur[t] \notin Cached \cup free
            /\ pc[t] \in {"prev", "swing", "lastswing"} => other[t] \notin Cached \cup free

\* A consumer that keeps calling get has every message in the end.
Arrives == \A m \in Msg : (m \in ToSet(order)) ~> (m \in ToSet(got))

\* "Provides a high throughput MPMC queue implementation." (lib.rs:90): no
\* message is returned twice.
Once == IsInjective(got)
=============================================================================
