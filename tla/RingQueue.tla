----------------------------- MODULE RingQueue ------------------------------
(***************************************************************************)
(* SizedRingQueue (src/src/queue.rs:92-197): a ring of slots, in which     *)
(* every put and every get draws a position from a counter and then works  *)
(* on its slot, whose state is 0 (empty), 1 (being filled), 2 (full) or 3  *)
(* (being emptied).  A step is one access to shared memory.                *)
(*                                                                         *)
(* The counters tx and rx are not cut to a machine word: the size of the   *)
(* ring divides 2^64.  broken records the first use that the ring does not *)
(* stand: a put that finds its slot in use, a put or a get that overtakes  *)
(* an earlier one by a whole lap, a get that comes back with nothing, or   *)
(* one that gives its position back after another has drawn the next.      *)
(***************************************************************************)
EXTENDS Integers, Sequences, SequencesExt, FiniteSets

CONSTANTS
    Producer, Consumer,
    Msg,
    Puts,      \* the messages that each producer puts, in order; each is put once
    Blocks,    \* the arguments of maybeget that consumers use
    Size,      \* mask + 1
    LenMod,    \* 2^64
    MaxPolls,  \* bound: gets that do not wait
    None

ASSUME SizeAssumption == Size \in Nat \ {0} /\ LenMod \in Nat \ {0} /\ MaxPolls \in Nat
ASSUME ThreadAssumption ==
    IsFiniteSet(Producer) /\ IsFiniteSet(Consumer) /\ Producer \cap Consumer = {}
ASSUME PutsAssumption ==
    /\ Puts \in [Producer -> Seq(Msg)] /\ None \notin Msg
    /\ \A p, q \in Producer : \A i \in DOMAIN Puts[p], j \in DOMAIN Puts[q] :
          Puts[p][i] = Puts[q][j] => p = q /\ i = j
ASSUME BlocksAssumption == Blocks \subseteq BOOLEAN

VARIABLES
    state, value,   \* of the slots
    tx, rx, len,
    pc,
    pos,            \* the position each thread has drawn
    block,          \* argument of maybeget
    todo,           \* what each producer has still to put
    order,          \* the message of each position drawn by a put (history)
    got,            \* what each consumer's gets returned (history)
    polls, broken   \* (history)

ring == <<state, value, tx, rx, len>>
history == <<order, got, polls, broken>>
vars == <<ring, pc, pos, block, todo, history>>

Thread == Producer \cup Consumer
Slot == 0..Size-1

TypeOK ==
    /\ state \in [Slot -> 0..3] /\ value \in [Slot -> Msg \cup {None}]
    /\ tx \in Nat /\ rx \in Nat /\ len \in 0..LenMod-1
    /\ pc \in [Thread -> {"idle", "claim", "again", "copy", "store", "count",
                        "back", "draw", "free"}]
    /\ pos \in [Thread -> Nat] /\ block \in [Consumer -> BOOLEAN]
    /\ todo \in [Producer -> Seq(Msg)]
    /\ order \in Seq(Msg) /\ got \in [Consumer -> Seq(Msg)]
    /\ polls \in 0..MaxPolls /\ broken \in BOOLEAN

\* SizedRingQueue::new
Init ==
    /\ state = [s \in Slot |-> 0] /\ value = [s \in Slot |-> None]
    /\ tx = 0 /\ rx = 0 /\ len = 0
    /\ pc = [t \in Thread |-> "idle"] /\ pos = [t \in Thread |-> 0]
    /\ block = [c \in Consumer |-> FALSE]
    /\ todo = Puts
    /\ order = <<>> /\ got = [c \in Consumer |-> <<>>]
    /\ polls = 0 /\ broken = FALSE

At(t) == pos[t] % Size
Step(t, from, to) == pc[t] = from /\ pc' = [pc EXCEPT ![t] = to]
SetState(t, s) == state' = [state EXCEPT ![At(t)] = s]

\* One of the threads has drawn the same slot before t and is not done with it.
Lapped(t, others) ==
    \E u \in others : pc[u] \in {"claim", "back"} /\ At(u) = At(t) /\ pos[u] < pos[t]

\* compare_and_swap of a slot's state
Swap(t, old, new) == IF state[At(t)] = old THEN SetState(t, new) ELSE UNCHANGED state

----------------------------------------------------------------------------
(* put *)

PutBegin(p) ==
    /\ todo[p] # <<>> /\ Step(p, "idle", "claim")
    /\ pos' = [pos EXCEPT ![p] = tx] /\ tx' = tx + 1
    /\ order' = Append(order, Head(todo[p]))
    /\ UNCHANGED <<state, value, rx, len, block, todo, got, polls, broken>>

\* The loop turns as long as the compare_and_swap succeeds: it claims an empty
\* slot and leaves at the second look, and leaves at once a slot in use.
Claim(p) ==
    /\ Step(p, "claim", IF state[At(p)] = 0 THEN "again" ELSE "copy")
    /\ Swap(p, 0, 1)
    /\ broken' = (broken \/ state[At(p)] # 0 \/ Lapped(p, Producer))
    /\ UNCHANGED <<value, tx, rx, len, pos, block, todo, order, got, polls>>

ClaimAgain(p) ==
    /\ Step(p, "again", IF state[At(p)] = 0 THEN "again" ELSE "copy")
    /\ Swap(p, 0, 1)
    /\ UNCHANGED <<value, tx, rx, len, pos, block, todo, history>>

\* The mutant marks the slot before the message is in it.
CopyMarked(p) == SetState(p, 2)
CopyUnmarked(p) == UNCHANGED state

CopyIn(p) ==
    /\ Step(p, "copy", "store")
    /\ value' = [value EXCEPT ![At(p)] = Head(todo[p])]
    /\ CopyUnmarked(p)
    /\ UNCHANGED <<tx, rx, len, pos, block, todo, history>>

\* The mutant leaves the slot claimed.
StoredNot(p) == UNCHANGED state
Stored(p) == SetState(p, 2)

Store(p) ==
    /\ Step(p, "store", "count")
    /\ Stored(p)
    /\ UNCHANGED <<value, tx, rx, len, pos, block, todo, history>>

CountIn(p) ==
    /\ Step(p, "count", "idle")
    /\ len' = (len + 1) % LenMod
    /\ todo' = [todo EXCEPT ![p] = Tail(@)]
    /\ UNCHANGED <<state, value, tx, rx, pos, block, history>>

----------------------------------------------------------------------------
(* maybeget *)

Draw(c) == pos' = [pos EXCEPT ![c] = rx] /\ rx' = rx + 1

GetBegin(c) ==
    /\ Step(c, "idle", "claim") /\ Draw(c)
    /\ \E b \in Blocks :
          /\ block' = [block EXCEPT ![c] = b]
          /\ b \/ polls < MaxPolls
          /\ polls' = IF b THEN polls ELSE polls + 1
    /\ UNCHANGED <<state, value, tx, len, todo, order, got, broken>>

Full(c) == state[At(c)] = 2

Take(c) ==
    /\ Full(c) /\ Step(c, "claim", "copy") /\ Swap(c, 2, 3)
    /\ broken' = (broken \/ Lapped(c, Consumer))
    /\ UNCHANGED <<value, tx, rx, len, pos, block, todo, order, got, polls>>

\* get does not wait: it returns None, and its position is spent.
ComeBack(c) ==
    /\ ~Full(c) /\ ~block[c] /\ Step(c, "claim", "idle")
    /\ broken' = TRUE
    /\ UNCHANGED <<ring, pos, block, todo, order, got, polls>>

\* A get that waits gives its position back, yields and draws again.  The mutant
\* keeps the position.
RxKept == rx
RxBack == rx - 1

Fail(c) ==
    /\ ~Full(c) /\ block[c] /\ Step(c, "claim", "back")
    /\ UNCHANGED <<ring, pos, block, todo, history>>

GiveBack(c) ==
    /\ Step(c, "back", "draw")
    /\ rx' = RxBack
    /\ broken' = (broken \/ rx # pos[c] + 1)
    /\ UNCHANGED <<state, value, tx, len, pos, block, todo, order, got, polls>>

DrawAgain(c) ==
    /\ Step(c, "draw", "claim") /\ Draw(c)
    /\ UNCHANGED <<state, value, tx, len, block, todo, history>>

CopyOut(c) ==
    /\ Step(c, "copy", "free")
    /\ got' = [got EXCEPT ![c] = Append(@, value[At(c)])]
    /\ UNCHANGED <<ring, pos, block, todo, order, polls, broken>>

Free(c) ==
    /\ Step(c, "free", "count")
    /\ SetState(c, 0)
    /\ UNCHANGED <<value, tx, rx, len, pos, block, todo, history>>

\* The mutants do not count messages out, or not in a machine word.
LenKept == len
LenSigned == len - 1
LenDown == (len - 1) % LenMod

CountOut(c) ==
    /\ Step(c, "count", "idle")
    /\ len' = LenDown
    /\ UNCHANGED <<state, value, tx, rx, pos, block, todo, history>>

----------------------------------------------------------------------------

Put(p) == Claim(p) \/ ClaimAgain(p) \/ CopyIn(p) \/ Store(p) \/ CountIn(p)
Get(c) ==
    \/ Take(c) \/ ComeBack(c) \/ Fail(c) \/ GiveBack(c) \/ DrawAgain(c)
    \/ CopyOut(c) \/ Free(c) \/ CountOut(c)

\* Nothing is said of a ring that is broken.
Next ==
    /\ ~broken
    /\ \/ \E p \in Producer : PutBegin(p) \/ Put(p)
       \/ \E c \in Consumer : GetBegin(c) \/ Get(c)

Spec == Init /\ [][Next]_vars

\* Puts are finished, and consumers keep calling get.
FairSpec ==
    /\ Spec
    /\ \A p \in Producer : WF_vars(Put(p))
    /\ \A c \in Consumer : WF_vars(GetBegin(c) \/ Get(c))

----------------------------------------------------------------------------
(* What must hold *)

Returned == {m \in Msg : \E c \in Consumer : m \in ToSet(got[c])}
Position(m) == CHOOSE i \in DOMAIN order : order[i] = m

\* Until it is broken the ring is a queue: no message is returned twice, each
\* consumer gets the messages in the order in which put drew their positions, and
\* none is passed over: the get that returns it has drawn its position, or will
\* (queue.rs:144-161, 167-195).
Fifo ==
    ~broken =>
        /\ \A c, d \in Consumer : \A i \in DOMAIN got[c], j \in DOMAIN got[d] :
              /\ got[c][i] = got[d][j] => c = d /\ i = j
              /\ c = d /\ i < j => Position(got[c][i]) < Position(got[d][j])
        /\ \A i \in DOMAIN order :
              \/ order[i] \in Returned
              \/ rx <= i - 1
              \/ \E c \in Consumer : pos[c] = i - 1 /\ pc[c] \in {"claim", "back", "copy"}

\* len is off by the threads between a slot and the count, and wraps below zero
\* when a get overtakes the put of its message (queue.rs:157-158, 192-193).
LenAccounting ==
    ~broken =>
        len = (Cardinality({s \in Slot : state[s] \in {2, 3}})
                 - Cardinality({p \in Producer : pc[p] = "count"})
                 + Cardinality({c \in Consumer : pc[c] = "count"})) % LenMod

\* A message that is put comes out, if consumers keep calling get and the ring is
\* never broken.
Arrives ==
    \A m \in Msg : m \in ToSet(order) ~> m \in Returned \/ broken
=============================================================================
