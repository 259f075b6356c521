------------------------------ MODULE Endpoint ------------------------------
(***************************************************************************)
(* One endpoint of a water net (src/src/endpoint.rs): the message queue,   *)
(* its two limits, the memory counter, and the mutex and the condition     *)
(* variable on which receivers sleep.  Any number of threads share the     *)
(* endpoint through clones of its handle and call give (on behalf of a     *)
(* sender), recv, recvorblock and recvorblockforever at the same time.     *)
(*                                                                         *)
(* A step is one access to shared state: an atomic operation, one call of  *)
(* the queue (a Mutex<Vec>, hence atomic), a lock, a wait.  The release of *)
(* a lock is part of the step before it.  The address filter at the head   *)
(* of give is in module Delivery; here a call of give is one that passed.  *)
(***************************************************************************)
EXTENDS Integers, Sequences, FiniteSets, FiniteSetsExt

CONSTANTS
    Thread,          \* threads that hold a handle of this endpoint
    Msg,             \* messages; each is in use at most once at a time
    SyncMsg,         \* those with a sync payload, which one receiver takes
    Cap,             \* Message::cap of each message
    Calls,           \* the methods each thread calls
    PendingLimits,   \* values given to setlimitpending (0: no limit)
    MemoryLimits,    \* values given to setlimitmemory (0: no limit)
    UsizeMod,        \* 2^w for the width w of usize
    SpuriousWakeups, \* whether the condition variable wakes without cause
    NoThread, NoMsg

Operations == {"give", "recv", "recvorblock", "recvorblockforever"}
BlockingOps == {"recvorblock", "recvorblockforever"}

ASSUME ThreadAssumption == IsFiniteSet(Thread) /\ NoThread \notin Thread
ASSUME MsgAssumption == NoMsg \notin Msg /\ SyncMsg \subseteq Msg
ASSUME UsizeAssumption == UsizeMod \in Nat \ {0}
ASSUME CapAssumption == Cap \in [Msg -> Nat]
ASSUME CallsAssumption == Calls \in [Thread -> SUBSET Operations]
ASSUME LimitAssumption ==
    /\ PendingLimits \subseteq Nat /\ MemoryLimits \subseteq Nat
    /\ \E greatest \in PendingLimits : \A n \in PendingLimits : n <= greatest
    /\ \E greatest \in MemoryLimits : \A n \in MemoryLimits : n <= greatest
ASSUME SpuriousAssumption == SpuriousWakeups \in BOOLEAN

VARIABLES
    messages,      \* SafeQueue<Message>
    memoryused,    \* AtomicUint
    limitpending,  \* AtomicUint
    limitmemory,   \* AtomicUint
    waitmutex,     \* the thread that holds it, or NoThread
    valid,         \* the flag all copies of a sync message share
    pc,            \* what each thread does next
    op,            \* the call each thread is in
    hand,          \* the message that call gives or has taken out
    limit,         \* the limit it loaded and has not compared yet
    expired        \* its last sleep ended by the timeout

limits == <<limitpending, limitmemory>>
call == <<op, hand, limit, expired>>
vars == <<messages, memoryused, limits, waitmutex, valid, pc, call>>

PCs == {"idle", "pending", "memory", "used", "lock", "put", "account", "notify",
        "get", "release", "take", "wait", "asleep", "woken"}

Queued == {messages[i] : i \in 1..Len(messages)}
InUse == Queued \cup {hand[t] : t \in Thread}
Asleep == {t \in Thread : pc[t] = "asleep"}

TypeOK ==
    /\ messages \in Seq(Msg)
    /\ memoryused \in 0..UsizeMod-1
    /\ limitpending \in PendingLimits
    /\ limitmemory \in MemoryLimits
    /\ waitmutex \in Thread \cup {NoThread}
    /\ valid \in [SyncMsg -> BOOLEAN]
    /\ pc \in [Thread -> PCs]
    /\ op \in [Thread -> Operations \cup {"none"}]
    /\ hand \in [Thread -> Msg \cup {NoMsg}]
    /\ limit \in [Thread -> Nat]
    /\ expired \in [Thread -> BOOLEAN]

\* An endpoint whose creator has set the limits and handed out the clones.
Init ==
    /\ messages = <<>>
    /\ memoryused = 0
    /\ limitpending \in PendingLimits
    /\ limitmemory \in MemoryLimits
    /\ waitmutex = NoThread
    /\ valid = [m \in SyncMsg |-> FALSE]
    /\ pc = [t \in Thread |-> "idle"]
    /\ op = [t \in Thread |-> "none"]
    /\ hand = [t \in Thread |-> NoMsg]
    /\ limit = [t \in Thread |-> 0]
    /\ expired = [t \in Thread |-> FALSE]

----------------------------------------------------------------------------
(* Shared pieces of the steps *)

Step(t, from, to) == pc[t] = from /\ pc' = [pc EXCEPT ![t] = to]

\* The mutant leaves through the timeout with the guard still held.
GuardAfterTimeoutKept(t) ==
    IF op[t] \in BlockingOps /\ ~expired[t] THEN NoThread ELSE waitmutex
GuardAfter(t) == IF op[t] \in BlockingOps THEN NoThread ELSE waitmutex

\* The end of a call: the guard of waitmutex, if the call holds one, drops.
Return(t, from) ==
    /\ Step(t, from, "idle")
    /\ op' = [op EXCEPT ![t] = "none"]
    /\ hand' = [hand EXCEPT ![t] = NoMsg]
    /\ limit' = [limit EXCEPT ![t] = 0]
    /\ expired' = [expired EXCEPT ![t] = FALSE]
    /\ waitmutex' = GuardAfter(t)

\* give goes on below a limit; the loaded value is not used again.
Pass(t, from, to) ==
    /\ Step(t, from, to)
    /\ limit' = [limit EXCEPT ![t] = 0]
    /\ UNCHANGED <<waitmutex, op, hand, expired>>

Lock(t) == waitmutex = NoThread /\ waitmutex' = t
Unlock == waitmutex' = NoThread

----------------------------------------------------------------------------
(* Endpoint::give, from the load of limitpending on *)

\* A sync message reaches the endpoint fresh, or after the receiver of
\* another endpoint has taken it.
GiveBegin(t, m) ==
    /\ "give" \in Calls[t] /\ m \notin InUse
    /\ IF m \in SyncMsg THEN \E v \in BOOLEAN : valid' = [valid EXCEPT ![m] = v]
                        ELSE UNCHANGED valid
    /\ op' = [op EXCEPT ![t] = "give"]
    /\ hand' = [hand EXCEPT ![t] = m]
    /\ limit' = [limit EXCEPT ![t] = limitpending]
    /\ Step(t, "idle", IF limitpending > 0 THEN "pending" ELSE "memory")
    /\ UNCHANGED <<messages, memoryused, limits, waitmutex, expired>>

QueueFullOffByOne(t) == Len(messages) > limit[t]
QueueFull(t) == Len(messages) >= limit[t]

GivePending(t) ==
    /\ IF QueueFull(t)
       THEN Return(t, "pending")
       ELSE Pass(t, "pending", "memory")
    /\ UNCHANGED <<messages, memoryused, limits, valid>>

GiveMemory(t) ==
    /\ limit' = [limit EXCEPT ![t] = limitmemory]
    /\ Step(t, "memory", IF limitmemory > 0 THEN "used" ELSE "lock")
    /\ UNCHANGED <<messages, memoryused, limits, waitmutex, valid, op, hand, expired>>

MemoryFullOffByOne(t) == memoryused > limit[t]
MemoryFull(t) == memoryused >= limit[t]

GiveUsed(t) ==
    /\ IF MemoryFull(t)
       THEN Return(t, "used")
       ELSE Pass(t, "used", "lock")
    /\ UNCHANGED <<messages, memoryused, limits, valid>>

GiveLock(t) ==
    /\ Step(t, "lock", "put")
    /\ Lock(t)
    /\ UNCHANGED <<messages, memoryused, limits, valid, call>>

GivePut(t) ==
    /\ Step(t, "put", "account")
    /\ messages' = Append(messages, hand[t])
    /\ UNCHANGED <<memoryused, limits, waitmutex, valid, call>>

GiveAccount(t) ==
    /\ Step(t, "account", "notify")
    /\ memoryused' = (memoryused + Cap[hand[t]]) % UsizeMod
    /\ Unlock
    /\ UNCHANGED <<messages, limits, valid, call>>

\* notify_one wakes a sleeper, if there is one.  The mutant notifies only for
\* the message that ends an empty queue.
NotifiedFirst == IF Len(messages) = 1 THEN Asleep ELSE {}
Notified == Asleep

\* wakeonewaiter, and give returns true.
GiveNotify(t) ==
    /\ pc[t] = "notify"
    /\ IF Notified = {}
       THEN pc' = [pc EXCEPT ![t] = "idle"]
       ELSE \E s \in Notified : pc' = [pc EXCEPT ![t] = "idle", ![s] = "woken"]
    /\ op' = [op EXCEPT ![t] = "none"]
    /\ hand' = [hand EXCEPT ![t] = NoMsg]
    /\ UNCHANGED <<messages, memoryused, limits, waitmutex, valid, limit, expired>>

Give(t) ==
    \/ GivePending(t) \/ GiveMemory(t) \/ GiveUsed(t) \/ GiveLock(t)
    \/ GivePut(t) \/ GiveAccount(t) \/ GiveNotify(t)

----------------------------------------------------------------------------
(* Internal::recv and the three calls built on it *)

\* Endpoint::recv takes no lock.
RecvBegin(t) ==
    /\ "recv" \in Calls[t]
    /\ Step(t, "idle", "get")
    /\ op' = [op EXCEPT ![t] = "recv"]
    /\ UNCHANGED <<messages, memoryused, limits, waitmutex, valid, hand, limit, expired>>

\* recvorblock and recvorblockforever hold waitmutex while they receive.
BlockBegin(t, o) ==
    /\ o \in Calls[t]
    /\ Step(t, "idle", "get")
    /\ Lock(t)
    /\ op' = [op EXCEPT ![t] = o]
    /\ UNCHANGED <<messages, memoryused, limits, valid, hand, limit, expired>>

GetSome(t) ==
    /\ messages # <<>>
    /\ Step(t, "get", "release")
    /\ hand' = [hand EXCEPT ![t] = Head(messages)]
    /\ messages' = Tail(messages)
    /\ UNCHANGED <<memoryused, limits, waitmutex, valid, op, limit, expired>>

\* Mutant of GetNone: drops the guard before it goes to sleep.
GetNoneUnlocks(t) ==
    /\ messages = <<>>
    /\ IF op[t] = "recv" \/ expired[t]
       THEN Return(t, "get")
       ELSE Step(t, "get", "wait") /\ Unlock /\ UNCHANGED call
    /\ UNCHANGED <<messages, memoryused, limits, valid>>

\* Mutant of GetNone: it sleeps again although its sleep timed out.
GetNoneSleepsOn(t) ==
    /\ messages = <<>>
    /\ IF op[t] = "recv"
       THEN Return(t, "get")
       ELSE Step(t, "get", "wait") /\ UNCHANGED <<waitmutex, call>>
    /\ UNCHANGED <<messages, memoryused, limits, valid>>

\* recv returns NoMessages, a recvorblock whose sleep timed out returns
\* TimedOut, and any other blocking call goes to sleep.
GetNone(t) ==
    /\ messages = <<>>
    /\ IF op[t] = "recv" \/ expired[t]
       THEN Return(t, "get")
       ELSE Step(t, "get", "wait") /\ UNCHANGED <<waitmutex, call>>
    /\ UNCHANGED <<messages, memoryused, limits, valid>>

\* memoryused.fetch_sub wraps.  The mutants: a counter that does not; a sync
\* message counted out only if it is still valid.
CountedOutSigned(t) == memoryused - Cap[hand[t]]
CountedOutValid(t) ==
    IF hand[t] \in SyncMsg /\ ~valid[hand[t]] THEN memoryused
    ELSE (memoryused - Cap[hand[t]]) % UsizeMod
CountedOut(t) == (memoryused - Cap[hand[t]]) % UsizeMod

\* A raw or a clone message is returned as soon as it is counted out.
Release(t) ==
    /\ pc[t] = "release"
    /\ memoryused' = CountedOut(t)
    /\ IF hand[t] \in SyncMsg
       THEN Step(t, "release", "take") /\ UNCHANGED <<waitmutex, call>>
       ELSE Return(t, "release")
    /\ UNCHANGED <<messages, limits, valid>>

\* takeasvalid: the first receiver of any copy has the message ...
Take(t) ==
    /\ Return(t, "take")
    /\ valid[hand[t]]
    /\ valid' = [valid EXCEPT ![hand[t]] = FALSE]
    /\ UNCHANGED <<messages, memoryused, limits>>

\* ... and the others throw theirs away and try the next.
Discard(t) ==
    /\ Step(t, "take", "get")
    /\ ~valid[hand[t]]
    /\ hand' = [hand EXCEPT ![t] = NoMsg]
    /\ UNCHANGED <<messages, memoryused, limits, waitmutex, valid, op, limit, expired>>

\* Condvar::wait and wait_timeout release waitmutex and sleep in one step.
Wait(t) ==
    /\ Step(t, "wait", "asleep")
    /\ Unlock
    /\ UNCHANGED <<messages, memoryused, limits, valid, call>>

Timeout(t) ==
    /\ op[t] = "recvorblock"
    /\ Step(t, "asleep", "woken")
    /\ expired' = [expired EXCEPT ![t] = TRUE]
    /\ UNCHANGED <<messages, memoryused, limits, waitmutex, valid, op, hand, limit>>

SpuriousWakeup(t) ==
    /\ SpuriousWakeups
    /\ Step(t, "asleep", "woken")
    /\ UNCHANGED <<messages, memoryused, limits, waitmutex, valid, call>>

Reacquire(t) ==
    /\ Step(t, "woken", "get")
    /\ Lock(t)
    /\ UNCHANGED <<messages, memoryused, limits, valid, call>>

Receive(t) ==
    \/ GetSome(t) \/ GetNone(t) \/ Release(t) \/ Take(t) \/ Discard(t)
    \/ Wait(t) \/ Timeout(t) \/ Reacquire(t)

----------------------------------------------------------------------------
(* Holders of a handle that change the limits, and receivers of other      *)
(* endpoints that take a sync message whose copy is here                   *)

SetLimitPending(n) ==
    /\ limitpending' = n
    /\ UNCHANGED <<messages, memoryused, limitmemory, waitmutex, valid, pc, call>>

SetLimitMemory(n) ==
    /\ limitmemory' = n
    /\ UNCHANGED <<messages, memoryused, limitpending, waitmutex, valid, pc, call>>

TakenElsewhere(m) ==
    /\ m \in InUse
    /\ valid' = [valid EXCEPT ![m] = FALSE]
    /\ UNCHANGED <<messages, memoryused, limits, waitmutex, pc, call>>

----------------------------------------------------------------------------

Begin(t) ==
    \/ \E m \in Msg : GiveBegin(t, m)
    \/ RecvBegin(t)
    \/ \E o \in BlockingOps : BlockBegin(t, o)

Continue(t) == Give(t) \/ Receive(t)

Environment ==
    \/ \E t \in Thread : SpuriousWakeup(t)
    \/ \E n \in PendingLimits : SetLimitPending(n)
    \/ \E n \in MemoryLimits : SetLimitMemory(n)
    \/ \E m \in SyncMsg : TakenElsewhere(m)

Next == (\E t \in Thread : Begin(t) \/ Continue(t)) \/ Environment

Spec == Init /\ [][Next]_vars

\* Every thread goes on with the call it is in, and a sleep that nothing
\* interrupts times out.
FairSpec == Spec /\ \A t \in Thread : WF_vars(Continue(t))

\* The same with a mutex that starves no thread, more than the code may count
\* on: for what fails even then.
FairMutexSpec ==
    /\ FairSpec
    /\ \A t \in Thread : SF_vars(GiveLock(t)) /\ SF_vars(Reacquire(t))

----------------------------------------------------------------------------
(* What must hold *)

\* The stretches of the code between a lock of waitmutex and its release.
Holds(t) ==
    \/ pc[t] \in {"put", "account"}
    \/ op[t] \in BlockingOps /\ pc[t] \in {"get", "release", "take", "wait"}

\* waitmutex excludes: whoever is in such a stretch is its one owner, on every
\* path out of give and of the blocking receives (endpoint.rs:408-412, 533-595).
WaitMutexOwner == \A t \in Thread : Holds(t) <=> waitmutex = t

\* Threads that will look at the queue, or wake one that will, before they
\* sleep or leave.
Servers == {t \in Thread : pc[t] \in {"account", "notify", "woken", "get"}}

\* While a receiver sleeps, every queued message has a thread of its own on the
\* way to it: no message arrives between a receiver's look at the queue and its
\* sleep, and no notify_one is spent on fewer messages than were put
\* (the comment of endpoint.rs:404-414).
NoLostWakeup == Asleep # {} => Len(messages) <= Cardinality(Servers)

\* Between the length check of give and its put.
Passed == {t \in Thread : pc[t] \in {"memory", "used", "lock", "put"}}

Senders == {t \in Thread : "give" \in Calls[t]}

\* The check of limitpending and the put are not atomic (endpoint.rs:381-410):
\* each thread in give can exceed the largest limit by one message, no more.
PendingOvershoot ==
    0 \notin PendingLimits =>
        Len(messages) + Cardinality(Passed) < Max(PendingLimits) + Cardinality(Senders)

\* The units of memory of a set of messages, and how many they are: the sum of
\* their capacities.
Units(S) == UNION {{m} \X (1..Cap[m]) : m \in S}
SumCap(S) == Cardinality(Units(S))
InHand(p) == {hand[t] : t \in {u \in Thread : pc[u] = p}}

\* memoryused is the memory of the queue, up to the calls that have moved a
\* message and not counted it yet, also when a recv without the lock counts a
\* message out before its give counts it in and the counter wraps
\* (endpoint.rs:267, 411).
MemoryAccounting ==
    memoryused = (SumCap(Queued) + SumCap(InHand("release")) - SumCap(InHand("account")))
                   % UsizeMod

MaxCap == Max({Cap[m] : m \in Msg})

\* What MemoryOvershoot needs of the messages: one is the largest, and a usize
\* can count all of them, so that the counter never wraps to less than the
\* queue holds.
MessagesFit ==
    /\ \E m \in Msg : \A n \in Msg : Cap[n] <= Cap[m]
    /\ IsFiniteSet(Units(Msg)) /\ SumCap(Msg) < UsizeMod

\* The memory check is not atomic with the put and looks at the memory used
\* before the message: the queue exceeds the largest limit by at most one
\* message for each sender (endpoint.rs:386-411).
MemoryOvershoot ==
    0 \notin MemoryLimits =>
        SumCap(Queued) < Max(MemoryLimits) + Cardinality(Senders) * MaxCap

\* What the load must do for the liveness of one call: from some time on no call
\* begins, and no sleep ends but by its timeout.
CallsEnd == <>[][\A t \in Thread : pc[t] = "idle" => pc'[t] = "idle"]_vars
OnlyTimeoutsWake ==
    <>[][\A t \in Thread : pc[t] = "asleep" /\ pc'[t] = "woken" => expired'[t]]_vars

\* A receiver sleeps on only while there is nothing for it to receive: with a
\* message in the queue it wakes, or others empty the queue (endpoint.rs:404-414).
SleeperServed ==
    CallsEnd => \A t \in {u \in Thread : "recvorblockforever" \in Calls[u]} :
        (pc[t] = "asleep" /\ messages # <<>> ~> pc[t] # "asleep" \/ messages = <<>>)

\* A recvorblock that is not woken again and again returns, with a message or when
\* its duration expires, whoever empties the queue before it (endpoint.rs:571-595).
ReturnsUnlessWoken ==
    CallsEnd /\ OnlyTimeoutsWake =>
        \A t \in {u \in Thread : "recvorblock" \in Calls[u]} :
            (op[t] = "recvorblock" ~> op[t] = "none")

\* "Recieve a message or block until the specified duration expires then return
\* an error condition" (endpoint.rs:553).
RecvOrBlockReturns == \A t \in Thread : op[t] = "recvorblock" ~> op[t] = "none"
=============================================================================
