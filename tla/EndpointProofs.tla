--------------------------- MODULE EndpointProofs ---------------------------
(* What is proved of Endpoint for all values of its constants, and of the times
   that its receives wait for. *)
EXTENDS Endpoint, Timespec, FiniteSetTheorems, TLAPS

USE DEF Step, Lock, Unlock, limits, call, GuardAfter, QueueFull, MemoryFull, Notified, CountedOut

GivePCs == {"pending", "memory", "used", "lock", "put", "account", "notify"}

\* How the program counter, the call and the message in hand of a thread go
\* together.
Shape(t) ==
    /\ pc[t] = "idle" => op[t] = "none"
    /\ pc[t] \in GivePCs => op[t] = "give" /\ "give" \in Calls[t] /\ hand[t] \in Msg
    /\ pc[t] \in {"get", "release", "take"} => op[t] \in {"recv"} \cup BlockingOps
    /\ pc[t] \in {"wait", "asleep", "woken"} => op[t] \in BlockingOps
    /\ pc[t] = "release" => hand[t] \in Msg
    /\ pc[t] = "take" => hand[t] \in SyncMsg

TypeInv == TypeOK /\ \A t \in Thread : Shape(t)

LEMMA ModRange ==
    ASSUME NEW x \in Int
    PROVE  x % UsizeMod \in 0..UsizeMod-1
  BY UsizeAssumption

LEMMA TypeInit == Init => TypeInv
  BY ThreadAssumption, MsgAssumption, UsizeAssumption
     DEF Init, TypeInv, TypeOK, Shape, PCs, Operations, BlockingOps, GivePCs

LEMMA TypeGive ==
    ASSUME TypeInv, NEW t \in Thread, Give(t)
    PROVE  TypeInv'
  <1> USE MsgAssumption, UsizeAssumption, CapAssumption, LimitAssumption
  <1> USE DEF TypeInv, TypeOK, Shape, PCs, Operations, BlockingOps, GivePCs
  <1>1. CASE GivePending(t)
    <2>1. CASE Return(t, "pending")
      BY <1>1, <2>1 DEF GivePending, Return
    <2>2. CASE Pass(t, "pending", "memory")
      BY <1>1, <2>2 DEF GivePending, Pass
    <2> QED BY <1>1, <2>1, <2>2 DEF GivePending
  <1>2. CASE GiveMemory(t)
    BY <1>2 DEF GiveMemory
  <1>3. CASE GiveUsed(t)
    <2>1. CASE Return(t, "used")
      BY <1>3, <2>1 DEF GiveUsed, Return
    <2>2. CASE Pass(t, "used", "lock")
      BY <1>3, <2>2 DEF GiveUsed, Pass
    <2> QED BY <1>3, <2>1, <2>2 DEF GiveUsed
  <1>4. CASE GiveLock(t)
    BY <1>4 DEF GiveLock
  <1>5. CASE GivePut(t)
    BY <1>5 DEF GivePut
  <1>6. CASE GiveAccount(t)
    BY <1>6 DEF GiveAccount
  <1>7. CASE GiveNotify(t)
    <2>1. pc' \in [Thread -> PCs] /\ pc'[t] = "idle"
      BY <1>7, ZenonT(30) DEF GiveNotify, Asleep
    <2>2. \A u \in Thread : u # t => pc'[u] = pc[u] \/ (pc[u] = "asleep" /\ pc'[u] = "woken")
      <3>1. CASE pc' = [pc EXCEPT ![t] = "idle"]
        BY <3>1
      <3>2. ASSUME NEW s \in Asleep, pc' = [pc EXCEPT ![t] = "idle", ![s] = "woken"]
            PROVE  \A u \in Thread :
                      u # t => pc'[u] = pc[u] \/ (pc[u] = "asleep" /\ pc'[u] = "woken")
        BY <3>2 DEF Asleep
      <3> QED BY <1>7, <3>1, <3>2 DEF GiveNotify
    <2>3. TypeOK'
      <3>1. UNCHANGED <<messages, memoryused, limits, waitmutex, valid, limit, expired>>
        BY <1>7 DEF GiveNotify
      <3>2. op' \in [Thread -> Operations \cup {"none"}] /\ hand' \in [Thread -> Msg \cup {NoMsg}]
        BY <1>7 DEF GiveNotify
      <3> QED BY <2>1, <3>1, <3>2
    <2>4. ASSUME NEW u \in Thread PROVE Shape(u)'
      BY <1>7, <2>1, <2>2 DEF GiveNotify
    <2> QED BY <2>3, <2>4
  <1> QED BY <1>1, <1>2, <1>3, <1>4, <1>5, <1>6, <1>7 DEF Give

LEMMA TypeReceive ==
    ASSUME TypeInv, NEW t \in Thread, Receive(t)
    PROVE  TypeInv'
  <1> USE MsgAssumption, UsizeAssumption, CapAssumption, LimitAssumption
  <1> USE DEF TypeInv, TypeOK, Shape, PCs, Operations, BlockingOps, GivePCs
  <1>1. CASE GetSome(t)
    <2>1. Head(messages) \in Msg /\ Tail(messages) \in Seq(Msg)
      BY <1>1 DEF GetSome
    <2> QED BY <1>1, <2>1 DEF GetSome
  <1>2. CASE GetNone(t)
    <2>1. CASE Return(t, "get")
      BY <1>2, <2>1 DEF GetNone, Return
    <2>2. CASE Step(t, "get", "wait") /\ UNCHANGED <<waitmutex, call>>
      <3>1. op[t] \in BlockingOps
        BY <1>2, <2>2 DEF GetNone, Return
      <3> QED BY <1>2, <2>2, <3>1 DEF GetNone
    <2> QED BY <1>2, <2>1, <2>2 DEF GetNone
  <1>3. CASE Release(t)
    <2>1. memoryused' \in 0..UsizeMod-1
      <3>1. memoryused' = (memoryused - Cap[hand[t]]) % UsizeMod
        BY <1>3 DEF Release
      <3>2. memoryused - Cap[hand[t]] \in Int
        BY <1>3 DEF Release
      <3>3. (memoryused - Cap[hand[t]]) % UsizeMod \in 0..UsizeMod-1
        BY <3>2, ModRange, Zenon
      <3> QED BY <3>1, <3>3, Zenon
    <2>2. CASE hand[t] \in SyncMsg
      <3>1. Step(t, "release", "take") /\ UNCHANGED <<waitmutex, call>>
        BY <1>3, <2>2 DEF Release
      <3>2. UNCHANGED <<messages, limits, valid>>
        BY <1>3 DEF Release
      <3> QED BY <2>1, <2>2, <3>1, <3>2
    <2>3. CASE Return(t, "release")
      BY <1>3, <2>1, <2>3 DEF Release, Return
    <2> QED BY <1>3, <2>2, <2>3 DEF Release
  <1>4. CASE Take(t)
    BY <1>4 DEF Take, Return
  <1>5. CASE Discard(t)
    BY <1>5 DEF Discard
  <1>6. CASE Wait(t)
    BY <1>6 DEF Wait
  <1>7. CASE Timeout(t)
    BY <1>7 DEF Timeout
  <1>8. CASE Reacquire(t)
    BY <1>8 DEF Reacquire
  <1> QED BY <1>1, <1>2, <1>3, <1>4, <1>5, <1>6, <1>7, <1>8 DEF Receive

LEMMA TypeBegin ==
    ASSUME TypeInv, NEW t \in Thread, Begin(t)
    PROVE  TypeInv'
  <1> USE MsgAssumption, LimitAssumption
  <1> USE DEF TypeInv, TypeOK, Shape, PCs, Operations, BlockingOps, GivePCs
  <1>1. ASSUME NEW m \in Msg, GiveBegin(t, m) PROVE TypeInv'
    BY <1>1 DEF GiveBegin
  <1>2. CASE RecvBegin(t)
    BY <1>2 DEF RecvBegin
  <1>3. ASSUME NEW o \in BlockingOps, BlockBegin(t, o) PROVE TypeInv'
    BY <1>3 DEF BlockBegin
  <1> QED BY <1>1, <1>2, <1>3 DEF Begin

LEMMA TypeEnvironment ==
    ASSUME TypeInv, Environment
    PROVE  TypeInv'
  <1> USE DEF TypeInv, TypeOK, Shape, PCs, Operations, BlockingOps, GivePCs
  <1>1. ASSUME NEW t \in Thread, SpuriousWakeup(t) PROVE TypeInv'
    BY <1>1 DEF SpuriousWakeup
  <1>2. ASSUME NEW n \in PendingLimits, SetLimitPending(n) PROVE TypeInv'
    BY <1>2 DEF SetLimitPending
  <1>3. ASSUME NEW n \in MemoryLimits, SetLimitMemory(n) PROVE TypeInv'
    BY <1>3 DEF SetLimitMemory
  <1>4. ASSUME NEW m \in SyncMsg, TakenElsewhere(m) PROVE TypeInv'
    BY <1>4 DEF TakenElsewhere
  <1> QED BY <1>1, <1>2, <1>3, <1>4 DEF Environment

LEMMA TypeStep == TypeInv /\ [Next]_vars => TypeInv'
  <1> SUFFICES ASSUME TypeInv, [Next]_vars PROVE TypeInv'
    OBVIOUS
  <1>1. CASE UNCHANGED vars
    BY <1>1 DEF TypeInv, TypeOK, Shape, vars
  <1>2. ASSUME NEW t \in Thread, Begin(t) \/ Continue(t) PROVE TypeInv'
    BY <1>2, TypeGive, TypeReceive, TypeBegin DEF Continue
  <1>3. CASE Environment
    BY <1>3, TypeEnvironment
  <1> QED BY <1>1, <1>2, <1>3 DEF Next

LEMMA TypeInvariant == Spec => []TypeInv
  BY TypeInit, TypeStep, PTL DEF Spec

\* Every variable keeps its type, whatever the threads do (endpoint.rs:146-160).
THEOREM TypeCorrect == Spec => []TypeOK
  <1>1. TypeInv => TypeOK
    BY DEF TypeInv
  <1> QED BY <1>1, TypeInvariant, PTL

----------------------------------------------------------------------------
(* waitmutex *)

LEMMA MutexInit == Init => WaitMutexOwner
  BY ThreadAssumption DEF Init, WaitMutexOwner, Holds, BlockingOps

\* A step of t that touches no other thread's program counter or call: it is
\* enough to look at what t itself holds before and after.
LEMMA MutexFrame ==
    ASSUME TypeInv, WaitMutexOwner, NEW t \in Thread,
           \A u \in Thread \ {t} : Holds(u)' = Holds(u),
           \/ UNCHANGED waitmutex /\ (Holds(t)' <=> Holds(t))
           \/ waitmutex = NoThread /\ waitmutex' = t /\ Holds(t)'
           \/ Holds(t) /\ waitmutex' = NoThread /\ ~Holds(t)'
    PROVE  WaitMutexOwner'
  BY ThreadAssumption DEF WaitMutexOwner

LEMMA MutexGive ==
    ASSUME TypeInv, WaitMutexOwner, NEW t \in Thread, Give(t)
    PROVE  WaitMutexOwner'
  <1> USE DEF TypeInv, TypeOK, Shape, PCs, BlockingOps, GivePCs, Holds
  <1>1. CASE GivePending(t)
    BY <1>1, MutexFrame, ZenonT(30) DEF GivePending, Return, Pass
  <1>2. CASE GiveMemory(t)
    BY <1>2, MutexFrame DEF GiveMemory
  <1>3. CASE GiveUsed(t)
    BY <1>3, MutexFrame, ZenonT(30) DEF GiveUsed, Return, Pass
  <1>4. CASE GiveLock(t)
    BY <1>4, MutexFrame DEF GiveLock
  <1>5. CASE GivePut(t)
    BY <1>5, MutexFrame DEF GivePut
  <1>6. CASE GiveAccount(t)
    BY <1>6, MutexFrame DEF GiveAccount
  <1>7. CASE GiveNotify(t)
    BY <1>7, MutexFrame, ZenonT(30) DEF GiveNotify, Asleep
  <1> QED BY <1>1, <1>2, <1>3, <1>4, <1>5, <1>6, <1>7 DEF Give

LEMMA MutexReceive ==
    ASSUME TypeInv, WaitMutexOwner, NEW t \in Thread, Receive(t)
    PROVE  WaitMutexOwner'
  <1> USE DEF TypeInv, TypeOK, Shape, PCs, BlockingOps, GivePCs, Holds
  <1>1. CASE GetSome(t)
    BY <1>1, MutexFrame DEF GetSome
  <1>2. CASE GetNone(t)
    BY <1>2, MutexFrame DEF GetNone, Return
  <1>3. CASE Release(t)
    BY <1>3, MutexFrame, SMTT(30) DEF Release, Return
  <1>4. CASE Take(t)
    BY <1>4, MutexFrame DEF Take, Return
  <1>5. CASE Discard(t)
    BY <1>5, MutexFrame DEF Discard
  <1>6. CASE Wait(t)
    BY <1>6, MutexFrame DEF Wait
  <1>7. CASE Timeout(t)
    BY <1>7, MutexFrame DEF Timeout
  <1>8. CASE Reacquire(t)
    BY <1>8, MutexFrame DEF Reacquire
  <1> QED BY <1>1, <1>2, <1>3, <1>4, <1>5, <1>6, <1>7, <1>8 DEF Receive

LEMMA MutexBegin ==
    ASSUME TypeInv, WaitMutexOwner, NEW t \in Thread, Begin(t)
    PROVE  WaitMutexOwner'
  <1> USE DEF TypeInv, TypeOK, Shape, PCs, BlockingOps, GivePCs, Holds
  <1>1. ASSUME NEW m \in Msg, GiveBegin(t, m) PROVE WaitMutexOwner'
    BY <1>1, MutexFrame DEF GiveBegin
  <1>2. CASE RecvBegin(t)
    BY <1>2, MutexFrame DEF RecvBegin
  <1>3. ASSUME NEW o \in BlockingOps, BlockBegin(t, o) PROVE WaitMutexOwner'
    BY <1>3, MutexFrame DEF BlockBegin
  <1> QED BY <1>1, <1>2, <1>3 DEF Begin

LEMMA MutexEnvironment ==
    ASSUME TypeInv, WaitMutexOwner, Environment
    PROVE  WaitMutexOwner'
  <1> USE DEF TypeInv, TypeOK, WaitMutexOwner, Holds
  <1>1. ASSUME NEW t \in Thread, SpuriousWakeup(t) PROVE WaitMutexOwner'
    BY <1>1 DEF SpuriousWakeup
  <1>2. ASSUME NEW n \in PendingLimits, SetLimitPending(n) PROVE WaitMutexOwner'
    BY <1>2 DEF SetLimitPending
  <1>3. ASSUME NEW n \in MemoryLimits, SetLimitMemory(n) PROVE WaitMutexOwner'
    BY <1>3 DEF SetLimitMemory
  <1>4. ASSUME NEW m \in SyncMsg, TakenElsewhere(m) PROVE WaitMutexOwner'
    BY <1>4 DEF TakenElsewhere
  <1> QED BY <1>1, <1>2, <1>3, <1>4 DEF Environment

LEMMA MutexStep == TypeInv /\ WaitMutexOwner /\ [Next]_vars => WaitMutexOwner'
  <1> SUFFICES ASSUME TypeInv, WaitMutexOwner, [Next]_vars PROVE WaitMutexOwner'
    OBVIOUS
  <1>1. CASE UNCHANGED vars
    BY <1>1 DEF WaitMutexOwner, Holds, vars
  <1>2. ASSUME NEW t \in Thread, Begin(t) \/ Continue(t) PROVE WaitMutexOwner'
    BY <1>2, MutexGive, MutexReceive, MutexBegin DEF Continue
  <1>3. CASE Environment
    BY <1>3, MutexEnvironment
  <1> QED BY <1>1, <1>2, <1>3 DEF Next

\* waitmutex excludes, on every path out of give and of the blocking receives
\* (endpoint.rs:408-412, 533-595).
THEOREM MutexExcludes == Spec => []WaitMutexOwner
  BY MutexInit, MutexStep, TypeInvariant, PTL DEF Spec

----------------------------------------------------------------------------
(* No lost wakeup *)

\* A thread about to sleep still holds waitmutex, so the queue in which it
\* found nothing is still empty.
WaitEmpty == \A t \in Thread : pc[t] = "wait" => messages = <<>>

LEMMA WaitEmptyInit == Init => WaitEmpty
  BY DEF Init, WaitEmpty

LEMMA WaitEmptyStep ==
    TypeInv /\ WaitMutexOwner /\ WaitEmpty /\ [Next]_vars => WaitEmpty'
  <1> SUFFICES ASSUME TypeInv, WaitMutexOwner, WaitEmpty, [Next]_vars,
                      NEW u \in Thread, pc'[u] = "wait"
               PROVE  messages' = <<>>
    BY DEF WaitEmpty
  <1> USE DEF TypeInv, TypeOK, PCs
  <1>1. CASE UNCHANGED vars
    BY <1>1 DEF vars, WaitEmpty
  <1>2. ASSUME NEW t \in Thread, GivePut(t) PROVE FALSE
    <2>1. waitmutex = t
      BY <1>2 DEF GivePut, WaitMutexOwner, Holds
    <2>2. pc[u] = "wait" /\ u # t
      BY <1>2 DEF GivePut
    <2>3. waitmutex = u
      BY <2>2 DEF WaitMutexOwner, Holds, Shape
    <2> QED BY <2>1, <2>2, <2>3
  <1>3. ASSUME NEW t \in Thread, GetSome(t) PROVE FALSE
    BY <1>3 DEF GetSome, WaitEmpty
  <1>4. ASSUME NEW t \in Thread, GetNone(t) PROVE messages' = <<>>
    BY <1>4 DEF GetNone
  <1>5. ASSUME NEW t \in Thread, Give(t), ~GivePut(t) PROVE messages' = <<>>
    <2>1. UNCHANGED messages
      BY <1>5 DEF Give, GivePending, GiveMemory, GiveUsed, GiveLock, GiveAccount, GiveNotify
    <2>2. pc[u] = "wait"
      BY <1>5 DEF Give, GivePending, GiveMemory, GiveUsed, GiveLock, GiveAccount,
                  GiveNotify, Return, Pass, Asleep
    <2> QED BY <2>1, <2>2 DEF WaitEmpty
  <1>6. ASSUME NEW t \in Thread, Receive(t), ~GetSome(t), ~GetNone(t) PROVE messages' = <<>>
    <2>1. UNCHANGED messages
      BY <1>6 DEF Receive, Release, Take, Discard, Wait, Timeout, Reacquire
    <2>2. pc[u] = "wait"
      BY <1>6 DEF Receive, Release, Take, Discard, Wait, Timeout, Reacquire, Return
    <2> QED BY <2>1, <2>2 DEF WaitEmpty
  <1>7. ASSUME NEW t \in Thread, Begin(t) PROVE messages' = <<>>
    BY <1>7 DEF Begin, GiveBegin, RecvBegin, BlockBegin, WaitEmpty
  <1>8. CASE Environment
    BY <1>8 DEF Environment, SpuriousWakeup, SetLimitPending, SetLimitMemory,
                TakenElsewhere, WaitEmpty
  <1> QED BY <1>1, <1>2, <1>3, <1>4, <1>5, <1>6, <1>7, <1>8 DEF Next, Continue

\* How a step changes the number of servers.
LEMMA CountServers ==
    ASSUME NEW S, NEW T, IsFiniteSet(S), NEW t, NEW s
    PROVE  /\ Cardinality(S) \in Nat
           /\ T = S \cup {t} /\ t \notin S => Cardinality(T) = Cardinality(S) + 1
           /\ T = S \ {t} /\ t \in S => Cardinality(T) = Cardinality(S) - 1
           /\ T = (S \ {t}) \cup {s} /\ t \in S /\ s \notin S => Cardinality(T) = Cardinality(S)
  <1>1. Cardinality(S) \in Nat
    BY FS_CardinalityType
  <1>2. ASSUME T = S \cup {t}, t \notin S PROVE Cardinality(T) = Cardinality(S) + 1
    BY <1>2, FS_AddElement
  <1>3. ASSUME t \in S
        PROVE  IsFiniteSet(S \ {t}) /\ Cardinality(S \ {t}) = Cardinality(S) - 1
    BY <1>3, FS_RemoveElement
  <1>4. ASSUME T = (S \ {t}) \cup {s}, t \in S, s \notin S
        PROVE  Cardinality(T) = Cardinality(S)
    <2>1. Cardinality(T) = Cardinality(S \ {t}) + 1
      BY <1>3, <1>4, FS_AddElement
    <2> QED BY <1>1, <1>3, <1>4, <2>1
  <1> QED BY <1>1, <1>2, <1>3, <1>4

LEMMA ServersFinite == IsFiniteSet(Servers) /\ IsFiniteSet(Passed) /\ IsFiniteSet(Senders)
  <1>1. Servers \subseteq Thread /\ Passed \subseteq Thread /\ Senders \subseteq Thread
    BY DEF Servers, Passed, Senders
  <1> QED BY <1>1, ThreadAssumption, FS_Subset

LEMMA SwapServers ==
    ASSUME NEW t, NEW s, t \in Servers, s \notin Servers, Servers' = (Servers \ {t}) \cup {s}
    PROVE  Cardinality(Servers)' = Cardinality(Servers)
  BY ServersFinite, CountServers

LEMMA WakeupInit == Init => NoLostWakeup
  BY DEF Init, NoLostWakeup, Asleep

\* The steps that move no message: none of them sends a thread to sleep on a
\* queue that is not empty, and none takes a server away unless it wakes a
\* sleeper.
LEMMA WakeupFrame ==
    ASSUME TypeInv, NoLostWakeup, Asleep' \subseteq Asleep, UNCHANGED messages,
           NEW t, Servers' = Servers \/ (Servers' = Servers \cup {t} /\ t \notin Servers)
    PROVE  NoLostWakeup'
  <1>1. Len(messages) \in Nat
    BY DEF TypeInv, TypeOK
  <1> QED BY <1>1, ServersFinite, CountServers DEF NoLostWakeup

LEMMA WakeupGive ==
    ASSUME TypeInv, NoLostWakeup, NEW t \in Thread, Give(t)
    PROVE  NoLostWakeup'
  <1> USE DEF TypeInv, TypeOK, PCs, Asleep, Servers
  <1>1. CASE GivePending(t)
    BY <1>1, WakeupFrame DEF GivePending, Return, Pass
  <1>2. CASE GiveMemory(t)
    BY <1>2, WakeupFrame DEF GiveMemory
  <1>3. CASE GiveUsed(t)
    BY <1>3, WakeupFrame DEF GiveUsed, Return, Pass
  <1>4. CASE GiveLock(t)
    BY <1>4, WakeupFrame DEF GiveLock
  <1>5. CASE GivePut(t)
    <2>1. Asleep' = Asleep /\ Servers' = Servers \cup {t} /\ t \notin Servers
      BY <1>5 DEF GivePut
    <2>2. Len(messages') = Len(messages) + 1 /\ Len(messages) \in Nat
      BY <1>5 DEF GivePut
    <2>3. Cardinality(Servers)' = Cardinality(Servers) + 1 /\ Cardinality(Servers) \in Nat
      BY <2>1, ServersFinite, CountServers
    <2> QED BY <2>1, <2>2, <2>3 DEF NoLostWakeup
  <1>6. CASE GiveAccount(t)
    BY <1>6, WakeupFrame DEF GiveAccount
  <1>7. CASE GiveNotify(t)
    <2>1. CASE Asleep = {}
      BY <1>7, <2>1 DEF GiveNotify, NoLostWakeup
    <2>2. ASSUME NEW s \in Asleep, pc' = [pc EXCEPT ![t] = "idle", ![s] = "woken"]
          PROVE  NoLostWakeup'
      <3>1. pc[t] = "notify" /\ pc[s] = "asleep" /\ s # t /\ s \in Thread
        BY <1>7, <2>2 DEF GiveNotify
      <3>2. t \in Servers /\ s \notin Servers
        BY <3>1
      <3>3. ASSUME NEW u \in Thread PROVE u \in Servers' <=> u \in (Servers \ {t}) \cup {s}
        BY <2>2, <3>1
      <3>4. Servers' = (Servers \ {t}) \cup {s}
        BY <3>1, <3>3
      <3>5. Cardinality(Servers)' = Cardinality(Servers)
        BY <3>2, <3>4, SwapServers
      <3>6. UNCHANGED messages /\ Asleep # {}
        BY <1>7, <2>2 DEF GiveNotify
      <3> QED BY <3>5, <3>6 DEF NoLostWakeup
    <2> QED BY <1>7, <2>1, <2>2 DEF GiveNotify
  <1> QED BY <1>1, <1>2, <1>3, <1>4, <1>5, <1>6, <1>7 DEF Give

LEMMA WakeupReceive ==
    ASSUME TypeInv, WaitEmpty, NoLostWakeup, NEW t \in Thread, Receive(t)
    PROVE  NoLostWakeup'
  <1> USE DEF TypeInv, TypeOK, PCs, Asleep, Servers
  <1>1. CASE GetSome(t)
    <2>1. Asleep' = Asleep /\ Servers' = Servers \ {t} /\ t \in Servers
      BY <1>1 DEF GetSome
    <2>2. Len(messages') = Len(messages) - 1
      BY <1>1 DEF GetSome
    <2>3. Cardinality(Servers)' = Cardinality(Servers) - 1 /\ Cardinality(Servers) \in Nat
      BY <2>1, ServersFinite, CountServers
    <2>4. Len(messages) \in Nat
      OBVIOUS
    <2> QED BY <2>1, <2>2, <2>3, <2>4 DEF NoLostWakeup
  <1>2. ASSUME messages' = <<>> PROVE NoLostWakeup'
    <2>1. Servers' \subseteq Thread
      OBVIOUS
    <2>2. Cardinality(Servers') \in Nat
      BY <2>1, ThreadAssumption, FS_Subset, FS_CardinalityType, Zenon
    <2> QED BY <1>2, <2>2 DEF NoLostWakeup
  <1>3. CASE Release(t)
    BY <1>3, WakeupFrame DEF Release, Return
  <1>4. CASE Take(t)
    BY <1>4, WakeupFrame DEF Take, Return
  <1>5. CASE Discard(t)
    BY <1>5, WakeupFrame DEF Discard
  <1>6. CASE Timeout(t)
    BY <1>6, WakeupFrame DEF Timeout
  <1>7. CASE Reacquire(t)
    BY <1>7, WakeupFrame DEF Reacquire
  <1>8. CASE GetNone(t) \/ Wait(t)
    BY <1>2, <1>8 DEF GetNone, Wait, WaitEmpty
  <1> QED BY <1>1, <1>3, <1>4, <1>5, <1>6, <1>7, <1>8 DEF Receive

LEMMA WakeupOthers ==
    ASSUME TypeInv, NoLostWakeup,
           (\E t \in Thread : Begin(t)) \/ Environment
    PROVE  NoLostWakeup'
  <1> USE DEF TypeInv, TypeOK, PCs, Asleep, Servers
  <1>1. ASSUME NEW t \in Thread, NEW m \in Msg, GiveBegin(t, m) PROVE NoLostWakeup'
    BY <1>1, WakeupFrame DEF GiveBegin
  <1>2. ASSUME NEW t \in Thread, RecvBegin(t) PROVE NoLostWakeup'
    BY <1>2, WakeupFrame DEF RecvBegin
  <1>3. ASSUME NEW t \in Thread, NEW o \in BlockingOps, BlockBegin(t, o) PROVE NoLostWakeup'
    BY <1>3, WakeupFrame DEF BlockBegin
  <1>4. ASSUME NEW t \in Thread, SpuriousWakeup(t) PROVE NoLostWakeup'
    BY <1>4, WakeupFrame DEF SpuriousWakeup
  <1>5. ASSUME UNCHANGED <<messages, pc>> PROVE NoLostWakeup'
    BY <1>5 DEF NoLostWakeup
  <1> QED BY <1>1, <1>2, <1>3, <1>4, <1>5
          DEF Begin, Environment, SetLimitPending, SetLimitMemory, TakenElsewhere

LEMMA WakeupStep ==
    TypeInv /\ WaitEmpty /\ NoLostWakeup /\ [Next]_vars => NoLostWakeup'
  <1>1. UNCHANGED vars /\ NoLostWakeup => NoLostWakeup'
    BY DEF vars, NoLostWakeup, Asleep, Servers
  <1> QED BY <1>1, WakeupGive, WakeupReceive, WakeupOthers DEF Next, Continue

\* While a receiver sleeps, every queued message has a thread on the way to it:
\* the put under waitmutex and the notify_one after it lose no wakeup
\* (endpoint.rs:404-414), for any number of threads and any limits.
THEOREM NoWakeupIsLost == Spec => []NoLostWakeup
  <1>1. Spec => []WaitEmpty
    BY WaitEmptyInit, WaitEmptyStep, TypeInvariant, MutexExcludes, PTL DEF Spec
  <1> QED BY <1>1, WakeupInit, WakeupStep, TypeInvariant, PTL DEF Spec

----------------------------------------------------------------------------
(* The limit of pending messages *)

\* The limit a thread compares with is one that was set.
LoadedLimit == \A t \in Thread : pc[t] = "pending" => limit[t] \in PendingLimits

LEMMA LoadedLimitInit == Init => LoadedLimit
  BY DEF Init, LoadedLimit

LEMMA LoadedLimitStep == TypeInv /\ LoadedLimit /\ [Next]_vars => LoadedLimit'
  <1> SUFFICES ASSUME TypeInv, LoadedLimit, [Next]_vars,
                      NEW u \in Thread, pc'[u] = "pending"
               PROVE  limit'[u] \in PendingLimits
    BY DEF LoadedLimit
  <1> USE DEF TypeInv, TypeOK, PCs, LoadedLimit
  <1>1. CASE UNCHANGED vars
    BY <1>1 DEF vars
  <1>2. ASSUME NEW t \in Thread, Give(t) PROVE pc[u] = "pending" /\ limit'[u] = limit[u]
    BY <1>2 DEF Give, GivePending, GiveMemory, GiveUsed, GiveLock, GivePut, GiveAccount,
                GiveNotify, Return, Pass, Asleep
  <1>3. ASSUME NEW t \in Thread, Receive(t) PROVE pc[u] = "pending" /\ limit'[u] = limit[u]
    BY <1>3 DEF Receive, GetSome, GetNone, Release, Take, Discard, Wait, Timeout,
                Reacquire, Return
  <1>4. ASSUME NEW t \in Thread, NEW m \in Msg, GiveBegin(t, m)
        PROVE  limit'[u] \in PendingLimits
    BY <1>4 DEF GiveBegin
  <1>5. ASSUME NEW t \in Thread, RecvBegin(t) \/ \E o \in BlockingOps : BlockBegin(t, o)
        PROVE  pc[u] = "pending" /\ limit'[u] = limit[u]
    BY <1>5 DEF RecvBegin, BlockBegin
  <1>6. CASE Environment
    BY <1>6 DEF Environment, SpuriousWakeup, SetLimitPending, SetLimitMemory, TakenElsewhere
  <1> QED BY <1>1, <1>2, <1>3, <1>4, <1>5, <1>6 DEF Next, Begin, Continue

LEMMA GreatestLimit ==
    /\ Max(PendingLimits) \in PendingLimits
    /\ \A n \in PendingLimits : n <= Max(PendingLimits)
  <1>1. PICK greatest \in PendingLimits : \A n \in PendingLimits : greatest >= n
    BY LimitAssumption
  <1>2. /\ Max(PendingLimits) \in PendingLimits
        /\ \A n \in PendingLimits : Max(PendingLimits) >= n
    BY <1>1, Zenon DEF Max
  <1> QED BY <1>2, LimitAssumption

LEMMA OvershootInit == Init => PendingOvershoot
  <1> SUFFICES ASSUME Init, 0 \notin PendingLimits
               PROVE  Len(messages) + Cardinality(Passed)
                        < Max(PendingLimits) + Cardinality(Senders)
    BY DEF PendingOvershoot
  <1>1. Passed = {} /\ Len(messages) = 0
    BY DEF Init, Passed
  <1>2. Cardinality(Passed) = 0
    BY <1>1, FS_EmptySet
  <1>3. Cardinality(Senders) \in Nat
    BY ServersFinite, FS_CardinalityType
  <1>4. Max(PendingLimits) \in Nat \ {0}
    BY GreatestLimit, LimitAssumption
  <1> QED BY <1>1, <1>2, <1>3, <1>4

\* The steps that neither lengthen the queue nor bring a thread past the check.
LEMMA OvershootFrame ==
    ASSUME TypeInv, PendingOvershoot, Passed' = Passed,
           Len(messages') \in Nat, Len(messages') <= Len(messages)
    PROVE  PendingOvershoot'
  <1>1. Cardinality(Passed) \in Nat /\ Cardinality(Senders) \in Nat /\ Len(messages) \in Nat
    BY ServersFinite, FS_CardinalityType DEF TypeInv, TypeOK
  <1>2. Max(PendingLimits) \in Nat
    BY GreatestLimit, LimitAssumption
  <1>3. Cardinality(Passed') = Cardinality(Passed)
    OBVIOUS
  <1> QED BY <1>1, <1>2, <1>3 DEF PendingOvershoot, Senders

LEMMA OvershootPending ==
    ASSUME TypeInv, TypeInv', LoadedLimit, PendingOvershoot, NEW t \in Thread, GivePending(t)
    PROVE  PendingOvershoot'
  <1>1. CASE Return(t, "pending")
    <2>1. Passed' = Passed
      BY <1>1 DEF Return, Passed, TypeInv, TypeOK
    <2>2. UNCHANGED messages
      BY DEF GivePending
    <2> QED BY <2>1, <2>2, OvershootFrame DEF TypeInv, TypeOK
  <1>2. CASE Len(messages) < limit[t] /\ UNCHANGED messages
    <2>1. Passed' \subseteq Senders
      BY DEF Passed, Senders, TypeInv, Shape, GivePCs
    <2>2. Cardinality(Passed') <= Cardinality(Senders)
      BY <2>1, ServersFinite, FS_Subset
    <2>3. Cardinality(Passed') \in Nat /\ Cardinality(Senders) \in Nat
      BY <2>1, ServersFinite, FS_Subset, FS_CardinalityType
    <2>4. limit[t] \in PendingLimits
      BY DEF LoadedLimit, GivePending, Return, Pass
    <2>5. limit[t] <= Max(PendingLimits) /\ limit[t] \in Nat
      BY <2>4, GreatestLimit, LimitAssumption
    <2>6. Max(PendingLimits) \in Nat
      BY GreatestLimit, LimitAssumption
    <2>7. Len(messages) \in Nat
      BY DEF TypeInv, TypeOK
    <2>8. Len(messages') + Cardinality(Passed') < Max(PendingLimits) + Cardinality(Senders)
      BY <1>2, <2>2, <2>3, <2>5, <2>6, <2>7
    <2> QED BY <2>8 DEF PendingOvershoot, Senders
  <1>3. Len(messages) \in Nat /\ limit[t] \in Nat
    BY DEF TypeInv, TypeOK
  <1> QED BY <1>1, <1>2, <1>3 DEF GivePending

LEMMA OvershootPut ==
    ASSUME TypeInv, PendingOvershoot, NEW t \in Thread, GivePut(t)
    PROVE  PendingOvershoot'
  <1>1. Passed' = Passed \ {t} /\ t \in Passed
    BY DEF GivePut, Passed, TypeInv, TypeOK
  <1>2. Cardinality(Passed') = Cardinality(Passed) - 1 /\ Cardinality(Passed) \in Nat
    BY <1>1, ServersFinite, CountServers
  <1>3. Len(messages') = Len(messages) + 1 /\ Len(messages) \in Nat
    BY DEF GivePut, TypeInv, TypeOK, Shape, GivePCs
  <1>4. Max(PendingLimits) \in Nat /\ Cardinality(Senders) \in Nat
    BY GreatestLimit, LimitAssumption, ServersFinite, FS_CardinalityType
  <1> QED BY <1>2, <1>3, <1>4 DEF PendingOvershoot, Senders

LEMMA OvershootGive ==
    ASSUME TypeInv, TypeInv', LoadedLimit, PendingOvershoot, NEW t \in Thread, Give(t)
    PROVE  PendingOvershoot'
  <1> USE DEF TypeInv, TypeOK, PCs, Passed
  <1>1. CASE GivePending(t)
    BY <1>1, OvershootPending
  <1>2. CASE GiveMemory(t)
    BY <1>2, OvershootFrame DEF GiveMemory
  <1>3. CASE GiveUsed(t) /\ Pass(t, "used", "lock")
    BY <1>3, OvershootFrame DEF GiveUsed, Pass
  <1>4. CASE GiveLock(t)
    BY <1>4, OvershootFrame DEF GiveLock
  <1>5. CASE GivePut(t)
    BY <1>5, OvershootPut
  <1>6. CASE GiveAccount(t)
    BY <1>6, OvershootFrame DEF GiveAccount
  <1>7. CASE GiveNotify(t)
    BY <1>7, OvershootFrame DEF GiveNotify, Asleep
  <1>8. CASE GiveUsed(t) /\ Return(t, "used")
    <2>1. UNCHANGED messages /\ Len(messages) \in Nat
      BY <1>8 DEF GiveUsed
    <2>2. Passed' = Passed \ {t} /\ t \in Passed
      BY <1>8 DEF Return
    <2>3. Cardinality(Passed)' = Cardinality(Passed) - 1 /\ Cardinality(Passed) \in Nat
      BY <2>2, ServersFinite, CountServers
    <2>4. Max(PendingLimits) \in Nat
      BY GreatestLimit, LimitAssumption
    <2>5. Cardinality(Senders) \in Nat
      BY ServersFinite, FS_CardinalityType
    <2> QED BY <2>1, <2>3, <2>4, <2>5 DEF PendingOvershoot, Senders
  <1> QED BY <1>1, <1>2, <1>3, <1>4, <1>5, <1>6, <1>7, <1>8 DEF Give, GiveUsed

LEMMA OvershootReceive ==
    ASSUME TypeInv, PendingOvershoot, NEW t \in Thread, Receive(t)
    PROVE  PendingOvershoot'
  <1> USE DEF TypeInv, TypeOK, PCs, Passed
  <1>1. CASE GetSome(t)
    <2>1. Len(messages') = Len(messages) - 1 /\ Len(messages') \in Nat
      BY <1>1 DEF GetSome
    <2>2. Passed' = Passed
      BY <1>1 DEF GetSome
    <2> QED BY <2>1, <2>2, OvershootFrame
  <1>2. CASE GetNone(t)
    BY <1>2, OvershootFrame DEF GetNone, Return
  <1>3. CASE Release(t)
    BY <1>3, OvershootFrame DEF Release, Return
  <1>4. CASE Take(t)
    BY <1>4, OvershootFrame DEF Take, Return
  <1>5. CASE Discard(t)
    BY <1>5, OvershootFrame DEF Discard
  <1>6. CASE Wait(t)
    BY <1>6, OvershootFrame DEF Wait
  <1>7. CASE Timeout(t)
    BY <1>7, OvershootFrame DEF Timeout
  <1>8. CASE Reacquire(t)
    BY <1>8, OvershootFrame DEF Reacquire
  <1> QED BY <1>1, <1>2, <1>3, <1>4, <1>5, <1>6, <1>7, <1>8 DEF Receive

\* With a limit set, a call of give always compares the length.
LEMMA OvershootOthers ==
    ASSUME TypeInv, PendingOvershoot,
           (\E t \in Thread : Begin(t)) \/ Environment
    PROVE  PendingOvershoot'
  <1> USE DEF TypeInv, TypeOK, PCs, Passed
  <1>1. ASSUME NEW t \in Thread, NEW m \in Msg, GiveBegin(t, m) PROVE PendingOvershoot'
    <2>1. CASE 0 \in PendingLimits
      BY <2>1 DEF PendingOvershoot
    <2>2. CASE limitpending > 0
      BY <1>1, <2>2, OvershootFrame DEF GiveBegin
    <2> QED BY <2>1, <2>2, LimitAssumption
  <1>2. ASSUME NEW t \in Thread, RecvBegin(t) PROVE PendingOvershoot'
    BY <1>2, OvershootFrame DEF RecvBegin
  <1>3. ASSUME NEW t \in Thread, NEW o \in BlockingOps, BlockBegin(t, o)
        PROVE  PendingOvershoot'
    BY <1>3, OvershootFrame DEF BlockBegin
  <1>4. ASSUME NEW t \in Thread, SpuriousWakeup(t) PROVE PendingOvershoot'
    BY <1>4, OvershootFrame DEF SpuriousWakeup
  <1>5. ASSUME UNCHANGED <<messages, pc>> PROVE PendingOvershoot'
    BY <1>5, OvershootFrame
  <1> QED BY <1>1, <1>2, <1>3, <1>4, <1>5
          DEF Begin, Environment, SetLimitPending, SetLimitMemory, TakenElsewhere

LEMMA OvershootStep ==
    TypeInv /\ TypeInv' /\ LoadedLimit /\ PendingOvershoot /\ [Next]_vars
      => PendingOvershoot'
  <1>1. UNCHANGED vars /\ PendingOvershoot => PendingOvershoot'
    BY DEF vars, PendingOvershoot, Passed, Senders
  <1> QED BY <1>1, OvershootGive, OvershootReceive, OvershootOthers DEF Next, Continue

\* However many threads give at once and however the limit is changed, the
\* queue exceeds the largest limit by less than the number of senders
\* (endpoint.rs:381-410).
THEOREM OvershootBounded == Spec => []PendingOvershoot
  <1>1. Spec => []LoadedLimit
    BY LoadedLimitInit, LoadedLimitStep, TypeInvariant, PTL DEF Spec
  <1> QED BY <1>1, OvershootInit, OvershootStep, TypeInvariant, PTL DEF Spec

----------------------------------------------------------------------------
(* Sums of capacities *)

LEMMA UnitsOf ==
    ASSUME NEW S, NEW T, NEW m
    PROVE  /\ Units({}) = {} /\ Units({m}) = {m} \X (1..Cap[m])
           /\ Units(S \cup T) = Units(S) \cup Units(T)
           /\ T \subseteq S => Units(T) \subseteq Units(S)
           /\ S \cap T = {} => Units(S) \cap Units(T) = {}
  BY DEF Units

LEMMA SumOne ==
    ASSUME NEW m \in Msg
    PROVE  IsFiniteSet(Units({m})) /\ SumCap({m}) = Cap[m] /\ Cap[m] \in Nat
  <1>1. Cap[m] \in Nat
    BY CapAssumption
  <1>2. IsFiniteSet(1..Cap[m]) /\ Cardinality(1..Cap[m]) = Cap[m]
    BY <1>1, FS_Interval
  <1>3. IsFiniteSet({m}) /\ Cardinality({m}) = 1
    BY FS_Singleton
  <1>4. /\ IsFiniteSet({m} \X (1..Cap[m]))
        /\ Cardinality({m} \X (1..Cap[m])) = Cardinality({m}) * Cardinality(1..Cap[m])
    BY <1>2, <1>3, FS_Product
  <1>5. Cardinality({m} \X (1..Cap[m])) = Cap[m]
    BY <1>1, <1>2, <1>3, <1>4
  <1> QED BY <1>1, <1>4, <1>5, UnitsOf DEF SumCap

\* A sum is additive, and a part of a set has no more memory than the set.
LEMMA SumUnion ==
    ASSUME NEW S, NEW T, IsFiniteSet(Units(S)), IsFiniteSet(Units(T))
    PROVE  /\ IsFiniteSet(Units(S \cup T))
           /\ SumCap(S) \in Nat /\ SumCap(T) \in Nat /\ SumCap(S \cup T) \in Nat
           /\ SumCap(S \cup T) <= SumCap(S) + SumCap(T)
           /\ S \cap T = {} => SumCap(S \cup T) = SumCap(S) + SumCap(T)
  <1> DEFINE U == Units(S)  V == Units(T)
  <1>1. Units(S \cup T) = U \cup V /\ (S \cap T = {} => U \cap V = {})
    BY UnitsOf, Zenon
  <1>2. /\ IsFiniteSet(U \cup V)
        /\ Cardinality(U \cup V) = Cardinality(U) + Cardinality(V) - Cardinality(U \cap V)
    BY FS_Union
  <1>3. IsFiniteSet(U \cap V)
    BY FS_Intersection
  <1>4. /\ Cardinality(U) \in Nat /\ Cardinality(V) \in Nat /\ Cardinality(U \cup V) \in Nat
        /\ Cardinality(U \cap V) \in Nat
    BY <1>2, <1>3, FS_CardinalityType
  <1>5. U \cap V = {} => Cardinality(U \cap V) = 0
    BY FS_EmptySet
  <1>6. SumCap(S) = Cardinality(U) /\ SumCap(T) = Cardinality(V)
        /\ SumCap(S \cup T) = Cardinality(U \cup V)
    BY <1>1 DEF SumCap
  <1>7. IsFiniteSet(Units(S \cup T))
    BY <1>1, <1>2
  <1>8. S \cap T = {} => U \cap V = {}
    BY <1>1
  <1> HIDE DEF U, V
  <1> QED BY <1>2, <1>4, <1>5, <1>6, <1>7, <1>8

LEMMA SumSubset ==
    ASSUME NEW S, IsFiniteSet(Units(S)), NEW T, T \subseteq S
    PROVE  /\ IsFiniteSet(Units(T)) /\ SumCap(T) \in Nat /\ SumCap(S) \in Nat
           /\ SumCap(T) <= SumCap(S)
  <1>1. Units(T) \in SUBSET Units(S)
    BY UnitsOf
  <1>2. IsFiniteSet(Units(T)) /\ Cardinality(Units(T)) <= Cardinality(Units(S))
    BY <1>1, FS_Subset
  <1>3. Cardinality(Units(T)) \in Nat /\ Cardinality(Units(S)) \in Nat
    BY <1>2, FS_CardinalityType
  <1> QED BY <1>2, <1>3 DEF SumCap

LEMMA SumAdd ==
    ASSUME NEW S, IsFiniteSet(Units(S)), NEW m \in Msg, m \notin S
    PROVE  /\ IsFiniteSet(Units(S \cup {m})) /\ SumCap(S) \in Nat
           /\ SumCap(S \cup {m}) = SumCap(S) + Cap[m]
  <1>1. S \cap {m} = {}
    OBVIOUS
  <1> QED BY <1>1, SumOne, SumUnion

LEMMA SumRemove ==
    ASSUME NEW S, IsFiniteSet(Units(S)), NEW m \in Msg, m \in S
    PROVE  /\ IsFiniteSet(Units(S \ {m})) /\ SumCap(S) \in Nat
           /\ SumCap(S \ {m}) = SumCap(S) - Cap[m]
  <1>1. IsFiniteSet(Units(S \ {m})) /\ SumCap(S \ {m}) \in Nat
    BY SumSubset
  <1>2. (S \ {m}) \cup {m} = S /\ m \notin S \ {m}
    OBVIOUS
  <1>3. SumCap(S) = SumCap(S \ {m}) + Cap[m]
    BY <1>1, <1>2, SumAdd
  <1>4. Cap[m] \in Nat
    BY SumOne
  <1>5. SumCap(S) \in Nat /\ SumCap(S \ {m}) = SumCap(S) - Cap[m]
    BY <1>1, <1>3, <1>4
  <1> QED BY <1>1, <1>5

\* Arithmetic modulo the range of usize.
LEMMA ModUnique ==
    ASSUME NEW q \in Int, NEW r \in Int, NEW n \in Int, n = q * UsizeMod + r,
           0 <= r, r < UsizeMod
    PROVE  n % UsizeMod = r
  <1> DEFINE d == n \div UsizeMod  s == n % UsizeMod
  <1>1. UsizeMod \in Nat /\ UsizeMod > 0
    BY UsizeAssumption
  <1>2. d \in Int /\ s \in Int /\ n = d * UsizeMod + s /\ 0 <= s /\ s < UsizeMod
    BY <1>1, SMT
  <1> HIDE DEF d, s
  <1>3. (q - d) * UsizeMod = s - r
    BY <1>1, <1>2, SMT
  <1>4. q - d >= 1 => (q - d) * UsizeMod >= UsizeMod
    BY <1>1, <1>2, SMT
  <1>5. q - d <= -1 => (q - d) * UsizeMod <= -UsizeMod
    BY <1>1, <1>2, SMT
  <1>6. q - d = 0
    BY <1>1, <1>2, <1>3, <1>4, <1>5, SMT
  <1>7. s = r
    BY <1>1, <1>2, <1>3, <1>6, SMT
  <1> QED BY <1>7 DEF s

LEMMA ModAdd ==
    ASSUME NEW a \in Int, NEW c \in Int
    PROVE  ((a % UsizeMod) + c) % UsizeMod = (a + c) % UsizeMod
  <1> DEFINE d == a \div UsizeMod  s == a % UsizeMod
             e == (s + c) \div UsizeMod  r == (s + c) % UsizeMod
  <1>1. UsizeMod \in Nat /\ UsizeMod > 0
    BY UsizeAssumption
  <1>2. d \in Int /\ s \in Int /\ a = d * UsizeMod + s
    BY <1>1, SMT
  <1>3. e \in Int /\ r \in Int /\ s + c = e * UsizeMod + r /\ 0 <= r /\ r < UsizeMod
    BY <1>1, <1>2, SMT
  <1> HIDE DEF d, s, e, r
  <1>4. a + c = (d + e) * UsizeMod + r
    BY <1>1, <1>2, <1>3, SMT
  <1>5. (a + c) % UsizeMod = r
    BY <1>2, <1>3, <1>4, ModUnique
  <1> QED BY <1>5 DEF r, s

----------------------------------------------------------------------------
(* Whose message it is *)

\* give has not put its message yet.
EarlyPCs == {"pending", "memory", "used", "lock", "put"}
TakePCs == {"release", "take"}

\* No message is twice in the queue, on its way into it, or on its way out of
\* it.  It may be on both ways: a recv that takes no lock has a message in hand
\* whose give has yet to count it.
Ownership ==
    /\ \A i, j \in 1..Len(messages) : messages[i] = messages[j] => i = j
    /\ \A t, u \in Thread : t # u /\ pc[t] \in GivePCs /\ pc[u] \in GivePCs => hand[t] # hand[u]
    /\ \A t, u \in Thread : t # u /\ pc[t] \in TakePCs /\ pc[u] \in TakePCs => hand[t] # hand[u]
    /\ \A t \in Thread : pc[t] \in TakePCs \cup EarlyPCs => hand[t] \notin Queued
    /\ \A t, u \in Thread : pc[t] \in EarlyPCs /\ pc[u] \in TakePCs => hand[t] # hand[u]

LEMMA OwnershipInit == Init => Ownership
  BY DEF Init, Ownership, Queued, GivePCs, EarlyPCs, TakePCs

\* The steps that move no message.
LEMMA OwnershipFrame ==
    ASSUME Ownership, UNCHANGED messages,
           \A u \in Thread :
               /\ pc'[u] \in GivePCs => pc[u] \in GivePCs /\ hand'[u] = hand[u]
               /\ pc'[u] \in TakePCs => pc[u] \in TakePCs /\ hand'[u] = hand[u]
               /\ pc'[u] \in EarlyPCs => pc[u] \in EarlyPCs
    PROVE  Ownership'
  <1>1. Queued' = Queued /\ EarlyPCs \subseteq GivePCs
    BY DEF Queued, EarlyPCs, GivePCs
  <1> QED BY <1>1 DEF Ownership

LEMMA OwnershipBegin ==
    ASSUME TypeInv, Ownership, NEW t \in Thread, NEW m \in Msg, GiveBegin(t, m)
    PROVE  Ownership'
  <1>1. m \notin Queued /\ \A u \in Thread : hand[u] # m
    BY DEF GiveBegin, InUse
  <1>2. /\ hand'[t] = m /\ pc[t] = "idle" /\ pc'[t] \in {"pending", "memory"}
        /\ \A u \in Thread : u # t => pc'[u] = pc[u] /\ hand'[u] = hand[u]
        /\ UNCHANGED messages
    BY DEF GiveBegin, TypeInv, TypeOK
  <1>3. Queued' = Queued
    BY <1>2 DEF Queued
  <1> QED BY <1>1, <1>2, <1>3 DEF Ownership, GivePCs, EarlyPCs, TakePCs

LEMMA QueuedPut ==
    ASSUME TypeInv, Ownership, NEW t \in Thread, GivePut(t)
    PROVE  /\ hand[t] \in Msg /\ hand[t] \notin Queued /\ Queued' = Queued \cup {hand[t]}
           /\ \A i, j \in 1..Len(messages') : messages'[i] = messages'[j] => i = j
  <1>1. hand[t] \in Msg /\ messages \in Seq(Msg) /\ messages' = Append(messages, hand[t])
    BY DEF GivePut, TypeInv, TypeOK, Shape, GivePCs
  <1>2. hand[t] \notin Queued
    BY DEF Ownership, GivePut, EarlyPCs
  <1>3. /\ Len(messages') = Len(messages) + 1 /\ Len(messages) \in Nat
        /\ messages'[Len(messages) + 1] = hand[t]
        /\ \A i \in 1..Len(messages) : messages'[i] = messages[i]
    BY <1>1
  <1>4. Queued' = Queued \cup {hand[t]}
    BY <1>3 DEF Queued
  <1>5. \A i, j \in 1..Len(messages') : messages'[i] = messages'[j] => i = j
    BY <1>2, <1>3 DEF Queued, Ownership
  <1> QED BY <1>1, <1>2, <1>4, <1>5

LEMMA OwnershipPut ==
    ASSUME TypeInv, Ownership, NEW t \in Thread, GivePut(t)
    PROVE  Ownership'
  <1>1. /\ pc[t] = "put" /\ pc'[t] = "account"
        /\ \A u \in Thread : u # t => pc'[u] = pc[u]
        /\ hand' = hand
    BY DEF GivePut, TypeInv, TypeOK
  <1> QED BY <1>1, QueuedPut DEF Ownership, GivePCs, EarlyPCs, TakePCs

LEMMA QueuedGet ==
    ASSUME TypeInv, Ownership, NEW t \in Thread, GetSome(t)
    PROVE  /\ hand'[t] \in Msg /\ hand'[t] \in Queued /\ Queued' = Queued \ {hand'[t]}
           /\ \A i, j \in 1..Len(messages') : messages'[i] = messages'[j] => i = j
  <1>1. messages \in Seq(Msg) /\ messages # <<>> /\ messages' = Tail(messages)
        /\ hand'[t] = Head(messages)
    BY DEF GetSome, TypeInv, TypeOK
  <1>2. /\ Len(messages') = Len(messages) - 1 /\ Len(messages) \in Nat \ {0}
        /\ hand'[t] = messages[1] /\ messages[1] \in Msg
        /\ \A i \in 1..Len(messages') : messages'[i] = messages[i + 1]
    BY <1>1
  <1>3. \A i, j \in 1..Len(messages') : messages'[i] = messages'[j] => i = j
    <2> SUFFICES ASSUME NEW i \in 1..Len(messages'), NEW j \in 1..Len(messages'),
                        messages'[i] = messages'[j]
                 PROVE  i = j
      OBVIOUS
    <2>1. i + 1 \in 1..Len(messages) /\ j + 1 \in 1..Len(messages)
      BY <1>2
    <2>2. i + 1 = j + 1
      BY <1>2, <2>1 DEF Ownership
    <2> QED BY <2>2
  <1>4. 1 \in 1..Len(messages)
    BY <1>2
  <1>5. ASSUME NEW m \in Queued, m # hand'[t] PROVE m \in Queued'
    <2>1. PICK i \in 1..Len(messages) : m = messages[i]
      BY <1>5 DEF Queued
    <2>2. i - 1 \in 1..Len(messages') /\ (i - 1) + 1 = i
      BY <1>2, <1>5, <2>1
    <2>3. messages'[i - 1] = m
      BY <1>2, <2>1, <2>2
    <2> QED BY <2>2, <2>3 DEF Queued
  <1>6. ASSUME NEW m \in Queued' PROVE m \in Queued /\ m # hand'[t]
    <2>1. PICK i \in 1..Len(messages') : m = messages'[i]
      BY <1>6 DEF Queued
    <2>2. i + 1 \in 1..Len(messages) /\ m = messages[i + 1] /\ i + 1 # 1
      BY <1>2, <2>1
    <2> QED BY <1>2, <1>4, <2>2 DEF Queued, Ownership
  <1>7. hand'[t] \in Queued
    BY <1>2, <1>4 DEF Queued
  <1> QED BY <1>2, <1>3, <1>5, <1>6, <1>7

LEMMA OwnershipGet ==
    ASSUME TypeInv, Ownership, NEW t \in Thread, GetSome(t)
    PROVE  Ownership'
  <1>1. /\ pc[t] = "get" /\ pc'[t] = "release"
        /\ \A u \in Thread : u # t => pc'[u] = pc[u] /\ hand'[u] = hand[u]
    BY DEF GetSome, TypeInv, TypeOK
  <1> QED BY <1>1, QueuedGet DEF Ownership, GivePCs, EarlyPCs, TakePCs

\* Everything but the beginning of a give, the put and the get moves no message.
Moves ==
    \E t \in Thread : GivePut(t) \/ GetSome(t) \/ \E m \in Msg : GiveBegin(t, m)

LEMMA OwnershipOthers ==
    ASSUME TypeInv, Ownership, Next, ~Moves
    PROVE  Ownership'
  <1> USE DEF TypeInv, TypeOK, GivePCs, EarlyPCs, TakePCs
  <1>1. ASSUME NEW t \in Thread, Give(t), ~GivePut(t) PROVE Ownership'
    BY <1>1, OwnershipFrame DEF Give, GivePending, GiveMemory, GiveUsed, GiveLock,
                GiveAccount, GiveNotify, Return, Pass, Asleep
  <1>2. ASSUME NEW t \in Thread, Receive(t), ~GetSome(t) PROVE Ownership'
    BY <1>2, OwnershipFrame DEF Receive, GetNone, Release, Take, Discard, Wait, Timeout,
                Reacquire, Return
  <1>3. ASSUME NEW t \in Thread, RecvBegin(t) \/ \E o \in BlockingOps : BlockBegin(t, o)
        PROVE  Ownership'
    BY <1>3, OwnershipFrame DEF RecvBegin, BlockBegin
  <1>4. CASE Environment
    BY <1>4, OwnershipFrame DEF Environment, SpuriousWakeup, SetLimitPending,
                SetLimitMemory, TakenElsewhere
  <1> QED BY <1>1, <1>2, <1>3, <1>4 DEF Next, Begin, Continue, Moves

LEMMA OwnershipStep == TypeInv /\ Ownership /\ [Next]_vars => Ownership'
  <1>1. UNCHANGED vars /\ Ownership => Ownership'
    BY DEF vars, Ownership, Queued
  <1>2. TypeInv /\ Ownership /\ Next /\ Moves => Ownership'
    BY OwnershipBegin, OwnershipPut, OwnershipGet DEF Moves
  <1> QED BY <1>1, <1>2, OwnershipOthers

LEMMA OwnershipInvariant == Spec => []Ownership
  BY OwnershipInit, OwnershipStep, TypeInvariant, PTL DEF Spec

----------------------------------------------------------------------------
(* The memory counter *)

Uncounted == InHand("account")
Taken == InHand("release")

MemoryInv ==
    /\ IsFiniteSet(Units(Queued)) /\ IsFiniteSet(Units(Taken)) /\ IsFiniteSet(Units(Uncounted))
    /\ MemoryAccounting

LEMMA MemoryInit == Init => MemoryInv
  <1> SUFFICES ASSUME Init PROVE MemoryInv
    OBVIOUS
  <1>1. Queued = {} /\ Taken = {} /\ Uncounted = {}
    BY DEF Init, Queued, Taken, Uncounted, InHand
  <1>2. Units({}) = {}
    BY DEF Units
  <1>3. IsFiniteSet(Units({})) /\ SumCap({}) = 0
    BY <1>2, FS_EmptySet DEF SumCap
  <1>4. 0 = (0 + 0 - 0) % UsizeMod
    BY ModUnique, UsizeAssumption
  <1> QED BY <1>1, <1>3, <1>4 DEF MemoryInv, MemoryAccounting, Taken, Uncounted, Init

\* What the counter stands for before the reduction modulo UsizeMod.
Balance == SumCap(Queued) + SumCap(Taken) - SumCap(Uncounted)

LEMMA BalanceType ==
    ASSUME MemoryInv
    PROVE  /\ SumCap(Queued) \in Nat /\ SumCap(Taken) \in Nat /\ SumCap(Uncounted) \in Nat
           /\ Balance \in Int /\ memoryused = Balance % UsizeMod
  <1>1. SumCap(Queued) \in Nat /\ SumCap(Taken) \in Nat /\ SumCap(Uncounted) \in Nat
    BY FS_CardinalityType DEF MemoryInv, SumCap
  <1> QED BY <1>1 DEF MemoryInv, MemoryAccounting, Balance, Taken, Uncounted

LEMMA MemoryFrame ==
    ASSUME MemoryInv, UNCHANGED memoryused, UNCHANGED messages,
           \A u \in Thread :
               /\ pc'[u] = "release" <=> pc[u] = "release"
               /\ pc'[u] = "account" <=> pc[u] = "account"
               /\ pc[u] \in {"release", "account"} => hand'[u] = hand[u]
    PROVE  MemoryInv'
  <1>1. Queued' = Queued
    BY DEF Queued
  <1>2. Taken' = Taken /\ Uncounted' = Uncounted
    BY DEF Taken, Uncounted, InHand
  <1> QED BY <1>1, <1>2 DEF MemoryInv, MemoryAccounting, Taken, Uncounted

\* A message changes sides, and the balance stays as it is.
LEMMA MemoryPut ==
    ASSUME TypeInv, Ownership, MemoryInv, NEW t \in Thread, GivePut(t)
    PROVE  MemoryInv'
  <1> DEFINE m == hand[t]
  <1>1. m \in Msg /\ m \notin Queued /\ Queued' = Queued \cup {m}
    BY QueuedPut
  <1>2. /\ pc[t] = "put" /\ pc'[t] = "account" /\ hand' = hand
        /\ \A u \in Thread : u # t => pc'[u] = pc[u]
        /\ UNCHANGED memoryused
    BY DEF GivePut, TypeInv, TypeOK
  <1>3. m \notin Uncounted /\ Uncounted' = Uncounted \cup {m} /\ Taken' = Taken
    BY <1>2 DEF Uncounted, Taken, InHand, Ownership, GivePCs
  <1> HIDE DEF m
  <1>4. /\ IsFiniteSet(Units(Queued')) /\ SumCap(Queued') = SumCap(Queued) + Cap[m]
    BY <1>1, SumAdd DEF MemoryInv
  <1>5. IsFiniteSet(Units(Uncounted')) /\ SumCap(Uncounted') = SumCap(Uncounted) + Cap[m]
    BY <1>1, <1>3, SumAdd DEF MemoryInv
  <1>6. Cap[m] \in Nat
    BY <1>1, SumOne
  <1>7. Balance' = Balance
    BY <1>3, <1>4, <1>5, <1>6, BalanceType DEF Balance
  <1> QED BY <1>2, <1>3, <1>4, <1>5, <1>7, BalanceType
          DEF MemoryInv, MemoryAccounting, Balance, Taken, Uncounted

LEMMA MemoryGet ==
    ASSUME TypeInv, Ownership, MemoryInv, NEW t \in Thread, GetSome(t)
    PROVE  MemoryInv'
  <1> DEFINE m == hand'[t]
  <1>1. m \in Msg /\ m \in Queued /\ Queued' = Queued \ {m}
    BY QueuedGet
  <1>2. /\ pc[t] = "get" /\ pc'[t] = "release"
        /\ \A u \in Thread : u # t => pc'[u] = pc[u] /\ hand'[u] = hand[u]
        /\ UNCHANGED memoryused
    BY DEF GetSome, TypeInv, TypeOK
  <1>3. m \notin Taken /\ Taken' = Taken \cup {m} /\ Uncounted' = Uncounted
    BY <1>1, <1>2 DEF Uncounted, Taken, InHand, Ownership, TakePCs
  <1> HIDE DEF m
  <1>4. /\ IsFiniteSet(Units(Queued')) /\ SumCap(Queued') = SumCap(Queued) - Cap[m]
    BY <1>1, SumRemove DEF MemoryInv
  <1>5. IsFiniteSet(Units(Taken')) /\ SumCap(Taken') = SumCap(Taken) + Cap[m]
    BY <1>1, <1>3, SumAdd DEF MemoryInv
  <1>6. Cap[m] \in Nat
    BY <1>1, SumOne
  <1>7. Balance' = Balance
    BY <1>3, <1>4, <1>5, <1>6, BalanceType DEF Balance
  <1> QED BY <1>2, <1>3, <1>4, <1>5, <1>7, BalanceType
          DEF MemoryInv, MemoryAccounting, Balance, Taken, Uncounted

\* A message is counted, and the balance moves with the counter.
LEMMA MemoryAccount ==
    ASSUME TypeInv, Ownership, MemoryInv, NEW t \in Thread, GiveAccount(t)
    PROVE  MemoryInv'
  <1> DEFINE m == hand[t]
  <1>1. m \in Msg /\ Queued' = Queued
    BY DEF GiveAccount, TypeInv, Shape, GivePCs, Queued
  <1>2. /\ pc[t] = "account" /\ pc'[t] = "notify" /\ hand' = hand
        /\ \A u \in Thread : u # t => pc'[u] = pc[u]
        /\ memoryused' = (memoryused + Cap[m]) % UsizeMod
    BY DEF GiveAccount, TypeInv, TypeOK
  <1>3. m \in Uncounted /\ Uncounted' = Uncounted \ {m} /\ Taken' = Taken
    <2>1. \A u \in Thread : u # t /\ pc[u] = "account" => hand[u] # m
      BY <1>2 DEF Ownership, GivePCs
    <2> QED BY <1>2, <2>1 DEF Uncounted, Taken, InHand
  <1> HIDE DEF m
  <1>4. IsFiniteSet(Units(Uncounted')) /\ SumCap(Uncounted') = SumCap(Uncounted) - Cap[m]
    BY <1>1, <1>3, SumRemove DEF MemoryInv
  <1>5. Cap[m] \in Nat
    BY <1>1, SumOne
  <1>6. Balance' = Balance + Cap[m]
    BY <1>1, <1>3, <1>4, <1>5, BalanceType DEF Balance
  <1>7. memoryused' = Balance' % UsizeMod
    BY <1>2, <1>5, <1>6, BalanceType, ModAdd
  <1> QED BY <1>1, <1>3, <1>4, <1>7 DEF MemoryInv, MemoryAccounting, Balance, Taken, Uncounted

LEMMA MemoryRelease ==
    ASSUME TypeInv, Ownership, MemoryInv, NEW t \in Thread, Release(t)
    PROVE  MemoryInv'
  <1> DEFINE m == hand[t]
  <1>1. m \in Msg /\ Queued' = Queued
    BY DEF Release, TypeInv, Shape, Queued
  <1>2. /\ pc[t] = "release" /\ pc'[t] \in {"take", "idle"}
        /\ \A u \in Thread : u # t => pc'[u] = pc[u] /\ hand'[u] = hand[u]
        /\ memoryused' = (memoryused - Cap[m]) % UsizeMod
    BY DEF Release, Return, TypeInv, TypeOK
  <1>3. m \in Taken /\ Taken' = Taken \ {m} /\ Uncounted' = Uncounted
    <2>1. \A u \in Thread : u # t /\ pc[u] = "release" => hand[u] # m
      BY <1>2 DEF Ownership, TakePCs
    <2> QED BY <1>2, <2>1 DEF Uncounted, Taken, InHand
  <1> HIDE DEF m
  <1>4. IsFiniteSet(Units(Taken')) /\ SumCap(Taken') = SumCap(Taken) - Cap[m]
    BY <1>1, <1>3, SumRemove DEF MemoryInv
  <1>5. Cap[m] \in Nat
    BY <1>1, SumOne
  <1>6. Balance' = Balance + (-Cap[m]) /\ -Cap[m] \in Int
    BY <1>1, <1>3, <1>4, <1>5, BalanceType DEF Balance
  <1>7. memoryused' = (memoryused + (-Cap[m])) % UsizeMod
    <2>1. memoryused \in Int
      BY UsizeAssumption DEF TypeInv, TypeOK
    <2>2. memoryused - Cap[m] = memoryused + (-Cap[m])
      BY <1>5, <2>1
    <2> QED BY <1>2, <2>2
  <1>8. memoryused' = Balance' % UsizeMod
    BY <1>6, <1>7, BalanceType, ModAdd
  <1> QED BY <1>1, <1>3, <1>4, <1>8 DEF MemoryInv, MemoryAccounting, Balance, Taken, Uncounted

LEMMA MemoryOthers ==
    ASSUME TypeInv, Ownership, MemoryInv, Next,
           ~ \E t \in Thread : GivePut(t) \/ GetSome(t) \/ GiveAccount(t) \/ Release(t)
    PROVE  MemoryInv'
  <1> USE DEF TypeInv, TypeOK
  <1>1. ASSUME NEW t \in Thread, Give(t), ~GivePut(t), ~GiveAccount(t) PROVE MemoryInv'
    BY <1>1, MemoryFrame DEF Give, GivePending, GiveMemory, GiveUsed, GiveLock,
                GiveNotify, Return, Pass, Asleep
  <1>2. ASSUME NEW t \in Thread, Receive(t), ~GetSome(t), ~Release(t) PROVE MemoryInv'
    BY <1>2, MemoryFrame DEF Receive, GetNone, Take, Discard, Wait, Timeout, Reacquire, Return
  <1>3. ASSUME NEW t \in Thread, Begin(t) PROVE MemoryInv'
    BY <1>3, MemoryFrame DEF Begin, GiveBegin, RecvBegin, BlockBegin
  <1>4. CASE Environment
    BY <1>4, MemoryFrame DEF Environment, SpuriousWakeup, SetLimitPending,
                SetLimitMemory, TakenElsewhere
  <1> QED BY <1>1, <1>2, <1>3, <1>4 DEF Next, Continue

LEMMA MemoryStep == TypeInv /\ Ownership /\ MemoryInv /\ [Next]_vars => MemoryInv'
  <1>1. UNCHANGED vars /\ MemoryInv => MemoryInv'
    BY MemoryFrame DEF vars
  <1> QED BY <1>1, MemoryPut, MemoryGet, MemoryAccount, MemoryRelease, MemoryOthers

LEMMA MemoryInvariant == Spec => []MemoryInv
  BY MemoryInit, MemoryStep, TypeInvariant, OwnershipInvariant, PTL DEF Spec

\* Whatever gives and receives run at once, the counter is the memory of the
\* queue, up to the messages that were moved and are not counted yet, modulo the
\* range of usize (endpoint.rs:267, 411).
THEOREM MemoryCounted == Spec => []MemoryAccounting
  BY MemoryInvariant, PTL DEF MemoryInv

----------------------------------------------------------------------------
(* The limit of memory *)

\* The limit a thread compares the memory with is one that was set.
LoadedMemoryLimit == \A t \in Thread : pc[t] = "used" => limit[t] \in MemoryLimits

LEMMA LoadedMemoryInit == Init => LoadedMemoryLimit
  BY DEF Init, LoadedMemoryLimit

LEMMA LoadedMemoryStep == TypeInv /\ LoadedMemoryLimit /\ [Next]_vars => LoadedMemoryLimit'
  <1> SUFFICES ASSUME TypeInv, LoadedMemoryLimit, [Next]_vars,
                      NEW u \in Thread, pc'[u] = "used"
               PROVE  limit'[u] \in MemoryLimits
    BY DEF LoadedMemoryLimit
  <1> USE DEF TypeInv, TypeOK, PCs, LoadedMemoryLimit
  <1>1. CASE UNCHANGED vars
    BY <1>1 DEF vars
  <1>2. ASSUME NEW t \in Thread, GiveMemory(t) PROVE limit'[u] \in MemoryLimits
    BY <1>2 DEF GiveMemory
  <1>3. ASSUME NEW t \in Thread, Give(t), ~GiveMemory(t)
        PROVE  pc[u] = "used" /\ limit'[u] = limit[u]
    BY <1>3 DEF Give, GivePending, GiveUsed, GiveLock, GivePut, GiveAccount,
                GiveNotify, Return, Pass, Asleep
  <1>4. ASSUME NEW t \in Thread, Receive(t) PROVE pc[u] = "used" /\ limit'[u] = limit[u]
    BY <1>4 DEF Receive, GetSome, GetNone, Release, Take, Discard, Wait, Timeout,
                Reacquire, Return
  <1>5. ASSUME NEW t \in Thread, Begin(t) PROVE pc[u] = "used" /\ limit'[u] = limit[u]
    BY <1>5 DEF Begin, GiveBegin, RecvBegin, BlockBegin
  <1>6. CASE Environment
    BY <1>6 DEF Environment, SpuriousWakeup, SetLimitPending, SetLimitMemory, TakenElsewhere
  <1> QED BY <1>1, <1>2, <1>3, <1>4, <1>5, <1>6 DEF Next, Continue

LEMMA GreatestMemoryLimit ==
    /\ Max(MemoryLimits) \in MemoryLimits /\ Max(MemoryLimits) \in Nat
    /\ \A n \in MemoryLimits : n <= Max(MemoryLimits)
  <1>1. PICK greatest \in MemoryLimits : \A n \in MemoryLimits : greatest >= n
    BY LimitAssumption
  <1>2. /\ Max(MemoryLimits) \in MemoryLimits
        /\ \A n \in MemoryLimits : Max(MemoryLimits) >= n
    BY <1>1, Zenon DEF Max
  <1> QED BY <1>2, LimitAssumption

LEMMA GreatestCap ==
    ASSUME MessagesFit
    PROVE  MaxCap \in Nat /\ \A m \in Msg : Cap[m] <= MaxCap
  <1> DEFINE C == {Cap[m] : m \in Msg}
  <1>1. C \subseteq Nat
    BY CapAssumption
  <1>2. PICK greatest \in C : \A n \in C : greatest >= n
    BY CapAssumption DEF MessagesFit
  <1>3. MaxCap \in C /\ \A n \in C : MaxCap >= n
    BY <1>2, Zenon DEF MaxCap, Max
  <1> QED BY <1>1, <1>3

LEMMA SendersMemory ==
    ASSUME MessagesFit
    PROVE  Cardinality(Senders) * MaxCap \in Nat
  <1>1. MaxCap \in Nat /\ Cardinality(Senders) \in Nat
    BY GreatestCap, ServersFinite, FS_CardinalityType
  <1>2. \A i, j \in Nat : i * j \in Nat
    OBVIOUS
  <1> QED BY <1>1, <1>2

\* The messages in the hands of senders have at most MaxCap each.
LEMMA SumHands ==
    ASSUME MessagesFit, NEW T, T \subseteq Senders, \A t \in T : hand[t] \in Msg
    PROVE  /\ IsFiniteSet(Units({hand[t] : t \in T}))
           /\ SumCap({hand[t] : t \in T}) <= Cardinality(Senders) * MaxCap
  <1> DEFINE H == {hand[t] : t \in T}
             P == Senders \X (1..MaxCap)
             f == [p \in P |-> <<hand[p[1]], p[2]>>]
             I == {f[p] : p \in P}
  <1>1. MaxCap \in Nat /\ \A m \in Msg : Cap[m] <= MaxCap /\ Cap[m] \in Nat
    BY GreatestCap, CapAssumption
  <1>2. IsFiniteSet(1..MaxCap) /\ Cardinality(1..MaxCap) = MaxCap
    BY <1>1, FS_Interval
  <1>3. IsFiniteSet(Senders) /\ Cardinality(Senders) \in Nat
    BY ServersFinite, FS_CardinalityType
  <1>4. IsFiniteSet(P) /\ Cardinality(P) = Cardinality(Senders) * MaxCap
    BY <1>2, <1>3, FS_Product
  <1>5. IsFiniteSet(I) /\ Cardinality(I) <= Cardinality(P)
    <2>1. f \in Surjection(P, I)
      <3> HIDE DEF P
      <3> QED BY DEF Surjection
    <2> HIDE DEF f, I, P
    <2> QED BY <1>4, <2>1, FS_Surjection
  <1>6. Units(H) \in SUBSET I
    <2> SUFFICES ASSUME NEW x \in Units(H) PROVE x \in I
      OBVIOUS
    <2>1. PICK t \in T : x \in {hand[t]} \X (1..Cap[hand[t]])
      BY DEF Units
    <2>2. PICK n \in 1..Cap[hand[t]] : x = <<hand[t], n>>
      BY <2>1
    <2>3. <<t, n>> \in P
      BY <1>1, <2>2
    <2>4. f[<<t, n>>] = x
      BY <2>2, <2>3
    <2> HIDE DEF f, P
    <2> QED BY <2>3, <2>4
  <1>7. /\ IsFiniteSet(Units(H)) /\ Cardinality(Units(H)) <= Cardinality(I)
        /\ Cardinality(Units(H)) \in Nat /\ Cardinality(I) \in Nat /\ Cardinality(P) \in Nat
    BY <1>4, <1>5, <1>6, FS_Subset, FS_CardinalityType
  <1> QED BY <1>4, <1>5, <1>7 DEF SumCap

\* The messages that a thread will put without another look at the memory.
Admitted == {hand[t] : t \in {u \in Thread : pc[u] \in {"lock", "put"}}}

\* The overshoot bound, with the admitted messages counted as if they were in
\* the queue already.
OvershootInv ==
    0 \notin MemoryLimits =>
        /\ IsFiniteSet(Units(Queued \cup Admitted))
        /\ SumCap(Queued \cup Admitted) < Max(MemoryLimits) + Cardinality(Senders) * MaxCap

LEMMA MemoryOvershootInit == MessagesFit /\ Init => OvershootInv
  <1> SUFFICES ASSUME MessagesFit, Init, 0 \notin MemoryLimits
               PROVE  /\ IsFiniteSet(Units(Queued \cup Admitted))
                      /\ SumCap(Queued \cup Admitted)
                           < Max(MemoryLimits) + Cardinality(Senders) * MaxCap
    BY DEF OvershootInv
  <1>1. Queued \cup Admitted = {}
    BY DEF Init, Queued, Admitted
  <1>2. IsFiniteSet(Units({})) /\ SumCap({}) = 0
    BY FS_EmptySet DEF Units, SumCap
  <1>3. Cardinality(Senders) * MaxCap \in Nat
    BY SendersMemory
  <1>4. Max(MemoryLimits) \in Nat \ {0}
    BY GreatestMemoryLimit
  <1>5. 0 < Max(MemoryLimits) + Cardinality(Senders) * MaxCap
    BY <1>3, <1>4
  <1> QED BY <1>1, <1>2, <1>5, Zenon

\* The queue and the admitted messages only lose messages.
LEMMA MemoryOvershootFrame ==
    ASSUME MessagesFit, OvershootInv, (Queued \cup Admitted)' \subseteq Queued \cup Admitted
    PROVE  OvershootInv'
  <1> SUFFICES ASSUME 0 \notin MemoryLimits
               PROVE  /\ IsFiniteSet(Units((Queued \cup Admitted)'))
                      /\ SumCap((Queued \cup Admitted)')
                           < Max(MemoryLimits) + Cardinality(Senders) * MaxCap
    BY DEF OvershootInv, Units, SumCap, Senders, MaxCap
  <1> DEFINE S == Queued \cup Admitted
  <1>1. IsFiniteSet(Units(S)) /\ SumCap(S) < Max(MemoryLimits) + Cardinality(Senders) * MaxCap
    BY DEF OvershootInv
  <1>2. /\ IsFiniteSet(Units(S')) /\ SumCap(S') <= SumCap(S)
        /\ SumCap(S) \in Nat /\ SumCap(S') \in Nat
    BY <1>1, SumSubset
  <1>3. Cardinality(Senders) * MaxCap \in Nat /\ Max(MemoryLimits) \in Nat
    BY SendersMemory, GreatestMemoryLimit
  <1> HIDE DEF S
  <1>4. SumCap(S') < Max(MemoryLimits) + Cardinality(Senders) * MaxCap
    BY <1>1, <1>2, <1>3
  <1> QED BY <1>2, <1>4 DEF S

\* A thread that finds the counter below a limit knows that the queue is below
\* that limit and the messages that are queued and not counted yet.
LEMMA QueueBelow ==
    ASSUME MessagesFit, TypeInv, Ownership, MemoryInv,
           NEW n \in MemoryLimits, memoryused < n
    PROVE  SumCap(Queued) < Max(MemoryLimits) + SumCap(Uncounted)
  <1>1. /\ SumCap(Queued) \in Nat /\ SumCap(Taken) \in Nat /\ SumCap(Uncounted) \in Nat
        /\ Balance \in Int /\ memoryused = Balance % UsizeMod
    BY BalanceType
  <1>2. Balance < UsizeMod
    <2>1. Queued \cap Taken = {}
      BY DEF Ownership, Taken, InHand, TakePCs
    <2>2. Queued \cup Taken \subseteq Msg
      <3>1. Queued \subseteq Msg
        BY DEF Queued, TypeInv, TypeOK
      <3>2. Taken \subseteq Msg
        BY DEF Taken, InHand, TypeInv, Shape
      <3> QED BY <3>1, <3>2
    <2>3. SumCap(Queued \cup Taken) = SumCap(Queued) + SumCap(Taken)
      BY <2>1, SumUnion DEF MemoryInv
    <2>4. SumCap(Queued \cup Taken) <= SumCap(Msg) /\ SumCap(Msg) \in Nat
      BY <2>2, SumSubset DEF MessagesFit
    <2> QED BY <1>1, <2>3, <2>4, UsizeAssumption DEF Balance, MessagesFit
  <1>3. n <= Max(MemoryLimits) /\ n \in Nat /\ Max(MemoryLimits) \in Nat
    BY GreatestMemoryLimit, LimitAssumption
  <1>4. CASE Balance >= 0
    <2>1. Balance % UsizeMod = Balance
      <3>1. Balance = 0 * UsizeMod + Balance /\ UsizeMod \in Nat
        BY <1>1, UsizeAssumption
      <3> QED BY <1>1, <1>2, <1>4, <3>1, ModUnique
    <2>2. Balance < n
      BY <1>1, <2>1
    <2> QED BY <1>1, <1>3, <2>2 DEF Balance
  <1>5. CASE Balance < 0
    BY <1>1, <1>3, <1>5 DEF Balance
  <1> QED BY <1>1, <1>4, <1>5

LEMMA MemoryOvershootUsed ==
    ASSUME MessagesFit, TypeInv, TypeInv', Ownership, Ownership', MemoryInv, MemoryInv',
           OvershootInv, LoadedMemoryLimit, NEW t \in Thread, GiveUsed(t), Pass(t, "used", "lock")
    PROVE  OvershootInv'
  <1>1. /\ pc[t] = "used" /\ pc'[t] = "lock" /\ UNCHANGED <<messages, memoryused, hand>>
        /\ \A u \in Thread : u # t => pc'[u] = pc[u]
        /\ memoryused < limit[t] /\ limit[t] \in MemoryLimits
    <2>1. /\ pc[t] = "used" /\ pc'[t] = "lock" /\ UNCHANGED <<messages, memoryused, hand>>
          /\ \A u \in Thread : u # t => pc'[u] = pc[u]
      BY DEF GiveUsed, Pass, TypeInv, TypeOK
    <2>2. ~MemoryFull(t)
      BY <2>1 DEF GiveUsed, Return, TypeInv, TypeOK
    <2>3. memoryused \in Int /\ limit[t] \in Int
      BY UsizeAssumption DEF TypeInv, TypeOK
    <2> QED BY <2>1, <2>2, <2>3 DEF LoadedMemoryLimit
  <1> DEFINE T == {u \in Thread : pc'[u] \in {"lock", "put", "account"}}
             H == {hand[u] : u \in T}
  <1>2. SumCap(Queued) < Max(MemoryLimits) + SumCap(Uncounted)
    BY <1>1, QueueBelow
  <1>3. T \subseteq Senders /\ \A u \in T : hand[u] \in Msg
    BY <1>1 DEF TypeInv, Shape, GivePCs, Senders
  <1>4. /\ IsFiniteSet(Units(H)) /\ SumCap(H) <= Cardinality(Senders) * MaxCap
        /\ Cardinality(Senders) * MaxCap \in Nat
    BY <1>3, SumHands, SendersMemory
  <1>5. H = Admitted' \cup Uncounted /\ Queued' = Queued
    BY <1>1 DEF Admitted, Uncounted, InHand, Queued
  <1>6. Admitted' \cap Uncounted = {}
    BY <1>1 DEF Admitted, Uncounted, InHand, Ownership, GivePCs
  <1> HIDE DEF H, T
  <1>7. IsFiniteSet(Units(Admitted')) /\ SumCap(Admitted') \in Nat
    BY <1>4, <1>5, SumSubset
  <1>8. IsFiniteSet(Units(Uncounted)) /\ IsFiniteSet(Units(Queued)) /\ SumCap(Uncounted) \in Nat
        /\ SumCap(Queued) \in Nat
    BY BalanceType DEF MemoryInv
  <1>9. SumCap(H) = SumCap(Admitted') + SumCap(Uncounted)
    BY <1>5, <1>6, <1>7, <1>8, SumUnion
  <1>10. /\ IsFiniteSet(Units(Queued \cup Admitted')) /\ SumCap(Queued \cup Admitted') \in Nat
         /\ SumCap(Queued \cup Admitted') <= SumCap(Queued) + SumCap(Admitted')
    BY <1>7, <1>8, SumUnion
  <1>11. SumCap(Queued \cup Admitted') < Max(MemoryLimits) + Cardinality(Senders) * MaxCap
    BY <1>2, <1>4, <1>7, <1>8, <1>9, <1>10, GreatestMemoryLimit
  <1>12. (Queued \cup Admitted)' = Queued \cup Admitted'
    BY <1>5
  <1> QED BY <1>10, <1>11, <1>12 DEF OvershootInv, Units, SumCap, Senders, MaxCap

LEMMA MemoryOvershootOthers ==
    ASSUME MessagesFit, TypeInv, Ownership, OvershootInv, Next,
           ~ \E t \in Thread : GiveUsed(t) /\ Pass(t, "used", "lock")
    PROVE  OvershootInv'
  <1> SUFFICES ASSUME 0 \notin MemoryLimits
               PROVE  (Queued \cup Admitted)' \subseteq Queued \cup Admitted
    BY MemoryOvershootFrame DEF OvershootInv
  <1> USE DEF TypeInv, TypeOK
  <1>1. ASSUME NEW t \in Thread, GivePut(t)
        PROVE  (Queued \cup Admitted)' \subseteq Queued \cup Admitted
    <2>1. Queued' = Queued \cup {hand[t]} /\ hand[t] \in Admitted
      BY <1>1, QueuedPut DEF GivePut, Admitted
    <2>2. Admitted' \subseteq Admitted
      BY <1>1 DEF GivePut, Admitted
    <2> QED BY <2>1, <2>2
  <1>2. ASSUME NEW t \in Thread, GetSome(t)
        PROVE  (Queued \cup Admitted)' \subseteq Queued \cup Admitted
    <2>1. Queued' \subseteq Queued
      BY <1>2, QueuedGet
    <2>2. Admitted' \subseteq Admitted
      BY <1>2 DEF GetSome, Admitted
    <2> QED BY <2>1, <2>2
  <1>3. ASSUME UNCHANGED messages,
               \A u \in Thread : pc'[u] \in {"lock", "put"}
                                   => pc[u] \in {"lock", "put"} /\ hand'[u] = hand[u]
        PROVE  (Queued \cup Admitted)' \subseteq Queued \cup Admitted
    BY <1>3 DEF Queued, Admitted
  <1>4. ASSUME NEW t \in Thread, GiveMemory(t)
        PROVE  (Queued \cup Admitted)' \subseteq Queued \cup Admitted
    <2>1. limitmemory > 0
      BY LimitAssumption
    <2> QED BY <1>3, <1>4, <2>1 DEF GiveMemory
  <1>5. ASSUME NEW t \in Thread, Give(t), ~GivePut(t), ~GiveMemory(t)
        PROVE  (Queued \cup Admitted)' \subseteq Queued \cup Admitted
    BY <1>3, <1>5 DEF Give, GivePending, GiveUsed, GiveLock, GiveAccount,
                GiveNotify, Return, Pass, Asleep
  <1>6. ASSUME NEW t \in Thread, Receive(t), ~GetSome(t)
        PROVE  (Queued \cup Admitted)' \subseteq Queued \cup Admitted
    BY <1>3, <1>6 DEF Receive, GetNone, Release, Take, Discard, Wait, Timeout, Reacquire, Return
  <1>7. ASSUME NEW t \in Thread, Begin(t)
        PROVE  (Queued \cup Admitted)' \subseteq Queued \cup Admitted
    BY <1>3, <1>7 DEF Begin, GiveBegin, RecvBegin, BlockBegin
  <1>8. CASE Environment
    BY <1>3, <1>8 DEF Environment, SpuriousWakeup, SetLimitPending,
                SetLimitMemory, TakenElsewhere
  <1> QED BY <1>1, <1>2, <1>4, <1>5, <1>6, <1>7, <1>8 DEF Next, Continue

LEMMA MemoryOvershootStep ==
    /\ MessagesFit
    /\ TypeInv /\ TypeInv' /\ Ownership /\ Ownership' /\ MemoryInv /\ MemoryInv'
    /\ LoadedMemoryLimit /\ OvershootInv /\ [Next]_vars
    => OvershootInv'
  <1>1. MessagesFit /\ UNCHANGED vars /\ OvershootInv => OvershootInv'
    BY MemoryOvershootFrame DEF vars, Queued, Admitted
  <1> QED BY <1>1, MemoryOvershootUsed, MemoryOvershootOthers

\* If all messages fit in memory, the queue exceeds the largest memory limit by
\* less than one message for each sender, however the checks and puts of give
\* interleave with receives that make the counter wrap (endpoint.rs:386-411).
THEOREM MemoryOvershootBounded == MessagesFit => (Spec => []MemoryOvershoot)
  <1> SUFFICES ASSUME MessagesFit PROVE Spec => []MemoryOvershoot
    OBVIOUS
  <1>1. Spec => []LoadedMemoryLimit
    BY LoadedMemoryInit, LoadedMemoryStep, TypeInvariant, PTL DEF Spec
  <1>2. Init => OvershootInv
    BY MemoryOvershootInit
  <1>3. /\ TypeInv /\ TypeInv' /\ Ownership /\ Ownership' /\ MemoryInv /\ MemoryInv'
        /\ LoadedMemoryLimit /\ OvershootInv /\ [Next]_vars
        => OvershootInv'
    BY MemoryOvershootStep
  <1>4. OvershootInv => MemoryOvershoot
    <2> SUFFICES ASSUME OvershootInv, 0 \notin MemoryLimits
                 PROVE  SumCap(Queued) < Max(MemoryLimits) + Cardinality(Senders) * MaxCap
      BY DEF MemoryOvershoot
    <2>1. /\ IsFiniteSet(Units(Queued \cup Admitted))
          /\ SumCap(Queued \cup Admitted) < Max(MemoryLimits) + Cardinality(Senders) * MaxCap
      BY DEF OvershootInv
    <2>2. /\ SumCap(Queued) <= SumCap(Queued \cup Admitted)
          /\ SumCap(Queued) \in Nat /\ SumCap(Queued \cup Admitted) \in Nat
      BY <2>1, SumSubset
    <2>3. Cardinality(Senders) * MaxCap \in Nat /\ Max(MemoryLimits) \in Nat
      BY SendersMemory, GreatestMemoryLimit
    <2> QED BY <2>1, <2>2, <2>3
  <1> QED BY <1>1, <1>2, <1>3, <1>4, TypeInvariant, OwnershipInvariant, MemoryInvariant, PTL
          DEF Spec

----------------------------------------------------------------------------
(* Times *)

LEMMA CarriedTime ==
    ASSUME NEW a \in Time
    PROVE  /\ Carried(a) \in Time /\ Total(Carried(a)) = Total(a)
           /\ Carried(a).nsec <= NSINSEC
           /\ a.nsec # NSINSEC => Carried(a).nsec < NSINSEC
<1> DEFINE q == a.nsec \div NSINSEC
<1>1. a.sec \in Int /\ a.nsec \in Int /\ q \in Int
    BY SMT DEF Time, NSINSEC
<1>2. q * NSINSEC <= a.nsec /\ a.nsec < q * NSINSEC + NSINSEC
    BY <1>1, SMT DEF NSINSEC
<1>3. CASE a.nsec > NSINSEC
    <2>1. Carried(a) = [sec |-> a.sec + q, nsec |-> a.nsec - q * NSINSEC]
        BY <1>3 DEF Carried
    <2> HIDE DEF q
    <2> QED BY <2>1, <1>1, <1>2, SMT DEF Time, Total, NSINSEC
<1>4. CASE ~(a.nsec > NSINSEC)
    BY <1>1, <1>4, SMT DEF Carried, NSINSEC
<1> QED BY <1>3, <1>4

LEMMA BorrowedTime ==
    ASSUME NEW a \in Time
    PROVE  /\ Borrowed(a) \in Time /\ Total(Borrowed(a)) = Total(a)
           /\ Borrowed(a).nsec >= 0
           /\ a.nsec <= NSINSEC => Borrowed(a).nsec <= NSINSEC
           /\ a.nsec < NSINSEC => Borrowed(a).nsec < NSINSEC
<1> DEFINE q == (-a.nsec) \div NSINSEC
           b == [sec |-> a.sec - q, nsec |-> a.nsec + q * NSINSEC]
<1>1. a.sec \in Int /\ a.nsec \in Int /\ -a.nsec \in Int /\ q \in Int
    BY SMT DEF Time, NSINSEC
<1>2. q * NSINSEC <= -a.nsec /\ -a.nsec < q * NSINSEC + NSINSEC
    BY <1>1, SMT DEF NSINSEC
<1>3. Borrowed(a) = IF a.nsec >= 0 THEN a
                    ELSE IF b.nsec < 0 THEN [sec |-> b.sec - 1, nsec |-> b.nsec + NSINSEC] ELSE b
    BY DEF Borrowed
<1> HIDE DEF q
<1>4. CASE a.nsec >= 0
    BY <1>1, <1>3, <1>4
<1>5. CASE a.nsec < 0
    BY <1>1, <1>2, <1>3, <1>5, SMT DEF Time, Total, NSINSEC
<1> QED BY <1>1, <1>4, <1>5

\* unitize keeps the time and leaves nanoseconds that are not negative and less than
\* a second, except that a.nsec = NSINSEC stays as it is (timespec.rs:29-51:
\* "nano-seconds will not be equal or greater than one second").
THEOREM UnitizeNormal ==
    ASSUME NEW a \in Time
    PROVE  /\ unitize(a) \in Time /\ Total(unitize(a)) = Total(a)
           /\ unitize(a).nsec \in 0..NSINSEC
           /\ a.nsec # NSINSEC => unitize(a).nsec < NSINSEC
<1>1. /\ Carried(a) \in Time /\ Total(Carried(a)) = Total(a)
      /\ Carried(a).nsec <= NSINSEC
      /\ a.nsec # NSINSEC => Carried(a).nsec < NSINSEC
    BY CarriedTime
<1>2. /\ unitize(a) \in Time /\ Total(unitize(a)) = Total(Carried(a))
      /\ unitize(a).nsec >= 0 /\ unitize(a).nsec <= NSINSEC
      /\ a.nsec # NSINSEC => unitize(a).nsec < NSINSEC
    BY <1>1, BorrowedTime DEF unitize
<1>3. unitize(a).nsec \in Int /\ NSINSEC \in Int
    BY <1>2, SMT DEF Time, NSINSEC
<1>4. \A n, m \in Int : n >= 0 /\ n <= m => n \in 0..m
    OBVIOUS
<1>5. unitize(a).nsec \in 0..NSINSEC
    BY <1>2, <1>3, <1>4
<1> QED BY <1>1, <1>2, <1>5

\* sub is the difference, and its nanoseconds are less than a second if those of
\* the operands are (timespec.rs:17-27).
THEOREM SubRight ==
    ASSUME NEW a \in Time, NEW b \in Time
    PROVE  /\ Total(sub(a, b)) = Total(a) - Total(b)
           /\ sub(a, b).nsec \in 0..NSINSEC
           /\ a.nsec < NSINSEC /\ b.nsec >= 0 => sub(a, b).nsec < NSINSEC
<1> DEFINE c == [sec |-> a.sec - b.sec, nsec |-> a.nsec - b.nsec]
<1>1. c \in Time
    BY DEF Time
<1>2. /\ sub(a, b) \in Time /\ Total(sub(a, b)) = Total(c)
      /\ sub(a, b).nsec \in 0..NSINSEC
      /\ c.nsec # NSINSEC => sub(a, b).nsec < NSINSEC
    BY <1>1, UnitizeNormal DEF sub
<1>3. Total(c) = Total(a) - Total(b)
    BY SMT DEF Total, Time, NSINSEC
<1>4. a.nsec < NSINSEC /\ b.nsec >= 0 => c.nsec # NSINSEC
    BY SMT DEF Time, NSINSEC
<1> QED BY <1>2, <1>3, <1>4

\* add is the sum less twice the nanoseconds of the second operand, so it is right
\* for whole seconds only (timespec.rs:5-14: "Add two Timespec structures").
THEOREM AddWrongByNsec ==
    ASSUME NEW a \in Time, NEW b \in Time
    PROVE  Total(add(a, b)) = Total(a) + Total(b) - 2 * b.nsec
<1> DEFINE c == [sec |-> a.sec + b.sec, nsec |-> a.nsec - b.nsec]
<1>1. c \in Time
    BY DEF Time
<1>2. Total(add(a, b)) = Total(c)
    BY <1>1, UnitizeNormal DEF add
<1> QED BY <1>2, SMT DEF Total, Time, NSINSEC
=============================================================================
