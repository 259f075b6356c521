----------------------------- MODULE NetProofs ------------------------------
(* What is proved of Net for all values of its constants. *)
EXTENDS Net, FiniteSetTheorems, SequenceTheorems, TLAPS

----------------------------------------------------------------------------
(* Sequences without repetition, and counting *)

LEMMA AppendSet ==
    ASSUME NEW S, NEW s \in Seq(S), NEW x \in S
    PROVE  Append(s, x) \in Seq(S) /\ ToSet(Append(s, x)) = ToSet(s) \cup {x}
  <1>1. /\ Append(s, x) \in Seq(S) /\ Len(Append(s, x)) = Len(s) + 1
        /\ \A i \in 1..Len(s) : Append(s, x)[i] = s[i]
        /\ Append(s, x)[Len(s) + 1] = x
    OBVIOUS
  <1>2. DOMAIN s = 1..Len(s) /\ DOMAIN Append(s, x) = 1..Len(s) + 1 /\ Len(s) \in Nat
    BY <1>1
  <1> QED BY <1>1, <1>2 DEF ToSet

LEMMA AppendOne ==
    ASSUME NEW S, NEW s \in Seq(S), NEW x \in S, IsInjective(s), x \notin ToSet(s)
    PROVE  /\ Append(s, x) \in Seq(S) /\ IsInjective(Append(s, x))
           /\ ToSet(Append(s, x)) = ToSet(s) \cup {x}
  <1>1. /\ Append(s, x) \in Seq(S) /\ Len(Append(s, x)) = Len(s) + 1
        /\ \A i \in 1..Len(s) : Append(s, x)[i] = s[i]
        /\ Append(s, x)[Len(s) + 1] = x
    OBVIOUS
  <1>2. DOMAIN s = 1..Len(s) /\ DOMAIN Append(s, x) = 1..Len(s) + 1 /\ Len(s) \in Nat
    BY <1>1
  <1>3. \A i \in 1..Len(s) : Append(s, x)[i] # x
    BY <1>1, <1>2 DEF ToSet
  <1>4. IsInjective(Append(s, x))
    BY <1>1, <1>2, <1>3 DEF IsInjective
  <1> QED BY <1>1, <1>4, AppendSet

LEMMA TailOne ==
    ASSUME NEW S, NEW s \in Seq(S), IsInjective(s), s # <<>>
    PROVE  /\ Tail(s) \in Seq(S) /\ IsInjective(Tail(s))
           /\ Head(s) \in S /\ Head(s) \in ToSet(s)
           /\ ToSet(Tail(s)) = ToSet(s) \ {Head(s)}
  <1>1. /\ Tail(s) \in Seq(S) /\ Len(s) \in Nat \ {0} /\ Len(Tail(s)) = Len(s) - 1
        /\ \A i \in 1..Len(s) - 1 : Tail(s)[i] = s[i + 1]
        /\ Head(s) = s[1]
    OBVIOUS
  <1>2. DOMAIN s = 1..Len(s) /\ DOMAIN Tail(s) = 1..Len(s) - 1
    BY <1>1
  <1>3. Head(s) \in S /\ Head(s) \in ToSet(s)
    BY <1>1, <1>2 DEF ToSet
  <1>4. IsInjective(Tail(s))
    BY <1>1, <1>2 DEF IsInjective
  <1>5. ToSet(Tail(s)) = ToSet(s) \ {Head(s)}
    <2>1. \A i \in 1..Len(s) : i # 1 => i - 1 \in 1..Len(s) - 1 /\ s[i] = Tail(s)[i - 1]
      BY <1>1
    <2>2. \A i \in 1..Len(s) - 1 : i + 1 \in 1..Len(s) /\ s[i + 1] # s[1]
      BY <1>1, <1>2 DEF IsInjective
    <2>3. ASSUME NEW v \in ToSet(Tail(s)) PROVE v \in ToSet(s) \ {Head(s)}
      BY <1>1, <1>2, <2>2 DEF ToSet
    <2>4. ASSUME NEW v \in ToSet(s), v # Head(s) PROVE v \in ToSet(Tail(s))
      <3>1. PICK i \in 1..Len(s) : v = s[i]
        BY <1>2 DEF ToSet
      <3>2. i # 1
        BY <1>1, <2>4, <3>1
      <3> QED BY <1>2, <2>1, <3>1, <3>2 DEF ToSet
    <2> QED BY <2>3, <2>4
  <1> QED BY <1>1, <1>3, <1>4, <1>5

LEMMA RemoveOne ==
    ASSUME NEW S, NEW s \in Seq(S), IsInjective(s), NEW n \in DOMAIN s
    PROVE  /\ RemoveAt(s, n) \in Seq(S) /\ IsInjective(RemoveAt(s, n))
           /\ ToSet(RemoveAt(s, n)) = ToSet(s) \ {s[n]}
  <1> DEFINE r == RemoveAt(s, n)
             old(i) == IF i < n THEN i ELSE i + 1
  <1>1. DOMAIN s = 1..Len(s) /\ Len(s) \in Nat /\ n \in 1..Len(s)
    OBVIOUS
  <1>2. /\ r \in Seq(S) /\ DOMAIN r = 1..Len(s) - 1
        /\ \A i \in 1..Len(s) - 1 : r[i] = s[old(i)]
    <2> DEFINE a == SubSeq(s, 1, n - 1)
               b == SubSeq(s, n + 1, Len(s))
    <2>1. /\ a \in Seq(S) /\ Len(a) = n - 1 /\ \A i \in 1..n - 1 : a[i] = s[i]
          /\ b \in Seq(S) /\ Len(b) = Len(s) - n /\ \A i \in 1..Len(s) - n : b[i] = s[n + i]
      BY <1>1
    <2>2. r = a \o b
      BY DEF RemoveAt
    <2> HIDE DEF a, b
    <2> HIDE DEF r
    <2>3. /\ r \in Seq(S) /\ Len(r) = Len(a) + Len(b)
          /\ \A i \in 1..Len(a) + Len(b) : r[i] = IF i <= Len(a) THEN a[i] ELSE b[i - Len(a)]
      BY <2>1, <2>2, ConcatProperties
    <2>4. ASSUME NEW i \in 1..Len(s) - 1 PROVE r[i] = s[old(i)]
      <3>1. CASE i < n
        BY <1>1, <2>1, <2>3, <3>1
      <3>2. CASE i >= n
        <4>1. /\ i - (n - 1) \in 1..Len(s) - n /\ n + (i - (n - 1)) = i + 1
              /\ i \in 1..Len(a) + Len(b) /\ ~(i <= Len(a)) /\ i - Len(a) = i - (n - 1)
          BY <1>1, <2>1, <3>2
        <4>2. r[i] = b[i - Len(a)]
          BY <2>3, <4>1
        <4>3. b[i - (n - 1)] = s[n + (i - (n - 1))]
          BY <2>1, <4>1
        <4>4. old(i) = i + 1
          BY <1>1, <3>2
        <4> QED BY <4>1, <4>2, <4>3, <4>4
      <3> QED BY <1>1, <3>1, <3>2
    <2>5. DOMAIN r = 1..Len(s) - 1
      BY <1>1, <2>1, <2>3
    <2> QED BY <2>3, <2>4, <2>5
  <1> HIDE DEF r
  <1>3. \A i \in 1..Len(s) - 1 : old(i) \in 1..Len(s) \ {n}
    BY <1>1
  <1>4. \A i, j \in 1..Len(s) - 1 : old(i) = old(j) => i = j
    OBVIOUS
  <1>5. \A j \in 1..Len(s) \ {n} : \E i \in 1..Len(s) - 1 : old(i) = j
    <2> TAKE j \in 1..Len(s) \ {n}
    <2>1. CASE j < n
      BY <1>1, <2>1
    <2>2. CASE j > n
      <3>1. j - 1 \in 1..Len(s) - 1 /\ old(j - 1) = j
        BY <1>1, <2>2
      <3> QED BY <3>1
    <2> QED BY <1>1, <2>1, <2>2
  <1> HIDE DEF old
  <1>6. IsInjective(r)
    BY <1>1, <1>2, <1>3, <1>4 DEF IsInjective
  <1>7. ToSet(r) = ToSet(s) \ {s[n]}
    <2>1. \A i \in 1..Len(s) \ {n} : s[i] # s[n]
      BY <1>1 DEF IsInjective
    <2>2. ASSUME NEW v \in ToSet(r) PROVE v \in ToSet(s) \ {s[n]}
      BY <1>1, <1>2, <1>3, <2>1 DEF ToSet
    <2>3. ASSUME NEW v \in ToSet(s), v # s[n] PROVE v \in ToSet(r)
      <3>1. PICK j \in 1..Len(s) \ {n} : v = s[j]
        BY <1>1, <2>3 DEF ToSet
      <3>2. PICK i \in 1..Len(s) - 1 : old(i) = j
        BY <1>5
      <3> QED BY <1>2, <3>1, <3>2 DEF ToSet
    <2> QED BY <2>2, <2>3
  <1> QED BY <1>2, <1>6, <1>7 DEF r

LEMMA CountOne ==
    ASSUME NEW S, IsFiniteSet(S), NEW x, NEW y
    PROVE  /\ Cardinality(S) \in Nat
           /\ IsFiniteSet(S \cup {x}) /\ IsFiniteSet(S \ {x}) /\ IsFiniteSet((S \ {x}) \cup {y})
           /\ x \notin S => Cardinality(S \cup {x}) = Cardinality(S) + 1
           /\ x \in S => /\ Cardinality(S) > 0
                         /\ Cardinality(S \ {x}) = Cardinality(S) - 1
           /\ x \in S /\ y \notin S => Cardinality((S \ {x}) \cup {y}) = Cardinality(S)
  <1>1. Cardinality(S) \in Nat /\ (Cardinality(S) = 0 <=> S = {})
    BY FS_CardinalityType, FS_EmptySet
  <1>2. IsFiniteSet(S \cup {x}) /\ (x \notin S => Cardinality(S \cup {x}) = Cardinality(S) + 1)
    BY FS_AddElement
  <1>3. IsFiniteSet(S \ {x}) /\ (x \in S => Cardinality(S \ {x}) = Cardinality(S) - 1)
    BY FS_RemoveElement
  <1>4. /\ IsFiniteSet((S \ {x}) \cup {y})
        /\ y \notin S => Cardinality((S \ {x}) \cup {y}) = Cardinality(S \ {x}) + 1
    BY <1>3, FS_AddElement
  <1>5. x \in S => Cardinality(S) > 0
    BY <1>1
  <1>6. x \in S /\ y \notin S => Cardinality((S \ {x}) \cup {y}) = Cardinality(S)
    BY <1>1, <1>3, <1>4
  <1> QED BY <1>1, <1>2, <1>3, <1>4, <1>5, <1>6

LEMMA SwapOne ==
    ASSUME NEW S, IsFiniteSet(S), NEW x \in S, NEW y, y \notin S
    PROVE  /\ IsFiniteSet((S \ {x}) \cup {y})
           /\ Cardinality((S \ {x}) \cup {y}) = Cardinality(S)
  <1>1. IsFiniteSet((S \ {x}) \cup {y})
    BY CountOne
  <1>2. Cardinality((S \ {x}) \cup {y}) = Cardinality(S)
    BY CountOne, ZenonT(30)
  <1> QED BY <1>1, <1>2

LEMMA CountTwo ==
    ASSUME NEW x, NEW y, x # y
    PROVE  IsFiniteSet({x, y}) /\ Cardinality({x, y}) = 2
  <1>1. IsFiniteSet({x}) /\ Cardinality({x}) = 1
    BY FS_Singleton
  <1>2. IsFiniteSet({x} \cup {y}) /\ Cardinality({x} \cup {y}) = 1 + 1
    BY <1>1, FS_AddElement
  <1>3. {x, y} = {x} \cup {y}
    OBVIOUS
  <1> QED BY <1>2, <1>3

LEMMA CountThree ==
    ASSUME NEW S, IsFiniteSet(S), NEW x \in S, NEW y \in S, NEW z \in S, x # y, y # z, x # z
    PROVE  Cardinality(S) > 2
  <1>1. IsFiniteSet(S \ {x}) /\ Cardinality(S \ {x}) = Cardinality(S) - 1
    BY CountOne
  <1>2. /\ IsFiniteSet((S \ {x}) \ {y})
        /\ Cardinality((S \ {x}) \ {y}) = Cardinality(S \ {x}) - 1
    BY <1>1, CountOne
  <1>3. Cardinality((S \ {x}) \ {y}) > 0 /\ Cardinality((S \ {x}) \ {y}) \in Nat
    BY <1>2, CountOne
  <1>4. Cardinality(S) \in Nat /\ Cardinality(S \ {x}) \in Nat
    BY <1>1, CountOne
  <1> QED BY <1>1, <1>2, <1>3, <1>4

----------------------------------------------------------------------------
(* The inductive invariant *)

Removing == {"cas", "lock", "remove", "nested", "nestedcas"}
Locking == {"clone", "remove", "nested", "nestedcas"}

\* How the program counter of a thread goes together with the endpoint it adds
\* or removes, its clones, and the lock.
Shape(t) ==
    /\ pc[t] # "relock"
    /\ target[t] # NoEp <=> pc[t] \in {"add"} \cup Removing
    /\ pc[t] \in {"idle", "add"} => dying[t] = <<>>
    /\ pc[t] \in {"lock", "remove", "nested", "nestedcas"} => dropped[target[t]]
    /\ netlock = t <=> pc[t] \in Locking

\* The clones of a send are a prefix of the registry.
Prefix(t) ==
    pc[t] = "clone" =>
        /\ Len(dying[t]) <= Len(endpoints)
        /\ \A i \in DOMAIN dying[t] : dying[t][i] = endpoints[i]

\* A thread adds an endpoint that it made, and that nobody else adds.
Adding(t) ==
    pc[t] = "add" =>
        /\ handles[t][target[t]] > 0 /\ target[t] \notin Registered
        /\ \A u \in Thread \ {t} : pc[u] = "add" => target[u] # target[t]

\* refcnt is exact, and counts nothing before the endpoint is made.
Exact(e) == IsFiniteSet(Refs(e)) /\ refcnt[e] = Cardinality(Refs(e))
Counted(e) ==
    /\ Exact(e)
    /\ e \notin Made => Refs(e) = {} /\ \A t \in Thread : target[t] # e

\* Whoever decided to remove an endpoint has found that nobody owns it.
Unowned(t) == pc[t] \in {"cas", "lock", "remove"} => ~Owned(target[t])

NetInv ==
    /\ TypeOK
    /\ \A t \in Thread : Shape(t) /\ Prefix(t) /\ Adding(t) /\ Unowned(t)
    /\ \A e \in Ep : Counted(e)
    /\ OwnerRegistered

\* The identifiers that the net chose, while the counter does not wrap.
IdInv ==
    /\ UniqueEid
    /\ taken \subseteq Made /\ issued \subseteq Made \ taken
    /\ \A id \in reserved : id < hueid
    /\ \A e \in Made \ taken : eid[e] < hueid

----------------------------------------------------------------------------
(* Types *)

LEMMA NextId == ASSUME NEW x \in Int PROVE (x + 1) % EidMod \in 0..EidMod-1
  BY EidAssumption

\* What is there of an endpoint before it is made.
LEMMA Unmade ==
    ASSUME NetInv, NEW e \in Ep, e \notin Made
    PROVE  /\ refcnt[e] = 0 /\ e \notin Registered
           /\ \A t \in Thread : handles[t][e] = 0 /\ e \notin ToSet(dying[t]) /\ target[t] # e
  <1>1. Refs(e) = {} /\ refcnt[e] = 0
    BY FS_EmptySet DEF NetInv, Counted, Exact
  <1>2. <<NoThread, 0>> \notin Refs(e) /\ \A t \in Thread : \A n \in Values(t, e) : <<t, n>> \in Refs(e)
    BY <1>1 DEF Refs
  <1>3. ASSUME NEW t \in Thread PROVE handles[t][e] = 0 /\ e \notin ToSet(dying[t])
    <2>1. Values(t, e) = {} /\ handles[t][e] \in Nat
      BY <1>1, <1>2 DEF NetInv, TypeOK
    <2> QED BY <2>1 DEF Values
  <1> QED BY <1>1, <1>2, <1>3 DEF NetInv, Counted, Refs

\* A decrement: there is something to count down from.
LEMMA SomeRef ==
    ASSUME NetInv, NEW e \in Ep, Refs(e) # {}
    PROVE  refcnt[e] - 1 \in Nat
  BY FS_EmptySet, FS_CardinalityType DEF NetInv, Counted, Exact

LEMMA TypeInit == Init => TypeOK
  BY EidAssumption, ThreadAssumption DEF Init, TypeOK, PCs, IsInjective

LEMMA TypeBegin ==
    ASSUME NetInv, NEW t \in Thread, Begin(t)
    PROVE  TypeOK'
  <1> USE DEF Idle, Step, Own, Make, ids, counts
  <1>1. TypeOK /\ reserved \cup ExplicitIds \subseteq 0..EidMod-1 /\ hueid \in Int
    BY EidAssumption DEF NetInv, TypeOK
  <1>2. CASE GetNewEid(t)
    BY <1>1, <1>2, NextId DEF GetNewEid, TypeOK
  <1>3. CASE SendBegin(t)
    BY <1>1, <1>3 DEF SendBegin, TypeOK, PCs
  <1>4. ASSUME NEW e \in Ep, NewEndpoint(t, e) PROVE TypeOK'
    <2>1. endpoints' \in Seq(Ep) /\ IsInjective(endpoints)'
      BY <1>1, <1>4, Unmade, AppendOne DEF NewEndpoint, TypeOK, Registered
    <2>2. hueid' \in 0..EidMod-1 /\ eid' \in [Ep -> (0..EidMod-1) \cup {NoId}]
      BY <1>1, <1>4, NextId DEF NewEndpoint, TypeOK
    <2>3. refcnt' \in [Ep -> Nat] /\ handles' \in [Thread -> [Ep -> Nat]]
      BY <1>1, <1>4 DEF NewEndpoint, TypeOK
    <2>4. issued' \subseteq Ep /\ netlock' = netlock
      BY <1>1, <1>4 DEF NewEndpoint, TypeOK
    <2>5. UNCHANGED <<reserved, taken, dropped, dying, target, pc, sends>>
      BY <1>4 DEF NewEndpoint
    <2> QED BY <1>1, <2>1, <2>2, <2>3, <2>4, <2>5 DEF TypeOK
  <1>5. ASSUME NEW e \in Ep, NEW id \in reserved, NewBridgeEndpoint(t, e, id) PROVE TypeOK'
    BY <1>1, <1>5 DEF NewBridgeEndpoint, TypeOK, PCs
  <1>6. ASSUME NEW e \in Ep, NEW id \in ExplicitIds \cup reserved, NewEndpointWithId(t, e, id)
        PROVE  TypeOK'
    <2>1. endpoints' \in Seq(Ep) /\ IsInjective(endpoints)'
      BY <1>1, <1>6, Unmade, AppendOne DEF NewEndpointWithId, TypeOK, Registered
    <2>2. HueidAfter(id) \in 0..EidMod-1
      BY <1>1, NextId DEF HueidAfter, TypeOK
    <2> QED BY <1>1, <1>6, <2>1, <2>2 DEF NewEndpointWithId, TypeOK
  <1>7. ASSUME NEW e \in Ep, NEW u \in Thread, Clone(t, u, e) PROVE TypeOK'
    BY <1>1, <1>7 DEF Clone, TypeOK
  <1>8. ASSUME NEW e \in Ep, Drop(t, e) PROVE TypeOK'
    <2>1. <<e>> \in Seq(Ep) /\ IsInjective(<<e>>)
      BY DEF IsInjective
    <2>2. handles' \in [Thread -> [Ep -> Nat]]
      <3>1. handles[t][e] + -1 \in Nat
        BY <1>1, <1>8 DEF Drop, TypeOK
      <3> QED BY <1>1, <1>8, <3>1 DEF Drop, TypeOK
    <2> QED BY <1>1, <1>8, <2>1, <2>2 DEF Drop, TypeOK, PCs
  <1> QED BY <1>2, <1>3, <1>4, <1>5, <1>6, <1>7, <1>8 DEF Begin

LEMMA TypeContinue ==
    ASSUME NetInv, NEW t \in Thread, Continue(t)
    PROVE  TypeOK'
  <1> USE DEF Step, Unlock, ids, counts
  <1>1. TypeOK /\ Shape(t) /\ Prefix(t) /\ Adding(t)
    BY DEF NetInv
  <1>2. CASE AddEndpoint(t)
    <2>1. target[t] \in Ep /\ target[t] \notin Registered
      BY <1>1, <1>2 DEF AddEndpoint, TypeOK, Shape, Adding
    <2>2. endpoints' \in Seq(Ep) /\ IsInjective(endpoints)'
      BY <1>1, <1>2, <2>1, AppendOne DEF AddEndpoint, TypeOK, Registered
    <2> QED BY <1>1, <1>2, <2>2 DEF AddEndpoint, TypeOK, PCs
  <1>3. CASE SendClone(t)
    <2> DEFINE e == endpoints[Len(dying[t]) + 1]
    <2>1. e \in Ep /\ e \notin ToSet(dying[t])
      <3>1. /\ Len(dying[t]) + 1 \in DOMAIN endpoints /\ Len(dying[t]) \in Nat
            /\ DOMAIN dying[t] = 1..Len(dying[t]) /\ DOMAIN endpoints = 1..Len(endpoints)
            /\ Len(endpoints) \in Nat
        BY <1>1, <1>3, SMTT(30) DEF SendClone, TypeOK
      <3>2. ASSUME NEW i \in DOMAIN dying[t] PROVE dying[t][i] # e
        <4>1. i \in DOMAIN endpoints /\ i # Len(dying[t]) + 1 /\ dying[t][i] = endpoints[i]
          BY <1>1, <1>3, <3>1 DEF SendClone, Prefix
        <4> QED BY <1>1, <3>1, <4>1 DEF TypeOK, IsInjective
      <3> QED BY <1>1, <3>1, <3>2 DEF TypeOK, ToSet
    <2>2. /\ Append(dying[t], e) \in Seq(Ep) /\ IsInjective(Append(dying[t], e))
      BY <1>1, <2>1, AppendOne DEF TypeOK
    <2>3. /\ refcnt' = [refcnt EXCEPT ![e] = @ + 1]
          /\ dying' = [dying EXCEPT ![t] = Append(dying[t], e)]
      BY <1>3 DEF SendClone, CountedClone
    <2> HIDE DEF e
    <2>4. refcnt' \in [Ep -> Nat]
      BY <1>1, <2>1, <2>3 DEF TypeOK
    <2>5. dying' \in [Thread -> Seq(Ep)] /\ \A u \in Thread : IsInjective(dying'[u])
      BY <1>1, <2>2, <2>3 DEF TypeOK
    <2> QED BY <1>1, <1>3, <2>4, <2>5 DEF SendClone, TypeOK
  <1>4. CASE SendGive(t)
    BY <1>1, <1>4 DEF SendGive, TypeOK, PCs
  <1>5. CASE DropCount(t)
    <2> DEFINE e == Head(dying[t])
    <2>1. /\ Tail(dying[t]) \in Seq(Ep) /\ IsInjective(Tail(dying[t]))
          /\ e \in Ep /\ e \in ToSet(dying[t])
      BY <1>1, <1>5, TailOne DEF DropCount, TypeOK
    <2>2. refcnt[e] - 1 \in Nat
      <3>1. <<t, 0>> \in Refs(e)
        BY <2>1 DEF Refs, Values
      <3> QED BY <2>1, <3>1, SomeRef
    <2>3. refcnt' = [refcnt EXCEPT ![e] = @ - 1] /\ dying' = [dying EXCEPT ![t] = Tail(@)]
      BY <1>5 DEF DropCount
    <2>4. target' \in [Thread -> Ep \cup {NoEp}] /\ pc' \in [Thread -> PCs]
      BY <1>1, <1>5, <2>1 DEF DropCount, TypeOK, PCs
    <2> HIDE DEF e
    <2>5. refcnt' \in [Ep -> Nat]
      BY <1>1, <2>1, <2>2, <2>3 DEF TypeOK
    <2>6. dying' \in [Thread -> Seq(Ep)] /\ \A u \in Thread : IsInjective(dying'[u])
      BY <1>1, <2>1, <2>3 DEF TypeOK
    <2> QED BY <1>1, <1>5, <2>4, <2>5, <2>6 DEF DropCount, TypeOK
  <1>6. CASE DropDone(t)
    BY <1>1, <1>6 DEF DropDone, TypeOK, PCs
  <1>7. CASE DropSwap(t)
    BY <1>1, <1>7 DEF DropSwap, TypeOK, PCs
  <1>8. CASE DropLock(t)
    BY <1>1, <1>8 DEF DropLock, TypeOK, PCs
  <1>9. CASE DropRemove(t)
    <2>1. endpoints' \in Seq(Ep) /\ IsInjective(endpoints)'
      BY <1>1, <1>9, RemoveOne DEF DropRemove, TypeOK
    <2>2. pc' \in [Thread -> PCs] /\ target' \in [Thread -> Ep \cup {NoEp}] /\ netlock' \in Thread \cup {NoThread}
      BY <1>1, <1>9 DEF DropRemove, TypeOK, PCs
    <2> QED BY <1>1, <1>9, <2>1, <2>2 DEF DropRemove, TypeOK
  <1>10. CASE NestedCount(t)
    <2>1. target[t] \in Ep /\ refcnt[target[t]] - 1 \in Nat
      <3>1. target[t] \in Ep
        BY <1>1, <1>10 DEF NestedCount, TypeOK, Shape, Removing
      <3>2. <<t, -1>> \in Refs(target[t])
        BY <1>10 DEF NestedCount, Refs, Values
      <3> QED BY <3>1, <3>2, SomeRef
    <2>2. pc' \in [Thread -> PCs] /\ target' \in [Thread -> Ep \cup {NoEp}] /\ netlock' \in Thread \cup {NoThread}
      BY <1>1, <1>10 DEF NestedCount, TypeOK, PCs
    <2> QED BY <1>1, <1>10, <2>1, <2>2 DEF NestedCount, TypeOK
  <1>11. CASE NestedSwap(t)
    BY <1>1, <1>11 DEF NestedSwap, TypeOK, PCs
  <1> QED BY <1>2, <1>3, <1>4, <1>5, <1>6, <1>7, <1>8, <1>9, <1>10, <1>11 DEF Continue

----------------------------------------------------------------------------
(* Program counters, the lock, and the clones of a send *)

LEMMA ShapeInit == Init => \A t \in Thread : Shape(t) /\ Prefix(t) /\ Adding(t)
  BY ThreadAssumption DEF Init, Shape, Prefix, Adding, Removing, Locking

LEMMA ShapeBegin ==
    ASSUME NetInv, NEW t \in Thread, Begin(t), NEW u \in Thread
    PROVE  Shape(u)'
  <1> USE ThreadAssumption DEF Idle, Step, Own, Make, ids, counts, Shape, Removing, Locking, PCs
  <1>1. TypeOK /\ Shape(t) /\ Shape(u)
    BY DEF NetInv
  <1>2. CASE GetNewEid(t)
    BY <1>1, <1>2 DEF GetNewEid, TypeOK
  <1>3. CASE SendBegin(t)
    BY <1>1, <1>3 DEF SendBegin, TypeOK
  <1>4. ASSUME NEW e \in Ep, NewEndpoint(t, e) PROVE Shape(u)'
    BY <1>1, <1>4 DEF NewEndpoint, TypeOK
  <1>5. ASSUME NEW e \in Ep, NEW id \in reserved, NewBridgeEndpoint(t, e, id) PROVE Shape(u)'
    BY <1>1, <1>5 DEF NewBridgeEndpoint, TypeOK
  <1>6. ASSUME NEW e \in Ep, NEW id \in ExplicitIds \cup reserved, NewEndpointWithId(t, e, id)
        PROVE  Shape(u)'
    BY <1>1, <1>6 DEF NewEndpointWithId, TypeOK
  <1>7. ASSUME NEW e \in Ep, NEW v \in Thread, Clone(t, v, e) PROVE Shape(u)'
    BY <1>1, <1>7 DEF Clone, TypeOK
  <1>8. ASSUME NEW e \in Ep, Drop(t, e) PROVE Shape(u)'
    BY <1>1, <1>8 DEF Drop, TypeOK
  <1> QED BY <1>2, <1>3, <1>4, <1>5, <1>6, <1>7, <1>8 DEF Begin

LEMMA ShapeContinue ==
    ASSUME NetInv, NEW t \in Thread, Continue(t), NEW u \in Thread
    PROVE  Shape(u)'
  <1> USE ThreadAssumption DEF Step, Unlock, ids, counts, Shape, Removing, Locking, PCs
  <1>1. TypeOK /\ Shape(t) /\ Shape(u)
    BY DEF NetInv
  <1>2. CASE AddEndpoint(t)
    BY <1>1, <1>2 DEF AddEndpoint, TypeOK
  <1>3. CASE SendClone(t)
    BY <1>1, <1>3 DEF SendClone, TypeOK
  <1>4. CASE SendGive(t)
    BY <1>1, <1>4 DEF SendGive, TypeOK
  <1>5. CASE DropCount(t)
    <2>1. Head(dying[t]) \in Ep
      BY <1>1, <1>5, TailOne DEF DropCount, TypeOK
    <2> QED BY <1>1, <1>5, <2>1, ZenonT(30) DEF DropCount, TypeOK
  <1>6. CASE DropDone(t)
    BY <1>1, <1>6 DEF DropDone, TypeOK
  <1>7. CASE DropSwap(t)
    BY <1>1, <1>7, ZenonT(30) DEF DropSwap, Wins, TypeOK
  <1>8. CASE DropLock(t)
    BY <1>1, <1>8 DEF DropLock, TypeOK
  <1>9. CASE DropRemove(t)
    BY <1>1, <1>9 DEF DropRemove, TypeOK
  <1>10. CASE NestedCount(t)
    BY <1>1, <1>10 DEF NestedCount, TypeOK
  <1>11. CASE NestedSwap(t)
    BY <1>1, <1>11 DEF NestedSwap, Wins, TypeOK
  <1> QED BY <1>2, <1>3, <1>4, <1>5, <1>6, <1>7, <1>8, <1>9, <1>10, <1>11 DEF Continue

\* Only the holder of the lock changes the registry or the clones of its send.
LEMMA PrefixStep ==
    ASSUME NetInv, NEW t \in Thread, Begin(t) \/ Continue(t), NEW u \in Thread
    PROVE  Prefix(u)'
  <1> USE DEF Idle, Step, Unlock
  <1>1. TypeOK /\ Shape(t) /\ Shape(u) /\ Prefix(u) /\ u # NoThread
    BY ThreadAssumption DEF NetInv
  <1>2. CASE u # t /\ pc[u] # "clone"
    <2>1. pc'[u] = pc[u]
      BY <1>1, <1>2
         DEF Begin, Continue, GetNewEid, SendBegin, NewEndpoint, NewBridgeEndpoint,
             NewEndpointWithId, Clone, Drop, AddEndpoint, SendClone, SendGive, DropCount,
             DropDone, DropSwap, DropLock, DropRemove, NestedCount, NestedSwap, TypeOK
    <2> QED BY <1>2, <2>1 DEF Prefix
  <1>3. CASE u # t /\ pc[u] = "clone"
    <2>1. netlock = u /\ pc[t] \notin Locking
      BY <1>1, <1>3 DEF Shape, Locking
    <2>2. endpoints' = endpoints /\ dying'[u] = dying[u]
      BY <1>1, <1>3, <2>1
         DEF Begin, Continue, GetNewEid, SendBegin, NewEndpoint, NewBridgeEndpoint,
             NewEndpointWithId, Clone, Drop, AddEndpoint, SendClone, SendGive, DropCount,
             DropDone, DropSwap, DropLock, DropRemove, NestedCount, NestedSwap, TypeOK, Locking
    <2> QED BY <1>1, <1>3, <2>2 DEF Prefix
  <1>4. CASE u = t
    <2>1. CASE SendClone(t)
      <3> DEFINE e == endpoints[Len(dying[t]) + 1]
      <3>1. /\ Len(dying[t]) \in Nat /\ Len(endpoints) \in Nat
            /\ dying'[t] = Append(dying[t], e) /\ Len(dying'[t]) = Len(dying[t]) + 1
            /\ DOMAIN dying[t] = 1..Len(dying[t]) /\ DOMAIN dying'[t] = 1..Len(dying[t]) + 1
            /\ \A i \in 1..Len(dying[t]) : dying'[t][i] = dying[t][i]
            /\ dying'[t][Len(dying[t]) + 1] = e
        BY <1>1, <2>1, SMTT(30) DEF SendClone, TypeOK
      <3>2. ASSUME NEW i \in DOMAIN dying'[t] PROVE dying'[t][i] = endpoints[i]
        BY <1>1, <1>4, <2>1, <3>1 DEF SendClone, Prefix
      <3> QED BY <1>4, <2>1, <3>1, <3>2 DEF SendClone, Prefix
    <2>2. CASE SendBegin(t)
      <3>1. dying'[t] = <<>> /\ Len(endpoints) \in Nat /\ endpoints' = endpoints
        BY <1>1, <2>2 DEF SendBegin, TypeOK, Shape
      <3> QED BY <1>4, <3>1 DEF Prefix
    <2>3. CASE ~SendClone(t) /\ ~SendBegin(t)
      <3>1. pc'[t] # "clone"
        BY <1>1, <2>3
           DEF Begin, Continue, GetNewEid, NewEndpoint, NewBridgeEndpoint,
               NewEndpointWithId, Clone, Drop, AddEndpoint, SendGive, DropCount,
               DropDone, DropSwap, DropLock, DropRemove, NestedCount, NestedSwap, TypeOK
      <3> QED BY <1>4, <3>1 DEF Prefix
    <2> QED BY <2>1, <2>2, <2>3
  <1> QED BY <1>2, <1>3, <1>4

\* What a step can put into the registry, and where threads begin to add.
LEMMA RegistryStep ==
    ASSUME NetInv, NEW t \in Thread, Begin(t) \/ Continue(t), NEW e \in Registered', e \notin Registered
    PROVE  e \in Ep \ Made \/ (pc[t] = "add" /\ e = target[t])
  <1> USE DEF Step, Unlock, Make
  <1>1. TypeOK /\ Shape(t) /\ Adding(t)
    BY DEF NetInv
  <1>2. ASSUME NEW f \in Ep, NewEndpoint(t, f) PROVE f \notin Made /\ Registered' = Registered \cup {f}
    BY <1>1, <1>2, Unmade, AppendOne DEF NewEndpoint, TypeOK, Registered
  <1>3. ASSUME NEW f \in Ep, NEW id \in ExplicitIds \cup reserved, NewEndpointWithId(t, f, id)
        PROVE  f \notin Made /\ Registered' = Registered \cup {f}
    BY <1>1, <1>3, Unmade, AppendOne DEF NewEndpointWithId, TypeOK, Registered
  <1>4. ASSUME AddEndpoint(t) PROVE pc[t] = "add" /\ Registered' = Registered \cup {target[t]}
    <2>1. target[t] \in Ep /\ target[t] \notin Registered
      BY <1>1, <1>4 DEF AddEndpoint, TypeOK, Shape, Adding
    <2> QED BY <1>1, <1>4, <2>1, AppendOne DEF AddEndpoint, TypeOK, Registered
  <1>5. ASSUME DropRemove(t) PROVE Registered' \subseteq Registered
    BY <1>1, <1>5, RemoveOne DEF DropRemove, TypeOK, Registered
  <1>6. CASE UNCHANGED endpoints
    BY <1>6 DEF Registered
  <1> QED
    BY <1>2, <1>3, <1>4, <1>5, <1>6
       DEF Begin, Continue, GetNewEid, SendBegin, NewBridgeEndpoint, Clone, Drop, SendClone,
           SendGive, DropCount, DropDone, DropSwap, DropLock, NestedCount, NestedSwap

\* Nobody takes another thread's handles.
LEMMA HandlesStep ==
    ASSUME NetInv, NEW t \in Thread, Begin(t) \/ Continue(t), NEW u \in Thread, u # t, NEW e \in Ep
    PROVE  handles'[u][e] >= handles[u][e]
  <1> USE DEF Own
  <1>1. handles \in [Thread -> [Ep -> Nat]]
    BY DEF NetInv, TypeOK
  <1>2. CASE UNCHANGED handles
    BY <1>1, <1>2
  <1>3. ASSUME NEW f \in Ep, NEW n \in Int, handles' = [handles EXCEPT ![t][f] = @ + n]
        PROVE  handles'[u][e] >= handles[u][e]
    BY <1>1, <1>3
  <1>4. ASSUME NEW f \in Ep, NEW v \in Thread, handles' = [handles EXCEPT ![v][f] = @ + 1]
        PROVE  handles'[u][e] >= handles[u][e]
    BY <1>1, <1>4
  <1> QED
    BY <1>2, <1>3, <1>4
       DEF Begin, Continue, GetNewEid, SendBegin, NewEndpoint, NewBridgeEndpoint,
           NewEndpointWithId, Clone, Drop, AddEndpoint, SendClone, SendGive, DropCount,
           DropDone, DropSwap, DropLock, DropRemove, NestedCount, NestedSwap

LEMMA AddingStep ==
    ASSUME NetInv, NEW t \in Thread, Begin(t) \/ Continue(t), NEW u \in Thread
    PROVE  Adding(u)'
  <1> USE DEF Idle, Step, Unlock, Own, Make
  <1>1. /\ TypeOK /\ Shape(t) /\ Shape(u) /\ Adding(u)
        /\ u # t => pc'[u] = pc[u] /\ target'[u] = target[u]
    BY DEF NetInv, Begin, Continue, GetNewEid, SendBegin, NewEndpoint, NewBridgeEndpoint,
           NewEndpointWithId, Clone, Drop, AddEndpoint, SendClone, SendGive, DropCount,
           DropDone, DropSwap, DropLock, DropRemove, NestedCount, NestedSwap, TypeOK
  <1>2. CASE \E e \in Ep : \E id \in reserved : NewBridgeEndpoint(t, e, id)
    <2>1. PICK e \in Ep : \E id \in reserved : NewBridgeEndpoint(t, e, id)
      BY <1>2
    <2>2. /\ pc' = [pc EXCEPT ![t] = "add"] /\ target' = [target EXCEPT ![t] = e]
          /\ handles' = [handles EXCEPT ![t][e] = @ + 1] /\ UNCHANGED endpoints
      BY <2>1 DEF NewBridgeEndpoint
    <2>3. /\ e \notin Registered /\ handles[t][e] = 0
          /\ \A v \in Thread : target[v] # e
      BY <2>1, Unmade DEF NewBridgeEndpoint
    <2>4. CASE u = t
      BY <1>1, <2>2, <2>3, <2>4 DEF Adding, TypeOK, Registered
    <2>5. CASE u # t
      BY <1>1, <2>2, <2>3, <2>5 DEF Adding, TypeOK, Registered
    <2> QED BY <2>4, <2>5
  <1>3. CASE ~ \E e \in Ep : \E id \in reserved : NewBridgeEndpoint(t, e, id)
    <2>1. \A v \in Thread : pc'[v] = "add" => pc[v] = "add" /\ v # t /\ target'[v] = target[v]
      BY <1>1, <1>3
         DEF Begin, Continue, GetNewEid, SendBegin, NewEndpoint, NewEndpointWithId, Clone,
             Drop, AddEndpoint, SendClone, SendGive, DropCount, DropDone, DropSwap, DropLock,
             DropRemove, NestedCount, NestedSwap, TypeOK
    <2> SUFFICES ASSUME pc'[u] = "add" PROVE Adding(u)'
      BY DEF Adding
    <2>2. pc[u] = "add" /\ u # t /\ target'[u] = target[u] /\ target[u] \in Ep
      BY <1>1, <2>1 DEF Shape, TypeOK
    <2>3. handles'[u][target[u]] > 0
      <3>1. handles[u][target[u]] > 0
        BY <1>1, <2>2 DEF Adding
      <3>2. handles'[u][target[u]] >= handles[u][target[u]]
        BY <2>2, HandlesStep
      <3>3. handles[u][target[u]] \in Nat /\ handles'[u][target[u]] \in Nat
        BY <2>2, TypeBegin, TypeContinue DEF NetInv, TypeOK
      <3> QED BY <3>1, <3>2, <3>3
    <2>4. target[u] \notin Registered'
      <3>1. target[u] \notin Registered /\ (pc[t] = "add" => target[t] # target[u])
        BY <1>1, <2>2 DEF Adding
      <3>2. target[u] \notin Ep \ Made
        BY <2>2, Unmade
      <3> QED BY <3>1, <3>2, RegistryStep
    <2>5. \A v \in Thread \ {u} : pc'[v] = "add" => target'[v] # target'[u]
      BY <1>1, <2>1, <2>2 DEF Adding
    <2> QED BY <2>2, <2>3, <2>4, <2>5 DEF Adding
  <1> QED BY <1>2, <1>3

----------------------------------------------------------------------------
(* Counting the handles *)

OthersSame(t, e) == \A u \in Thread \ {t} : Values(u, e)' = Values(u, e)

\* The handles that thread t and the registry have no part in.
Elsewhere(t, e) == {x \in Refs(e) : x[1] \notin {t, NoThread}}
InRegistry(e) == IF e \in Registered THEN {<<NoThread, 0>>} ELSE {}

LEMMA RefsStep ==
    ASSUME NEW t \in Thread, NEW e \in Ep, OthersSame(t, e)
    PROVE  /\ Refs(e) = Elsewhere(t, e) \cup ({t} \X Values(t, e)) \cup InRegistry(e)
           /\ Refs(e)' = Elsewhere(t, e) \cup ({t} \X Values(t, e)') \cup InRegistry(e)'
  <1>1. \A x : x \in Elsewhere(t, e) <=>
                  \E u \in Thread \ {t} : \E n \in Values(u, e) : x = <<u, n>>
    BY ThreadAssumption DEF Elsewhere, Refs
  <1>2. \A x : x \in Refs(e) <=> \/ \E u \in Thread : \E n \in Values(u, e) : x = <<u, n>>
                                 \/ x \in InRegistry(e)
    BY DEF Refs, InRegistry
  <1>3. \A x : x \in Refs(e)' <=> \/ \E u \in Thread : \E n \in Values(u, e)' : x = <<u, n>>
                                  \/ x \in InRegistry(e)'
    BY DEF Refs, InRegistry
  <1>4. \A x : x \in Refs(e) <=> x \in Elsewhere(t, e) \cup ({t} \X Values(t, e)) \cup InRegistry(e)
    BY <1>1, <1>2
  <1>5. \A x : x \in Refs(e)' <=> x \in Elsewhere(t, e) \cup ({t} \X Values(t, e)') \cup InRegistry(e)'
    BY <1>1, <1>3 DEF OthersSame
  <1> QED BY <1>4, <1>5

LEMMA RefsKept ==
    ASSUME NEW e \in Ep, Exact(e), refcnt'[e] = refcnt[e], e \in Registered <=> e \in Registered',
           \A u \in Thread : Values(u, e)' = Values(u, e)
    PROVE  Exact(e)'
  <1>1. Refs(e)' = Refs(e)
    <2>1. {{u} \X Values(u, e)' : u \in Thread} = {{u} \X Values(u, e) : u \in Thread}
      OBVIOUS
    <2> QED BY <2>1 DEF Refs
  <1> QED BY <1>1 DEF Exact

LEMMA RefAdded ==
    ASSUME NEW t \in Thread, NEW e \in Ep, OthersSame(t, e), Exact(e), NEW n,
           n \notin Values(t, e), Values(t, e)' = Values(t, e) \cup {n},
           e \in Registered <=> e \in Registered', refcnt'[e] = refcnt[e] + 1
    PROVE  Exact(e)'
  <1>1. Refs(e)' = Refs(e) \cup {<<t, n>>} /\ <<t, n>> \notin Refs(e)
    BY RefsStep, ThreadAssumption DEF Elsewhere, InRegistry
  <1> QED BY <1>1, CountOne DEF Exact

LEMMA RefTaken ==
    ASSUME NEW t \in Thread, NEW e \in Ep, OthersSame(t, e), Exact(e), NEW n \in Values(t, e),
           Values(t, e)' = Values(t, e) \ {n},
           e \in Registered <=> e \in Registered', refcnt'[e] = refcnt[e] - 1
    PROVE  Exact(e)'
  <1>1. Refs(e)' = Refs(e) \ {<<t, n>>} /\ <<t, n>> \in Refs(e)
    BY RefsStep, ThreadAssumption DEF Elsewhere, InRegistry
  <1> QED BY <1>1, CountOne DEF Exact

LEMMA RefMoved ==
    ASSUME NEW t \in Thread, NEW e \in Ep, OthersSame(t, e), Exact(e), refcnt'[e] = refcnt[e],
           NEW x, NEW y, x \in Refs(e), y \notin Refs(e), Refs(e)' = (Refs(e) \ {x}) \cup {y}
    PROVE  Exact(e)'
  <1>1. /\ IsFiniteSet((Refs(e) \ {x}) \cup {y})
        /\ Cardinality((Refs(e) \ {x}) \cup {y}) = Cardinality(Refs(e))
    BY SwapOne DEF Exact
  <1> QED BY <1>1 DEF Exact

\* A handle of t becomes the registry's, and the other way around.
LEMMA RefEntered ==
    ASSUME NEW t \in Thread, NEW e \in Ep, OthersSame(t, e), Exact(e), refcnt'[e] = refcnt[e],
           NEW n \in Values(t, e), Values(t, e)' = Values(t, e) \ {n},
           e \notin Registered, e \in Registered'
    PROVE  Exact(e)'
  <1>1. /\ <<t, n>> \in Refs(e) /\ <<NoThread, 0>> \notin Refs(e)
        /\ Refs(e)' = (Refs(e) \ {<<t, n>>}) \cup {<<NoThread, 0>>}
    BY RefsStep, ThreadAssumption DEF Elsewhere, InRegistry
  <1> QED BY <1>1, RefMoved

LEMMA RefLeft ==
    ASSUME NEW t \in Thread, NEW e \in Ep, OthersSame(t, e), Exact(e), refcnt'[e] = refcnt[e],
           NEW n, n \notin Values(t, e), Values(t, e)' = Values(t, e) \cup {n},
           e \in Registered, e \notin Registered'
    PROVE  Exact(e)'
  <1>1. /\ <<NoThread, 0>> \in Refs(e) /\ <<t, n>> \notin Refs(e)
        /\ Refs(e)' = (Refs(e) \ {<<NoThread, 0>>}) \cup {<<t, n>>}
    BY RefsStep, ThreadAssumption DEF Elsewhere, InRegistry
  <1> QED BY <1>1, RefMoved

LEMMA RefSwapped ==
    ASSUME NEW t \in Thread, NEW e \in Ep, OthersSame(t, e), Exact(e), refcnt'[e] = refcnt[e],
           NEW m \in Values(t, e), NEW n, n \notin Values(t, e),
           Values(t, e)' = (Values(t, e) \ {m}) \cup {n},
           e \in Registered <=> e \in Registered'
    PROVE  Exact(e)'
  <1>1. /\ <<t, m>> \in Refs(e) /\ <<t, n>> \notin Refs(e)
        /\ Refs(e)' = (Refs(e) \ {<<t, m>>}) \cup {<<t, n>>}
    BY RefsStep, ThreadAssumption DEF Elsewhere, InRegistry
  <1> QED BY <1>1, RefMoved

LEMMA ExactInit == Init => \A e \in Ep : Counted(e)
  <1> SUFFICES ASSUME Init, NEW e \in Ep PROVE Counted(e)
    OBVIOUS
  <1>1. /\ e \notin Registered /\ refcnt[e] = 0
        /\ \A t \in Thread : handles[t][e] = 0 /\ e \notin ToSet(dying[t]) /\ target[t] # e
    BY ThreadAssumption DEF Init, Registered, ToSet
  <1>2. \A t \in Thread : Values(t, e) = {}
    BY <1>1 DEF Values
  <1>3. Refs(e) = {}
    BY <1>1, <1>2 DEF Refs
  <1> QED BY <1>1, <1>3, FS_EmptySet DEF Counted, Exact

\* The handle that Make counts for the maker, and the second one.
LEMMA RefsMade ==
    ASSUME NetInv, NEW t \in Thread, NEW e \in Ep, OthersSame(t, e), Refs(e) = {}, refcnt'[e] = 2,
           \/ Values(t, e)' = {1} /\ e \in Registered'
           \/ Values(t, e)' = {1, -1} /\ e \notin Registered'
    PROVE  Exact(e)'
  <1>1. Elsewhere(t, e) = {}
    BY DEF Elsewhere
  <1>2. \/ Refs(e)' = {<<t, 1>>, <<NoThread, 0>>}
        \/ Refs(e)' = {<<t, 1>>, <<t, -1>>}
    BY <1>1, RefsStep DEF InRegistry
  <1>3. /\ IsFiniteSet({<<t, 1>>, <<NoThread, 0>>}) /\ Cardinality({<<t, 1>>, <<NoThread, 0>>}) = 2
        /\ IsFiniteSet({<<t, 1>>, <<t, -1>>}) /\ Cardinality({<<t, 1>>, <<t, -1>>}) = 2
    <2>1. <<t, 1>> # <<NoThread, 0>> /\ <<t, 1>> # <<t, -1>>
      OBVIOUS
    <2> QED BY <2>1, CountTwo
  <1> QED BY <1>2, <1>3 DEF Exact

LEMMA ValuesKept ==
    ASSUME NEW u, NEW e, handles'[u][e] = handles[u][e],
           e \in ToSet(dying'[u]) <=> e \in ToSet(dying[u]),
           target[u] = e /\ pc[u] \in {"add", "nested"}
              <=> target'[u] = e /\ pc'[u] \in {"add", "nested"}
    PROVE  Values(u, e)' = Values(u, e)
  BY DEF Values

LEMMA EmptyToSet == \A e : e \notin ToSet(<<>>)
  BY DEF ToSet

LEMMA ExactBegin ==
    ASSUME NetInv, NEW t \in Thread, Begin(t), NEW e \in Ep
    PROVE  Exact(e)'
  <1> USE DEF Idle, Step, Own, counts, ids
  <1>1. TypeOK /\ Exact(e) /\ Shape(t) /\ Shape(t)'
    BY ShapeBegin DEF NetInv, Counted
  <1>2. CASE GetNewEid(t)
    BY <1>1, <1>2, RefsKept, ValuesKept DEF GetNewEid, Registered
  <1>3. CASE SendBegin(t)
    <2>1. \A u \in Thread : Values(u, e)' = Values(u, e)
      BY <1>1, <1>3, ValuesKept DEF SendBegin, TypeOK
    <2> QED BY <1>1, <1>3, <2>1, RefsKept DEF SendBegin, Registered
  <1>4. ASSUME NEW f \in Ep, f \notin Made, refcnt' = [refcnt EXCEPT ![f] = 2], Own(t, f, 1),
               Registered' = Registered \cup {f}, UNCHANGED <<dying, target, pc>>
        PROVE  Exact(e)'
    <2>1. CASE e # f
      <3>1. \A u \in Thread : Values(u, e)' = Values(u, e)
        BY <1>1, <1>4, <2>1, ValuesKept DEF TypeOK
      <3> QED BY <1>1, <1>4, <2>1, <3>1, RefsKept DEF TypeOK
    <2>2. CASE e = f
      <3>1. \A u \in Thread : handles[u][e] = 0 /\ e \notin ToSet(dying[u]) /\ target[u] # e
        BY <1>4, <2>2, Unmade
      <3>2. OthersSame(t, e)
        BY <1>1, <1>4, <2>2, ValuesKept DEF OthersSame, TypeOK
      <3>3. Values(t, e)' = {1}
        BY <1>1, <1>4, <2>2, <3>1 DEF Values, TypeOK
      <3>4. Refs(e) = {} /\ refcnt'[e] = 2
        BY <1>1, <1>4, <2>2 DEF NetInv, Counted, TypeOK
      <3> QED BY <1>4, <2>2, <3>2, <3>3, <3>4, RefsMade
    <2> QED BY <2>1, <2>2
  <1>5. ASSUME NEW f \in Ep, NewEndpoint(t, f) PROVE Exact(e)'
    <2>1. f \notin Made /\ Registered' = Registered \cup {f}
      BY <1>1, <1>5, Unmade, AppendOne DEF NewEndpoint, Make, TypeOK, Registered
    <2> QED BY <1>4, <1>5, <2>1 DEF NewEndpoint, Make
  <1>6. ASSUME NEW f \in Ep, NEW id \in ExplicitIds \cup reserved, NewEndpointWithId(t, f, id)
        PROVE  Exact(e)'
    <2>1. f \notin Made /\ Registered' = Registered \cup {f}
      BY <1>1, <1>6, Unmade, AppendOne DEF NewEndpointWithId, Make, TypeOK, Registered
    <2> QED BY <1>4, <1>6, <2>1 DEF NewEndpointWithId, Make
  <1>7. ASSUME NEW f \in Ep, NEW id \in reserved, NewBridgeEndpoint(t, f, id) PROVE Exact(e)'
    <2>1. f \notin Made /\ UNCHANGED <<endpoints, dying>>
      BY <1>7 DEF NewBridgeEndpoint, Make
    <2>2. CASE e # f
      <3>1. \A u \in Thread : Values(u, e)' = Values(u, e)
        BY <1>1, <1>7, <2>2, ThreadAssumption, ValuesKept DEF NewBridgeEndpoint, TypeOK, Shape
      <3> QED BY <1>1, <1>7, <2>2, <3>1, RefsKept DEF NewBridgeEndpoint, Make, TypeOK, Registered
    <2>3. CASE e = f
      <3>1. /\ e \notin Registered
            /\ \A u \in Thread : handles[u][e] = 0 /\ e \notin ToSet(dying[u]) /\ target[u] # e
        BY <2>1, <2>3, Unmade
      <3>2. OthersSame(t, e)
        BY <1>1, <1>7, <2>3, ValuesKept DEF OthersSame, NewBridgeEndpoint, TypeOK
      <3>3. Values(t, e)' = {1, -1}
        BY <1>1, <1>7, <2>1, <2>3, <3>1 DEF NewBridgeEndpoint, Values, TypeOK
      <3>4. Refs(e) = {} /\ refcnt'[e] = 2
        BY <1>1, <1>7, <2>3 DEF NetInv, Counted, NewBridgeEndpoint, Make, TypeOK
      <3> QED BY <2>1, <3>1, <3>2, <3>3, <3>4, RefsMade DEF Registered
    <2> QED BY <2>2, <2>3
  <1>8. ASSUME NEW f \in Ep, NEW u \in Thread, Clone(t, u, f) PROVE Exact(e)'
    <2>1. CASE e # f
      <3>1. \A v \in Thread : Values(v, e)' = Values(v, e)
        BY <1>1, <1>8, <2>1, ValuesKept DEF Clone, TypeOK
      <3> QED BY <1>1, <1>8, <2>1, <3>1, RefsKept DEF Clone, TypeOK, Registered
    <2>2. CASE e = f
      <3>1. OthersSame(u, e)
        BY <1>1, <1>8, <2>2, ValuesKept DEF OthersSame, Clone, TypeOK
      <3>2. /\ handles[u][e] + 1 \notin Values(u, e)
            /\ Values(u, e)' = Values(u, e) \cup {handles[u][e] + 1}
        <4>1. handles[u][e] \in Nat /\ handles'[u][e] = handles[u][e] + 1
          BY <1>1, <1>8, <2>2 DEF Clone, TypeOK
        <4>2. 1..handles'[u][e] = 1..handles[u][e] \cup {handles[u][e] + 1}
          BY <4>1
        <4>3. UNCHANGED <<dying, target, pc>>
          BY <1>8 DEF Clone
        <4> QED BY <4>1, <4>2, <4>3 DEF Values
      <3>3. refcnt'[e] = refcnt[e] + 1 /\ (e \in Registered <=> e \in Registered')
        BY <1>1, <1>8, <2>2 DEF Clone, TypeOK, Registered
      <3> QED BY <1>1, <3>1, <3>2, <3>3, RefAdded
    <2> QED BY <2>1, <2>2
  <1>9. ASSUME NEW f \in Ep, Drop(t, f) PROVE Exact(e)'
    <2>1. /\ UNCHANGED <<endpoints, refcnt, target>> /\ pc[t] = "idle" /\ dying[t] = <<>>
          /\ dying' = [dying EXCEPT ![t] = <<f>>] /\ pc' = [pc EXCEPT ![t] = "drop"]
          /\ dying'[t] = <<f>>
      BY <1>1, <1>9 DEF Drop, Shape, TypeOK
    <2>2. ToSet(<<f>>) = {f}
      BY DEF ToSet
    <2>3. CASE e # f
      <3>1. \A u \in Thread : Values(u, e)' = Values(u, e)
        <4> TAKE u \in Thread
        <4>1. handles'[u][e] = handles[u][e]
          BY <1>1, <1>9, <2>3 DEF Drop, TypeOK
        <4>2. e \in ToSet(dying'[u]) <=> e \in ToSet(dying[u])
          BY <1>1, <2>1, <2>2, <2>3, EmptyToSet DEF TypeOK
        <4>3. target'[u] = target[u] /\ (pc'[u] = pc[u] \/ (u = t /\ pc'[t] = "drop"))
          BY <1>1, <2>1 DEF TypeOK
        <4> QED BY <2>1, <4>1, <4>2, <4>3, ValuesKept
      <3> QED BY <1>1, <2>1, <3>1, RefsKept DEF Registered
    <2>4. CASE e = f
      <3>1. OthersSame(t, e)
        BY <1>1, <1>9, <2>1, <2>4, ValuesKept DEF OthersSame, Drop, TypeOK
      <3>2. /\ handles[t][e] \in Values(t, e) /\ 0 \notin Values(t, e)
            /\ Values(t, e)' = (Values(t, e) \ {handles[t][e]}) \cup {0}
        <4>1. handles[t][e] \in Nat \ {0} /\ handles'[t][e] = handles[t][e] - 1
          BY <1>1, <1>9, <2>4 DEF Drop, TypeOK
        <4>2. 1..handles'[t][e] = 1..handles[t][e] \ {handles[t][e]}
          BY <4>1
        <4>3. Values(t, e) = 1..handles[t][e] /\ Values(t, e)' = 1..handles'[t][e] \cup {0}
          <5>1. pc[t] \notin {"add", "nested"} /\ pc'[t] \notin {"add", "nested"}
            BY <1>1, <2>1 DEF TypeOK
          <5> QED BY <2>1, <2>2, <2>4, <5>1, EmptyToSet DEF Values
        <4> QED BY <4>1, <4>2, <4>3
      <3> QED BY <1>1, <2>1, <3>1, <3>2, RefSwapped DEF Registered
    <2> QED BY <2>3, <2>4
  <1> QED BY <1>2, <1>3, <1>5, <1>6, <1>7, <1>8, <1>9 DEF Begin

LEMMA ExactContinue ==
    ASSUME NetInv, NEW t \in Thread, Continue(t), NEW e \in Ep
    PROVE  Exact(e)'
  <1> USE DEF Step, Unlock, counts, ids
  <1>1. TypeOK /\ Exact(e) /\ Shape(t) /\ Adding(t) /\ Prefix(t)
    BY DEF NetInv, Counted
  <1>2. CASE AddEndpoint(t)
    <2>1. /\ target[t] \in Ep /\ target[t] \notin Registered /\ pc[t] = "add" /\ pc'[t] = "idle"
          /\ UNCHANGED <<handles, dying, refcnt>> /\ target'[t] = NoEp
      BY <1>1, <1>2 DEF AddEndpoint, TypeOK, Shape, Adding
    <2>2. Registered' = Registered \cup {target[t]}
      BY <1>1, <1>2, <2>1, AppendOne DEF AddEndpoint, TypeOK, Registered
    <2>3. OthersSame(t, e)
      BY <1>1, <1>2, ValuesKept DEF OthersSame, AddEndpoint, TypeOK
    <2>4. CASE e = target[t]
      <3>1. -1 \in Values(t, e) /\ Values(t, e)' = Values(t, e) \ {-1}
        BY <1>1, <2>1, <2>4, ThreadAssumption DEF Values, TypeOK
      <3> QED BY <1>1, <2>1, <2>2, <2>3, <2>4, <3>1, RefEntered
    <2>5. CASE e # target[t]
      <3>1. Values(t, e)' = Values(t, e)
        BY <2>1, <2>5, ThreadAssumption, ValuesKept
      <3> QED BY <1>1, <2>1, <2>2, <2>3, <2>5, <3>1, RefsKept DEF OthersSame
    <2> QED BY <2>4, <2>5
  <1>3. CASE SendClone(t)
    <2> DEFINE f == endpoints[Len(dying[t]) + 1]
    <2>1. f \in Ep /\ f \notin ToSet(dying[t])
      <3>1. /\ Len(dying[t]) + 1 \in DOMAIN endpoints /\ Len(dying[t]) \in Nat
            /\ DOMAIN dying[t] = 1..Len(dying[t]) /\ DOMAIN endpoints = 1..Len(endpoints)
            /\ Len(endpoints) \in Nat
        BY <1>1, <1>3, SMTT(30) DEF SendClone, TypeOK
      <3>2. ASSUME NEW i \in DOMAIN dying[t] PROVE dying[t][i] # f
        <4>1. i \in DOMAIN endpoints /\ i # Len(dying[t]) + 1 /\ dying[t][i] = endpoints[i]
          BY <1>1, <1>3, <3>1 DEF SendClone, Prefix
        <4> QED BY <1>1, <3>1, <4>1 DEF TypeOK, IsInjective
      <3> QED BY <1>1, <3>1, <3>2 DEF TypeOK, ToSet
    <2>2. ToSet(Append(dying[t], f)) = ToSet(dying[t]) \cup {f}
      BY <1>1, <2>1, AppendOne DEF TypeOK
    <2>3. /\ refcnt' = [refcnt EXCEPT ![f] = @ + 1]
          /\ dying'[t] = Append(dying[t], f) /\ \A u \in Thread \ {t} : dying'[u] = dying[u]
          /\ UNCHANGED <<endpoints, handles, target, pc>>
      BY <1>1, <1>3 DEF SendClone, CountedClone, TypeOK
    <2>4. pc[t] = "clone" /\ handles[t][f] \in Nat
      BY <1>1, <1>3, <2>1 DEF SendClone, TypeOK
    <2> HIDE DEF f
    <2>5. OthersSame(t, e)
      BY <2>3, ValuesKept DEF OthersSame
    <2>6. CASE e = f
      <3>1. 0 \notin Values(t, e) /\ Values(t, e)' = Values(t, e) \cup {0}
        BY <2>1, <2>2, <2>3, <2>4, <2>6 DEF Values
      <3>2. refcnt'[e] = refcnt[e] + 1
        BY <1>1, <2>3, <2>6 DEF TypeOK
      <3> QED BY <1>1, <2>3, <2>5, <3>1, <3>2, RefAdded DEF Registered
    <2>7. CASE e # f
      <3>1. Values(t, e)' = Values(t, e)
        BY <2>2, <2>3, <2>7, ValuesKept
      <3>2. refcnt'[e] = refcnt[e]
        BY <1>1, <2>3, <2>7 DEF TypeOK
      <3> QED BY <1>1, <2>3, <2>5, <3>1, <3>2, RefsKept DEF OthersSame, Registered
    <2> QED BY <2>6, <2>7
  <1>4. CASE DropCount(t)
    <2> DEFINE f == Head(dying[t])
    <2>1. /\ f \in Ep /\ f \in ToSet(dying[t])
          /\ ToSet(Tail(dying[t])) = ToSet(dying[t]) \ {f}
      BY <1>1, <1>4, TailOne DEF DropCount, TypeOK
    <2>2. /\ refcnt' = [refcnt EXCEPT ![f] = @ - 1]
          /\ dying'[t] = Tail(dying[t]) /\ \A u \in Thread \ {t} : dying'[u] = dying[u]
          /\ UNCHANGED <<endpoints, handles>>
          /\ \A u \in Thread \ {t} : target'[u] = target[u] /\ pc'[u] = pc[u]
          /\ pc[t] = "drop" /\ pc'[t] \in {"drop", "cas"}
      BY <1>1, <1>4 DEF DropCount, TypeOK
    <2> HIDE DEF f
    <2>3. OthersSame(t, e)
      BY <2>2, ValuesKept DEF OthersSame
    <2>4. CASE e = f
      <3>1. 0 \in Values(t, e) /\ Values(t, e)' = Values(t, e) \ {0}
        <4>1. handles[t][e] \in Nat
          BY <1>1 DEF TypeOK
        <4> QED BY <2>1, <2>2, <2>4, <4>1 DEF Values
      <3>2. refcnt'[e] = refcnt[e] - 1
        BY <1>1, <2>2, <2>4 DEF TypeOK
      <3> QED BY <1>1, <2>2, <2>3, <3>1, <3>2, RefTaken DEF Registered
    <2>5. CASE e # f
      <3>1. Values(t, e)' = Values(t, e)
        BY <2>1, <2>2, <2>5, ValuesKept
      <3>2. refcnt'[e] = refcnt[e]
        BY <1>1, <2>2, <2>5 DEF TypeOK
      <3> QED BY <1>1, <2>2, <2>3, <3>1, <3>2, RefsKept DEF OthersSame, Registered
    <2> QED BY <2>4, <2>5
  <1>5. CASE SendGive(t) \/ DropDone(t) \/ DropSwap(t) \/ DropLock(t) \/ NestedSwap(t)
    <2>1. UNCHANGED <<endpoints, refcnt, handles, dying>>
      BY <1>5 DEF SendGive, DropDone, DropSwap, DropLock, NestedSwap
    <2>2. /\ \A u \in Thread \ {t} : target'[u] = target[u] /\ pc'[u] = pc[u]
          /\ pc[t] \notin {"add", "nested"} /\ pc'[t] \notin {"add", "nested"}
      BY <1>1, <1>5 DEF SendGive, DropDone, DropSwap, DropLock, NestedSwap, TypeOK
    <2>3. \A u \in Thread : Values(u, e)' = Values(u, e)
      BY <2>1, <2>2, ValuesKept
    <2> QED BY <1>1, <2>1, <2>3, RefsKept DEF Registered
  <1>6. CASE DropRemove(t)
    <2>1. /\ UNCHANGED <<refcnt, handles, dying>> /\ pc[t] = "remove" /\ target[t] \in Ep
          /\ \A u \in Thread \ {t} : target'[u] = target[u] /\ pc'[u] = pc[u]
      BY <1>1, <1>6 DEF DropRemove, TypeOK, Shape, Removing
    <2>2. OthersSame(t, e)
      BY <2>1, ValuesKept DEF OthersSame
    <2>3. CASE target[t] \notin Registered
      <3>1. UNCHANGED endpoints /\ pc'[t] = "drop"
        BY <1>1, <1>6, <2>3 DEF DropRemove, TypeOK, Registered, ToSet
      <3>2. Values(t, e)' = Values(t, e)
        BY <2>1, <3>1, ValuesKept
      <3> QED BY <1>1, <2>1, <2>2, <3>1, <3>2, RefsKept DEF OthersSame, Registered
    <2>4. CASE target[t] \in Registered
      <3>1. /\ Registered' = Registered \ {target[t]} /\ pc'[t] = "nested" /\ target'[t] = target[t]
        BY <1>1, <1>6, <2>4, RemoveOne DEF DropRemove, TypeOK, Registered
      <3>2. CASE e = target[t]
        <4>1. -1 \notin Values(t, e) /\ Values(t, e)' = Values(t, e) \cup {-1}
          <5>1. handles[t][e] \in Nat
            BY <1>1 DEF TypeOK
          <5> QED BY <2>1, <3>1, <3>2, <5>1 DEF Values
        <4> QED BY <1>1, <2>1, <2>2, <2>4, <3>1, <3>2, <4>1, RefLeft
      <3>3. CASE e # target[t]
        <4>1. Values(t, e)' = Values(t, e)
          BY <2>1, <3>1, <3>3, ValuesKept
        <4> QED BY <1>1, <2>1, <2>2, <3>1, <3>3, <4>1, RefsKept DEF OthersSame
      <3> QED BY <3>2, <3>3
    <2> QED BY <2>3, <2>4
  <1>7. CASE NestedCount(t)
    <2>1. /\ UNCHANGED <<endpoints, handles, dying>> /\ pc[t] = "nested" /\ target[t] \in Ep
          /\ refcnt' = [refcnt EXCEPT ![target[t]] = @ - 1]
          /\ \A u \in Thread \ {t} : target'[u] = target[u] /\ pc'[u] = pc[u]
          /\ pc'[t] \in {"drop", "nestedcas"}
      BY <1>1, <1>7 DEF NestedCount, TypeOK, Shape, Removing
    <2>2. OthersSame(t, e)
      BY <2>1, ValuesKept DEF OthersSame
    <2>3. CASE e = target[t]
      <3>1. -1 \in Values(t, e) /\ Values(t, e)' = Values(t, e) \ {-1}
        <4>1. handles[t][e] \in Nat
          BY <1>1 DEF TypeOK
        <4> QED BY <2>1, <2>3, <4>1 DEF Values
      <3>2. refcnt'[e] = refcnt[e] - 1
        BY <1>1, <2>1, <2>3 DEF TypeOK
      <3> QED BY <1>1, <2>1, <2>2, <3>1, <3>2, RefTaken DEF Registered
    <2>4. CASE e # target[t]
      <3>1. Values(t, e)' = Values(t, e)
        BY <2>1, <2>4, ValuesKept
      <3>2. refcnt'[e] = refcnt[e]
        BY <1>1, <2>1, <2>4 DEF TypeOK
      <3> QED BY <1>1, <2>1, <2>2, <3>1, <3>2, RefsKept DEF OthersSame, Registered
    <2> QED BY <2>3, <2>4
  <1> QED BY <1>2, <1>3, <1>4, <1>5, <1>6, <1>7 DEF Continue

LEMMA CountedStep ==
    ASSUME NetInv, NEW t \in Thread, Begin(t) \/ Continue(t), NEW e \in Ep
    PROVE  Counted(e)'
  <1> USE DEF Idle, Step, Unlock, Make, counts, ids
  <1>1. TypeOK /\ TypeOK' /\ Exact(e)' /\ Shape(t)
    BY TypeBegin, TypeContinue, ExactBegin, ExactContinue DEF NetInv
  <1>2. ASSUME e \notin Made'
        PROVE  e \notin Made /\ refcnt'[e] = refcnt[e] /\ \A u \in Thread : target'[u] # e
    <2>1. e \notin Made
      BY <1>1, <1>2, EidAssumption
         DEF Made, Begin, Continue, GetNewEid, SendBegin, NewEndpoint, NewBridgeEndpoint,
             NewEndpointWithId, Clone, Drop, AddEndpoint, SendClone, SendGive, DropCount,
             DropDone, DropSwap, DropLock, DropRemove, NestedCount, NestedSwap, TypeOK
    <2>2. /\ e \notin Registered
          /\ \A u \in Thread : handles[u][e] = 0 /\ e \notin ToSet(dying[u]) /\ target[u] # e
      BY <2>1, Unmade
    <2>3. ASSUME Begin(t) PROVE refcnt'[e] = refcnt[e] /\ \A u \in Thread : target'[u] # e
      <3>1. ASSUME NEW f \in Ep, NEW id, Make(t, f, id), id \in Nat PROVE f # e
        BY <1>1, <1>2, <3>1, EidAssumption DEF Made, TypeOK
      <3>2. hueid \in Nat /\ \A id \in reserved \cup ExplicitIds : id \in Nat
        BY <1>1, EidAssumption DEF TypeOK
      <3>3. ASSUME NEW f \in Ep, NewEndpoint(t, f) PROVE f # e /\ UNCHANGED target
        BY <3>1, <3>2, <3>3 DEF NewEndpoint
      <3>4. ASSUME NEW f \in Ep, NEW id \in ExplicitIds \cup reserved, NewEndpointWithId(t, f, id)
            PROVE  f # e /\ UNCHANGED target
        BY <3>1, <3>2, <3>4 DEF NewEndpointWithId
      <3>5. ASSUME NEW f \in Ep, NEW id \in reserved, NewBridgeEndpoint(t, f, id)
            PROVE  f # e /\ target' = [target EXCEPT ![t] = f]
        BY <3>1, <3>2, <3>5 DEF NewBridgeEndpoint
      <3>6. ASSUME NEW f \in Ep, NEW u \in Thread, Clone(t, u, f) PROVE f # e /\ UNCHANGED target
        BY <2>2, <3>6 DEF Clone
      <3>7. ASSUME NEW f \in Ep, f # e,
                   refcnt' = [refcnt EXCEPT ![f] = 2] \/ refcnt' = [refcnt EXCEPT ![f] = @ + 1]
            PROVE  refcnt'[e] = refcnt[e]
        BY <1>1, <3>7 DEF TypeOK
      <3>8. ASSUME NEW f \in Ep, f # e, UNCHANGED target \/ target' = [target EXCEPT ![t] = f]
            PROVE  \A u \in Thread : target'[u] # e
        BY <1>1, <2>2, <3>8 DEF TypeOK
      <3>9. ASSUME UNCHANGED target PROVE \A u \in Thread : target'[u] # e
        BY <2>2, <3>9
      <3> QED
        BY <2>3, <3>3, <3>4, <3>5, <3>6, <3>7, <3>8, <3>9
           DEF Begin, GetNewEid, SendBegin, NewEndpoint, NewBridgeEndpoint, NewEndpointWithId,
               Clone, Drop
    <2>4. ASSUME DropCount(t) PROVE refcnt'[e] = refcnt[e] /\ \A u \in Thread : target'[u] # e
      <3>1. Head(dying[t]) # e /\ Head(dying[t]) \in Ep
        BY <1>1, <2>2, <2>4, TailOne DEF DropCount, TypeOK
      <3> QED BY <1>1, <2>2, <2>4, <3>1 DEF DropCount, TypeOK
    <2>5. ASSUME SendClone(t) PROVE refcnt'[e] = refcnt[e] /\ \A u \in Thread : target'[u] # e
      <3>1. Len(dying[t]) + 1 \in DOMAIN endpoints
        BY <1>1, <2>5 DEF SendClone, TypeOK
      <3>2. endpoints[Len(dying[t]) + 1] # e
        BY <2>2, <3>1 DEF Registered, ToSet
      <3> QED BY <1>1, <2>2, <2>5, <3>2 DEF SendClone, CountedClone, TypeOK
    <2>6. ASSUME Continue(t), ~DropCount(t), ~SendClone(t)
          PROVE  refcnt'[e] = refcnt[e] /\ \A u \in Thread : target'[u] # e
      BY <1>1, <2>2, <2>6, ThreadAssumption
         DEF Continue, AddEndpoint, SendGive, DropDone, DropSwap, DropLock, DropRemove,
             NestedCount, NestedSwap, TypeOK
    <2> QED BY <2>1, <2>3, <2>4, <2>5, <2>6
  <1>3. ASSUME e \notin Made' PROVE Refs(e)' = {}
    <2>1. refcnt'[e] = 0
      BY <1>2, <1>3, Unmade
    <2> QED BY <1>1, <2>1, FS_EmptySet DEF Exact
  <1> QED BY <1>1, <1>2, <1>3 DEF Counted

----------------------------------------------------------------------------
(* Owners *)

LEMMA OwnedStep ==
    ASSUME NetInv, NEW t \in Thread, Begin(t) \/ Continue(t), NEW e \in Ep, Owned(e)'
    PROVE  Owned(e) \/ e \notin Made
  <1> USE DEF Own, Owned, Make
  <1>1. handles \in [Thread -> [Ep -> Nat]]
    BY DEF NetInv, TypeOK
  <1>2. CASE UNCHANGED handles
    BY <1>2
  <1>3. ASSUME NEW f \in Ep, f \notin Made, handles' = [handles EXCEPT ![t][f] = @ + 1]
        PROVE  Owned(e) \/ e \notin Made
    BY <1>1, <1>3
  <1>4. ASSUME NEW f \in Ep, NEW u \in Thread, Clone(t, u, f) PROVE Owned(e) \/ e \notin Made
    BY <1>1, <1>4 DEF Clone
  <1>5. ASSUME NEW f \in Ep, Drop(t, f) PROVE Owned(e) \/ e \notin Made
    BY <1>1, <1>5 DEF Drop
  <1> QED
    BY <1>2, <1>3, <1>4, <1>5
       DEF Begin, Continue, GetNewEid, SendBegin, NewEndpoint, NewBridgeEndpoint,
           NewEndpointWithId, AddEndpoint, SendClone, SendGive, DropCount,
           DropDone, DropSwap, DropLock, DropRemove, NestedCount, NestedSwap

\* An endpoint with an owner, a handle of its own in the registry or on the way
\* there, and a clone that dies has three handles.
LEMMA LastIsUnowned ==
    ASSUME NetInv, NEW t \in Thread, NEW e \in Ep, e \in ToSet(dying[t]), OnlyNetLeft(e)
    PROVE  ~Owned(e)
  <1> SUFFICES ASSUME Owned(e) PROVE FALSE
    OBVIOUS
  <1>1. PICK u \in Thread : handles[u][e] > 0
    BY DEF Owned
  <1>2. <<t, 0>> \in Refs(e)
    BY DEF Refs, Values
  <1>3. <<u, 1>> \in Refs(e)
    <2>1. 1 \in Values(u, e)
      BY <1>1 DEF NetInv, TypeOK, Values
    <2> QED BY <2>1 DEF Refs
  <1>4. \E w \in Thread \cup {NoThread}, n \in {0, -1} :
            <<w, n>> \in Refs(e) /\ <<w, n>> # <<t, 0>> /\ <<w, n>> # <<u, 1>>
    <2>1. CASE e \in Registered
      <3>1. <<NoThread, 0>> \in Refs(e)
        BY <2>1 DEF Refs
      <3>2. NoThread # t
        BY ThreadAssumption
      <3> QED BY <3>1, <3>2
    <2>2. CASE e \notin Registered
      <3>1. PICK w \in Thread : pc[w] = "add" /\ target[w] = e
        BY <2>2 DEF NetInv, OwnerRegistered
      <3>2. <<w, -1>> \in Refs(e)
        BY <3>1 DEF Refs, Values
      <3> QED BY <3>2
    <2> QED BY <2>1, <2>2
  <1>5. IsFiniteSet(Refs(e)) /\ Cardinality(Refs(e)) = 2
    BY DEF NetInv, Counted, Exact, OnlyNetLeft
  <1>6. <<t, 0>> # <<u, 1>>
    OBVIOUS
  <1>7. Cardinality(Refs(e)) > 2
    BY <1>2, <1>3, <1>4, <1>5, <1>6, CountThree
  <1> QED BY <1>5, <1>7

LEMMA OwnerStep ==
    ASSUME NetInv, NEW t \in Thread, Begin(t) \/ Continue(t)
    PROVE  OwnerRegistered'
  <1> USE DEF Idle, Step, Unlock
  <1> SUFFICES ASSUME NEW e \in Ep, Owned(e)', e \notin Registered'
               PROVE  \E u \in Thread : pc'[u] = "add" /\ target'[u] = e
    BY DEF OwnerRegistered
  <1>1. TypeOK /\ Shape(t) /\ Adding(t) /\ Unowned(t)
    BY DEF NetInv
  <1>2. CASE \E f \in Ep : \E id \in reserved : NewBridgeEndpoint(t, f, id) /\ f = e
    BY <1>1, <1>2 DEF NewBridgeEndpoint, TypeOK
  <1>3. CASE e \notin Made /\ ~ \E f \in Ep : \E id \in reserved : NewBridgeEndpoint(t, f, id) /\ f = e
    <2>1. \A u \in Thread : handles[u][e] = 0
      BY <1>3, Unmade
    <2>2. PICK u \in Thread : handles'[u][e] # handles[u][e]
      BY <2>1, TypeBegin, TypeContinue DEF Owned, NetInv, TypeOK
    <2>3. \/ NewEndpoint(t, e)
          \/ \E id \in ExplicitIds \cup reserved : NewEndpointWithId(t, e, id)
      <3>1. ASSUME NEW f \in Ep, NEW v \in Thread, NEW n \in Int, f # e, Own(v, f, n) PROVE FALSE
        BY <1>1, <2>2, <3>1 DEF Own, TypeOK
      <3>2. \A f \in Ep : handles[t][f] > 0 => f # e
        BY <2>1
      <3> QED
        BY <1>3, <2>2, <3>1, <3>2
           DEF Begin, Continue, GetNewEid, SendBegin, NewEndpoint, NewBridgeEndpoint, Clone, Drop,
               NewEndpointWithId, AddEndpoint, SendClone, SendGive, DropCount,
               DropDone, DropSwap, DropLock, DropRemove, NestedCount, NestedSwap
    <2>4. e \in Registered'
      <3>1. endpoints' = Append(endpoints, e)
        BY <2>3 DEF NewEndpoint, NewEndpointWithId
      <3>2. e \notin Registered
        BY <1>3, Unmade
      <3> QED BY <1>1, <3>1, <3>2, AppendOne DEF TypeOK, Registered
    <2> QED BY <2>4
  <1>4. CASE e \in Made
    <2>1. Owned(e)
      BY <1>4, OwnedStep
    <2>2. CASE e \in Registered
      <3>1. DropRemove(t) /\ target[t] = e
        <4>1. ~UNCHANGED endpoints
          BY <2>2 DEF Registered
        <4>2. ASSUME NEW f \in Ep, f \notin Registered, endpoints' = Append(endpoints, f) PROVE FALSE
          BY <1>1, <2>2, <4>2, AppendOne DEF TypeOK, Registered
        <4>3. ~ \E f \in Ep : NewEndpoint(t, f)
          BY <4>2, Unmade DEF NewEndpoint, Make
        <4>4. ~ \E f \in Ep, id \in ExplicitIds \cup reserved : NewEndpointWithId(t, f, id)
          BY <4>2, Unmade DEF NewEndpointWithId, Make
        <4>5. ~AddEndpoint(t)
          BY <1>1, <4>2 DEF AddEndpoint, Shape, Adding, TypeOK
        <4>6. DropRemove(t)
          BY <4>1, <4>3, <4>4, <4>5
             DEF Begin, Continue, GetNewEid, SendBegin, NewBridgeEndpoint, Clone, Drop, SendClone,
                 SendGive, DropCount, DropDone, DropSwap, DropLock, NestedCount, NestedSwap, ids, counts
        <4>7. target[t] = e
          BY <1>1, <2>2, <4>1, <4>6, RemoveOne DEF DropRemove, TypeOK, Registered
        <4> QED BY <4>6, <4>7
      <3> QED BY <1>1, <2>1, <3>1 DEF DropRemove, Unowned
    <2>3. CASE e \notin Registered
      <3>1. PICK u \in Thread : pc[u] = "add" /\ target[u] = e
        BY <2>1, <2>3 DEF NetInv, OwnerRegistered
      <3>2. CASE u = t
        <4>1. AddEndpoint(t)
          BY <3>1, <3>2
             DEF Begin, Continue, GetNewEid, SendBegin, NewEndpoint, NewBridgeEndpoint, Clone, Drop,
                 NewEndpointWithId, SendClone, SendGive, DropCount, DropDone, DropSwap, DropLock,
                 DropRemove, NestedCount, NestedSwap
        <4>2. e \in Registered'
          BY <1>1, <2>3, <3>1, <3>2, <4>1, AppendOne DEF AddEndpoint, TypeOK, Registered
        <4> QED BY <4>2
      <3>3. CASE u # t
        <4>1. pc'[u] = pc[u] /\ target'[u] = target[u]
          BY <1>1, <3>3
             DEF Begin, Continue, GetNewEid, SendBegin, NewEndpoint, NewBridgeEndpoint, Clone, Drop,
                 NewEndpointWithId, AddEndpoint, SendClone, SendGive, DropCount, DropDone, DropSwap,
                 DropLock, DropRemove, NestedCount, NestedSwap, TypeOK
        <4> QED BY <3>1, <4>1
      <3> QED BY <3>2, <3>3
    <2> QED BY <2>2, <2>3
  <1> QED BY <1>2, <1>3, <1>4 DEF NewBridgeEndpoint, Make

LEMMA UnownedStep ==
    ASSUME NetInv, NEW t \in Thread, Begin(t) \/ Continue(t), NEW u \in Thread
    PROVE  Unowned(u)'
  <1> USE DEF Idle, Step, Unlock
  <1> SUFFICES ASSUME pc'[u] \in {"cas", "lock", "remove"}, NEW w \in Thread, handles'[w][target'[u]] > 0
               PROVE  FALSE
    BY DEF Unowned, Owned
  <1>1. TypeOK /\ Shape(u) /\ Unowned(u) /\ TypeOK' /\ Shape(u)'
    BY TypeBegin, TypeContinue, ShapeBegin, ShapeContinue DEF NetInv
  <1>2. PICK e \in Ep : e = target'[u]
    BY <1>1 DEF TypeOK, Shape, Removing
  <1>3. Owned(e)'
    BY <1>2 DEF Owned
  <1>4. CASE pc[u] \in {"cas", "lock", "remove"} /\ target'[u] = target[u]
    <2>1. ~Owned(e) /\ e \in Made
      BY <1>1, <1>2, <1>4, Unmade DEF Unowned
    <2> QED BY <1>3, <2>1, OwnedStep
  <1>5. CASE ~(pc[u] \in {"cas", "lock", "remove"} /\ target'[u] = target[u])
    <2>1. u = t /\ DropCount(t)
      BY <1>1, <1>5, ZenonT(30)
         DEF Begin, Continue, GetNewEid, SendBegin, NewEndpoint, NewBridgeEndpoint, Clone, Drop,
             NewEndpointWithId, AddEndpoint, SendClone, SendGive, DropCount, DropDone, DropSwap,
             DropLock, DropRemove, NestedCount, NestedSwap, TypeOK
    <2>2. OnlyNetLeft(Head(dying[t])) /\ target'[t] = Head(dying[t]) /\ UNCHANGED handles
      BY <1>1, <1>5, <2>1 DEF DropCount, TypeOK
    <2>3. e \in ToSet(dying[t]) /\ OnlyNetLeft(e)
      BY <1>1, <1>2, <2>1, <2>2, TailOne DEF DropCount, TypeOK
    <2> QED BY <1>3, <2>2, <2>3, LastIsUnowned DEF Owned
  <1> QED BY <1>4, <1>5

----------------------------------------------------------------------------
(* The theorems *)

LEMMA NetInvInit == Init => NetInv
  <1> SUFFICES ASSUME Init PROVE NetInv
    OBVIOUS
  <1>1. \A t \in Thread : pc[t] = "idle" /\ \A e \in Ep : handles[t][e] = 0
    BY DEF Init
  <1> QED BY <1>1, TypeInit, ShapeInit, ExactInit DEF NetInv, Unowned, OwnerRegistered, Owned

LEMMA NetInvStep == NetInv /\ [Next]_vars => NetInv'
  <1> SUFFICES ASSUME NetInv, [Next]_vars PROVE NetInv'
    OBVIOUS
  <1>1. CASE UNCHANGED vars
    <2>1. /\ TypeOK' /\ OwnerRegistered'
          /\ \A t \in Thread : Shape(t)' /\ Prefix(t)' /\ Adding(t)' /\ Unowned(t)'
      BY <1>1
         DEF NetInv, TypeOK, OwnerRegistered, Shape, Prefix, Adding, Unowned, Owned, Registered,
             vars, ids, counts
    <2>2. \A e \in Ep : Counted(e)'
      BY <1>1 DEF NetInv, Counted, Exact, Refs, Values, Made, Registered, vars, ids, counts
    <2> QED BY <2>1, <2>2 DEF NetInv
  <1>2. ASSUME NEW t \in Thread, Begin(t) \/ Continue(t) PROVE NetInv'
    <2>1. TypeOK' /\ OwnerRegistered' /\ \A e \in Ep : Counted(e)'
      BY <1>2, TypeBegin, TypeContinue, OwnerStep, CountedStep
    <2>2. \A u \in Thread : Shape(u)' /\ Prefix(u)' /\ Adding(u)' /\ Unowned(u)'
      BY <1>2, ShapeBegin, ShapeContinue, PrefixStep, AddingStep, UnownedStep
    <2> QED BY <2>1, <2>2 DEF NetInv
  <1> QED BY <1>1, <1>2 DEF Next

LEMMA NetInvariant == Spec => []NetInv
  BY NetInvInit, NetInvStep, PTL DEF Spec

\* Every variable of the net keeps its type: the registry and the clones of a send
\* never hold an endpoint twice, and no count goes below zero.
THEOREM TypeCorrect == Spec => []TypeOK
  <1>1. NetInv => TypeOK
    BY DEF NetInv
  <1> QED BY <1>1, NetInvariant, PTL

\* refcnt is the number of live handles of the endpoint, whatever clones, drops
\* and removals interleave (endpoint.rs:215, 232).
THEOREM CountsExact == Spec => []RefcntExact
  <1>1. NetInv => RefcntExact
    BY DEF NetInv, Counted, Exact, RefcntExact
  <1> QED BY <1>1, NetInvariant, PTL

\* An endpoint that a thread owns is in the registry or about to be added, so that
\* the messages of others reach it (endpoint.rs:231-241, net.rs:274).
THEOREM OwnersReachable == Spec => []OwnerRegistered
  <1>1. NetInv => OwnerRegistered
    BY DEF NetInv
  <1> QED BY <1>1, NetInvariant, PTL

\* The drop of the net's own handle never enters drop_endpoint with the lock held
\* (net.rs:281-283).
THEOREM NoNestedLock == Spec => []NoReentry
  <1>1. NetInv => NoReentry
    BY DEF NetInv, Shape, NoReentry
  <1> QED BY <1>1, NetInvariant, PTL

----------------------------------------------------------------------------
(* Identifiers *)

LEMMA IdInit == Init => IdInv
  BY DEF Init, IdInv, UniqueEid, Made

\* A step that makes endpoint e changes no other identifier.
LEMMA IdMade ==
    ASSUME NetInv, NEW t \in Thread, NEW e \in Ep, NEW id \in Nat, Make(t, e, id)
    PROVE  /\ Made' = Made \cup {e} /\ e \notin Made /\ eid'[e] = id
           /\ \A f \in Made : eid'[f] = eid[f]
  BY EidAssumption DEF Make, Made, NetInv, TypeOK

LEMMA IdStep ==
    ASSUME NetInv, IdInv, hueid # EidMod - 1, EidMod - 1 \notin ExplicitIds, [Next]_vars
    PROVE  IdInv'
  <1>1. /\ hueid \in Nat /\ hueid < EidMod - 1 /\ (hueid + 1) % EidMod = hueid + 1
        /\ \A id \in reserved \cup ExplicitIds : id \in Nat
        /\ \A e \in Made : eid[e] \in Nat
    <2>1. hueid \in 0..EidMod-1 /\ hueid # EidMod - 1 /\ EidMod \in Nat \ {0}
      BY EidAssumption DEF NetInv, TypeOK
    <2>2. \A x \in Nat : x + 1 < EidMod => (x + 1) % EidMod = x + 1
      BY <2>1
    <2>3. hueid \in Nat /\ hueid + 1 < EidMod
      BY <2>1
    <2>4. /\ \A id \in reserved \cup ExplicitIds : id \in Nat
          /\ \A e \in Made : eid[e] \in Nat
      BY EidAssumption DEF NetInv, TypeOK, Made
    <2> QED BY <2>1, <2>2, <2>3, <2>4
  <1>2. CASE UNCHANGED <<hueid, reserved, eid, issued, taken>>
    BY <1>2 DEF IdInv, UniqueEid, Made
  <1>3. ASSUME NEW t \in Thread, GetNewEid(t) PROVE IdInv'
    <2>1. /\ hueid' = hueid + 1 /\ reserved' = reserved \cup {hueid} /\ Made' = Made
          /\ UNCHANGED <<eid, issued, taken>>
      BY <1>1, <1>3 DEF GetNewEid, Made
    <2> QED BY <1>1, <2>1 DEF IdInv, UniqueEid
  <1>4. ASSUME NEW t \in Thread, NEW e \in Ep, NewEndpoint(t, e) PROVE IdInv'
    <2>1. /\ Made' = Made \cup {e} /\ e \notin Made /\ eid'[e] = hueid
          /\ \A f \in Made : eid'[f] = eid[f]
      BY <1>1, <1>4, IdMade DEF NewEndpoint
    <2>2. /\ hueid' = hueid + 1 /\ UNCHANGED <<reserved, taken>> /\ issued' = issued \cup {e}
      BY <1>1, <1>4 DEF NewEndpoint
    <2> QED BY <1>1, <2>1, <2>2 DEF IdInv, UniqueEid
  <1>5. ASSUME NEW t \in Thread, NEW e \in Ep, NEW id \in reserved, NewBridgeEndpoint(t, e, id)
        PROVE  IdInv'
    <2>1. /\ Made' = Made \cup {e} /\ e \notin Made /\ eid'[e] = id
          /\ \A f \in Made : eid'[f] = eid[f]
      BY <1>1, <1>5, IdMade DEF NewBridgeEndpoint
    <2>2. /\ reserved' = reserved \ {id} /\ UNCHANGED <<hueid, taken>> /\ issued' = issued \cup {e}
      BY <1>5 DEF NewBridgeEndpoint
    <2> QED BY <1>1, <2>1, <2>2 DEF IdInv, UniqueEid
  <1>6. ASSUME NEW t \in Thread, NEW e \in Ep, NEW id \in ExplicitIds \cup reserved,
               NewEndpointWithId(t, e, id)
        PROVE  IdInv'
    <2>1. /\ Made' = Made \cup {e} /\ e \notin Made /\ eid'[e] = id
          /\ \A f \in Made : eid'[f] = eid[f]
      BY <1>1, <1>6, IdMade DEF NewEndpointWithId
    <2>2. reserved' = reserved \ {id} /\ hueid' = HueidAfter(id)
      BY <1>6 DEF NewEndpointWithId
    <2>3. CASE id \in reserved
      <3>1. issued' = issued \cup {e} /\ taken' = taken /\ hueid' = hueid
        BY <1>1, <1>6, <2>2, <2>3 DEF NewEndpointWithId, HueidAfter, IdInv
      <3> QED BY <1>1, <2>1, <2>2, <2>3, <3>1 DEF IdInv, UniqueEid
    <2>4. CASE id \notin reserved /\ id > hueid
      <3>1. issued' = issued /\ taken' = taken /\ hueid' = id + 1
        <4>1. (id + 1) % EidMod = id + 1
          BY <1>1, <2>4, EidAssumption
        <4> QED BY <1>6, <2>2, <2>4, <4>1 DEF NewEndpointWithId, HueidAfter
      <3> QED BY <1>1, <2>1, <2>2, <2>4, <3>1 DEF IdInv, UniqueEid
    <2>5. CASE id \notin reserved /\ ~(id > hueid)
      <3>1. issued' = issued /\ taken' = taken \cup {e} /\ hueid' = hueid
        BY <1>6, <2>2, <2>5 DEF NewEndpointWithId, HueidAfter
      <3> QED BY <1>1, <2>1, <2>2, <2>5, <3>1 DEF IdInv, UniqueEid
    <2> QED BY <2>3, <2>4, <2>5
  <1> QED
    BY <1>2, <1>3, <1>4, <1>5, <1>6
       DEF Next, Begin, Continue, SendBegin, Clone, Drop, AddEndpoint, SendClone, SendGive,
           DropCount, DropDone, DropSwap, DropLock, DropRemove, NestedCount, NestedSwap, vars, ids

\* Until the counter reaches its last value, an identifier that the net chose is that
\* of one endpoint, unless another's caller named it without having got it, unused,
\* from get_neweid: new_endpoint_withid accepts any identifier, and one up to hueid, that
\* included which the net hands out next, does not move hueid (net.rs:230-266).  No
\* caller names UNUSED_ID.
THEOREM UniqueIds ==
    ASSUME EidMod - 1 \notin ExplicitIds
    PROVE  Spec /\ [](hueid # EidMod - 1) => []UniqueEid
  <1>1. Init => IdInv
    BY IdInit
  <1>2. NetInv /\ IdInv /\ hueid # EidMod - 1 /\ [Next]_vars => IdInv'
    BY IdStep
  <1>3. IdInv => UniqueEid
    BY DEF IdInv
  <1> QED BY <1>1, <1>2, <1>3, NetInvariant, PTL DEF Spec

\* With callers that name only what get_neweid gave them, once, as its documentation
\* does (net.rs:235-239), or what is above hueid, nothing is excused: no other endpoint
\* ever has an identifier that the net chose.
THEOREM UniqueIfReserved ==
    ASSUME EidMod - 1 \notin ExplicitIds
    PROVE  Spec /\ [](hueid # EidMod - 1) /\ [](taken = {})
           => [](\A e \in issued, f \in Made : eid[e] = eid[f] => e = f)
  <1>1. UniqueEid /\ taken = {} => \A e \in issued, f \in Made : eid[e] = eid[f] => e = f
    BY DEF UniqueEid
  <1> QED BY <1>1, UniqueIds, PTL
=============================================================================
