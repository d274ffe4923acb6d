--------------------------- MODULE WorkerPoolProofs ---------------------------
(***************************************************************************)
(* What WorkerPool guarantees for every finite set of threads and of       *)
(* resources: the type invariant, that no resource is shared or lost, that *)
(* no wake-up is lost, and that the pool implements ResourceLease.         *)
(***************************************************************************)
EXTENDS WorkerPool, FiniteSetTheorems, SequenceTheorems, TLAPS

-----------------------------------------------------------------------------
(* The inductive invariant: Conserved, taken apart.                         *)

\* No resource is on the stack twice.
StackDistinct == \A i, j \in 1..Len(free) : free[i] = free[j] => i = j

\* Exactly the threads at "leased" have a lease.
LeaseWhenLeased == \A t \in Threads : lease[t] # Nobody <=> pc[t] = "leased"

\* No resource is leased twice.
LeaseDistinct == \A t, u \in Threads : lease[t] # Nobody /\ lease[t] = lease[u] => t = u

\* No leased resource is on the stack.
Apart == \A t \in Threads, i \in 1..Len(free) : free[i] # lease[t]

\* Every resource is on the stack or in a lease.
Covered ==
  \A w \in Workers :
    (\E i \in 1..Len(free) : free[i] = w) \/ (\E t \in Threads : lease[t] = w)

PoolInv ==
  PoolTypeOK /\ StackDistinct /\ LeaseWhenLeased /\ LeaseDistinct /\ Apart /\ Covered

-----------------------------------------------------------------------------
(* The stack operations, as SMT needs them.                                 *)

LEMMA PopStack ==
  ASSUME NEW s \in Seq(Workers), s # <<>>
  PROVE  /\ Len(s) \in Nat /\ Len(s) > 0
         /\ s[Len(s)] \in Workers
         /\ SubSeq(s, 1, Len(s) - 1) \in Seq(Workers)
         /\ Len(SubSeq(s, 1, Len(s) - 1)) = Len(s) - 1
         /\ \A i \in 1..Len(s) - 1 : SubSeq(s, 1, Len(s) - 1)[i] = s[i]
<1>1. Len(s) \in Nat /\ Len(s) > 0
  BY EmptySeq, LenProperties
<1>2. \A i \in 1..Len(s) : s[i] \in Workers
  BY ElementOfSeq
<1>3. \A i \in 1..Len(s) - 1 : s[i] \in Workers
  BY <1>1, <1>2
<1>4. Len(s) - 1 \in Int
  BY <1>1
<1>5. /\ SubSeq(s, 1, Len(s) - 1) \in Seq(Workers)
      /\ Len(SubSeq(s, 1, Len(s) - 1)) = IF 1 <= Len(s) - 1 THEN Len(s) - 1 - 1 + 1 ELSE 0
      /\ \A i \in 1..Len(s) - 1 - 1 + 1 : SubSeq(s, 1, Len(s) - 1)[i] = s[1 + i - 1]
  BY <1>3, <1>4, SubSeqProperties
<1>6. /\ Len(s) - 1 - 1 + 1 = Len(s) - 1
      /\ \A i \in 1..Len(s) - 1 : 1 + i - 1 = i
      /\ (IF 1 <= Len(s) - 1 THEN Len(s) - 1 - 1 + 1 ELSE 0) = Len(s) - 1
  <2>1. \A n \in Nat : n > 0 => /\ n - 1 - 1 + 1 = n - 1
                                /\ \A i \in 1..n - 1 : 1 + i - 1 = i
                                /\ (IF 1 <= n - 1 THEN n - 1 - 1 + 1 ELSE 0) = n - 1
    OBVIOUS
  <2>. QED BY <1>1, <2>1, Zenon
<1>7. \A i \in 1..Len(s) - 1 : SubSeq(s, 1, Len(s) - 1)[i] = s[i]
  BY <1>5, <1>6, Zenon
<1>8. s[Len(s)] \in Workers
  BY <1>1, <1>2
<1>9. Len(SubSeq(s, 1, Len(s) - 1)) = Len(s) - 1
  BY <1>5, <1>6, Zenon
<1>. QED BY <1>1, <1>5, <1>7, <1>8, <1>9

LEMMA PushStack ==
  ASSUME NEW s \in Seq(Workers), NEW w \in Workers
  PROVE  /\ Append(s, w) \in Seq(Workers)
         /\ Len(s) \in Nat
         /\ Len(Append(s, w)) = Len(s) + 1
         /\ \A i \in 1..Len(s) : Append(s, w)[i] = s[i]
         /\ Append(s, w)[Len(s) + 1] = w
BY AppendProperties, LenProperties

-----------------------------------------------------------------------------
LEMMA InitInv == PoolInit => PoolInv
<1>. SUFFICES ASSUME PoolInit PROVE PoolInv
  OBVIOUS
<1>. DEFINE n == Cardinality(Workers)
<1>1. n \in Nat
  BY PoolAssumption, FS_CardinalityType
<1>2. free \in [1..n -> Workers]
  BY DEF PoolInit
<1>3. \A i, j \in 1..n : free[i] = free[j] => i = j
  BY <1>2 DEF PoolInit
<1>4. free \in Seq(Workers) /\ Len(free) = n
  BY <1>1, <1>2
<1>5. free \in Injection(1..n, Workers)
  BY <1>2, <1>3 DEF Injection, IsInjective
<1>6. IsFiniteSet(1..n) /\ Cardinality(1..n) = n
  <2>. HIDE DEF n
  <2>1. /\ IsFiniteSet(1..n)
        /\ Cardinality(1..n) = IF 1 > n THEN 0 ELSE n - 1 + 1
    BY <1>1, FS_Interval
  <2>. QED BY <2>1, <1>1
<1>7. free \in Surjection(1..n, Workers)
  BY <1>5, <1>6, PoolAssumption, FS_Injection
<1>8. \A w \in Workers : \E i \in 1..n : free[i] = w
  BY <1>7 DEF Surjection
<1>9. PoolTypeOK
  BY <1>4 DEF PoolInit, PoolTypeOK, PoolPoint
<1>10. StackDistinct
  BY <1>3, <1>4 DEF StackDistinct
<1>11. LeaseWhenLeased /\ LeaseDistinct
  BY DEF PoolInit, LeaseWhenLeased, LeaseDistinct
<1>12. Apart
  <2>. SUFFICES ASSUME NEW t \in Threads, NEW i \in 1..Len(free)
                PROVE  free[i] # lease[t]
    BY DEF Apart
  <2>1. free[i] \in Workers
    BY <1>2, <1>4
  <2>2. lease[t] = Nobody
    BY DEF PoolInit
  <2>. QED BY <2>1, <2>2, PoolAssumption
<1>13. Covered
  BY <1>8, <1>4 DEF Covered
<1>. QED BY <1>9, <1>10, <1>11, <1>12, <1>13 DEF PoolInv

\* Leasing the top of the stack to a thread that has no lease keeps the invariant.
LEMMA PopInv ==
  ASSUME PoolInv, NEW t \in Threads, pc[t] # "leased", Pop(t)
  PROVE  PoolInv'
<1>. DEFINE top == free[Len(free)]
<1>1. free \in Seq(Workers) /\ free # <<>>
  BY DEF PoolInv, PoolTypeOK, Pop
<1>2. /\ Len(free) \in Nat /\ Len(free) > 0
      /\ top \in Workers
      /\ free' \in Seq(Workers)
      /\ Len(free') = Len(free) - 1
      /\ \A i \in 1..Len(free) - 1 : free'[i] = free[i]
  BY <1>1, PopStack DEF Pop
<1>3. top # Nobody
  BY <1>2, PoolAssumption
<1>. HIDE DEF top
<1>4. lease' = [lease EXCEPT ![t] = top] /\ pc' = [pc EXCEPT ![t] = "leased"]
  BY DEF Pop, top
<1>5. PoolTypeOK'
  BY <1>2, <1>4 DEF PoolInv, PoolTypeOK, PoolPoint
<1>6. StackDistinct'
  BY <1>2 DEF PoolInv, StackDistinct
<1>7. LeaseWhenLeased'
  BY <1>3, <1>4 DEF PoolInv, PoolTypeOK, LeaseWhenLeased
<1>8. \A u \in Threads : lease[u] # top
  BY <1>2 DEF PoolInv, Apart, top
<1>9. LeaseDistinct'
  BY <1>4, <1>8 DEF PoolInv, PoolTypeOK, LeaseDistinct
<1>10. Apart'
  <2>. SUFFICES ASSUME NEW u \in Threads, NEW i \in 1..Len(free')
                PROVE  free'[i] # lease'[u]
    BY DEF Apart
  <2>1. i \in 1..Len(free) /\ i # Len(free) /\ free'[i] = free[i]
    BY <1>2
  <2>2. free[i] # top
    BY <2>1, <1>2 DEF PoolInv, StackDistinct, top
  <2>3. free[i] # lease[u]
    BY <2>1 DEF PoolInv, Apart
  <2>. QED BY <2>1, <2>2, <2>3, <1>4 DEF PoolInv, PoolTypeOK
<1>11. Covered'
  <2>. SUFFICES ASSUME NEW w \in Workers
                PROVE  \/ \E i \in 1..Len(free') : free'[i] = w
                       \/ \E u \in Threads : lease'[u] = w
    BY DEF Covered
  <2>1. CASE \E u \in Threads : lease[u] = w
    <3>1. PICK u \in Threads : lease[u] = w
      BY <2>1
    <3>2. u # t
      BY <3>1, PoolAssumption DEF PoolInv, LeaseWhenLeased
    <3>. QED BY <3>1, <3>2, <1>4 DEF PoolInv, PoolTypeOK
  <2>2. CASE \E i \in 1..Len(free) : free[i] = w
    <3>1. PICK i \in 1..Len(free) : free[i] = w
      BY <2>2
    <3>2. CASE i = Len(free)
      <4>1. lease'[t] = w
        BY <3>1, <3>2, <1>4 DEF top, PoolInv, PoolTypeOK
      <4>. QED BY <4>1
    <3>3. CASE i # Len(free)
      <4>1. i \in 1..Len(free') /\ free'[i] = w
        BY <3>1, <3>3, <1>2
      <4>. QED BY <4>1
    <3>. QED BY <3>2, <3>3
  <2>. QED BY <2>1, <2>2 DEF PoolInv, Covered
<1>. QED BY <1>5, <1>6, <1>7, <1>9, <1>10, <1>11 DEF PoolInv

\* Giving a leased resource back keeps the invariant.
LEMMA GiveBackInv ==
  ASSUME PoolInv, NEW t \in Threads, GiveBack(t)
  PROVE  PoolInv'
<1>. DEFINE w == lease[t]
<1>1. /\ free \in Seq(Workers)
      /\ lease \in [Threads -> Workers \cup {Nobody}]
      /\ pc \in [Threads -> PoolPoint]
  BY DEF PoolInv, PoolTypeOK
<1>2. w \in Workers
  BY <1>1 DEF PoolInv, LeaseWhenLeased, GiveBack
<1>3. w # Nobody
  BY <1>2, PoolAssumption
<1>. HIDE DEF w
<1>4. /\ lease' = [lease EXCEPT ![t] = Nobody]
      /\ pc' = [pc EXCEPT ![t] = "notify"]
      /\ free' = Append(free, w)
  BY DEF GiveBack, w
<1>5. /\ Len(free) \in Nat
      /\ free' \in Seq(Workers)
      /\ Len(free') = Len(free) + 1
      /\ \A i \in 1..Len(free) : free'[i] = free[i]
      /\ free'[Len(free) + 1] = w
  BY <1>1, <1>2, <1>4, PushStack
<1>6. \A u \in Threads : u # t => lease[u] # w
  BY <1>3 DEF PoolInv, LeaseDistinct, w
<1>7. \A i \in 1..Len(free) : free[i] # w
  BY DEF PoolInv, Apart, w
<1>8. PoolTypeOK'
  BY <1>1, <1>4, <1>5 DEF PoolTypeOK, PoolPoint
<1>9. StackDistinct'
  BY <1>5, <1>7 DEF PoolInv, StackDistinct
<1>10. LeaseWhenLeased'
  BY <1>1, <1>4 DEF PoolInv, LeaseWhenLeased
<1>11. LeaseDistinct'
  BY <1>1, <1>4 DEF PoolInv, LeaseDistinct
<1>12. Apart'
  <2>. SUFFICES ASSUME NEW u \in Threads, NEW i \in 1..Len(free')
                PROVE  free'[i] # lease'[u]
    BY DEF Apart
  <2>1. CASE u = t
    <3>1. lease'[u] = Nobody
      BY <2>1, <1>1, <1>4
    <3>2. free'[i] \in Workers
      BY <1>5, ElementOfSeq
    <3>. QED BY <3>1, <3>2, PoolAssumption
  <2>2. CASE u # t
    <3>1. lease'[u] = lease[u]
      BY <2>2, <1>1, <1>4
    <3>2. CASE i = Len(free) + 1
      BY <3>1, <3>2, <2>2, <1>5, <1>6
    <3>3. CASE i # Len(free) + 1
      <4>1. i \in 1..Len(free) /\ free'[i] = free[i]
        BY <3>3, <1>5
      <4>. QED BY <4>1, <3>1 DEF PoolInv, Apart
    <3>. QED BY <3>2, <3>3
  <2>. QED BY <2>1, <2>2
<1>13. Covered'
  <2>. SUFFICES ASSUME NEW v \in Workers
                PROVE  \/ \E i \in 1..Len(free') : free'[i] = v
                       \/ \E u \in Threads : lease'[u] = v
    BY DEF Covered
  <2>1. CASE v = w
    <3>1. Len(free) + 1 \in 1..Len(free')
      BY <1>5
    <3>. QED BY <3>1, <2>1, <1>5
  <2>2. CASE v # w /\ \E u \in Threads : lease[u] = v
    <3>1. PICK u \in Threads : lease[u] = v
      BY <2>2
    <3>2. u # t
      BY <3>1, <2>2 DEF w
    <3>. QED BY <3>1, <3>2, <1>1, <1>4
  <2>3. CASE \E i \in 1..Len(free) : free[i] = v
    <3>1. PICK i \in 1..Len(free) : free[i] = v
      BY <2>3
    <3>2. i \in 1..Len(free') /\ free'[i] = v
      BY <3>1, <1>5
    <3>. QED BY <3>2
  <2>. QED BY <2>1, <2>2, <2>3 DEF PoolInv, Covered
<1>. QED BY <1>8, <1>9, <1>10, <1>11, <1>12, <1>13 DEF PoolInv

\* A step that moves threads between points other than "leased" keeps the invariant.
LEMMA WaitingInv ==
  ASSUME PoolInv, UNCHANGED <<free, lease>>, pc' \in [Threads -> PoolPoint],
         \A t \in Threads : pc'[t] = "leased" <=> pc[t] = "leased"
  PROVE  PoolInv'
<1>1. PoolTypeOK'
  BY DEF PoolInv, PoolTypeOK
<1>2. LeaseWhenLeased'
  BY DEF PoolInv, LeaseWhenLeased
<1>3. StackDistinct' /\ LeaseDistinct' /\ Apart' /\ Covered'
  BY DEF PoolInv, StackDistinct, LeaseDistinct, Apart, Covered
<1>. QED BY <1>1, <1>2, <1>3 DEF PoolInv

LEMMA NextInv == PoolInv /\ [PoolNext]_poolVars => PoolInv'
<1>. SUFFICES ASSUME PoolInv, [PoolNext]_poolVars PROVE PoolInv'
  OBVIOUS
<1>1. pc \in [Threads -> PoolPoint]
  BY DEF PoolInv, PoolTypeOK
<1>2. ASSUME NEW t \in Threads, Acquire(t) PROVE PoolInv'
  BY <1>2, PopInv DEF Acquire
<1>3. ASSUME NEW t \in Threads, Block(t) PROVE PoolInv'
  BY <1>1, <1>3, WaitingInv DEF Block, PoolPoint
<1>4. ASSUME NEW t \in Threads, SpuriousWakeup(t) PROVE PoolInv'
  BY <1>1, <1>4, WaitingInv DEF SpuriousWakeup, PoolPoint
<1>5. ASSUME NEW t \in Threads, Retake(t) PROVE PoolInv'
  <2>1. CASE Pop(t)
    BY <1>5, <2>1, PopInv DEF Retake
  <2>2. CASE pc' = [pc EXCEPT ![t] = "waiting"] /\ UNCHANGED <<free, lease>>
    BY <1>1, <1>5, <2>2, WaitingInv DEF Retake, PoolPoint
  <2>. QED BY <1>5, <2>1, <2>2 DEF Retake
<1>6. ASSUME NEW t \in Threads, GiveBack(t) PROVE PoolInv'
  BY <1>6, GiveBackInv
<1>7. ASSUME NEW t \in Threads, NotifyOne(t) PROVE PoolInv'
  <2>1. CASE pc' = [pc EXCEPT ![t] = "idle"]
    BY <1>1, <1>7, <2>1, WaitingInv DEF NotifyOne, PoolPoint
  <2>2. ASSUME NEW u \in At("waiting"), pc' = [pc EXCEPT ![t] = "idle", ![u] = "woken"]
        PROVE  PoolInv'
    BY <1>1, <1>7, <2>2, WaitingInv DEF NotifyOne, PoolPoint, At
  <2>. QED BY <1>7, <2>1, <2>2 DEF NotifyOne
<1>8. CASE UNCHANGED poolVars
  BY <1>1, <1>8, WaitingInv DEF poolVars
<1>. QED BY <1>2, <1>3, <1>4, <1>5, <1>6, <1>7, <1>8 DEF PoolNext

LEMMA SafetyInv == PoolSafetySpec => []PoolInv
BY InitInv, NextInv, PTL DEF PoolSafetySpec

-----------------------------------------------------------------------------
\* The variables of the pool keep their types.
THEOREM TypeCorrect == PoolSafetySpec => []PoolTypeOK
<1>1. PoolInv => PoolTypeOK
  BY DEF PoolInv
<1>. QED BY <1>1, SafetyInv, PTL

\* No resource is ever shared between two threads, or lost: each is on the stack once, or
\* in one lease (the exclusivity that makes a backend without locks safe to drive).
THEOREM ConservedAlways == PoolSafetySpec => []Conserved
<1>1. PoolInv => Conserved
  <2>. SUFFICES ASSUME PoolInv, NEW w \in Workers
                PROVE  \/ /\ \E i \in DOMAIN free : Stacked(w) = {i}
                          /\ Holders(w) = {}
                       \/ /\ Stacked(w) = {}
                          /\ \E t \in Threads : Holders(w) = {t}
    BY DEF Conserved
  <2>1. DOMAIN free = 1..Len(free) /\ w # Nobody
    BY PoolAssumption DEF PoolInv, PoolTypeOK
  <2>2. CASE \E i \in 1..Len(free) : free[i] = w
    <3>1. PICK i \in 1..Len(free) : free[i] = w
      BY <2>2
    <3>2. Stacked(w) = {i}
      BY <3>1, <2>1 DEF Stacked, PoolInv, StackDistinct
    <3>3. Holders(w) = {}
      BY <3>1 DEF Holders, PoolInv, Apart
    <3>. QED BY <3>2, <3>3, <2>1
  <2>3. CASE \E t \in Threads : lease[t] = w
    <3>1. PICK t \in Threads : lease[t] = w
      BY <2>3
    <3>2. Holders(w) = {t}
      BY <3>1, <2>1 DEF Holders, PoolInv, LeaseDistinct
    <3>3. Stacked(w) = {}
      BY <3>1, <2>1 DEF Stacked, PoolInv, Apart
    <3>. QED BY <3>2, <3>3
  <2>. QED BY <2>2, <2>3 DEF PoolInv, Covered
<1>. QED BY <1>1, SafetyInv, PTL

-----------------------------------------------------------------------------
(* No lost wake-up: a counting argument over the points the threads are at. *)

\* At(point), with the function that gives each thread its point as an argument.
Where(f, point) == {t \in Threads : f[t] = point}

LEMMA AtIsWhere ==
  /\ At("waiting") = Where(pc, "waiting") /\ At("waiting")' = Where(pc', "waiting")
  /\ At("woken") = Where(pc, "woken") /\ At("woken")' = Where(pc', "woken")
  /\ At("notify") = Where(pc, "notify") /\ At("notify")' = Where(pc', "notify")
BY DEF At, Where

LEMMA CountType ==
  ASSUME NEW f, NEW point
  PROVE  IsFiniteSet(Where(f, point)) /\ Cardinality(Where(f, point)) \in Nat
<1>1. Where(f, point) \in SUBSET Threads
  BY DEF Where
<1>2. IsFiniteSet(Where(f, point))
  BY <1>1, PoolAssumption, FS_Subset
<1>. QED BY <1>2, FS_CardinalityType

\* One thread has gone from point a to point b.
Shifted(a, b) ==
  /\ Cardinality(Where(pc', a)) = Cardinality(Where(pc, a)) - 1
  /\ Cardinality(Where(pc', b)) = Cardinality(Where(pc, b)) + 1
  /\ \A p \in PoolPoint \ {a, b} : Where(pc', p) = Where(pc, p)

LEMMA Moved ==
  ASSUME NEW t \in Threads, NEW a, NEW b, a # b,
         pc \in [Threads -> PoolPoint], pc[t] = a, pc' = [pc EXCEPT ![t] = b]
  PROVE  Shifted(a, b)
<1>1. Where(pc', a) = Where(pc, a) \ {t} /\ Where(pc', b) = Where(pc, b) \cup {t}
  BY DEF Where
<1>2. \A p \in PoolPoint \ {a, b} : Where(pc', p) = Where(pc, p)
  BY DEF Where
<1>3. t \in Where(pc, a) /\ t \notin Where(pc, b)
  BY DEF Where
<1>4. Cardinality(Where(pc, a) \ {t}) = Cardinality(Where(pc, a)) - 1
  BY <1>3, CountType, FS_RemoveElement
<1>5. Cardinality(Where(pc, b) \cup {t}) = Cardinality(Where(pc, b)) + 1
  BY <1>3, CountType, FS_AddElement
<1>. QED BY <1>1, <1>2, <1>4, <1>5 DEF Shifted

LEMMA NextNoLostWakeup == PoolInv /\ NoLostWakeup /\ [PoolNext]_poolVars => NoLostWakeup'
<1>. DEFINE Enough ==
       Len(free') <= Cardinality(Where(pc', "notify")) + Cardinality(Where(pc', "woken"))
<1>. SUFFICES ASSUME PoolInv, NoLostWakeup, [PoolNext]_poolVars, Where(pc', "waiting") # {}
              PROVE  Enough
  BY AtIsWhere DEF NoLostWakeup
<1>. DEFINE N == Cardinality(Where(pc, "notify"))
            K == Cardinality(Where(pc, "woken"))
            L == Len(free)
<1>1. /\ pc \in [Threads -> PoolPoint]
      /\ free \in Seq(Workers)
      /\ \A t \in Threads : lease[t] # Nobody <=> pc[t] = "leased"
      /\ lease \in [Threads -> Workers \cup {Nobody}]
  BY DEF PoolInv, PoolTypeOK, LeaseWhenLeased
<1>2. N \in Nat /\ K \in Nat /\ L \in Nat
  BY <1>1, CountType, LenProperties
<1>3. Where(pc, "waiting") # {} => L <= N + K
  BY AtIsWhere DEF NoLostWakeup
<1>4. Cardinality(Where(pc', "notify")) \in Nat /\ Cardinality(Where(pc', "woken")) \in Nat
  BY CountType
<1>5. ASSUME free = <<>>, UNCHANGED free
      PROVE  Enough
  BY <1>4, <1>5
<1>6. ASSUME NEW t \in Threads, Acquire(t)
      PROVE  Enough
  <2>1. /\ pc[t] = "idle" /\ pc' = [pc EXCEPT ![t] = "leased"]
        /\ free # <<>> /\ free' = SubSeq(free, 1, Len(free) - 1)
    BY <1>6 DEF Acquire, Pop
  <2>2. Len(free') = L - 1
    BY <2>1, <1>1, PopStack
  <2>3. /\ Where(pc', "notify") = Where(pc, "notify") /\ Where(pc', "woken") = Where(pc, "woken")
        /\ Where(pc', "waiting") = Where(pc, "waiting")
    <3>1. Shifted("idle", "leased")
      BY <2>1, <1>1, Moved
    <3>. QED BY <3>1 DEF Shifted, PoolPoint
  <2>. QED BY <2>2, <2>3, <1>2, <1>3
<1>7. ASSUME NEW t \in Threads, Block(t)
      PROVE  Enough
  BY <1>5, <1>7 DEF Block
<1>8. ASSUME NEW t \in Threads, SpuriousWakeup(t)
      PROVE  Enough
  <2>1. pc[t] = "waiting" /\ pc' = [pc EXCEPT ![t] = "woken"] /\ free' = free
    BY <1>8 DEF SpuriousWakeup
  <2>2. Cardinality(Where(pc', "woken")) = K + 1 /\ Where(pc', "notify") = Where(pc, "notify")
    <3>1. Shifted("waiting", "woken")
      BY <2>1, <1>1, Moved
    <3>. QED BY <3>1 DEF Shifted, PoolPoint
  <2>3. Where(pc, "waiting") # {}
    BY <2>1 DEF Where
  <2>. QED BY <2>1, <2>2, <2>3, <1>2, <1>3
<1>9. ASSUME NEW t \in Threads, Retake(t)
      PROVE  Enough
  <2>1. CASE free = <<>> /\ UNCHANGED <<free, lease>>
    BY <1>5, <2>1
  <2>2. CASE Pop(t)
    <3>1. /\ pc[t] = "woken" /\ pc' = [pc EXCEPT ![t] = "leased"]
          /\ free # <<>> /\ free' = SubSeq(free, 1, Len(free) - 1)
      BY <1>9, <2>2 DEF Retake, Pop
    <3>2. Len(free') = L - 1
      BY <3>1, <1>1, PopStack
    <3>3. /\ Cardinality(Where(pc', "woken")) = K - 1 /\ Where(pc', "notify") = Where(pc, "notify")
          /\ Where(pc', "waiting") = Where(pc, "waiting")
      <4>1. Shifted("woken", "leased")
        BY <3>1, <1>1, Moved
      <4>. QED BY <4>1 DEF Shifted, PoolPoint
    <3>. QED BY <3>2, <3>3, <1>2, <1>3
  <2>. QED BY <1>9, <2>1, <2>2 DEF Retake
<1>10. ASSUME NEW t \in Threads, GiveBack(t)
       PROVE  Enough
  <2>1. /\ pc[t] = "leased" /\ pc' = [pc EXCEPT ![t] = "notify"]
        /\ free' = Append(free, lease[t])
    BY <1>10 DEF GiveBack
  <2>2. lease[t] \in Workers
    BY <2>1, <1>1
  <2>3. Len(free') = L + 1
    BY <2>1, <2>2, <1>1, PushStack
  <2>4. /\ Cardinality(Where(pc', "notify")) = N + 1 /\ Where(pc', "woken") = Where(pc, "woken")
        /\ Where(pc', "waiting") = Where(pc, "waiting")
    <3>1. Shifted("leased", "notify")
      BY <2>1, <1>1, Moved
    <3>. QED BY <3>1 DEF Shifted, PoolPoint
  <2>. QED BY <2>3, <2>4, <1>2, <1>3
<1>11. ASSUME NEW t \in Threads, NotifyOne(t)
       PROVE  Enough
  <2>1. pc[t] = "notify" /\ free' = free
    BY <1>11 DEF NotifyOne
  <2>2. CASE Where(pc, "waiting") = {} /\ pc' = [pc EXCEPT ![t] = "idle"]
    <3>1. Where(pc', "waiting") = Where(pc, "waiting")
      <4>1. Shifted("notify", "idle")
        BY <2>1, <2>2, <1>1, Moved
      <4>. QED BY <4>1 DEF Shifted, PoolPoint
    <3>. QED BY <3>1, <2>2
  <2>3. ASSUME NEW u \in Where(pc, "waiting"), pc' = [pc EXCEPT ![t] = "idle", ![u] = "woken"]
        PROVE  Enough
    <3>1. u \in Threads /\ pc[u] = "waiting" /\ u # t
      BY <2>1, <2>3 DEF Where
    <3>2. Where(pc', "notify") = Where(pc, "notify") \ {t} /\ Where(pc', "woken") = Where(pc, "woken") \cup {u}
      BY <2>1, <2>3, <3>1, <1>1 DEF Where
    <3>3. t \in Where(pc, "notify") /\ u \notin Where(pc, "woken")
      BY <2>1, <3>1 DEF Where
    <3>4. Cardinality(Where(pc', "notify")) = N - 1
      BY <3>2, <3>3, CountType, FS_RemoveElement
    <3>5. Cardinality(Where(pc', "woken")) = K + 1
      BY <3>2, <3>3, CountType, FS_AddElement
    <3>6. Where(pc, "waiting") # {}
      BY <2>3
    <3>. QED BY <2>1, <3>4, <3>5, <3>6, <1>2, <1>3
  <2>. QED BY <1>11, <2>2, <2>3, AtIsWhere DEF NotifyOne
<1>12. CASE UNCHANGED poolVars
  <2>1. /\ Where(pc', "notify") = Where(pc, "notify") /\ Where(pc', "woken") = Where(pc, "woken")
        /\ Where(pc', "waiting") = Where(pc, "waiting") /\ free' = free
    BY <1>12 DEF poolVars
  <2>. QED BY <2>1, <1>2, <1>3
<1>. QED
  BY <1>6, <1>7, <1>8, <1>9, <1>10, <1>11, <1>12 DEF PoolNext

\* Whatever the number of threads and resources, no wake-up is lost: the notify_one that
\* give_back sends after its unlock is never too few.
THEOREM NoLostWakeupAlways == PoolSafetySpec => []NoLostWakeup
<1>1. PoolInit => NoLostWakeup
  BY DEF PoolInit, NoLostWakeup, At
<1>. QED BY <1>1, NextNoLostWakeup, SafetyInv, PTL DEF PoolSafetySpec

-----------------------------------------------------------------------------
(* The refinement.                                                          *)

\* Under the invariant, the owner of a resource is the thread whose lease it is in.
OwnerMatches ==
  /\ OwnerOf \in [Workers -> Threads \cup {Nobody}]
  /\ \A w \in Workers, t \in Threads : OwnerOf[w] = t <=> lease[t] = w

LEMMA OwnerIsHolder == PoolInv => OwnerMatches
<1>. SUFFICES ASSUME PoolInv PROVE OwnerMatches
  OBVIOUS
<1>1. ASSUME NEW w \in Workers
      PROVE  /\ OwnerOf[w] \in Threads \cup {Nobody}
             /\ \A t \in Threads : OwnerOf[w] = t <=> lease[t] = w
  <2>1. w # Nobody /\ \A t \in Threads : t # Nobody
    BY PoolAssumption
  <2>2. CASE Holders(w) = {}
    BY <2>1, <2>2 DEF OwnerOf, Holders
  <2>3. CASE Holders(w) # {}
    <3>1. PICK t \in Threads : lease[t] = w
      BY <2>3 DEF Holders
    <3>2. (CHOOSE u \in Threads : lease[u] = w) = t
      BY <3>1, <2>1 DEF PoolInv, LeaseDistinct
    <3>3. OwnerOf[w] = t
      BY <2>3, <3>2 DEF OwnerOf
    <3>. QED BY <3>1, <3>3, <2>1 DEF PoolInv, LeaseDistinct
  <2>. QED BY <2>2, <2>3
<1>2. OwnerOf \in [Workers -> Threads \cup {Nobody}]
  BY <1>1 DEF OwnerOf
<1>. QED BY <1>1, <1>2 DEF OwnerMatches

LEMMA OwnerIsHolderNext == PoolInv' => OwnerMatches'
BY OwnerIsHolder, PTL

LEMMA OwnerInit == PoolInit => Leasing!Init
<1>. SUFFICES ASSUME PoolInit PROVE OwnerOf = [w \in Workers |-> Nobody]
  BY DEF Leasing!Init
<1>1. \A w \in Workers : Holders(w) = {}
  BY PoolAssumption DEF PoolInit, Holders
<1>. QED BY <1>1 DEF OwnerOf

\* A step that leaves the leases alone is a stutter of the abstract lease.
LEMMA OwnerStutter == UNCHANGED lease => UNCHANGED OwnerOf
BY DEF OwnerOf, Holders

\* Leasing the top of the stack is the abstract Take.
LEMMA PopTakes ==
  ASSUME PoolInv, PoolInv', NEW t \in Threads, pc[t] # "leased", Pop(t)
  PROVE  Leasing!Next
<1>. DEFINE top == free[Len(free)]
<1>1. free \in Seq(Workers) /\ free # <<>>
  BY DEF PoolInv, PoolTypeOK, Pop
<1>2. top \in Workers /\ Len(free) \in 1..Len(free)
  BY <1>1, PopStack
<1>3. /\ lease \in [Threads -> Workers \cup {Nobody}]
      /\ lease' = [lease EXCEPT ![t] = top]
      /\ lease[t] = Nobody
      /\ \A u \in Threads : lease[u] # top
  BY <1>2 DEF PoolInv, PoolTypeOK, LeaseWhenLeased, Apart, Pop
<1>4. top # Nobody /\ \A u \in Threads : u # Nobody
  BY <1>2, PoolAssumption
<1>. HIDE DEF top
<1>5. /\ OwnerOf \in [Workers -> Threads \cup {Nobody}]
      /\ \A w \in Workers, u \in Threads : OwnerOf[w] = u <=> lease[u] = w
  BY OwnerIsHolder DEF OwnerMatches
<1>6. /\ OwnerOf' \in [Workers -> Threads \cup {Nobody}]
      /\ \A w \in Workers, u \in Threads : OwnerOf'[w] = u <=> lease'[u] = w
  BY OwnerIsHolderNext DEF OwnerMatches
<1>7. OwnerOf[top] = Nobody
  BY <1>2, <1>3, <1>5
<1>8. \A w \in Workers : OwnerOf[w] # t
  BY <1>3, <1>5, PoolAssumption
<1>9. OwnerOf' = [OwnerOf EXCEPT ![top] = t]
  <2>1. OwnerOf'[top] = t
    BY <1>2, <1>3, <1>6
  <2>2. ASSUME NEW w \in Workers, w # top PROVE OwnerOf'[w] = OwnerOf[w]
    <3>1. \A u \in Threads : lease'[u] = w <=> lease[u] = w
      BY <1>3, <2>2, PoolAssumption
    <3>. QED BY <3>1, <1>5, <1>6, <2>2
  <2>. QED BY <2>1, <2>2, <1>5, <1>6
<1>10. Leasing!Take(t, top)
  BY <1>7, <1>8, <1>9 DEF Leasing!Take
<1>. QED BY <1>2, <1>10 DEF Leasing!Next

\* Giving a lease back is the abstract Return.
LEMMA GiveBackReturns ==
  ASSUME PoolInv, PoolInv', NEW t \in Threads, GiveBack(t)
  PROVE  Leasing!Next
<1>. DEFINE v == lease[t]
<1>1. /\ lease \in [Threads -> Workers \cup {Nobody}]
      /\ lease' = [lease EXCEPT ![t] = Nobody]
      /\ v \in Workers
      /\ \A u \in Threads : lease[u] = v => u = t
  BY DEF PoolInv, PoolTypeOK, LeaseWhenLeased, LeaseDistinct, GiveBack
<1>. HIDE DEF v
<1>2. lease[t] = v
  BY DEF v
<1>3. /\ OwnerOf \in [Workers -> Threads \cup {Nobody}]
      /\ \A w \in Workers, u \in Threads : OwnerOf[w] = u <=> lease[u] = w
  BY OwnerIsHolder DEF OwnerMatches
<1>4. /\ OwnerOf' \in [Workers -> Threads \cup {Nobody}]
      /\ \A w \in Workers, u \in Threads : OwnerOf'[w] = u <=> lease'[u] = w
  BY OwnerIsHolderNext DEF OwnerMatches
<1>5. OwnerOf[v] = t
  BY <1>1, <1>2, <1>3
<1>6. OwnerOf' = [OwnerOf EXCEPT ![v] = Nobody]
  <2>1. OwnerOf'[v] = Nobody
    BY <1>1, <1>4, PoolAssumption
  <2>2. ASSUME NEW w \in Workers, w # v PROVE OwnerOf'[w] = OwnerOf[w]
    <3>1. \A u \in Threads : lease'[u] = w <=> lease[u] = w
      BY <1>1, <1>2, <2>2, PoolAssumption
    <3>. QED BY <3>1, <1>3, <1>4, <2>2
  <2>. QED BY <2>1, <2>2, <1>3, <1>4
<1>7. Leasing!Return(t, v)
  BY <1>5, <1>6 DEF Leasing!Return
<1>. QED BY <1>1, <1>7 DEF Leasing!Next

LEMMA StepRefines ==
  PoolInv /\ PoolInv' /\ [PoolNext]_poolVars => [Leasing!Next]_OwnerOf
<1>. SUFFICES ASSUME PoolInv, PoolInv', [PoolNext]_poolVars PROVE [Leasing!Next]_OwnerOf
  OBVIOUS
<1>1. CASE UNCHANGED lease
  BY <1>1, OwnerStutter
<1>2. ASSUME NEW t \in Threads, Acquire(t) PROVE [Leasing!Next]_OwnerOf
  BY <1>2, PopTakes DEF Acquire
<1>3. ASSUME NEW t \in Threads, Retake(t) PROVE [Leasing!Next]_OwnerOf
  <2>1. CASE Pop(t)
    BY <1>3, <2>1, PopTakes DEF Retake
  <2>. QED BY <1>1, <1>3, <2>1 DEF Retake
<1>4. ASSUME NEW t \in Threads, GiveBack(t) PROVE [Leasing!Next]_OwnerOf
  BY <1>4, GiveBackReturns
<1>. QED
  BY <1>1, <1>2, <1>3, <1>4 DEF PoolNext, poolVars, Block, SpuriousWakeup, NotifyOne

\* The pool implements the abstract lease, for every number of threads and resources.
THEOREM Implements == PoolSafetySpec => ImplementsLease
BY OwnerInit, StepRefines, SafetyInv, PTL
   DEF PoolSafetySpec, ImplementsLease, Leasing!Spec
=============================================================================
