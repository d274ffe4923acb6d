-------------------------- MODULE AsrDispatchProofs --------------------------
(***************************************************************************)
(* For any number of requests, backends and slices: the busy count is the  *)
(* number of jobs, the percentage is -1 when none runs, and without a pool *)
(* it is the running job's own and never goes back.                        *)
(***************************************************************************)
EXTENDS AsrDispatch, WorkerPoolProofs

-----------------------------------------------------------------------------
(* The percentage.                                                          *)

\* What integer division gives.
LEMMA DivFacts ==
  ASSUME NEW a \in Nat, NEW s \in Nat \ {0}
  PROVE  a \div s \in Nat /\ s * (a \div s) <= a /\ a < s * (a \div s) + s
OBVIOUS

LEMMA DivMonotone ==
  ASSUME NEW a \in Nat, NEW b \in Nat, NEW s \in Nat \ {0}, a <= b
  PROVE  a \div s <= b \div s
<1> DEFINE x == a \div s
           y == b \div s
<1>1. x \in Nat /\ s * x <= a
  BY DivFacts
<1>2. y \in Nat /\ b < s * y + s
  BY DivFacts
<1> HIDE DEF x, y
<1>3. s * x < s * (y + 1)
  BY <1>1, <1>2
<1>4. x < y + 1
  BY <1>1, <1>2, <1>3
<1>5. x <= y
  BY <1>1, <1>2, <1>4
<1>. QED BY <1>5 DEF x, y

\* The percentage that slice k starts with.
Percent(k) == (k * 100) \div Slices

LEMMA PercentRange ==
  ASSUME NEW k \in 0..Slices
  PROVE  Percent(k) \in 0..100
<1>1. k * 100 \in Nat /\ Slices * 100 \in Nat /\ k * 100 <= Slices * 100
  BY SlicesAssumption
<1>2. (Slices * 100) \div Slices = 100
  BY SlicesAssumption
<1>3. (k * 100) \div Slices <= (Slices * 100) \div Slices
  BY <1>1, SlicesAssumption, DivMonotone
<1>4. (k * 100) \div Slices \in Nat
  BY <1>1, SlicesAssumption, DivFacts
<1>. QED BY <1>2, <1>3, <1>4 DEF Percent

LEMMA PercentRises ==
  ASSUME NEW k \in 1..Slices
  PROVE  Percent(k - 1) <= Percent(k)
<1>1. (k - 1) * 100 \in Nat /\ k * 100 \in Nat /\ (k - 1) * 100 <= k * 100
  BY SlicesAssumption
<1>. QED BY <1>1, SlicesAssumption, DivMonotone DEF Percent

LEMMA PercentZero == Percent(0) = 0
BY SlicesAssumption DEF Percent

-----------------------------------------------------------------------------
(* The inductive invariant.                                                 *)

JobTypes ==
  /\ pooled \in BOOLEAN
  /\ mutex \in Threads \cup {Nobody}
  /\ stage \in [Threads -> Stage]
  /\ slice \in [Threads -> 0..Slices]
  /\ last \in [Threads -> BOOLEAN]
  /\ progress \in {Idle} \cup 0..100

\* A percentage is there only while a job that is counted runs, or while the one that counted
\* down to 0 has still to clear it.
Shown ==
  progress # Idle => Counted # {} \/ \E t \in Threads : stage[t] = "uncounted" /\ last[t]

\* Without a pool, one request at a time is past the mutex; the slot is its own, and reads -1
\* before and after its loop.
Alone ==
  ~pooled =>
    \A t \in Threads :
      /\ pc[t] = "idle"
      /\ stage[t] # "none" => mutex = t
      /\ stage[t] = "uncounted" => last[t]
      /\ stage[t] \in {"started", "counted", "finished"} => progress = Idle

\* A request that waits for a backend, or wakes the next one, has no job.
Waits == \A t \in Threads : pc[t] \in {"waiting", "woken", "notify"} => stage[t] = "none"

DispatchInv == PoolInv /\ JobTypes /\ Waits /\ BusyHonest /\ Shown /\ Alone /\ SerialProgress

\* The actions, apart from those that only move the pool's variables.
PoolStep(t) ==
  \/ LeaseFree(t) \/ WaitForWorker(t) \/ LeaseWoken(t) \/ EndLease(t) \/ WakeWaiter(t)

-----------------------------------------------------------------------------
LEMMA InitDispatch == Init => DispatchInv
<1> SUFFICES ASSUME Init PROVE DispatchInv
  OBVIOUS
<1>1. PoolInv
  BY InitInv DEF Init
<1>2. JobTypes
  BY SlicesAssumption DEF Init, JobTypes, Stage, Idle
<1>3. Counted = {}
  BY DEF Init, Counted
<1>4. BusyHonest
  BY <1>3, FS_EmptySet DEF Init, BusyHonest
<1>5. Waits /\ Shown /\ Alone /\ SerialProgress
  BY DEF Init, PoolInit, Shown, Alone, SerialProgress, Waits
<1>. QED BY <1>1, <1>2, <1>4, <1>5 DEF DispatchInv

\* A step of a request is one of the pool, or leaves it alone.
LEMMA DispatchSteps == [Next]_vars => [PoolNext]_poolVars
<1> SUFFICES ASSUME [Next]_vars PROVE PoolNext \/ UNCHANGED poolVars
  OBVIOUS
<1>1. CASE UNCHANGED vars
  BY <1>1 DEF vars, poolVars
<1>2. CASE Next
  <2> PICK t \in Threads :
        \/ LeaseFree(t) \/ WaitForWorker(t) \/ LeaseWoken(t) \/ LockPrimary(t) \/ NotCounted(t)
        \/ Count(t) \/ Zero(t) \/ StartSlice(t) \/ Post(t) \/ Uncount(t) \/ Clear(t)
        \/ UnlockPrimary(t) \/ EndLease(t) \/ WakeWaiter(t)
    BY <1>2 DEF Next
  <2>1. CASE PoolStep(t)
    <3>1. Acquire(t) \/ Block(t) \/ SpuriousWakeup(t) \/ Retake(t) \/ GiveBack(t) \/ NotifyOne(t)
      BY <2>1 DEF PoolStep, LeaseFree, WaitForWorker, LeaseWoken, EndLease, WakeWaiter
    <3>. QED BY <3>1 DEF PoolNext
  <2>2. CASE \/ LockPrimary(t) \/ NotCounted(t) \/ Count(t) \/ Zero(t) \/ StartSlice(t) \/ Post(t)
             \/ Uncount(t) \/ Clear(t) \/ UnlockPrimary(t)
    BY <2>2 DEF LockPrimary, NotCounted, Count, Zero, StartSlice, Post, Uncount, Clear, UnlockPrimary
  <2>. QED BY <2>1, <2>2 DEF PoolStep
<1>. QED BY <1>1, <1>2

LEMMA JobTypesStep == JobTypes /\ [Next]_vars => JobTypes'
<1> SUFFICES ASSUME JobTypes, [Next]_vars PROVE JobTypes'
  OBVIOUS
<1> USE DEF JobTypes, Stage, Go, jobVars
<1>1. CASE UNCHANGED vars
  BY <1>1 DEF vars
<1>2. CASE Next
  <2> PICK t \in Threads :
        \/ LeaseFree(t) \/ WaitForWorker(t) \/ LeaseWoken(t) \/ LockPrimary(t) \/ NotCounted(t)
        \/ Count(t) \/ Zero(t) \/ StartSlice(t) \/ Post(t) \/ Uncount(t) \/ Clear(t)
        \/ UnlockPrimary(t) \/ EndLease(t) \/ WakeWaiter(t)
    BY <1>2 DEF Next
  <2>1. CASE LeaseFree(t) BY <2>1 DEF LeaseFree
  <2>2. CASE WaitForWorker(t) BY <2>2 DEF WaitForWorker
  <2>3. CASE LeaseWoken(t) BY <2>3 DEF LeaseWoken
  <2>4. CASE LockPrimary(t) BY <2>4 DEF LockPrimary
  <2>5. CASE NotCounted(t) BY <2>5 DEF NotCounted
  <2>6. CASE Count(t) BY <2>6 DEF Count
  <2>7. CASE Zero(t) BY <2>7, SlicesAssumption DEF Zero
  <2>8. CASE StartSlice(t)
    <3>1. slice[t] \in 0..Slices /\ slice[t] + 1 \in 0..Slices
      BY <2>8, SlicesAssumption DEF StartSlice
    <3>2. progress' \in 0..100
      BY <2>8, <3>1, PercentRange DEF StartSlice, Percent
    <3>. QED BY <2>8, <3>1, <3>2 DEF StartSlice
  <2>9. CASE Post(t) BY <2>9 DEF Post
  <2>10. CASE Uncount(t)
    <3>1. (active = 1) \in BOOLEAN /\ 0 \in 0..Slices
      BY SlicesAssumption
    <3>2. stage' \in [Threads -> Stage] /\ slice' \in [Threads -> 0..Slices]
      BY <2>10, <3>1 DEF Uncount
    <3>3. last' \in [Threads -> BOOLEAN]
      BY <2>10, <3>1 DEF Uncount
    <3>. QED BY <2>10, <3>2, <3>3 DEF Uncount
  <2>11. CASE Clear(t) BY <2>11 DEF Clear
  <2>12. CASE UnlockPrimary(t) BY <2>12 DEF UnlockPrimary
  <2>13. CASE EndLease(t) BY <2>13 DEF EndLease
  <2>14. CASE WakeWaiter(t) BY <2>14 DEF WakeWaiter
  <2>. QED BY <2>1, <2>2, <2>3, <2>4, <2>5, <2>6, <2>7, <2>8, <2>9, <2>10, <2>11, <2>12, <2>13, <2>14
<1>. QED BY <1>1, <1>2

LEMMA WaitsStep == JobTypes /\ PoolTypeOK /\ Waits /\ [Next]_vars => Waits'
<1> SUFFICES ASSUME JobTypes, PoolTypeOK, Waits, [Next]_vars PROVE Waits'
  OBVIOUS
<1>0. pc \in [Threads -> PoolPoint] /\ stage \in [Threads -> Stage]
  BY DEF JobTypes, PoolTypeOK
<1> USE <1>0 DEF Waits, Go, jobVars, poolVars
<1>1. CASE UNCHANGED vars
  BY <1>1 DEF vars
<1>2. CASE Next
  <2> PICK t \in Threads :
        \/ LeaseFree(t) \/ WaitForWorker(t) \/ LeaseWoken(t) \/ LockPrimary(t) \/ NotCounted(t)
        \/ Count(t) \/ Zero(t) \/ StartSlice(t) \/ Post(t) \/ Uncount(t) \/ Clear(t)
        \/ UnlockPrimary(t) \/ EndLease(t) \/ WakeWaiter(t)
    BY <1>2 DEF Next
  <2>1. CASE LeaseFree(t)
    BY <2>1 DEF LeaseFree, Acquire, Pop
  <2>2. CASE WaitForWorker(t)
    BY <2>2 DEF WaitForWorker, Block, SpuriousWakeup
  <2>3. CASE LeaseWoken(t)
    <3>1. \/ pc' = [pc EXCEPT ![t] = "leased"]
          \/ pc' = [pc EXCEPT ![t] = "waiting"]
      BY <2>3 DEF LeaseWoken, Retake, Pop
    <3>2. stage' = [stage EXCEPT ![t] = IF pc'[t] = "leased" THEN "started" ELSE "none"]
      BY <2>3 DEF LeaseWoken
    <3>. QED BY <3>1, <3>2
  <2>4. CASE EndLease(t)
    BY <2>4 DEF EndLease, GiveBack
  <2>5. CASE WakeWaiter(t)
    <3>1. /\ pc[t] = "notify" /\ UNCHANGED stage
          /\ \/ pc' = [pc EXCEPT ![t] = "idle"]
             \/ \E u \in Threads : pc[u] = "waiting" /\ pc' = [pc EXCEPT ![t] = "idle", ![u] = "woken"]
      BY <2>5 DEF WakeWaiter, NotifyOne, At
    <3>. QED BY <3>1
  <2>6. CASE LockPrimary(t)
    BY <2>6 DEF LockPrimary
  <2>7. CASE \/ NotCounted(t) \/ Count(t) \/ Zero(t) \/ StartSlice(t) \/ Post(t)
             \/ Uncount(t) \/ Clear(t) \/ UnlockPrimary(t)
    <3>1. stage[t] # "none" \/ UNCHANGED stage
      BY <2>7 DEF NotCounted, Count, Zero, StartSlice, Post, Uncount, Clear, UnlockPrimary
    <3>2. UNCHANGED pc /\ \A u \in Threads \ {t} : stage'[u] = stage[u]
      BY <2>7 DEF NotCounted, Count, Zero, StartSlice, Post, Uncount, Clear, UnlockPrimary
    <3>. QED BY <3>1, <3>2
  <2>. QED BY <2>1, <2>2, <2>3, <2>4, <2>5, <2>6, <2>7
<1>. QED BY <1>1, <1>2

-----------------------------------------------------------------------------
(* The busy count.                                                          *)

LEMMA CountedFinite ==
  IsFiniteSet(Counted) /\ Cardinality(Counted) \in Nat /\ Cardinality(Counted) <= Cardinality(Threads)
<1>1. Counted \in SUBSET Threads
  BY DEF Counted
<1>. QED BY <1>1, PoolAssumption, FS_Subset, FS_CardinalityType

\* What a step does to the set of counted jobs: nothing, ...
CountKept == UNCHANGED <<Counted, active>>

\* ... a job is counted, ...
CountUp(t) == t \notin Counted /\ Counted' = Counted \cup {t} /\ active' = active + 1

\* ... or one is uncounted, and knows whether it was the last.
CountDown(t) ==
  /\ t \in Counted /\ Counted' = Counted \ {t} /\ active' = active - 1
  /\ stage'[t] = "uncounted" /\ last'[t] = (active = 1) /\ UNCHANGED progress

LEMMA CountedStep ==
  ASSUME JobTypes, Waits, [Next]_vars
  PROVE  CountKept \/ \E t \in Threads : CountUp(t) \/ CountDown(t)
<1>0. stage \in [Threads -> Stage] /\ last \in [Threads -> BOOLEAN]
  BY DEF JobTypes
<1> USE <1>0 DEF Stage, Go, jobVars, Counted
<1>1. CASE UNCHANGED vars
  BY <1>1 DEF vars, CountKept
<1>2. CASE Next
  <2> PICK t \in Threads :
        \/ LeaseFree(t) \/ WaitForWorker(t) \/ LeaseWoken(t) \/ LockPrimary(t) \/ NotCounted(t)
        \/ Count(t) \/ Zero(t) \/ StartSlice(t) \/ Post(t) \/ Uncount(t) \/ Clear(t)
        \/ UnlockPrimary(t) \/ EndLease(t) \/ WakeWaiter(t)
    BY <1>2 DEF Next
  <2>1. CASE LeaseFree(t)
    BY <2>1 DEF LeaseFree, CountKept
  <2>2. CASE WaitForWorker(t)
    BY <2>2 DEF WaitForWorker, CountKept
  <2>3. CASE LeaseWoken(t)
    <3>1. stage[t] = "none"
      BY <2>3 DEF LeaseWoken, Retake, Waits
    <3>2. \E x \in {"none", "started"} : stage' = [stage EXCEPT ![t] = x]
      BY <2>3 DEF LeaseWoken
    <3>3. UNCHANGED active
      BY <2>3 DEF LeaseWoken
    <3>. QED BY <3>1, <3>2, <3>3 DEF CountKept
  <2>4. CASE LockPrimary(t)
    BY <2>4 DEF LockPrimary, CountKept
  <2>5. CASE NotCounted(t)
    BY <2>5 DEF NotCounted, CountKept
  <2>6. CASE Count(t)
    BY <2>6 DEF Count, CountUp
  <2>7. CASE Zero(t)
    BY <2>7 DEF Zero, CountKept
  <2>8. CASE StartSlice(t)
    BY <2>8 DEF StartSlice, CountKept
  <2>9. CASE Post(t)
    BY <2>9 DEF Post, CountKept
  <2>10. CASE Uncount(t)
    BY <2>10 DEF Uncount, CountDown
  <2>11. CASE Clear(t)
    BY <2>11 DEF Clear, CountKept
  <2>12. CASE UnlockPrimary(t)
    BY <2>12 DEF UnlockPrimary, CountKept
  <2>13. CASE EndLease(t)
    BY <2>13 DEF EndLease, CountKept
  <2>14. CASE WakeWaiter(t)
    BY <2>14 DEF WakeWaiter, CountKept
  <2>. QED BY <2>1, <2>2, <2>3, <2>4, <2>5, <2>6, <2>7, <2>8, <2>9, <2>10, <2>11, <2>12, <2>13, <2>14
<1>. QED BY <1>1, <1>2

LEMMA BusyStep == ASSUME DispatchInv, [Next]_vars PROVE BusyHonest'
<1>1. active = Cardinality(Counted) /\ Cardinality(Counted) \in Nat /\ IsFiniteSet(Counted)
  BY CountedFinite DEF DispatchInv, BusyHonest
<1>2. CASE CountKept
  BY <1>1, <1>2 DEF CountKept, BusyHonest
<1>3. CASE \E t \in Threads : CountUp(t)
  <2> PICK t \in Threads : CountUp(t)
    BY <1>3
  <2>1. Cardinality(Counted \cup {t}) = Cardinality(Counted) + 1
    BY <1>1, FS_AddElement DEF CountUp
  <2>. QED BY <1>1, <2>1 DEF CountUp, BusyHonest
<1>4. CASE \E t \in Threads : CountDown(t)
  <2> PICK t \in Threads : CountDown(t)
    BY <1>4
  <2>1. Cardinality(Counted \ {t}) = Cardinality(Counted) - 1
    BY <1>1, FS_RemoveElement DEF CountDown
  <2>. QED BY <1>1, <2>1 DEF CountDown, BusyHonest
<1>. QED BY <1>2, <1>3, <1>4, CountedStep DEF DispatchInv

\* A job that counts down while others are counted leaves the percentage to them.
LEMMA LastOne ==
  ASSUME DispatchInv, NEW t \in Counted, Counted \ {t} = {}
  PROVE  active = 1
<1>1. Counted = {t}
  OBVIOUS
<1>. QED BY <1>1, FS_Singleton DEF DispatchInv, BusyHonest

LEMMA ShownStep == ASSUME DispatchInv, [Next]_vars PROVE Shown'
<1>0. /\ stage \in [Threads -> Stage] /\ last \in [Threads -> BOOLEAN]
      /\ Shown /\ Waits
  BY DEF DispatchInv, JobTypes
<1> USE <1>0 DEF Stage, Go, jobVars, Counted, Shown
<1>1. CASE UNCHANGED vars
  BY <1>1 DEF vars
<1>2. CASE Next
  <2> PICK t \in Threads :
        \/ LeaseFree(t) \/ WaitForWorker(t) \/ LeaseWoken(t) \/ LockPrimary(t) \/ NotCounted(t)
        \/ Count(t) \/ Zero(t) \/ StartSlice(t) \/ Post(t) \/ Uncount(t) \/ Clear(t)
        \/ UnlockPrimary(t) \/ EndLease(t) \/ WakeWaiter(t)
    BY <1>2 DEF Next
  <2>1. CASE LeaseFree(t)
    BY <2>1 DEF LeaseFree
  <2>2. CASE WaitForWorker(t)
    BY <2>2 DEF WaitForWorker
  <2>3. CASE LeaseWoken(t)
    <3>1. stage[t] = "none"
      BY <2>3 DEF LeaseWoken, Retake, Waits
    <3>2. \E x \in {"none", "started"} : stage' = [stage EXCEPT ![t] = x]
      BY <2>3 DEF LeaseWoken
    <3>3. UNCHANGED <<progress, last>>
      BY <2>3 DEF LeaseWoken
    <3>. QED BY <3>1, <3>2, <3>3
  <2>4. CASE LockPrimary(t)
    BY <2>4 DEF LockPrimary
  <2>5. CASE NotCounted(t)
    BY <2>5 DEF NotCounted
  <2>6. CASE Count(t)
    BY <2>6 DEF Count
  <2>7. CASE Zero(t)
    BY <2>7 DEF Zero
  <2>8. CASE StartSlice(t)
    BY <2>8 DEF StartSlice
  <2>9. CASE Post(t)
    BY <2>9 DEF Post
  <2>10. CASE Uncount(t)
    <3>1. /\ t \in Counted /\ stage' = [stage EXCEPT ![t] = "uncounted"]
          /\ last' = [last EXCEPT ![t] = active = 1] /\ UNCHANGED progress
      BY <2>10 DEF Uncount
    <3>2. CASE Counted \ {t} = {}
      <4>1. last'[t] = TRUE
        BY <3>1, <3>2, LastOne
      <4>. QED BY <3>1, <4>1
    <3>3. CASE Counted \ {t} # {}
      <4>1. PICK u \in Counted : u # t
        BY <3>3
      <4>2. u \in Counted'
        BY <3>1, <4>1
      <4>. QED BY <4>2
    <3>. QED BY <3>2, <3>3
  <2>11. CASE Clear(t)
    BY <2>11 DEF Clear
  <2>12. CASE UnlockPrimary(t)
    BY <2>12 DEF UnlockPrimary
  <2>13. CASE EndLease(t)
    BY <2>13 DEF EndLease
  <2>14. CASE WakeWaiter(t)
    BY <2>14 DEF WakeWaiter
  <2>. QED BY <2>1, <2>2, <2>3, <2>4, <2>5, <2>6, <2>7, <2>8, <2>9, <2>10, <2>11, <2>12, <2>13, <2>14
<1>. QED BY <1>1, <1>2

-----------------------------------------------------------------------------
(* A server without a pool.                                                 *)

\* What a request without a pool does.
SerialStep(t) ==
  \/ LockPrimary(t) \/ Count(t) \/ Zero(t) \/ StartSlice(t) \/ Post(t)
  \/ Uncount(t) \/ Clear(t) \/ UnlockPrimary(t)

LEMMA SerialSteps ==
  ASSUME DispatchInv, Next, ~pooled
  PROVE  \E t \in Threads : SerialStep(t)
<1>1. \A t \in Threads : pc[t] = "idle"
  BY DEF DispatchInv, Alone
<1>2. PICK t \in Threads :
        \/ LeaseFree(t) \/ WaitForWorker(t) \/ LeaseWoken(t) \/ LockPrimary(t) \/ NotCounted(t)
        \/ Count(t) \/ Zero(t) \/ StartSlice(t) \/ Post(t) \/ Uncount(t) \/ Clear(t)
        \/ UnlockPrimary(t) \/ EndLease(t) \/ WakeWaiter(t)
  BY DEF Next
<1>3. ~LeaseFree(t) /\ ~WaitForWorker(t)
  BY DEF LeaseFree, WaitForWorker
<1>4. ~LeaseWoken(t) /\ ~NotCounted(t) /\ ~EndLease(t) /\ ~WakeWaiter(t)
  BY <1>1 DEF LeaseWoken, Retake, NotCounted, EndLease, GiveBack, WakeWaiter, NotifyOne
<1>. QED BY <1>2, <1>3, <1>4 DEF SerialStep

\* While one request is past the mutex, the others are not.
LEMMA OthersWait ==
  ASSUME DispatchInv, ~pooled, NEW t \in Threads, stage[t] # "none"
  PROVE  mutex = t /\ \A u \in Threads \ {t} : stage[u] = "none"
BY DEF DispatchInv, Alone

\* While the mutex is free, nobody is, and the slot reads -1.
LEMMA MutexFree ==
  ASSUME DispatchInv, ~pooled, mutex = Nobody
  PROVE  progress = Idle /\ \A u \in Threads : stage[u] = "none"
<1>1. \A u \in Threads : stage[u] = "none"
  BY PoolAssumption DEF DispatchInv, Alone
<1>. QED BY <1>1 DEF DispatchInv, Shown, Counted

LEMMA AloneStep == ASSUME DispatchInv, [Next]_vars PROVE Alone'
<1>0. /\ stage \in [Threads -> Stage] /\ last \in [Threads -> BOOLEAN]
      /\ Alone
  BY DEF DispatchInv, JobTypes
<1>1. CASE UNCHANGED vars
  BY <1>0, <1>1 DEF vars, Alone
<1>2. CASE Next
  <2>1. pooled' = pooled
    BY <1>2 DEF Next, LeaseFree, WaitForWorker, LeaseWoken, LockPrimary, NotCounted, Count, Zero,
      StartSlice, Post, Uncount, Clear, UnlockPrimary, EndLease, WakeWaiter
  <2> SUFFICES ASSUME ~pooled PROVE Alone'
    BY <2>1 DEF Alone
  <2> PICK t \in Threads : SerialStep(t)
    BY <1>2, SerialSteps
  <2>2. \A u \in Threads : pc'[u] = "idle"
    BY <1>0 DEF SerialStep, LockPrimary, Count, Zero, StartSlice, Post, Uncount, Clear, UnlockPrimary,
      poolVars, Alone
  <2> USE <1>0, <2>2 DEF Alone, Go, Stage
  <2>3. CASE LockPrimary(t)
    <3>1. progress = Idle /\ \A u \in Threads : stage[u] = "none"
      BY <2>3, MutexFree DEF LockPrimary
    <3>. QED BY <2>3, <3>1 DEF LockPrimary
  <2>4. CASE \/ Count(t) \/ Zero(t) \/ StartSlice(t) \/ Post(t) \/ Uncount(t) \/ Clear(t) \/ UnlockPrimary(t)
    <3>1. stage[t] # "none"
      BY <2>4 DEF Count, Zero, StartSlice, Post, Uncount, Clear, UnlockPrimary
    <3>2. mutex = t /\ \A u \in Threads \ {t} : stage[u] = "none"
      BY <3>1, OthersWait
    <3> USE <3>1, <3>2
    <3>3. CASE Count(t) BY <3>3 DEF Count
    <3>4. CASE Zero(t) BY <3>4 DEF Zero
    <3>5. CASE StartSlice(t) BY <3>5 DEF StartSlice
    <3>6. CASE Post(t) BY <3>6 DEF Post
    <3>7. CASE Uncount(t)
      <4>1. t \in Counted /\ Counted \ {t} = {}
        BY <3>7 DEF Uncount, Counted
      <4>2. active = 1
        BY <4>1, LastOne
      <4>. QED BY <3>7, <4>2 DEF Uncount
    <3>8. CASE Clear(t) BY <3>8 DEF Clear
    <3>9. CASE UnlockPrimary(t) BY <3>9 DEF UnlockPrimary
    <3>. QED BY <2>4, <3>3, <3>4, <3>5, <3>6, <3>7, <3>8, <3>9
  <2>. QED BY <2>3, <2>4 DEF SerialStep
<1>. QED BY <1>1, <1>2

LEMMA SerialProgressStep == ASSUME DispatchInv, [Next]_vars PROVE SerialProgress'
<1>0. /\ stage \in [Threads -> Stage] /\ slice \in [Threads -> 0..Slices]
      /\ SerialProgress
  BY DEF DispatchInv, JobTypes
<1>1. CASE UNCHANGED vars
  BY <1>0, <1>1 DEF vars, SerialProgress
<1>2. CASE Next
  <2>1. pooled' = pooled
    BY <1>2 DEF Next, LeaseFree, WaitForWorker, LeaseWoken, LockPrimary, NotCounted, Count, Zero,
      StartSlice, Post, Uncount, Clear, UnlockPrimary, EndLease, WakeWaiter
  <2> SUFFICES ASSUME ~pooled PROVE SerialProgress'
    BY <2>1 DEF SerialProgress
  <2> PICK t \in Threads : SerialStep(t)
    BY <1>2, SerialSteps
  <2>2. \A u \in Threads \ {t} : stage[u] = "none"
    <3>1. CASE LockPrimary(t)
      BY <3>1, MutexFree DEF LockPrimary
    <3>2. CASE stage[t] # "none"
      BY <3>2, OthersWait
    <3>. QED BY <3>1, <3>2 DEF SerialStep, Count, Zero, StartSlice, Post, Uncount, Clear, UnlockPrimary, Go
  <2>3. \A u \in Threads \ {t} : stage'[u] = "none"
    BY <1>0, <2>2 DEF SerialStep, LockPrimary, Count, Zero, StartSlice, Post, Uncount, Clear,
      UnlockPrimary, Go
  <2> SUFFICES /\ stage'[t] = "running" =>
                    progress' = IF slice'[t] = 0 THEN 0 ELSE ((slice'[t] - 1) * 100) \div Slices
               /\ stage'[t] = "posting" => progress' = 100
    BY <2>3 DEF SerialProgress
  <2>4. CASE LockPrimary(t) \/ Count(t) \/ Uncount(t) \/ Clear(t) \/ UnlockPrimary(t)
    BY <1>0, <2>4 DEF LockPrimary, Count, Uncount, Clear, UnlockPrimary, Go
  <2>5. CASE Zero(t)
    BY <1>0, <2>5 DEF Zero, Go
  <2>6. CASE StartSlice(t)
    <3>1. slice'[t] = slice[t] + 1 /\ slice[t] \in Nat /\ stage'[t] = "running"
      BY <1>0, <2>6 DEF StartSlice
    <3>2. slice'[t] # 0 /\ slice'[t] - 1 = slice[t]
      BY <3>1
    <3>. QED BY <2>6, <3>1, <3>2 DEF StartSlice
  <2>7. CASE Post(t)
    BY <1>0, <2>7 DEF Post, Go
  <2>. QED BY <2>4, <2>5, <2>6, <2>7 DEF SerialStep
<1>. QED BY <1>1, <1>2

LEMMA DispatchNext == DispatchInv /\ [Next]_vars => DispatchInv'
<1> SUFFICES ASSUME DispatchInv, [Next]_vars PROVE DispatchInv'
  OBVIOUS
<1>1. PoolInv'
  BY DispatchSteps, NextInv DEF DispatchInv
<1>2. JobTypes' /\ Waits'
  BY JobTypesStep, WaitsStep DEF DispatchInv, PoolInv
<1>. QED BY <1>1, <1>2, BusyStep, ShownStep, AloneStep, SerialProgressStep DEF DispatchInv

LEMMA DispatchInvariance == SafetySpec => []DispatchInv
BY InitDispatch, DispatchNext, PTL DEF SafetySpec

-----------------------------------------------------------------------------
(* The results.                                                             *)

\* The variables keep their types: the slot is a percentage or -1, and the count is never
\* negative nor more than the requests there are.
THEOREM DispatchTyping == SafetySpec => []DispatchTypeOK
<1>1. DispatchInv => DispatchTypeOK
  BY CountedFinite, PoolAssumption, FS_CardinalityType
    DEF DispatchInv, PoolInv, JobTypes, BusyHonest, DispatchTypeOK
<1>. QED BY <1>1, DispatchInvariance, PTL

\* The busy count is the number of jobs in flight, pooled or not, and whatever way a job ends.
THEOREM BusyHonestAlways == SafetySpec => []BusyHonest
BY DispatchInvariance, PTL DEF DispatchInv

\* When nothing runs, the percentage is -1: of jobs that end side by side, the one whose
\* fetch_sub came last clears it, and no store of another can follow.
THEOREM IdleSettlesAlways == SafetySpec => []IdleSettles
<1>1. DispatchInv => IdleSettles
  BY DEF DispatchInv, Shown, Counted, IdleSettles
<1>. QED BY <1>1, DispatchInvariance, PTL

\* Without a pool the slot is the running job's own.
THEOREM SerialProgressAlways == SafetySpec => []SerialProgress
BY DispatchInvariance, PTL DEF DispatchInv

\* Without a pool the percentage never goes back during a job.
THEOREM SerialMonotoneAlways == SafetySpec => SerialMonotone
<1>1. ASSUME DispatchInv, [Next]_vars, ~pooled, progress' < progress
      PROVE  progress' = Idle /\ active' = 0
  <2>0. /\ stage \in [Threads -> Stage] /\ slice \in [Threads -> 0..Slices]
        /\ progress \in {Idle} \cup 0..100
    BY <1>1 DEF DispatchInv, JobTypes
  <2>1. progress' # progress
    BY <1>1, <2>0 DEF Idle
  <2>2. PICK t \in Threads : SerialStep(t)
    BY <1>1, <2>1, SerialSteps DEF vars
  <2>3. CASE Zero(t)
    <3>1. progress = Idle /\ progress' = 0
      BY <1>1, <2>3 DEF Zero, Go, DispatchInv, Alone
    <3>. QED BY <1>1, <3>1 DEF Idle
  <2>4. CASE StartSlice(t)
    <3>1. slice[t] \in 0..Slices /\ slice[t] < Slices /\ progress' = Percent(slice[t])
      BY <2>0, <2>4 DEF StartSlice, Percent
    <3>2. progress = IF slice[t] = 0 THEN 0 ELSE Percent(slice[t] - 1)
      BY <1>1, <2>4 DEF StartSlice, DispatchInv, SerialProgress, Percent
    <3>3. progress' \in 0..100
      BY <3>1, PercentRange
    <3>4. CASE slice[t] = 0
      BY <1>1, <3>2, <3>3, <3>4
    <3>5. CASE slice[t] # 0
      <4>1. slice[t] \in 1..Slices
        BY <3>1, <3>5, SlicesAssumption
      <4>2. Percent(slice[t] - 1) <= Percent(slice[t])
        BY <4>1, PercentRises
      <4>3. progress <= progress'
        BY <3>1, <3>2, <3>5, <4>2
      <4>. QED BY <1>1, <2>0, <3>3, <4>3 DEF Idle
    <3>. QED BY <3>4, <3>5
  <2>5. CASE Post(t)
    <3>1. progress' = 100
      BY <2>5 DEF Post
    <3>. QED BY <1>1, <2>0, <3>1 DEF Idle
  <2>6. CASE Clear(t)
    <3>1. stage[t] = "uncounted" /\ progress' = Idle /\ active' = active
      BY <2>1, <2>6 DEF Clear, Go
    <3>2. Counted = {}
      BY <1>1, <3>1, OthersWait DEF Counted
    <3>3. active = 0
      BY <1>1, <3>2, FS_EmptySet DEF DispatchInv, BusyHonest
    <3>. QED BY <3>1, <3>3
  <2>7. CASE LockPrimary(t) \/ Count(t) \/ Uncount(t) \/ UnlockPrimary(t)
    BY <2>1, <2>7 DEF LockPrimary, Count, Uncount, UnlockPrimary
  <2>. QED BY <2>2, <2>3, <2>4, <2>5, <2>6, <2>7 DEF SerialStep
<1>2. DispatchInv /\ [Next]_vars => [~pooled /\ progress' < progress => progress' = Idle /\ active' = 0]_vars
  BY <1>1
<1>. QED BY <1>2, DispatchInvariance, PTL DEF SafetySpec, SerialMonotone

-----------------------------------------------------------------------------
(* The pool inside the server.                                              *)

\* The server uses the pool as any program may: it implements the pool's specification, so
\* that all that is proved of the pool holds of the server.
THEOREM DispatchUsesPool == SafetySpec => PoolSafetySpec
BY DispatchSteps, PTL DEF SafetySpec, Init, PoolSafetySpec

\* In the server, too, no backend is shared or lost and no wake-up is lost.
THEOREM DispatchKeepsPool == SafetySpec => [](Conserved /\ NoLostWakeup)
BY DispatchUsesPool, ConservedAlways, NoLostWakeupAlways, PTL

-----------------------------------------------------------------------------
(* One backend for each job.                                                *)

\* model_mutex is held exactly by the job that runs without a lease.
MutexMeans == \A t \in Threads : mutex = t <=> stage[t] # "none" /\ pc[t] # "leased"

\* A lease is held only for a job.
LeaseMeans == \A t \in Threads : pc[t] = "leased" => stage[t] # "none"

Held == MutexMeans /\ LeaseMeans

LEMMA InitHeld == Init => Held
<1> SUFFICES ASSUME Init PROVE Held
  OBVIOUS
<1>1. \A t \in Threads : stage[t] = "none" /\ pc[t] = "idle" /\ mutex # t
  BY PoolAssumption DEF Init, PoolInit
<1>. QED BY <1>1 DEF Held, MutexMeans, LeaseMeans

LEMMA HeldStep == ASSUME DispatchInv, Held, [Next]_vars PROVE Held'
<1>0. /\ pc \in [Threads -> PoolPoint] /\ stage \in [Threads -> Stage]
      /\ Waits /\ MutexMeans /\ LeaseMeans /\ \A t \in Threads : t # Nobody
  BY PoolAssumption DEF DispatchInv, PoolInv, PoolTypeOK, JobTypes, Held
<1> USE <1>0 DEF Held, MutexMeans, LeaseMeans, Go, jobVars, poolVars
<1>1. CASE UNCHANGED vars
  BY <1>1 DEF vars
<1>2. CASE Next
  <2> PICK t \in Threads :
        \/ LeaseFree(t) \/ WaitForWorker(t) \/ LeaseWoken(t) \/ LockPrimary(t) \/ NotCounted(t)
        \/ Count(t) \/ Zero(t) \/ StartSlice(t) \/ Post(t) \/ Uncount(t) \/ Clear(t)
        \/ UnlockPrimary(t) \/ EndLease(t) \/ WakeWaiter(t)
    BY <1>2 DEF Next
  <2>1. CASE LeaseFree(t)
    BY <2>1 DEF LeaseFree, Acquire, Pop
  <2>2. CASE WaitForWorker(t)
    BY <2>2 DEF WaitForWorker, Block, SpuriousWakeup
  <2>3. CASE LeaseWoken(t)
    <3>1. pc[t] = "woken" /\ stage[t] = "none" /\ UNCHANGED mutex
      BY <2>3 DEF LeaseWoken, Retake, Waits
    <3>2. \/ pc' = [pc EXCEPT ![t] = "leased"]
          \/ pc' = [pc EXCEPT ![t] = "waiting"]
      BY <2>3 DEF LeaseWoken, Retake, Pop
    <3>3. stage' = [stage EXCEPT ![t] = IF pc'[t] = "leased" THEN "started" ELSE "none"]
      BY <2>3 DEF LeaseWoken
    <3>. QED BY <3>1, <3>2, <3>3
  <2>4. CASE LockPrimary(t)
    BY <2>4 DEF LockPrimary
  <2>5. CASE \/ NotCounted(t) \/ Count(t) \/ Zero(t) \/ StartSlice(t) \/ Post(t)
             \/ Uncount(t) \/ Clear(t)
    <3>1. UNCHANGED <<pc, mutex>>
      BY <2>5 DEF NotCounted, Count, Zero, StartSlice, Post, Uncount, Clear
    <3>2. \A u \in Threads : stage'[u] = "none" <=> stage[u] = "none"
      BY <2>5 DEF NotCounted, Count, Zero, StartSlice, Post, Uncount, Clear
    <3>. QED BY <3>1, <3>2
  <2>6. CASE UnlockPrimary(t)
    BY <2>6 DEF UnlockPrimary
  <2>7. CASE EndLease(t)
    BY <2>7 DEF EndLease, GiveBack
  <2>8. CASE WakeWaiter(t)
    <3>1. /\ pc[t] = "notify" /\ UNCHANGED <<stage, mutex>>
          /\ \/ pc' = [pc EXCEPT ![t] = "idle"]
             \/ \E u \in Threads : pc[u] = "waiting" /\ pc' = [pc EXCEPT ![t] = "idle", ![u] = "woken"]
      BY <2>8 DEF WakeWaiter, NotifyOne, At
    <3>2. \A u \in Threads : pc'[u] = "leased" <=> pc[u] = "leased"
      BY <3>1
    <3>. QED BY <3>1, <3>2
  <2>. QED BY <2>1, <2>2, <2>3, <2>4, <2>5, <2>6, <2>7, <2>8
<1>. QED BY <1>1, <1>2

LEMMA HeldInvariance == SafetySpec => [](DispatchInv /\ Held)
BY DispatchInvariance, InitHeld, HeldStep, PTL DEF SafetySpec

\* Two jobs never run on one backend, pooled or primary.
THEOREM OneJobPerBackendAlways == SafetySpec => []OneJobPerBackend
<1>1. ASSUME DispatchInv, Held, NEW t \in Threads, NEW u \in Threads,
             stage[t] # "none", stage[u] # "none", lease[t] = lease[u]
      PROVE  t = u
  <2>1. CASE lease[t] = Nobody
    BY <1>1, <2>1 DEF DispatchInv, PoolInv, LeaseWhenLeased, Held, MutexMeans
  <2>2. CASE lease[t] # Nobody
    BY <1>1, <2>2 DEF DispatchInv, PoolInv, LeaseDistinct
  <2>. QED BY <2>1, <2>2
<1>2. DispatchInv /\ Held => OneJobPerBackend
  BY <1>1 DEF OneJobPerBackend
<1>. QED BY <1>2, HeldInvariance, PTL

-----------------------------------------------------------------------------
(* The refinement.                                                          *)

\* Whom a pooled backend serves, and whom the primary.
LEMMA ServedByWhom ==
  /\ ServedBy[Nobody] = mutex
  /\ \A w \in Workers : w # Nobody /\ ServedBy[w] = OwnerOf[w]
  /\ DOMAIN ServedBy = Backends
BY PoolAssumption DEF ServedBy, Backends

LEMMA ServedByWhomNext ==
  /\ ServedBy'[Nobody] = mutex'
  /\ \A w \in Workers : w # Nobody /\ ServedBy'[w] = OwnerOf'[w]
  /\ DOMAIN ServedBy' = Backends
BY PoolAssumption DEF ServedBy, Backends

\* A function over the backends is known by the primary's value and the
\* workers': if one of a worker's values changes, it is an EXCEPT.
LEMMA ServedByExcept ==
  ASSUME NEW w \in Workers, NEW u,
         mutex' = mutex, DOMAIN OwnerOf = Workers,
         OwnerOf' = [OwnerOf EXCEPT ![w] = u]
  PROVE  ServedBy' = [ServedBy EXCEPT ![w] = u]
<1>1. w # Nobody /\ w \in Backends
  BY PoolAssumption DEF Backends
<1>2. OwnerOf'[w] = u /\ \A v \in Workers : v # w => OwnerOf'[v] = OwnerOf[v]
  OBVIOUS
<1>3. ASSUME NEW b \in Backends
      PROVE  ServedBy'[b] = IF b = w THEN u ELSE ServedBy[b]
  <2>1. CASE b = Nobody
    BY <1>1, <2>1, ServedByWhom, ServedByWhomNext
  <2>2. CASE b \in Workers
    BY <1>2, <2>2, ServedByWhom, ServedByWhomNext
  <2>. QED BY <2>1, <2>2 DEF Backends
<1>4. ServedBy' = [b \in Backends |-> ServedBy'[b]] /\ ServedBy = [b \in Backends |-> ServedBy[b]]
  BY DEF ServedBy
<1>5. ServedBy' = [b \in Backends |-> IF b = w THEN u ELSE ServedBy[b]]
  BY <1>3, <1>4, Zenon
<1>6. [ServedBy EXCEPT ![w] = u] = [b \in Backends |-> IF b = w THEN u ELSE ServedBy[b]]
  BY <1>4, ServedByWhom, Zenon
<1>. QED BY <1>5, <1>6

LEMMA InitServes == Init => Serving!Init
<1> SUFFICES ASSUME Init PROVE ServedBy = [b \in Backends |-> Nobody]
  BY DEF Serving!Init
<1>1. OwnerOf = [w \in Workers |-> Nobody]
  BY OwnerInit DEF Init, Leasing!Init
<1>. QED BY <1>1 DEF Init, ServedBy, Backends

\* What the pool does while model_mutex stays with its owner.
LEMMA PooledServes ==
  ASSUME DispatchInv, DispatchInv', Held, Held', [Next]_vars, UNCHANGED mutex
  PROVE  [Serving!Next]_ServedBy
<1>0. PoolInv /\ PoolInv' /\ OwnerMatches /\ OwnerMatches'
  BY OwnerIsHolder, OwnerIsHolderNext DEF DispatchInv
<1>1. [Leasing!Next]_OwnerOf
  BY <1>0, DispatchSteps, StepRefines
<1>2. CASE UNCHANGED OwnerOf
  BY <1>2 DEF ServedBy
<1>3. CASE Leasing!Next
  <2> PICK t \in Threads, w \in Workers : Leasing!Take(t, w) \/ Leasing!Return(t, w)
    BY <1>3 DEF Leasing!Next
  <2>0. w \in Backends
    BY DEF Backends
  <2>1. CASE Leasing!Take(t, w)
    <3>1. OwnerOf' = [OwnerOf EXCEPT ![w] = t] /\ OwnerOf[w] = Nobody /\ \A v \in Workers : OwnerOf[v] # t
      BY <2>1 DEF Leasing!Take
    <3>2. OwnerOf'[w] = t
      BY <1>0, <3>1 DEF OwnerMatches
    <3>3. lease'[t] = w /\ w # Nobody
      BY <1>0, <3>2, ServedByWhom DEF OwnerMatches
    <3>4. mutex # t
      BY <1>0, <3>3 DEF PoolInv, LeaseWhenLeased, Held, MutexMeans
    <3>5. ServedBy' = [ServedBy EXCEPT ![w] = t]
      <4>1. DOMAIN OwnerOf = Workers
        BY <1>0 DEF OwnerMatches
      <4>. QED BY <3>1, <4>1, ServedByExcept
    <3>6. ServedBy[w] = Nobody /\ \A b \in Backends : ServedBy[b] # t
      BY <3>1, <3>4, ServedByWhom DEF Backends
    <3>7. Serving!Take(t, w)
      BY <3>5, <3>6 DEF Serving!Take
    <3>. QED BY <2>0, <3>7 DEF Serving!Next
  <2>2. CASE Leasing!Return(t, w)
    <3>1. OwnerOf' = [OwnerOf EXCEPT ![w] = Nobody] /\ OwnerOf[w] = t
      BY <2>2 DEF Leasing!Return
    <3>2. ServedBy[w] = t /\ w # Nobody
      BY <3>1, ServedByWhom
    <3>3. ServedBy' = [ServedBy EXCEPT ![w] = Nobody]
      <4>1. DOMAIN OwnerOf = Workers
        BY <1>0 DEF OwnerMatches
      <4>. QED BY <3>1, <4>1, ServedByExcept
    <3>4. Serving!Return(t, w)
      BY <3>2, <3>3 DEF Serving!Return
    <3>. QED BY <2>0, <3>4 DEF Serving!Next
  <2>. QED BY <2>1, <2>2
<1>. QED BY <1>1, <1>2, <1>3

\* Locking model_mutex takes the primary backend.
LEMMA LockServes ==
  ASSUME DispatchInv, NEW t \in Threads, LockPrimary(t)
  PROVE  Serving!Next
<1>1. mutex = Nobody /\ mutex' = t /\ pc[t] = "idle" /\ UNCHANGED lease
  BY DEF LockPrimary, poolVars
<1>2. UNCHANGED OwnerOf
  BY <1>1, OwnerStutter
<1>3. lease[t] = Nobody
  BY <1>1 DEF DispatchInv, PoolInv, LeaseWhenLeased
<1>4. \A w \in Workers : OwnerOf[w] # t
  BY <1>3, OwnerIsHolder, PoolAssumption DEF DispatchInv, OwnerMatches
<1>5. ServedBy' = [ServedBy EXCEPT ![Nobody] = t]
  BY <1>1, <1>2 DEF ServedBy, Backends
<1>6. ServedBy[Nobody] = Nobody /\ \A b \in Backends : ServedBy[b] # t
  BY <1>1, <1>4, ServedByWhom, PoolAssumption DEF Backends
<1>7. Serving!Take(t, Nobody)
  BY <1>5, <1>6 DEF Serving!Take
<1>. QED BY <1>7 DEF Serving!Next, Backends

\* Unlocking it returns it.
LEMMA UnlockServes ==
  ASSUME NEW t \in Threads, UnlockPrimary(t)
  PROVE  Serving!Next
<1>1. mutex = t /\ mutex' = Nobody /\ UNCHANGED lease
  BY DEF UnlockPrimary, poolVars
<1>2. UNCHANGED OwnerOf
  BY <1>1, OwnerStutter
<1>3. ServedBy' = [ServedBy EXCEPT ![Nobody] = Nobody] /\ ServedBy[Nobody] = t
  BY <1>1, <1>2 DEF ServedBy, Backends
<1>4. Serving!Return(t, Nobody)
  BY <1>3 DEF Serving!Return
<1>. QED BY <1>4 DEF Serving!Next, Backends

LEMMA DispatchServes ==
  DispatchInv /\ DispatchInv' /\ Held /\ Held' /\ [Next]_vars => [Serving!Next]_ServedBy
<1> SUFFICES ASSUME DispatchInv, DispatchInv', Held, Held', [Next]_vars
             PROVE  [Serving!Next]_ServedBy
  OBVIOUS
<1>1. UNCHANGED mutex \/ \E t \in Threads : LockPrimary(t) \/ UnlockPrimary(t)
  BY DEF Next, vars, jobVars, LeaseFree, WaitForWorker, LeaseWoken, NotCounted, Count, Zero,
    StartSlice, Post, Uncount, Clear, EndLease, WakeWaiter
<1>. QED BY <1>1, PooledServes, LockServes, UnlockServes

\* The dispatcher implements the abstract lease over all the backends of the server, for any
\* number of requests and backends and with and without a pool: which of the two ways a
\* request takes makes no difference that a user of the backends could see.
THEOREM DispatchImplementsServing == SafetySpec => ImplementsServing
BY InitServes, DispatchServes, HeldInvariance, PTL DEF SafetySpec, ImplementsServing, Serving!Spec
=============================================================================
