------------------------------ MODULE WorkerPool ------------------------------
(***************************************************************************)
(* core_pool::WorkerPool (src/core/worker_pool.h): a fixed set of backend  *)
(* instances handed to request threads one at a time.  The free set is a   *)
(* vector used as a stack; acquire() waits on a condition variable while   *)
(* it is empty; a Lease gives its resource back when it is destroyed, and  *)
(* notifies one waiter after the pool's mutex has been released.           *)
(*                                                                         *)
(* Every section under the pool's mutex is one step.  What is not under it *)
(* is a step of its own: the notify_one that follows give_back's unlock,   *)
(* and the return of a notified thread from cv.wait, which must lock the   *)
(* mutex again and may find that another thread took the resource.         *)
(***************************************************************************)
EXTENDS Integers, Sequences, FiniteSets

CONSTANTS Threads,   \* request threads that lease from the pool
          Workers,   \* the owned resources
          Nobody     \* the null resource pointer, and the owner of a free one

ASSUME PoolAssumption ==
  /\ IsFiniteSet(Threads)
  /\ IsFiniteSet(Workers) /\ Workers # {}
  /\ Nobody \notin Threads \cup Workers

VARIABLES
  free,    \* free_: the stack of idle resources, its top last
  lease,   \* lease[t]: the resource in t's Lease, or Nobody
  pc       \* where each thread is in acquire() and ~Lease()

poolVars == <<free, lease, pc>>

(***************************************************************************)
(* "idle"    outside the pool                                              *)
(* "waiting" blocked in cv.wait, the mutex released                        *)
(* "woken"   notified (or woken spuriously), the mutex not yet retaken     *)
(* "leased"  holding a Lease                                               *)
(* "notify"  in give_back, the resource pushed, notify_one not yet called  *)
(***************************************************************************)
PoolPoint == {"idle", "waiting", "woken", "leased", "notify"}

At(point) == {t \in Threads : pc[t] = point}

\* The order of the initial stack is the order of the vector of resources; TLC
\* tries every order.
PoolInit ==
  /\ free \in [1..Cardinality(Workers) -> Workers]
  /\ \A i, j \in DOMAIN free : free[i] = free[j] => i = j
  /\ lease = [t \in Threads |-> Nobody]
  /\ pc = [t \in Threads |-> "idle"]

\* free_.back(), pop_back(), Lease(this, r).
Pop(t) ==
  /\ free # <<>>
  /\ lease' = [lease EXCEPT ![t] = free[Len(free)]]
  /\ free' = SubSeq(free, 1, Len(free) - 1)
  /\ pc' = [pc EXCEPT ![t] = "leased"]

\* acquire(), and try_acquire() when a resource is free: the wait's predicate holds at once.
Acquire(t) == pc[t] = "idle" /\ Pop(t)

\* acquire(): nothing is free, the thread joins the condition variable's waiters.
\* (try_acquire() returns nullopt here and changes nothing.)
Block(t) ==
  /\ pc[t] = "idle"
  /\ free = <<>>
  /\ pc' = [pc EXCEPT ![t] = "waiting"]
  /\ UNCHANGED <<free, lease>>

\* cv.wait may return although nobody notified.
SpuriousWakeup(t) ==
  /\ pc[t] = "waiting"
  /\ pc' = [pc EXCEPT ![t] = "woken"]
  /\ UNCHANGED <<free, lease>>

\* Mutant: the woken thread trusts the notification (if in place of while), and
\* leases the last resource it has seen even if another thread was faster.
RetakeWithoutRecheck(t) ==
  /\ pc[t] = "woken"
  /\ \/ Pop(t)
     \/ /\ free = <<>>
        /\ \E w \in Workers : lease' = [lease EXCEPT ![t] = w]
        /\ pc' = [pc EXCEPT ![t] = "leased"]
        /\ UNCHANGED free

\* A woken thread has the mutex again and evaluates the wait's predicate.
Retake(t) ==
  /\ pc[t] = "woken"
  /\ \/ Pop(t)
     \/ /\ free = <<>>
        /\ pc' = [pc EXCEPT ![t] = "waiting"]
        /\ UNCHANGED <<free, lease>>

\* Mutant: ~Lease() runs on a moved-from lease that was not cleared.
GiveBackAndKeep(t) ==
  /\ pc[t] = "leased"
  /\ free' = Append(free, lease[t])
  /\ pc' = [pc EXCEPT ![t] = "notify"]
  /\ UNCHANGED lease

\* ~Lease(): release() clears the lease and give_back() pushes the resource.
GiveBack(t) ==
  /\ pc[t] = "leased"
  /\ free' = Append(free, lease[t])
  /\ lease' = [lease EXCEPT ![t] = Nobody]
  /\ pc' = [pc EXCEPT ![t] = "notify"]

\* Mutant: give_back() returns without notify_one.
NoNotify(t) ==
  /\ pc[t] = "notify"
  /\ pc' = [pc EXCEPT ![t] = "idle"]
  /\ UNCHANGED <<free, lease>>

\* cv_.notify_one(), outside the mutex: any one of the waiters is woken.
NotifyOne(t) ==
  /\ pc[t] = "notify"
  /\ \/ /\ At("waiting") = {}
        /\ pc' = [pc EXCEPT ![t] = "idle"]
     \/ \E u \in At("waiting") : pc' = [pc EXCEPT ![t] = "idle", ![u] = "woken"]
  /\ UNCHANGED <<free, lease>>

PoolNext ==
  \E t \in Threads :
    \/ Acquire(t) \/ Block(t) \/ SpuriousWakeup(t) \/ Retake(t)
    \/ GiveBack(t) \/ NotifyOne(t)

PoolSafetySpec == PoolInit /\ [][PoolNext]_poolVars

-----------------------------------------------------------------------------
\* The pool's variables have their types.
PoolTypeOK ==
  /\ free \in Seq(Workers)
  /\ lease \in [Threads -> Workers \cup {Nobody}]
  /\ pc \in [Threads -> PoolPoint]

Stacked(w) == {i \in DOMAIN free : free[i] = w}
Holders(w) == {t \in Threads : lease[t] = w}

\* Each resource is in exactly one place: once on the stack and in no lease, or in the
\* lease of one thread and not on the stack.  Two threads therefore never drive one
\* backend, and no backend is lost (src/docs/concurrency.md, "A single loaded context
\* is not thread-safe").
Conserved ==
  \A w \in Workers :
    \/ /\ \E i \in DOMAIN free : Stacked(w) = {i}
       /\ Holders(w) = {}
    \/ /\ Stacked(w) = {}
       /\ \E t \in Threads : Holders(w) = {t}

\* No wake-up is lost although notify_one runs after the unlock: while threads wait,
\* each resource on the stack is matched by a notification still to be sent or by a
\* woken thread that has yet to look.
NoLostWakeup ==
  At("waiting") # {} =>
    Len(free) <= Cardinality(At("notify")) + Cardinality(At("woken"))

\* Threads do not wait for ever beside a free resource: it is taken, or nobody waits.
WaitersServed ==
  (At("waiting") # {} /\ free # <<>>) ~> (At("waiting") = {} \/ free = <<>>)

\* The owner the abstract lease sees.
OwnerOf ==
  [w \in Workers |-> IF Holders(w) = {} THEN Nobody ELSE CHOOSE t \in Threads : lease[t] = w]

Leasing == INSTANCE ResourceLease WITH owner <- OwnerOf

\* The pool implements the abstract lease: the stack, the mutex, the condition variable
\* and the late notification add nothing a user of the pool could see.
ImplementsLease == Leasing!Spec
=============================================================================
