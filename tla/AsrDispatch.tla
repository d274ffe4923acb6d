------------------------------ MODULE AsrDispatch ------------------------------
(***************************************************************************)
(* How the HTTP server runs transcriptions side by side                    *)
(* (examples/cli/crispasr_server.cpp: dispatch_transcribe, do_transcribe,  *)
(* progress_scope).  A pure-ASR request leases one of the pool's backends; *)
(* every other request, and every request when no pool was built, takes    *)
(* model_mutex and runs on the primary backend.  All of them share the two *)
(* atomics behind GET /progress: a count of running jobs and one slot for  *)
(* the percentage.                                                         *)
(*                                                                         *)
(* Each access to an atomic is a step of its own, as the pairs of accesses *)
(* in progress_scope's constructor and destructor are not atomic together. *)
(* The mutex of a pooled backend is held exactly while it is leased: only  *)
(* the lease's thread locks it, so locking it never waits.                 *)
(***************************************************************************)
EXTENDS WorkerPool

CONSTANT Slices   \* the number of slices a recording is cut into

ASSUME SlicesAssumption == Slices \in Nat \ {0}

VARIABLES
  pooled,    \* asr_pool was built at startup (--server-workers > 1)
  mutex,     \* the thread that holds model_mutex, or Nobody
  stage,     \* stage[t]: how far the request of thread t is in do_transcribe
  slice,     \* slice[t]: how many slices of it have been started; 0 outside the loop
  last,      \* last[t]: in the destructor, its fetch_sub returned 1
  active,    \* g_server_active
  progress   \* g_server_progress

jobVars == <<mutex, stage, slice, last, active, progress>>
vars == <<free, lease, pc, pooled, mutex, stage, slice, last, active, progress>>

(***************************************************************************)
(* "none"      no request, or one that still waits for a backend           *)
(* "started"   it has its backend, progress_scope not built                *)
(* "counted"   fetch_add done, store(0) not yet                            *)
(* "running"   in the slice loop                                           *)
(* "posting"   past the loop: diarization, punctuation, truecasing         *)
(* "uncounted" fetch_sub done, store(-1) not yet                           *)
(* "finished"  progress_scope destroyed, the backend not yet released      *)
(***************************************************************************)
Stage == {"none", "started", "counted", "running", "posting", "uncounted", "finished"}

Idle == -1

Init ==
  /\ PoolInit
  /\ pooled \in BOOLEAN
  /\ mutex = Nobody
  /\ stage = [t \in Threads |-> "none"]
  /\ slice = [t \in Threads |-> 0]
  /\ last = [t \in Threads |-> FALSE]
  /\ active = 0
  /\ progress = Idle

Go(t, from, to) ==
  /\ stage[t] = from
  /\ stage' = [stage EXCEPT ![t] = to]

-----------------------------------------------------------------------------
(* Getting a backend.                                                       *)

\* A pure-ASR request finds a free worker.
LeaseFree(t) ==
  /\ pooled
  /\ Go(t, "none", "started")
  /\ Acquire(t)
  /\ UNCHANGED <<pooled, mutex, slice, last, active, progress>>

\* A pure-ASR request waits for a worker.
WaitForWorker(t) ==
  /\ pooled
  /\ stage[t] = "none"
  /\ Block(t) \/ SpuriousWakeup(t)
  /\ UNCHANGED <<pooled, jobVars>>

\* A woken request looks again.
LeaseWoken(t) ==
  /\ Retake(t)
  /\ stage' = [stage EXCEPT ![t] = IF pc'[t] = "leased" THEN "started" ELSE "none"]
  /\ UNCHANGED <<pooled, mutex, slice, last, active, progress>>

\* Mutant: the request does not wait for model_mutex.
LockNothing(t) ==
  /\ pc[t] = "idle"
  /\ Go(t, "none", "started")
  /\ mutex' = t
  /\ UNCHANGED <<poolVars, pooled, slice, last, active, progress>>

\* Any other request, and any request of a server without a pool, gets model_mutex.
LockPrimary(t) ==
  /\ pc[t] = "idle"
  /\ Go(t, "none", "started")
  /\ mutex = Nobody
  /\ mutex' = t
  /\ UNCHANGED <<poolVars, pooled, slice, last, active, progress>>

\* Between the lease and the lock: the audio does not decode, holds nothing to transcribe,
\* or a preparation step fails or throws.  (On the primary backend this precedes LockPrimary.)
NotCounted(t) ==
  /\ Go(t, "started", "finished")
  /\ pc[t] = "leased"
  /\ UNCHANGED <<poolVars, pooled, mutex, slice, last, active, progress>>

-----------------------------------------------------------------------------
(* progress_scope and the slice loop.                                       *)

\* The constructor's fetch_add.
Count(t) ==
  /\ Go(t, "started", "counted")
  /\ active' = active + 1
  /\ UNCHANGED <<poolVars, pooled, mutex, slice, last, progress>>

\* The constructor's store(0).
Zero(t) ==
  /\ Go(t, "counted", "running")
  /\ progress' = 0
  /\ slice' = [slice EXCEPT ![t] = 0]
  /\ UNCHANGED <<poolVars, pooled, mutex, last, active>>

\* The loop claims a slice when it starts, then transcribes it.
StartSlice(t) ==
  /\ stage[t] = "running"
  /\ slice[t] < Slices
  /\ progress' = (slice[t] * 100) \div Slices
  /\ slice' = [slice EXCEPT ![t] = @ + 1]
  /\ UNCHANGED <<poolVars, pooled, mutex, stage, last, active>>

\* The loop is done: the slot reads 100 while the post-processing steps run.
Post(t) ==
  /\ Go(t, "running", "posting")
  /\ slice[t] = Slices
  /\ progress' = 100
  /\ UNCHANGED <<poolVars, pooled, mutex, slice, last, active>>

\* Mutant: the count is taken down by hand at the end of the function, so an exception
\* out of a backend skips it.
UncountOnSuccess(t) ==
  /\ Go(t, stage[t], "uncounted")
  /\ stage[t] \in {"running", "posting"}
  /\ last' = [last EXCEPT ![t] = active = 1]
  /\ active' = IF stage[t] = "posting" THEN active - 1 ELSE active
  /\ slice' = [slice EXCEPT ![t] = 0]
  /\ UNCHANGED <<poolVars, pooled, mutex, progress>>

\* Mutant: the value before the subtraction is taken for the value after it.
UncountOffByOne(t) ==
  /\ Go(t, stage[t], "uncounted")
  /\ stage[t] \in {"running", "posting"}
  /\ last' = [last EXCEPT ![t] = active = 0]
  /\ active' = active - 1
  /\ slice' = [slice EXCEPT ![t] = 0]
  /\ UNCHANGED <<poolVars, pooled, mutex, progress>>

\* The destructor's fetch_sub: after the post-processing steps, or earlier when a slice
\* throws or a required stage fails.
Uncount(t) ==
  /\ Go(t, stage[t], "uncounted")
  /\ stage[t] \in {"running", "posting"}
  /\ last' = [last EXCEPT ![t] = active = 1]
  /\ active' = active - 1
  /\ slice' = [slice EXCEPT ![t] = 0]
  /\ UNCHANGED <<poolVars, pooled, mutex, progress>>

\* The destructor's store(-1), made only by the job that counted down to 0.
Clear(t) ==
  /\ Go(t, "uncounted", "finished")
  /\ progress' = IF last[t] THEN Idle ELSE progress
  /\ last' = [last EXCEPT ![t] = FALSE]
  /\ UNCHANGED <<poolVars, pooled, mutex, slice, active>>

\* The lock_guard's unlock of model_mutex.
UnlockPrimary(t) ==
  /\ Go(t, "finished", "none")
  /\ mutex = t
  /\ mutex' = Nobody
  /\ UNCHANGED <<poolVars, pooled, slice, last, active, progress>>

\* The end of the lease.
EndLease(t) ==
  /\ Go(t, "finished", "none")
  /\ GiveBack(t)
  /\ UNCHANGED <<pooled, mutex, slice, last, active, progress>>

WakeWaiter(t) == NotifyOne(t) /\ UNCHANGED <<pooled, jobVars>>

Next ==
  \E t \in Threads :
    \/ LeaseFree(t) \/ WaitForWorker(t) \/ LeaseWoken(t) \/ LockPrimary(t) \/ NotCounted(t)
    \/ Count(t) \/ Zero(t) \/ StartSlice(t) \/ Post(t) \/ Uncount(t) \/ Clear(t)
    \/ UnlockPrimary(t) \/ EndLease(t) \/ WakeWaiter(t)

\* A request that has got a backend, or been woken, or given one back, goes on.
Working(t) ==
  \/ LeaseWoken(t) \/ NotCounted(t) \/ Count(t) \/ Zero(t) \/ StartSlice(t) \/ Post(t)
  \/ Uncount(t) \/ Clear(t) \/ UnlockPrimary(t) \/ EndLease(t) \/ WakeWaiter(t)

(***************************************************************************)
(* A slice returns or throws, and a thread that waits for nothing runs on. *)
(* Nothing makes a new request arrive, a waiting one wake up unprompted,   *)
(* or model_mutex come to one that waits for it.                           *)
(***************************************************************************)
SafetySpec == Init /\ [][Next]_vars
Spec == SafetySpec /\ \A t \in Threads : WF_vars(Working(t))

-----------------------------------------------------------------------------
DispatchTypeOK ==
  /\ PoolTypeOK
  /\ pooled \in BOOLEAN
  /\ mutex \in Threads \cup {Nobody}
  /\ stage \in [Threads -> Stage]
  /\ slice \in [Threads -> 0..Slices]
  /\ last \in [Threads -> BOOLEAN]
  /\ active \in 0..Cardinality(Threads)
  /\ progress \in {Idle} \cup 0..100

\* The requests that progress_scope counts.
Counted == {t \in Threads : stage[t] \in {"counted", "running", "posting"}}

\* "the busy count stays honest either way": it is the number of jobs in flight, with a
\* pool or without, and whatever way a job ends.
BusyHonest == active = Cardinality(Counted)

\* When nothing runs and no destructor is half-way through, the slot reads -1, however
\* the concurrent jobs' stores interleaved: no late slice leaves a percentage behind.
IdleSettles ==
  (\A t \in Threads : stage[t] \in {"none", "started", "finished"}) => progress = Idle

\* Without a pool the slot is the running job's own: no request that waits behind it, and
\* none that has just ended, resets it or shows the server idle.
SerialProgress ==
  ~pooled =>
    \A t \in Threads :
      /\ stage[t] = "running" =>
           progress = IF slice[t] = 0 THEN 0 ELSE ((slice[t] - 1) * 100) \div Slices
      /\ stage[t] = "posting" => progress = 100

\* Without a pool the percentage a client polls never goes back during a job: it only
\* falls to -1, when no job is left.
SerialMonotone ==
  [][~pooled /\ progress' < progress => progress' = Idle /\ active' = 0]_vars

\* No two requests that have got a backend have the same one, whichever way they got it:
\* one without a lease drives the primary backend.
OneJobPerBackend ==
  \A t, u \in Threads :
    stage[t] # "none" /\ stage[u] # "none" /\ lease[t] = lease[u] => t = u

\* The thread that each backend serves.  The primary goes by Nobody here, which is what a
\* job on it has for a lease.
Backends == Workers \cup {Nobody}
ServedBy == [b \in Backends |-> IF b = Nobody THEN mutex ELSE OwnerOf[b]]

Serving == INSTANCE ResourceLease WITH Workers <- Backends, owner <- ServedBy

\* dispatch_transcribe as a whole, pool and primary backend, is one lease of all backends:
\* a job takes one that is free, has no second, and returns it.
ImplementsServing == Serving!Spec
=============================================================================
