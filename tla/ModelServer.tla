------------------------------ MODULE ModelServer ------------------------------
(***************************************************************************)
(* The one loaded model of the HTTP server and the threads that drive it   *)
(* (examples/cli/crispasr_server.cpp): request handlers, the detached      *)
(* worker of a streamed synthesis, the Wyoming and realtime servers, and   *)
(* POST /load, which replaces the model.  model_mutex serialises them; what *)
(* makes it hard is what they do outside it: a handler checks `ready` and  *)
(* looks at the model before it waits, and a voice clone asks for its      *)
(* spoken disclaimer, cached in a call_once, after it has unlocked.        *)
(*                                                                         *)
(* A model is the number of the load that brought it, 0 at startup.  The   *)
(* server is without a worker pool (with one, /load answers 409).          *)
(***************************************************************************)
EXTENDS Integers, FiniteSets

CONSTANTS Threads,    \* the threads that serve requests
          Nobody,     \* the owner of a free mutex, and of an unset once_flag
          Kinds,      \* the kinds of request they serve
          MaxLoads    \* bound: successful loads in a behaviour

(***************************************************************************)
(* "decode"  a transcription: `backend.get()` is an argument of            *)
(*           do_transcribe, evaluated before that waits for the mutex      *)
(* "speak"   SSE transcription, translation, speech-to-speech, synthesis   *)
(*           of a preset voice in one piece: `backend` is read again under *)
(*           the mutex                                                     *)
(* "stream"  the synthesis streamed: the same, by a detached worker that   *)
(*           queues what it makes                                          *)
(* "clone"   a synthesis that owes a disclaimer, answered in one piece     *)
(* "talk"    the same, streamed: the disclaimer comes first, under the mutex *)
(* "side"    a Wyoming or realtime turn: the pointer handed over at startup *)
(* "load"    POST /load                                                    *)
(***************************************************************************)
RequestKind == {"decode", "speak", "stream", "clone", "talk", "side", "load"}

NoRequest == "none"
Done == "done"

ASSUME ServerAssumption ==
  /\ IsFiniteSet(Threads)
  /\ Threads \cap {Nobody, Done} = {} /\ Nobody # Done
  /\ Kinds \subseteq RequestKind
  /\ MaxLoads \in Nat

VARIABLES
  backend,   \* the model `backend` owns; every earlier one has been destroyed
  ready,     \* the flag /health and the handlers read
  mutex,     \* the thread that holds model_mutex, or Nobody
  pc,        \* where each thread is
  kind,      \* kind[t]: the request of thread t, or NoRequest
  ptr,       \* ptr[t]: the model t has last looked at, and drives; 0 between requests
  once,      \* the once_flag: Nobody, the thread inside it, or Done
  cache      \* the cached disclaimer: the model that spoke it, and whether it said anything

vars == <<backend, ready, mutex, pc, kind, ptr, once, cache>>

Point == {"idle", "admitted", "waiting", "driving", "unlocked", "disclaim", "disclaiming",
          "prefix", "loading", "swapped"}

Models == 0..MaxLoads

Init ==
  /\ backend = 0
  /\ ready = TRUE
  /\ mutex = Nobody
  /\ pc = [t \in Threads |-> "idle"]
  /\ kind = [t \in Threads |-> NoRequest]
  /\ ptr = [t \in Threads |-> 0]
  /\ once = Nobody
  /\ cache = [model |-> 0, spoken |-> FALSE]

Go(t, from, to) ==
  /\ pc[t] = from
  /\ pc' = [pc EXCEPT ![t] = to]

Release(t) == mutex' = IF mutex = t THEN Nobody ELSE mutex

\* A request ends, with a reply or an exception; a guard it is under unlocks the mutex.
End(t, from) ==
  /\ Go(t, from, "idle")
  /\ Release(t)
  /\ kind' = [kind EXCEPT ![t] = NoRequest]
  /\ ptr' = [ptr EXCEPT ![t] = 0]

-----------------------------------------------------------------------------
(* Before the mutex.                                                        *)

\* A handler that checks `ready` lets the request in.  (Otherwise it answers 503.)
Admit(t) ==
  /\ Go(t, "idle", "admitted")
  /\ ready
  /\ \E k \in Kinds \ {"side", "load"} : kind' = [kind EXCEPT ![t] = k]
  /\ UNCHANGED <<backend, ready, mutex, ptr, once, cache>>

\* It looks at the model, without the mutex: capabilities(), tts_sample_rate(), and for
\* a transcription the pointer itself.
Look(t) ==
  /\ Go(t, "admitted", "waiting")
  /\ ptr' = [ptr EXCEPT ![t] = backend]
  /\ UNCHANGED <<backend, ready, mutex, kind, once, cache>>

\* What is asked does not fit the model, or the request is malformed: it answers 4xx.
Refuse(t) == End(t, "admitted") /\ UNCHANGED <<backend, ready, once, cache>>

\* A turn of a side server, and /load, check nothing; the former uses its startup pointer.
Arrive(t) ==
  /\ Go(t, "idle", "waiting")
  /\ \E k \in Kinds \cap {"side", "load"} : kind' = [kind EXCEPT ![t] = k]
  /\ UNCHANGED <<backend, ready, mutex, ptr, once, cache>>

-----------------------------------------------------------------------------
(* Under the mutex.                                                         *)

\* Mutant: every handler drives the model it has looked at.
LockForLooked(t) ==
  /\ kind[t] # "load"
  /\ Go(t, "waiting", IF kind[t] = "talk" THEN "disclaim" ELSE "driving")
  /\ mutex = Nobody
  /\ mutex' = t
  /\ UNCHANGED <<backend, ready, kind, ptr, once, cache>>

\* Mutant: a streamed synthesis does not take the mutex.
LockUnlessStreamed(t) ==
  /\ kind[t] # "load"
  /\ Go(t, "waiting", IF kind[t] = "talk" THEN "disclaim" ELSE "driving")
  /\ mutex = Nobody \/ kind[t] = "stream"
  /\ mutex' = IF kind[t] = "stream" THEN mutex ELSE t
  /\ ptr' = [ptr EXCEPT ![t] = IF kind[t] \in {"decode", "side"} THEN @ ELSE backend]
  /\ UNCHANGED <<backend, ready, kind, once, cache>>

\* The lock_guard around the work.  Code that names `backend` now sees the resident model.
Lock(t) ==
  /\ kind[t] # "load"
  /\ Go(t, "waiting", IF kind[t] = "talk" THEN "disclaim" ELSE "driving")
  /\ mutex = Nobody
  /\ mutex' = t
  /\ ptr' = [ptr EXCEPT ![t] = IF kind[t] \in {"decode", "side"} THEN @ ELSE backend]
  /\ UNCHANGED <<backend, ready, kind, once, cache>>

\* The model's call returns or throws, and the guard unlocks.  A clone that has audio goes
\* on to its disclaimer: over HTTP without the mutex, over Wyoming still under it.
Finish(t) ==
  /\ \/ End(t, "driving")
     \/ /\ kind[t] = "clone"
        /\ Go(t, "driving", "unlocked")
        /\ Release(t)
        /\ UNCHANGED <<kind, ptr>>
     \/ /\ kind[t] = "side"
        /\ Go(t, "driving", "disclaim")
        /\ UNCHANGED <<mutex, kind, ptr>>
  /\ UNCHANGED <<backend, ready, once, cache>>

-----------------------------------------------------------------------------
(* The spoken disclaimer (examples/cli/crispasr_tts_disclaimer.h).          *)

\* `backend.get()`, the argument of crispasr_tts_prepend_disclaimer.
Ask(t) ==
  /\ Go(t, "unlocked", "disclaim")
  /\ ptr' = [ptr EXCEPT ![t] = backend]
  /\ UNCHANGED <<backend, ready, mutex, kind, once, cache>>

\* Where a request goes on once it has its disclaimer.
WithDisclaimer(t) == IF kind[t] = "talk" THEN "driving" ELSE "prefix"

\* Mutant: a flag that is tested and set, so that a second request does not wait.
FlagNotOnce(t) ==
  /\ \/ /\ once # Nobody
        /\ Go(t, "disclaim", WithDisclaimer(t))
        /\ UNCHANGED once
     \/ /\ once = Nobody
        /\ Go(t, "disclaim", "disclaiming")
        /\ once' = t
  /\ UNCHANGED <<backend, ready, mutex, kind, ptr, cache>>

\* Mutant: the body of the call_once takes model_mutex, so that a clone, which has released
\* it, synthesizes under it again.
OnceThenLock(t) ==
  /\ \/ /\ once = Done
        /\ Go(t, "disclaim", WithDisclaimer(t))
        /\ UNCHANGED <<once, mutex>>
     \/ /\ once = Nobody
        /\ pc[t] = "disclaim"
        /\ once' = t
        /\ UNCHANGED <<pc, mutex>>
     \/ /\ once = t
        /\ mutex = Nobody
        /\ mutex' = t
        /\ Go(t, "disclaim", "disclaiming")
        /\ UNCHANGED once
  /\ UNCHANGED <<backend, ready, kind, ptr, cache>>

\* call_once: enter it, pass it when it is done, wait while another thread is inside.
CallOnce(t) ==
  /\ \/ /\ once = Done
        /\ Go(t, "disclaim", WithDisclaimer(t))
        /\ UNCHANGED once
     \/ /\ once = Nobody
        /\ Go(t, "disclaim", "disclaiming")
        /\ once' = t
  /\ UNCHANGED <<backend, ready, mutex, kind, ptr, cache>>

\* The synthesis returns, perhaps with no audio, and the result is kept for good.
Spoken(t) ==
  /\ Go(t, "disclaiming", WithDisclaimer(t))
  /\ once' = Done
  /\ \E spoken \in BOOLEAN : cache' = [model |-> ptr[t], spoken |-> spoken]
  /\ UNCHANGED <<backend, ready, mutex, kind, ptr>>

\* It throws: the flag is unset again and the request ends, releasing what it holds.
DisclaimerThrows(t) ==
  /\ End(t, "disclaiming")
  /\ once' = Nobody
  /\ UNCHANGED <<backend, ready, cache>>

\* The prefix is measured with the model's sample rate, and the reply goes out.
Reply(t) == End(t, "prefix") /\ UNCHANGED <<backend, ready, once, cache>>

-----------------------------------------------------------------------------
(* POST /load.                                                              *)

\* The handler locks and clears `ready`.
LoadLock(t) ==
  /\ kind[t] = "load"
  /\ Go(t, "waiting", "loading")
  /\ mutex = Nobody
  /\ mutex' = t
  /\ ready' = FALSE
  /\ UNCHANGED <<backend, kind, ptr, once, cache>>

\* No model named, no backend detected, not resolved, or init returned false.
LoadRefused(t) ==
  /\ End(t, "loading")
  /\ ready' = TRUE
  /\ UNCHANGED <<backend, once, cache>>

\* An exception leaves the handler; httplib's exception handler answers 500.
LoadThrows(t) == End(t, "loading") /\ UNCHANGED <<backend, ready, once, cache>>

\* Mutant: the resident model is released before the next one has been initialised.
SwapReleasesFirst(t) ==
  /\ Go(t, "loading", "swapped")
  /\ backend < MaxLoads
  /\ backend' \in {backend + 1, -1}
  /\ UNCHANGED <<ready, mutex, kind, ptr, once, cache>>

\* `backend = std::move(nb)` destroys the resident model.
Swap(t) ==
  /\ Go(t, "loading", "swapped")
  /\ backend < MaxLoads
  /\ backend' = backend + 1
  /\ UNCHANGED <<ready, mutex, kind, ptr, once, cache>>

Loaded(t) ==
  /\ End(t, "swapped")
  /\ ready' = TRUE
  /\ UNCHANGED <<backend, once, cache>>

-----------------------------------------------------------------------------
EndLoad(t) == LoadRefused(t) \/ LoadThrows(t) \/ Swap(t)

Next ==
  \E t \in Threads :
    \/ Admit(t) \/ Look(t) \/ Refuse(t) \/ Arrive(t) \/ Lock(t) \/ Finish(t)
    \/ Ask(t) \/ CallOnce(t) \/ Spoken(t) \/ DisclaimerThrows(t) \/ Reply(t)
    \/ LoadLock(t) \/ EndLoad(t) \/ Loaded(t)

\* A worker of SpeechStream, which may sleep in enqueue() for as long as its chunks are not
\* taken, and does so under the mutex.
Queues(t) == kind[t] \in {"stream", "talk"}

(***************************************************************************)
(* A thread that holds the mutex, or is inside the call_once, runs on, and *)
(* what it calls returns: syntheses, decodes and loads end.  The exception *)
(* is a worker that queues its chunks.  A std::mutex is not fair, so       *)
(* nothing is assumed of the threads that wait for it.                     *)
(***************************************************************************)
Fairness ==
  \A t \in Threads :
    /\ WF_vars(~Queues(t) /\ Finish(t))
    /\ WF_vars(CallOnce(t))
    /\ WF_vars(Spoken(t) \/ DisclaimerThrows(t))
    /\ WF_vars(Reply(t))
    /\ WF_vars(EndLoad(t))
    /\ WF_vars(Loaded(t))

SafetySpec == Init /\ [][Next]_vars
Spec == SafetySpec /\ Fairness

-----------------------------------------------------------------------------
ServerTypeOK ==
  /\ backend \in Models
  /\ ready \in BOOLEAN
  /\ mutex \in Threads \cup {Nobody}
  /\ pc \in [Threads -> Point]
  /\ kind \in [Threads -> RequestKind \cup {NoRequest}]
  /\ ptr \in [Threads -> Models]
  /\ once \in Threads \cup {Nobody, Done}
  /\ cache \in [model : Models, spoken : BOOLEAN]

Clone(t) == kind[t] \in {"clone", "talk"}

\* The threads inside a call of a model.
Driving == {t \in Threads : pc[t] \in {"driving", "disclaiming"}}

\* Work that is done under model_mutex: all of it but the disclaimer of an unstreamed clone.
UnderMutex == {t \in Driving : ~(pc[t] = "disclaiming" /\ kind[t] = "clone")}

\* Two threads are never inside a model under model_mutex, nor one while /load replaces
\* it, although streaming workers, side servers and handlers lock in seven places.
Serialized ==
  /\ \A t, u \in UnderMutex : t = u
  /\ \A t \in UnderMutex, u \in Threads : pc[u] \notin {"loading", "swapped"}

\* Code that names `backend` under the mutex drives the resident model, however many
\* loads came between its look at the model and its turn.
ResidentServes ==
  \A t \in UnderMutex : kind[t] \in {"speak", "stream", "clone", "talk"} => ptr[t] = backend

\* /health never says "ok", and no handler lets a request in, between the moment /load has
\* the mutex and the moment the next model is resident or the last one has been kept.
ReadyMeansResident == ready => \A t \in Threads : pc[t] \notin {"loading", "swapped"}

\* The disclaimer is synthesized by one thread at a time, and no request passes it before
\* a synthesis has returned.
DisclaimedFirst ==
  /\ \A t, u \in Threads : pc[t] = "disclaiming" /\ pc[u] = "disclaiming" => t = u
  /\ \A t \in Threads :
       pc[t] = "prefix" \/ (pc[t] = "driving" /\ kind[t] = "talk") => once = Done

\* A thread that has the mutex gives it back, or is a worker that has come to its chunks:
\* the call_once that some wait for while they hold the mutex never needs it.
MutexFreed ==
  \A t \in Threads : (mutex = t) ~> (mutex # t \/ (Queues(t) /\ pc[t] = "driving"))

-----------------------------------------------------------------------------
(* What the documents say and the code does not do.                         *)

\* "inference runs one-at-a-time through the single loaded model".
OneAtATime == \A t, u \in Driving : ptr[t] = ptr[u] => t = u

\* "Hot-swap to a different model at runtime": a thread is never inside a model that has
\* been destroyed, nor about to ask it for its sample rate.
NoDestroyedModel ==
  \A t \in Threads : t \in Driving \/ pc[t] = "prefix" => ptr[t] = backend
=============================================================================
