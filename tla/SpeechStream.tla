----------------------------- MODULE SpeechStream -----------------------------
(***************************************************************************)
(* One streamed answer of POST /v1/audio/speech (stream=true) in           *)
(* examples/cli/crispasr_server.cpp.  A detached worker synthesizes the    *)
(* sentences under model_mutex and pushes encoded chunks into StreamQueue, *)
(* at most kMaxQueueDepth of them; httplib calls a content provider on the *)
(* request's thread, which pops one chunk and writes it to the client.     *)
(* Both wait on the one condition variable of the queue.                   *)
(*                                                                         *)
(* httplib waits before each call of the provider until the client can be  *)
(* written to.  It gives up without another call when that takes longer    *)
(* than its write timeout, when the client has gone, and at shutdown; the  *)
(* provider learns of a client that takes no more, gone or slow, only if a *)
(* write of its own fails.                                                 *)
(*                                                                         *)
(* A chunk is its number in the order of synthesis.                        *)
(***************************************************************************)
EXTENDS Integers, Sequences, FiniteSets

CONSTANTS Depth,       \* kMaxQueueDepth
          Sentences,   \* the sentences the text was split into
          MaxChunks    \* bound: chunks a stream may have

ASSUME StreamAssumption ==
  /\ Depth \in Nat \ {0}
  /\ Sentences \in Nat
  /\ MaxChunks \in Nat

VARIABLES
  q,           \* q: the chunks that wait
  done,        \* done: nothing more will be pushed
  cancelled,   \* cancelled: a write of the provider has failed
  worker,      \* where the worker is
  sentence,    \* the sentence it is in; 0 is the spoken disclaimer
  made,        \* chunks it has handed to enqueue()
  provider,    \* where the request's thread is
  inHand,      \* the chunk the provider has popped, or <<>>
  sent,        \* what the client was sent, in order
  failed       \* failed: the model threw, which the code sets and never reads

vars == <<q, done, cancelled, worker, sentence, made, provider, inHand, sent, failed>>

(***************************************************************************)
(* worker    "locking"   waits for model_mutex                             *)
(*           "between"   asks is_cancelled() before the next sentence      *)
(*           "speaking"  in the model, between two chunks                  *)
(*           "pushing"   in enqueue(), the queue's mutex taken             *)
(*           "asleep"    in enqueue()'s cv.wait                            *)
(*           "pushed"    chunk in the queue, notify_one not yet called     *)
(*           "closing"   past the sentences, model_mutex released          *)
(*           "closed"    `done` set, notify_one not yet called             *)
(*           "gone"      returned                                          *)
(* provider  "loop"      in httplib, between two calls                     *)
(*           "called"    at the wait's predicate                           *)
(*           "asleep"    in its cv.wait                                    *)
(*           "popped"    a chunk in hand, notify_one not yet called        *)
(*           "writing"   in sink.write                                     *)
(*           "ended"     sink.done(): the stream was closed properly       *)
(*           "dropped"   httplib gave up                                   *)
(***************************************************************************)
WorkerPoint == {"locking", "between", "speaking", "pushing", "asleep", "pushed", "closing",
                "closed", "gone"}
ProviderPoint == {"loop", "called", "asleep", "popped", "writing", "ended", "dropped"}

Init ==
  /\ q = <<>>
  /\ done = FALSE
  /\ cancelled = FALSE
  /\ worker = "locking"
  /\ sentence = 0
  /\ made = 0
  /\ provider = "loop"
  /\ inHand = <<>>
  /\ sent = <<>>
  /\ failed = FALSE

\* The worker's lock_guard on model_mutex is alive.
HoldsModel == worker \in {"between", "speaking", "pushing", "asleep", "pushed"}

W(from, to) == worker = from /\ worker' = to
P(from, to) == provider = from /\ provider' = to

queueVars == <<q, done, cancelled>>
workerVars == <<worker, sentence, made>>
providerVars == <<provider, inHand, sent>>

-----------------------------------------------------------------------------
(* The worker.                                                              *)

\* It gets model_mutex, and speaks the disclaimer first (which may have no chunk).
LockModel ==
  /\ W("locking", "speaking")
  /\ UNCHANGED <<queueVars, sentence, made, providerVars, failed>>

\* The model's callback hands over a chunk, or a sentence or a gap is pushed.
Speak ==
  /\ W("speaking", "pushing")
  /\ made < MaxChunks
  /\ made' = made + 1
  /\ UNCHANGED <<queueVars, sentence, providerVars, failed>>

\* The sentence is over.
EndSentence ==
  /\ W("speaking", "between")
  /\ UNCHANGED <<queueVars, sentence, made, providerVars, failed>>

\* The next one, if there is one and no write has failed.
NextSentence ==
  /\ W("between", "speaking")
  /\ sentence < Sentences /\ ~cancelled
  /\ sentence' = sentence + 1
  /\ UNCHANGED <<queueVars, made, providerVars, failed>>

\* The loop ends, or is left, and the lock_guard unlocks model_mutex.
EndSpeech ==
  /\ W("between", "closing")
  /\ sentence = Sentences \/ cancelled
  /\ UNCHANGED <<queueVars, sentence, made, providerVars, failed>>

\* The model throws: the guard unlocks model_mutex, and the catch sets `failed`.
Throw ==
  /\ W("speaking", "closing")
  /\ failed' = TRUE
  /\ UNCHANGED <<queueVars, sentence, made, providerVars>>

\* Mutant: no backpressure.
PushUnbounded ==
  /\ worker = "pushing"
  /\ q' = IF cancelled THEN q ELSE Append(q, made)
  /\ worker' = IF cancelled THEN "speaking" ELSE "pushed"
  /\ UNCHANGED <<done, cancelled, sentence, made, providerVars, failed>>

\* Mutant: the wait's predicate forgets `cancelled`.
PushDeaf ==
  /\ worker = "pushing"
  /\ \/ Len(q) >= Depth /\ worker' = "asleep" /\ UNCHANGED q
     \/ Len(q) < Depth /\ cancelled /\ worker' = "speaking" /\ UNCHANGED q
     \/ Len(q) < Depth /\ ~cancelled /\ worker' = "pushed" /\ q' = Append(q, made)
  /\ UNCHANGED <<done, cancelled, sentence, made, providerVars, failed>>

\* enqueue(): wait while the queue is full, give the chunk up once a write has failed.
\* push_pcm ignores the result: the model speaks on to the end of its sentence.
Push ==
  /\ worker = "pushing"
  /\ \/ cancelled /\ worker' = "speaking" /\ UNCHANGED q
     \/ ~cancelled /\ Len(q) < Depth /\ worker' = "pushed" /\ q' = Append(q, made)
     \/ ~cancelled /\ Len(q) >= Depth /\ worker' = "asleep" /\ UNCHANGED q
  /\ UNCHANGED <<done, cancelled, sentence, made, providerVars, failed>>

\* cv.wait may return unprompted.
WorkerWakes ==
  /\ W("asleep", "pushing")
  /\ UNCHANGED <<queueVars, sentence, made, providerVars, failed>>

\* notify_one of the queue's condition variable, by the worker: only the other side can be
\* waiting.
WakeProvider == provider' = IF provider = "asleep" THEN "called" ELSE provider

NotifyPushed ==
  /\ W("pushed", "speaking")
  /\ WakeProvider
  /\ UNCHANGED <<queueVars, sentence, made, inHand, sent, failed>>

\* `done` is set, whatever ended the speech.
Close ==
  /\ W("closing", "closed")
  /\ done' = TRUE
  /\ UNCHANGED <<q, cancelled, sentence, made, providerVars, failed>>

\* Mutant: the worker returns without the last notify_one.
CloseSilently ==
  /\ W("closed", "gone")
  /\ UNCHANGED <<queueVars, sentence, made, providerVars, failed>>

NotifyClosed ==
  /\ W("closed", "gone")
  /\ WakeProvider
  /\ UNCHANGED <<queueVars, sentence, made, inHand, sent, failed>>

-----------------------------------------------------------------------------
(* The request's thread: httplib's write loop and the content provider.     *)

\* httplib finds the connection writable and calls the provider.  A client that has just
\* gone may still look present.
Call ==
  /\ P("loop", "called")
  /\ UNCHANGED <<queueVars, workerVars, inHand, sent, failed>>

\* The client has gone or takes nothing within the write timeout, or the server is shutting
\* down: httplib abandons the response, and the provider is not told.
GiveUp ==
  /\ P("loop", "dropped")
  /\ UNCHANGED <<queueVars, workerVars, inHand, sent, failed>>

\* The provider has nothing to write and nothing to report.
Wait ==
  /\ P("called", "asleep")
  /\ q = <<>> /\ ~done /\ ~cancelled
  /\ UNCHANGED <<queueVars, workerVars, inHand, sent, failed>>

ProviderWakes ==
  /\ P("asleep", "called")
  /\ UNCHANGED <<queueVars, workerVars, inHand, sent, failed>>

\* Mutant: the front is moved from and not popped.
PopKeeps ==
  /\ P("called", "popped")
  /\ q # <<>>
  /\ inHand' = <<Head(q)>>
  /\ UNCHANGED <<queueVars, workerVars, sent, failed>>

\* The front of the queue is moved out and popped.
Pop ==
  /\ P("called", "popped")
  /\ q # <<>>
  /\ inHand' = <<Head(q)>>
  /\ q' = Tail(q)
  /\ UNCHANGED <<done, cancelled, workerVars, sent, failed>>

\* Mutant: the stream is closed as soon as the worker is done.
FinishAtDone ==
  /\ P("called", "ended")
  /\ done \/ cancelled
  /\ UNCHANGED <<queueVars, workerVars, inHand, sent, failed>>

\* sink.done(), when nothing waits and nothing more will come.  Writing the end may fail,
\* like any write.
Finish ==
  /\ P("called", "ended") \/ P("called", "dropped")
  /\ q = <<>> /\ (done \/ cancelled)
  /\ UNCHANGED <<queueVars, workerVars, inHand, sent, failed>>

\* Mutant: the provider pops and writes without notify_one.
PopSilently ==
  /\ P("popped", "writing")
  /\ UNCHANGED <<queueVars, workerVars, inHand, sent, failed>>

\* notify_one, by the provider.
NotifyPopped ==
  /\ P("popped", "writing")
  /\ worker' = IF worker = "asleep" THEN "pushing" ELSE worker
  /\ UNCHANGED <<queueVars, sentence, made, inHand, sent, failed>>

\* sink.write succeeds.
Write ==
  /\ P("writing", "loop")
  /\ sent' = sent \o inHand
  /\ inHand' = <<>>
  /\ UNCHANGED <<queueVars, workerVars, failed>>

\* It fails, as the client has gone or stalls for longer than the write timeout: the worker
\* is told, with notify_all under the queue's mutex.
WriteFails ==
  /\ P("writing", "dropped")
  /\ cancelled' = TRUE
  /\ worker' = IF worker = "asleep" THEN "pushing" ELSE worker
  /\ UNCHANGED <<q, done, sentence, made, inHand, sent, failed>>

-----------------------------------------------------------------------------
WorkerNext ==
  \/ LockModel \/ Speak \/ EndSentence \/ NextSentence \/ EndSpeech \/ Throw
  \/ Push \/ NotifyPushed \/ Close \/ NotifyClosed

ProviderNext ==
  \/ Call \/ GiveUp \/ Wait \/ Pop \/ Finish \/ NotifyPopped \/ Write \/ WriteFails

Next == WorkerNext \/ ProviderNext \/ WorkerWakes \/ ProviderWakes

(***************************************************************************)
(* Both threads run on: the model's call and each sentence come to an end, *)
(* and a write succeeds or fails.  That the worker ever gets model_mutex is *)
(* not assumed: another stream may keep it, as GoneFreesModel shows.  Nor  *)
(* is a wake-up that comes unprompted.                                     *)
(***************************************************************************)
Fairness == WF_vars(worker # "locking" /\ WorkerNext) /\ WF_vars(ProviderNext)

SafetySpec == Init /\ [][Next]_vars
Spec == SafetySpec /\ Fairness

-----------------------------------------------------------------------------
StreamTypeOK ==
  /\ q \in Seq(1..MaxChunks) /\ Len(q) <= Depth
  /\ done \in BOOLEAN /\ cancelled \in BOOLEAN /\ failed \in BOOLEAN
  /\ worker \in WorkerPoint
  /\ sentence \in 0..Sentences
  /\ made \in 0..MaxChunks
  /\ provider \in ProviderPoint
  /\ inHand \in Seq(1..MaxChunks) /\ Len(inHand) <= 1
  /\ sent \in Seq(1..MaxChunks)

\* The chunks that were pushed: sent, in the provider's hand, or waiting.
Pushed == sent \o inHand \o q

\* Until a write fails, nothing is lost, repeated or reordered on the way: what was
\* sent, what is being written and what waits are the chunks made so far, in order.
InOrder ==
  ~cancelled =>
    Pushed = [i \in 1..(IF worker \in {"pushing", "asleep"} THEN made - 1 ELSE made) |-> i]

\* A stream that is closed properly has delivered every chunk that was made.
NothingMissing == provider = "ended" => sent = [i \in 1..made |-> i]

\* How the answer looks from outside.
Answer == CASE provider = "ended" -> "complete"
            [] provider = "dropped" -> "broken"
            [] OTHER -> "open"

\* The stream keeps what SpeechPipe promises: what has been spoken and not heard is in the
\* queue, in the provider's hand or in enqueue(), and no stream is closed properly before
\* all has been heard.
Piping == INSTANCE SpeechPipe WITH Ahead <- Depth + 2, spoken <- made, heard <- sent, answer <- Answer
ImplementsPipe == Piping!Spec

\* One condition variable serves both sides, and each notify_one comes after the unlock:
\* still, a side sleeps beside what it waits for only while a notify is on its way.
NoLostWakeup ==
  /\ provider = "asleep" /\ (q # <<>> \/ done \/ cancelled) => worker \in {"pushed", "closed"}
  /\ worker = "asleep" /\ (Len(q) < Depth \/ cancelled) => provider = "popped"

\* Once a write has failed, nothing more is queued.
NoPushAfterCancel == [][cancelled => Len(q') <= Len(q)]_vars

\* A worker that has been told gives the model back: the rest of its sentence at most.
CancelFreesModel == cancelled ~> ~HoldsModel

\* A stream whose worker has the model is not stuck: httplib gives it up, or it is closed
\* properly, after all sentences unless the model threw, and the model is given back.
StreamCompletes ==
  HoldsModel ~> \/ provider = "dropped"
                \/ provider = "ended" /\ ~HoldsModel /\ (failed \/ sentence = Sentences)

-----------------------------------------------------------------------------
\* "The worker stops enqueuing so a detached synth does not keep growing the queue /
\* holding model_mutex for audio nobody is reading": once nobody will be sent anything
\* any more, the model is given back.
GoneFreesModel == provider = "dropped" ~> ~HoldsModel
=============================================================================
