# CrispASR: specifications, checks and proofs

CrispASR is a C++ speech toolkit that grew from whisper.cpp: some 140 model
backends behind one interface, a command line, an HTTP server with side servers,
a C ABI and its bindings.  The backends are numeric.  What can be specified, and
what a unit test hardly reaches, is what happens *around* them: who may drive a
model and when, what is read before a lock and used after it, how a stream ends,
and what a cache holds after a long sequence of calls.

This directory holds TLA+ modules for that part, configurations that model-check
them, and theorems checked by TLAPS.  Paths are relative to the repository, which
is at `src/` (so the library is `src/src/`).

## 1. Inventory

### The parts and their state

| part | source | state | operations |
|---|---|---|---|
| worker pool | `src/src/core/worker_pool.h` | free stack, leases, a mutex, a condition variable | acquire, try_acquire, end of a lease |
| transcription dispatch, progress | `crispasr_server.cpp` 518-1080, 1577-1596 | the pool, `model_mutex`, two atomics | choose a backend, transcribe in slices, poll `/progress` |
| model server | `crispasr_server.cpp` 1338-1487, 2220-2414, 2581-3340 | `backend`, `ready`, `model_mutex`, the disclaimer's `once_flag` and PCM | transcribe, translate, synthesize, `/load`, `/health` |
| streamed synthesis | `crispasr_server.cpp` 2957-3142 with `httplib.h` 8853-8870 | bounded queue, `done`, `cancelled`, a detached worker | enqueue, provide a chunk, cancel, finish |
| chat session | `src/src/chat.cpp` | token history, KV cache, session mutex, use count, `retiring` | generate, reset, count tokens, abort, close |
| chat route | `crispasr_server.cpp` 3660-3900 | one session, `chat_call_mutex` | reset and generate as one transaction |
| live translation | `crispasr_live_translate.h`, `..._sink.h` | open sentence and paragraph, `pending_`, `commits_`, draft slot, `rev_queue_`, `final_until_`, the view | commit, draft, translate, revise, skip, finish |
| realtime server | `realtime_server.cpp`, `realtime_turn_buffer.h` | turn buffer, VAD window, the backend's own session | append, evaluate, commit at the cap, on silence, on request |
| model cache | `src/src/crispasr_cache.cpp` | model files, `.src` sidecars, temporary files | search, download, rename, record |
| Wyoming, WebSocket servers | `wyoming.cpp`, `ws_stream.cpp` | client table, running flag | accept, serve, stop |
| reference cache, voices | `tts_ref_cache.h`, `/v1/voices` | files | write beside and rename, upload, delete |
| helpers | `parallel_for.h`, `vad_failover.h`, `audio_chunking.h` | none | partition, fail over, cut |
| policies | `crispasr_marking_policy.h`, `crispasr_voice_clone_policy.h` | none | decisions over a request's fields |
| backends, VAD, LID, aligners | `src/src/*.cpp` | weights, caches | numeric; may throw |

### How they interact

A request runs on a thread of httplib.  A *pure* transcription (explicit language,
no aligner, no post-processing) leases a backend from the pool if one was built;
all else locks `model_mutex` and drives the one resident model.  A streamed
synthesis starts a detached thread that locks `model_mutex` for the whole text and
talks to the request's thread through a queue.  The Wyoming and realtime servers
are handed the model's pointer and the same mutex at startup.  `POST /load`
replaces the model under that mutex.  A voice clone owes a spoken disclaimer,
which the first one synthesizes inside a `call_once`.  The chat session is
separate: a C object with its own mutex, which the chat route shares among
requests.  The live translation stands behind the recogniser of a streaming run: the
caller hands it settled text, one thread translates sentences and drafts, another
revises paragraphs, and both write the transcript.  A realtime session is a thread
of its own that fills turns with the client's audio and transcribes them under
`model_mutex`.  The model cache is a set of directories, shared by all processes of
a user without a lock.

### What is hard, and what makes each part correct

* **Pool**: a notification is sent after the unlock and may be overtaken.
  Correct: each backend in one place; no waiter sleeps beside a free backend.
* **Progress**: pairs of atomic accesses interleave; slices throw.  Correct: the
  count is the number of jobs in flight, an idle server shows -1, a queued
  request does not disturb the running one's reading.
* **Model server**: a handler looks at the model before it waits; `/load` fails in
  several ways; the disclaimer is synthesized both under and outside the mutex.
  Correct: one thread in a model at a time, always the resident one, `/health`
  truthful, the disclaimer there when it is claimed, no deadlock.
* **Streamed synthesis**: a full queue, a client that goes or stalls, a model that
  throws, in every order.  Correct: in order and complete, bounded, no lost wake-up, the
  model given back.
* **Chat session**: histories diverge, truncations are refused, prefills are
  cancelled, close races calls.  Correct: the sampler sees the conversation;
  nobody is inside a freed session; close returns.
* **Chat route**: a request is two calls on a session that all requests share, and the
  reply before it may have left the session out of step.  Correct: a request's own
  conversation is sampled, and no other.
* **Live translation**: the caller meets the two threads at two mutexes, one after the
  other; the slow thread falls behind; all are stopped while their queues are full.
  Correct: translations in order, each sentence finished once, the marker of what is
  final never ahead, nothing lost when `finish` returns.
* **Realtime session**: a turn fills up in the middle of a message, the window before
  the speech becomes the start of the turn, the backend's session fails or throws.
  Correct: every sample in a turn once and in order, or given up for a reason.
* **Model cache**: processes die between a rename and its record, transfers break off,
  two processes download one name.  Correct: no part of a file is ever found, no
  request is given the file of another url (one run shows how the code gives it all the same).

`PROJECT.json` lists each hazard at its line, with the properties that cover it or
the reason none does.

## 2. Modules

| module | what it is |
|---|---|
| `ResourceLease` | abstract: resources with at most one owner each |
| `WorkerPool` | the pool, with its condition variable; implements `ResourceLease` |
| `AsrDispatch` | extends `WorkerPool`: requests on the pool or the primary backend, and the progress atomics; implements `ResourceLease` over all backends |
| `ModelServer` | the resident model, `model_mutex`, `/load`, the disclaimer, the kinds of request |
| `SpeechPipe` | abstract: a speaker a bounded way ahead of a listener; complete, or broken off |
| `SpeechStream` | one streamed synthesis: worker, queue, provider, httplib's loop, client; implements `SpeechPipe` |
| `ChatSession` | one chat session: history against KV cache, calls against close |
| `ChatRoute` | extends `ChatSession`: the server's requests, each two calls under `chat_call_mutex` |
| `Subtitles` | abstract: what a reader of the live translation sees; each sentence translated once, in order, and finished once |
| `LiveTranslate` | the sink of the live translation: caller, translator, reviser; implements `Subtitles` |
| `RealtimeTurn` | one realtime session: messages, VAD window, turn, the backend's session |
| `ModelCache` | directories, sidecars and downloads of several processes that may die |
| `MC*` | constants for TLC |
| `*Proofs` | theorems of the module they are named after; `ChatProofs` of `ChatSession` and `ChatRoute` |

A definition whose comment begins with "Mutant" is no part of the model: it is the
definition below it with a mistake somebody could make, and `PROJECT.json` names
the property that such a mistake violates.

**Steps.**  What the code does under one of its small mutexes (the pool's, the
queue's, the session's `life`) is one step.  What it does outside is a step of its
own: the `notify_one` after an unlock, the return from `cv.wait`, each access to an
atomic, each look at `backend`.  The long mutexes (`model_mutex`, the session's
`mu`) are variables that hold their owner.  A call of a model is a state in which
the thread stays until the call returns or throws.

**WorkerPool.**  `free` is `free_` with its top last; `lease` is what the
thread's `Lease` points to; `pc` tells where it is in `acquire()` and `~Lease()`.
`SpuriousWakeup` is the standard's permission to return from `wait` unprompted.

**AsrDispatch.**  `stage` follows `do_transcribe` through the constructor of
`progress_scope` (`Count`, `Zero`), the slice loop (`StartSlice`), the
post-processing (`Post`) and the destructor (`Uncount`, `Clear`).  `Uncount` is
possible from the loop on, because a slice may throw; `NotCounted` is the leased
request whose audio does not decode.  The choice between pool and primary is free,
as it depends on the request's fields.  `ServedBy` is whom each backend serves: the
holder of a pooled backend's lease, and the holder of `model_mutex` for the primary.

**ModelServer.**  A model is the number of the load that brought it.  A request's
kind says when it names the model: a transcription before the wait (`Look`), a
synthesis, translation, speech-to-speech or SSE transcription again under the
mutex (`Lock`), a side server at startup (`ptr` 0), a buffered clone once more
after the unlock (`Ask`).  `Queues` are the kinds that are streamed: their worker is in
the model and in `enqueue()` by turns, which `SpeechStream` looks at closely.  `CallOnce`, `Spoken` and `DisclaimerThrows` are
`std::call_once`.  `/load` is `LoadLock`, then one of `LoadRefused`, `LoadThrows`
and `Swap`, then `Loaded`.  With a worker pool `/load` answers 409, so this module
has none.  The handlers that lock without checking `ready` are the side servers'.

**SpeechStream.**  A chunk is its number in the order of synthesis.  `Speak` is one
call of `push_pcm` or `enqueue`; `EndSentence` may come at any time, so a sentence
has any number of chunks, also none.  A client that has gone, one that takes nothing
within the write timeout, and a shutdown look the same from here, and may come at any
time: `WriteFails` is the provider's own write, which tells the worker, `GiveUp` is
httplib's test before it calls the provider, which tells nobody, and in `Finish` the
write of the end may fail.  `failed` is the flag the catch sets when the model throws; the
code never reads it, and here only a property does.  `Answer` and the
mapping `Piping` hide the queue, the waits and the notifications: `Speak` is the
abstract `SpeakOn`, `Write` is `Hear`, `Finish` is `Complete`, and a stream that is
given up, by either side of the two, is `BreakOff`; all else is hidden.

**ChatSession.**  The KV cache is the sequence of tokens decoded since it was last
emptied, and `seen` the cache at the last decode, which is what the next sample is
drawn from.  `Prepare` is `prepare_prompt`, with a `seq_rm` that may refuse;
`Prefill` is one batch; `Say`, `Stop`, `EndReply` and `CancelReply` are the ways an
iteration of the decode loop ends.  `cut` is an auxiliary variable: a reply ended at a
stop sequence since the cache was last emptied.  Callers obey the header's rule that
no call starts on a freed session (`Enter` and `Close` require `~freed`).

**ChatRoute.**  `viaRoute` chooses between the two programs there are: callers of the C
ABI (`Next` as it is) and the server, where `Open` is `ensure_chat_session`, `Arrive`
locks `chat_call_mutex`, `Serve` lets the steps of `ChatSession` happen as the request's
`leg` allows them, `Done` returns from one of the two calls and `Depart` unlocks.

**LiveTranslate.**  A piece of settled text is its id, and a sentence goes by the id of
its first piece.  `Collect` is what `on_partial`, `on_pause` and `on_final` do under
`rev_mu_`, `Hand` what they do afterwards under `mu_`: between the two, a paragraph is
queued whose sentences the translator has not been given.  Which pieces end a sentence
is free.  `TakeSentence`, `TakeDraft`, `Translated`, `Drafted`, `LeaveFast` are `run` and
`execute`; `TakeParagraph`, `StartRevision`, `StopYielding`, `Revised`, `LeaveSlow` are
`run_reviser` and `revise`.  `StopYielding` is the 200th look: time is not modelled, so
it may come at once, and a paragraph may then be revised before its sentences have
been translated.  The fast entry is then added beside the revision, and the sentence
stands in the view twice; `TwiceOnlyWhenLate` says that this is the only way to it.  The
sentences of `doc` (`Shown`) are a set in the other properties: they say that none is
missing, not that none is there twice.
`Reading` hides the threads and their queues: a sentence is spoken when `Collect` has it
(`Heard`), `Translated` is the abstract `Translate`, `Revised` is `Revise`, `Update` is `Speak`
(a backlog that overflows gives sentences up for new ones), and the caller's return from its
second join is `End`.

**RealtimeTurn.**  A sample is its number.  `Receive` is `append_with_vad` (or
`append_asr` alone, without detection) up to its first call that may fail; `AppendChunk` is one
round of the loop in `append_asr`; `VadFails`, `Onset`, `Stopped` and `NothingNew` are the
ways an evaluation ends; `Complete` and `CommitThrows` are `handle_commit`.  What throws is
caught in the loop over messages, so the rest of the message goes with it.  `settled`,
`intact` and `torn` are auxiliary: up to where samples are in a turn or given up, whether
the backend's session has not thrown in this turn, and whether a sample has been lost in the
turn or may be in it twice (a call has thrown, or a window that is in the turn is appended
again).

**ModelCache.**  `Ask`, `Probe`, `Hit` and `OtherSource` are the search of
`ensure_cached_file`, one look at a directory or a sidecar each; `Begin`, `Receive`,
`Complete` and `Break` are the runs of curl and wget; `Publish` is the rename and `Record`
the sidecar, which may also fail (`RecordFails`) and leaves the old one then, an empty one, or
a part of one.  `Crash` is possible everywhere.

## 3. Runs

| run | checks | result |
|---|---|---|
| `asr_dispatch` | the pool in the server: 3 threads, 2 pooled backends and the primary, 3 slices; with and without a pool | holds |
| `model_server` | 3 threads, all kinds of request, 1 successful load, any number of failed ones | holds |
| `speech_stream` | queue of 2, disclaimer and 2 sentences, up to 6 chunks | holds |
| `chat_session` | `ChatRoute`: 2 threads as callers or as requests, 2 tokens, prompts to 3, replies to 2, batches of 2 | holds |
| `live_translate` | 4 pieces of text in any sentences and utterances, paragraphs of 2 or whole utterances, backlog of 1 | holds |
| `model_cache` | 2 processes, 2 urls of one name, 2 directories, 2 fetchers | holds |
| `realtime_turn` | 10 samples in messages of up to 4, turns of 3, with and without detection and backend session | holds |
| `model_server_disclaimer` | `OneAtATime` | violated: the disclaimer of a buffered clone runs outside `model_mutex` |
| `model_server_swap` | `NoDestroyedModel`, with transcriptions and loads | violated: a pointer read before the wait outlives the model `/load` destroys |
| `speech_stream_gone` | `GoneFreesModel` | violated: httplib gives the response up, the worker sleeps with the model |
| `chat_session_stop` | `AlwaysConversation` | violated: the token of a stop sequence is in the history and not in the cache |
| `model_cache_race` | `NeverMislabelled` | violated: file and sidecar are written, and looked at, one after the other |

Each violated property is a sentence of the repository's documents or comments;
`PROJECT.json` quotes it under "findings" with the line of code that departs from it.
`NoDestroyedModel` is checked on a server of transcriptions and loads, so that its trace is the
transcription that the finding describes.  With side servers (`Kinds = {"side", "load"}`) TLC
violates it as well: their pointer is the one of startup (`crispasr_server.cpp` 3994, 4016).

### What the passing runs show

* `Conserved`, `ImplementsLease`: no interleaving shares or loses a backend.
  `ImplementsServing`: nor does the server as a whole, where one request leases and
  another locks `model_mutex`: all backends together are one abstract lease.
  `NoLostWakeup`, `WaitersServed`: the late `notify_one` is harmless, because each
  free resource is matched by a notification on its way or a thread about to look.
* `BusyHonest`: the count is right with and without a pool, however a job ends.
  `IdleSettles`: no late store leaves a percentage on an idle server.
  `SerialMonotone`: without a pool the slot falls only to -1, when no job is left
  (`SerialProgress`, that it is the running job's alone, is proved and not run).  With
  a pool the documents promise less (last writer wins), and nothing more is checked.
* `Serialized`, `ResidentServes`: what is under `model_mutex` is right.
  `DisclaimedFirst`, `MutexFreed`: the `call_once` that is entered both with and
  without the mutex neither lets a request past nor deadlocks.  `MutexFreed` ends where a
  streaming worker comes to its chunks: whether it gets through them is not for the server
  alone to say, and `speech_stream_gone` shows that it may not.
* `InOrder`: the stream is what was made, until a write fails.  `ImplementsPipe`: the
  worker is never more than the queue and two chunks ahead of what the client has (one
  in its own hands, one in the provider's), and a stream that ends properly
  was all of it.
  `NoLostWakeup`: one condition variable is enough for two sides.
  `CancelFreesModel`: a worker that is told stops.
  `StreamCompletes`: a worker that has the model does not hang unless httplib gives the
  response up; the stream is then closed properly, after every sentence or after a throw,
  and the model given back.
* `SamplesConversation`, `HistoryIsCache`: truncation, refusal, cancellation,
  failed decodes and resets all keep history and cache together; only a stop
  sequence does not.  `NoneInsideFreed`, `CloseReturns`: close waits for who is
  in, and returns, whoever comes meanwhile.  `RouteConversation`: on
  the server's route the reset before each request takes away what a stop sequence has
  left, and the mutex around both calls keeps every other request out, so the
  violation of `chat_session_stop` is not to be seen there.
* `OldestPending`: the two queues of the translator never disagree, and translations
  come in the order of the speech.  `FinalOnce`: a sentence is revised or skipped and
  not both, also when the backlog drops a paragraph in the moment the reviser takes
  one, and the marker is never ahead of a sentence that may still change.
  `NothingLost`, `FinishReturns`: `finish` stops both threads, with all they were given done.
  `TwiceOnlyWhenLate`: a revision replaces every entry it covers, wherever the fast pass is;
  a sentence stands in the transcript twice only when the reviser has stopped waiting and
  its translation comes back after its revision.  `docs/streaming.md` 566-568 and the comment
  at line 499 of the sink do not mention that case.
  `ImplementsSubtitles`: to a reader the three threads are one: each sentence translated
  once and in order, shown from then on (a revision that replaces entries loses none), and
  final once; the marker only goes forward; and nothing changes after `finish`.
* `NeverCut`, `OwnBytes`: no search finds a part of a download, and two downloads of one name
  at once do not exchange their bytes, as each has a temporary file of its own.  Both are
  about the file.  File and sidecar together are another matter: `model_cache_race` shows a
  process that reads the old sidecar of a file which another has just replaced.  One
  process alone violates `NeverMislabelled` too, if it dies between the rename and the
  sidecar or fails to write it (`Crash`, `RecordFails`): the mismatch then stays, and its next
  request meets it; the trace with two processes is one step shorter.
  `Answered`: a request ends.
* `AllSettled`, `OnceInOrder`: no sample is dropped at the cap ("without dropping overflow",
  `docs/server.md` 811) or taken twice at the onset.  One case is left out, by `Again`:
  a detection that fails to load in mid-speech appends the window again, up to three
  seconds of which are in the turn already (`realtime_server.cpp` 404).
  `UnbrokenTurn`: a turn in which nothing has failed is one piece of the recording, up to
  the last sample settled, however messages, onsets and the cap have cut it.
  `NativeHearsTurn`: falling back to the whole turn gives the same audio.

### The bounds and why they are enough

* `Threads`, `Workers`: three threads over two pooled backends, so that one waits, another
  takes what it was notified of, and two jobs overlap beside one on the primary.
* `Slices = 3`: a first, a middle and a last slice, with 33 and 66 percent between.
* `MaxLoads = 1`: a model before and one after; failed loads are unbounded.  A
  second swap adds no new relation between a pointer and the resident model.
  Two threads suffice for the violations of `ModelServer`, each with the kinds of
  request that its finding is about.
* `Depth = 2`, `MaxChunks = 6`: the queue fills, drains and fills again.
  `kMaxQueueDepth` is 64 in the code; the proofs hold for every depth.
* `MaxPrompt = 3`, two tokens: prompts that continue the history, diverge at each
  position, repeat it or are a strict prefix of it.  `Batch = 2` against three
  tokens gives prefills of one and of two batches.
* `MaxPieces = 4`, `ParaLen = 2`, `Backlog = 1`: a paragraph in the reviser's hands, one in
  the queue and one that drops it need three sentences; the fourth piece makes a
  sentence of two pieces beside them, which leaves a gap in the ids.
* `Dirs = 2`, `Fetchers = 2`: a file found behind another url's, a fetcher that fails before
  one that does not.  Two processes and two urls are what two renames and two
  records of different files need.  Requests and crashes are unbounded.
* `MaxSamples = 10` against turns of 3 and messages of 4: a message that fills one turn and
  the next, an onset whose window fills a turn, and speech after the speech.

Deadlock is checked in `asr_dispatch` and `model_server`.  It is off
in `speech_stream`, which ends when the stream has ended, in `chat_session`, which
ends when the session has been freed, and in `live_translate`, which ends when
`finish` has returned.  It is checked in `model_cache`, and in `realtime_turn`, where a
client can always commit.

### Fairness

* `AsrDispatch` (`WorkerPool` has none of its own): a slice returns or throws, and a thread
  that waits for nothing runs on.  That leases end follows from the steps of the jobs
  they are held for.  No request has to arrive, no wake-up comes unprompted, and a
  thread that waits for `model_mutex` need not get it.
* `ModelServer`: a thread that holds `model_mutex` or is inside the `call_once` runs
  on and what it calls returns, except a streaming worker in its chunks, which may sleep in
  `enqueue()` for good.  `std::mutex` is not fair, so nothing is assumed of
  the threads that wait for it, and no property says that one of them is served.
* `SpeechStream`: both threads run on; a sentence ends; a write succeeds or fails.  That
  the worker ever gets `model_mutex` is not assumed, as another stream may keep it: the
  properties start where it has it.  No wake-up comes unprompted.
* `ChatSession`: a call that has the mutex runs on, a decode returns; a thread that
  waits gets the mutex once it could have it for ever.  As the session retires
  before close waits, only finitely many calls are ahead of it.

* `LiveTranslate`: both threads run on and the translators return; the caller completes an
  update and its joins.  Nothing is assumed of the speaker, nor that `finish` is called.
* `ModelCache`: a process that asks goes on and a fetcher comes to an end, with its file
  or without.  `Receive`, one more piece of the file, is not under fairness.
* `RealtimeTurn` has none and needs none: its properties are of safety.

Models that never return (a hung backend) are outside these assumptions.

## 4. Proofs

TLC checks the instances above; the theorems hold for all values of the constants
that satisfy the modules' named assumptions.  Every invariant that a passing run checks, every
action property and every refinement is stated by a theorem.

**`WorkerPoolProofs`** (`PoolAssumption`: finite sets, at least one resource).
`TypeCorrect` and `ConservedAlways` need the lemmas on what `Append` and the
removal of the last element do to the places of a resource.  `NoLostWakeupAlways`
is by counting: the stack grows only in `GiveBack`, which also adds a thread that
will notify; a thread leaves "notify" only by waking a waiter or when nobody waits;
a woken thread goes back to waiting only when the stack is empty.  `Implements` is
the refinement: `OwnerOf` maps the leases to owners, `Acquire` and a successful
`Retake` to `Take`, `GiveBack` to `Return`, all else to a stutter.

**`ModelServerProofs`** (`ServerAssumption`).  `Serialized` is not inductive: it
speaks of threads in the model, while a mutex's owner may be elsewhere under its
guard.  `LockInv` says exactly where: a thread owns the mutex if and only if its
position and kind put it inside a guard.  With `KindInv` (which kinds reach which
positions), `ResidentInv` and `OnceInv` this makes `IInv`, which every action
preserves; the properties follow from it.
Two more theorems say how far the sentences that violation runs refute are true.
`OneAtATimeWithoutClones`: one thread at a time in each model, on a server that serves no
buffered voice clone, whatever else it serves.  `SwapSafeUnderMutex`: no destroyed model is
driven where all requests name the model under the mutex.  Their hypotheses are on the constant `Kinds`, which is
any set of kinds of request; their invariant `ServedKinds` ties a request's position
to its kind.

**`SpeechStreamProofs`** (`StreamAssumption`: a depth of at least one).  The
invariant joins the types, the numbering of the chunks pushed so far (`InOrder`), the
positions that exclude one another, and the wake-up condition.  Everything about
the queue's contents rests on the concatenation `sent \o inHand \o q`, which a pop or
a write leaves as it is and a push extends by one.  `StreamImplementsPipe` is the refinement:
the queue's cap bounds how far `Speak` may be ahead, the numbering makes the chunk that
`Write` delivers the next one, and `CompleteWhenEnded` (an ended stream has an empty
queue and nothing in hand) makes `Finish` the abstract `Complete`, which is why the
worker's `done` has to come after its last push; if the end cannot be written, it is
`BreakOff`.

**`AsrDispatchProofs`** (`PoolAssumption`, `SlicesAssumption`).  `BusyHonest` equates the
atomic with the cardinality of the set of jobs in flight; the lemmas on adding and
removing one element carry it.  `IdleSettles` follows from `Shown`: a percentage is there
only while a counted job runs, or while the one that counted down to zero has still
to clear it.  Without a pool (`Alone`), the mutex's owner is the only job past the mutex
and the slot reads -1 before and after its loop, which gives `SerialProgress` and
`SerialMonotone`.  The pool's own invariant is part of `DispatchInv`, as leases and
stages go together.
`DispatchUsesPool`: a step of the dispatcher is one of the pool or leaves it alone, so that
what is proved of the pool holds in the server (`DispatchKeepsPool`).  Exclusion among
all jobs needs more: who holds `model_mutex` has no lease, and a lease is only held for
a job (`Held`).  With it, two jobs never have one backend (`OneJobPerBackendAlways`), and
pool and mutex together implement `ResourceLease` with the primary as one more resource
(`DispatchImplementsServing`): the pool's refinement gives the step of the pooled backends, to
which the mutex adds that its holder owns none of them.

**`ChatProofs`** (`ChatAssumption`), first the session.  `SessionInv` says that the thread which holds
`mu` is the only one that works (`Owner`), and what `history`, `cache`, `todo` and `full` have
to do with one another at each of its positions (`Agrees`): while a prefill is under
way, the cache and what is still to be decoded make up the prompt; while a reply is
sampled, the cache and the last logits are the prompt and the reply; at rest, history,
cache and last logits are one.  `SamplesConversation` and `HistoryIsCache` are two of
these cases.  `NoneInsideFreed` is inductive, as a freed session lets nobody in.

Then the route.  `RouteIsCaller`: every step of the route is one of the session or
leaves it alone, so the specification of the route implements that of the session
and inherits its theorems.  `RouteConversationAlways` adds what only the route has
(`Turns`): the reset of a request ends with `cut` false, and as nobody else is in the session
until the request departs, it is false until the reply's own stop sequence, its last step.

**`ModelCacheProofs`** (`CacheAssumption`).  A process's temporary file is its own and holds
its url's bytes in full when it has been fetched (`Whole`), whatever the other processes
do: every step of theirs writes their own.  This gives `NeverCut`, and as `Publish` renames
nothing else, `OwnBytes`.

**`RealtimeTurnProofs`** (`TurnAssumption`).  The invariant says where the samples are that are
not settled: in `rest` while a message is appended, in `window` before the speech, and
nowhere else.  Both are runs of consecutive samples, so that four lemmas (joining two
runs, cutting one, keeping its end) do the work at the cap and at the onset.
`UnbrokenTurn` needs two facts more (`Whole`): before the speech there is no turn unless one is
torn, so that the silence given up then leaves no hole, and a turn to which a
window is appended again is torn.

**`LiveTranslateProofs`** (`LiveAssumption`).  None of the sink's properties is inductive: each speaks
of some of the places a sentence may be in, while a step moves it between others.
`LiveInv` says where every sentence is, in both passes.

* The fast pass (`InOrder`): `translated \o pending \o handing` are the sentences that have ended,
  ascending, all before the open one, and `pending` is what the translator has in its
  hands followed by what waits.  `OldestPending` is read off it, and it holds because
  one thread takes and finishes sentences; the caller only appends.
* The slow pass (`Parted`): the same sentences, each of them in exactly one of the open
  paragraph, the queue, the reviser's hands, `revised` and `skipped`.  The backlog that drops
  the oldest paragraph while the reviser takes one keeps them apart because both are done under
  `rev_mu_`.  This gives the first two parts of `FinalOnce`.
* The marker (`Marked`): all ids up to it are final.  With `Parted` none of them is
  open, the third part; a marker that skipped a gap in the ids could not be shown to
  keep this.  `MarkerForwardAlways` adds that it never goes back.
* The transcript (`InTranscript`): an entry is one translation, or part of a revision.
  A revision that replaces entries therefore takes away only sentences that it shows itself.
  `TwiceOnlyWhenLateAlways` rests on it and on the passes: a translation that comes back is new
  to the fast pass, as `translated \o pending` ascends (`AscendingParts`), so what is there
  already is a revision; and a revision covers each entry whose sentence it revises.
* The end (`Retreat`): in which order caller, translator and reviser leave, with what
  behind them.  When `finish` has returned all queues are empty, and `NothingLost` is
  what is left of the other four parts.

`LiveImplementsSubtitles` is the refinement.  `InOrder` makes the sentence that `Translated`
takes off the front of `pending` the next one of `Heard` (`OldestTranslated`), and `Update`
extend `Heard` at its end (`UpdateSpeaks`).  `Parted` keeps what is skipped or revised apart, so
that `Speak` skips and `Revise` revises only sentences that were neither.  `Retreat` empties the
queues before `End`.  All other steps move a sentence between places that the reader does
not see (`OthersUnseen`).

The least entry that a revision replaces is found by well-founded induction on the natural
numbers (`LeastOne`), from the library's theorem on minimal elements.

**Proved and not run**: `ReadyMeansResident`, `NoPushAfterCancel`, `NothingMissing` (which the pipe
implies), `SerialProgress`, `OneJobPerBackend`, `MarkerForward`, the types of the chat session, its route and the model cache
(`SessionTypeOK`, `RouteTypeOK`, `CacheTypeOK`), and the two theorems
about servers that serve only some kinds of request.  `PoolTypeOK` is a part of `DispatchTypeOK`.

**Only model-checked**: all liveness properties (`WaitersServed`, `MutexFreed`,
`CancelFreesModel`, `StreamCompletes`, `CloseReturns`, `FinishReturns`, `Answered`), as the
prover does not handle fairness and ENABLED.  The proofs use the specifications
without fairness.  That a pass over a queue of any length computes what it should would
need induction over data; the models have such passes as one set or function
(`Sentences`, `Replaced`), so that no theorem has to go through them step by step.

## 5. What is not modelled

* The backends' numerics, audio decoding, formats, text processing, authentication,
  consent records: a call is a step with the outcomes the caller tells apart.
* Server shutdown: the detached workers and the side servers' threads against the
  end of the server's function.
* What a reply contains, in particular the sample rate read before the lock.
* Data races on plain strings (`backend_name` in `/health`).
* `GET /progress` itself: it reads two atomics and changes nothing.
* Move assignment of leases; `available()` and `size()`.
* Opening a chat session, its memory estimate and its template.
* How the committer of the live translation finds out what the recogniser's hypotheses
  agree on, its synchronous mode, translations ahead of time, and the view's texts.
* The realtime and Wyoming listeners, WebSocket frames, and the client tables.
* The fetchers built into the Windows and libcurl builds, the checks of a file's contents,
  and two threads of one process in the cache at once: its counter of temporary
  names is a plain `static int`.
* Exceptions of `/load` after it has cleared `ready`: modelled (`LoadThrows`), but no property
  is about the 503 that remains, as no document promises otherwise.
* Voices: one check and one write of a file each.
* The bulk of the repository: some 140 numeric backends, vendored libraries, examples,
  bindings.  The lines that keep shared state and wait for one another are few, and
  they are what the modules are about.

## 6. Status and what could follow

Done: the pool with its refinement, dispatch as one lease of all backends, the model server,
streamed synthesis with its refinement, the chat session and the route on top of it, the live
translation with its refinement, the model cache and the realtime turns; proofs of every safety
property and every refinement of theirs.

What could follow, in this order:

1. `Shutdown`: side servers, detached workers and the end of the server's function.
2. `SpeechStream` composed with a second user of `model_mutex`.
3. The reference cache, on the pattern of `ModelCache`.
4. The model cache as a refinement: a directory as a register that is written whole.
5. Pure operators: the partition of `parallel_for`, the marking policy's table.
