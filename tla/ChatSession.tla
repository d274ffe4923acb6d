------------------------------ MODULE ChatSession ------------------------------
(***************************************************************************)
(* A chat session of the C ABI (src/chat.cpp): the tokens in the model's   *)
(* KV cache, the `history` that is to name them, the mutex that admits one *)
(* call at a time, and the hold that crispasr_chat_close waits for.        *)
(*                                                                         *)
(* Each generate call renders the whole conversation; only the part of it  *)
(* that the history does not already have is decoded.  So the sampler sees *)
(* the conversation only as long as history and cache agree, through       *)
(* divergent prompts, caches that refuse a partial removal, cancellations, *)
(* failed decodes, and the ways a reply can end.                           *)
(*                                                                         *)
(* A token is a model value; decoding a batch appends it to the cache, as  *)
(* llama_batch_get_one continues at the cache's end.  Callers obey the     *)
(* header's rule: no call starts on a session that has been freed.         *)
(***************************************************************************)
EXTENDS Integers, Sequences, FiniteSets

CONSTANTS Threads,     \* the threads that call
          Nobody,      \* the owner of a free mutex
          Tokens,      \* the vocabulary, without the end-of-generation token
          MaxPrompt,   \* bound: tokens in a rendered conversation
          MaxTokens,   \* max_tokens: tokens in a reply
          Batch        \* llama_n_batch: tokens in one decode

ASSUME ChatAssumption ==
  /\ IsFiniteSet(Threads)
  /\ Nobody \notin Threads
  /\ MaxPrompt \in Nat \ {0}
  /\ MaxTokens \in Nat \ {0}
  /\ Batch \in Nat \ {0}

VARIABLES
  history,    \* history
  cache,      \* the tokens of the KV cache, in order
  seen,       \* the cache when the model last computed logits
  mu,         \* the thread that holds the session's mutex, or Nobody
  retiring,   \* retiring
  freed,      \* the session has been deleted
  pc,         \* where each thread is
  full,       \* the rendered conversation of the running generate call
  todo,       \* prompt_new, what remains of it
  said,       \* the tokens of the running reply
  cut         \* a reply has ended at a stop sequence since the cache was last emptied

kv == <<history, cache, seen, cut>>
turn == <<full, todo, said>>
life == <<retiring, freed>>
vars == <<history, cache, seen, mu, retiring, freed, pc, full, todo, said, cut>>

(***************************************************************************)
(* "idle"      outside the session                                         *)
(* "held"      counted in, waiting for the mutex                           *)
(* "locked"    the mutex taken, nothing done                               *)
(* "prefill"   decoding what is new of the prompt                          *)
(* "sampling"  at the top of the decode loop                               *)
(* "leaving"   the mutex released, still counted in                        *)
(* "closing"   in crispasr_chat_close, waiting for the count to reach zero *)
(***************************************************************************)
Point == {"idle", "held", "locked", "prefill", "sampling", "leaving", "closing"}

\* The threads that in_use counts.
Inside == {t \in Threads : pc[t] \notin {"idle", "closing"}}

Prompts == UNION {[1..n -> Tokens] : n \in 1..MaxPrompt}

Init ==
  /\ history = <<>> /\ cache = <<>> /\ seen = <<>>
  /\ mu = Nobody
  /\ retiring = FALSE /\ freed = FALSE
  /\ pc = [t \in Threads |-> "idle"]
  /\ full = <<>> /\ todo = <<>> /\ said = <<>>
  /\ cut = FALSE

Go(t, from, to) ==
  /\ pc[t] = from
  /\ pc' = [pc EXCEPT ![t] = to]

\* The first n tokens of s, and the rest.
Take(s, n) == SubSeq(s, 1, n)
Drop(s, n) == SubSeq(s, n + 1, Len(s))

Least(m, n) == IF m <= n THEN m ELSE n

-----------------------------------------------------------------------------
(* Entering and leaving.                                                    *)

\* session_hold: a call is counted in, unless the session is retiring (then it is declined).
Enter(t) ==
  /\ Go(t, "idle", "held")
  /\ ~freed /\ ~retiring
  /\ UNCHANGED <<kv, mu, life, turn>>

LockMu(t) ==
  /\ Go(t, "held", "locked")
  /\ mu = Nobody
  /\ mu' = t
  /\ UNCHANGED <<kv, life, turn>>

\* A call that has the mutex gives it back.
Return(t, from) ==
  /\ Go(t, from, "leaving")
  /\ mu' = Nobody
  /\ full' = <<>> /\ todo' = <<>> /\ said' = <<>>
  /\ UNCHANGED life

\* ~session_hold.
Leave(t) ==
  /\ Go(t, "leaving", "idle")
  /\ UNCHANGED <<kv, mu, life, turn>>

\* llama_memory_clear and history.clear().
Flush ==
  /\ history' = <<>> /\ cache' = <<>> /\ seen' = <<>>
  /\ cut' = FALSE

\* crispasr_chat_reset.
Reset(t) == Flush /\ Return(t, "locked")

\* count_tokens, set_abort_callback, and a prompt that renders or tokenizes to nothing.
Query(t) == Return(t, "locked") /\ UNCHANGED kv

-----------------------------------------------------------------------------
(* generate and generate_stream.                                            *)

\* The length of the longest common prefix of the history and p, the set's one member.
Common(p) ==
  {n \in 0..Least(Len(history), Len(p)) :
     /\ \A i \in 1..n : history[i] = p[i]
     /\ n < Least(Len(history), Len(p)) => history[n + 1] # p[n + 1]}

\* Mutant: the common prefix is kept even when it is the whole prompt.
KeptWhole(p, common) == common

\* What of the history is kept: all of it when p continues it; else the common prefix,
\* less one token when that is the whole of p, so that something is decoded.
Kept(p, common) ==
  IF common < Len(history) /\ common = Len(p) THEN common - 1 ELSE common

\* A history that p continues stays as it is.
KeepAll(k) == k = Len(history) /\ UNCHANGED kv

\* Another one is cut down to k tokens, in the cache by llama_memory_seq_rm.
KeepSome(k) ==
  /\ k < Len(history) /\ k > 0
  /\ history' = Take(history, k)
  /\ cache' = Take(cache, Least(k, Len(cache)))
  /\ UNCHANGED <<seen, cut>>

\* prepare_prompt.  Where nothing is common, or the cache refuses the partial removal,
\* cache and history are emptied and the whole of p is new.
Prepare(t) ==
  /\ Go(t, "locked", "prefill")
  /\ \E p \in Prompts : \E common \in Common(p) :
       LET k == Kept(p, common)
       IN /\ full' = p
          /\ \/ KeepAll(k) /\ todo' = Drop(p, k)
             \/ KeepSome(k) /\ todo' = Drop(p, k)
             \/ k < Len(history) /\ Flush /\ todo' = p
  /\ UNCHANGED <<mu, life, said>>

\* llama_decode of a batch succeeds.
Decode(batch) ==
  /\ cache' = cache \o batch
  /\ seen' = cache'

\* One piece of the prompt; behind the last one the history takes the whole of prompt_new,
\* which is the conversation from where the history ended.
Prefill(t) ==
  /\ Go(t, "prefill", "prefill")
  /\ todo # <<>>
  /\ Decode(Take(todo, Least(Batch, Len(todo))))
  /\ todo' = Drop(todo, Least(Batch, Len(todo)))
  /\ UNCHANGED <<history, cut, mu, life, full, said>>

\* A reply is asked for.
Prefilled(t) ==
  /\ Go(t, "prefill", "sampling")
  /\ todo = <<>>
  /\ history' = full
  /\ UNCHANGED <<cache, seen, cut, mu, life, turn>>

\* prefill_only.
PrefillOnly(t) ==
  /\ todo = <<>>
  /\ history' = full
  /\ UNCHANGED <<cache, seen, cut>>
  /\ Return(t, "prefill")

\* Mutant: a cancelled prefill leaves the pieces it has decoded in the cache.
CancelKeepsCache(t) ==
  /\ todo # <<>>
  /\ UNCHANGED kv
  /\ Return(t, "prefill")

\* A cancellation before a piece, or a decode that fails, empties cache and history.
CancelPrefill(t) ==
  /\ todo # <<>>
  /\ Flush
  /\ Return(t, "prefill")

\* The token sampled is decoded, and the loop goes on.
Say(t) ==
  /\ Go(t, "sampling", "sampling")
  /\ Len(said) < MaxTokens
  /\ \E x \in Tokens :
       /\ said' = Append(said, x)
       /\ history' = Append(history, x)
       /\ Decode(<<x>>)
  /\ UNCHANGED <<cut, mu, life, full, todo>>

\* The token sampled completes a stop sequence: it is in the history and is not decoded.
Stop(t) ==
  /\ Len(said) < MaxTokens
  /\ \E x \in Tokens : history' = Append(history, x)
  /\ cut' = TRUE
  /\ UNCHANGED <<cache, seen>>
  /\ Return(t, "sampling")

\* The end-of-generation token is sampled, or max_tokens is reached.
EndReply(t) == Return(t, "sampling") /\ UNCHANGED kv

\* A cancellation before a token, or a decode that fails.
CancelReply(t) ==
  /\ Len(said) < MaxTokens
  /\ Flush
  /\ Return(t, "sampling")

-----------------------------------------------------------------------------
(* crispasr_chat_close.                                                     *)

\* Mutant: the session does not retire, so calls keep coming in while close waits.
CloseOpen(t) ==
  /\ Go(t, "idle", "closing")
  /\ ~freed /\ ~retiring /\ \A u \in Threads : pc[u] # "closing"
  /\ UNCHANGED <<kv, mu, life, turn>>

\* The session retires; close waits.  (A second close returns at once.)
Close(t) ==
  /\ Go(t, "idle", "closing")
  /\ ~freed /\ ~retiring
  /\ retiring' = TRUE
  /\ UNCHANGED <<kv, mu, freed, turn>>

\* Mutant: close frees without waiting for the count.
FreeAtOnce(t) ==
  /\ Go(t, "closing", "idle")
  /\ freed' = TRUE
  /\ UNCHANGED <<kv, mu, retiring, turn>>

\* The count is zero, and the session is freed.
Free(t) ==
  /\ Go(t, "closing", "idle")
  /\ Inside = {}
  /\ freed' = TRUE
  /\ UNCHANGED <<kv, mu, retiring, turn>>

-----------------------------------------------------------------------------
Work(t) ==
  \/ Reset(t) \/ Query(t) \/ Prepare(t) \/ Prefill(t) \/ Prefilled(t) \/ PrefillOnly(t)
  \/ CancelPrefill(t) \/ Say(t) \/ Stop(t) \/ EndReply(t) \/ CancelReply(t)

Next ==
  \E t \in Threads :
    Enter(t) \/ LockMu(t) \/ Work(t) \/ Leave(t) \/ Close(t) \/ Free(t)

(***************************************************************************)
(* A call that has the mutex runs on, a model's decode returns, and a      *)
(* thread that waits for the mutex or for the count gets its turn once it  *)
(* could have had it for ever.  The mutex itself need not be fair: calls   *)
(* stop coming when the session retires.                                   *)
(***************************************************************************)
Fairness == \A t \in Threads : WF_vars(LockMu(t) \/ Work(t) \/ Leave(t)) /\ WF_vars(Free(t))

SafetySpec == Init /\ [][Next]_vars
Spec == SafetySpec /\ Fairness

-----------------------------------------------------------------------------
SessionTypeOK ==
  /\ history \in Seq(Tokens) /\ cache \in Seq(Tokens) /\ seen \in Seq(Tokens)
  /\ mu \in Threads \cup {Nobody}
  /\ retiring \in BOOLEAN /\ freed \in BOOLEAN /\ cut \in BOOLEAN
  /\ pc \in [Threads -> Point]
  /\ full \in Seq(Tokens) /\ todo \in Seq(Tokens)
  /\ said \in Seq(Tokens) /\ Len(said) <= MaxTokens

Sampling == \E t \in Threads : pc[t] = "sampling"

\* Whatever the calls before it did, and however they ended short of a stop sequence, a
\* token is sampled from logits of the whole conversation and the reply so far.
SamplesConversation == Sampling /\ ~cut => seen = full \o said

\* Between calls the history names the tokens of the cache, unless a reply was cut.
HistoryIsCache == mu = Nobody /\ ~cut => history = cache

\* Nobody is inside a session that has been freed.
NoneInsideFreed == freed => Inside = {}

\* A close comes to an end, whatever calls it finds under way and whatever arrives.
CloseReturns == \A t \in Threads : pc[t] = "closing" ~> freed

-----------------------------------------------------------------------------
\* "The cache holds exactly the tokens the history now names, either way, so the suffix
\* decodes onto a prefix that describes it": the sampler sees the conversation, also after
\* a reply that ended at a stop sequence.
AlwaysConversation == Sampling => seen = full \o said
=============================================================================
