----------------------------- MODULE ChatProofs -----------------------------
(***************************************************************************)
(* For any threads, vocabulary and limits of a chat session: the history   *)
(* names the tokens of the cache and the sampler sees the conversation,    *)
(* unless a reply was cut at a stop sequence; and nobody is inside a       *)
(* session that has been freed.  The route is a caller of the session like *)
(* any other, so all this holds under it; and on the route the one         *)
(* exception, the reply cut at a stop sequence, is gone.                   *)
(***************************************************************************)
EXTENDS ChatRoute, SequenceTheorems, TLAPS

-----------------------------------------------------------------------------
(* Sequences of tokens.                                                     *)

\* Take and Drop cut a sequence in two.
LEMMA TakeDrop ==
  ASSUME NEW T, NEW s \in Seq(T), NEW n \in 0..Len(s)
  PROVE  /\ Take(s, n) \in Seq(T) /\ Len(Take(s, n)) = n
         /\ \A i \in 1..n : Take(s, n)[i] = s[i]
         /\ Drop(s, n) \in Seq(T) /\ Len(Drop(s, n)) = Len(s) - n
         /\ Take(s, n) \o Drop(s, n) = s
<1>1. Len(s) \in Nat /\ \A i \in 1..Len(s) : s[i] \in T
  BY LenProperties, ElementOfSeq
<1>2. /\ SubSeq(s, 1, n) \in Seq(T) /\ Len(SubSeq(s, 1, n)) = IF 1 <= n THEN n - 1 + 1 ELSE 0
      /\ \A i \in 1..(n - 1 + 1) : SubSeq(s, 1, n)[i] = s[1 + i - 1]
  <2>1. 1 \in Int /\ n \in Int /\ \A i \in 1..n : s[i] \in T
    BY <1>1
  <2>. QED BY <2>1, SubSeqProperties
<1>3. /\ SubSeq(s, n + 1, Len(s)) \in Seq(T)
      /\ Len(SubSeq(s, n + 1, Len(s))) = IF n + 1 <= Len(s) THEN Len(s) - (n + 1) + 1 ELSE 0
  <2>1. n + 1 \in Int /\ Len(s) \in Int
    BY <1>1
  <2>2. \A i \in (n + 1)..Len(s) : i \in 1..Len(s)
    BY <1>1
  <2>3. \A i \in (n + 1)..Len(s) : s[i] \in T
    BY <1>1, <2>2, Zenon
  <2>. QED BY <2>1, <2>3, SubSeqProperties
<1>4. SubSeq(s, 1, n) \o SubSeq(s, n + 1, Len(s)) = s
  <2>1. 1 \in 1..(Len(s) + 1) /\ n \in (1 - 1)..Len(s) /\ Len(s) \in n..Len(s)
    BY <1>1
  <2>2. SubSeq(s, 1, n) \o SubSeq(s, n + 1, Len(s)) = SubSeq(s, 1, Len(s))
    BY <2>1, ConcatAdjacentSubSeq
  <2>3. SubSeq(s, 1, Len(s)) = s
    BY SubSeqFull, Zenon
  <2>. QED BY <2>2, <2>3, Zenon
<1>5. Len(SubSeq(s, 1, n)) = n
  BY <1>1, <1>2
<1>6. Len(SubSeq(s, n + 1, Len(s))) = Len(s) - n
  BY <1>1, <1>3
<1>7. \A i \in 1..n : SubSeq(s, 1, n)[i] = s[i]
  BY <1>2
<1>. QED BY <1>2, <1>3, <1>4, <1>5, <1>6, <1>7, Zenon DEF Take, Drop

\* Sequences that agree on n tokens have the same first n tokens.
LEMMA SameStart ==
  ASSUME NEW T, NEW s \in Seq(T), NEW p \in Seq(T), NEW n \in 0..Len(s), n <= Len(p),
         \A i \in 1..n : s[i] = p[i]
  PROVE  Take(s, n) = Take(p, n)
<1>1. n \in 0..Len(p)
  BY LenProperties
<1>2. /\ Take(s, n) \in Seq(T) /\ Take(p, n) \in Seq(T)
      /\ Len(Take(s, n)) = n /\ Len(Take(p, n)) = n
      /\ \A i \in 1..n : Take(s, n)[i] = s[i]
      /\ \A i \in 1..n : Take(p, n)[i] = p[i]
  BY <1>1, TakeDrop
<1>3. \A i \in 1..Len(Take(s, n)) : Take(s, n)[i] = Take(p, n)[i]
  BY <1>2
<1>. QED BY <1>2, <1>3, SeqEqual

\* A prompt is a sequence of at least one token.
LEMMA PromptSeq ==
  ASSUME NEW p \in Prompts
  PROVE  p \in Seq(Tokens) /\ Len(p) \in Nat \ {0}
<1>1. PICK n \in 1..MaxPrompt : p \in [1..n -> Tokens]
  BY DEF Prompts
<1>2. n \in Nat \ {0}
  BY ChatAssumption
<1>3. p \in Seq(Tokens)
  BY <1>1, <1>2, SeqDef
<1>4. DOMAIN p = 1..Len(p) /\ DOMAIN p = 1..n /\ Len(p) \in Nat
  BY <1>1, <1>3, LenProperties
<1>5. Len(p) # 0
  BY <1>2, <1>4
<1>. QED BY <1>3, <1>4, <1>5

-----------------------------------------------------------------------------
(* The inductive invariant.                                                 *)

\* The points at which a call has the mutex.
Working == {"locked", "prefill", "sampling"}

At(x) == \E t \in Threads : pc[t] = x

\* A thread works exactly while it has the mutex.
Owner == \A t \in Threads : pc[t] \in Working <=> mu = t

\* What cache, history and the last logits have to do with the conversation, point by point.
AtRest == history = cache /\ seen = cache
InPrompt == cache \o todo = full /\ (todo = <<>> => seen = cache)
InReply == history = cache /\ seen = cache /\ cache = full \o said

Agrees ==
  ~cut => /\ ~At("prefill") /\ ~At("sampling") => AtRest
          /\ At("prefill") => InPrompt
          /\ At("sampling") => InReply

\* A reply begins with nothing said.
Unsaid == ~At("sampling") => said = <<>>

SessionInv == SessionTypeOK /\ Owner /\ Agrees /\ Unsaid /\ NoneInsideFreed

-----------------------------------------------------------------------------
LEMMA InitSession == Init => SessionInv
<1> SUFFICES ASSUME Init PROVE SessionInv
  OBVIOUS
<1>1. <<>> \in Seq(Tokens) /\ Len(<<>>) = 0 /\ 0 <= MaxTokens
  BY EmptySeq, ChatAssumption
<1>2. SessionTypeOK
  BY <1>1 DEF Init, SessionTypeOK, Point
<1>3. Owner /\ Agrees /\ Unsaid /\ NoneInsideFreed
  BY ChatAssumption DEF Init, Owner, Working, Agrees, Unsaid, At, AtRest, NoneInsideFreed
<1>. QED BY <1>2, <1>3 DEF SessionInv

\* A step of the thread that works takes what is at its point to the next one.
LEMMA WorkingGoes ==
  ASSUME SessionInv, NEW t \in Threads, NEW from \in Working, NEW to \in Point, Go(t, from, to)
  PROVE  /\ mu = t /\ mu # Nobody
         /\ \A x \in Working : At(x) <=> x = from
         /\ \A x \in Working : At(x)' <=> x = to
<1> USE DEF SessionInv, Go, At
<1>1. pc \in [Threads -> Point] /\ Owner
  BY DEF SessionTypeOK
<1>2. mu = t /\ mu # Nobody
  BY <1>1, ChatAssumption DEF Owner
<1>3. \A u \in Threads : u # t => pc[u] \notin Working /\ pc'[u] = pc[u]
  BY <1>1, <1>2 DEF Owner
<1>4. pc[t] = from /\ pc'[t] = to
  BY <1>1
<1>. QED BY <1>2, <1>3, <1>4

\* A step between points at which nobody works leaves those at which somebody does.
LEMMA OthersGo ==
  ASSUME SessionInv, NEW t \in Threads, NEW from \in Point, NEW to \in Point, Go(t, from, to),
         from \notin {"prefill", "sampling"}, to \notin {"prefill", "sampling"}
  PROVE  \A x \in {"prefill", "sampling"} : At(x)' <=> At(x)
BY DEF SessionInv, SessionTypeOK, Go, At

\* The mutex.
LEMMA OwnerStep == SessionInv /\ [Next]_vars => Owner'
<1> SUFFICES ASSUME SessionInv, [Next]_vars PROVE Owner'
  OBVIOUS
<1>1. pc \in [Threads -> Point] /\ Owner
  BY DEF SessionInv, SessionTypeOK
<1> USE <1>1, ChatAssumption DEF Owner, Working, Point
<1>2. CASE UNCHANGED vars
  BY <1>2 DEF vars
<1>3. CASE Next
  <2> PICK t \in Threads : Enter(t) \/ LockMu(t) \/ Work(t) \/ Leave(t) \/ Close(t) \/ Free(t)
    BY <1>3 DEF Next
  <2>1. CASE Enter(t) \/ Leave(t) \/ Close(t) \/ Free(t)
    BY <2>1 DEF Enter, Leave, Close, Free, Go
  <2>2. CASE LockMu(t)
    BY <2>2 DEF LockMu, Go
  <2>3. ASSUME NEW from \in Working, Return(t, from) PROVE Owner'
    BY <2>3 DEF Return, Go
  <2>4. CASE Reset(t) \/ Query(t) \/ PrefillOnly(t) \/ CancelPrefill(t) \/ Stop(t) \/ EndReply(t) \/ CancelReply(t)
    BY <2>3, <2>4 DEF Reset, Query, PrefillOnly, CancelPrefill, Stop, EndReply, CancelReply
  <2>5. CASE Prepare(t) \/ Prefill(t) \/ Prefilled(t) \/ Say(t)
    BY <2>5 DEF Prepare, Prefill, Prefilled, Say, Go
  <2>. QED BY <2>1, <2>2, <2>4, <2>5 DEF Work
<1>. QED BY <1>2, <1>3

\* Who is inside.
LEMMA InsideStep ==
  SessionInv /\ [Next]_vars => NoneInsideFreed' /\ (retiring => Inside' \subseteq Inside)
<1> SUFFICES ASSUME SessionInv, [Next]_vars
             PROVE  NoneInsideFreed' /\ (retiring => Inside' \subseteq Inside)
  OBVIOUS
<1>1. pc \in [Threads -> Point] /\ NoneInsideFreed
  BY DEF SessionInv, SessionTypeOK
<1> USE <1>1 DEF NoneInsideFreed, Inside, Point
<1>2. CASE UNCHANGED vars
  BY <1>2 DEF vars
<1>3. CASE Next
  <2> PICK t \in Threads : Enter(t) \/ LockMu(t) \/ Work(t) \/ Leave(t) \/ Close(t) \/ Free(t)
    BY <1>3 DEF Next
  <2>1. CASE Enter(t)
    BY <2>1 DEF Enter, Go, life
  <2>2. CASE LockMu(t) \/ Leave(t) \/ Close(t) \/ Free(t)
    BY <2>2 DEF LockMu, Leave, Close, Free, Go, life
  <2>3. CASE Work(t)
    <3>1. /\ pc[t] \in Working /\ UNCHANGED freed
          /\ \E x \in Point : pc' = [pc EXCEPT ![t] = x]
      BY <2>3 DEF Work, Working, Reset, Query, Prepare, Prefill, Prefilled, PrefillOnly, CancelPrefill, Say, Stop,
                  EndReply, CancelReply, Return, Go, life
    <3>. QED BY <3>1 DEF Working
  <2>. QED BY <2>1, <2>2, <2>3
<1>. QED BY <1>2, <1>3

-----------------------------------------------------------------------------
(* The conversation.                                                        *)

\* What is kept of the history is a prefix of the prompt as well, and less than the whole
\* prompt unless it is the whole history.
LEMMA KeptPrefix ==
  ASSUME history \in Seq(Tokens), NEW p \in Prompts, NEW common \in Common(p),
         NEW k, k = Kept(p, common)
  PROVE  /\ k \in 0..Len(history) /\ k <= Len(p)
         /\ \A i \in 1..k : history[i] = p[i]
         /\ k < Len(history) => k < Len(p)
<1>1. Len(history) \in Nat /\ Len(p) \in Nat \ {0}
  BY LenProperties, PromptSeq
<1>2. /\ common \in 0..Least(Len(history), Len(p))
      /\ \A i \in 1..common : history[i] = p[i]
  BY DEF Common
<1>3. common \in Nat /\ common <= Len(history) /\ common <= Len(p)
  BY <1>1, <1>2 DEF Least
<1>4. CASE common < Len(history) /\ common = Len(p)
  BY <1>1, <1>2, <1>3, <1>4 DEF Kept
<1>5. CASE ~(common < Len(history) /\ common = Len(p))
  <2>1. k = common
    BY <1>5 DEF Kept
  <2>. QED BY <1>1, <1>2, <1>3, <1>5, <2>1
<1>. QED BY <1>4, <1>5

\* prepare_prompt leaves in the cache what the prompt begins with, and the rest to decode.
LEMMA PrepareStep ==
  ASSUME SessionInv, NEW t \in Threads, Prepare(t)
  PROVE  /\ history' \in Seq(Tokens) /\ cache' \in Seq(Tokens) /\ seen' \in Seq(Tokens)
         /\ full' \in Seq(Tokens) /\ todo' \in Seq(Tokens) /\ cut' \in BOOLEAN
         /\ ~cut' => InPrompt'
<1>1. history \in Seq(Tokens) /\ cache \in Seq(Tokens) /\ seen \in Seq(Tokens) /\ cut \in BOOLEAN
  BY DEF SessionInv, SessionTypeOK
<1>0. PICK p \in Prompts : \E common \in Common(p) :
        LET k == Kept(p, common)
        IN /\ full' = p
           /\ \/ KeepAll(k) /\ todo' = Drop(p, k)
              \/ KeepSome(k) /\ todo' = Drop(p, k)
              \/ k < Len(history) /\ Flush /\ todo' = p
  BY DEF Prepare
<1> PICK common \in Common(p) :
       LET k == Kept(p, common)
       IN /\ full' = p
          /\ \/ KeepAll(k) /\ todo' = Drop(p, k)
             \/ KeepSome(k) /\ todo' = Drop(p, k)
             \/ k < Len(history) /\ Flush /\ todo' = p
  BY <1>0
<1> DEFINE k == Kept(p, common)
<1>2. /\ full' = p
      /\ \/ KeepAll(k) /\ todo' = Drop(p, k)
         \/ KeepSome(k) /\ todo' = Drop(p, k)
         \/ k < Len(history) /\ Flush /\ todo' = p
  OBVIOUS
<1>3. p \in Seq(Tokens) /\ Len(p) \in Nat \ {0}
  BY PromptSeq
<1>4. /\ k \in 0..Len(history) /\ k <= Len(p)
      /\ \A i \in 1..k : history[i] = p[i]
      /\ k < Len(history) => k < Len(p)
  BY <1>1, KeptPrefix
<1> HIDE DEF k
<1>5. Len(history) \in Nat /\ Len(cache) \in Nat
  BY <1>1, LenProperties
<1>6. k \in 0..Len(p)
  BY <1>3, <1>4, <1>5
<1>7. /\ Drop(p, k) \in Seq(Tokens) /\ Len(Drop(p, k)) = Len(p) - k
      /\ Take(history, k) \o Drop(p, k) = p
      /\ Take(history, k) \in Seq(Tokens)
  <2>1. /\ Drop(p, k) \in Seq(Tokens) /\ Len(Drop(p, k)) = Len(p) - k
        /\ Take(p, k) \o Drop(p, k) = p /\ Take(history, k) \in Seq(Tokens)
    BY <1>1, <1>3, <1>4, <1>6, TakeDrop
  <2>2. Take(history, k) = Take(p, k)
    BY <1>1, <1>3, <1>4, SameStart
  <2>. QED BY <2>1, <2>2
<1>8. ~cut => AtRest
  <2>1. ~At("prefill") /\ ~At("sampling")
    <3>1. Go(t, "locked", "prefill")
      BY DEF Prepare
    <3>. QED BY <3>1, WorkingGoes DEF Working, Point
  <2>. QED BY <2>1 DEF SessionInv, Agrees
<1>9. CASE KeepAll(k) /\ todo' = Drop(p, k)
  <2>1. k = Len(history) /\ UNCHANGED <<history, cache, seen, cut>>
    BY <1>9 DEF KeepAll, kv
  <2>2. Take(history, Len(history)) = history
    BY <1>1, SubSeqFull DEF Take
  <2>3. ~cut' => InPrompt'
    BY <1>2, <1>7, <1>8, <1>9, <2>1, <2>2 DEF InPrompt, AtRest
  <2>. QED BY <1>1, <1>2, <1>3, <1>7, <1>9, <2>1, <2>3
<1>10. CASE KeepSome(k) /\ todo' = Drop(p, k)
  <2>1. /\ k < Len(history)
        /\ history' = Take(history, k) /\ cache' = Take(cache, Least(k, Len(cache)))
        /\ UNCHANGED <<seen, cut>>
    BY <1>10 DEF KeepSome
  <2>2. Least(k, Len(cache)) \in 0..Len(cache)
    BY <1>4, <1>5 DEF Least
  <2>3. cache' \in Seq(Tokens)
    BY <1>1, <2>1, <2>2, TakeDrop
  <2>4. ASSUME ~cut' PROVE InPrompt'
    <3>1. history = cache
      BY <1>8, <2>1, <2>4 DEF AtRest
    <3>2. Least(k, Len(cache)) = k
      BY <1>4, <1>5, <3>1 DEF Least
    <3>3. cache' \o todo' = full'
      BY <1>2, <1>7, <1>10, <2>1, <3>1, <3>2
    <3>4. Len(todo') # 0
      BY <1>3, <1>4, <1>5, <1>7, <1>10, <2>1
    <3>5. todo' # <<>>
      BY <3>4, EmptySeq
    <3>. QED BY <3>3, <3>5 DEF InPrompt
  <2>. QED BY <1>1, <1>2, <1>3, <1>7, <1>10, <2>1, <2>3, <2>4
<1>11. CASE k < Len(history) /\ Flush /\ todo' = p
  <2>1. history' = <<>> /\ cache' = <<>> /\ seen' = <<>> /\ cut' = FALSE
    BY <1>11 DEF Flush
  <2>2. <<>> \in Seq(Tokens) /\ <<>> \o p = p
    BY <1>3, EmptySeq, ConcatEmptySeq
  <2>. QED BY <1>2, <1>3, <1>11, <2>1, <2>2 DEF InPrompt
<1>. QED BY <1>2, <1>9, <1>10, <1>11

\* A piece of the prompt is decoded.
LEMMA PrefillStep ==
  ASSUME SessionInv, NEW t \in Threads, Prefill(t)
  PROVE  /\ cache' \in Seq(Tokens) /\ seen' = cache' /\ todo' \in Seq(Tokens)
         /\ UNCHANGED <<history, cut, full, said>>
         /\ ~cut' => InPrompt'
<1>1. cache \in Seq(Tokens) /\ todo \in Seq(Tokens)
  BY DEF SessionInv, SessionTypeOK
<1> DEFINE n == Least(Batch, Len(todo))
<1>2. n \in 0..Len(todo)
  <2>1. Len(todo) \in Nat
    BY <1>1, LenProperties
  <2>. QED BY <2>1, ChatAssumption DEF Least
<1>3. /\ cache' = cache \o Take(todo, n) /\ seen' = cache' /\ todo' = Drop(todo, n)
      /\ UNCHANGED <<history, cut, full, said>>
  BY DEF Prefill, Decode
<1> HIDE DEF n
<1>4. /\ Take(todo, n) \in Seq(Tokens) /\ Drop(todo, n) \in Seq(Tokens)
      /\ Take(todo, n) \o Drop(todo, n) = todo
  BY <1>1, <1>2, TakeDrop
<1>5. /\ cache \o Take(todo, n) \in Seq(Tokens)
      /\ (cache \o Take(todo, n)) \o Drop(todo, n) = cache \o (Take(todo, n) \o Drop(todo, n))
  <2>1. cache \o Take(todo, n) \in Seq(Tokens)
    BY <1>1, <1>4, ConcatProperties
  <2>2. (cache \o Take(todo, n)) \o Drop(todo, n) = cache \o (Take(todo, n) \o Drop(todo, n))
    <3> DEFINE a == Take(todo, n)
               b == Drop(todo, n)
    <3>1. cache \in Seq(Tokens) /\ a \in Seq(Tokens) /\ b \in Seq(Tokens)
      BY <1>1, <1>4
    <3> HIDE DEF a, b
    <3>2. (cache \o a) \o b = cache \o (a \o b)
      BY <3>1, ConcatAssociative
    <3>. QED BY <3>2 DEF a, b
  <2>. QED BY <2>1, <2>2
<1>6. ~cut => InPrompt
  <2>1. Go(t, "prefill", "prefill")
    BY DEF Prefill
  <2>2. At("prefill")
    BY <2>1 DEF Go, At
  <2>. QED BY <2>2 DEF SessionInv, Agrees
<1>. QED BY <1>3, <1>4, <1>5, <1>6 DEF InPrompt

\* The token sampled joins the reply, the history and the cache.
LEMMA SayStep ==
  ASSUME SessionInv, NEW t \in Threads, Say(t)
  PROVE  /\ history' \in Seq(Tokens) /\ cache' \in Seq(Tokens) /\ seen' = cache'
         /\ said' \in Seq(Tokens) /\ Len(said') <= MaxTokens
         /\ UNCHANGED <<cut, full, todo>>
         /\ ~cut' => InReply'
<1>1. history \in Seq(Tokens) /\ cache \in Seq(Tokens) /\ full \in Seq(Tokens) /\ said \in Seq(Tokens)
  BY DEF SessionInv, SessionTypeOK
<1>2. PICK x \in Tokens : said' = Append(said, x) /\ history' = Append(history, x) /\ Decode(<<x>>)
  BY DEF Say
<1>3. cache' = cache \o <<x>> /\ seen' = cache' /\ UNCHANGED <<cut, full, todo>>
  BY <1>2 DEF Say, Decode
<1>4. /\ Append(said, x) = said \o <<x>> /\ Append(history, x) = history \o <<x>>
      /\ Append(said, x) \in Seq(Tokens) /\ Len(Append(said, x)) = Len(said) + 1
      /\ Append(history, x) \in Seq(Tokens)
  BY <1>1, AppendProperties, AppendIsConcat
<1>5. <<x>> \in Seq(Tokens)
  <2>1. <<x>> \in [1..1 -> Tokens] /\ 1 \in Nat
    OBVIOUS
  <2>. QED BY <2>1, SeqDef, Zenon
<1>6. cache \o <<x>> \in Seq(Tokens) /\ (full \o said) \o <<x>> = full \o (said \o <<x>>)
  BY <1>1, <1>5, ConcatProperties, ConcatAssociative
<1>7. Len(said') <= MaxTokens
  <2>1. Len(said) \in Nat /\ Len(said) < MaxTokens
    BY <1>1, LenProperties DEF Say
  <2>2. Len(said') = Len(said) + 1
    BY <1>2, <1>4
  <2>. QED BY <2>1, <2>2, ChatAssumption
<1>8. ~cut => InReply
  <2>1. At("sampling")
    BY DEF Say, Go, At
  <2>. QED BY <2>1 DEF SessionInv, Agrees
<1>. QED BY <1>2, <1>3, <1>4, <1>6, <1>7, <1>8 DEF InReply

\* A call gives the mutex back: nothing is being said, and cache and history are at rest.
LEMMA ReturnStep ==
  ASSUME SessionInv, NEW t \in Threads, NEW from \in Working, Return(t, from),
         history' \in Seq(Tokens), cache' \in Seq(Tokens), seen' \in Seq(Tokens), cut' \in BOOLEAN,
         ~cut' => AtRest'
  PROVE  SessionTypeOK' /\ Agrees' /\ Unsaid'
<1>1. /\ Go(t, from, "leaving")
      /\ mu' = Nobody /\ full' = <<>> /\ todo' = <<>> /\ said' = <<>>
      /\ UNCHANGED <<retiring, freed>>
  BY DEF Return, life
<1>2. <<>> \in Seq(Tokens) /\ Len(<<>>) = 0 /\ 0 <= MaxTokens
  BY EmptySeq, ChatAssumption
<1>3. /\ retiring \in BOOLEAN /\ freed \in BOOLEAN /\ pc \in [Threads -> Point]
  BY DEF SessionInv, SessionTypeOK
<1>4. pc' \in [Threads -> Point]
  BY <1>1, <1>3 DEF Go, Point
<1>5. SessionTypeOK'
  BY <1>1, <1>2, <1>3, <1>4 DEF SessionTypeOK
<1>6. \A x \in Working : At(x)' <=> x = "leaving"
  BY <1>1, WorkingGoes DEF Point
<1>7. ~At("prefill")' /\ ~At("sampling")'
  BY <1>6 DEF Working
<1>8. Agrees' /\ Unsaid'
  BY <1>1, <1>7 DEF Agrees, Unsaid
<1>. QED BY <1>5, <1>8

\* A call goes on working.
LEMMA WorkStep ==
  ASSUME SessionInv, NEW t \in Threads, NEW from \in Working, NEW to \in {"prefill", "sampling"},
         Go(t, from, to), UNCHANGED <<mu, retiring, freed>>,
         history' \in Seq(Tokens), cache' \in Seq(Tokens), seen' \in Seq(Tokens), cut' \in BOOLEAN,
         full' \in Seq(Tokens), todo' \in Seq(Tokens), said' \in Seq(Tokens), Len(said') <= MaxTokens,
         to = "prefill" => said' = <<>> /\ (~cut' => InPrompt'),
         to = "sampling" => (~cut' => InReply')
  PROVE  SessionTypeOK' /\ Agrees' /\ Unsaid'
<1>1. /\ mu \in Threads \cup {Nobody} /\ retiring \in BOOLEAN /\ freed \in BOOLEAN
      /\ pc \in [Threads -> Point]
  BY DEF SessionInv, SessionTypeOK
<1>2. pc' \in [Threads -> Point]
  BY <1>1 DEF Go, Point
<1>3. SessionTypeOK'
  BY <1>1, <1>2 DEF SessionTypeOK
<1>4. \A x \in Working : At(x)' <=> x = to
  BY WorkingGoes DEF Point
<1>5. (At("prefill")' <=> to = "prefill") /\ (At("sampling")' <=> to = "sampling")
  BY <1>4 DEF Working
<1>6. Agrees' /\ Unsaid'
  BY <1>5 DEF Agrees, Unsaid
<1>. QED BY <1>3, <1>6

\* A step outside the work of a call.
LEMMA OutsideStep ==
  ASSUME SessionInv, NEW t \in Threads, Enter(t) \/ LockMu(t) \/ Leave(t) \/ Close(t) \/ Free(t)
  PROVE  SessionTypeOK' /\ Agrees' /\ Unsaid'
<1>1. SessionTypeOK /\ Agrees /\ Unsaid
  BY DEF SessionInv
<1>2. UNCHANGED <<history, cache, seen, cut, full, todo, said>>
  BY DEF Enter, LockMu, Leave, Close, Free, kv, turn
<1>3. /\ mu' \in Threads \cup {Nobody} /\ retiring' \in BOOLEAN /\ freed' \in BOOLEAN
      /\ pc' \in [Threads -> Point]
  BY <1>1 DEF Enter, LockMu, Leave, Close, Free, Go, SessionTypeOK, life, Point
<1>4. SessionTypeOK'
  BY <1>1, <1>2, <1>3 DEF SessionTypeOK
<1>5. \A x \in {"prefill", "sampling"} : At(x)' <=> At(x)
  BY OthersGo DEF Enter, LockMu, Leave, Close, Free, Point
<1>6. Agrees' /\ Unsaid'
  BY <1>1, <1>2, <1>5 DEF Agrees, Unsaid, AtRest, InPrompt, InReply
<1>. QED BY <1>4, <1>6

LEMMA ConversationStep == SessionInv /\ [Next]_vars => SessionTypeOK' /\ Agrees' /\ Unsaid'
<1> SUFFICES ASSUME SessionInv, [Next]_vars
             PROVE  SessionTypeOK' /\ Agrees' /\ Unsaid'
  OBVIOUS
<1>1. CASE UNCHANGED vars
  BY <1>1 DEF vars, SessionInv, SessionTypeOK, Agrees, Unsaid, At, AtRest, InPrompt, InReply
<1>2. CASE Next
  <2> PICK t \in Threads : Enter(t) \/ LockMu(t) \/ Work(t) \/ Leave(t) \/ Close(t) \/ Free(t)
    BY <1>2 DEF Next
  <2>1. /\ history \in Seq(Tokens) /\ cache \in Seq(Tokens) /\ seen \in Seq(Tokens)
        /\ cut \in BOOLEAN /\ full \in Seq(Tokens) /\ todo \in Seq(Tokens)
        /\ said \in Seq(Tokens) /\ Len(said) <= MaxTokens
        /\ Agrees /\ Unsaid
    BY DEF SessionInv, SessionTypeOK
  <2>2. <<>> \in Seq(Tokens)
    BY EmptySeq
  <2>4. ASSUME pc[t] = "locked" PROVE ~At("prefill") /\ ~At("sampling") /\ (~cut => AtRest)
    <3>1. mu = t /\ \A u \in Threads : pc[u] \in Working => mu = u
      BY <2>4 DEF SessionInv, Owner, Working
    <3>2. ~At("prefill") /\ ~At("sampling")
      BY <2>4, <3>1 DEF At, Working
    <3>. QED BY <2>1, <3>2 DEF Agrees
  <2>5. ASSUME pc[t] = "prefill" PROVE said = <<>> /\ (~cut => InPrompt)
    <3>1. mu = t /\ \A u \in Threads : pc[u] \in Working => mu = u
      BY <2>5 DEF SessionInv, Owner, Working
    <3>2. At("prefill") /\ ~At("sampling")
      BY <2>5, <3>1 DEF At, Working
    <3>. QED BY <2>1, <3>2 DEF Agrees, Unsaid
  <2>6. ASSUME pc[t] = "sampling" PROVE ~cut => InReply
    BY <2>1, <2>6 DEF Agrees, At
  <2>7. CASE Enter(t) \/ LockMu(t) \/ Leave(t) \/ Close(t) \/ Free(t)
    BY <2>7, OutsideStep
  <2>8. CASE Reset(t)
    <3>1. history' = <<>> /\ cache' = <<>> /\ seen' = <<>> /\ cut' = FALSE /\ Return(t, "locked")
      BY <2>8 DEF Reset, Flush
    <3>. QED BY <2>2, <3>1, ReturnStep DEF AtRest, Working
  <2>9. CASE Query(t)
    <3>1. UNCHANGED <<history, cache, seen, cut>> /\ Return(t, "locked")
      BY <2>9 DEF Query, kv
    <3>2. ~cut' => AtRest'
      BY <2>4, <3>1 DEF AtRest, Return, Go
    <3>. QED BY <2>1, <3>1, <3>2, ReturnStep DEF Working
  <2>10. CASE Prepare(t)
    <3>1. Go(t, "locked", "prefill") /\ UNCHANGED <<mu, retiring, freed, said>>
      BY <2>10 DEF Prepare, life
    <3>2. said = <<>>
      BY <2>1, <2>4, <3>1 DEF Unsaid, Go
    <3>. QED BY <2>1, <2>10, <3>1, <3>2, PrepareStep, WorkStep DEF Working
  <2>11. CASE Prefill(t)
    <3>1. Go(t, "prefill", "prefill") /\ UNCHANGED <<mu, retiring, freed>>
      BY <2>11 DEF Prefill, life
    <3>2. /\ cache' \in Seq(Tokens) /\ seen' = cache' /\ todo' \in Seq(Tokens)
          /\ UNCHANGED <<history, cut, full, said>>
          /\ ~cut' => InPrompt'
      BY <2>11, PrefillStep
    <3>3. said = <<>>
      BY <2>5, <3>1 DEF Go
    <3>. QED BY <2>1, <3>1, <3>2, <3>3, WorkStep DEF Working
  <2>12. CASE Prefilled(t)
    <3>1. /\ Go(t, "prefill", "sampling") /\ todo = <<>> /\ history' = full
          /\ UNCHANGED <<cache, seen, cut, full, todo, said, mu, retiring, freed>>
      BY <2>12 DEF Prefilled, life, turn
    <3>2. ~cut => cache = full /\ seen = cache /\ cache = full \o said
      BY <2>1, <2>5, <3>1, ConcatEmptySeq DEF InPrompt, Go
    <3>3. ~cut' => InReply'
      BY <3>1, <3>2 DEF InReply
    <3>. QED BY <2>1, <3>1, <3>3, WorkStep DEF Working
  <2>13. CASE PrefillOnly(t)
    <3>1. /\ todo = <<>> /\ history' = full /\ UNCHANGED <<cache, seen, cut>> /\ Return(t, "prefill")
      BY <2>13 DEF PrefillOnly
    <3>2. ~cut => cache = full /\ seen = cache
      BY <2>1, <2>5, <3>1, ConcatEmptySeq DEF InPrompt, Return, Go
    <3>3. ~cut' => AtRest'
      BY <3>1, <3>2 DEF AtRest
    <3>. QED BY <2>1, <3>1, <3>3, ReturnStep DEF Working
  <2>14. CASE CancelPrefill(t)
    <3>1. history' = <<>> /\ cache' = <<>> /\ seen' = <<>> /\ cut' = FALSE /\ Return(t, "prefill")
      BY <2>14 DEF CancelPrefill, Flush
    <3>. QED BY <2>2, <3>1, ReturnStep DEF AtRest, Working
  <2>15. CASE Say(t)
    <3>1. Go(t, "sampling", "sampling") /\ UNCHANGED <<mu, retiring, freed>>
      BY <2>15 DEF Say, life
    <3>2. /\ history' \in Seq(Tokens) /\ cache' \in Seq(Tokens) /\ seen' = cache'
          /\ said' \in Seq(Tokens) /\ Len(said') <= MaxTokens
          /\ UNCHANGED <<cut, full, todo>>
          /\ ~cut' => InReply'
      BY <2>15, SayStep
    <3>. QED BY <2>1, <3>1, <3>2, WorkStep DEF Working
  <2>16. CASE Stop(t)
    <3>1. PICK x \in Tokens : history' = Append(history, x)
      BY <2>16 DEF Stop
    <3>2. cut' = TRUE /\ UNCHANGED <<cache, seen>> /\ Return(t, "sampling")
      BY <2>16 DEF Stop
    <3>3. history' \in Seq(Tokens)
      BY <2>1, <3>1, AppendProperties
    <3>. QED BY <2>1, <3>2, <3>3, ReturnStep DEF Working
  <2>17. CASE EndReply(t)
    <3>1. UNCHANGED <<history, cache, seen, cut>> /\ Return(t, "sampling")
      BY <2>17 DEF EndReply, kv
    <3>2. ~cut' => AtRest'
      BY <2>6, <3>1 DEF AtRest, InReply, Return, Go
    <3>. QED BY <2>1, <3>1, <3>2, ReturnStep DEF Working
  <2>18. CASE CancelReply(t)
    <3>1. history' = <<>> /\ cache' = <<>> /\ seen' = <<>> /\ cut' = FALSE /\ Return(t, "sampling")
      BY <2>18 DEF CancelReply, Flush
    <3>. QED BY <2>2, <3>1, ReturnStep DEF AtRest, Working
  <2>. QED BY <2>7, <2>8, <2>9, <2>10, <2>11, <2>12, <2>13, <2>14, <2>15, <2>16, <2>17, <2>18 DEF Work
<1>. QED BY <1>1, <1>2

THEOREM SessionInvariance == SafetySpec => []SessionInv
<1>1. SessionInv /\ [Next]_vars => SessionInv'
  <2> SUFFICES ASSUME SessionInv, [Next]_vars PROVE SessionInv'
    OBVIOUS
  <2>1. Owner' /\ NoneInsideFreed'
    BY OwnerStep, InsideStep
  <2>2. SessionTypeOK' /\ Agrees' /\ Unsaid'
    BY ConversationStep
  <2>. QED BY <2>1, <2>2 DEF SessionInv
<1>. QED BY <1>1, InitSession, PTL DEF SafetySpec

-----------------------------------------------------------------------------
\* The variables of a session keep their types (crispasr_chat_session), and a reply its limit.
THEOREM SessionTyping == SafetySpec => []SessionTypeOK
<1>1. SessionInv => SessionTypeOK
  BY DEF SessionInv
<1>. QED BY <1>1, SessionInvariance, PTL

\* generate_loop: a token is sampled from logits of the whole conversation and the reply so
\* far, unless a reply was cut at a stop sequence.
THEOREM SamplesConversationAlways == SafetySpec => []SamplesConversation
<1>1. SessionInv => SamplesConversation
  BY DEF SessionInv, SamplesConversation, Sampling, Agrees, At, InReply
<1>. QED BY <1>1, SessionInvariance, PTL

\* prepare_prompt and generate_loop: between calls the history names the tokens of the cache,
\* unless a reply was cut at a stop sequence.
THEOREM HistoryIsCacheAlways == SafetySpec => []HistoryIsCache
<1>1. SessionInv => HistoryIsCache
  <2> SUFFICES ASSUME SessionInv, mu = Nobody, ~cut PROVE history = cache
    BY DEF HistoryIsCache
  <2>1. ~At("prefill") /\ ~At("sampling")
    BY ChatAssumption DEF SessionInv, Owner, Working, At
  <2>. QED BY <2>1 DEF SessionInv, Agrees, AtRest
<1>. QED BY <1>1, SessionInvariance, PTL

\* crispasr_chat_close: nobody is inside a session that has been freed.
THEOREM NoneInsideFreedAlways == SafetySpec => []NoneInsideFreed
<1>1. SessionInv => NoneInsideFreed
  BY DEF SessionInv
<1>. QED BY <1>1, SessionInvariance, PTL

-----------------------------------------------------------------------------
(* The route.                                                               *)

\* A request works in the session during its two calls only, and begins the second one on a
\* cache that its first one has emptied.
Turns ==
  \A t \in Threads :
    /\ leg[t] \in {"away", "reply"} => pc[t] = "idle"
    /\ leg[t] = "reset" => pc[t] \in {"idle", "held", "locked", "leaving"}
    /\ leg[t] = "reset" /\ pc[t] = "leaving" => ~cut
    /\ leg[t] = "generate" /\ pc[t] # "leaving" => ~cut

RouteInv == SessionInv /\ RouteTypeOK /\ (viaRoute => Turns)

-----------------------------------------------------------------------------
\* Every step of the route is one of the session, or none.
LEMMA RouteSteps == [RouteNext]_routeVars => [Next]_vars
<1> SUFFICES ASSUME RouteNext PROVE Next \/ UNCHANGED vars
  BY DEF routeVars
<1>1. CASE ~viaRoute /\ Next /\ UNCHANGED route
  BY <1>1
<1>2. CASE Open
  BY <1>2 DEF Open, vars
<1>3. CASE \E t \in Threads : viaRoute /\ (Arrive(t) \/ Serve(t) \/ Done(t) \/ Depart(t))
  <2> PICK t \in Threads : Arrive(t) \/ Serve(t) \/ Done(t) \/ Depart(t)
    BY <1>3
  <2>1. CASE Arrive(t) \/ Depart(t)
    BY <2>1 DEF Arrive, Depart, vars
  <2>2. CASE Serve(t)
    <3>1. Enter(t) \/ LockMu(t) \/ Work(t)
      BY <2>2 DEF Serve, Work
    <3>. QED BY <3>1 DEF Next
  <2>3. CASE Done(t)
    BY <2>3 DEF Done, Next
  <2>. QED BY <2>1, <2>2, <2>3
<1>. QED BY <1>1, <1>2, <1>3 DEF RouteNext

LEMMA InitRoute == RouteInit => RouteInv
<1> SUFFICES ASSUME RouteInit PROVE RouteInv
  OBVIOUS
<1>1. SessionInv
  BY InitSession DEF RouteInit
<1>2. RouteTypeOK
  BY ChatAssumption DEF RouteInit, RouteTypeOK, Leg
<1>3. Turns
  BY DEF RouteInit, Turns, Init
<1>. QED BY <1>1, <1>2, <1>3 DEF RouteInv

\* The mutex of the route.
LEMMA RouteTypeStep == RouteTypeOK /\ RouteNext => RouteTypeOK'
<1> SUFFICES ASSUME RouteTypeOK, RouteNext PROVE RouteTypeOK'
  OBVIOUS
<1> USE ChatAssumption DEF RouteTypeOK, Leg
<1>1. CASE ~viaRoute /\ Next /\ UNCHANGED route
  BY <1>1 DEF route
<1>2. CASE Open
  BY <1>2 DEF Open
<1>3. CASE \E t \in Threads : viaRoute /\ (Arrive(t) \/ Serve(t) \/ Done(t) \/ Depart(t))
  <2> PICK t \in Threads : Arrive(t) \/ Serve(t) \/ Done(t) \/ Depart(t)
    BY <1>3
  <2>1. CASE Arrive(t)
    BY <2>1 DEF Arrive
  <2>2. CASE Serve(t)
    BY <2>2 DEF Serve, route
  <2>3. CASE Done(t)
    BY <2>3 DEF Done
  <2>4. CASE Depart(t)
    BY <2>4 DEF Depart
  <2>. QED BY <2>1, <2>2, <2>3, <2>4
<1>. QED BY <1>1, <1>2, <1>3 DEF RouteNext

\* What a request's thread does in its turn.
LEMMA TurnsStep == RouteInv /\ RouteNext /\ viaRoute => Turns'
<1> SUFFICES ASSUME RouteInv, RouteNext, viaRoute PROVE Turns'
  OBVIOUS
<1>1. /\ Turns /\ pc \in [Threads -> Point] /\ leg \in [Threads -> Leg]
      /\ \A t \in Threads : leg[t] # "away" <=> call = t
  BY DEF RouteInv, SessionInv, SessionTypeOK, RouteTypeOK
<1> USE <1>1 DEF Turns, Leg, Point
<1>2. CASE Open
  BY <1>2 DEF Open, vars
<1>3. CASE \E t \in Threads : Arrive(t) \/ Serve(t) \/ Done(t) \/ Depart(t)
  <2> PICK t \in Threads : Arrive(t) \/ Serve(t) \/ Done(t) \/ Depart(t)
    BY <1>3
  <2>1. CASE Arrive(t)
    BY <2>1 DEF Arrive, vars
  <2>2. CASE Depart(t)
    BY <2>2 DEF Depart, vars
  <2>3. CASE Done(t)
    <3>1. /\ leg[t] \in {"reset", "generate"}
          /\ leg' = [leg EXCEPT ![t] = IF leg[t] = "reset" THEN "generate" ELSE "reply"]
          /\ Go(t, "leaving", "idle") /\ UNCHANGED cut
      BY <2>3 DEF Done, Leave, kv
    <3>. QED BY <3>1 DEF Go
  <2>4. CASE Serve(t) /\ (Enter(t) \/ LockMu(t))
    <3>1. \/ Go(t, "idle", "held") \/ Go(t, "held", "locked")
      BY <2>4 DEF Enter, LockMu
    <3>2. leg[t] \in {"reset", "generate"} /\ UNCHANGED <<leg, cut>>
      <4>1. leg[t] \in {"reset", "generate"} /\ UNCHANGED leg
        BY <2>4, <3>1 DEF Serve, route, Reset, Query, Prepare, Prefill, Prefilled, CancelPrefill, Say, Stop,
                          EndReply, CancelReply
      <4>2. UNCHANGED cut
        BY <2>4 DEF Enter, LockMu, kv
      <4>. QED BY <4>1, <4>2
    <3>. QED BY <3>1, <3>2 DEF Go
  <2>5. CASE leg[t] = "reset" /\ Reset(t) /\ UNCHANGED route
    <3>1. Go(t, "locked", "leaving") /\ cut' = FALSE /\ UNCHANGED leg
      BY <2>5 DEF Reset, Return, Flush, route
    <3>. QED BY <3>1, <2>5 DEF Go
  <2>6. CASE /\ leg[t] = "generate" /\ UNCHANGED route
             /\ \/ Query(t) \/ Prepare(t) \/ Prefill(t) \/ Prefilled(t) \/ CancelPrefill(t)
                \/ Say(t) \/ Stop(t) \/ EndReply(t) \/ CancelReply(t)
    <3>1. \E from, to \in Point : Go(t, from, to) /\ from # "leaving" /\ (to = "leaving" \/ cut' \in {cut, FALSE})
      <4>1. CASE Query(t) \/ CancelPrefill(t) \/ Stop(t) \/ EndReply(t) \/ CancelReply(t)
        BY <4>1 DEF Query, CancelPrefill, Stop, EndReply, CancelReply, Return
      <4>2. CASE Prepare(t)
        <5>1. cut' \in {cut, FALSE}
          BY <4>2 DEF Prepare, KeepAll, KeepSome, Flush, kv
        <5>. QED BY <4>2, <5>1 DEF Prepare
      <4>3. CASE Prefill(t) \/ Prefilled(t) \/ Say(t)
        BY <4>3 DEF Prefill, Prefilled, Say
      <4>. QED BY <2>6, <4>1, <4>2, <4>3
    <3>2. PICK from \in Point, to \in Point :
            Go(t, from, to) /\ from # "leaving" /\ (to = "leaving" \/ cut' \in {cut, FALSE})
      BY <3>1
    <3>3. pc[t] = from /\ pc' = [pc EXCEPT ![t] = to] /\ UNCHANGED leg
      BY <2>6, <3>2 DEF Go, route
    <3>4. \A u \in Threads : u # t => leg[u] = "away"
      BY <2>6
    <3>5. ~cut
      BY <2>6, <3>2, <3>3
    <3>. QED BY <2>6, <3>2, <3>3, <3>4, <3>5
  <2>. QED BY <2>1, <2>2, <2>3, <2>4, <2>5, <2>6 DEF Serve
<1>4. viaRoute = TRUE
  BY DEF RouteInv, RouteTypeOK
<1>. QED BY <1>2, <1>3, <1>4 DEF RouteNext

THEOREM RouteInvariance == RouteSpec => []RouteInv
<1>1. RouteInv /\ [RouteNext]_routeVars => RouteInv'
  <2> SUFFICES ASSUME RouteInv, [RouteNext]_routeVars PROVE RouteInv'
    OBVIOUS
  <2>1. SessionInv'
    <3>1. SessionInv /\ [Next]_vars
      BY RouteSteps DEF RouteInv
    <3>2. Owner' /\ NoneInsideFreed'
      BY <3>1, OwnerStep, InsideStep
    <3>3. SessionTypeOK' /\ Agrees' /\ Unsaid'
      BY <3>1, ConversationStep
    <3>. QED BY <3>2, <3>3 DEF SessionInv
  <2>2. CASE UNCHANGED routeVars
    BY <2>1, <2>2 DEF RouteInv, routeVars, route, vars, RouteTypeOK, Turns
  <2>3. CASE RouteNext
    <3>1. RouteTypeOK'
      BY <2>3, RouteTypeStep DEF RouteInv
    <3>2. viaRoute' = viaRoute
      BY <2>3 DEF RouteNext, Open, Arrive, Serve, Done, Depart, route
    <3>3. viaRoute => Turns'
      BY <2>3, TurnsStep
    <3>. QED BY <2>1, <3>1, <3>2, <3>3 DEF RouteInv
  <2>. QED BY <2>2, <2>3
<1>. QED BY <1>1, InitRoute, PTL DEF RouteSpec

-----------------------------------------------------------------------------
\* The route uses the session as the session's callers may: whatever is proved of every caller
\* holds of the server's requests.
THEOREM RouteIsCaller == RouteSpec => SafetySpec
<1>1. RouteInit => Init
  BY DEF RouteInit
<1>. QED BY <1>1, RouteSteps, PTL DEF RouteSpec, SafetySpec

\* The variables of the route keep their types, and chat_call_mutex is the request's that is
\* under way.
THEOREM RouteTyping == RouteSpec => []RouteTypeOK
<1>1. RouteInv => RouteTypeOK
  BY DEF RouteInv
<1>. QED BY <1>1, RouteInvariance, PTL

\* POST /v1/chat/completions: the sampler sees the request's own conversation and nothing else,
\* also behind a reply that was cut at a stop sequence.
THEOREM RouteConversationAlways == RouteSpec => []RouteConversation
<1>1. RouteInv => RouteConversation
  <2> SUFFICES ASSUME RouteInv, viaRoute, NEW t \in Threads, pc[t] = "sampling"
               PROVE  seen = full \o said /\ leg[mu] = "generate" /\ call = mu
    BY DEF RouteConversation, Sampling
  <2>1. mu = t
    BY DEF RouteInv, SessionInv, Owner, Working
  <2>2. leg[t] = "generate" /\ ~cut
    BY DEF RouteInv, Turns, RouteTypeOK, Leg
  <2>3. call = t
    BY <2>2 DEF RouteInv, RouteTypeOK
  <2>4. InReply
    BY <2>2 DEF RouteInv, SessionInv, Agrees, At
  <2>. QED BY <2>1, <2>2, <2>3, <2>4 DEF InReply
<1>. QED BY <1>1, RouteInvariance, PTL
=============================================================================
