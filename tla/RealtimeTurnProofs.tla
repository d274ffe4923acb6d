-------------------------- MODULE RealtimeTurnProofs --------------------------
(***************************************************************************)
(* The turns of a realtime session, for messages and turns of any length:  *)
(* every sample that is not given up enters a turn, once and in order, a   *)
(* turn in which nothing has failed is one unbroken piece of the           *)
(* recording, and the backend's session hears the turn.                    *)
(*                                                                         *)
(* The invariant says where the samples are that are not settled: in       *)
(* `rest` while a message is appended, in `window` before the speech, and  *)
(* nowhere else.  Both are then runs of consecutive samples, so the lemmas *)
(* about Samples carry the proof.                                          *)
(***************************************************************************)
EXTENDS RealtimeTurn, SequenceTheorems, TLAPS

-----------------------------------------------------------------------------
(* Runs of consecutive samples.                                             *)

LEMMA SamplesProperties ==
  ASSUME NEW a \in Nat, NEW b \in Nat, a <= b
  PROVE  /\ Samples(a, b) \in Seq(1..b) /\ Samples(a, b) \in Seq(Nat)
         /\ Len(Samples(a, b)) = b - a
         /\ \A i \in 1..(b - a) : Samples(a, b)[i] = a + i
         /\ a = b <=> Samples(a, b) = <<>>
<1>1. b - a \in Nat /\ \A i \in 1..(b - a) : a + i \in 1..b
  OBVIOUS
<1>2. Samples(a, b) \in [1..(b - a) -> 1..b] /\ Samples(a, b) \in [1..(b - a) -> Nat]
  BY <1>1 DEF Samples
<1>3. /\ Samples(a, b) \in Seq(1..b) /\ Samples(a, b) \in Seq(Nat)
      /\ Len(Samples(a, b)) = b - a
  BY <1>1, <1>2
<1>4. \A i \in 1..(b - a) : Samples(a, b)[i] = a + i
  BY DEF Samples
<1>5. a = b <=> Samples(a, b) = <<>>
  BY <1>3, EmptySeq
<1>. QED BY <1>3, <1>4, <1>5

LEMMA SamplesConcat ==
  ASSUME NEW a \in Nat, NEW b \in Nat, NEW c \in Nat, a <= b, b <= c
  PROVE  Samples(a, b) \o Samples(b, c) = Samples(a, c)
<1>. DEFINE s == Samples(a, b)  t == Samples(b, c)  u == Samples(a, c)
<1>1. s \in Seq(Nat) /\ Len(s) = b - a /\ \A i \in 1..(b - a) : s[i] = a + i
  BY SamplesProperties
<1>2. t \in Seq(Nat) /\ Len(t) = c - b /\ \A i \in 1..(c - b) : t[i] = b + i
  BY SamplesProperties
<1>3. u \in Seq(Nat) /\ Len(u) = c - a /\ \A i \in 1..(c - a) : u[i] = a + i
  <2>1. a <= c
    OBVIOUS
  <2>. QED BY <2>1, SamplesProperties
<1>. HIDE DEF s, t, u
<1>4. /\ s \o t \in Seq(Nat) /\ Len(s \o t) = Len(s) + Len(t)
      /\ \A i \in 1..(Len(s) + Len(t)) : (s \o t)[i] = IF i <= Len(s) THEN s[i] ELSE t[i - Len(s)]
  BY <1>1, <1>2, ConcatProperties
<1>5. ASSUME NEW i \in 1..(c - a) PROVE (s \o t)[i] = u[i]
  <2>1. (s \o t)[i] = IF i <= b - a THEN s[i] ELSE t[i - (b - a)]
    BY <1>1, <1>2, <1>4
  <2>2. CASE i <= b - a
    BY <1>1, <1>3, <2>1, <2>2
  <2>3. CASE ~(i <= b - a)
    <3>1. i - (b - a) \in 1..(c - b) /\ b + (i - (b - a)) = a + i
      BY <2>3
    <3>. QED BY <1>2, <1>3, <2>1, <2>3, <3>1
  <2>. QED BY <2>2, <2>3
<1>6. Len(s \o t) = c - a
  BY <1>1, <1>2, <1>4
<1>7. s \o t = u
  BY <1>3, <1>4, <1>5, <1>6, SeqEqual
<1>. QED BY <1>7 DEF s, t, u

LEMMA SamplesCut ==
  ASSUME NEW a \in Nat, NEW b \in Nat, a <= b, NEW k \in 0..(b - a)
  PROVE  /\ SubSeq(Samples(a, b), 1, k) = Samples(a, a + k)
         /\ SubSeq(Samples(a, b), k + 1, b - a) = Samples(a + k, b)
<1>. DEFINE s == Samples(a, b)  t == Samples(a, a + k)  u == Samples(a + k, b)
<1>1. s \in Seq(Nat) /\ Len(s) = b - a /\ \A i \in 1..(b - a) : s[i] = a + i
  BY SamplesProperties
<1>2. t \in Seq(Nat) /\ Len(t) = k /\ \A i \in 1..k : t[i] = a + i
  <2>1. a + k \in Nat /\ a <= a + k /\ (a + k) - a = k
    OBVIOUS
  <2>2. Samples(a, a + k) \in Seq(Nat) /\ Len(Samples(a, a + k)) = (a + k) - a
        /\ \A i \in 1..((a + k) - a) : Samples(a, a + k)[i] = a + i
    BY <2>1, SamplesProperties
  <2>. QED BY <2>1, <2>2
<1>3. u \in Seq(Nat) /\ Len(u) = b - (a + k) /\ \A i \in 1..(b - (a + k)) : u[i] = (a + k) + i
  <2>1. a + k \in Nat /\ a + k <= b
    OBVIOUS
  <2>. QED BY <2>1, SamplesProperties
<1>. HIDE DEF s, t, u
<1>4. SubSeq(s, 1, k) \in Seq(Nat) /\ Len(SubSeq(s, 1, k)) = k
  BY <1>1
<1>5. ASSUME NEW i \in 1..k PROVE SubSeq(s, 1, k)[i] = t[i]
  BY <1>1, <1>2
<1>6. SubSeq(s, 1, k) = t
  BY <1>1, <1>2, <1>4, <1>5, SeqEqual
<1>7. SubSeq(s, k + 1, b - a) \in Seq(Nat) /\ Len(SubSeq(s, k + 1, b - a)) = b - (a + k)
  BY <1>1
<1>8. ASSUME NEW i \in 1..(b - (a + k)) PROVE SubSeq(s, k + 1, b - a)[i] = u[i]
  BY <1>1, <1>3
<1>9. SubSeq(s, k + 1, b - a) = u
  BY <1>1, <1>3, <1>7, <1>8, SeqEqual
<1>. QED BY <1>6, <1>9 DEF s, t, u

LEMMA LastOfProperties ==
  ASSUME NEW S, NEW s \in Seq(S), NEW k \in Nat
  PROVE  LastOf(s, k) \in Seq(S) /\ Len(LastOf(s, k)) <= Len(s)
<1>1. CASE Len(s) <= k
  BY <1>1 DEF LastOf
<1>2. CASE Len(s) > k
  <2>1. SubSeq(s, Len(s) - k + 1, Len(s)) \in Seq(S) /\ Len(SubSeq(s, Len(s) - k + 1, Len(s))) = k
    BY <1>2
  <2>. QED BY <1>2, <2>1 DEF LastOf
<1>. QED BY <1>1, <1>2

\* Cutting a run at the front leaves the run of its last samples.
LEMMA LastOfSamples ==
  ASSUME NEW a \in Nat, NEW b \in Nat, a <= b, NEW k \in Nat
  PROVE  LET w == LastOf(Samples(a, b), k)
         IN b - Len(w) \in a..b /\ w = Samples(b - Len(w), b)
<1>. DEFINE s == Samples(a, b)  w == LastOf(s, k)
<1>1. Len(s) = b - a
  BY SamplesProperties
<1>2. CASE Len(s) <= k
  <2>1. w = s
    BY <1>2 DEF LastOf
  <2>2. b - Len(w) = a
    BY <1>1, <2>1
  <2>. QED BY <2>1, <2>2
<1>3. CASE ~(Len(s) <= k)
  <2>1. w = SubSeq(s, (b - a - k) + 1, b - a)
    BY <1>1, <1>3 DEF LastOf
  <2>2. b - a - k \in 0..(b - a) /\ a + (b - a - k) = b - k /\ b - k \in Nat /\ b - k <= b
    BY <1>1, <1>3
  <2>3. w = Samples(b - k, b)
    BY <2>1, <2>2, SamplesCut
  <2>4. Len(w) = k
    BY <2>2, <2>3, SamplesProperties
  <2>. QED BY <2>2, <2>3, <2>4
<1>. QED BY <1>2, <1>3

-----------------------------------------------------------------------------
(* The invariant.                                                           *)

\* A turn is being filled, or was full in the middle of that.
Filling == pc = "append" \/ (pc = "commit" /\ why = "full")

\* What append_asr is called for, as long as it is under way; and nothing is left to append
\* when it is not.
Control ==
  /\ ~Filling => rest = <<>>
  /\ pc = "eval" => serverVad
  /\ Filling /\ serverVad => speech
  /\ Filling /\ then \in {"eval", "onset"} => speech /\ serverVad
  /\ Filling /\ then = "failed" => ~serverVad

\* Where the samples are that are not settled.
Unsettled ==
  /\ pc \in {"idle", "eval"} =>
       IF serverVad /\ ~speech THEN window = Samples(settled, received) ELSE settled = received
  /\ Filling /\ ~Again => rest = Samples(settled, received)
  /\ Filling /\ Again => settled = received
  /\ pc = "commit" /\ why # "full" =>
       /\ settled = received
       /\ serverVad /\ ~speech => window = <<>>

\* What an unbroken turn holds.  There is none before the speech, when the samples that are
\* given up settle the rest; and no part of a window is appended again to one.
Whole ==
  /\ ~torn => Len(turn) <= settled /\ turn = Samples(settled - Len(turn), settled)
  /\ serverVad /\ ~speech /\ ~torn /\ pc # "commit" => turn = <<>>
  /\ Filling /\ Again /\ rest # <<>> => torn

TurnInv == TurnTypeOK /\ Control /\ Unsettled /\ NativeHearsTurn /\ Whole

LEMMA InitTurn == Init => TurnInv
<1>. SUFFICES ASSUME Init PROVE TurnInv
  OBVIOUS
<1>1. TurnTypeOK
  <2>1. \A S : <<>> \in Seq(S) /\ Len(<<>>) = 0
    OBVIOUS
  <2>2. /\ window \in Seq(1..received) /\ rest \in Seq(1..received) /\ fed \in Seq(1..received)
        /\ turn \in Seq(1..received)
    BY <2>1 DEF Init
  <2>3. Len(turn) <= Cap
    BY <2>1, TurnAssumption DEF Init
  <2>4. sinceEval \in 0..received /\ received \in 0..MaxSamples /\ settled \in 0..received
    BY TurnAssumption DEF Init
  <2>. QED BY <2>2, <2>3, <2>4 DEF Init, TurnTypeOK, Point, Purpose, Cause
<1>2. Samples(0, 0) = <<>>
  BY SamplesProperties
<1>3. Control /\ Unsettled /\ NativeHearsTurn
  BY <1>2 DEF Init, Control, Unsettled, NativeHearsTurn, Filling, Again
<1>4. Whole
  <2>1. Len(<<>>) = 0
    OBVIOUS
  <2>2. Len(turn) <= settled /\ turn = Samples(settled - Len(turn), settled)
    BY <1>2, <2>1 DEF Init
  <2>. QED BY <2>2 DEF Init, Whole, Filling
<1>. QED BY <1>1, <1>3, <1>4 DEF TurnInv

\* A sequence of early samples is one of samples.
LEMMA SamplesWiden ==
  ASSUME NEW m \in Nat, NEW n \in Nat, m <= n, NEW s \in Seq(1..m)
  PROVE  s \in Seq(1..n)
<1>1. 1..m \subseteq 1..n
  OBVIOUS
<1>. QED BY <1>1

LEMMA CutProperties ==
  ASSUME NEW S, NEW s \in Seq(S), NEW k \in 0..Len(s)
  PROVE  /\ SubSeq(s, 1, k) \in Seq(S) /\ Len(SubSeq(s, 1, k)) = k
         /\ SubSeq(s, k + 1, Len(s)) \in Seq(S)
         /\ k > 0 => s[k] \in S
<1>1. SubSeq(s, 1, k) \in Seq(S) /\ Len(SubSeq(s, 1, k)) = k
  OBVIOUS
<1>2. SubSeq(s, k + 1, Len(s)) \in Seq(S)
  OBVIOUS
<1>3. k > 0 => s[k] \in S
  OBVIOUS
<1>. QED BY <1>1, <1>2, <1>3

\* What AppendChunk cuts off, and what it leaves.
LEMMA ChunkProperties ==
  ASSUME TurnTypeOK
  PROVE  /\ Fits \in 0..Len(rest)
         /\ Chunk \in Seq(1..received) /\ Len(Chunk) = Fits
         /\ SubSeq(rest, Fits + 1, Len(rest)) \in Seq(1..received)
         /\ turn \o Chunk \in Seq(1..received)
         /\ Len(turn \o Chunk) = Len(turn) + Fits
         /\ Len(turn) + Fits <= Cap
         /\ Fits > 0 => rest[Fits] \in 1..received
<1>1. /\ Len(rest) \in Nat /\ Len(turn) \in Nat /\ Cap \in Nat /\ Len(turn) <= Cap
      /\ rest \in Seq(1..received) /\ turn \in Seq(1..received)
  BY TurnAssumption DEF TurnTypeOK
<1>2. Fits \in 0..Len(rest) /\ Len(turn) + Fits <= Cap
  BY <1>1 DEF Fits
<1>3. /\ Chunk \in Seq(1..received) /\ Len(Chunk) = Fits
      /\ SubSeq(rest, Fits + 1, Len(rest)) \in Seq(1..received)
      /\ Fits > 0 => rest[Fits] \in 1..received
  BY <1>1, <1>2, CutProperties DEF Chunk
<1>4. turn \o Chunk \in Seq(1..received) /\ Len(turn \o Chunk) = Len(turn) + Len(Chunk)
  BY <1>1, <1>3, ConcatProperties
<1>. QED BY <1>2, <1>3, <1>4

\* When what is left is what is not settled, so are both parts.
LEMMA ChunkSamples ==
  ASSUME TurnTypeOK, rest = Samples(settled, received)
  PROVE  /\ settled + Fits \in settled..received
         /\ Chunk = Samples(settled, settled + Fits)
         /\ SubSeq(rest, Fits + 1, Len(rest)) = Samples(settled + Fits, received)
         /\ Fits > 0 => rest[Fits] = settled + Fits
<1>1. settled \in Nat /\ received \in Nat /\ settled <= received
  BY DEF TurnTypeOK
<1>2. Len(rest) = received - settled /\ \A i \in 1..(received - settled) : rest[i] = settled + i
  BY <1>1, SamplesProperties
<1>3. Fits \in 0..(received - settled)
  BY <1>2, ChunkProperties
<1>4. /\ SubSeq(Samples(settled, received), 1, Fits) = Samples(settled, settled + Fits)
      /\ SubSeq(Samples(settled, received), Fits + 1, received - settled)
           = Samples(settled + Fits, received)
  BY <1>1, <1>3, SamplesCut
<1>5. Chunk = Samples(settled, settled + Fits)
  BY <1>4 DEF Chunk
<1>6. SubSeq(rest, Fits + 1, Len(rest)) = Samples(settled + Fits, received)
  BY <1>2, <1>4
<1>7. Fits > 0 => rest[Fits] = settled + Fits
  BY <1>2, <1>3
<1>8. settled + Fits \in settled..received
  BY <1>1, <1>3
<1>. QED BY <1>5, <1>6, <1>7, <1>8

-----------------------------------------------------------------------------
(* Every step preserves the types.                                          *)

\* Before the speech, what the window keeps is what is not given up.
LEMMA KeptWindow ==
  ASSUME TurnInv, pc = "eval", ~speech, NEW k \in Nat
  PROVE  LET w == LastOf(window, k)
         IN received - Len(w) \in settled..received /\ w = Samples(received - Len(w), received)
<1>1. window = Samples(settled, received)
  BY DEF TurnInv, Control, Unsettled
<1>2. settled \in Nat /\ received \in Nat /\ settled <= received
  BY DEF TurnInv, TurnTypeOK
<1>. QED BY <1>1, <1>2, LastOfSamples

LEMMA ReceiveTypes ==
  ASSUME TurnTypeOK, NEW n \in 1..MaxMessage, received + n <= MaxSamples, Receive(n)
  PROVE  TurnTypeOK'
<1>1. received \in Nat /\ n \in Nat /\ received' = received + n /\ received' \in 0..MaxSamples
  BY TurnAssumption DEF TurnTypeOK, Receive
<1>2. Samples(received, received + n) \in Seq(1..received')
  BY <1>1, SamplesProperties
<1>3. /\ window \in Seq(1..received') /\ rest \in Seq(1..received')
      /\ fed \in Seq(1..received') /\ turn \in Seq(1..received')
  BY <1>1, SamplesWiden DEF TurnTypeOK
<1>4. window \o Samples(received, received + n) \in Seq(1..received')
  BY <1>2, <1>3, ConcatProperties
<1>5. window' \in Seq(1..received') /\ rest' \in Seq(1..received')
  BY <1>2, <1>3, <1>4 DEF Receive, Append_asr
<1>6. fed' \in Seq(1..received') /\ turn' \in Seq(1..received') /\ Len(turn') <= Cap
  BY <1>3 DEF Receive, backend, TurnTypeOK
<1>7. sinceEval' \in 0..received' /\ settled' \in 0..received'
  BY <1>1 DEF Receive, TurnTypeOK
<1>8. pc' \in Point /\ then' \in Purpose /\ why' \in Cause
  BY DEF Receive, TurnTypeOK, Append_asr, Point, Purpose
<1>9. /\ serverVad' = serverVad /\ speech' = speech
      /\ native' = native /\ intact' = intact /\ torn' = torn
  BY DEF Receive, backend
<1>10. /\ serverVad' \in BOOLEAN /\ speech' \in BOOLEAN
       /\ native' \in BOOLEAN /\ intact' \in BOOLEAN /\ torn' \in BOOLEAN
  BY <1>9, Zenon DEF TurnTypeOK
<1>. QED BY <1>1, <1>5, <1>6, <1>7, <1>8, <1>10 DEF TurnTypeOK

LEMMA TypeStep == TurnInv /\ [Next]_vars => TurnTypeOK'
<1>. SUFFICES ASSUME TurnInv, [Next]_vars PROVE TurnTypeOK'
  OBVIOUS
<1>. USE DEF Point, Purpose, Cause, Append_asr, Handle_commit, detection, backend
<1>0. /\ TurnTypeOK
      /\ \A S : <<>> \in Seq(S) /\ Len(<<>>) = 0
      /\ 0 \in 0..received /\ received \in 0..received
  <2>1. TurnTypeOK
    BY DEF TurnInv
  <2>2. received \in Nat
    BY <2>1, TurnAssumption DEF TurnTypeOK
  <2>. QED BY <2>1, <2>2
<1>1. ASSUME NEW n \in 1..MaxMessage, received + n <= MaxSamples, Receive(n) PROVE TurnTypeOK'
  BY <1>0, <1>1, ReceiveTypes
<1>2. CASE Ask
  <2>1. /\ turn' = turn /\ native' = native /\ fed' = fed /\ intact' = intact /\ torn' = torn
        /\ serverVad' = serverVad /\ speech' = FALSE /\ window' = <<>> /\ sinceEval' = sinceEval
        /\ pc' = "commit" /\ why' = "asked" /\ rest' = rest /\ then' = then
        /\ received' = received /\ settled' = received
    BY <1>2 DEF Ask
  <2>. QED BY <1>0, <2>1 DEF TurnTypeOK
<1>3. CASE AppendChunk
  <2>1. settled' \in 0..received
    <3>1. settled \in 0..received /\ (Fits > 0 => rest[Fits] \in 1..received) /\ received \in Nat
      BY <1>0, ChunkProperties, TurnAssumption DEF TurnTypeOK
    <3>2. settled' = IF Fits > 0 /\ settled < rest[Fits] THEN rest[Fits] ELSE settled
      BY <1>3 DEF AppendChunk
    <3>. QED BY <3>1, <3>2
  <2>2. fed \o Chunk \in Seq(1..received)
    <3>1. fed \in Seq(1..received) /\ Chunk \in Seq(1..received)
      BY <1>0, ChunkProperties DEF TurnTypeOK
    <3>. QED BY <3>1, ConcatProperties
  <2>3. turn' \in Seq(1..received) /\ Len(turn') <= Cap /\ rest' \in Seq(1..received)
    BY <1>0, <1>3, ChunkProperties DEF AppendChunk
  <2>4. fed' \in Seq(1..received) /\ native' \in BOOLEAN
    BY <1>0, <1>3, <2>2 DEF AppendChunk, TurnTypeOK
  <2>. QED BY <1>0, <1>3, <2>1, <2>3, <2>4 DEF AppendChunk, TurnTypeOK
<1>4. CASE AppendThrows
  <2>1. fed \o Chunk \in Seq(1..received)
    <3>1. fed \in Seq(1..received) /\ Chunk \in Seq(1..received)
      BY <1>0, ChunkProperties DEF TurnTypeOK
    <3>. QED BY <3>1, ConcatProperties
  <2>2. turn' \in Seq(1..received) /\ Len(turn') <= Cap
    BY <1>0, <1>4, ChunkProperties DEF AppendThrows
  <2>3. fed' \in Seq(1..received) /\ rest' \in Seq(1..received)
    BY <1>0, <1>4, <2>1 DEF AppendThrows, TurnTypeOK
  <2>. QED BY <1>0, <1>4, <2>2, <2>3 DEF AppendThrows, TurnTypeOK
<1>5. CASE Appended
  <2>1. LastOf(window, SpeechKeep) \in Seq(1..received)
    BY <1>0, TurnAssumption, LastOfProperties DEF TurnTypeOK
  <2>2. window' \in Seq(1..received)
    BY <1>0, <1>5, <2>1 DEF Appended, TurnTypeOK
  <2>. QED BY <1>0, <1>5, <2>2 DEF Appended, TurnTypeOK
<1>6. CASE TooSoon
  BY <1>0, <1>6 DEF TooSoon, TurnTypeOK
<1>7. CASE VadFails
  <2>1. torn' \in BOOLEAN
    BY <1>7, Zenon DEF VadFails
  <2>. QED BY <1>0, <1>7, <2>1 DEF VadFails, Evaluate, TurnTypeOK
<1>8. CASE Onset
  BY <1>0, <1>8 DEF Onset, Evaluate, TurnTypeOK
<1>9. CASE Stopped
  BY <1>0, <1>9 DEF Stopped, Evaluate, TurnTypeOK
<1>10. CASE NothingNew
  <2>1. /\ LastOf(window, SpeechKeep) \in Seq(1..received)
        /\ LastOf(window, IdleKeep) \in Seq(1..received)
    BY <1>0, TurnAssumption, LastOfProperties DEF TurnTypeOK
  <2>2. window' \in Seq(1..received)
    BY <1>10, <2>1 DEF NothingNew
  <2>3. settled' \in 0..received
    <3>1. CASE speech
      BY <1>0, <1>10, <3>1 DEF NothingNew, TurnTypeOK
    <3>2. CASE ~speech
      <4>1. pc = "eval" /\ window' = LastOf(window, IdleKeep)
            /\ settled' = received - Len(window')
        BY <1>10, <3>2 DEF NothingNew, Evaluate
      <4>2. received - Len(LastOf(window, IdleKeep)) \in settled..received
        BY <3>2, <4>1, KeptWindow, TurnAssumption
      <4>. QED BY <1>0, <4>1, <4>2 DEF TurnTypeOK
    <3>. QED BY <3>1, <3>2
  <2>. QED BY <1>0, <1>10, <2>2, <2>3 DEF NothingNew, Evaluate, TurnTypeOK
<1>11. CASE Complete
  <2>1. /\ turn' \in Seq(1..received') /\ Len(turn') <= Cap /\ fed' \in Seq(1..received')
        /\ window' \in Seq(1..received') /\ rest' \in Seq(1..received')
    <3>1. turn' = <<>> /\ fed' = <<>> /\ received' = received /\ rest' = rest
      BY <1>11 DEF Complete
    <3>2. window' = <<>> \/ window' = window
      BY <1>11 DEF Complete
    <3>3. 0 <= Cap
      BY TurnAssumption
    <3>. QED BY <1>0, <3>1, <3>2, <3>3 DEF TurnTypeOK
  <2>2. speech' \in BOOLEAN /\ native' \in BOOLEAN /\ intact' \in BOOLEAN
    BY <1>0, <1>11 DEF Complete, TurnTypeOK
  <2>3. torn' \in BOOLEAN
    BY <1>11, Zenon DEF Complete
  <2>. QED BY <1>0, <1>11, <2>1, <2>2, <2>3 DEF Complete, TurnTypeOK
<1>12. CASE CommitThrows
  BY <1>0, <1>12 DEF CommitThrows, TurnTypeOK
<1>13. CASE UNCHANGED vars
  BY <1>0, <1>13 DEF vars, control, TurnTypeOK
<1>. QED
  BY <1>1, <1>2, <1>3, <1>4, <1>5, <1>6, <1>7, <1>8, <1>9, <1>10, <1>11, <1>12, <1>13 DEF Next

-----------------------------------------------------------------------------
(* Every step keeps track of the samples that are not settled.              *)

LEMMA SampleStep == TurnInv /\ [Next]_vars => Control' /\ Unsettled'
<1>. SUFFICES ASSUME TurnInv, [Next]_vars PROVE Control' /\ Unsettled'
  OBVIOUS
<1>. USE DEF Append_asr, Handle_commit, detection, backend, Filling, Again
<1>0. TurnTypeOK /\ Control /\ Unsettled
  BY DEF TurnInv
<1>a. settled \in Nat /\ received \in Nat /\ settled <= received
  BY <1>0 DEF TurnTypeOK
<1>b. Samples(received, received) = <<>>
  BY <1>a, SamplesProperties
<1>1. ASSUME NEW n \in 1..MaxMessage, received + n <= MaxSamples, Receive(n)
      PROVE  Control' /\ Unsettled'
  <2>1. n \in Nat /\ received <= received + n /\ received + n \in Nat
    BY <1>1, <1>a, TurnAssumption
  <2>2. Samples(settled, received) \o Samples(received, received + n) = Samples(settled, received + n)
    BY <1>a, <2>1, SamplesConcat
  <2>3. CASE serverVad /\ ~speech /\ pc' = "eval"
    BY <1>0, <1>1, <2>2, <2>3 DEF Receive, Control, Unsettled
  <2>4. CASE serverVad /\ speech /\ pc' = "append"
    BY <1>0, <1>1, <2>4 DEF Receive, Control, Unsettled
  <2>5. CASE ~serverVad /\ pc' = "append"
    BY <1>0, <1>1, <2>5 DEF Receive, Control, Unsettled
  <2>. QED BY <1>1, <2>3, <2>4, <2>5 DEF Receive
<1>2. CASE Ask
  BY <1>0, <1>2 DEF Ask, Control, Unsettled, Cause
<1>3. CASE AppendChunk
  <2>1. Control'
    BY <1>0, <1>3 DEF AppendChunk, Control
  <2>2. CASE Again
    <3>1. settled = received
      BY <1>0, <1>3, <2>2 DEF AppendChunk, Unsettled
    <3>2. settled' = received
      BY <1>0, <1>3, <3>1, ChunkProperties, <1>a DEF AppendChunk
    <3>. QED BY <1>3, <2>1, <2>2, <3>2 DEF AppendChunk, Unsettled
  <2>3. CASE ~Again
    <3>1. rest = Samples(settled, received)
      BY <1>0, <1>3, <2>3 DEF AppendChunk, Unsettled
    <3>2. settled' = settled + Fits
      <4>1. Fits \in Nat /\ (Fits > 0 => rest[Fits] = settled + Fits)
        BY <1>0, <3>1, ChunkProperties, ChunkSamples DEF TurnTypeOK
      <4>2. settled' = IF Fits > 0 /\ settled < rest[Fits] THEN rest[Fits] ELSE settled
        BY <1>3 DEF AppendChunk
      <4>. QED BY <1>a, <4>1, <4>2
    <3>3. rest' = Samples(settled', received')
      BY <1>0, <1>3, <3>1, <3>2, ChunkSamples DEF AppendChunk
    <3>. QED BY <1>3, <2>1, <2>3, <3>3 DEF AppendChunk, Unsettled
  <2>. QED BY <2>2, <2>3
<1>4. CASE AppendThrows
  BY <1>0, <1>4 DEF AppendThrows, Control, Unsettled
<1>5. CASE Appended
  <2>1. settled = received
    <3>1. CASE Again
      BY <1>0, <1>5, <3>1 DEF Appended, Unsettled
    <3>2. CASE ~Again
      BY <1>0, <1>5, <1>a, <3>2, SamplesProperties DEF Appended, Unsettled
    <3>. QED BY <3>1, <3>2
  <2>2. serverVad => speech
    BY <1>0, <1>5 DEF Appended, Control
  <2>3. then = "eval" => serverVad
    BY <1>0, <1>5 DEF Appended, Control
  <2>. QED BY <1>5, <2>1, <2>2, <2>3 DEF Appended, Control, Unsettled
<1>6. CASE TooSoon
  BY <1>0, <1>6 DEF TooSoon, Control, Unsettled
<1>7. CASE VadFails
  BY <1>0, <1>7 DEF VadFails, Evaluate, Control, Unsettled
<1>8. CASE Onset
  BY <1>0, <1>8 DEF Onset, Evaluate, Control, Unsettled
<1>9. CASE Stopped
  BY <1>0, <1>9 DEF Stopped, Evaluate, Control, Unsettled
<1>10. CASE NothingNew
  <2>1. CASE speech
    BY <1>0, <1>10, <2>1 DEF NothingNew, Evaluate, Control, Unsettled
  <2>2. CASE ~speech
    <3>1. window' = Samples(settled', received')
      BY <1>10, <2>2, KeptWindow, TurnAssumption DEF NothingNew, Evaluate
    <3>. QED BY <1>0, <1>10, <2>2, <3>1 DEF NothingNew, Evaluate, Control, Unsettled
  <2>. QED BY <2>1, <2>2
<1>11. CASE Complete
  <2>1. CASE why = "full"
    BY <1>0, <1>11, <2>1 DEF Complete, Control, Unsettled
  <2>2. CASE why # "full"
    BY <1>0, <1>11, <1>b, <2>2 DEF Complete, Control, Unsettled
  <2>. QED BY <2>1, <2>2
<1>12. CASE CommitThrows
  BY <1>0, <1>12, <1>b DEF CommitThrows, Control, Unsettled
<1>13. CASE UNCHANGED vars
  BY <1>0, <1>13 DEF vars, control, Control, Unsettled
<1>. QED
  BY <1>1, <1>2, <1>3, <1>4, <1>5, <1>6, <1>7, <1>8, <1>9, <1>10, <1>11, <1>12, <1>13 DEF Next

\* What the backend's session hears and the turn grow and go together.
LEMMA NativeStep == TurnInv /\ [Next]_vars => NativeHearsTurn'
<1>. SUFFICES ASSUME TurnInv, [Next]_vars PROVE NativeHearsTurn'
  OBVIOUS
<1>. USE DEF backend, NativeHearsTurn
<1>0. NativeHearsTurn
  BY DEF TurnInv
<1>1. CASE UNCHANGED <<turn, native, fed, intact>>
  BY <1>0, <1>1
<1>2. CASE AppendChunk
  BY <1>0, <1>2 DEF AppendChunk
<1>3. CASE AppendThrows
  BY <1>3 DEF AppendThrows
<1>4. CASE Complete
  BY <1>4 DEF Complete
<1>5. CASE CommitThrows
  BY <1>0, <1>5 DEF CommitThrows
<1>6. [Next]_vars => \/ UNCHANGED <<turn, native, fed, intact>>
                     \/ AppendChunk \/ AppendThrows \/ Complete \/ CommitThrows
  BY DEF Next, vars, Receive, Ask, Appended, TooSoon, VadFails, Onset, Stopped, NothingNew
<1>. QED BY <1>1, <1>2, <1>3, <1>4, <1>5, <1>6

\* A turn that is not torn stays one run of samples that ends with the last one settled.
LEMMA WholeStep == TurnInv /\ [Next]_vars => Whole'
<1>. SUFFICES ASSUME TurnInv, [Next]_vars PROVE Whole'
  OBVIOUS
<1>. USE DEF Append_asr, Handle_commit, detection, backend, Filling, Again
<1>0. TurnTypeOK /\ Control /\ Unsettled /\ Whole
  BY DEF TurnInv
<1>a. /\ settled \in Nat /\ received \in Nat /\ settled <= received
      /\ turn \in Seq(1..received) /\ Len(turn) \in Nat
  BY <1>0 DEF TurnTypeOK
<1>b. \A k \in Nat : Len(<<>>) = 0 /\ <<>> = Samples(k - 0, k)
  BY SamplesProperties
<1>1. ASSUME NEW n \in 1..MaxMessage, Receive(n) PROVE Whole'
  BY <1>0, <1>1 DEF Receive, Whole
<1>2. CASE Ask
  <2>1. ~torn /\ ~(serverVad /\ ~speech) => settled = received
    BY <1>0, <1>2 DEF Ask, Unsettled
  <2>2. ~torn /\ serverVad /\ ~speech => turn = <<>>
    BY <1>0, <1>2 DEF Ask, Whole
  <2>3. ~torn => Len(turn) <= received /\ turn = Samples(received - Len(turn), received)
    BY <1>0, <1>a, <1>b, <2>1, <2>2 DEF Whole
  <2>. QED BY <1>0, <1>2, <2>3 DEF Ask, Whole, Control
<1>3. CASE AppendChunk
  <2>1. CASE Again
    <3>1. torn
      BY <1>0, <1>3, <2>1 DEF AppendChunk, Whole
    <3>. QED BY <1>3, <3>1 DEF AppendChunk, Whole
  <2>2. CASE ~Again
    <3>1. rest = Samples(settled, received)
      BY <1>0, <1>3, <2>2 DEF AppendChunk, Unsettled
    <3>2. /\ Fits \in Nat /\ Chunk = Samples(settled, settled + Fits)
          /\ Fits > 0 => rest[Fits] = settled + Fits
          /\ Len(turn \o Chunk) = Len(turn) + Fits
      BY <1>0, <3>1, ChunkProperties, ChunkSamples DEF TurnTypeOK
    <3>3. settled' = settled + Fits /\ turn' = turn \o Chunk
      <4>1. /\ settled' = IF Fits > 0 /\ settled < rest[Fits] THEN rest[Fits] ELSE settled
            /\ turn' = turn \o Chunk
        BY <1>3 DEF AppendChunk
      <4>2. Fits = 0 \/ (Fits > 0 /\ rest[Fits] = settled + Fits)
        BY <3>2
      <4>3. CASE Fits = 0
        BY <1>a, <4>1, <4>3
      <4>4. CASE Fits > 0 /\ rest[Fits] = settled + Fits
        <5>1. settled < rest[Fits]
          BY <1>a, <3>2, <4>4
        <5>. QED BY <4>1, <4>4, <5>1
      <4>. QED BY <4>2, <4>3, <4>4
    <3>4. ASSUME ~torn
          PROVE  Len(turn') <= settled' /\ turn' = Samples(settled' - Len(turn'), settled')
      <4>1. Len(turn) <= settled /\ turn = Samples(settled - Len(turn), settled)
        BY <1>0, <3>4 DEF Whole
      <4>. DEFINE a == settled - Len(turn)  c == settled + Fits
      <4>2. a \in Nat /\ c \in Nat /\ a <= settled /\ settled <= c
        BY <1>a, <3>2, <4>1
      <4>3. turn' = Samples(a, settled) \o Samples(settled, c)
        BY <3>2, <3>3, <4>1
      <4>4. a = settled' - Len(turn') /\ c = settled' /\ Len(turn') <= settled'
        BY <1>a, <3>2, <3>3, <4>1
      <4>. HIDE DEF a, c
      <4>5. turn' = Samples(a, c)
        BY <1>a, <4>2, <4>3, SamplesConcat
      <4>. QED BY <4>4, <4>5
    <3>5. torn' = torn /\ then' = then /\ speech' = speech /\ serverVad' = serverVad
      BY <1>3 DEF AppendChunk
    <3>6. serverVad => speech
      BY <1>0, <1>3 DEF AppendChunk, Control
    <3>. QED BY <2>2, <3>4, <3>5, <3>6 DEF Whole
  <2>. QED BY <2>1, <2>2
<1>4. CASE AppendThrows
  BY <1>4 DEF AppendThrows, Whole
<1>5. CASE Appended
  BY <1>0, <1>5 DEF Appended, Whole
<1>6. CASE TooSoon
  BY <1>0, <1>6 DEF TooSoon, Whole
<1>7. CASE VadFails
  <2>1. /\ serverVad' = FALSE /\ speech' = speech /\ turn' = turn /\ settled' = settled
        /\ (torn' <=> (torn \/ speech))
    BY <1>7, Zenon DEF VadFails
  <2>. QED BY <1>0, <2>1 DEF Whole
<1>8. CASE Onset
  BY <1>0, <1>8 DEF Onset, Evaluate, Whole
<1>9. CASE Stopped
  BY <1>0, <1>9 DEF Stopped, Evaluate, Whole, Control
<1>10. CASE NothingNew
  <2>1. CASE speech
    BY <1>0, <1>10, <2>1 DEF NothingNew, Evaluate, Whole
  <2>2. CASE ~speech
    <3>1. settled' \in Nat
      <4>1. pc = "eval" /\ settled' = received - Len(LastOf(window, IdleKeep))
        BY <1>10, <2>2 DEF NothingNew, Evaluate
      <4>2. received - Len(LastOf(window, IdleKeep)) \in settled..received
        BY <2>2, <4>1, KeptWindow, TurnAssumption
      <4>. QED BY <1>a, <4>1, <4>2
    <3>2. ~torn => turn = <<>>
      BY <1>0, <1>10, <2>2 DEF NothingNew, Evaluate, Whole, Control
    <3>3. /\ pc' = "idle" /\ turn' = turn /\ torn' = torn
      BY <1>10 DEF NothingNew
    <3>. QED BY <1>b, <3>1, <3>2, <3>3 DEF Whole
  <2>. QED BY <2>1, <2>2
<1>11. CASE Complete
  <2>1. /\ turn' = <<>> /\ settled' = settled /\ rest' = rest /\ then' = then
        /\ (torn' <=> (Again /\ rest # <<>>)) /\ (speech' => speech)
    BY <1>11, Zenon DEF Complete
  <2>2. Len(turn') <= settled' /\ turn' = Samples(settled' - Len(turn'), settled')
    BY <1>a, <1>b, <2>1
  <2>. QED BY <2>1, <2>2 DEF Whole
<1>12. CASE CommitThrows
  BY <1>12 DEF CommitThrows, Whole
<1>13. CASE UNCHANGED vars
  BY <1>0, <1>13 DEF vars, control, Whole
<1>. QED
  BY <1>1, <1>2, <1>3, <1>4, <1>5, <1>6, <1>7, <1>8, <1>9, <1>10, <1>11, <1>12, <1>13 DEF Next

THEOREM TurnInvariance == Spec => []TurnInv
<1>1. TurnInv /\ [Next]_vars => TurnInv'
  BY TypeStep, SampleStep, NativeStep, WholeStep DEF TurnInv
<1>. QED BY <1>1, InitTurn, PTL DEF Spec

-----------------------------------------------------------------------------
(* The results.                                                             *)

\* TurnBuffer: a session's variables keep their types, and no turn exceeds its cap, whatever
\* the length of the messages.
THEOREM TurnTyping == Spec => []TurnTypeOK
<1>1. TurnInv => TurnTypeOK
  BY DEF TurnInv
<1>. QED BY <1>1, TurnInvariance, PTL

\* append_asr, append_with_vad: every sample is in a turn or given up, or in the window before
\* the speech, or in what is left of the message.
THEOREM AllSettledAlways == Spec => []AllSettled
<1>1. TurnInv => AllSettled
  <2>. SUFFICES ASSUME TurnInv PROVE AllSettled
    OBVIOUS
  <2>1. settled \in Nat /\ received \in Nat /\ settled <= received
    BY DEF TurnInv, TurnTypeOK
  <2>2. Samples(received, received) = <<>>
    BY <2>1, SamplesProperties
  <2>. QED BY <2>2 DEF TurnInv, Control, Unsettled, Filling, AllSettled
<1>. QED BY <1>1, TurnInvariance, PTL

\* append_asr, append_with_vad and handle_commit: as long as no call has thrown in the turn and
\* the detection has not failed in the middle of the speech, what is transcribed is one unbroken
\* piece of the recording, however the messages and the turns cut it.
THEOREM UnbrokenTurnAlways == Spec => []UnbrokenTurn
<1>1. TurnInv => UnbrokenTurn
  BY DEF TurnInv, Whole, UnbrokenTurn
<1>. QED BY <1>1, TurnInvariance, PTL

\* append_asr and handle_commit: the transcript of the backend's session and one of the whole
\* turn are of the same audio.
THEOREM NativeHearsTurnAlways == Spec => []NativeHearsTurn
<1>1. TurnInv => NativeHearsTurn
  BY DEF TurnInv
<1>. QED BY <1>1, TurnInvariance, PTL

\* append_asr: the samples enter the turns once and in order.
THEOREM OnceInOrderAlways == Spec => OnceInOrder
<1>1. ASSUME TurnInv, [Next]_vars, Len(turn') > Len(turn), ~Again
      PROVE  turn' = turn \o Samples(settled, settled + Len(turn') - Len(turn))
  <2>1. TurnTypeOK /\ Len(turn) \in Nat /\ settled \in Nat /\ Len(<<>>) = 0
    BY <1>1 DEF TurnInv, TurnTypeOK
  <2>2. AppendChunk \/ AppendThrows
    <3>1. CASE Complete
      BY <1>1, <2>1, <3>1 DEF Complete
    <3>2. CASE UNCHANGED turn
      BY <1>1, <2>1, <3>2
    <3>3. \/ UNCHANGED turn \/ AppendChunk \/ AppendThrows \/ Complete
      BY <1>1 DEF Next, vars, backend, Receive, Ask, Appended, TooSoon, VadFails, Onset,
                  Stopped, NothingNew, CommitThrows
    <3>. QED BY <3>1, <3>2, <3>3
  <2>3. pc = "append" /\ turn' = turn \o Chunk
    BY <2>2 DEF AppendChunk, AppendThrows
  <2>4. Chunk = Samples(settled, settled + Fits)
    BY <1>1, <2>1, <2>3, ChunkSamples DEF TurnInv, Unsettled, Filling
  <2>5. Len(turn') = Len(turn) + Fits /\ Fits \in Nat
    BY <2>1, <2>3, ChunkProperties
  <2>6. settled + Len(turn') - Len(turn) = settled + Fits
    BY <2>1, <2>5
  <2>. QED BY <2>3, <2>4, <2>6
<1>2. TurnInv /\ [Next]_vars =>
        [Len(turn') > Len(turn) /\ ~Again =>
           turn' = turn \o Samples(settled, settled + Len(turn') - Len(turn))]_vars
  BY <1>1
<1>. QED BY <1>2, TurnInvariance, PTL DEF Spec, OnceInOrder

=============================================================================
