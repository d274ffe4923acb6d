-------------------------- MODULE SpeechStreamProofs --------------------------
(***************************************************************************)
(* For any depth of the queue, any text and any number of chunks: no       *)
(* wake-up is lost, nothing is lost or reordered before a write fails,     *)
(* and a stream that is closed properly is complete.                       *)
(***************************************************************************)
EXTENDS SpeechStream, SequenceTheorems, TLAPS

\* How many chunks have passed enqueue().
Entered == IF worker \in {"pushing", "asleep"} THEN made - 1 ELSE made

\* Where each chunk is, position by position.
Placed ==
  /\ \A i \in 1..Len(sent) : sent[i] = i
  /\ \A i \in 1..Len(inHand) : inHand[i] = Len(sent) + i
  /\ \A i \in 1..Len(q) : q[i] = Len(sent) + Len(inHand) + i
  /\ Len(sent) + Len(inHand) + Len(q) = Entered

\* The points at which the provider has a chunk in hand, and what the flags say of the
\* two threads.
PointInv ==
  /\ provider \in {"loop", "called", "asleep", "ended"} => inHand = <<>>
  /\ provider \in {"popped", "writing"} => Len(inHand) = 1
  /\ worker \in {"pushing", "asleep"} => made > 0
  /\ done => worker \in {"closed", "gone"}
  /\ cancelled => provider = "dropped"
  /\ provider = "ended" => done /\ q = <<>>

IInv == StreamTypeOK /\ PointInv /\ NoLostWakeup /\ (~cancelled => Placed)

-----------------------------------------------------------------------------
LEMMA InitIInv == Init => IInv
<1> SUFFICES ASSUME Init PROVE IInv
  OBVIOUS
<1>1. <<>> \in Seq(1..MaxChunks) /\ Len(<<>>) = 0
  BY EmptySeq
<1>2. StreamTypeOK
  <2>1. q \in Seq(1..MaxChunks) /\ inHand \in Seq(1..MaxChunks) /\ sent \in Seq(1..MaxChunks)
    BY <1>1, Zenon DEF Init
  <2>2. Len(q) = 0 /\ Len(inHand) = 0
    BY <1>1, Zenon DEF Init
  <2>3. 0 <= Depth /\ 0 \in 0..Sentences /\ 0 \in 0..MaxChunks
    BY StreamAssumption
  <2>4. /\ done \in BOOLEAN /\ cancelled \in BOOLEAN /\ failed \in BOOLEAN
        /\ worker \in WorkerPoint /\ provider \in ProviderPoint
        /\ sentence = 0 /\ made = 0
    BY DEF Init, WorkerPoint, ProviderPoint
  <2> HIDE DEF Init
  <2>5. Len(q) <= Depth /\ Len(inHand) <= 1
    BY <2>2, <2>3
  <2> QED BY <2>1, <2>3, <2>4, <2>5, Zenon DEF StreamTypeOK
<1>3. PointInv /\ NoLostWakeup
  BY DEF Init, PointInv, NoLostWakeup
<1>4. Placed
  BY <1>1 DEF Init, Placed, Entered
<1> QED BY <1>2, <1>3, <1>4 DEF IInv

\* The variables keep their types.
LEMMA TypeStep == ASSUME StreamTypeOK, PointInv, NoLostWakeup, Next PROVE StreamTypeOK'
<1> USE StreamAssumption
    DEF StreamTypeOK, WorkerPoint, ProviderPoint, W, P, queueVars, workerVars, providerVars
<1>1. CASE LockModel BY <1>1 DEF LockModel
<1>2. CASE Speak BY <1>2 DEF Speak
<1>3. CASE EndSentence BY <1>3 DEF EndSentence
<1>4. CASE NextSentence BY <1>4 DEF NextSentence
<1>5. CASE EndSpeech BY <1>5 DEF EndSpeech
<1>6. CASE Throw BY <1>6 DEF Throw
<1>7. CASE Push
  <2>1. made \in 1..MaxChunks
    BY <1>7 DEF Push, PointInv
  <2>2. Append(q, made) \in Seq(1..MaxChunks) /\ Len(Append(q, made)) = Len(q) + 1
    BY <2>1, AppendProperties
  <2>3. Len(q) \in Nat
    BY LenProperties
  <2>4. q' \in Seq(1..MaxChunks)
    BY <1>7, <2>2, Zenon DEF Push
  <2>5. Len(q') <= Depth
    <3>1. \A n \in Nat : n < Depth => n + 1 <= Depth
      OBVIOUS
    <3> QED BY <1>7, <2>2, <2>3, <3>1, Zenon DEF Push
  <2>6. worker' \in {"speaking", "pushed", "asleep"}
    BY <1>7 DEF Push
  <2>7. UNCHANGED <<done, cancelled, sentence, made, provider, inHand, sent, failed>>
    BY <1>7 DEF Push
  <2> QED BY <2>4, <2>5, <2>6, <2>7
<1>8. CASE NotifyPushed BY <1>8 DEF NotifyPushed, WakeProvider
<1>9. CASE Close BY <1>9 DEF Close
<1>10. CASE NotifyClosed BY <1>10 DEF NotifyClosed, WakeProvider
<1>11. CASE Call BY <1>11 DEF Call
<1>12. CASE GiveUp BY <1>12 DEF GiveUp
<1>13. CASE Wait BY <1>13 DEF Wait
<1>14. CASE Pop BY <1>14, HeadTailProperties DEF Pop
<1>15. CASE Finish BY <1>15 DEF Finish
<1>16. CASE NotifyPopped BY <1>16 DEF NotifyPopped
<1>17. CASE Write BY <1>17, ConcatProperties, EmptySeq DEF Write
<1>18. CASE WriteFails BY <1>18 DEF WriteFails
<1>19. CASE WorkerWakes BY <1>19 DEF WorkerWakes
<1>20. CASE ProviderWakes BY <1>20 DEF ProviderWakes
<1> QED BY <1>1, <1>2, <1>3, <1>4, <1>5, <1>6, <1>7, <1>8, <1>9, <1>10, <1>11, <1>12, <1>13,
           <1>14, <1>15, <1>16, <1>17, <1>18, <1>19, <1>20
           DEF Next, WorkerNext, ProviderNext

\* The flags keep telling where the threads are, and a side sleeps beside what it waits
\* for only until the notify that is on its way.
LEMMA PointStep == ASSUME IInv, Next PROVE PointInv' /\ NoLostWakeup'
<1> USE StreamAssumption
    DEF IInv, StreamTypeOK, PointInv, NoLostWakeup, W, P, queueVars, workerVars, providerVars
<1>1. CASE LockModel BY <1>1 DEF LockModel
<1>2. CASE Speak BY <1>2 DEF Speak
<1>3. CASE EndSentence BY <1>3 DEF EndSentence
<1>4. CASE NextSentence BY <1>4 DEF NextSentence
<1>5. CASE EndSpeech BY <1>5 DEF EndSpeech
<1>6. CASE Throw BY <1>6 DEF Throw
<1>7. CASE Push BY <1>7, AppendProperties DEF Push
<1>8. CASE NotifyPushed BY <1>8 DEF NotifyPushed, WakeProvider
<1>9. CASE Close BY <1>9 DEF Close
<1>10. CASE NotifyClosed BY <1>10 DEF NotifyClosed, WakeProvider
<1>11. CASE Call BY <1>11 DEF Call
<1>12. CASE GiveUp BY <1>12 DEF GiveUp
<1>13. CASE Wait BY <1>13, EmptySeq DEF Wait
<1>14. CASE Pop BY <1>14, HeadTailProperties DEF Pop
<1>15. CASE Finish BY <1>15 DEF Finish
<1>16. CASE NotifyPopped BY <1>16 DEF NotifyPopped
<1>17. CASE Write BY <1>17, EmptySeq DEF Write
<1>18. CASE WriteFails BY <1>18 DEF WriteFails
<1>19. CASE WorkerWakes BY <1>19 DEF WorkerWakes
<1>20. CASE ProviderWakes BY <1>20 DEF ProviderWakes
<1> QED BY <1>1, <1>2, <1>3, <1>4, <1>5, <1>6, <1>7, <1>8, <1>9, <1>10, <1>11, <1>12, <1>13,
           <1>14, <1>15, <1>16, <1>17, <1>18, <1>19, <1>20
           DEF Next, WorkerNext, ProviderNext

\* Chunks keep their order as they move from the queue to the hand to the client.
LEMMA PlacedStep == ASSUME IInv, Next, ~cancelled' PROVE Placed'
<1> USE StreamAssumption
    DEF IInv, StreamTypeOK, PointInv, Placed, Entered, W, P, queueVars, workerVars,
        providerVars
<1>0. ~cancelled
  BY DEF Next, WorkerNext, ProviderNext, LockModel, Speak, EndSentence, NextSentence,
         EndSpeech, Throw, Push, NotifyPushed, Close, NotifyClosed, Call, GiveUp, Wait, Pop,
         Finish, NotifyPopped, Write, WriteFails, WorkerWakes, ProviderWakes
<1>1. CASE LockModel BY <1>0, <1>1 DEF LockModel
<1>2. CASE Speak BY <1>0, <1>2 DEF Speak
<1>3. CASE EndSentence BY <1>0, <1>3 DEF EndSentence
<1>4. CASE NextSentence BY <1>0, <1>4 DEF NextSentence
<1>5. CASE EndSpeech BY <1>0, <1>5 DEF EndSpeech
<1>6. CASE Throw BY <1>0, <1>6 DEF Throw
<1>7. CASE Push
  <2>1. made \in 1..MaxChunks /\ Len(q) \in Nat /\ Len(sent) \in Nat /\ Len(inHand) \in Nat
    BY <1>7, LenProperties DEF Push
  <2>2. /\ Len(Append(q, made)) = Len(q) + 1
        /\ \A i \in 1..Len(q) : Append(q, made)[i] = q[i]
        /\ Append(q, made)[Len(q) + 1] = made
    BY <2>1, AppendProperties
  <2>3. Len(sent) + Len(inHand) + Len(q) = made - 1
    BY <1>0, <1>7 DEF Push
  <2>4. CASE worker' = "pushed"
    <3>1. q' = Append(q, made) /\ UNCHANGED <<sent, inHand, made>>
      BY <1>0, <1>7, <2>4 DEF Push
    <3>2. \A i \in 1..Len(q) : q[i] = Len(sent) + Len(inHand) + i
      BY <1>0
    <3> HIDE DEF StreamTypeOK, IInv, PointInv
    <3>3. \A i \in 1..Len(q') : q'[i] = Len(sent) + Len(inHand) + i
      <4> SUFFICES ASSUME NEW i \in 1..Len(q) + 1
                   PROVE  Append(q, made)[i] = Len(sent) + Len(inHand) + i
        BY <2>2, <3>1, Zenon
      <4>1. CASE i \in 1..Len(q)
        BY <2>2, <3>2, <4>1, Zenon
      <4>2. CASE i = Len(q) + 1
        <5>1. Len(sent) + Len(inHand) + (Len(q) + 1) = made
          BY <2>1, <2>3
        <5> QED BY <2>2, <4>2, <5>1, Zenon
      <4>3. i \in 1..Len(q) \/ i = Len(q) + 1
        BY <2>1
      <4> QED BY <4>1, <4>2, <4>3
    <3>4. Len(sent) + Len(inHand) + (Len(q) + 1) = made
      BY <2>1, <2>3
    <3>5. Entered' = made'
      BY <2>4
    <3> QED BY <1>0, <2>2, <3>1, <3>3, <3>4, <3>5, Zenon DEF IInv, Placed
  <2>5. CASE worker' = "asleep"
    BY <1>0, <1>7, <2>5 DEF Push
  <2> QED BY <1>0, <1>7, <2>4, <2>5 DEF Push
<1>8. CASE NotifyPushed BY <1>0, <1>8 DEF NotifyPushed
<1>9. CASE Close BY <1>0, <1>9 DEF Close
<1>10. CASE NotifyClosed BY <1>0, <1>10 DEF NotifyClosed
<1>11. CASE Call BY <1>0, <1>11 DEF Call
<1>12. CASE GiveUp BY <1>0, <1>12 DEF GiveUp
<1>13. CASE Wait BY <1>0, <1>13 DEF Wait
<1>14. CASE Pop
  <2>1. Len(q) \in Nat /\ Len(sent) \in Nat /\ Len(inHand) = 0
    BY <1>14, LenProperties, EmptySeq DEF Pop
  <2>2. /\ Head(q) = q[1] /\ Len(q) > 0
        /\ Len(Tail(q)) = Len(q) - 1
        /\ \A i \in 1..Len(Tail(q)) : Tail(q)[i] = q[i + 1]
    BY <1>14, <2>1, HeadTailProperties, EmptySeq DEF Pop
  <2>3. inHand' = <<Head(q)>> /\ q' = Tail(q) /\ UNCHANGED <<sent, worker, made>>
    BY <1>14 DEF Pop
  <2>4. /\ \A i \in 1..Len(q) : q[i] = Len(sent) + 0 + i
        /\ \A i \in 1..Len(sent) : sent[i] = i
        /\ Len(sent) + 0 + Len(q) = Entered
    BY <1>0, <2>1, Zenon DEF Placed
  <2>5. Entered' = Entered
    BY <2>3 DEF Entered
  <2> HIDE DEF StreamTypeOK, IInv, PointInv, Placed, Entered
  <2>6. Len(inHand') = 1 /\ inHand'[1] = Len(sent) + 1
    <3>1. Len(<<Head(q)>>) = 1 /\ <<Head(q)>>[1] = Head(q)
      OBVIOUS
    <3>2. 1 \in 1..Len(q) /\ Len(sent) + 0 + 1 = Len(sent) + 1
      BY <2>1, <2>2
    <3> QED BY <2>2, <2>3, <2>4, <3>1, <3>2, Zenon
  <2>7. \A i \in 1..Len(q') : q'[i] = Len(sent) + 1 + i
    <3> SUFFICES ASSUME NEW i \in 1..Len(q) - 1 PROVE Tail(q)[i] = Len(sent) + 1 + i
      BY <2>2, <2>3, Zenon
    <3>1. i + 1 \in 1..Len(q) /\ Len(sent) + 0 + (i + 1) = Len(sent) + 1 + i
      BY <2>1
    <3> QED BY <2>2, <2>4, <3>1, Zenon
  <2>8. \A i \in 1..Len(inHand') : inHand'[i] = Len(sent) + i
    BY <2>6
  <2>9. Len(sent) + 1 + Len(q') = Entered
    <3>1. Len(q') = Len(q) - 1
      BY <2>2, <2>3, Zenon
    <3> QED BY <2>1, <2>4, <3>1
  <2> QED BY <2>3, <2>4, <2>5, <2>6, <2>7, <2>8, <2>9, Zenon DEF Placed
<1>15. CASE Finish BY <1>0, <1>15 DEF Finish
<1>16. CASE NotifyPopped BY <1>0, <1>16 DEF NotifyPopped
<1>17. CASE Write
  <2>1. Len(q) \in Nat /\ Len(sent) \in Nat /\ Len(inHand) = 1 /\ Len(inHand') = 0
    BY <1>17, LenProperties, EmptySeq DEF Write
  <2>2. /\ Len(sent \o inHand) = Len(sent) + 1
        /\ \A i \in 1..Len(sent) + 1 :
             (sent \o inHand)[i] = IF i <= Len(sent) THEN sent[i] ELSE inHand[i - Len(sent)]
    <3>1. Len(sent \o inHand) = Len(sent) + Len(inHand)
      BY ConcatProperties
    <3>2. \A i \in 1..Len(sent) + Len(inHand) :
             (sent \o inHand)[i] = IF i <= Len(sent) THEN sent[i] ELSE inHand[i - Len(sent)]
      BY ConcatProperties
    <3> QED BY <2>1, <3>1, <3>2, Zenon
  <2>3. sent' = sent \o inHand /\ UNCHANGED <<q, worker, made>>
    BY <1>17 DEF Write
  <2>4. /\ \A i \in 1..Len(sent) : sent[i] = i
        /\ inHand[1] = Len(sent) + 1
        /\ \A i \in 1..Len(q) : q[i] = Len(sent) + 1 + i
        /\ Len(sent) + 1 + Len(q) = Entered
    BY <1>0, <2>1 DEF Placed
  <2>5. Entered' = Entered
    BY <2>3 DEF Entered
  <2> HIDE DEF StreamTypeOK, IInv, PointInv, Placed, Entered
  <2>6. \A i \in 1..Len(sent') : sent'[i] = i
    <3> SUFFICES ASSUME NEW i \in 1..Len(sent) + 1
                 PROVE  (sent \o inHand)[i] = i
      BY <2>2, <2>3, Zenon
    <3>1. CASE i <= Len(sent)
      BY <2>1, <2>2, <2>4, <3>1
    <3>2. CASE ~(i <= Len(sent))
      <4>1. i = Len(sent) + 1 /\ i - Len(sent) = 1
        BY <2>1, <3>2
      <4> QED BY <2>2, <2>4, <3>2, <4>1, Zenon
    <3> QED BY <3>1, <3>2
  <2>7. Len(sent') = Len(sent) + 1
    BY <2>2, <2>3, Zenon
  <2>8. /\ \A i \in 1..Len(q') : q'[i] = (Len(sent) + 1) + 0 + i
        /\ (Len(sent) + 1) + 0 + Len(q') = Entered
    BY <2>1, <2>3, <2>4
  <2>9. \A i \in 1..Len(inHand') : inHand'[i] = Len(sent') + i
    BY <2>1
  <2> QED BY <2>1, <2>5, <2>6, <2>7, <2>8, <2>9, Zenon DEF Placed
<1>18. CASE WriteFails BY <1>0, <1>18 DEF WriteFails
<1>19. CASE WorkerWakes BY <1>0, <1>19 DEF WorkerWakes
<1>20. CASE ProviderWakes BY <1>0, <1>20 DEF ProviderWakes
<1> QED BY <1>1, <1>2, <1>3, <1>4, <1>5, <1>6, <1>7, <1>8, <1>9, <1>10, <1>11, <1>12, <1>13,
           <1>14, <1>15, <1>16, <1>17, <1>18, <1>19, <1>20
           DEF Next, WorkerNext, ProviderNext

\* The invariant of a stream.
THEOREM Invariant == SafetySpec => []IInv
<1>1. IInv /\ [Next]_vars => IInv'
  <2> SUFFICES ASSUME IInv, [Next]_vars PROVE IInv'
    OBVIOUS
  <2>1. CASE Next
    BY <2>1, TypeStep, PointStep, PlacedStep DEF IInv
  <2>2. CASE UNCHANGED vars
    BY <2>2 DEF vars, IInv, StreamTypeOK, PointInv, NoLostWakeup, Placed, Entered
  <2> QED BY <2>1, <2>2
<1> QED BY InitIInv, <1>1, PTL DEF SafetySpec

\* The variables have their types, and the queue its bound.
THEOREM TypeCorrect == SafetySpec => []StreamTypeOK
BY Invariant, PTL DEF IInv

\* No wake-up is lost.
THEOREM NoLostWakeupAlways == SafetySpec => []NoLostWakeup
BY Invariant, PTL DEF IInv

\* A sequence is the count from 1 when each position holds its own number.
LEMMA Counting ==
  ASSUME NEW S, NEW s \in Seq(S), \A i \in 1..Len(s) : s[i] = i
  PROVE  s = [i \in 1..Len(s) |-> i]
BY LenProperties

\* A stream that is closed properly has delivered every chunk that was made.
LEMMA CompleteWhenEnded == IInv => NothingMissing
<1> SUFFICES ASSUME IInv, provider = "ended" PROVE sent = [i \in 1..made |-> i]
  BY DEF NothingMissing
<1>1. q = <<>> /\ inHand = <<>> /\ worker \in {"closed", "gone"} /\ Placed
  BY DEF IInv, PointInv
<1>2. Len(sent) \in Nat /\ sent \in Seq(1..MaxChunks)
  BY LenProperties DEF IInv, StreamTypeOK
<1>3. Len(sent) + 0 + 0 = made
  BY <1>1, EmptySeq DEF Placed, Entered
<1>4. Len(sent) = made
  BY <1>2, <1>3
<1> QED BY <1>1, <1>2, <1>4, Counting, Zenon DEF Placed

\* So every stream that is closed properly is complete.
THEOREM NothingMissingAlways == SafetySpec => []NothingMissing
BY Invariant, CompleteWhenEnded, PTL

\* Until a write fails, the chunks on their way are the chunks made so far, in order.
THEOREM InOrderAlways == SafetySpec => []InOrder
<1>1. IInv => InOrder
  <2> SUFFICES ASSUME IInv, ~cancelled PROVE Pushed = [i \in 1..Entered |-> i]
    BY Zenon DEF InOrder, Entered
  <2> DEFINE n == Len(sent)
             m == Len(inHand)
             c == sent \o inHand
  <2>1. sent \in Seq(1..MaxChunks) /\ inHand \in Seq(1..MaxChunks) /\ q \in Seq(1..MaxChunks)
    BY DEF IInv, StreamTypeOK
  <2>2. n \in Nat /\ m \in Nat /\ Len(q) \in Nat
    BY <2>1, LenProperties
  <2>3. /\ c \in Seq(1..MaxChunks) /\ Len(c) = n + m
        /\ \A i \in 1..n + m : c[i] = IF i <= n THEN sent[i] ELSE inHand[i - n]
    BY <2>1, ConcatProperties
  <2>4. /\ c \o q \in Seq(1..MaxChunks) /\ Len(c \o q) = Len(c) + Len(q)
        /\ \A i \in 1..Len(c) + Len(q) :
             (c \o q)[i] = IF i <= Len(c) THEN c[i] ELSE q[i - Len(c)]
    BY <2>1, <2>3, ConcatProperties
  <2>5. /\ \A i \in 1..n : sent[i] = i
        /\ \A i \in 1..m : inHand[i] = n + i
        /\ \A i \in 1..Len(q) : q[i] = n + m + i
        /\ n + m + Len(q) = Entered
    BY DEF IInv, Placed
  <2> HIDE DEF n, m, c
  <2>6. Len(c \o q) = Entered
    BY <2>3, <2>4, <2>5, Zenon
  <2>7. \A i \in 1..n + m : c[i] = i
    <3> SUFFICES ASSUME NEW i \in 1..n + m PROVE c[i] = i
      OBVIOUS
    <3>1. CASE i <= n
      BY <2>2, <2>3, <2>5, <3>1
    <3>2. CASE ~(i <= n)
      <4>1. i - n \in 1..m /\ n + (i - n) = i
        BY <2>2, <3>2
      <4> QED BY <2>3, <2>5, <3>2, <4>1, Zenon
    <3> QED BY <3>1, <3>2
  <2>8. \A i \in 1..Entered : (c \o q)[i] = i
    <3> SUFFICES ASSUME NEW i \in 1..n + m + Len(q) PROVE (c \o q)[i] = i
      BY <2>5, Zenon
    <3>1. CASE i <= n + m
      <4>1. i \in 1..n + m
        BY <2>2, <3>1
      <4> QED BY <2>3, <2>4, <2>7, <3>1, <4>1, Zenon
    <3>2. CASE ~(i <= n + m)
      <4>1. i - (n + m) \in 1..Len(q) /\ n + m + (i - (n + m)) = i
        BY <2>2, <3>2
      <4> QED BY <2>3, <2>4, <2>5, <3>2, <4>1, Zenon
    <3> QED BY <3>1, <3>2
  <2>9. c \o q = [i \in 1..Entered |-> i]
    BY <2>4, <2>6, <2>8, Counting, Zenon
  <2> QED BY <2>9, Zenon DEF Pushed, c
<1> QED BY Invariant, <1>1, PTL

\* Nothing is queued once a write has failed.
THEOREM NoPushAfterCancelAlways == SafetySpec => NoPushAfterCancel
<1>1. IInv /\ [Next]_vars => [cancelled => Len(q') <= Len(q)]_vars
  <2> SUFFICES ASSUME IInv, Next, cancelled PROVE Len(q') <= Len(q)
    BY Zenon
  <2>1. Len(q) \in Nat /\ provider = "dropped"
    BY LenProperties DEF IInv, StreamTypeOK, PointInv
  <2>2. q' = q
    BY <2>1 DEF Next, WorkerNext, ProviderNext, LockModel, Speak, EndSentence, NextSentence,
       EndSpeech, Throw, Push, NotifyPushed, Close, NotifyClosed, Call, GiveUp, Wait, Pop,
       Finish, NotifyPopped, Write, WriteFails, WorkerWakes, ProviderWakes, P, W,
       queueVars
  <2> QED BY <2>1, <2>2
<1> QED BY Invariant, <1>1, PTL DEF SafetySpec, NoPushAfterCancel

-----------------------------------------------------------------------------
(* The refinement of SpeechPipe.                                            *)

\* A chunk that is handed over keeps the speaker within the queue, the provider's hand and
\* enqueue().
LEMMA SpeakPipes == IInv /\ Speak => Piping!SpeakOn
<1> SUFFICES ASSUME IInv, Speak PROVE Piping!SpeakOn
  OBVIOUS
<1>1. /\ worker = "speaking" /\ made' = made + 1 /\ UNCHANGED <<provider, sent>>
  BY DEF Speak, W, providerVars
<1>2. provider # "ended"
  BY <1>1 DEF IInv, PointInv
<1>3. Answer # "complete" /\ Answer' = Answer
  BY <1>1, <1>2 DEF Answer
<1>4. ASSUME Answer = "open" PROVE made < Len(sent) + (Depth + 2)
  <2>1. provider # "dropped"
    BY <1>4 DEF Answer
  <2>2. Placed
    BY <2>1 DEF IInv, PointInv
  <2>3. Len(sent) + Len(inHand) + Len(q) = made
    BY <1>1, <2>2 DEF Placed, Entered
  <2>4. Len(sent) \in Nat /\ Len(inHand) \in Nat /\ Len(q) \in Nat /\ Len(inHand) <= 1 /\ Len(q) <= Depth
    BY LenProperties DEF IInv, StreamTypeOK
  <2>. QED BY <2>3, <2>4, StreamAssumption
<1>. QED BY <1>1, <1>3, <1>4 DEF Piping!SpeakOn

\* The chunk that is written is the next one.
LEMMA WritePipes == IInv /\ Write => Piping!Hear
<1> SUFFICES ASSUME IInv, Write PROVE Piping!Hear
  OBVIOUS
<1>1. provider = "writing" /\ provider' = "loop" /\ sent' = sent \o inHand /\ made' = made
  BY DEF Write, P, workerVars
<1>2. Answer = "open" /\ Answer' = "open"
  BY <1>1 DEF Answer
<1>3. /\ Placed /\ Len(inHand) = 1 /\ made \in Int
      /\ Len(sent) \in Nat /\ Len(q) \in Nat
      /\ sent \in Seq(1..MaxChunks) /\ inHand \in Seq(1..MaxChunks)
  BY <1>1, LenProperties, StreamAssumption DEF IInv, PointInv, StreamTypeOK
<1>4. inHand[1] = Len(sent) + 1
  BY <1>3 DEF Placed
<1>5. Len(sent) < made
  BY <1>3 DEF Placed, Entered
<1>6. sent \o inHand = Append(sent, Len(sent) + 1)
  <2>1. inHand = <<inHand[1]>>
    BY <1>3
  <2>2. Len(sent) + 1 \in 1..MaxChunks
    <3>1. 1 \in 1..Len(inHand)
      BY <1>3
    <3>2. inHand[1] \in 1..MaxChunks
      BY <1>3, <3>1, ElementOfSeq
    <3>. QED BY <1>4, <3>2
  <2>3. Append(sent, Len(sent) + 1) = sent \o <<Len(sent) + 1>>
    BY <1>3, <2>2, AppendIsConcat
  <2>. QED BY <1>4, <2>1, <2>3
<1>. QED BY <1>1, <1>2, <1>5, <1>6 DEF Piping!Hear

\* A stream that is closed properly has been heard to the end; one whose end cannot be
\* written is broken off.
LEMMA FinishPipes == IInv /\ IInv' /\ Finish => Piping!Complete \/ Piping!BreakOff
<1> SUFFICES ASSUME IInv, IInv', Finish PROVE Piping!Complete \/ Piping!BreakOff
  OBVIOUS
<1>1. /\ provider = "called" /\ provider' \in {"ended", "dropped"}
      /\ sent' = sent /\ made' = made
  BY DEF Finish, P, workerVars
<1>2. Answer = "open"
  BY <1>1 DEF Answer
<1>3. CASE provider' = "ended"
  <2>1. NothingMissing'
    BY CompleteWhenEnded, PTL
  <2>2. Answer' = "complete"
    BY <1>3 DEF Answer
  <2>. QED BY <1>1, <1>2, <1>3, <2>1, <2>2 DEF Piping!Complete, NothingMissing
<1>4. CASE provider' = "dropped"
  BY <1>1, <1>2, <1>4 DEF Answer, Piping!BreakOff
<1>. QED BY <1>1, <1>3, <1>4

\* Every step of a stream is one of the pipe, or one that nobody outside sees.
LEMMA StreamPipes == IInv /\ IInv' /\ [Next]_vars => [Piping!Next]_(Piping!vars)
<1> SUFFICES ASSUME IInv, IInv', [Next]_vars PROVE Piping!Next \/ UNCHANGED <<made, sent, Answer>>
  BY DEF Piping!vars
<1>1. CASE Speak
  BY <1>1, SpeakPipes DEF Piping!Next
<1>2. CASE Write
  BY <1>2, WritePipes DEF Piping!Next
<1>3. CASE Finish
  BY <1>3, FinishPipes DEF Piping!Next
<1>4. CASE GiveUp \/ WriteFails
  <2>1. Answer = "open" /\ Answer' = "broken" /\ made' = made /\ sent' = sent
    BY <1>4 DEF GiveUp, WriteFails, P, workerVars, Answer
  <2>. QED BY <2>1 DEF Piping!Next, Piping!BreakOff
<1>5. CASE LockModel \/ EndSentence \/ NextSentence \/ EndSpeech \/ Throw \/ Push \/ NotifyPushed
           \/ Close \/ NotifyClosed
  <2>1. made' = made /\ sent' = sent
    BY <1>5 DEF LockModel, EndSentence, NextSentence, EndSpeech, Throw, Push, NotifyPushed, Close,
                NotifyClosed, providerVars
  <2>2. \/ provider' = provider
        \/ provider = "asleep" /\ provider' = "called"
    BY <1>5 DEF LockModel, EndSentence, NextSentence, EndSpeech, Throw, Push, NotifyPushed, Close,
                NotifyClosed, WakeProvider, providerVars
  <2>. QED BY <2>1, <2>2 DEF Answer
<1>6. CASE Call \/ Wait \/ Pop \/ NotifyPopped \/ WorkerWakes \/ ProviderWakes
  <2>1. made' = made /\ sent' = sent
    BY <1>6 DEF Call, Wait, Pop, NotifyPopped, WorkerWakes, ProviderWakes, workerVars, providerVars
  <2>2. \/ provider' = provider
        \/ provider \in {"loop", "called", "asleep", "popped"} /\ provider' \in {"called", "asleep", "popped", "writing"}
    BY <1>6 DEF Call, Wait, Pop, NotifyPopped, WorkerWakes, ProviderWakes, P, workerVars, providerVars
  <2>. QED BY <2>1, <2>2 DEF Answer
<1>7. CASE UNCHANGED vars
  BY <1>7 DEF vars, Answer
<1>. QED BY <1>1, <1>2, <1>3, <1>4, <1>5, <1>6, <1>7 DEF Next, WorkerNext, ProviderNext

\* The stream implements the pipe.
THEOREM StreamImplementsPipe == SafetySpec => ImplementsPipe
<1>1. Init => Piping!Init
  BY DEF Init, Piping!Init, Answer
<1>. QED BY <1>1, Invariant, StreamPipes, PTL DEF SafetySpec, ImplementsPipe, Piping!Spec
=============================================================================
