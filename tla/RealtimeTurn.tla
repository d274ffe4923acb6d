----------------------------- MODULE RealtimeTurn -----------------------------
(***************************************************************************)
(* One session of the realtime server (examples/server/                    *)
(* realtime_server.cpp, core/realtime_turn_buffer.h): the client's audio   *)
(* goes, past the voice detection if there is one, into the turn, and the  *)
(* turn is transcribed when it is full, when the speech stops, or when the *)
(* client asks.  A backend with a session of its own hears the audio as it *)
(* comes; if that fails, the whole turn is transcribed at its end.         *)
(*                                                                         *)
(* A sample is its number in the stream.  A session is one thread, and a   *)
(* step goes up to the next call that may fail: what a call of the model   *)
(* throws is caught in the loop over messages, and takes the rest of the   *)
(* message with it.                                                        *)
(***************************************************************************)
EXTENDS Integers, Sequences

CONSTANTS MaxSamples,   \* bound: the samples a client sends
          MaxMessage,   \* bound: the samples in a message
          Cap,          \* TurnBuffer's max_samples_
          EvalStep,     \* eval_step
          IdleKeep,     \* what vad_window keeps before the speech starts ...
          SpeechKeep    \* ... and while it lasts

ASSUME TurnAssumption ==
  /\ {MaxSamples, MaxMessage, IdleKeep, SpeechKeep} \subseteq Nat
  /\ Cap \in Nat \ {0} /\ EvalStep \in Nat \ {0}

VARIABLES
  serverVad,   \* server_vad
  speech,      \* speech_active
  window,      \* vad_window
  sinceEval,   \* vad_samples_since_eval
  turn,        \* turn.audio()
  native,      \* the backend's own session is there
  fed,         \* what that session has heard since it was reset
  pc,          \* where the session is in the message
  rest,        \* append_asr: what is still to be appended
  then,        \* what append_asr is called for
  why,         \* what handle_commit is called for
  received,    \* samples received
  settled,     \* auxiliary: the samples up to here are in a turn, or given up
  intact,      \* auxiliary: no call of the backend's session has thrown in this turn
  torn         \* auxiliary: something has been lost in this turn, or is in it twice

detection == <<serverVad, speech, window, sinceEval>>
backend == <<turn, native, fed, intact, torn>>
control == <<pc, rest, then, why>>
vars == <<detection, backend, control, received, settled>>

Point == {"idle", "append", "eval", "commit"}
Purpose == {"message", "eval", "onset", "failed"}
Cause == {"full", "stopped", "asked"}

\* The samples a+1..b.
Samples(a, b) == [i \in 1..(b - a) |-> a + i]

\* The last k samples of s.
LastOf(s, k) == IF Len(s) <= k THEN s ELSE SubSeq(s, Len(s) - k + 1, Len(s))

Init ==
  /\ serverVad \in BOOLEAN /\ speech = FALSE
  /\ window = <<>> /\ sinceEval = 0
  /\ turn = <<>> /\ native \in BOOLEAN /\ fed = <<>> /\ intact = TRUE /\ torn = FALSE
  /\ pc = "idle" /\ rest = <<>> /\ then = "message" /\ why = "asked"
  /\ received = 0 /\ settled = 0

\* append_asr is called with s.
Append_asr(s, purpose) == pc' = "append" /\ rest' = s /\ then' = purpose /\ UNCHANGED why

\* handle_commit is called.
Handle_commit(cause) == pc' = "commit" /\ why' = cause

-----------------------------------------------------------------------------
(* Messages: input_audio_buffer.append and .commit.                         *)

\* append_with_vad, up to the evaluation.
Receive(n) ==
  LET new == Samples(received, received + n)
  IN /\ pc = "idle"
     /\ received' = received + n
     /\ window' = IF serverVad THEN window \o new ELSE window
     /\ sinceEval' = IF serverVad THEN sinceEval + n ELSE sinceEval
     /\ \/ serverVad /\ ~speech /\ pc' = "eval" /\ UNCHANGED <<rest, then, why>>
        \/ serverVad /\ speech /\ Append_asr(new, "eval")
        \/ ~serverVad /\ Append_asr(new, "message")
     /\ UNCHANGED <<serverVad, speech, backend, settled>>

\* The client commits: what is in the window is given up.
Ask ==
  /\ pc = "idle"
  /\ window' = <<>> /\ speech' = FALSE
  /\ Handle_commit("asked")
  /\ settled' = received
  /\ UNCHANGED <<serverVad, sinceEval, backend, rest, then, received>>

-----------------------------------------------------------------------------
(* append_asr.                                                              *)

Fits == IF Len(rest) <= Cap - Len(turn) THEN Len(rest) ELSE Cap - Len(turn)
Chunk == SubSeq(rest, 1, Fits)

\* Mutant: a turn takes the whole message.
AppendUncapped ==
  /\ pc = "append" /\ rest # <<>>
  /\ turn' = turn \o rest
  /\ rest' = <<>>
  /\ \/ Len(turn') >= Cap /\ Handle_commit("full")
     \/ Len(turn') < Cap /\ UNCHANGED <<pc, why>>
  /\ settled' = IF settled < rest[Len(rest)] THEN rest[Len(rest)] ELSE settled
  /\ \/ fed' = (IF native THEN fed \o rest ELSE fed) /\ UNCHANGED native
     \/ native /\ Fits > 0 /\ native' = FALSE /\ fed' = <<>>
  /\ UNCHANGED <<detection, intact, torn, then, received>>

\* Mutant: what does not fit any more is dropped.
AppendWhatFits ==
  /\ pc = "append" /\ rest # <<>>
  /\ turn' = turn \o Chunk
  /\ rest' = <<>>
  /\ \/ Len(turn') >= Cap /\ Handle_commit("full")
     \/ Len(turn') < Cap /\ UNCHANGED <<pc, why>>
  /\ settled' = IF Fits > 0 /\ settled < rest[Fits] THEN rest[Fits] ELSE settled
  /\ \/ fed' = (IF native THEN fed \o Chunk ELSE fed) /\ UNCHANGED native
     \/ native /\ Fits > 0 /\ native' = FALSE /\ fed' = <<>>
  /\ UNCHANGED <<detection, intact, torn, then, received>>

\* As much as the turn has room for goes in, and to the backend's session, which may fail: it
\* is dropped then.  A full turn is committed before the rest is appended.
AppendChunk ==
  /\ pc = "append" /\ rest # <<>>
  /\ turn' = turn \o Chunk
  /\ rest' = SubSeq(rest, Fits + 1, Len(rest))
  /\ \/ Len(turn') >= Cap /\ Handle_commit("full")
     \/ Len(turn') < Cap /\ UNCHANGED <<pc, why>>
  /\ settled' = IF Fits > 0 /\ settled < rest[Fits] THEN rest[Fits] ELSE settled
  /\ \/ fed' = (IF native THEN fed \o Chunk ELSE fed) /\ UNCHANGED native
     \/ native /\ Fits > 0 /\ native' = FALSE /\ fed' = <<>>
  /\ UNCHANGED <<detection, intact, torn, then, received>>

\* The backend's session throws: the rest of the message is lost.
AppendThrows ==
  /\ pc = "append" /\ native /\ Fits > 0
  /\ turn' = turn \o Chunk
  /\ fed' \in {fed, fed \o Chunk}
  /\ intact' = FALSE /\ torn' = TRUE
  /\ pc' = "idle" /\ rest' = <<>>
  /\ settled' = received
  /\ UNCHANGED <<detection, native, then, why, received>>

\* append_asr returns to what it was called for.  The window is cleared when the detection
\* has failed, and cut when the speech has just started.
Appended ==
  /\ pc = "append" /\ rest = <<>>
  /\ pc' = IF then = "eval" THEN "eval" ELSE "idle"
  /\ window' = CASE then = "failed" -> <<>>
                 [] then = "onset" -> LastOf(window, SpeechKeep)
                 [] OTHER -> window
  /\ UNCHANGED <<serverVad, speech, sinceEval, backend, rest, then, why, received, settled>>

-----------------------------------------------------------------------------
(* append_with_vad: the evaluation.                                         *)

TooSoon ==
  /\ pc = "eval" /\ pc' = "idle"
  /\ sinceEval < EvalStep
  /\ UNCHANGED <<detection, backend, rest, then, why, received, settled>>

Evaluate ==
  /\ pc = "eval"
  /\ sinceEval >= EvalStep /\ sinceEval' = 0

\* The detection's model does not load: the session goes on without it.
VadFails ==
  /\ Evaluate
  /\ serverVad' = FALSE
  /\ Append_asr(window, "failed")
  /\ torn' = (torn \/ speech)
  /\ UNCHANGED <<speech, window, turn, native, fed, intact, received, settled>>

Onset ==
  /\ Evaluate
  /\ ~speech /\ speech' = TRUE
  /\ Append_asr(window, "onset")
  /\ UNCHANGED <<serverVad, window, backend, received, settled>>

Stopped ==
  /\ Evaluate
  /\ speech
  /\ Handle_commit("stopped")
  /\ UNCHANGED <<serverVad, speech, window, backend, rest, then, received, settled>>

\* Nothing new is heard: the window is cut.  Before the speech that gives silence up.
NothingNew ==
  /\ Evaluate /\ pc' = "idle"
  /\ window' = LastOf(window, IF speech THEN SpeechKeep ELSE IdleKeep)
  /\ settled' = IF speech THEN settled ELSE received - Len(window')
  /\ UNCHANGED <<serverVad, speech, backend, rest, then, why, received>>

-----------------------------------------------------------------------------
(* handle_commit.                                                           *)

\* The detection has failed in the middle of the speech, and the window, which is in the turn
\* already, is appended again.
Again == then = "failed" /\ speech

\* Mutant: a turn that ends with the speech is not reset.
CompleteKeepsTurn ==
  /\ pc = "commit"
  /\ pc' = IF why = "full" THEN "append" ELSE "idle"
  /\ native' \in {native, FALSE}
  /\ turn' = (IF why = "stopped" THEN turn ELSE <<>>)
  /\ fed' = <<>> /\ intact' = TRUE /\ torn' = (Again /\ rest # <<>>)
  /\ speech' = (speech /\ why # "stopped")
  /\ window' = IF why = "stopped" THEN <<>> ELSE window
  /\ UNCHANGED <<serverVad, sinceEval, rest, then, why, received, settled>>

\* Mutant: the window of the speech that has ended stays.
CompleteKeepsWindow ==
  /\ pc = "commit"
  /\ pc' = IF why = "full" THEN "append" ELSE "idle"
  /\ native' \in {native, FALSE}
  /\ turn' = <<>> /\ fed' = <<>> /\ intact' = TRUE /\ torn' = (Again /\ rest # <<>>)
  /\ speech' = (speech /\ why # "stopped")
  /\ UNCHANGED <<serverVad, window, sinceEval, rest, then, why, received, settled>>

\* Mutant: the backend's session is not reset.
CompleteKeepsFed ==
  /\ pc = "commit"
  /\ pc' = IF why = "full" THEN "append" ELSE "idle"
  /\ native' \in {native, FALSE}
  /\ turn' = <<>> /\ intact' = TRUE /\ torn' = (Again /\ rest # <<>>)
  /\ speech' = (speech /\ why # "stopped")
  /\ window' = IF why = "stopped" THEN <<>> ELSE window
  /\ UNCHANGED <<serverVad, sinceEval, fed, rest, then, why, received, settled>>

\* The backend's session ends the turn; or it fails and is dropped, or there is none, and the
\* whole turn is transcribed.  The event is sent and the turn begins anew.
Complete ==
  /\ pc = "commit"
  /\ pc' = IF why = "full" THEN "append" ELSE "idle"
  /\ native' \in {native, FALSE}
  /\ turn' = <<>> /\ fed' = <<>> /\ intact' = TRUE /\ torn' = (Again /\ rest # <<>>)
  /\ speech' = (speech /\ why # "stopped")
  /\ window' = IF why = "stopped" THEN <<>> ELSE window
  /\ UNCHANGED <<serverVad, sinceEval, rest, then, why, received, settled>>

\* Either throws: the turn stays, and so does what was to follow the commit.
CommitThrows ==
  /\ pc = "commit" /\ pc' = "idle"
  /\ \/ native /\ intact' = FALSE /\ UNCHANGED <<native, fed>>
     \/ turn # <<>> /\ native' = FALSE /\ fed' = <<>> /\ UNCHANGED intact
  /\ rest' = <<>>
  /\ settled' = received /\ torn' = TRUE
  /\ UNCHANGED <<detection, turn, then, why, received>>

-----------------------------------------------------------------------------
Next ==
  \/ \E n \in 1..MaxMessage : received + n <= MaxSamples /\ Receive(n)
  \/ Ask
  \/ AppendChunk \/ AppendThrows \/ Appended
  \/ TooSoon \/ VadFails \/ Onset \/ Stopped \/ NothingNew
  \/ Complete \/ CommitThrows

Spec == Init /\ [][Next]_vars

-----------------------------------------------------------------------------
\* Types; and a turn never exceeds its cap.
TurnTypeOK ==
  /\ serverVad \in BOOLEAN /\ speech \in BOOLEAN /\ native \in BOOLEAN /\ intact \in BOOLEAN
  /\ torn \in BOOLEAN
  /\ window \in Seq(1..received) /\ rest \in Seq(1..received) /\ fed \in Seq(1..received)
  /\ turn \in Seq(1..received) /\ Len(turn) <= Cap
  /\ pc \in Point /\ then \in Purpose /\ why \in Cause
  /\ sinceEval \in 0..received /\ received \in 0..MaxSamples /\ settled \in 0..received

\* Every sample received is settled or on its way: in the window before the speech starts, in
\* what is left of the message while it is appended, and nowhere else.  So nothing is dropped
\* when a turn fills up in the middle of a message, nor at the onset.
AllSettled ==
  /\ pc = "idle" =>
       IF serverVad /\ ~speech THEN window = Samples(settled, received) ELSE settled = received
  /\ pc \in {"append", "commit"} /\ ~Again => rest = Samples(settled, received)

\* What enters the turn is what follows the samples settled, once and in order.
OnceInOrder ==
  [][Len(turn') > Len(turn) /\ ~Again =>
       turn' = turn \o Samples(settled, settled + Len(turn') - Len(turn))]_vars

\* What is transcribed is one unbroken piece of the recording, up to the last sample settled,
\* unless a call has thrown in the turn or the detection failed in the middle of the speech.
UnbrokenTurn == ~torn => turn = Samples(settled - Len(turn), settled)

\* The backend's session has heard the turn and nothing else, so that its transcript and one
\* of the whole turn are of the same audio.
NativeHearsTurn == native /\ intact => fed = turn
=============================================================================
