------------------------------ MODULE SpeechPipe ------------------------------
(***************************************************************************)
(* What a streamed answer promises the listener: what is spoken is heard,  *)
(* piece by piece and in order, and the speaker is never more than `Ahead` *)
(* pieces ahead of a listener who may still hear; the answer ends complete *)
(* when all that was spoken has been heard and nothing more will be, or it *)
(* breaks off.  No queue, lock or wake-up appears here.                    *)
(***************************************************************************)
EXTENDS Integers, Sequences

CONSTANT Ahead   \* how far the speaker may be ahead

VARIABLES
  spoken,   \* how many pieces have been spoken
  heard,    \* the pieces heard, in order
  answer    \* "open", "complete" or "broken"

vars == <<spoken, heard, answer>>

Init == spoken = 0 /\ heard = <<>> /\ answer = "open"

SpeakOn ==
  /\ answer # "complete"
  /\ answer = "open" => spoken < Len(heard) + Ahead
  /\ spoken' = spoken + 1
  /\ UNCHANGED <<heard, answer>>

Hear ==
  /\ answer = "open"
  /\ Len(heard) < spoken
  /\ heard' = Append(heard, Len(heard) + 1)
  /\ UNCHANGED <<spoken, answer>>

Complete ==
  /\ answer = "open" /\ answer' = "complete"
  /\ heard = [i \in 1..spoken |-> i]
  /\ UNCHANGED <<spoken, heard>>

BreakOff ==
  /\ answer = "open" /\ answer' = "broken"
  /\ UNCHANGED <<spoken, heard>>

Next == SpeakOn \/ Hear \/ Complete \/ BreakOff

Spec == Init /\ [][Next]_vars
=============================================================================
