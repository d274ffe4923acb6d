------------------------------ MODULE Subtitles ------------------------------
(***************************************************************************)
(* What live translation promises its reader: each sentence is translated  *)
(* once, in the order of the speech; some time after it was spoken it      *)
(* becomes final, by a revision or by being given up, and stays what it    *)
(* has become; the marker that is reported never goes back and covers only *)
(* what is final; the transcript never loses a sentence; and when it is    *)
(* over, every sentence has been translated, is shown and is final.  No    *)
(* thread, queue or lock appears here.                                     *)
(***************************************************************************)
EXTENDS Integers, Sequences

VARIABLES
  spoken,            \* the sentences that have ended, in order
  translated,        \* those that have been translated, in order
  revised, skipped,  \* those that are final, by a revision or given up
  reported,          \* the marker
  shown,             \* those in the transcript
  over               \* nothing more will come

vars == <<spoken, translated, revised, skipped, reported, shown, over>>

Elems(s) == {s[i] : i \in 1..Len(s)}

Final == revised \cup skipped

Init ==
  /\ spoken = <<>> /\ translated = <<>>
  /\ revised = {} /\ skipped = {} /\ reported = -1
  /\ shown = {} /\ over = FALSE

\* The marker goes on over ids that are final.
Report == reported <= reported' /\ 0..reported' \subseteq Final'

\* More sentences end, each after those before it; earlier ones may be given up for them.
Speak ==
  /\ ~over
  /\ Len(spoken) <= Len(spoken')
  /\ \A i \in 1..Len(spoken) : spoken'[i] = spoken[i]
  /\ \A i, j \in 1..Len(spoken') : i < j => spoken'[i] < spoken'[j]
  /\ skipped \subseteq skipped'
  /\ skipped' \subseteq Elems(spoken) \ revised
  /\ Report
  /\ UNCHANGED <<translated, revised, shown, over>>

\* The first sentence not yet translated is, and is shown.
Translate ==
  /\ ~over
  /\ Len(translated) < Len(spoken)
  /\ translated' = Append(translated, spoken[Len(translated) + 1])
  /\ shown' = shown \cup {spoken[Len(translated) + 1]}
  /\ UNCHANGED <<spoken, revised, skipped, reported, over>>

\* Sentences that are not final yet become so, and are shown in their final form.
Revise ==
  /\ ~over
  /\ revised \subseteq revised'
  /\ revised' \subseteq Elems(spoken) \ skipped
  /\ shown' = shown \cup (revised' \ revised)
  /\ Report
  /\ UNCHANGED <<spoken, translated, skipped, over>>

End ==
  /\ ~over /\ over'
  /\ translated = spoken
  /\ Final = Elems(spoken) /\ shown = Elems(spoken)
  /\ UNCHANGED <<spoken, translated, revised, skipped, reported, shown>>

Next == Speak \/ Translate \/ Revise \/ End

Spec == Init /\ [][Next]_vars
=============================================================================
