---------------------------- MODULE LiveTranslate ----------------------------
(***************************************************************************)
(* The sink of the live translation (examples/cli/                         *)
(* crispasr_live_translate_sink.h): the caller, who hands it what the      *)
(* committer has settled; the fast translator's thread, which translates   *)
(* whole sentences and, when none waits, a draft of the open text; and the *)
(* reviser's thread, which translates a paragraph of finished sentences    *)
(* again and replaces them in the transcript.                              *)
(*                                                                         *)
(* A piece of settled text is its id.  A sentence is the pieces up to one  *)
(* that ends it and goes by the id of the first, so the ids of sentences   *)
(* have gaps.  Caller and reviser meet at the paragraph queue (rev_mu_),   *)
(* caller and both threads at everything else (mu_); a step of the model   *)
(* is what one of these mutexes makes atomic.                              *)
(***************************************************************************)
EXTENDS Integers, Sequences, FiniteSets

CONSTANTS MaxPieces,   \* bound: pieces committed in a run
          ParaLen,     \* revise_max_sentences
          Backlog      \* revise_max_backlog

ASSUME LiveAssumption ==
  /\ MaxPieces \in Nat
  /\ ParaLen \in Nat \ {0}
  /\ Backlog \in Nat \ {0}     \* crispasr_run.cpp raises it to 1

VARIABLES
  wholeUtterance,   \* a source reviser is set: a paragraph is the utterance
  nextPiece,        \* next_id_ of the committer
  unitFrom,         \* the first piece of the sentence not yet ended; nextPiece when there is none
  para,             \* para_: the sentences collected for the next paragraph
  caller,           \* where the caller is
  handing,          \* the sentences of the update being handled, not yet queued
  closed,           \* that update closes the utterance
  commits,          \* commits_
  pending,          \* pending_
  draft,            \* have_draft_job_
  working,          \* the sentence in the translator's hands, if any
  fast,             \* where the translator's thread is
  translated,       \* the sentences translated, in order
  stop, revStop,    \* stop_, rev_stop_
  revQueue,         \* rev_queue_
  inHand,           \* the paragraph in the reviser's hands
  slow,             \* where the reviser's thread is
  revised, skipped, \* the sentences of the paragraphs revised, and of those dropped
  finalUntil,       \* final_until_
  doc               \* doc_: the sentences that each entry of the transcript shows

text == <<nextPiece, unitFrom, para>>
update == <<caller, handing, closed>>
queue == <<commits, pending, draft>>
translator == <<working, fast, translated>>
paras == <<revQueue, inHand, slow>>
fate == <<revised, skipped, finalUntil>>
vars == <<wholeUtterance, text, update, queue, translator, stop, revStop, paras, fate, doc>>

Ids == 0..(MaxPieces - 1)

Elems(s) == {s[i] : i \in 1..Len(s)}

Ascending(s) == \A i, j \in 1..Len(s) : i < j => s[i] < s[j]

Init ==
  /\ wholeUtterance \in BOOLEAN
  /\ nextPiece = 0 /\ unitFrom = 0 /\ para = <<>>
  /\ caller = "listening" /\ handing = <<>> /\ closed = FALSE
  /\ commits = <<>> /\ pending = <<>> /\ draft = FALSE
  /\ working = <<>> /\ fast = "waiting" /\ translated = <<>>
  /\ stop = FALSE /\ revStop = FALSE
  /\ revQueue = <<>> /\ inHand = <<>> /\ slow = "waiting"
  /\ revised = {} /\ skipped = {} /\ finalUntil = -1
  /\ doc = <<>>

-----------------------------------------------------------------------------
(* The caller.                                                              *)

\* The ways an update may end sentences at some of the pieces m..n-1.
Ends(m, n) ==
  {e \in UNION {[1..k -> m..(n - 1)] : k \in 0..(n - m)} : Ascending(e)}

\* The sentences that end at the pieces `ends`, by their first pieces.
Sentences(ends) == [i \in 1..Len(ends) |-> IF i = 1 THEN unitFrom ELSE ends[i - 1] + 1]

UnitFromAfter(ends) == IF ends = <<>> THEN unitFrom ELSE ends[Len(ends)] + 1

\* Mutant: the marker goes to the last sentence that is final.
MarksLast(final) == {k \in final : \A i \in final : i <= k}

\* final_until_ after `final` have become final: it goes on over consecutive ids.
Marks(final) == {k \in -1..(MaxPieces - 1) : 0..k \subseteq final /\ k + 1 \notin final}

\* Mutant: the paragraph that is dropped is queued all the same.
QueueKeeps(p) ==
  IF Len(revQueue) < Backlog
  THEN /\ revQueue' = Append(revQueue, p)
       /\ UNCHANGED fate
  ELSE /\ revQueue' = Append(revQueue, p)
       /\ skipped' = skipped \cup Elems(Head(revQueue))
       /\ finalUntil' \in Marks(revised \cup skipped')
       /\ UNCHANGED revised

\* A paragraph joins the queue; over the limit, the oldest is reported as skipped.
Queue(p) ==
  IF Len(revQueue) < Backlog
  THEN /\ revQueue' = Append(revQueue, p)
       /\ UNCHANGED fate
  ELSE /\ revQueue' = Append(Tail(revQueue), p)
       /\ skipped' = skipped \cup Elems(Head(revQueue))
       /\ finalUntil' \in Marks(revised \cup skipped')
       /\ UNCHANGED revised

\* on_partial, on_pause, on_final as far as the paragraphs (rev_mu_): n pieces are new,
\* `ends` of them end a sentence, and an utterance that closes leaves nothing open.
Collect(n, ends, closes) ==
  /\ caller = "listening" /\ caller' = "handing"
  /\ nextPiece' = nextPiece + n
  /\ unitFrom' = UnitFromAfter(ends)
  /\ closes => unitFrom' = nextPiece'
  /\ handing' = Sentences(ends)
  /\ closed' = closes
  /\ LET p == para \o Sentences(ends)
     IN IF p # <<>> /\ (closes \/ (~wholeUtterance /\ Len(p) >= ParaLen))
        THEN para' = <<>> /\ Queue(p)
        ELSE para' = p /\ UNCHANGED <<revQueue, fate>>
  /\ UNCHANGED <<wholeUtterance, queue, translator, stop, revStop, inHand, slow, doc>>

Update ==
  \E n \in 0..(MaxPieces - nextPiece), closes \in BOOLEAN :
    \/ \E ends \in Ends(nextPiece, nextPiece + n) : Collect(n, ends, closes)
    \/ n = 0 /\ closes /\ unitFrom < nextPiece /\ Collect(0, <<nextPiece - 1>>, TRUE)

\* Mutant: a new sentence goes to the front of the queue.
HandFirst ==
  /\ caller = "handing" /\ caller' = "listening"
  /\ commits' = handing \o commits
  /\ pending' = pending \o handing
  /\ \/ closed /\ draft' = FALSE
     \/ ~closed /\ draft' \in {draft, TRUE}
  /\ handing' = <<>> /\ closed' = FALSE
  /\ UNCHANGED <<wholeUtterance, text, translator, stop, revStop, paras, fate, doc>>

\* The rest of the update (mu_): its sentences are queued, and a close discards the draft;
\* else the open text may ask for a new one, in the place of the last.
Hand ==
  /\ caller = "handing" /\ caller' = "listening"
  /\ commits' = commits \o handing
  /\ pending' = pending \o handing
  /\ \/ closed /\ draft' = FALSE
     \/ ~closed /\ draft' \in {draft, TRUE}
  /\ handing' = <<>> /\ closed' = FALSE
  /\ UNCHANGED <<wholeUtterance, text, translator, stop, revStop, paras, fate, doc>>

\* finish, once the last utterance is closed.
Finish ==
  /\ caller = "listening" /\ caller' = "joining"
  /\ unitFrom = nextPiece /\ para = <<>>
  /\ stop' = TRUE
  /\ UNCHANGED <<wholeUtterance, text, handing, closed, queue, translator, revStop, paras, fate, doc>>

\* Mutant: the reviser is not told.
JoinFastSilently ==
  /\ caller = "joining" /\ caller' = "joining slow"
  /\ fast = "gone"
  /\ UNCHANGED <<wholeUtterance, text, handing, closed, queue, translator, stop, revStop, paras, fate, doc>>

\* worker_ has been joined; the reviser is told to stop.
JoinFast ==
  /\ caller = "joining" /\ caller' = "joining slow"
  /\ fast = "gone"
  /\ revStop' = TRUE
  /\ UNCHANGED <<wholeUtterance, text, handing, closed, queue, translator, stop, paras, fate, doc>>

\* rev_worker_ has been joined.
JoinSlow ==
  /\ caller = "joining slow" /\ caller' = "finished"
  /\ slow = "gone"
  /\ UNCHANGED <<wholeUtterance, text, handing, closed, queue, translator, stop, revStop, paras, fate, doc>>

-----------------------------------------------------------------------------
(* The translator's thread (run, execute).                                  *)

\* The oldest sentence is taken.
TakeSentence ==
  /\ fast = "waiting" /\ fast' = "sentence"
  /\ commits # <<>>
  /\ working' = <<Head(commits)>>
  /\ commits' = Tail(commits)
  /\ UNCHANGED <<wholeUtterance, text, update, pending, draft, translated, stop, revStop, paras, fate, doc>>

\* No sentence waits and the sink goes on: the draft is taken.
TakeDraft ==
  /\ fast = "waiting" /\ fast' = "draft"
  /\ commits = <<>> /\ ~stop /\ draft
  /\ draft' = FALSE
  /\ UNCHANGED <<wholeUtterance, text, update, commits, pending, working, translated, stop, revStop, paras, fate, doc>>

\* No sentence waits and the sink stops.
LeaveFast ==
  /\ fast = "waiting" /\ fast' = "gone"
  /\ commits = <<>> /\ stop
  /\ UNCHANGED <<wholeUtterance, text, update, queue, working, translated, stop, revStop, paras, fate, doc>>

\* The sentence is translated: it leaves the pending ones, where it is the oldest, and enters
\* the transcript.
Translated ==
  /\ fast = "sentence" /\ fast' = "waiting"
  /\ working' = <<>>
  /\ translated' = translated \o working
  /\ pending' = IF pending # <<>> /\ <<Head(pending)>> = working THEN Tail(pending) ELSE pending
  /\ doc' = Append(doc, Elems(working))
  /\ UNCHANGED <<wholeUtterance, text, update, commits, draft, stop, revStop, paras, fate>>

\* A draft changes nothing but what is shown of the open text.
Drafted ==
  /\ fast = "draft" /\ fast' = "waiting"
  /\ UNCHANGED <<wholeUtterance, text, update, queue, working, translated, stop, revStop, paras, fate, doc>>

-----------------------------------------------------------------------------
(* The reviser's thread (run_reviser, revise).                              *)

TakeParagraph ==
  /\ slow = "waiting" /\ slow' = "yielding"
  /\ revQueue # <<>>
  /\ inHand' = Head(revQueue)
  /\ revQueue' = Tail(revQueue)
  /\ UNCHANGED <<wholeUtterance, text, update, queue, translator, stop, revStop, fate, doc>>

\* Mutant: a sink that stops leaves the paragraphs that wait.
LeaveSlowAtOnce ==
  /\ slow = "waiting" /\ slow' = "gone"
  /\ revStop
  /\ UNCHANGED <<wholeUtterance, text, update, queue, translator, stop, revStop, revQueue, inHand, fate, doc>>

LeaveSlow ==
  /\ slow = "waiting" /\ slow' = "gone"
  /\ revQueue = <<>> /\ revStop
  /\ UNCHANGED <<wholeUtterance, text, update, queue, translator, stop, revStop, revQueue, inHand, fate, doc>>

\* No sentence is with the fast pass; or it has been looked at 200 times.
StartRevision ==
  /\ slow = "yielding" /\ slow' = "revising"
  /\ commits = <<>> /\ pending = <<>>
  /\ UNCHANGED <<wholeUtterance, text, update, queue, translator, stop, revStop, revQueue, inHand, fate, doc>>

StopYielding ==
  /\ slow = "yielding" /\ slow' = "revising"
  /\ UNCHANGED <<wholeUtterance, text, update, queue, translator, stop, revStop, revQueue, inHand, fate, doc>>

\* Mutant: entries are replaced, none is added.
ReplacedOnly(p) ==
  LET Covered == {i \in 1..Len(doc) : doc[i] \cap Elems(p) # {}}
      first(i) == \A j \in Covered : i <= j
  IN [i \in 1..Len(doc) |->
        IF i \notin Covered THEN doc[i] ELSE IF first(i) THEN Elems(p) ELSE {}]

\* Mutant: the first entry is replaced, the others stay.
ReplacedFirst(p) ==
  LET Covered == {i \in 1..Len(doc) : doc[i] \cap Elems(p) # {}}
      first(i) == i \in Covered /\ \A j \in Covered : i <= j
  IN IF Covered = {}
     THEN Append(doc, Elems(p))
     ELSE [i \in 1..Len(doc) |-> IF first(i) THEN Elems(p) ELSE doc[i]]

\* The entries of the transcript that show a sentence of p give way to one that shows p, where
\* the first of them stood; an entry that has gone shows nothing.
Replaced(p) ==
  LET Covered == {i \in 1..Len(doc) : doc[i] \cap Elems(p) # {}}
      first(i) == \A j \in Covered : i <= j
  IN IF Covered = {}
     THEN Append(doc, Elems(p))
     ELSE [i \in 1..Len(doc) |->
             IF i \notin Covered THEN doc[i] ELSE IF first(i) THEN Elems(p) ELSE {}]

Revised ==
  /\ slow = "revising" /\ slow' = "waiting"
  /\ revised' = revised \cup Elems(inHand)
  /\ finalUntil' \in Marks(revised' \cup skipped)
  /\ doc' = Replaced(inHand)
  /\ inHand' = <<>>
  /\ UNCHANGED <<wholeUtterance, text, update, queue, translator, stop, revStop, revQueue, skipped>>

-----------------------------------------------------------------------------
Fast == TakeSentence \/ TakeDraft \/ LeaveFast \/ Translated \/ Drafted
Slow == TakeParagraph \/ LeaveSlow \/ StartRevision \/ StopYielding \/ Revised
Caller == Hand \/ JoinFast \/ JoinSlow

Next == Update \/ Finish \/ Caller \/ Fast \/ Slow

(***************************************************************************)
(* Threads run, translators return, and joins of threads that have ended   *)
(* do.  Nothing is assumed of the speaker, nor that finish is called.      *)
(***************************************************************************)
SafetySpec == Init /\ [][Next]_vars
Spec == SafetySpec /\ WF_vars(Caller) /\ WF_vars(Fast) /\ WF_vars(Slow)

-----------------------------------------------------------------------------
LiveTypeOK ==
  /\ wholeUtterance \in BOOLEAN
  /\ nextPiece \in 0..MaxPieces /\ unitFrom \in 0..nextPiece
  /\ para \in Seq(Ids) /\ handing \in Seq(Ids) /\ closed \in BOOLEAN
  /\ caller \in {"listening", "handing", "joining", "joining slow", "finished"}
  /\ commits \in Seq(Ids) /\ pending \in Seq(Ids) /\ draft \in BOOLEAN
  /\ working \in Seq(Ids) /\ fast \in {"waiting", "sentence", "draft", "gone"}
  /\ translated \in Seq(Ids)
  /\ stop \in BOOLEAN /\ revStop \in BOOLEAN
  /\ revQueue \in Seq(Seq(Ids)) /\ Len(revQueue) <= Backlog
  /\ inHand \in Seq(Ids) /\ slow \in {"waiting", "yielding", "revising", "gone"}
  /\ revised \subseteq Ids /\ skipped \subseteq Ids /\ finalUntil \in -1..(MaxPieces - 1)
  /\ doc \in Seq(SUBSET Ids)

\* The sentences ended so far: they come out of the fast pass in this order.
Heard == translated \o pending \o handing

\* The sentence in the translator's hands is the oldest that is pending, the others wait in
\* the same order, and translations come out in the order the sentences were spoken.
OldestPending == pending = working \o commits /\ Ascending(Heard)

\* A sentence is revised or skipped but not both, and one that may still change is neither,
\* nor behind the marker that reports what is final.
Open == Elems(para) \cup Elems(inHand) \cup UNION {Elems(revQueue[i]) : i \in 1..Len(revQueue)}
FinalOnce ==
  /\ revised \cap skipped = {}
  /\ Open \cap (revised \cup skipped) = {}
  /\ \A i \in Open : i > finalUntil

\* When finish has returned, every sentence has been translated, is in the transcript, and
\* has been revised or reported as skipped.
Shown == UNION {doc[i] : i \in 1..Len(doc)}
NothingLost ==
  caller = "finished" =>
    /\ nextPiece > 0 => 0 \in Elems(translated)
    /\ Elems(translated) = revised \cup skipped
    /\ Shown = Elems(translated)

\* A sentence is in the transcript twice.
Twice(s) == \E i, j \in 1..Len(doc) : i # j /\ s \in doc[i] \cap doc[j]

\* "A revision replaces the fast sentences where they stand": no revision leaves an entry beside
\* it that shows the same.  A sentence comes to stand twice in one way only, when the reviser
\* has given up waiting for the fast pass and the translation comes back behind the revision.
TwiceOnlyWhenLate ==
  [][\A s \in Ids : ~Twice(s) /\ Twice(s)' => s \in revised /\ working = <<s>>]_vars

\* Two passes, three threads and their queues come to what Subtitles promises the reader, who
\* sees a sentence as spoken when the caller has collected it.
Reading == INSTANCE Subtitles
             WITH spoken <- Heard, reported <- finalUntil, shown <- Shown, over <- caller = "finished"
ImplementsSubtitles == Reading!Spec

\* finish returns.
FinishReturns == caller = "joining" ~> caller = "finished"

=============================================================================
