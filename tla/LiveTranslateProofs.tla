------------------------- MODULE LiveTranslateProofs -------------------------
(***************************************************************************)
(* For any number of pieces, any length of paragraph and any backlog: the  *)
(* fast pass translates the sentences once each, in the order they were    *)
(* spoken; each becomes final once, by a revision or by being reported as  *)
(* skipped, and none behind the marker of what is final may still change;  *)
(* and when finish returns, nothing that was said is missing.              *)
(***************************************************************************)
EXTENDS LiveTranslate, SequenceTheorems, WellFoundedInduction, TLAPS

Final == revised \cup skipped

\* The sentences of the paragraphs of a queue, and that no two paragraphs share one.
Members(q) == UNION {Elems(q[i]) : i \in 1..Len(q)}
Separate(q) == \A i, j \in 1..Len(q) : i # j => Elems(q[i]) \cap Elems(q[j]) = {}

\* The caller leaves its update behind, then the fast thread, then the slow one.
Retreat ==
  /\ caller # "handing" => handing = <<>>
  /\ caller \in {"joining", "joining slow", "finished"} => stop /\ unitFrom = nextPiece /\ para = <<>>
  /\ stop => caller \in {"joining", "joining slow", "finished"}
  /\ caller \in {"joining slow", "finished"} => fast = "gone"
  /\ fast = "gone" => stop /\ commits = <<>>
  /\ revStop => caller \in {"joining slow", "finished"}
  /\ caller = "finished" => slow = "gone"
  /\ slow = "gone" => revStop /\ revQueue = <<>>
  /\ slow \in {"waiting", "gone"} => inHand = <<>>
  /\ IF fast = "sentence" THEN Len(working) = 1 ELSE working = <<>>

\* The fast pass is in order: the sentences that have ended are the ones that begin before
\* the open one, the first piece begins the first, and what is pending is what is in hand
\* and what waits.
InOrder ==
  /\ pending = working \o commits
  /\ Ascending(Heard)
  /\ \A x \in Elems(Heard) : x < unitFrom
  /\ unitFrom > 0 => 0 \in Elems(Heard)

\* Every sentence that has ended is in one place of the slow pass.
Parted ==
  /\ Elems(Heard) = Final \cup Open
  /\ revised \cap skipped = {}
  /\ Elems(para) \cap Final = {}
  /\ Elems(inHand) \cap (Elems(para) \cup Final) = {}
  /\ Members(revQueue) \cap (Elems(para) \cup Elems(inHand) \cup Final) = {}
  /\ Separate(revQueue)

\* All ids up to the marker are final.
Marked == 0..finalUntil \subseteq Final

\* An entry of the transcript is one translation, or a revision, or gone.
InTranscript ==
  /\ \A i \in 1..Len(doc) :
       \/ doc[i] \subseteq revised
       \/ \E x \in Elems(translated) : doc[i] = {x}
  /\ Shown = Elems(translated) \cup revised

LiveInv == LiveTypeOK /\ Retreat /\ InOrder /\ Parted /\ Marked /\ InTranscript

-----------------------------------------------------------------------------
(* Sequences of sentences.                                                  *)

\* What a sequence holds is of the sequence's kind.
LEMMA ElemsOf ==
  ASSUME NEW S, NEW s \in Seq(S)
  PROVE  Len(s) \in Nat /\ Elems(s) \subseteq S
BY ElementOfSeq, LenProperties DEF Elems

LEMMA ElemsEmpty == Elems(<<>>) = {}
<1>1. Len(<<>>) = 0
  OBVIOUS
<1>. QED BY <1>1 DEF Elems

LEMMA ElemsOne == \A x : Len(<<x>>) = 1 /\ Elems(<<x>>) = {x}
<1> SUFFICES ASSUME NEW x PROVE Len(<<x>>) = 1 /\ Elems(<<x>>) = {x}
  OBVIOUS
<1>1. Len(<<x>>) = 1 /\ <<x>>[1] = x
  OBVIOUS
<1>. QED BY <1>1 DEF Elems

\* A concatenation holds what its parts hold.
LEMMA ElemsConcat ==
  ASSUME NEW S, NEW s \in Seq(S), NEW t \in Seq(S)
  PROVE  s \o t \in Seq(S) /\ Elems(s \o t) = Elems(s) \cup Elems(t)
<1>1. /\ s \o t \in Seq(S) /\ Len(s \o t) = Len(s) + Len(t)
      /\ \A i \in 1..(Len(s) + Len(t)) : (s \o t)[i] = IF i <= Len(s) THEN s[i] ELSE t[i - Len(s)]
  BY ConcatProperties
<1>2. Len(s) \in Nat /\ Len(t) \in Nat
  BY LenProperties
<1>3. ASSUME NEW i \in 1..Len(s)
      PROVE  i \in 1..Len(s \o t) /\ (s \o t)[i] = s[i]
  BY <1>1, <1>2
<1>4. ASSUME NEW i \in 1..Len(t)
      PROVE  i + Len(s) \in 1..Len(s \o t) /\ (s \o t)[i + Len(s)] = t[i]
  BY <1>1, <1>2
<1>5. ASSUME NEW i \in 1..Len(s \o t)
      PROVE  (s \o t)[i] \in Elems(s) \cup Elems(t)
  <2>1. CASE i <= Len(s)
    BY <1>1, <1>2, <2>1 DEF Elems
  <2>2. CASE ~(i <= Len(s))
    <3>1. i - Len(s) \in 1..Len(t) /\ (s \o t)[i] = t[i - Len(s)]
      BY <1>1, <1>2, <2>2
    <3>. QED BY <3>1 DEF Elems
  <2>. QED BY <2>1, <2>2
<1>6. Elems(s) \subseteq Elems(s \o t)
  BY <1>3 DEF Elems
<1>7. Elems(t) \subseteq Elems(s \o t)
  BY <1>4 DEF Elems
<1>8. Elems(s \o t) \subseteq Elems(s) \cup Elems(t)
  BY <1>5 DEF Elems
<1>. QED BY <1>1, <1>6, <1>7, <1>8

\* Three sequences of sentences join in either order.
LEMMA JoinThree ==
  \A s, t, u \in Seq(Ids) : (s \o t) \o u = s \o (t \o u)
<1> SUFFICES ASSUME NEW s \in Seq(Ids), NEW t \in Seq(Ids), NEW u \in Seq(Ids)
             PROVE  (s \o t) \o u = s \o (t \o u)
  OBVIOUS
<1>. QED BY ConcatAssociative

\* A sequence that is not empty is its head and its tail.
LEMMA HeadTail ==
  ASSUME NEW S, NEW s \in Seq(S), s # <<>>
  PROVE  /\ Head(s) \in S /\ Tail(s) \in Seq(S) /\ Len(Tail(s)) = Len(s) - 1
         /\ <<Head(s)>> \in Seq(S) /\ s = <<Head(s)>> \o Tail(s)
         /\ Head(s) = s[1] /\ \A i \in 1..Len(Tail(s)) : Tail(s)[i] = s[i + 1]
<1>1. /\ Head(s) \in S /\ Tail(s) \in Seq(S) /\ Len(Tail(s)) = Len(s) - 1
      /\ Head(s) = s[1] /\ \A i \in 1..Len(Tail(s)) : Tail(s)[i] = s[i + 1]
  <2>1. /\ Head(s) \in S /\ Tail(s) \in Seq(S) /\ Len(Tail(s)) = Len(s) - 1
        /\ \A i \in 1..Len(Tail(s)) : Tail(s)[i] = s[i + 1]
    BY HeadTailProperties
  <2>. QED BY <2>1
<1>2. <<Head(s)>> \in Seq(S) /\ Len(<<Head(s)>>) = 1 /\ <<Head(s)>>[1] = s[1]
  BY <1>1
<1>3. Len(s) \in Nat
  BY LenProperties
<1>4. /\ <<Head(s)>> \o Tail(s) \in Seq(S) /\ Len(<<Head(s)>> \o Tail(s)) = Len(s)
      /\ \A i \in 1..Len(s) : (<<Head(s)>> \o Tail(s))[i] = IF i <= 1 THEN <<Head(s)>>[i] ELSE Tail(s)[i - 1]
  BY <1>1, <1>2, <1>3, ConcatProperties
<1>5. ASSUME NEW i \in 1..Len(s) PROVE (<<Head(s)>> \o Tail(s))[i] = s[i]
  <2>1. CASE i = 1
    BY <1>2, <1>4, <2>1
  <2>2. CASE i # 1
    <3>1. i - 1 \in 1..Len(Tail(s)) /\ ~(i <= 1)
      BY <1>1, <1>3, <2>2
    <3>2. Tail(s)[i - 1] = s[i]
      BY <1>1, <1>3, <3>1
    <3>. QED BY <1>4, <3>1, <3>2
  <2>. QED BY <2>1, <2>2
<1>6. s = <<Head(s)>> \o Tail(s)
  BY <1>4, <1>5, SeqEqual
<1>. QED BY <1>1, <1>2, <1>6

\* Sequences in order, one before the other, are in order together.
LEMMA AscendingConcat ==
  ASSUME NEW S, NEW s \in Seq(S), NEW t \in Seq(S), Ascending(s), Ascending(t),
         \A x \in Elems(s), y \in Elems(t) : x < y
  PROVE  Ascending(s \o t)
<1>1. /\ Len(s \o t) = Len(s) + Len(t)
      /\ \A i \in 1..(Len(s) + Len(t)) : (s \o t)[i] = IF i <= Len(s) THEN s[i] ELSE t[i - Len(s)]
  BY ConcatProperties
<1>2. Len(s) \in Nat /\ Len(t) \in Nat
  BY LenProperties
<1>3. SUFFICES ASSUME NEW i \in 1..(Len(s) + Len(t)), NEW j \in 1..(Len(s) + Len(t)), i < j
               PROVE  (s \o t)[i] < (s \o t)[j]
  BY <1>1 DEF Ascending
<1>4. CASE j <= Len(s)
  <2>1. i \in 1..Len(s) /\ j \in 1..Len(s) /\ i <= Len(s)
    BY <1>2, <1>3, <1>4
  <2>2. (s \o t)[i] = s[i] /\ (s \o t)[j] = s[j]
    BY <1>1, <1>4, <2>1
  <2>. QED BY <1>3, <2>1, <2>2 DEF Ascending
<1>5. CASE i <= Len(s) /\ ~(j <= Len(s))
  <2>1. i \in 1..Len(s) /\ j - Len(s) \in 1..Len(t)
    BY <1>2, <1>3, <1>5
  <2>2. (s \o t)[i] = s[i] /\ (s \o t)[j] = t[j - Len(s)]
    BY <1>1, <1>5, <2>1
  <2>. QED BY <2>1, <2>2 DEF Elems
<1>6. CASE ~(i <= Len(s))
  <2>1. i - Len(s) \in 1..Len(t) /\ j - Len(s) \in 1..Len(t) /\ i - Len(s) < j - Len(s) /\ ~(j <= Len(s))
    BY <1>2, <1>3, <1>6
  <2>2. (s \o t)[i] = t[i - Len(s)] /\ (s \o t)[j] = t[j - Len(s)]
    BY <1>1, <1>6, <2>1
  <2>. QED BY <2>1, <2>2 DEF Ascending
<1>. QED BY <1>2, <1>4, <1>5, <1>6

\* A paragraph that joins a queue brings its sentences, and shares none if it had none there.
LEMMA JoinQueue ==
  ASSUME NEW S, NEW q \in Seq(Seq(S)), NEW p \in Seq(S)
  PROVE  /\ Append(q, p) \in Seq(Seq(S)) /\ Len(Append(q, p)) = Len(q) + 1
         /\ Members(Append(q, p)) = Members(q) \cup Elems(p)
         /\ Separate(q) /\ Elems(p) \cap Members(q) = {} => Separate(Append(q, p))
<1>1. /\ Append(q, p) \in Seq(Seq(S)) /\ Len(Append(q, p)) = Len(q) + 1
      /\ \A i \in 1..Len(q) : Append(q, p)[i] = q[i]
      /\ Append(q, p)[Len(q) + 1] = p
  BY AppendProperties
<1>2. Len(q) \in Nat
  BY LenProperties
<1>3. 1..Len(Append(q, p)) = 1..Len(q) \cup {Len(q) + 1}
  BY <1>1, <1>2
<1>4. Members(Append(q, p)) \subseteq Members(q) \cup Elems(p)
  BY <1>1, <1>3 DEF Members
<1>5. Members(q) \subseteq Members(Append(q, p)) /\ Elems(p) \subseteq Members(Append(q, p))
  BY <1>1, <1>3 DEF Members
<1>6. ASSUME Separate(q), Elems(p) \cap Members(q) = {}
      PROVE  Separate(Append(q, p))
  <2>1. \A i \in 1..Len(q) : Elems(q[i]) \subseteq Members(q)
    BY DEF Members
  <2>. QED BY <1>1, <1>3, <1>6, <2>1 DEF Separate
<1>. QED BY <1>1, <1>4, <1>5, <1>6

\* The paragraph that leaves a queue takes its sentences with it.
LEMMA LeaveQueue ==
  ASSUME NEW S, NEW q \in Seq(Seq(S)), q # <<>>
  PROVE  /\ Head(q) \in Seq(S) /\ Tail(q) \in Seq(Seq(S)) /\ Len(Tail(q)) = Len(q) - 1
         /\ Members(q) = Elems(Head(q)) \cup Members(Tail(q))
         /\ Separate(q) => Separate(Tail(q)) /\ Elems(Head(q)) \cap Members(Tail(q)) = {}
<1>1. /\ Head(q) \in Seq(S) /\ Tail(q) \in Seq(Seq(S)) /\ Len(Tail(q)) = Len(q) - 1
      /\ Head(q) = q[1] /\ \A i \in 1..Len(Tail(q)) : Tail(q)[i] = q[i + 1]
  BY HeadTail
<1>2. Len(q) \in Nat /\ Len(q) > 0
  BY LenProperties, EmptySeq
<1>3. \A i \in 1..Len(q) : i = 1 \/ (i - 1 \in 1..Len(Tail(q)) /\ Tail(q)[i - 1] = q[i])
  <2>1. \A i \in 1..Len(q) : i = 1 \/ (i - 1 \in 1..Len(Tail(q)) /\ i - 1 + 1 = i)
    BY <1>1, <1>2
  <2>. QED BY <1>1, <2>1
<1>4. \A i \in 1..Len(Tail(q)) : i + 1 \in 1..Len(q) /\ i + 1 # 1
  BY <1>1, <1>2
<1>5. 1 \in 1..Len(q)
  BY <1>2
<1>6. Members(q) \subseteq Elems(Head(q)) \cup Members(Tail(q))
  <2>1. ASSUME NEW i \in 1..Len(q)
        PROVE  Elems(q[i]) \subseteq Elems(Head(q)) \cup Members(Tail(q))
    <3>1. CASE i = 1
      BY <1>1, <3>1
    <3>2. CASE i - 1 \in 1..Len(Tail(q)) /\ Tail(q)[i - 1] = q[i]
      <4>1. Elems(Tail(q)[i - 1]) \subseteq Members(Tail(q))
        BY <3>2 DEF Members
      <4>. QED BY <3>2, <4>1
    <3>. QED BY <1>3, <3>1, <3>2
  <2>. QED BY <2>1 DEF Members
<1>7. Elems(Head(q)) \subseteq Members(q)
  BY <1>1, <1>5 DEF Members
<1>8. Members(Tail(q)) \subseteq Members(q)
  BY <1>1, <1>4 DEF Members
<1>9. ASSUME Separate(q)
      PROVE  Separate(Tail(q)) /\ Elems(Head(q)) \cap Members(Tail(q)) = {}
  <2>1. Separate(Tail(q))
    <3> SUFFICES ASSUME NEW i \in 1..Len(Tail(q)), NEW j \in 1..Len(Tail(q)), i # j
                 PROVE  Elems(Tail(q)[i]) \cap Elems(Tail(q)[j]) = {}
      BY DEF Separate
    <3>1. i + 1 \in 1..Len(q) /\ j + 1 \in 1..Len(q) /\ i + 1 # j + 1
      BY <1>4
    <3>. QED BY <1>1, <1>9, <3>1 DEF Separate
  <2>2. \A i \in 1..Len(Tail(q)) : Elems(Head(q)) \cap Elems(Tail(q)[i]) = {}
    BY <1>1, <1>4, <1>5, <1>9 DEF Separate
  <2>. QED BY <2>1, <2>2 DEF Members
<1>. QED BY <1>1, <1>6, <1>7, <1>8, <1>9

\* An empty queue holds nothing.
LEMMA QueueEmpty == Members(<<>>) = {} /\ Separate(<<>>)
<1>1. Len(<<>>) = 0
  OBVIOUS
<1>. QED BY <1>1 DEF Members, Separate

\* Marks takes no id that is not final, and nowhere back.
LEMMA MarksFinal ==
  ASSUME NEW F, NEW G, F \subseteq G, NEW k \in -1..(MaxPieces - 1), 0..k \subseteq F,
         NEW l \in Marks(G)
  PROVE  l \in -1..(MaxPieces - 1) /\ 0..l \subseteq G /\ k <= l
<1>1. l \in -1..(MaxPieces - 1) /\ 0..l \subseteq G /\ l + 1 \notin G
  BY DEF Marks
<1>2. CASE k <= l
  BY <1>1, <1>2
<1>3. CASE ~(k <= l)
  <2>1. l + 1 \in 0..k
    BY <1>1, <1>3, LiveAssumption
  <2>. QED BY <1>1, <2>1
<1>. QED BY <1>2, <1>3

-----------------------------------------------------------------------------
(* The caller.                                                              *)

LEMMA InitLive == Init => LiveInv
<1> SUFFICES ASSUME Init PROVE LiveInv
  OBVIOUS
<1>1. \A S : <<>> \in Seq(S) /\ Len(<<>>) = 0
  BY EmptySeq
<1>2. MaxPieces \in Nat /\ Backlog \in Nat /\ 0..(-1) = {}
  BY LiveAssumption
<1>3. LiveTypeOK
  <2>1. wholeUtterance \in BOOLEAN /\ closed \in BOOLEAN /\ draft \in BOOLEAN /\ stop \in BOOLEAN /\ revStop \in BOOLEAN
    BY Zenon DEF Init
  <2>2. /\ nextPiece \in 0..MaxPieces /\ unitFrom \in 0..nextPiece /\ finalUntil \in -1..(MaxPieces - 1)
        /\ Len(revQueue) <= Backlog
    BY <1>1, <1>2 DEF Init
  <2>3. /\ para \in Seq(Ids) /\ handing \in Seq(Ids) /\ commits \in Seq(Ids) /\ pending \in Seq(Ids)
        /\ working \in Seq(Ids) /\ translated \in Seq(Ids) /\ inHand \in Seq(Ids)
        /\ revQueue \in Seq(Seq(Ids)) /\ doc \in Seq(SUBSET Ids)
    BY <1>1, Zenon DEF Init
  <2>4. /\ caller \in {"listening", "handing", "joining", "joining slow", "finished"}
        /\ fast \in {"waiting", "sentence", "draft", "gone"}
        /\ slow \in {"waiting", "yielding", "revising", "gone"}
        /\ revised \subseteq Ids /\ skipped \subseteq Ids
    BY DEF Init
  <2>. QED BY <2>1, <2>2, <2>3, <2>4 DEF LiveTypeOK
<1>4. Retreat
  BY DEF Init, Retreat
<1>5. Heard = <<>> /\ <<>> \o <<>> = <<>>
  BY <1>1, ConcatEmptySeq DEF Init, Heard
<1>6. InOrder
  BY <1>1, <1>5, ElemsEmpty DEF Init, InOrder, Ascending
<1>7. Open = {}
  BY <1>1, ElemsEmpty DEF Init, Open
<1>8. Parted
  BY <1>5, <1>7, ElemsEmpty, QueueEmpty DEF Init, Parted, Final
<1>9. Marked
  BY <1>2 DEF Init, Marked
<1>10. InTranscript
  BY <1>1, ElemsEmpty DEF Init, InTranscript, Shown
<1>. QED BY <1>3, <1>4, <1>6, <1>8, <1>9, <1>10 DEF LiveInv

\* The sentences that end are new ones, in order: the open one, if any ends, and others that
\* begin at pieces just committed.
LEMMA SentencesNew ==
  ASSUME LiveTypeOK, NEW last \in Nat, last <= MaxPieces, NEW ends \in Seq(Nat), Ascending(ends),
         \A i \in 1..Len(ends) : unitFrom <= ends[i] /\ ends[i] < last
  PROVE  /\ Sentences(ends) \in Seq(Ids) /\ Ascending(Sentences(ends))
         /\ \A x \in Elems(Sentences(ends)) : unitFrom <= x /\ x < UnitFromAfter(ends)
         /\ unitFrom <= UnitFromAfter(ends)
         /\ unitFrom < UnitFromAfter(ends) => UnitFromAfter(ends) <= last
         /\ unitFrom < UnitFromAfter(ends) => unitFrom \in Elems(Sentences(ends))
<1> DEFINE n == Len(ends)
           s == Sentences(ends)
<1>1. n \in Nat /\ unitFrom \in Nat /\ MaxPieces \in Nat /\ \A i \in 1..n : ends[i] \in Nat
  <2>1. n \in Nat /\ \A i \in 1..n : ends[i] \in Nat
    BY LenProperties, ElementOfSeq
  <2>2. nextPiece \in 0..MaxPieces /\ unitFrom \in 0..nextPiece
    BY DEF LiveTypeOK
  <2>. QED BY <2>1, <2>2, LiveAssumption
<1>2. \A i \in 1..n : s[i] = IF i = 1 THEN unitFrom ELSE ends[i - 1] + 1
  BY DEF Sentences
<1>3. \A i, j \in 1..n : i < j => ends[i] < ends[j]
  BY DEF Ascending
<1>4. ASSUME NEW i \in 1..n
      PROVE  s[i] \in Nat /\ unitFrom <= s[i] /\ s[i] <= ends[i]
  <2>1. CASE i = 1
    BY <1>1, <1>2, <2>1
  <2>2. CASE i # 1
    <3>1. i - 1 \in 1..n /\ i - 1 < i
      BY <1>1, <2>2
    <3>2. ends[i - 1] \in Nat /\ ends[i] \in Nat /\ ends[i - 1] < ends[i] /\ unitFrom <= ends[i - 1]
      BY <1>1, <1>3, <3>1
    <3>3. s[i] = ends[i - 1] + 1
      BY <1>2, <2>2
    <3>4. unitFrom \in Nat
      BY <1>1
    <3>. HIDE DEF s
    <3>. QED BY <3>2, <3>3, <3>4
  <2>. QED BY <2>1, <2>2
<1>5. \A i \in 1..n : s[i] \in Ids
  BY <1>1, <1>4 DEF Ids
<1>6. s \in Seq(Ids) /\ Len(s) = n
  <2>1. s = [i \in 1..n |-> s[i]]
    BY DEF Sentences
  <2>2. [i \in 1..n |-> s[i]] \in Seq(Ids) /\ Len([i \in 1..n |-> s[i]]) = n
    BY <1>1, <1>5, IsASeq
  <2>. QED BY <2>1, <2>2
<1>7. \A i, j \in 1..n : i < j => ends[i] < s[j]
  <2> SUFFICES ASSUME NEW i \in 1..n, NEW j \in 1..n, i < j PROVE ends[i] < s[j]
    OBVIOUS
  <2>1. j # 1 /\ j - 1 \in 1..n /\ (i = j - 1 \/ i < j - 1)
    BY <1>1
  <2>2. ends[i] <= ends[j - 1] /\ ends[i] \in Nat /\ ends[j - 1] \in Nat
    BY <1>1, <1>3, <2>1
  <2>. QED BY <1>2, <2>1, <2>2
<1>8. Ascending(s)
  <2> SUFFICES ASSUME NEW i \in 1..n, NEW j \in 1..n, i < j PROVE s[i] < s[j]
    BY <1>6 DEF Ascending
  <2>. QED BY <1>1, <1>4, <1>7
<1>9. CASE n = 0
  <2>1. ends = <<>> /\ Elems(s) = {}
    BY <1>6, <1>9, EmptySeq DEF Elems
  <2>2. UnitFromAfter(ends) = unitFrom
    BY <2>1 DEF UnitFromAfter
  <2>3. unitFrom <= UnitFromAfter(ends) /\ ~(unitFrom < UnitFromAfter(ends))
    BY <1>1, <2>2
  <2>. QED BY <1>6, <1>8, <2>1, <2>2, <2>3
<1>10. CASE n # 0
  <2>1. n \in 1..n /\ 1 \in 1..n /\ ends # <<>>
    BY <1>1, <1>10, EmptySeq
  <2>2. UnitFromAfter(ends) = ends[n] + 1
    BY <2>1 DEF UnitFromAfter
  <2>3. \A i \in 1..n : ends[i] <= ends[n]
    BY <1>1, <1>3, <2>1
  <2>4. \A i \in 1..n : unitFrom <= s[i] /\ s[i] < ends[n] + 1
    BY <1>1, <1>4, <2>1, <2>3
  <2>5. unitFrom < ends[n] + 1 /\ ends[n] + 1 <= last
    BY <1>1, <2>1
  <2>6. unitFrom \in Elems(s)
    BY <1>2, <1>6, <2>1 DEF Elems
  <2>7. \A x \in Elems(s) : unitFrom <= x /\ x < ends[n] + 1
    BY <1>6, <2>4 DEF Elems
  <2>8. unitFrom <= ends[n] + 1
    BY <1>1, <2>1
  <2>. HIDE DEF s
  <2>. QED BY <1>6, <1>8, <2>2, <2>5, <2>6, <2>7, <2>8 DEF s
<1>. QED BY <1>9, <1>10

\* Whatever an update is, the sentences it ends are new, and the paragraph they complete
\* goes on or joins the queue.
LEMMA UpdateCollects ==
  ASSUME LiveTypeOK, Update
  PROVE  \E s \in Seq(Ids) :
           /\ caller = "listening" /\ caller' = "handing"
           /\ handing' = s /\ closed' \in BOOLEAN
           /\ nextPiece' \in 0..MaxPieces /\ unitFrom' \in 0..nextPiece'
           /\ unitFrom <= unitFrom'
           /\ Ascending(s) /\ \A x \in Elems(s) : unitFrom <= x /\ x < unitFrom'
           /\ unitFrom < unitFrom' => unitFrom \in Elems(s)
           /\ \/ para' = para \o s /\ UNCHANGED <<revQueue, fate>>
              \/ para' = <<>> /\ para \o s # <<>> /\ Queue(para \o s)
           /\ UNCHANGED <<wholeUtterance, queue, translator, stop, revStop, inHand, slow, doc>>
<1>1. MaxPieces \in Nat /\ nextPiece \in Nat /\ nextPiece <= MaxPieces /\ unitFrom \in Nat /\ unitFrom <= nextPiece
  <2>1. nextPiece \in 0..MaxPieces /\ unitFrom \in 0..nextPiece
    BY DEF LiveTypeOK
  <2>. QED BY <2>1, LiveAssumption
<1>2. PICK n \in 0..(MaxPieces - nextPiece), closes \in BOOLEAN :
        \/ \E ends \in Ends(nextPiece, nextPiece + n) : Collect(n, ends, closes)
        \/ n = 0 /\ closes /\ unitFrom < nextPiece /\ Collect(0, <<nextPiece - 1>>, TRUE)
  BY DEF Update
<1>3. \E ends \in Seq(Nat) :
        /\ Ascending(ends) /\ \A i \in 1..Len(ends) : unitFrom <= ends[i] /\ ends[i] < nextPiece + n
        /\ Collect(n, ends, closes)
  <2>1. CASE \E ends \in Ends(nextPiece, nextPiece + n) : Collect(n, ends, closes)
    <3> PICK ends \in Ends(nextPiece, nextPiece + n) : Collect(n, ends, closes)
      BY <2>1
    <3>1. Ascending(ends)
      BY DEF Ends
    <3>2. PICK k \in 0..n : ends \in [1..k -> nextPiece..(nextPiece + n - 1)]
      BY <1>1 DEF Ends
    <3>3. ends \in Seq(Nat) /\ Len(ends) = k
      BY <1>1, <3>2
    <3>4. \A i \in 1..Len(ends) : unitFrom <= ends[i] /\ ends[i] < nextPiece + n
      BY <1>1, <3>2, <3>3
    <3>. QED BY <3>1, <3>3, <3>4
  <2>2. CASE n = 0 /\ closes /\ unitFrom < nextPiece /\ Collect(0, <<nextPiece - 1>>, TRUE)
    <3>1. nextPiece - 1 \in Nat /\ unitFrom <= nextPiece - 1 /\ nextPiece - 1 < nextPiece + 0
      BY <1>1, <2>2
    <3>2. /\ <<nextPiece - 1>> \in Seq(Nat) /\ Len(<<nextPiece - 1>>) = 1
          /\ <<nextPiece - 1>>[1] = nextPiece - 1
      BY <3>1
    <3>3. Ascending(<<nextPiece - 1>>)
      BY <3>2 DEF Ascending
    <3>4. \A i \in 1..Len(<<nextPiece - 1>>) :
            unitFrom <= <<nextPiece - 1>>[i] /\ <<nextPiece - 1>>[i] < nextPiece + n
      BY <2>2, <3>1, <3>2
    <3>5. Collect(n, <<nextPiece - 1>>, closes)
      BY <2>2
    <3>. QED BY <3>2, <3>3, <3>4, <3>5
  <2>. QED BY <1>2, <2>1, <2>2
<1>4. PICK ends \in Seq(Nat) :
        /\ Ascending(ends) /\ \A i \in 1..Len(ends) : unitFrom <= ends[i] /\ ends[i] < nextPiece + n
        /\ Collect(n, ends, closes)
  BY <1>3
<1> DEFINE s == Sentences(ends)
<1>5. nextPiece + n \in Nat /\ nextPiece + n <= MaxPieces
  BY <1>1
<1>6. /\ s \in Seq(Ids) /\ Ascending(s)
      /\ \A x \in Elems(s) : unitFrom <= x /\ x < UnitFromAfter(ends)
      /\ unitFrom <= UnitFromAfter(ends)
      /\ unitFrom < UnitFromAfter(ends) => UnitFromAfter(ends) <= nextPiece + n
      /\ unitFrom < UnitFromAfter(ends) => unitFrom \in Elems(s)
  BY <1>4, <1>5, SentencesNew
<1>7. /\ caller = "listening" /\ caller' = "handing"
      /\ nextPiece' = nextPiece + n /\ unitFrom' = UnitFromAfter(ends)
      /\ handing' = s /\ closed' = closes
      /\ \/ para' = para \o s /\ UNCHANGED <<revQueue, fate>>
         \/ para' = <<>> /\ para \o s # <<>> /\ Queue(para \o s)
      /\ UNCHANGED <<wholeUtterance, queue, translator, stop, revStop, inHand, slow, doc>>
  BY <1>4, Zenon DEF Collect
<1>8. \A i \in 1..Len(ends) : ends[i] \in Nat
  BY ElementOfSeq
<1>9. UnitFromAfter(ends) \in Int
  BY <1>1, <1>8, LenProperties, EmptySeq DEF UnitFromAfter
<1>10. nextPiece' \in 0..MaxPieces /\ unitFrom' \in 0..nextPiece'
  BY <1>1, <1>5, <1>6, <1>7, <1>9
<1>. QED BY <1>6, <1>7, <1>10

\* A paragraph that joins the queue keeps every sentence in one place; if the oldest is
\* dropped for it, those of the oldest are final.
LEMMA QueueParted ==
  ASSUME LiveTypeOK, Parted, Marked, NEW p \in Seq(Ids), Queue(p),
         Elems(p) \cap (Members(revQueue) \cup Elems(inHand) \cup Final) = {}
  PROVE  /\ revQueue' \in Seq(Seq(Ids)) /\ Len(revQueue') <= Backlog
         /\ revised' = revised /\ skipped \subseteq skipped' /\ skipped' \subseteq Ids
         /\ finalUntil' \in -1..(MaxPieces - 1) /\ 0..finalUntil' \subseteq revised \cup skipped'
         /\ finalUntil <= finalUntil'
         /\ Members(revQueue') \cup skipped' = Members(revQueue) \cup Elems(p) \cup skipped
         /\ Members(revQueue') \cap (Elems(inHand) \cup revised \cup skipped') = {}
         /\ Separate(revQueue')
         /\ skipped' \cap (Elems(inHand) \cup revised) = {}
<1> USE DEF Final
<1>1. /\ revQueue \in Seq(Seq(Ids)) /\ Len(revQueue) <= Backlog /\ Len(revQueue) \in Nat /\ Backlog \in Nat \ {0}
      /\ skipped \subseteq Ids /\ revised \subseteq Ids /\ finalUntil \in -1..(MaxPieces - 1)
  BY LenProperties, LiveAssumption DEF LiveTypeOK
<1>2. /\ revised \cap skipped = {} /\ Elems(inHand) \cap (revised \cup skipped) = {}
      /\ Members(revQueue) \cap (Elems(inHand) \cup revised \cup skipped) = {}
      /\ Separate(revQueue)
      /\ 0..finalUntil \subseteq revised \cup skipped
  BY DEF Parted, Marked
<1>3. CASE Len(revQueue) < Backlog
  <2>1. revQueue' = Append(revQueue, p) /\ revised' = revised /\ skipped' = skipped /\ finalUntil' = finalUntil
    BY <1>3 DEF Queue, fate
  <2>2. /\ Append(revQueue, p) \in Seq(Seq(Ids)) /\ Len(Append(revQueue, p)) = Len(revQueue) + 1
        /\ Members(Append(revQueue, p)) = Members(revQueue) \cup Elems(p)
        /\ Separate(Append(revQueue, p))
    BY <1>1, <1>2, JoinQueue
  <2>3. Len(revQueue') <= Backlog /\ finalUntil <= finalUntil' /\ finalUntil' \in -1..(MaxPieces - 1)
    BY <1>1, <1>3, <2>1, <2>2, LiveAssumption
  <2>. QED BY <1>1, <1>2, <2>1, <2>2, <2>3
<1>4. CASE ~(Len(revQueue) < Backlog)
  <2>1. /\ revQueue' = Append(Tail(revQueue), p) /\ revised' = revised
        /\ skipped' = skipped \cup Elems(Head(revQueue))
        /\ finalUntil' \in Marks(revised \cup skipped')
    BY <1>4 DEF Queue
  <2>2. revQueue # <<>> /\ Len(revQueue) - 1 + 1 <= Backlog
    BY <1>1, <1>4, EmptySeq
  <2>3. /\ Head(revQueue) \in Seq(Ids) /\ Tail(revQueue) \in Seq(Seq(Ids)) /\ Len(Tail(revQueue)) = Len(revQueue) - 1
        /\ Members(revQueue) = Elems(Head(revQueue)) \cup Members(Tail(revQueue))
        /\ Separate(Tail(revQueue)) /\ Elems(Head(revQueue)) \cap Members(Tail(revQueue)) = {}
    BY <1>1, <1>2, <2>2, LeaveQueue
  <2>4. /\ revQueue' \in Seq(Seq(Ids)) /\ Len(revQueue') = Len(revQueue) - 1 + 1
        /\ Members(revQueue') = Members(Tail(revQueue)) \cup Elems(p)
        /\ Separate(revQueue')
    <3>1. Elems(p) \cap Members(Tail(revQueue)) = {}
      BY <2>3
    <3>2. /\ Append(Tail(revQueue), p) \in Seq(Seq(Ids)) /\ Len(Append(Tail(revQueue), p)) = Len(Tail(revQueue)) + 1
          /\ Members(Append(Tail(revQueue), p)) = Members(Tail(revQueue)) \cup Elems(p)
          /\ Separate(Append(Tail(revQueue), p))
      BY <2>3, <3>1, JoinQueue
    <3>. QED BY <2>1, <2>3, <3>2
  <2>5. Elems(Head(revQueue)) \subseteq Ids
    BY <2>3, ElemsOf
  <2>6. finalUntil' \in -1..(MaxPieces - 1) /\ 0..finalUntil' \subseteq revised \cup skipped' /\ finalUntil <= finalUntil'
    <3>1. revised \cup skipped \subseteq revised \cup skipped'
      BY <2>1
    <3>2. finalUntil \in -1..(MaxPieces - 1) /\ 0..finalUntil \subseteq revised \cup skipped
      BY <1>1, <1>2
    <3>3. finalUntil' \in Marks(revised \cup skipped')
      BY <2>1
    <3>4. finalUntil' \in -1..(MaxPieces - 1) /\ 0..finalUntil' \subseteq revised \cup skipped'
          /\ finalUntil <= finalUntil'
      <4> DEFINE F == revised \cup skipped
                 G == revised \cup skipped'
      <4>1. F \subseteq G /\ 0..finalUntil \subseteq F /\ finalUntil' \in Marks(G)
        BY <3>1, <3>2, <3>3
      <4>. HIDE DEF F, G
      <4>2. finalUntil' \in -1..(MaxPieces - 1) /\ 0..finalUntil' \subseteq G /\ finalUntil <= finalUntil'
        BY <3>2, <4>1, MarksFinal
      <4>. QED BY <4>2 DEF G
    <3>. QED BY <3>4
  <2>. QED BY <1>1, <1>2, <2>1, <2>2, <2>3, <2>4, <2>5, <2>6
<1>. QED BY <1>3, <1>4

\* The transcript is right as long as nothing of it changes.
LEMMA TranscriptKept ==
  ASSUME InTranscript, doc' = doc, translated' = translated, revised' = revised
  PROVE  InTranscript'
<1>1. Shown' = Shown
  BY DEF Shown
<1>2. (\A i \in 1..Len(doc) :
         \/ doc[i] \subseteq revised
         \/ \E x \in Elems(translated) : doc[i] = {x})'
  BY DEF InTranscript
<1>3. (Shown = Elems(translated) \cup revised)'
  BY <1>1 DEF InTranscript
<1>. QED BY <1>2, <1>3 DEF InTranscript

LEMMA UpdateStep == LiveInv /\ Update => LiveInv'
<1> SUFFICES ASSUME LiveInv, Update PROVE LiveInv'
  OBVIOUS
<1>0. LiveTypeOK /\ Retreat /\ InOrder /\ Parted /\ Marked /\ InTranscript
  BY DEF LiveInv
<1>1. PICK s \in Seq(Ids) :
        /\ caller = "listening" /\ caller' = "handing"
        /\ handing' = s /\ closed' \in BOOLEAN
        /\ nextPiece' \in 0..MaxPieces /\ unitFrom' \in 0..nextPiece'
        /\ unitFrom <= unitFrom'
        /\ Ascending(s) /\ \A x \in Elems(s) : unitFrom <= x /\ x < unitFrom'
        /\ unitFrom < unitFrom' => unitFrom \in Elems(s)
        /\ \/ para' = para \o s /\ UNCHANGED <<revQueue, fate>>
           \/ para' = <<>> /\ para \o s # <<>> /\ Queue(para \o s)
        /\ UNCHANGED <<wholeUtterance, queue, translator, stop, revStop, inHand, slow, doc>>
  BY <1>0, UpdateCollects
<1>2. /\ commits' = commits /\ pending' = pending /\ draft' = draft
      /\ working' = working /\ fast' = fast /\ translated' = translated
      /\ stop' = stop /\ revStop' = revStop /\ inHand' = inHand /\ slow' = slow /\ doc' = doc
      /\ wholeUtterance' = wholeUtterance
  BY <1>1 DEF queue, translator
<1>3. /\ para \in Seq(Ids) /\ translated \in Seq(Ids) /\ pending \in Seq(Ids) /\ inHand \in Seq(Ids)
      /\ handing = <<>> /\ unitFrom \in Int /\ unitFrom' \in Int /\ unitFrom >= 0
      /\ <<>> \in Seq(Ids) /\ Elems(<<>>) = {}
  <2>1. nextPiece \in Nat /\ unitFrom \in Nat
    <3>1. nextPiece \in 0..MaxPieces /\ unitFrom \in 0..nextPiece
      BY <1>0 DEF LiveTypeOK
    <3>. QED BY <3>1, LiveAssumption
  <2>2. nextPiece' \in Nat
    BY <1>1, LiveAssumption
  <2>3. unitFrom' \in Int
    BY <1>1, <2>2
  <2>. QED BY <1>0, <1>1, <2>1, <2>3, ElemsEmpty, EmptySeq DEF LiveTypeOK, Retreat
<1> DEFINE H == translated \o pending
<1>4. H \in Seq(Ids) /\ Heard = H /\ Heard' = H \o s /\ Elems(H \o s) = Elems(H) \cup Elems(s)
  <2>1. H \in Seq(Ids)
    BY <1>3, ElemsConcat
  <2>2. H \o <<>> = H
    BY <2>1, ConcatEmptySeq
  <2>3. Elems(H \o s) = Elems(H) \cup Elems(s)
    <3>. HIDE DEF H
    <3>. QED BY <2>1, ElemsConcat
  <2>. QED BY <1>1, <1>2, <1>3, <2>1, <2>2, <2>3 DEF Heard
<1>5. Elems(H) = Final \cup Open /\ Ascending(H) /\ \A x \in Elems(H) : x < unitFrom
  BY <1>0, <1>4 DEF InOrder, Parted
<1>6. Elems(H) \subseteq Int /\ Elems(s) \subseteq Int /\ Elems(H) \cap Elems(s) = {}
  <2>1. Elems(H) \subseteq Ids /\ Elems(s) \subseteq Ids /\ Ids \subseteq Int
    <3>1. Elems(H) \subseteq Ids
      BY <1>4, ElemsOf
    <3>2. Elems(s) \subseteq Ids
      BY ElemsOf
    <3>. QED BY <3>1, <3>2 DEF Ids
  <2> HIDE DEF H
  <2>2. ASSUME NEW x \in Elems(H), x \in Elems(s) PROVE FALSE
    <3>1. x < unitFrom /\ unitFrom <= x /\ x \in Int
      BY <1>1, <1>5, <2>1, <2>2
    <3>. QED BY <1>3, <3>1
  <2>. QED BY <2>1, <2>2
<1> HIDE DEF H
<1>7. InOrder'
  <2>1. \A x \in Elems(H), y \in Elems(s) : x < y
    BY <1>1, <1>3, <1>5, <1>6
  <2>2. Ascending(H \o s)
    BY <1>1, <1>4, <1>5, <2>1, AscendingConcat
  <2>3. \A x \in Elems(H \o s) : x < unitFrom'
    BY <1>1, <1>3, <1>4, <1>5, <1>6
  <2>4. unitFrom' > 0 => 0 \in Elems(H \o s)
    <3>1. CASE unitFrom > 0
      BY <1>0, <1>4, <3>1 DEF InOrder
    <3>2. CASE ~(unitFrom > 0)
      BY <1>1, <1>3, <1>4, <3>2
    <3>. QED BY <3>1, <3>2
  <2>. QED BY <1>0, <1>2, <1>4, <2>2, <2>3, <2>4 DEF InOrder
<1>8. Retreat'
  <2>1. ~stop /\ ~revStop /\ fast # "gone" /\ slow # "gone"
    BY <1>0, <1>1 DEF Retreat
  <2>2. slow = "waiting" => inHand = <<>>
    BY <1>0 DEF Retreat
  <2>3. IF fast = "sentence" THEN Len(working) = 1 ELSE working = <<>>
    BY <1>0 DEF Retreat
  <2>. QED BY <1>1, <1>2, <2>1, <2>2, <2>3 DEF Retreat
<1>9. /\ Open = Elems(para) \cup Elems(inHand) \cup Members(revQueue)
      /\ Open' = Elems(para') \cup Elems(inHand) \cup Members(revQueue')
  BY <1>2 DEF Open, Members
<1>10. para \o s \in Seq(Ids) /\ Elems(para \o s) = Elems(para) \cup Elems(s)
  BY <1>3, ElemsConcat
<1>11. /\ Elems(s) \cap (Elems(para) \cup Elems(inHand) \cup Members(revQueue) \cup Final) = {}
       /\ Elems(para) \cap (Elems(inHand) \cup Members(revQueue) \cup Final) = {}
  BY <1>0, <1>5, <1>6, <1>9 DEF Parted
<1>12. CASE para' = para \o s /\ UNCHANGED <<revQueue, fate>>
  <2>1. revQueue' = revQueue /\ revised' = revised /\ skipped' = skipped /\ finalUntil' = finalUntil
    BY <1>12 DEF fate
  <2>2. LiveTypeOK'
    BY <1>0, <1>1, <1>2, <1>10, <1>12, <2>1 DEF LiveTypeOK
  <2>3. Parted'
    <3>1. Final' = Final /\ Members(revQueue') = Members(revQueue) /\ Separate(revQueue')
      BY <1>0, <2>1 DEF Final, Parted
    <3>2. Elems(Heard') = Final' \cup Open'
      BY <1>4, <1>5, <1>9, <1>10, <1>12, <3>1
    <3>3. Elems(para') = Elems(para) \cup Elems(s) /\ Elems(inHand') = Elems(inHand)
      BY <1>2, <1>10, <1>12
    <3>. QED BY <1>0, <1>11, <2>1, <3>1, <3>2, <3>3 DEF Parted
  <2>4. Marked' /\ InTranscript'
    <3>1. doc' = doc /\ translated' = translated /\ revised' = revised
      BY <1>2, <2>1
    <3>2. InTranscript'
      BY <1>0, <3>1, TranscriptKept
    <3>3. Marked'
      BY <1>0, <2>1 DEF Marked, Final
    <3>. QED BY <3>2, <3>3
  <2>. QED BY <1>7, <1>8, <2>2, <2>3, <2>4 DEF LiveInv
<1>13. CASE para' = <<>> /\ Queue(para \o s)
  <2> DEFINE p == para \o s
  <2>1. Elems(p) \cap (Members(revQueue) \cup Elems(inHand) \cup Final) = {}
    BY <1>10, <1>11
  <2>2. /\ revQueue' \in Seq(Seq(Ids)) /\ Len(revQueue') <= Backlog
        /\ revised' = revised /\ skipped \subseteq skipped' /\ skipped' \subseteq Ids
        /\ finalUntil' \in -1..(MaxPieces - 1) /\ 0..finalUntil' \subseteq revised \cup skipped'
        /\ Members(revQueue') \cup skipped' = Members(revQueue) \cup Elems(p) \cup skipped
        /\ Members(revQueue') \cap (Elems(inHand) \cup revised \cup skipped') = {}
        /\ Separate(revQueue')
        /\ skipped' \cap (Elems(inHand) \cup revised) = {}
    BY <1>0, <1>10, <1>13, <2>1, QueueParted
  <2> HIDE DEF p
  <2>3. LiveTypeOK'
    BY <1>0, <1>1, <1>2, <1>3, <1>13, <2>2 DEF LiveTypeOK
  <2>4. Parted'
    <3>1. Final' = revised \cup skipped' /\ Elems(para') = {} /\ Elems(inHand') = Elems(inHand)
      BY <1>2, <1>3, <1>13, <2>2 DEF Final
    <3>2. Elems(Heard') = Final \cup Open \cup Elems(s)
      BY <1>4, <1>5
    <3>3. Final' \cup Open' = Final \cup Open \cup Elems(s)
      BY <1>9, <1>10, <2>2, <3>1 DEF Final, p
    <3>4. Elems(inHand) \cap Final = {}
      BY <1>0 DEF Parted
    <3>. QED BY <1>0, <2>2, <3>1, <3>2, <3>3, <3>4 DEF Parted, Final
  <2>5. Marked'
    BY <2>2 DEF Marked, Final
  <2>6. InTranscript'
    <3>1. doc' = doc /\ translated' = translated /\ revised' = revised
      BY <1>2, <2>2
    <3>. QED BY <1>0, <3>1, TranscriptKept
  <2>. QED BY <1>7, <1>8, <2>3, <2>4, <2>5, <2>6 DEF LiveInv
<1>. QED BY <1>1, <1>12, <1>13

\* What leaves the slow pass alone leaves all that is said of it.
LEMMA SlowUnchanged ==
  ASSUME Parted, Marked, InTranscript,
         Heard' = Heard, UNCHANGED <<para, revQueue, inHand, revised, skipped, finalUntil, translated, doc>>
  PROVE  Parted' /\ Marked' /\ InTranscript'
<1>1. Final' = Final /\ Open' = Open /\ Shown' = Shown
  BY DEF Final, Open, Shown
<1>2. Parted'
  BY <1>1 DEF Parted
<1>3. Marked'
  BY <1>1 DEF Marked
<1>4. InTranscript'
  BY <1>1 DEF InTranscript
<1>. QED BY <1>2, <1>3, <1>4

\* A sentence that is handed over stays where it is in the order of the speech.
LEMMA HandHeard ==
  ASSUME LiveInv, Hand
  PROVE  Heard' = Heard
<1>1. /\ pending' = pending \o handing /\ handing' = <<>> /\ translated' = translated
      /\ handing \in Seq(Ids) /\ pending \in Seq(Ids) /\ translated \in Seq(Ids)
  BY DEF Hand, translator, LiveInv, LiveTypeOK
<1>2. (translated \o pending) \o handing = translated \o (pending \o handing)
  BY <1>1, JoinThree, Zenon
<1>3. translated \o pending \o handing \in Seq(Ids)
  BY <1>1, ElemsConcat
<1>4. Heard \o <<>> = Heard
  BY <1>3, ConcatEmptySeq DEF Heard
<1>5. Heard = translated \o (pending \o handing)
  BY <1>2 DEF Heard
<1>. QED BY <1>1, <1>4, <1>5 DEF Heard

\* The sentences of the update wait behind those that wait already.
LEMMA HandStep == LiveInv /\ Hand => LiveInv'
<1> SUFFICES ASSUME LiveInv, Hand PROVE LiveInv'
  OBVIOUS
<1>0. LiveTypeOK /\ Retreat /\ InOrder /\ Parted /\ Marked /\ InTranscript
  BY DEF LiveInv
<1>1. /\ caller = "handing" /\ caller' = "listening"
      /\ commits' = commits \o handing /\ pending' = pending \o handing
      /\ handing' = <<>> /\ closed' = FALSE
  BY DEF Hand
<1>2. /\ nextPiece' = nextPiece /\ unitFrom' = unitFrom /\ para' = para
      /\ working' = working /\ fast' = fast /\ translated' = translated
      /\ stop' = stop /\ revStop' = revStop
      /\ revQueue' = revQueue /\ inHand' = inHand /\ slow' = slow
      /\ revised' = revised /\ skipped' = skipped /\ finalUntil' = finalUntil /\ doc' = doc
      /\ wholeUtterance' = wholeUtterance
  BY DEF Hand, text, translator, paras, fate
<1>3. /\ handing \in Seq(Ids) /\ commits \in Seq(Ids) /\ pending \in Seq(Ids)
      /\ working \in Seq(Ids) /\ translated \in Seq(Ids) /\ <<>> \in Seq(Ids)
  BY <1>0, EmptySeq DEF LiveTypeOK
<1>4. commits \o handing \in Seq(Ids) /\ pending \o handing \in Seq(Ids)
  BY <1>3, ElemsConcat
<1>5. draft' \in BOOLEAN
  BY <1>0, Zenon DEF Hand, LiveTypeOK
<1>6. LiveTypeOK'
  BY <1>0, <1>1, <1>2, <1>3, <1>4, <1>5 DEF LiveTypeOK
<1>7. Retreat'
  <2>1. ~stop /\ ~revStop /\ fast # "gone" /\ slow # "gone"
    BY <1>0, <1>1 DEF Retreat
  <2>. QED BY <1>0, <1>1, <1>2, <2>1 DEF Retreat
<1>8. Heard' = Heard
  BY HandHeard
<1>9. InOrder'
  <2>1. pending' = working' \o commits'
    <3>1. (working \o commits) \o handing = working \o (commits \o handing)
      <4>1. working \in Seq(Ids) /\ commits \in Seq(Ids) /\ handing \in Seq(Ids)
        BY <1>3
      <4>. QED BY <4>1, JoinThree, Zenon
    <3>. QED BY <1>0, <1>1, <1>2, <3>1 DEF InOrder
  <2>. QED BY <1>0, <1>2, <1>8, <2>1 DEF InOrder
<1>10. Parted' /\ Marked' /\ InTranscript'
  BY <1>0, <1>2, <1>8, SlowUnchanged DEF fate
<1>. QED BY <1>6, <1>7, <1>9, <1>10 DEF LiveInv

\* The end of the sink, and the steps of the fast thread that move no sentence.
LEMMA QuietStep ==
  LiveInv /\ (Finish \/ JoinFast \/ JoinSlow \/ TakeDraft \/ LeaveFast \/ Drafted) => LiveInv'
<1> SUFFICES ASSUME LiveInv, Finish \/ JoinFast \/ JoinSlow \/ TakeDraft \/ LeaveFast \/ Drafted PROVE LiveInv'
  OBVIOUS
<1>0. LiveTypeOK /\ Retreat /\ InOrder /\ Parted /\ Marked /\ InTranscript
  BY DEF LiveInv
<1>1. /\ nextPiece' = nextPiece /\ unitFrom' = unitFrom /\ para' = para
      /\ handing' = handing /\ closed' = closed /\ commits' = commits /\ pending' = pending
      /\ working' = working /\ translated' = translated
      /\ revQueue' = revQueue /\ inHand' = inHand /\ slow' = slow
      /\ revised' = revised /\ skipped' = skipped /\ finalUntil' = finalUntil /\ doc' = doc
      /\ wholeUtterance' = wholeUtterance
  BY DEF Finish, JoinFast, JoinSlow, TakeDraft, LeaveFast, Drafted, text, queue, update, translator, paras, fate
<1>2. /\ caller' \in {"listening", "handing", "joining", "joining slow", "finished"}
      /\ fast' \in {"waiting", "sentence", "draft", "gone"}
  BY <1>0 DEF Finish, JoinFast, JoinSlow, TakeDraft, LeaveFast, Drafted, update, translator, LiveTypeOK
<1>3. draft' \in BOOLEAN /\ stop' \in BOOLEAN /\ revStop' \in BOOLEAN
  BY <1>0, Zenon DEF Finish, JoinFast, JoinSlow, TakeDraft, LeaveFast, Drafted, queue, LiveTypeOK
<1>4. LiveTypeOK'
  BY <1>0, <1>1, <1>2, <1>3 DEF LiveTypeOK
<1>5. Retreat'
  <2>1. CASE Finish
    <3>1. /\ caller = "listening" /\ caller' = "joining" /\ unitFrom = nextPiece /\ para = <<>>
          /\ stop' = TRUE /\ revStop' = revStop /\ fast' = fast
      BY <2>1 DEF Finish, translator
    <3>2. ~stop /\ ~revStop /\ fast # "gone" /\ slow # "gone"
      BY <1>0, <3>1 DEF Retreat
    <3>. QED BY <1>0, <1>1, <3>1, <3>2 DEF Retreat
  <2>2. CASE JoinFast \/ JoinSlow
    BY <1>0, <1>1, <2>2 DEF JoinFast, JoinSlow, Retreat, queue, translator, paras
  <2>3. CASE TakeDraft \/ LeaveFast \/ Drafted
    <3>1. /\ caller' = caller /\ stop' = stop /\ revStop' = revStop
          /\ fast \in {"waiting", "draft"} /\ fast' \in {"waiting", "draft", "gone"}
          /\ fast' = "gone" => commits = <<>> /\ stop
      BY <2>3 DEF TakeDraft, LeaveFast, Drafted, update
    <3>2. caller \notin {"joining slow", "finished"} /\ working = <<>>
      BY <1>0, <3>1 DEF Retreat
    <3>. QED BY <1>0, <1>1, <3>1, <3>2 DEF Retreat
  <2>. QED BY <2>1, <2>2, <2>3
<1>6. Heard' = Heard
  BY <1>1 DEF Heard
<1>7. InOrder'
  BY <1>0, <1>1, <1>6 DEF InOrder
<1>8. Parted' /\ Marked' /\ InTranscript'
  BY <1>0, <1>1, <1>6, SlowUnchanged DEF fate
<1>. QED BY <1>4, <1>5, <1>7, <1>8 DEF LiveInv

\* What waits for the fast thread is still pending once it is in its hands.
LEMMA TakeSentenceStep == LiveInv /\ TakeSentence => LiveInv'
<1> SUFFICES ASSUME LiveInv, TakeSentence PROVE LiveInv'
  OBVIOUS
<1>0. LiveTypeOK /\ Retreat /\ InOrder /\ Parted /\ Marked /\ InTranscript
  BY DEF LiveInv
<1>1. /\ fast = "waiting" /\ fast' = "sentence" /\ commits # <<>>
      /\ working' = <<Head(commits)>> /\ commits' = Tail(commits)
  BY DEF TakeSentence
<1>2. /\ nextPiece' = nextPiece /\ unitFrom' = unitFrom /\ para' = para
      /\ caller' = caller /\ handing' = handing /\ closed' = closed
      /\ pending' = pending /\ draft' = draft /\ translated' = translated
      /\ stop' = stop /\ revStop' = revStop
      /\ revQueue' = revQueue /\ inHand' = inHand /\ slow' = slow
      /\ revised' = revised /\ skipped' = skipped /\ finalUntil' = finalUntil /\ doc' = doc
      /\ wholeUtterance' = wholeUtterance
  BY DEF TakeSentence, text, update, paras, fate
<1>3. commits \in Seq(Ids) /\ working = <<>>
  BY <1>0, <1>1 DEF LiveTypeOK, Retreat
<1>4. /\ Tail(commits) \in Seq(Ids) /\ <<Head(commits)>> \in Seq(Ids)
      /\ commits = <<Head(commits)>> \o Tail(commits)
  BY <1>1, <1>3, HeadTail
<1>5. LiveTypeOK'
  BY <1>0, <1>1, <1>2, <1>4 DEF LiveTypeOK
<1>6. Retreat'
  <2>1. Len(<<Head(commits)>>) = 1 /\ caller \notin {"joining slow", "finished"}
    BY <1>0, <1>1 DEF Retreat
  <2>. QED BY <1>0, <1>1, <1>2, <2>1 DEF Retreat
<1>7. InOrder'
  <2>1. <<>> \o commits = commits
    BY <1>3, ConcatEmptySeq
  <2>2. pending' = working' \o commits'
    BY <1>0, <1>1, <1>2, <1>3, <1>4, <2>1 DEF InOrder
  <2>. QED BY <1>0, <1>2, <2>2 DEF InOrder, Heard
<1>8. Heard' = Heard
  BY <1>2 DEF Heard
<1>9. Parted' /\ Marked' /\ InTranscript'
  BY <1>0, <1>2, <1>8, SlowUnchanged DEF fate
<1>. QED BY <1>5, <1>6, <1>7, <1>9 DEF LiveInv

-----------------------------------------------------------------------------
(* The transcript.                                                          *)

\* What the entries of a transcript show.
Showing(d) == UNION {d[i] : i \in 1..Len(d)}

\* A new entry is shown, and the others still are.
LEMMA EntryAdded ==
  ASSUME NEW S, NEW d \in Seq(S), NEW e \in S
  PROVE  /\ Append(d, e) \in Seq(S)
         /\ Showing(Append(d, e)) = Showing(d) \cup e
         /\ \A i \in 1..Len(Append(d, e)) : Append(d, e)[i] = e \/ \E j \in 1..Len(d) : Append(d, e)[i] = d[j]
<1>1. /\ Append(d, e) \in Seq(S) /\ Len(Append(d, e)) = Len(d) + 1
      /\ \A i \in 1..Len(d) : Append(d, e)[i] = d[i]
      /\ Append(d, e)[Len(d) + 1] = e
  BY AppendProperties
<1>2. 1..Len(Append(d, e)) = 1..Len(d) \cup {Len(d) + 1}
  BY <1>1, LenProperties
<1>3. Showing(Append(d, e)) \subseteq Showing(d) \cup e
  BY <1>1, <1>2 DEF Showing
<1>4. Showing(d) \cup e \subseteq Showing(Append(d, e))
  BY <1>1, <1>2 DEF Showing
<1>. QED BY <1>1, <1>2, <1>3, <1>4

\* A set of numbers that is not empty has a least one.
LEMMA LeastOne ==
  ASSUME NEW T, T \subseteq Nat, T # {}
  PROVE  \E x \in T : \A y \in T : x <= y
<1> DEFINE Less == {ss \in Nat \X Nat : ss[1] < ss[2]}
<1>1. IsWellFoundedOn(Less, Nat)
  BY NatLessThanWellFounded, Zenon DEF OpToRel
<1>2. PICK x \in T : \A y \in T : ~(<<y, x>> \in Less)
  <2> HIDE DEF Less
  <2>. QED BY <1>1, WFMin
<1>3. \A y \in T : ~(y < x)
  BY <1>2
<1>. QED BY <1>3

\* If an entry that shows a sentence of p shows no other, the transcript shows after the
\* revision of p what it showed before, and p.
LEMMA EntriesReplaced ==
  ASSUME doc \in Seq(SUBSET Ids), NEW p, Elems(p) \subseteq Ids,
         \A i \in 1..Len(doc) : doc[i] \cap Elems(p) # {} => doc[i] \subseteq Elems(p)
  PROVE  /\ Replaced(p) \in Seq(SUBSET Ids)
         /\ Showing(Replaced(p)) = Showing(doc) \cup Elems(p)
         /\ \A i \in 1..Len(Replaced(p)) :
              \/ Replaced(p)[i] \in {{}, Elems(p)}
              \/ \E j \in 1..Len(doc) : Replaced(p)[i] = doc[j]
<1> DEFINE Covered == {i \in 1..Len(doc) : doc[i] \cap Elems(p) # {}}
           first(i) == \A j \in Covered : i <= j
           new == [i \in 1..Len(doc) |->
                     IF i \notin Covered THEN doc[i] ELSE IF first(i) THEN Elems(p) ELSE {}]
<1>1. Replaced(p) = IF Covered = {} THEN Append(doc, Elems(p)) ELSE new
  BY DEF Replaced
<1>2. CASE Covered = {}
  BY <1>1, <1>2, EntryAdded
<1>3. CASE Covered # {}
  <2>1. Len(doc) \in Nat /\ \A i \in 1..Len(doc) : doc[i] \in SUBSET Ids
    BY LenProperties, ElementOfSeq
  <2>2. \A i \in 1..Len(doc) : new[i] \in SUBSET Ids
    BY <2>1
  <2>3. new \in Seq(SUBSET Ids) /\ Len(new) = Len(doc)
    BY <2>1, <2>2, IsASeq
  <2>4. PICK f \in Covered : first(f)
    <3>1. Covered \subseteq Nat
      BY <2>1
    <3>. HIDE DEF Covered
    <3>. QED BY <1>3, <3>1, LeastOne
  <2>5. f \in 1..Len(doc) /\ new[f] = Elems(p)
    BY <2>4
  <2>6. \A i \in 1..Len(doc) : new[i] \subseteq doc[i] \cup Elems(p)
    OBVIOUS
  <2>7. \A i \in 1..Len(doc) : doc[i] \subseteq new[i] \cup Elems(p)
    OBVIOUS
  <2>8. \A i \in 1..Len(doc) : new[i] \in {{}, Elems(p)} \/ new[i] = doc[i]
    OBVIOUS
  <2>9. Replaced(p) = new
    BY <1>1, <1>3
  <2>. HIDE DEF new, Covered
  <2>10. Showing(new) \subseteq Showing(doc) \cup Elems(p)
    BY <2>3, <2>6 DEF Showing
  <2>11. Showing(doc) \subseteq Showing(new) \cup Elems(p) /\ Elems(p) \subseteq Showing(new)
    BY <2>3, <2>5, <2>7 DEF Showing
  <2>12. Showing(new) = Showing(doc) \cup Elems(p)
    BY <2>10, <2>11
  <2>. QED BY <2>3, <2>8, <2>9, <2>12
<1>. QED BY <1>2, <1>3

\* What has been translated is the oldest pending sentence.
LEMMA OldestTranslated ==
  ASSUME LiveInv, Translated
  PROVE  \E w \in Ids : working = <<w>> /\ Elems(working) = {w} /\ pending' = commits /\ Heard' = Heard
<1>1. /\ translated' = translated \o working /\ handing' = handing
      /\ pending' = IF pending # <<>> /\ <<Head(pending)>> = working THEN Tail(pending) ELSE pending
  BY DEF Translated, update
<1>2. /\ commits \in Seq(Ids) /\ pending \in Seq(Ids) /\ working \in Seq(Ids) /\ translated \in Seq(Ids)
      /\ <<>> \in Seq(Ids) /\ Len(working) = 1 /\ pending = working \o commits
  BY EmptySeq DEF LiveInv, LiveTypeOK, Retreat, InOrder, Translated
<1>3. PICK w \in Ids : working = <<w>> /\ Elems(working) = {w}
  <2>1. working[1] \in Ids
    <3>1. 1 \in 1..Len(working)
      BY <1>2
    <3>. QED BY <1>2, <3>1, ElementOfSeq
  <2>2. <<working[1]>> \in Seq(Ids) /\ Len(<<working[1]>>) = 1 /\ <<working[1]>>[1] = working[1]
    BY <2>1
  <2>3. working = <<working[1]>>
    BY <1>2, <2>2, SeqEqual
  <2>. QED BY <2>1, <2>3, ElemsOne
<1>4. pending' = commits
  <2>1. /\ Len(pending) = Len(working) + Len(commits)
        /\ \A i \in 1..(Len(working) + Len(commits)) :
             pending[i] = IF i <= Len(working) THEN working[i] ELSE commits[i - Len(working)]
    BY <1>2, ConcatProperties
  <2>2. Len(commits) \in Nat
    BY <1>2, LenProperties
  <2>3. pending # <<>> /\ pending[1] = w
    BY <1>2, <1>3, <2>1, <2>2, EmptySeq
  <2>4. Head(pending) = w /\ Tail(pending) \in Seq(Ids) /\ pending = <<Head(pending)>> \o Tail(pending)
    BY <1>2, <2>3, HeadTail
  <2>5. working \o Tail(pending) = working \o commits
    BY <1>2, <1>3, <2>4
  <2>6. Tail(pending) = commits
    BY <1>2, <2>4, <2>5, ConcatSimplifications
  <2>. QED BY <1>1, <1>3, <2>3, <2>4, <2>6
<1>5. Heard' = Heard
  <2>1. (translated \o working) \o commits = translated \o (working \o commits)
    <3>1. translated \in Seq(Ids) /\ working \in Seq(Ids) /\ commits \in Seq(Ids)
      BY <1>2
    <3>. QED BY <3>1, JoinThree, Zenon
  <2>. QED BY <1>1, <1>2, <1>4, <2>1 DEF Heard
<1>. QED BY <1>3, <1>4, <1>5

\* The translation of the oldest pending sentence leaves the queue and enters the transcript.
LEMMA TranslatedStep == LiveInv /\ Translated => LiveInv'
<1> SUFFICES ASSUME LiveInv, Translated PROVE LiveInv'
  OBVIOUS
<1>0. LiveTypeOK /\ Retreat /\ InOrder /\ Parted /\ Marked /\ InTranscript
  BY DEF LiveInv
<1>1. /\ fast = "sentence" /\ fast' = "waiting" /\ working' = <<>>
      /\ translated' = translated \o working
      /\ pending' = IF pending # <<>> /\ <<Head(pending)>> = working THEN Tail(pending) ELSE pending
      /\ doc' = Append(doc, Elems(working))
  BY DEF Translated
<1>2. /\ nextPiece' = nextPiece /\ unitFrom' = unitFrom /\ para' = para
      /\ caller' = caller /\ handing' = handing /\ closed' = closed
      /\ commits' = commits /\ draft' = draft
      /\ stop' = stop /\ revStop' = revStop
      /\ revQueue' = revQueue /\ inHand' = inHand /\ slow' = slow
      /\ revised' = revised /\ skipped' = skipped /\ finalUntil' = finalUntil
      /\ wholeUtterance' = wholeUtterance
  BY DEF Translated, text, update, paras, fate
<1>3. /\ commits \in Seq(Ids) /\ pending \in Seq(Ids) /\ working \in Seq(Ids) /\ translated \in Seq(Ids)
      /\ handing \in Seq(Ids) /\ <<>> \in Seq(Ids) /\ doc \in Seq(SUBSET Ids)
      /\ Len(working) = 1 /\ pending = working \o commits
  BY <1>0, <1>1, EmptySeq DEF LiveTypeOK, Retreat, InOrder
<1>4. PICK w \in Ids : working = <<w>> /\ Elems(working) = {w} /\ pending' = commits /\ Heard' = Heard
  BY OldestTranslated
<1>5. pending' = commits
  BY <1>4
<1>6. /\ translated \o working \in Seq(Ids)
      /\ Elems(translated') = Elems(translated) \cup {w}
  <2>1. translated \o working \in Seq(Ids) /\ Elems(translated \o working) = Elems(translated) \cup Elems(working)
    BY <1>3, ElemsConcat
  <2>. QED BY <1>1, <1>4, <2>1
<1>7. {w} \in SUBSET Ids /\ doc' = Append(doc, {w})
  BY <1>1, <1>4
<1>8. /\ doc' \in Seq(SUBSET Ids)
      /\ Showing(doc') = Showing(doc) \cup {w}
      /\ \A i \in 1..Len(doc') : doc'[i] = {w} \/ \E j \in 1..Len(doc) : doc'[i] = doc[j]
  <2>1. /\ Append(doc, {w}) \in Seq(SUBSET Ids)
        /\ Showing(Append(doc, {w})) = Showing(doc) \cup {w}
        /\ \A i \in 1..Len(Append(doc, {w})) :
             Append(doc, {w})[i] = {w} \/ \E j \in 1..Len(doc) : Append(doc, {w})[i] = doc[j]
    <3>1. doc \in Seq(SUBSET Ids) /\ {w} \in SUBSET Ids
      BY <1>3, <1>7
    <3>. QED BY <3>1, EntryAdded
  <2>. QED BY <1>7, <2>1
<1>9. LiveTypeOK'
  BY <1>0, <1>1, <1>2, <1>3, <1>5, <1>6, <1>8 DEF LiveTypeOK
<1>10. Retreat'
  <2>1. caller \notin {"joining slow", "finished"}
    BY <1>0, <1>1 DEF Retreat
  <2>. QED BY <1>0, <1>1, <1>2, <2>1 DEF Retreat
<1>11. Heard' = Heard
  BY <1>4
<1>12. InOrder'
  <2>1. <<>> \o commits = commits
    BY <1>3, ConcatEmptySeq
  <2>. QED BY <1>0, <1>1, <1>2, <1>5, <1>11, <2>1 DEF InOrder
<1>13. Final' = Final /\ Open' = Open
  BY <1>2 DEF Final, Open
<1>14. Parted' /\ Marked'
  BY <1>0, <1>2, <1>11, <1>13 DEF Parted, Marked
<1>15. InTranscript'
  <2>1. Shown = Showing(doc) /\ Shown' = Showing(doc')
    BY DEF Shown, Showing
  <2>2. Shown' = Elems(translated') \cup revised'
    BY <1>0, <1>2, <1>6, <1>8, <2>1 DEF InTranscript
  <2>3. ASSUME NEW i \in 1..Len(doc')
        PROVE  doc'[i] \subseteq revised \/ \E x \in Elems(translated') : doc'[i] = {x}
    BY <1>0, <1>6, <1>8 DEF InTranscript
  <2>. QED BY <1>2, <2>2, <2>3 DEF InTranscript
<1>. QED BY <1>9, <1>10, <1>12, <1>14, <1>15 DEF LiveInv

-----------------------------------------------------------------------------
(* The reviser.                                                             *)

\* The paragraph goes from the queue into the reviser's hands.
LEMMA TakeParagraphStep == LiveInv /\ TakeParagraph => LiveInv'
<1> SUFFICES ASSUME LiveInv, TakeParagraph PROVE LiveInv'
  OBVIOUS
<1>0. LiveTypeOK /\ Retreat /\ InOrder /\ Parted /\ Marked /\ InTranscript
  BY DEF LiveInv
<1>1. /\ slow = "waiting" /\ slow' = "yielding" /\ revQueue # <<>>
      /\ inHand' = Head(revQueue) /\ revQueue' = Tail(revQueue)
  BY DEF TakeParagraph
<1>2. /\ nextPiece' = nextPiece /\ unitFrom' = unitFrom /\ para' = para
      /\ caller' = caller /\ handing' = handing /\ closed' = closed
      /\ commits' = commits /\ pending' = pending /\ draft' = draft
      /\ working' = working /\ fast' = fast /\ translated' = translated
      /\ stop' = stop /\ revStop' = revStop
      /\ revised' = revised /\ skipped' = skipped /\ finalUntil' = finalUntil /\ doc' = doc
      /\ wholeUtterance' = wholeUtterance
  BY DEF TakeParagraph, text, update, queue, translator, fate
<1>3. /\ revQueue \in Seq(Seq(Ids)) /\ Len(revQueue) \in Nat /\ Len(revQueue) <= Backlog /\ Backlog \in Nat
      /\ inHand = <<>> /\ Separate(revQueue) /\ Elems(<<>>) = {}
  BY <1>0, <1>1, LenProperties, LiveAssumption, ElemsEmpty DEF LiveTypeOK, Retreat, Parted
<1>4. /\ Head(revQueue) \in Seq(Ids) /\ Tail(revQueue) \in Seq(Seq(Ids)) /\ Len(Tail(revQueue)) = Len(revQueue) - 1
      /\ Members(revQueue) = Elems(Head(revQueue)) \cup Members(Tail(revQueue))
      /\ Separate(Tail(revQueue)) /\ Elems(Head(revQueue)) \cap Members(Tail(revQueue)) = {}
  BY <1>1, <1>3, LeaveQueue
<1>5. LiveTypeOK'
  <2>1. Len(Tail(revQueue)) <= Backlog
    BY <1>3, <1>4
  <2>. QED BY <1>0, <1>1, <1>2, <1>4, <2>1 DEF LiveTypeOK
<1>6. Retreat'
  <2>1. caller # "finished"
    BY <1>0, <1>1 DEF Retreat
  <2>. QED BY <1>0, <1>1, <1>2, <2>1 DEF Retreat
<1>7. Heard' = Heard /\ Final' = Final
  BY <1>2 DEF Heard, Final
<1>8. InOrder'
  BY <1>0, <1>2, <1>7 DEF InOrder
<1>9. Open' = Open
  <2>1. /\ Open = Elems(para) \cup Elems(inHand) \cup Members(revQueue)
        /\ Open' = Elems(para') \cup Elems(inHand') \cup Members(revQueue')
    BY DEF Open, Members
  <2>. QED BY <1>1, <1>2, <1>3, <1>4, <2>1
<1>10. Parted'
  BY <1>0, <1>1, <1>2, <1>3, <1>4, <1>7, <1>9 DEF Parted
<1>11. Marked'
  BY <1>0, <1>2, <1>7 DEF Marked
<1>12. InTranscript'
  <2>1. Shown' = Shown
    BY <1>2 DEF Shown
  <2>. QED BY <1>0, <1>2, <2>1 DEF InTranscript
<1>. QED BY <1>5, <1>6, <1>8, <1>10, <1>11, <1>12 DEF LiveInv

\* The steps of the reviser that move no sentence.
LEMMA QuietSlowStep == LiveInv /\ (LeaveSlow \/ StartRevision \/ StopYielding) => LiveInv'
<1> SUFFICES ASSUME LiveInv, LeaveSlow \/ StartRevision \/ StopYielding PROVE LiveInv'
  OBVIOUS
<1>0. LiveTypeOK /\ Retreat /\ InOrder /\ Parted /\ Marked /\ InTranscript
  BY DEF LiveInv
<1>1. /\ slow # "gone" /\ slow' \in {"revising", "gone"}
      /\ slow' = "gone" => slow = "waiting" /\ revQueue = <<>> /\ revStop
      /\ nextPiece' = nextPiece /\ unitFrom' = unitFrom /\ para' = para
      /\ caller' = caller /\ handing' = handing /\ closed' = closed
      /\ commits' = commits /\ pending' = pending /\ draft' = draft
      /\ working' = working /\ fast' = fast /\ translated' = translated
      /\ stop' = stop /\ revStop' = revStop
      /\ revQueue' = revQueue /\ inHand' = inHand
      /\ revised' = revised /\ skipped' = skipped /\ finalUntil' = finalUntil /\ doc' = doc
      /\ wholeUtterance' = wholeUtterance
  BY DEF LeaveSlow, StartRevision, StopYielding, text, update, queue, translator, fate
<1>2. LiveTypeOK'
  <2>1. /\ nextPiece' \in 0..MaxPieces /\ unitFrom' \in 0..nextPiece'
        /\ para' \in Seq(Ids) /\ handing' \in Seq(Ids) /\ closed' \in BOOLEAN
        /\ commits' \in Seq(Ids) /\ pending' \in Seq(Ids) /\ draft' \in BOOLEAN
        /\ working' \in Seq(Ids) /\ translated' \in Seq(Ids)
        /\ caller' \in {"listening", "handing", "joining", "joining slow", "finished"}
        /\ fast' \in {"waiting", "sentence", "draft", "gone"}
    BY <1>0, <1>1, Zenon DEF LiveTypeOK
  <2>2. /\ revQueue' \in Seq(Seq(Ids)) /\ Len(revQueue') <= Backlog
        /\ inHand' \in Seq(Ids) /\ revised' \subseteq Ids /\ skipped' \subseteq Ids
        /\ finalUntil' \in -1..(MaxPieces - 1) /\ doc' \in Seq(SUBSET Ids)
        /\ wholeUtterance' \in BOOLEAN /\ stop' \in BOOLEAN /\ revStop' \in BOOLEAN
    BY <1>0, <1>1, Zenon DEF LiveTypeOK
  <2>3. slow' \in {"waiting", "yielding", "revising", "gone"}
    BY <1>1
  <2>. QED BY <2>1, <2>2, <2>3 DEF LiveTypeOK
<1>3. Retreat'
  <2>1. caller # "finished"
    BY <1>0, <1>1 DEF Retreat
  <2>. QED BY <1>0, <1>1, <2>1 DEF Retreat
<1>4. Heard' = Heard
  BY <1>1 DEF Heard
<1>5. InOrder'
  BY <1>0, <1>1, <1>4 DEF InOrder
<1>6. Parted' /\ Marked' /\ InTranscript'
  BY <1>0, <1>1, <1>4, SlowUnchanged
<1>. QED BY <1>2, <1>3, <1>5, <1>6 DEF LiveInv

\* The paragraph in hand is final, and the transcript shows its revision.
LEMMA RevisedStep == LiveInv /\ Revised => LiveInv'
<1> SUFFICES ASSUME LiveInv, Revised PROVE LiveInv'
  OBVIOUS
<1>0. LiveTypeOK /\ Retreat /\ InOrder /\ Parted /\ Marked /\ InTranscript
  BY DEF LiveInv
<1>1. /\ slow = "revising" /\ slow' = "waiting"
      /\ revised' = revised \cup Elems(inHand)
      /\ finalUntil' \in Marks(revised' \cup skipped)
      /\ doc' = Replaced(inHand) /\ inHand' = <<>>
  BY DEF Revised
<1>2. /\ nextPiece' = nextPiece /\ unitFrom' = unitFrom /\ para' = para
      /\ caller' = caller /\ handing' = handing /\ closed' = closed
      /\ commits' = commits /\ pending' = pending /\ draft' = draft
      /\ working' = working /\ fast' = fast /\ translated' = translated
      /\ stop' = stop /\ revStop' = revStop
      /\ revQueue' = revQueue /\ skipped' = skipped
      /\ wholeUtterance' = wholeUtterance
  BY DEF Revised, text, update, queue, translator
<1>3. /\ inHand \in Seq(Ids) /\ Elems(inHand) \subseteq Ids /\ <<>> \in Seq(Ids) /\ Elems(<<>>) = {}
      /\ doc \in Seq(SUBSET Ids) /\ finalUntil \in -1..(MaxPieces - 1)
      /\ revised \subseteq Ids /\ skipped \subseteq Ids
  BY <1>0, EmptySeq, ElemsEmpty, ElemsOf DEF LiveTypeOK
<1>4. finalUntil' \in -1..(MaxPieces - 1) /\ 0..finalUntil' \subseteq revised' \cup skipped
  <2>1. revised \cup skipped \subseteq revised' \cup skipped /\ 0..finalUntil \subseteq revised \cup skipped
    BY <1>0, <1>1 DEF Marked, Final
  <2>2. finalUntil \in -1..(MaxPieces - 1) /\ finalUntil' \in Marks(revised' \cup skipped)
    BY <1>1, <1>3
  <2>. QED BY <2>1, <2>2, MarksFinal
<1>5. Elems(inHand) \cap revised = {}
  BY <1>0 DEF Parted, Final
<1>6. /\ doc' \in Seq(SUBSET Ids)
      /\ Showing(doc') = Showing(doc) \cup Elems(inHand)
      /\ \A i \in 1..Len(doc') :
           doc'[i] \in {{}, Elems(inHand)} \/ \E j \in 1..Len(doc) : doc'[i] = doc[j]
  <2>1. ASSUME NEW i \in 1..Len(doc), doc[i] \cap Elems(inHand) # {}
        PROVE  doc[i] \subseteq Elems(inHand)
    BY <1>0, <1>5, <2>1 DEF InTranscript
  <2>. QED BY <1>1, <1>3, <2>1, EntriesReplaced
<1>7. LiveTypeOK'
  <2>1. revised' \subseteq Ids
    BY <1>1, <1>3
  <2>. QED BY <1>0, <1>1, <1>2, <1>3, <1>4, <1>6, <2>1 DEF LiveTypeOK
<1>8. Retreat'
  <2>1. caller # "finished"
    BY <1>0, <1>1 DEF Retreat
  <2>. QED BY <1>0, <1>1, <1>2, <2>1 DEF Retreat
<1>9. Heard' = Heard /\ Final' = Final \cup Elems(inHand)
  BY <1>1, <1>2 DEF Heard, Final
<1>10. InOrder'
  BY <1>0, <1>2, <1>9 DEF InOrder
<1>11. Parted'
  <2>1. /\ Open = Elems(para) \cup Elems(inHand) \cup Members(revQueue)
        /\ Open' = Elems(para') \cup Elems(inHand') \cup Members(revQueue')
    BY DEF Open, Members
  <2>2. Final' \cup Open' = Final \cup Open
    BY <1>1, <1>2, <1>3, <1>9, <2>1
  <2>3. revised' \cap skipped' = {}
    BY <1>0, <1>1, <1>2 DEF Parted, Final
  <2>. QED BY <1>0, <1>1, <1>2, <1>3, <1>9, <2>2, <2>3 DEF Parted
<1>12. Marked'
  BY <1>2, <1>4 DEF Marked, Final
<1>13. InTranscript'
  <2>1. Shown = Showing(doc) /\ Shown' = Showing(doc')
    BY DEF Shown, Showing
  <2>2. Shown' = Elems(translated') \cup revised'
    BY <1>0, <1>1, <1>2, <1>6, <2>1 DEF InTranscript
  <2>3. ASSUME NEW i \in 1..Len(doc')
        PROVE  doc'[i] \subseteq revised' \/ \E x \in Elems(translated) : doc'[i] = {x}
    BY <1>0, <1>1, <1>6 DEF InTranscript
  <2>. QED BY <1>2, <2>2, <2>3 DEF InTranscript
<1>. QED BY <1>7, <1>8, <1>10, <1>11, <1>12, <1>13 DEF LiveInv

\* When both threads have gone, all that was heard is translated, shown and final.
LEMMA AllGone ==
  ASSUME LiveInv, slow = "gone", caller \in {"joining slow", "finished"}
  PROVE  Heard = translated /\ Elems(Heard) = Final /\ Shown = Elems(Heard)
<1>0. LiveTypeOK /\ Retreat /\ InOrder /\ Parted /\ InTranscript
  BY DEF LiveInv
<1>1. /\ handing = <<>> /\ para = <<>> /\ commits = <<>> /\ working = <<>>
      /\ revQueue = <<>> /\ inHand = <<>>
  BY <1>0 DEF Retreat
<1>2. Heard = translated
  <2>1. <<>> \in Seq(Ids) /\ <<>> \o <<>> = <<>> /\ translated \in Seq(Ids)
    BY <1>0, EmptySeq, ConcatEmptySeq DEF LiveTypeOK
  <2>2. translated \o <<>> = translated
    BY <2>1, ConcatEmptySeq
  <2>. QED BY <1>0, <1>1, <2>1, <2>2 DEF InOrder, Heard
<1>3. Open = {}
  <2>1. Open = Elems(para) \cup Elems(inHand) \cup Members(revQueue)
    BY DEF Open, Members
  <2>. QED BY <1>1, <2>1, ElemsEmpty, QueueEmpty
<1>4. Elems(Heard) = Final
  BY <1>0, <1>3 DEF Parted
<1>5. Shown = Elems(Heard)
  BY <1>0, <1>2, <1>4 DEF InTranscript, Final
<1>. QED BY <1>2, <1>4, <1>5

-----------------------------------------------------------------------------
(* The theorems.                                                            *)

\* Whatever the speaker says and however the three threads interleave, the sentences are
\* where LiveInv has them.
THEOREM LiveInvariance == SafetySpec => []LiveInv
<1>1. LiveInv /\ [Next]_vars => LiveInv'
  <2> SUFFICES ASSUME LiveInv, [Next]_vars PROVE LiveInv'
    OBVIOUS
  <2>1. CASE Update
    BY <2>1, UpdateStep
  <2>2. CASE Finish \/ Caller
    BY <2>2, HandStep, QuietStep DEF Caller
  <2>3. CASE Fast
    BY <2>3, TakeSentenceStep, TranslatedStep, QuietStep DEF Fast
  <2>4. CASE Slow
    BY <2>4, TakeParagraphStep, RevisedStep, QuietSlowStep DEF Slow
  <2>5. CASE UNCHANGED vars
    <3>1. /\ nextPiece' = nextPiece /\ unitFrom' = unitFrom /\ para' = para
          /\ caller' = caller /\ handing' = handing /\ closed' = closed
          /\ commits' = commits /\ pending' = pending /\ draft' = draft
          /\ working' = working /\ fast' = fast /\ translated' = translated
          /\ stop' = stop /\ revStop' = revStop
          /\ revQueue' = revQueue /\ inHand' = inHand /\ slow' = slow
          /\ revised' = revised /\ skipped' = skipped /\ finalUntil' = finalUntil /\ doc' = doc
          /\ wholeUtterance' = wholeUtterance
      BY <2>5 DEF vars, text, update, queue, translator, paras, fate
    <3>2. Heard' = Heard
      BY <3>1 DEF Heard
    <3>3. LiveTypeOK' /\ Retreat' /\ InOrder'
      <4>1. LiveTypeOK'
        <5>1. LiveTypeOK
          BY DEF LiveInv
        <5>2. /\ nextPiece' \in 0..MaxPieces /\ unitFrom' \in 0..nextPiece'
              /\ para' \in Seq(Ids) /\ handing' \in Seq(Ids)
              /\ commits' \in Seq(Ids) /\ pending' \in Seq(Ids)
              /\ working' \in Seq(Ids) /\ translated' \in Seq(Ids)
              /\ caller' \in {"listening", "handing", "joining", "joining slow", "finished"}
              /\ fast' \in {"waiting", "sentence", "draft", "gone"}
          BY <3>1, <5>1 DEF LiveTypeOK
        <5>3. /\ revQueue' \in Seq(Seq(Ids)) /\ Len(revQueue') <= Backlog
              /\ inHand' \in Seq(Ids) /\ slow' \in {"waiting", "yielding", "revising", "gone"}
              /\ revised' \subseteq Ids /\ skipped' \subseteq Ids
              /\ finalUntil' \in -1..(MaxPieces - 1) /\ doc' \in Seq(SUBSET Ids)
          BY <3>1, <5>1 DEF LiveTypeOK
        <5>4. /\ wholeUtterance' \in BOOLEAN /\ closed' \in BOOLEAN /\ draft' \in BOOLEAN
              /\ stop' \in BOOLEAN /\ revStop' \in BOOLEAN
          BY <3>1, <5>1, Zenon DEF LiveTypeOK
        <5>. QED BY <5>2, <5>3, <5>4 DEF LiveTypeOK
      <4>2. Retreat'
        BY <3>1 DEF LiveInv, Retreat
      <4>3. InOrder'
        BY <3>1, <3>2 DEF LiveInv, InOrder
      <4>. QED BY <4>1, <4>2, <4>3
    <3>4. Parted' /\ Marked' /\ InTranscript'
      BY <3>1, <3>2, SlowUnchanged DEF LiveInv
    <3>. QED BY <3>3, <3>4 DEF LiveInv
  <2>. QED BY <2>1, <2>2, <2>3, <2>4, <2>5 DEF Next
<1>. QED BY InitLive, <1>1, PTL DEF SafetySpec

\* The variables of the sink keep their types: the paragraph queue never exceeds its limit,
\* and no sentence has an id the committer has not given.
THEOREM LiveTyping == SafetySpec => []LiveTypeOK
<1>1. LiveInv => LiveTypeOK
  BY DEF LiveInv
<1>. QED BY <1>1, LiveInvariance, PTL

\* The sentence with the translator is the oldest pending one, and translations come out in
\* the order the sentences were spoken.
THEOREM OldestPendingAlways == SafetySpec => []OldestPending
<1>1. LiveInv => OldestPending
  BY DEF LiveInv, InOrder, OldestPending, Heard
<1>. QED BY <1>1, LiveInvariance, PTL

\* A sentence becomes final once, and one that may still change is not behind the marker.
THEOREM FinalOnceAlways == SafetySpec => []FinalOnce
<1>1. LiveInv => FinalOnce
  <2> SUFFICES ASSUME LiveInv PROVE FinalOnce
    OBVIOUS
  <2>0. LiveTypeOK /\ Parted /\ Marked
    BY DEF LiveInv
  <2>1. Open = Elems(para) \cup Elems(inHand) \cup Members(revQueue)
    BY DEF Open, Members
  <2>2. Open \cap Final = {}
    BY <2>0, <2>1 DEF Parted
  <2>3. Open \subseteq Nat
    <3>1. /\ Heard \in Seq(Ids) /\ Open \subseteq Elems(Heard)
      BY <2>0, ElemsConcat DEF Heard, Parted, LiveTypeOK
    <3>2. Elems(Heard) \subseteq Ids
      BY <3>1, ElemsOf
    <3>. QED BY <3>1, <3>2 DEF Ids
  <2>4. ASSUME NEW i \in Open PROVE i > finalUntil
    <3>1. i \in Nat /\ i \notin Final /\ finalUntil \in Int
      <4>1. finalUntil \in -1..(MaxPieces - 1)
        BY <2>0 DEF LiveTypeOK
      <4>. QED BY <2>2, <2>3, <4>1, LiveAssumption
    <3>2. i \notin 0..finalUntil
      BY <2>0, <3>1 DEF Marked
    <3>. QED BY <3>1, <3>2
  <2>. QED BY <2>0, <2>2, <2>4 DEF FinalOnce, Parted, Final
<1>. QED BY <1>1, LiveInvariance, PTL

\* When finish has returned, every sentence has been translated, is in the transcript, and
\* has been revised or reported as skipped.
THEOREM NothingLostAlways == SafetySpec => []NothingLost
<1>1. LiveInv => NothingLost
  <2> SUFFICES ASSUME LiveInv, caller = "finished"
               PROVE  /\ nextPiece > 0 => 0 \in Elems(translated)
                      /\ Elems(translated) = revised \cup skipped
                      /\ Shown = Elems(translated)
    BY DEF NothingLost
  <2>0. LiveTypeOK /\ Retreat /\ InOrder /\ Parted /\ InTranscript
    BY DEF LiveInv
  <2>1. slow = "gone" /\ unitFrom = nextPiece
    BY <2>0 DEF Retreat
  <2>2. Heard = translated /\ Elems(Heard) = Final /\ Shown = Elems(Heard)
    BY <2>1, AllGone
  <2>. QED BY <2>0, <2>1, <2>2 DEF InOrder, Final
<1>. QED BY <1>1, LiveInvariance, PTL

\* What has been reported as final stays so.
MarkerForward == [][finalUntil <= finalUntil']_finalUntil
LEMMA MarkerStep == LiveInv /\ [Next]_vars => [finalUntil <= finalUntil']_finalUntil
<1> SUFFICES ASSUME LiveInv, [Next]_vars, finalUntil' # finalUntil PROVE finalUntil <= finalUntil'
  OBVIOUS
<1>0. LiveTypeOK /\ Parted /\ Marked
  BY DEF LiveInv
<1>1. finalUntil \in -1..(MaxPieces - 1) /\ 0..finalUntil \subseteq revised \cup skipped
  BY <1>0 DEF LiveTypeOK, Marked, Final
<1>2. \E F : revised \cup skipped \subseteq F /\ finalUntil' \in Marks(F)
  <2>1. CASE Update
    <3>1. PICK p : UNCHANGED fate \/ Queue(p)
      BY <1>0, <2>1, UpdateCollects
    <3>2. UNCHANGED fate => finalUntil' = finalUntil
      BY DEF fate
    <3>3. Queue(p)
      BY <3>1, <3>2
    <3>4. finalUntil' \in Marks(revised \cup skipped') /\ skipped \subseteq skipped'
      BY <3>2, <3>3 DEF Queue
    <3>. QED BY <3>4
  <2>2. CASE Revised
    BY <2>2 DEF Revised
  <2>3. CASE ~Update /\ ~Revised
    BY <2>3 DEF Next, Finish, Caller, Hand, JoinFast, JoinSlow, Fast, TakeSentence, TakeDraft, LeaveFast,
                Translated, Drafted, Slow, TakeParagraph, LeaveSlow, StartRevision, StopYielding, vars, fate
  <2>. QED BY <2>1, <2>2, <2>3
<1>. QED BY <1>1, <1>2, MarksFinal

\* The marker that the sink reports as `final_until_sentence` never goes back.
THEOREM MarkerForwardAlways == SafetySpec => MarkerForward
BY MarkerStep, LiveInvariance, PTL DEF SafetySpec, MarkerForward

-----------------------------------------------------------------------------
(* What stands in the transcript twice.                                     *)

\* The parts of a sequence in order are in order, and share nothing.
LEMMA AscendingParts ==
  ASSUME NEW s \in Seq(Ids), NEW t \in Seq(Ids), Ascending(s \o t)
  PROVE  Ascending(s) /\ Elems(s) \cap Elems(t) = {}
<1>1. /\ Len(s \o t) = Len(s) + Len(t)
      /\ \A i \in 1..(Len(s) + Len(t)) : (s \o t)[i] = IF i <= Len(s) THEN s[i] ELSE t[i - Len(s)]
  BY ConcatProperties
<1>2. Len(s) \in Nat /\ Len(t) \in Nat
  BY LenProperties
<1>3. ASSUME NEW i \in 1..Len(s)
      PROVE  i \in 1..Len(s \o t) /\ (s \o t)[i] = s[i] /\ s[i] \in Int
  <2>1. s[i] \in Ids
    BY ElementOfSeq
  <2>2. s[i] \in Int
    BY <2>1 DEF Ids
  <2>. QED BY <1>1, <1>2, <2>2
<1>4. ASSUME NEW i \in 1..Len(t)
      PROVE  i + Len(s) \in 1..Len(s \o t) /\ (s \o t)[i + Len(s)] = t[i]
  BY <1>1, <1>2
<1>5. Ascending(s)
  BY <1>3 DEF Ascending
<1>6. ASSUME NEW i \in 1..Len(s), NEW j \in 1..Len(t)
      PROVE  s[i] # t[j]
  <2>1. i < j + Len(s)
    BY <1>2
  <2>2. (s \o t)[i] < (s \o t)[j + Len(s)]
    BY <1>3, <1>4, <2>1 DEF Ascending
  <2>. QED BY <1>3, <1>4, <2>2
<1>7. Elems(s) \cap Elems(t) = {}
  BY <1>6 DEF Elems
<1>. QED BY <1>5, <1>7

\* A revision that covers entries takes the place of the first one, and the others go: what it
\* shows is then in no other entry.
LEMMA RevisedOnce ==
  ASSUME doc \in Seq(SUBSET Ids), NEW p, Elems(p) \subseteq Ids, doc' = Replaced(p), NEW s, Twice(s)'
  PROVE  Twice(s)
<1> DEFINE Covered == {i \in 1..Len(doc) : doc[i] \cap Elems(p) # {}}
           first(i) == \A j \in Covered : i <= j
           new == [i \in 1..Len(doc) |->
                     IF i \notin Covered THEN doc[i] ELSE IF first(i) THEN Elems(p) ELSE {}]
<1>1. PICK i \in 1..Len(doc'), j \in 1..Len(doc') : i # j /\ s \in doc'[i] /\ s \in doc'[j]
  BY DEF Twice
<1>2. Len(doc) \in Nat
  BY LenProperties
<1>3. CASE Covered = {}
  <2>1. /\ doc' = Append(doc, Elems(p)) /\ Len(doc') = Len(doc) + 1
        /\ doc'[Len(doc) + 1] = Elems(p) /\ \A k \in 1..Len(doc) : doc'[k] = doc[k]
    BY <1>3, AppendProperties DEF Replaced
  <2>2. \A k \in 1..Len(doc) : doc'[k] \cap Elems(p) = {}
    BY <1>3, <2>1
  <2>3. i \in 1..Len(doc) /\ j \in 1..Len(doc)
    BY <1>1, <1>2, <2>1, <2>2
  <2>. QED BY <1>1, <2>1, <2>3 DEF Twice
<1>4. CASE Covered # {}
  <2>1. doc' = new
    BY <1>4 DEF Replaced
  <2>2. \A k \in 1..Len(doc) : doc[k] \in SUBSET Ids
    BY ElementOfSeq
  <2>3. new \in Seq(SUBSET Ids) /\ Len(new) = Len(doc)
    <3>1. \A k \in 1..Len(doc) : new[k] \in SUBSET Ids
      BY <2>2
    <3>. QED BY <1>2, <3>1, IsASeq
  <2>4. i \in 1..Len(doc) /\ j \in 1..Len(doc)
    BY <1>1, <2>1, <2>3
  <2>5. ASSUME NEW k \in 1..Len(doc), s \in new[k]
        PROVE  IF s \in Elems(p) THEN k \in Covered /\ first(k) ELSE s \in doc[k]
    BY <2>5
  <2>6. s \in new[i] /\ s \in new[j]
    BY <1>1, <2>1
  <2>7. s \notin Elems(p)
    <3>1. ASSUME s \in Elems(p) PROVE FALSE
      <4>1. i \in Covered /\ first(i) /\ j \in Covered /\ first(j)
        BY <2>4, <2>5, <2>6, <3>1
      <4>2. i <= j /\ j <= i
        BY <4>1
      <4>. QED BY <1>1, <1>2, <2>4, <4>2
    <3>. QED BY <3>1
  <2>8. s \in doc[i] /\ s \in doc[j]
    BY <2>4, <2>5, <2>6, <2>7
  <2>. QED BY <1>1, <2>4, <2>8 DEF Twice
<1>. QED BY <1>3, <1>4

\* A translation is not in the transcript already, but in a revision.
LEMMA TranslatedTwice ==
  ASSUME LiveInv, Translated, NEW s, ~Twice(s), Twice(s)'
  PROVE  s \in revised /\ working = <<s>>
<1>0. doc \in Seq(SUBSET Ids) /\ translated \in Seq(Ids) /\ InTranscript /\ Ascending(Heard)
  BY DEF LiveInv, LiveTypeOK, InOrder
<1>1. PICK w \in Ids : working = <<w>> /\ Elems(working) = {w}
  BY OldestTranslated
<1>2. /\ Len(doc) \in Nat /\ Len(doc') = Len(doc) + 1
      /\ doc'[Len(doc) + 1] = {w} /\ \A k \in 1..Len(doc) : doc'[k] = doc[k]
  <2>1. doc' = Append(doc, {w}) /\ {w} \in SUBSET Ids
    BY <1>1 DEF Translated
  <2>. QED BY <1>0, <2>1, AppendProperties, LenProperties
<1>3. PICK i \in 1..Len(doc'), j \in 1..Len(doc') : i # j /\ s \in doc'[i] /\ s \in doc'[j]
  BY DEF Twice
<1>4. ~(i \in 1..Len(doc) /\ j \in 1..Len(doc))
  BY <1>2, <1>3 DEF Twice
<1>5. s = w /\ \E k \in 1..Len(doc) : w \in doc[k]
  BY <1>2, <1>3, <1>4
<1>6. w \notin Elems(translated)
  <2>1. /\ pending \in Seq(Ids) /\ handing \in Seq(Ids) /\ commits \in Seq(Ids) /\ working \in Seq(Ids)
        /\ pending = working \o commits
    BY DEF LiveInv, LiveTypeOK, InOrder
  <2>2. translated \o pending \in Seq(Ids) /\ Elems(working \o commits) = Elems(working) \cup Elems(commits)
    BY <1>0, <2>1, ElemsConcat
  <2>3. Ascending(translated \o pending)
    BY <1>0, <2>1, <2>2, AscendingParts DEF Heard
  <2>4. Elems(translated) \cap Elems(pending) = {}
    BY <1>0, <2>1, <2>3, AscendingParts
  <2>. QED BY <1>1, <2>1, <2>2, <2>4
<1>7. w \in revised
  BY <1>0, <1>5, <1>6 DEF InTranscript
<1>. QED BY <1>1, <1>5, <1>7

LEMMA TwiceStep ==
  LiveInv /\ [Next]_vars =>
    [\A s \in Ids : ~Twice(s) /\ Twice(s)' => s \in revised /\ working = <<s>>]_vars
<1> SUFFICES ASSUME LiveInv, [Next]_vars, NEW s \in Ids, ~Twice(s), Twice(s)'
             PROVE  s \in revised /\ working = <<s>>
  OBVIOUS
<1>1. CASE Translated
  BY <1>1, TranslatedTwice
<1>2. CASE Revised
  <2>1. doc \in Seq(SUBSET Ids) /\ inHand \in Seq(Ids) /\ doc' = Replaced(inHand)
    BY <1>2 DEF LiveInv, LiveTypeOK, Revised
  <2>2. Elems(inHand) \subseteq Ids
    BY <2>1, ElemsOf
  <2>. QED BY <2>1, <2>2, RevisedOnce
<1>3. CASE ~Translated /\ ~Revised
  <2>1. doc' = doc
    BY <1>3 DEF Next, Update, Collect, Finish, Caller, Hand, JoinFast, JoinSlow, Fast, TakeSentence, TakeDraft,
                LeaveFast, Drafted, Slow, TakeParagraph, LeaveSlow, StartRevision, StopYielding, vars
  <2>. QED BY <2>1 DEF Twice
<1>. QED BY <1>1, <1>2, <1>3

\* run_reviser and execute: a revision leaves no entry beside it that shows the same, and a
\* sentence comes to stand twice only by a translation that comes back behind its revision.
THEOREM TwiceOnlyWhenLateAlways == SafetySpec => TwiceOnlyWhenLate
BY TwiceStep, LiveInvariance, PTL DEF SafetySpec, TwiceOnlyWhenLate

-----------------------------------------------------------------------------
(* The refinement.                                                          *)

LEMMA InitReads == Init => Reading!Init
<1> SUFFICES ASSUME Init PROVE Reading!Init
  OBVIOUS
<1>1. /\ translated = <<>> /\ pending = <<>> /\ handing = <<>> /\ doc = <<>> /\ caller = "listening"
      /\ revised = {} /\ skipped = {} /\ finalUntil = -1
  BY DEF Init
<1>2. Heard = <<>>
  <2>1. <<>> \in Seq(Ids) /\ <<>> \o <<>> = <<>>
    BY EmptySeq, ConcatEmptySeq
  <2>. QED BY <1>1, <2>1 DEF Heard
<1>3. Shown = {}
  <2>1. Len(<<>>) = 0
    OBVIOUS
  <2>. QED BY <1>1, <2>1 DEF Shown
<1>. QED BY <1>1, <1>2, <1>3 DEF Reading!Init

\* What the marker does at a step that leaves it where it is or after Marks.
LEMMA Reports ==
  ASSUME LiveInv, LiveInv', [Next]_vars
  PROVE  Reading!Report
<1>1. finalUntil <= finalUntil'
  <2>1. finalUntil \in -1..(MaxPieces - 1) /\ MaxPieces \in Nat
    BY LiveAssumption DEF LiveInv, LiveTypeOK
  <2>. QED BY <2>1, MarkerStep
<1>2. 0..finalUntil' \subseteq revised' \cup skipped'
  BY DEF LiveInv, Marked, Final
<1>. QED BY <1>1, <1>2 DEF Reading!Report, Reading!Final

\* Whoever waits in the slow pass has been heard.
LEMMA QueueHeard ==
  ASSUME LiveInv
  PROVE  /\ Elems(inHand) \subseteq Elems(Heard) \ (revised \cup skipped)
         /\ revQueue # <<>> => Elems(Head(revQueue)) \subseteq Elems(Heard) \ (revised \cup skipped)
         /\ skipped \subseteq Elems(Heard) \ revised
         /\ revised \subseteq Elems(Heard) \ skipped
<1>1. Parted /\ revQueue \in Seq(Seq(Ids))
  BY DEF LiveInv, LiveTypeOK
<1>2. Elems(Heard) = Final \cup Elems(para) \cup Elems(inHand) \cup Members(revQueue)
  BY <1>1 DEF Parted, Open, Members
<1>3. revQueue # <<>> => Elems(Head(revQueue)) \subseteq Members(revQueue)
  <2> SUFFICES ASSUME revQueue # <<>> PROVE Elems(Head(revQueue)) \subseteq Members(revQueue)
    OBVIOUS
  <2>1. Members(revQueue) = Elems(Head(revQueue)) \cup Members(Tail(revQueue))
    BY <1>1, LeaveQueue
  <2>. QED BY <2>1
<1>. QED BY <1>1, <1>2, <1>3 DEF Parted, Final

\* Sentences are spoken when the caller has collected them, and given up when the backlog
\* drops their paragraph: the sentences collected are none of these yet.
LEMMA UpdateSpeaks ==
  ASSUME LiveInv, LiveInv', Update
  PROVE  Reading!Speak
<1>1. PICK s \in Seq(Ids) :
        /\ caller = "listening" /\ caller' = "handing"
        /\ handing' = s
        /\ UNCHANGED <<revQueue, fate>> \/ Queue(para \o s)
        /\ UNCHANGED <<wholeUtterance, queue, translator, stop, revStop, inHand, slow, doc>>
  BY UpdateCollects DEF LiveInv
<1>2. handing = <<>> /\ translated' = translated /\ pending' = pending /\ doc' = doc
  BY <1>1 DEF LiveInv, Retreat, queue, translator
<1>3. translated \in Seq(Ids) /\ pending \in Seq(Ids)
  BY DEF LiveInv, LiveTypeOK
<1> DEFINE H == translated \o pending
<1>4. H \in Seq(Ids) /\ Heard = H /\ Heard' = H \o s
  <2>1. H \in Seq(Ids)
    BY <1>3, ElemsConcat
  <2>2. H \o <<>> = H
    BY <2>1, ConcatEmptySeq
  <2>. QED BY <1>1, <1>2, <2>1, <2>2 DEF Heard
<1> HIDE DEF H
<1>5. Len(Heard) <= Len(Heard') /\ \A i \in 1..Len(Heard) : Heard'[i] = Heard[i]
  <2>1. /\ Len(H \o s) = Len(H) + Len(s)
        /\ \A i \in 1..(Len(H) + Len(s)) : (H \o s)[i] = IF i <= Len(H) THEN H[i] ELSE s[i - Len(H)]
    BY <1>4, ConcatProperties
  <2>2. Len(H) \in Nat /\ Len(s) \in Nat
    BY <1>4, LenProperties
  <2>3. Len(H) <= Len(H) + Len(s) /\ \A i \in 1..Len(H) : i \in 1..(Len(H) + Len(s)) /\ i <= Len(H)
    BY <2>2
  <2>. QED BY <1>4, <2>1, <2>3
<1>6. \A i, j \in 1..Len(Heard') : i < j => Heard'[i] < Heard'[j]
  BY DEF LiveInv, InOrder, Ascending
<1>7. revised' = revised /\ skipped \subseteq skipped' /\ skipped' \subseteq Elems(Heard) \ revised
  <2>1. CASE UNCHANGED fate
    BY <2>1, QueueHeard DEF fate
  <2>2. CASE Queue(para \o s) /\ ~ UNCHANGED fate
    <3>1. revised' = revised /\ skipped' = skipped \cup Elems(Head(revQueue)) /\ ~(Len(revQueue) < Backlog)
      BY <2>2 DEF Queue
    <3>2. revQueue # <<>>
      <4>1. revQueue \in Seq(Seq(Ids))
        BY DEF LiveInv, LiveTypeOK
      <4>2. Backlog \in Nat /\ Backlog # 0
        BY LiveAssumption
      <4>3. Len(revQueue) # 0
        BY <3>1, <4>2
      <4>. QED BY <4>1, <4>3, EmptySeq
    <3>. QED BY <3>1, <3>2, QueueHeard
  <2>. QED BY <1>1, <2>1, <2>2
<1>8. Shown' = Shown
  BY <1>2 DEF Shown
<1>9. Reading!Report
  BY Reports DEF Next
<1>10. Elems(Heard) = Reading!Elems(Heard)
  BY DEF Elems, Reading!Elems
<1>11. (caller = "finished") = FALSE /\ (caller' = "finished") = FALSE
  BY <1>1
<1>. QED BY <1>2, <1>5, <1>6, <1>7, <1>8, <1>9, <1>10, <1>11 DEF Reading!Speak

\* The oldest pending sentence is the first not yet translated.
LEMMA TranslatedTranslates ==
  ASSUME LiveInv, LiveInv', Translated
  PROVE  Reading!Translate
<1>1. PICK w \in Ids : working = <<w>> /\ Elems(working) = {w} /\ pending' = commits /\ Heard' = Heard
  BY OldestTranslated
<1>2. /\ translated \in Seq(Ids) /\ pending \in Seq(Ids) /\ handing \in Seq(Ids) /\ commits \in Seq(Ids)
      /\ translated' = translated \o <<w>> /\ pending = <<w>> \o commits
  BY <1>1 DEF LiveInv, LiveTypeOK, InOrder, Translated
<1>3. fast = "sentence" /\ caller' = caller /\ revised' = revised /\ skipped' = skipped /\ finalUntil' = finalUntil
  BY DEF Translated, update, fate
<1>4. caller # "finished"
  BY <1>3 DEF LiveInv, Retreat
<1> DEFINE n == Len(translated)
<1>5. n \in Nat /\ Len(commits) \in Nat /\ Len(handing) \in Nat
  BY <1>2, LenProperties
<1>6. <<w>> \in Seq(Ids) /\ Len(<<w>>) = 1 /\ <<w>>[1] = w
  OBVIOUS
<1>7. Len(pending) = 1 + Len(commits) /\ pending[1] = w
  <2>1. /\ Len(<<w>> \o commits) = Len(<<w>>) + Len(commits)
        /\ \A i \in 1..(Len(<<w>>) + Len(commits)) :
             (<<w>> \o commits)[i] = IF i <= Len(<<w>>) THEN <<w>>[i] ELSE commits[i - Len(<<w>>)]
    BY <1>2, <1>6, ConcatProperties
  <2>2. 1 \in 1..(1 + Len(commits))
    BY <1>5
  <2>. QED BY <1>2, <1>6, <2>1, <2>2
<1>8. n < Len(Heard) /\ Heard[n + 1] = w
  <2> DEFINE H == translated \o pending
  <2>1. /\ H \in Seq(Ids) /\ Len(H) = n + Len(pending)
        /\ \A i \in 1..(n + Len(pending)) : H[i] = IF i <= n THEN translated[i] ELSE pending[i - n]
    BY <1>2, ConcatProperties
  <2>2. n + 1 \in 1..(n + Len(pending)) /\ ~(n + 1 <= n) /\ n + 1 - n = 1
    BY <1>5, <1>7
  <2>3. H[n + 1] = w
    BY <1>7, <2>1, <2>2
  <2>4. Heard = H \o handing
    BY DEF Heard
  <2>5. Len(H) = n + 1 + Len(commits)
    BY <1>5, <1>7, <2>1
  <2>. HIDE DEF H, n
  <2>6. /\ Len(H \o handing) = Len(H) + Len(handing)
        /\ \A i \in 1..(Len(H) + Len(handing)) : (H \o handing)[i] = IF i <= Len(H) THEN H[i] ELSE handing[i - Len(H)]
    BY <1>2, <2>1, ConcatProperties
  <2>7. n + 1 \in 1..(Len(H) + Len(handing)) /\ n + 1 <= Len(H) /\ n < Len(H) + Len(handing)
    BY <1>5, <2>5
  <2>. QED BY <2>3, <2>4, <2>6, <2>7
<1>9. translated' = Append(translated, w)
  <2>1. Append(translated, w) = translated \o <<w>>
    BY <1>1, <1>2, AppendIsConcat
  <2>. QED BY <1>2, <2>1
<1>10. Shown' = Shown \cup {w}
  <2>1. Shown = Elems(translated) \cup revised /\ Shown' = Elems(translated') \cup revised'
    BY DEF LiveInv, InTranscript
  <2>2. Elems(translated') = Elems(translated) \cup {w}
    <3>1. translated \in Seq(Ids) /\ <<w>> \in Seq(Ids) /\ Elems(<<w>>) = {w}
      BY <1>2, <1>6, ElemsOne
    <3>. DEFINE one == <<w>>
    <3>2. one \in Seq(Ids) /\ Elems(one) = {w} /\ translated' = translated \o one
      BY <1>2, <3>1
    <3>. HIDE DEF one
    <3>3. Elems(translated \o one) = Elems(translated) \cup Elems(one)
      BY <3>1, <3>2, ElemsConcat
    <3>. QED BY <3>2, <3>3
  <2>. QED BY <1>3, <2>1, <2>2
<1>11. (caller = "finished") = FALSE /\ (caller' = "finished") = FALSE
  BY <1>3, <1>4
<1>. HIDE DEF n
<1>. QED BY <1>1, <1>3, <1>8, <1>9, <1>10, <1>11 DEF Reading!Translate, n

\* The paragraph in the reviser's hands becomes final.
LEMMA RevisedRevises ==
  ASSUME LiveInv, LiveInv', Revised
  PROVE  Reading!Revise
<1>1. /\ slow = "revising" /\ caller' = caller /\ revised' = revised \cup Elems(inHand) /\ skipped' = skipped
      /\ translated' = translated /\ pending' = pending /\ handing' = handing
  BY DEF Revised, update, queue, translator
<1>2. Heard' = Heard
  BY <1>1 DEF Heard
<1>3. caller # "finished"
  BY <1>1 DEF LiveInv, Retreat
<1>4. Shown = Elems(translated) \cup revised /\ Shown' = Elems(translated') \cup revised'
  BY DEF LiveInv, InTranscript
<1>5. Shown' = Shown \cup (revised' \ revised)
  BY <1>1, <1>4
<1>6. revised \subseteq revised' /\ revised' \subseteq Elems(Heard) \ skipped
  BY <1>1, QueueHeard
<1>7. Reading!Report
  BY Reports DEF Next, Slow
<1>8. Elems(Heard) = Reading!Elems(Heard)
  BY DEF Elems, Reading!Elems
<1>9. (caller = "finished") = FALSE /\ (caller' = "finished") = FALSE
  BY <1>1, <1>3
<1>. QED BY <1>1, <1>2, <1>5, <1>6, <1>7, <1>8, <1>9 DEF Reading!Revise

\* The last of the joins ends it.
LEMMA JoinSlowEnds ==
  ASSUME LiveInv, JoinSlow
  PROVE  Reading!End
<1>1. /\ caller = "joining slow" /\ caller' = "finished" /\ slow = "gone"
      /\ translated' = translated /\ pending' = pending /\ handing' = handing /\ doc' = doc
      /\ revised' = revised /\ skipped' = skipped /\ finalUntil' = finalUntil
  BY DEF JoinSlow, queue, translator, fate
<1>2. Heard = translated /\ Elems(Heard) = Final /\ Shown = Elems(Heard)
  BY <1>1, AllGone
<1>3. Heard' = Heard /\ Shown' = Shown
  BY <1>1 DEF Heard, Shown
<1>4. Elems(Heard) = Reading!Elems(Heard) /\ Final = Reading!Final
  BY DEF Elems, Reading!Elems, Final, Reading!Final
<1>. QED BY <1>1, <1>2, <1>3, <1>4 DEF Reading!End

\* All else is behind the scenes.
LEMMA OthersUnseen ==
  ASSUME LiveInv, [Next]_vars, ~Update, ~Translated, ~Revised, ~JoinSlow
  PROVE  UNCHANGED Reading!vars
<1>1. Hand \/ UNCHANGED <<translated, pending, handing>>
  BY DEF Next, Finish, Caller, JoinFast, Fast, TakeSentence, TakeDraft, LeaveFast, Drafted,
         Slow, TakeParagraph, LeaveSlow, StartRevision, StopYielding, vars, update, queue, translator
<1>2. Heard' = Heard /\ translated' = translated
  <2>1. CASE Hand
    BY <2>1, HandHeard DEF Hand, translator
  <2>2. CASE UNCHANGED <<translated, pending, handing>>
    BY <2>2 DEF Heard
  <2>. QED BY <1>1, <2>1, <2>2
<1>3. revised' = revised /\ skipped' = skipped /\ finalUntil' = finalUntil /\ doc' = doc
  BY DEF Next, Finish, Caller, Hand, JoinFast, Fast, TakeSentence, TakeDraft, LeaveFast, Drafted,
         Slow, TakeParagraph, LeaveSlow, StartRevision, StopYielding, vars, fate
<1>4. (caller' = "finished") = (caller = "finished")
  <2>1. caller' = caller \/ (caller # "finished" /\ caller' # "finished")
    BY DEF Next, Finish, Caller, Hand, JoinFast, Fast, TakeSentence, TakeDraft, LeaveFast, Drafted,
           Slow, TakeParagraph, LeaveSlow, StartRevision, StopYielding, vars, update
  <2>. QED BY <2>1
<1>5. Shown' = Shown
  BY <1>3 DEF Shown
<1>. QED BY <1>2, <1>3, <1>4, <1>5 DEF Reading!vars

\* The sink of the live translation: its two passes, three threads and their queues implement
\* what Subtitles promises the reader.
THEOREM LiveImplementsSubtitles == SafetySpec => ImplementsSubtitles
<1>1. LiveInv /\ LiveInv' /\ [Next]_vars => [Reading!Next]_(Reading!vars)
  <2> SUFFICES ASSUME LiveInv, LiveInv', [Next]_vars PROVE [Reading!Next]_(Reading!vars)
    OBVIOUS
  <2>1. CASE Update
    BY <2>1, UpdateSpeaks DEF Reading!Next
  <2>2. CASE Translated
    BY <2>2, TranslatedTranslates DEF Reading!Next
  <2>3. CASE Revised
    BY <2>3, RevisedRevises DEF Reading!Next
  <2>4. CASE JoinSlow
    BY <2>4, JoinSlowEnds DEF Reading!Next
  <2>5. CASE ~Update /\ ~Translated /\ ~Revised /\ ~JoinSlow
    BY <2>5, OthersUnseen
  <2>. QED BY <2>1, <2>2, <2>3, <2>4, <2>5
<1>. QED BY InitReads, <1>1, LiveInvariance, PTL DEF SafetySpec, ImplementsSubtitles, Reading!Spec

=============================================================================
