--------------------------- MODULE ModelCacheProofs ---------------------------
(***************************************************************************)
(* What ModelCache guarantees for any number of processes, urls,           *)
(* directories and fetchers: no part of a download is ever found by a      *)
(* search, and no download brings another one's bytes into the cache.      *)
(***************************************************************************)
EXTENDS ModelCache, TLAPS

-----------------------------------------------------------------------------
(* The inductive invariant.                                                 *)

\* A process searches the directories there are, and runs the fetchers there are.
InRange ==
  \A p \in Processes :
    /\ pc[p] \in {"probe", "check", "hit"} => at[p] \in 1..Dirs
    /\ pc[p] \in {"fetch", "receive"} => at[p] \in 1..Fetchers

\* What is about to be renamed is the whole download.
Whole == \A p \in Processes : pc[p] = "fetched" => temp[p] = url[p]

CacheInv == CacheTypeOK /\ InRange /\ Whole /\ NeverCut

-----------------------------------------------------------------------------
LEMMA InitInv == Init => CacheInv
<1> SUFFICES ASSUME Init PROVE CacheInv
  OBVIOUS
<1> USE CacheAssumption DEF Init
<1>1. (CHOOSE u \in Urls : TRUE) \in Urls
  OBVIOUS
<1>2. CacheTypeOK
  BY <1>1 DEF CacheTypeOK, Contents, Point
<1>3. InRange /\ Whole /\ NeverCut
  BY DEF InRange, Whole, NeverCut
<1>. QED BY <1>2, <1>3 DEF CacheInv

\* NextDir goes on to the next directory, or to the first fetcher.
LEMMA NextDirStep ==
  ASSUME CacheTypeOK, NEW p \in Processes, NEW from, NextDir(p, from)
  PROVE  /\ UNCHANGED <<file, src, temp, url>>
         /\ pc[p] = from
         /\ \/ /\ at[p] < Dirs
               /\ pc' = [pc EXCEPT ![p] = "probe"] /\ at' = [at EXCEPT ![p] = at[p] + 1]
            \/ /\ pc' = [pc EXCEPT ![p] = "fetch"] /\ at' = [at EXCEPT ![p] = 1]
<1>1. CASE at[p] < Dirs
  BY <1>1 DEF NextDir, Go
<1>2. CASE ~(at[p] < Dirs)
  BY <1>2 DEF NextDir, Go
<1>. QED BY <1>1, <1>2

\* What FileStep needs of it.
LEMMA NextDirFiles ==
  ASSUME CacheInv, NEW p \in Processes, NEW from \in {"probe", "check"}, NextDir(p, from)
  PROVE  Whole' /\ NeverCut'
<1> USE CacheAssumption DEF CacheInv
<1>1. UNCHANGED <<file, src, temp, url>>
  BY NextDirStep
<1>2. PICK x \in {"probe", "fetch"}, y \in {1, at[p] + 1} :
        pc' = [pc EXCEPT ![p] = x] /\ at' = [at EXCEPT ![p] = y]
  <2>1. CASE pc' = [pc EXCEPT ![p] = "probe"] /\ at' = [at EXCEPT ![p] = at[p] + 1]
    BY <2>1
  <2>2. CASE pc' = [pc EXCEPT ![p] = "fetch"] /\ at' = [at EXCEPT ![p] = 1]
    BY <2>2
  <2>. QED BY <2>1, <2>2, NextDirStep
<1>3. pc \in [Processes -> Point]
  BY DEF CacheTypeOK
<1>4. \A q \in Processes : pc'[q] = "fetched" => pc[q] = "fetched"
  BY <1>2, <1>3
<1>. QED BY <1>1, <1>4 DEF Whole, NeverCut

\* ... and keeps the types.
LEMMA NextDirTypes ==
  ASSUME CacheInv, NEW p \in Processes, NEW from \in {"probe", "check"}, NextDir(p, from)
  PROVE  CacheTypeOK' /\ InRange'
<1> USE CacheAssumption DEF CacheInv, InRange, Point
<1> DEFINE Most == 1..(IF Dirs < Fetchers THEN Fetchers ELSE Dirs)
<1>1. CacheTypeOK
  OBVIOUS
<1>2. /\ pc \in [Processes -> Point] /\ at \in [Processes -> Most]
      /\ 1..Dirs \subseteq Most /\ 1 \in Most /\ 1 \in 1..Fetchers
      /\ pc[p] = from => at[p] \in 1..Dirs
  BY <1>1 DEF CacheTypeOK
<1>3. UNCHANGED <<file, src, temp, url>>
  BY <1>1, NextDirStep
<1>4. CASE /\ pc[p] = from /\ at[p] < Dirs
           /\ pc' = [pc EXCEPT ![p] = "probe"] /\ at' = [at EXCEPT ![p] = at[p] + 1]
  <2>1. at[p] + 1 \in 1..Dirs
    BY <1>2, <1>4
  <2>2. at' \in [Processes -> Most] /\ pc' \in [Processes -> Point]
    BY <1>2, <1>4, <2>1
  <2>3. InRange'
    BY <1>2, <1>4, <2>1
  <2>. QED BY <1>1, <1>3, <2>2, <2>3 DEF CacheTypeOK
<1>5. CASE pc' = [pc EXCEPT ![p] = "fetch"] /\ at' = [at EXCEPT ![p] = 1]
  <2>2. at' \in [Processes -> Most] /\ pc' \in [Processes -> Point]
    BY <1>2, <1>5
  <2>3. InRange'
    BY <1>2, <1>5
  <2>. QED BY <1>1, <1>3, <2>2, <2>3 DEF CacheTypeOK
<1>. QED BY <1>1, <1>4, <1>5, NextDirStep

LEMMA TypeStep == CacheInv /\ [Next]_vars => CacheTypeOK' /\ InRange'
<1> SUFFICES ASSUME CacheInv, [Next]_vars
             PROVE  CacheTypeOK' /\ InRange'
  OBVIOUS
<1> USE CacheAssumption DEF CacheInv, CacheTypeOK, InRange, Go, Contents, Point, own
<1>1. CASE UNCHANGED vars
  BY <1>1 DEF vars
<1>2. CASE Next
  <2> PICK p \in Processes : Ask(p) \/ Step(p) \/ Receive(p) \/ Crash(p)
    BY <1>2 DEF Next
  <2>1. CASE Ask(p)
    BY <2>1 DEF Ask
  <2>2. CASE ProbeNone(p)
    <3>1. NextDir(p, "probe")
      BY <2>2 DEF ProbeNone
    <3>. QED BY <3>1, NextDirTypes
  <2>3. CASE Probe(p)
    BY <2>3 DEF Probe
  <2>4. CASE Hit(p)
    BY <2>4 DEF Hit
  <2>5. CASE OtherSource(p)
    <3>1. NextDir(p, "check")
      BY <2>5 DEF OtherSource
    <3>. QED BY <3>1, NextDirTypes
  <2>6. CASE Return(p)
    BY <2>6 DEF Return
  <2>7. CASE Begin(p)
    BY <2>7 DEF Begin, TempFile
  <2>8. CASE Receive(p)
    BY <2>8 DEF Receive, TempFile
  <2>9. CASE Complete(p)
    BY <2>9 DEF Complete, TempFile
  <2>10. CASE Break(p)
    BY <2>10 DEF Break
  <2>11. CASE BreakLast(p) \/ RenameFails(p)
    <3>1. CASE BreakLast(p)
      BY <3>1 DEF BreakLast, GiveUp, TempFile
    <3>2. CASE RenameFails(p)
      BY <3>2 DEF RenameFails, GiveUp, TempFile
    <3>. QED BY <2>11, <3>1, <3>2
  <2>12. CASE Publish(p)
    BY <2>12 DEF Publish, TempFile
  <2>13. CASE Record(p)
    BY <2>13 DEF Record
  <2>14. CASE RecordFails(p)
    BY <2>14 DEF RecordFails
  <2>15. CASE Crash(p)
    BY <2>15 DEF Crash
  <2>. QED BY <2>1, <2>2, <2>3, <2>4, <2>5, <2>6, <2>7, <2>8, <2>9, <2>10, <2>11, <2>12, <2>13,
              <2>14, <2>15 DEF Step
<1>. QED BY <1>1, <1>2

\* Files only change in a Publish, which finds a whole download in the temporary file.
LEMMA FileStep == CacheInv /\ [Next]_vars => Whole' /\ NeverCut'
<1> SUFFICES ASSUME CacheInv, [Next]_vars
             PROVE  Whole' /\ NeverCut'
  OBVIOUS
<1> USE CacheAssumption
    DEF CacheInv, CacheTypeOK, InRange, Whole, NeverCut, Go, Contents, Point, own
<1>1. CASE UNCHANGED vars
  BY <1>1 DEF vars
<1>2. CASE Next
  <2> PICK p \in Processes : Ask(p) \/ Step(p) \/ Receive(p) \/ Crash(p)
    BY <1>2 DEF Next
  <2>1. CASE Ask(p)
    BY <2>1 DEF Ask
  <2>2. CASE ProbeNone(p)
    <3>1. NextDir(p, "probe")
      BY <2>2 DEF ProbeNone
    <3>. QED BY <3>1, NextDirFiles
  <2>3. CASE Probe(p)
    BY <2>3 DEF Probe
  <2>4. CASE Hit(p)
    BY <2>4 DEF Hit
  <2>5. CASE OtherSource(p)
    <3>1. NextDir(p, "check")
      BY <2>5 DEF OtherSource
    <3>. QED BY <3>1, NextDirFiles
  <2>6. CASE Return(p)
    BY <2>6 DEF Return
  <2>7. CASE Begin(p)
    BY <2>7 DEF Begin, TempFile
  <2>8. CASE Receive(p)
    BY <2>8 DEF Receive, TempFile
  <2>9. CASE Complete(p)
    BY <2>9 DEF Complete, TempFile
  <2>10. CASE Break(p)
    BY <2>10 DEF Break
  <2>11. CASE BreakLast(p) \/ RenameFails(p)
    BY <2>11 DEF BreakLast, RenameFails, GiveUp, TempFile
  <2>12. CASE Publish(p)
    BY <2>12 DEF Publish, TempFile
  <2>13. CASE Record(p)
    BY <2>13 DEF Record
  <2>14. CASE RecordFails(p)
    BY <2>14 DEF RecordFails
  <2>15. CASE Crash(p)
    BY <2>15 DEF Crash
  <2>. QED BY <2>1, <2>2, <2>3, <2>4, <2>5, <2>6, <2>7, <2>8, <2>9, <2>10, <2>11, <2>12, <2>13,
              <2>14, <2>15 DEF Step
<1>. QED BY <1>1, <1>2

LEMMA NextInv == CacheInv /\ [Next]_vars => CacheInv'
BY TypeStep, FileStep DEF CacheInv

THEOREM Invariance == Spec => []CacheInv
<1>. QED BY InitInv, NextInv, PTL DEF Spec

-----------------------------------------------------------------------------
\* The variables of the cache keep their types (the state ensure_cached_file and fetch have).
THEOREM CacheTyping == Spec => []CacheTypeOK
<1>1. CacheInv => CacheTypeOK
  BY DEF CacheInv
<1>. QED BY <1>1, Invariance, PTL

\* fetch: no crash, broken transfer or second process ever leaves a part of a download where
\* a search would find it.
THEOREM NoPartialFile == Spec => []NeverCut
<1>1. CacheInv => NeverCut
  BY DEF CacheInv
<1>. QED BY <1>1, Invariance, PTL

\* fetch: what a process renames into the cache is the file of its own url, in full,
\* whichever other processes download the same name.
THEOREM OwnBytesAlways == Spec => OwnBytes
<1>1. CacheInv /\ [Next]_vars =>
        [\A p \in Processes : pc[p] = "fetched" /\ pc'[p] = "record" => file'[1] = url[p]]_vars
  <2> SUFFICES ASSUME CacheInv, Next, NEW p \in Processes, pc[p] = "fetched", pc'[p] = "record"
               PROVE  file'[1] = url[p]
    BY DEF vars
  <2>1. pc \in [Processes -> Point] /\ file \in [1..Dirs -> Contents] /\ 1 \in 1..Dirs
    BY CacheAssumption DEF CacheInv, CacheTypeOK
  <2>2. Publish(p)
    <3> PICK q \in Processes : Ask(q) \/ Step(q) \/ Receive(q) \/ Crash(q)
      BY DEF Next
    <3>1. p # q => pc'[p] = pc[p]
      BY <2>1 DEF Ask, Step, Receive, Crash, Go, ProbeNone, Probe, Hit, OtherSource, Return, NextDir, Begin,
                  Complete, Break, BreakLast, RenameFails, GiveUp, Publish, Record, RecordFails
    <3>2. p = q
      BY <3>1
    <3>. QED BY <2>1, <3>2
             DEF Ask, Step, Receive, Crash, Go, ProbeNone, Probe, Hit, OtherSource, Return, NextDir, Begin,
                 Complete, Break, BreakLast, RenameFails, GiveUp, Record, RecordFails
  <2>. QED BY <2>1, <2>2 DEF Publish, TempFile, CacheInv, Whole
<1>. QED BY <1>1, Invariance, PTL DEF Spec, OwnBytes
=============================================================================
