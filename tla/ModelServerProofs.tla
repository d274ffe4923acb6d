--------------------------- MODULE ModelServerProofs ---------------------------
(***************************************************************************)
(* For any number of threads and any mix of requests: what the server does *)
(* under model_mutex is serialised, drives the resident model, and `ready` *)
(* is clear while the model is being replaced.                             *)
(***************************************************************************)
EXTENDS ModelServer, TLAPS

\* The threads whose lock_guard on model_mutex is alive, told from where they are.
Locked(t) ==
  \/ pc[t] \in {"driving", "loading", "swapped"}
  \/ pc[t] \in {"disclaim", "disclaiming", "prefix"} /\ kind[t] \in {"talk", "side"}

\* The mutex's owner is the one thread inside a guard.
LockInv == \A t \in Threads : Locked(t) <=> mutex = t

\* Only an unstreamed clone goes on after it has unlocked, only requests that owe a
\* disclaimer ask for one, and only /load replaces the model.
KindInv ==
  \A t \in Threads :
    /\ pc[t] = "unlocked" => kind[t] = "clone"
    /\ pc[t] \in {"disclaim", "disclaiming"} => kind[t] \in {"clone", "talk", "side"}
    /\ pc[t] \in {"loading", "swapped"} => kind[t] = "load"

\* The model named under the mutex is the resident one, from the moment of locking.
ResidentInv ==
  \A t \in Threads :
    Locked(t) /\ kind[t] \in {"speak", "stream", "clone", "talk"} => ptr[t] = backend

\* The once_flag's owner is the one thread inside the call_once.
OnceInv ==
  /\ \A t \in Threads : pc[t] = "disclaiming" <=> once = t
  /\ \A t \in Threads :
       pc[t] = "prefix" \/ (pc[t] = "driving" /\ kind[t] = "talk") => once = Done

IInv ==
  ServerTypeOK /\ LockInv /\ KindInv /\ ResidentInv /\ ReadyMeansResident /\ OnceInv

-----------------------------------------------------------------------------
\* Every invariant holds at startup.
LEMMA InitIInv == Init => IInv
BY ServerAssumption
   DEF Init, IInv, ServerTypeOK, LockInv, KindInv, ResidentInv, ReadyMeansResident, OnceInv,
       Locked, Point, Models, RequestKind, NoRequest, Done

\* The variables keep their types.
LEMMA TypeStep == ASSUME ServerTypeOK, Next PROVE ServerTypeOK'
<1> USE ServerAssumption
    DEF ServerTypeOK, Point, Models, RequestKind, NoRequest, Done, Go, End, Release
<1> PICK t \in Threads :
       \/ Admit(t) \/ Look(t) \/ Refuse(t) \/ Arrive(t) \/ Lock(t) \/ Finish(t)
       \/ Ask(t) \/ CallOnce(t) \/ Spoken(t) \/ DisclaimerThrows(t) \/ Reply(t)
       \/ LoadLock(t) \/ EndLoad(t) \/ Loaded(t)
  BY DEF Next
<1>1. CASE Admit(t) BY <1>1 DEF Admit
<1>2. CASE Look(t) BY <1>2 DEF Look
<1>3. CASE Arrive(t) BY <1>3 DEF Arrive
<1>4. CASE Lock(t) BY <1>4 DEF Lock
<1>5. CASE Finish(t) BY <1>5 DEF Finish
<1>6. CASE Ask(t) BY <1>6 DEF Ask
<1>7. CASE CallOnce(t) BY <1>7 DEF CallOnce, WithDisclaimer
<1>8. CASE Spoken(t) BY <1>8 DEF Spoken, WithDisclaimer
<1>9. CASE DisclaimerThrows(t) BY <1>9 DEF DisclaimerThrows
<1>10. CASE Reply(t) BY <1>10 DEF Reply
<1>11. CASE LoadLock(t) BY <1>11 DEF LoadLock
<1>12. CASE LoadRefused(t) BY <1>12 DEF LoadRefused
<1>13. CASE LoadThrows(t) BY <1>13 DEF LoadThrows
<1>14. CASE Swap(t) BY <1>14 DEF Swap
<1>15. CASE Loaded(t) BY <1>15 DEF Loaded
<1>16. CASE Refuse(t) BY <1>16 DEF Refuse
<1> QED BY <1>1, <1>2, <1>3, <1>4, <1>5, <1>6, <1>7, <1>8, <1>9, <1>10, <1>11, <1>12, <1>13,
           <1>14, <1>15, <1>16 DEF EndLoad

\* The owner of the mutex stays the one thread inside a guard.
LEMMA LockStep == ASSUME IInv, Next PROVE LockInv' /\ KindInv'
<1> USE ServerAssumption DEF IInv, ServerTypeOK, LockInv, KindInv, Locked, Go, End, Release,
        RequestKind, NoRequest
<1> PICK t \in Threads :
       \/ Admit(t) \/ Look(t) \/ Refuse(t) \/ Arrive(t) \/ Lock(t) \/ Finish(t)
       \/ Ask(t) \/ CallOnce(t) \/ Spoken(t) \/ DisclaimerThrows(t) \/ Reply(t)
       \/ LoadLock(t) \/ EndLoad(t) \/ Loaded(t)
  BY DEF Next
<1>1. CASE Admit(t) BY <1>1 DEF Admit
<1>2. CASE Look(t) BY <1>2 DEF Look
<1>3. CASE Arrive(t) BY <1>3 DEF Arrive
<1>4. CASE Lock(t) BY <1>4 DEF Lock
<1>5. CASE Finish(t) BY <1>5 DEF Finish
<1>6. CASE Ask(t) BY <1>6 DEF Ask
<1>7. CASE CallOnce(t) BY <1>7 DEF CallOnce, WithDisclaimer
<1>8. CASE Spoken(t) BY <1>8 DEF Spoken, WithDisclaimer
<1>9. CASE DisclaimerThrows(t) BY <1>9 DEF DisclaimerThrows
<1>10. CASE Reply(t) BY <1>10 DEF Reply
<1>11. CASE LoadLock(t) BY <1>11 DEF LoadLock
<1>12. CASE LoadRefused(t) BY <1>12 DEF LoadRefused
<1>13. CASE LoadThrows(t) BY <1>13 DEF LoadThrows
<1>14. CASE Swap(t) BY <1>14 DEF Swap
<1>15. CASE Loaded(t) BY <1>15 DEF Loaded
<1>16. CASE Refuse(t) BY <1>16 DEF Refuse
<1> QED BY <1>1, <1>2, <1>3, <1>4, <1>5, <1>6, <1>7, <1>8, <1>9, <1>10, <1>11, <1>12, <1>13,
           <1>14, <1>15, <1>16 DEF EndLoad

\* A swap needs the mutex, so no thread under a guard sees the model change.
LEMMA ResidentStep == ASSUME IInv, Next PROVE ResidentInv'
<1> USE ServerAssumption
    DEF IInv, ServerTypeOK, LockInv, KindInv, ResidentInv, Locked, Go, End, Release, RequestKind, NoRequest
<1> PICK t \in Threads :
       \/ Admit(t) \/ Look(t) \/ Refuse(t) \/ Arrive(t) \/ Lock(t) \/ Finish(t)
       \/ Ask(t) \/ CallOnce(t) \/ Spoken(t) \/ DisclaimerThrows(t) \/ Reply(t)
       \/ LoadLock(t) \/ EndLoad(t) \/ Loaded(t)
  BY DEF Next
<1>1. CASE Admit(t) BY <1>1 DEF Admit
<1>2. CASE Look(t) BY <1>2 DEF Look
<1>3. CASE Arrive(t) BY <1>3 DEF Arrive
<1>4. CASE Lock(t) BY <1>4 DEF Lock
<1>5. CASE Finish(t) BY <1>5 DEF Finish
<1>6. CASE Ask(t) BY <1>6 DEF Ask
<1>7. CASE CallOnce(t) BY <1>7 DEF CallOnce, WithDisclaimer
<1>8. CASE Spoken(t) BY <1>8 DEF Spoken, WithDisclaimer
<1>9. CASE DisclaimerThrows(t) BY <1>9 DEF DisclaimerThrows
<1>10. CASE Reply(t) BY <1>10 DEF Reply
<1>11. CASE LoadLock(t) BY <1>11 DEF LoadLock
<1>12. CASE LoadRefused(t) BY <1>12 DEF LoadRefused
<1>13. CASE LoadThrows(t) BY <1>13 DEF LoadThrows
<1>14. CASE Swap(t) BY <1>14 DEF Swap
<1>15. CASE Loaded(t) BY <1>15 DEF Loaded
<1>16. CASE Refuse(t) BY <1>16 DEF Refuse
<1> QED BY <1>1, <1>2, <1>3, <1>4, <1>5, <1>6, <1>7, <1>8, <1>9, <1>10, <1>11, <1>12, <1>13,
           <1>14, <1>15, <1>16 DEF EndLoad

\* `ready` is set only by the thread that has the mutex, when it gives the load up or is done.
LEMMA ReadyStep == ASSUME IInv, Next PROVE ReadyMeansResident'
<1> USE ServerAssumption
    DEF IInv, ServerTypeOK, LockInv, ReadyMeansResident, Locked, Go, End, Release
<1> PICK t \in Threads :
       \/ Admit(t) \/ Look(t) \/ Refuse(t) \/ Arrive(t) \/ Lock(t) \/ Finish(t)
       \/ Ask(t) \/ CallOnce(t) \/ Spoken(t) \/ DisclaimerThrows(t) \/ Reply(t)
       \/ LoadLock(t) \/ EndLoad(t) \/ Loaded(t)
  BY DEF Next
<1>1. CASE Admit(t) BY <1>1 DEF Admit
<1>2. CASE Look(t) BY <1>2 DEF Look
<1>3. CASE Arrive(t) BY <1>3 DEF Arrive
<1>4. CASE Lock(t) BY <1>4 DEF Lock
<1>5. CASE Finish(t) BY <1>5 DEF Finish
<1>6. CASE Ask(t) BY <1>6 DEF Ask
<1>7. CASE CallOnce(t) BY <1>7 DEF CallOnce, WithDisclaimer
<1>8. CASE Spoken(t) BY <1>8 DEF Spoken, WithDisclaimer
<1>9. CASE DisclaimerThrows(t) BY <1>9 DEF DisclaimerThrows
<1>10. CASE Reply(t) BY <1>10 DEF Reply
<1>11. CASE LoadLock(t) BY <1>11 DEF LoadLock
<1>12. CASE LoadRefused(t) BY <1>12 DEF LoadRefused
<1>13. CASE LoadThrows(t) BY <1>13 DEF LoadThrows
<1>14. CASE Swap(t) BY <1>14 DEF Swap
<1>15. CASE Loaded(t) BY <1>15 DEF Loaded
<1>16. CASE Refuse(t) BY <1>16 DEF Refuse
<1> QED BY <1>1, <1>2, <1>3, <1>4, <1>5, <1>6, <1>7, <1>8, <1>9, <1>10, <1>11, <1>12, <1>13,
           <1>14, <1>15, <1>16 DEF EndLoad

\* The call_once has one thread inside, and a request passes it only when it is done.
LEMMA OnceStep == ASSUME IInv, Next PROVE OnceInv'
<1> USE ServerAssumption
    DEF IInv, ServerTypeOK, OnceInv, Go, End, Release, RequestKind, NoRequest, Done
<1> PICK t \in Threads :
       \/ Admit(t) \/ Look(t) \/ Refuse(t) \/ Arrive(t) \/ Lock(t) \/ Finish(t)
       \/ Ask(t) \/ CallOnce(t) \/ Spoken(t) \/ DisclaimerThrows(t) \/ Reply(t)
       \/ LoadLock(t) \/ EndLoad(t) \/ Loaded(t)
  BY DEF Next
<1>1. CASE Admit(t) BY <1>1 DEF Admit
<1>2. CASE Look(t) BY <1>2 DEF Look
<1>3. CASE Arrive(t) BY <1>3 DEF Arrive
<1>4. CASE Lock(t) BY <1>4 DEF Lock
<1>5. CASE Finish(t) BY <1>5 DEF Finish
<1>6. CASE Ask(t) BY <1>6 DEF Ask
<1>7. CASE CallOnce(t) BY <1>7 DEF CallOnce, WithDisclaimer
<1>8. CASE Spoken(t) BY <1>8 DEF Spoken, WithDisclaimer
<1>9. CASE DisclaimerThrows(t) BY <1>9 DEF DisclaimerThrows
<1>10. CASE Reply(t) BY <1>10 DEF Reply
<1>11. CASE LoadLock(t) BY <1>11 DEF LoadLock
<1>12. CASE LoadRefused(t) BY <1>12 DEF LoadRefused
<1>13. CASE LoadThrows(t) BY <1>13 DEF LoadThrows
<1>14. CASE Swap(t) BY <1>14 DEF Swap
<1>15. CASE Loaded(t) BY <1>15 DEF Loaded
<1>16. CASE Refuse(t) BY <1>16 DEF Refuse
<1> QED BY <1>1, <1>2, <1>3, <1>4, <1>5, <1>6, <1>7, <1>8, <1>9, <1>10, <1>11, <1>12, <1>13,
           <1>14, <1>15, <1>16 DEF EndLoad

\* The invariant of the server.
THEOREM Invariant == SafetySpec => []IInv
<1>1. IInv /\ [Next]_vars => IInv'
  <2> SUFFICES ASSUME IInv, [Next]_vars PROVE IInv'
    OBVIOUS
  <2>1. CASE Next
    BY <2>1, TypeStep, LockStep, ResidentStep, ReadyStep, OnceStep DEF IInv
  <2>2. CASE UNCHANGED vars
    BY <2>2 DEF vars, IInv, ServerTypeOK, LockInv, KindInv, ResidentInv, ReadyMeansResident,
                OnceInv, Locked
  <2> QED BY <2>1, <2>2
<1> QED BY InitIInv, <1>1, PTL DEF SafetySpec

\* The variables have their types.
THEOREM TypeCorrect == SafetySpec => []ServerTypeOK
BY Invariant, PTL DEF IInv

\* Work under model_mutex is serialised, with /load too.
THEOREM SerializedAlways == SafetySpec => []Serialized
<1>1. IInv => Serialized
  BY DEF IInv, LockInv, Locked, Serialized, UnderMutex, Driving, ServerTypeOK, KindInv,
         RequestKind, NoRequest
<1> QED BY Invariant, <1>1, PTL

\* Code that names `backend` under the mutex drives the resident model.
THEOREM ResidentAlways == SafetySpec => []ResidentServes
<1>1. IInv => ResidentServes
  BY DEF IInv, ResidentInv, KindInv, Locked, ResidentServes, UnderMutex, Driving
<1> QED BY Invariant, <1>1, PTL

\* The server is never "ok" while the model is being replaced.
THEOREM ReadyAlways == SafetySpec => []ReadyMeansResident
BY Invariant, PTL DEF IInv

\* One thread synthesizes the disclaimer, and no request passes it before it is there.
THEOREM DisclaimedAlways == SafetySpec => []DisclaimedFirst
<1>1. IInv => DisclaimedFirst
  BY DEF IInv, OnceInv, DisclaimedFirst
<1> QED BY Invariant, <1>1, PTL

-----------------------------------------------------------------------------
(* How far the two sentences of the documents that do not hold are true:    *)
(* which kinds of request a server must not serve for them to hold.         *)

\* The server serves the kinds it serves, and what a request does is of its kind.
ServedKinds ==
  \A t \in Threads :
    /\ kind[t] \in Kinds \cup {NoRequest}
    /\ pc[t] \in {"admitted", "waiting", "driving"} => kind[t] # NoRequest
    /\ pc[t] \in {"admitted", "driving"} => kind[t] # "load"
    /\ pc[t] = "prefix" => kind[t] \in {"clone", "side"}

LEMMA ServedKindsStep == ASSUME IInv, ServedKinds, Next PROVE ServedKinds'
<1> USE ServerAssumption
    DEF IInv, ServerTypeOK, KindInv, ServedKinds, Go, End, RequestKind, NoRequest
<1> PICK t \in Threads :
       \/ Admit(t) \/ Look(t) \/ Refuse(t) \/ Arrive(t) \/ Lock(t) \/ Finish(t)
       \/ Ask(t) \/ CallOnce(t) \/ Spoken(t) \/ DisclaimerThrows(t) \/ Reply(t)
       \/ LoadLock(t) \/ EndLoad(t) \/ Loaded(t)
  BY DEF Next
<1>1. CASE Admit(t) BY <1>1 DEF Admit
<1>2. CASE Look(t) BY <1>2 DEF Look
<1>3. CASE Arrive(t) BY <1>3 DEF Arrive
<1>4. CASE Lock(t) BY <1>4 DEF Lock
<1>5. CASE Finish(t) BY <1>5 DEF Finish
<1>6. CASE Ask(t) BY <1>6 DEF Ask
<1>7. CASE CallOnce(t) BY <1>7 DEF CallOnce, WithDisclaimer
<1>8. CASE Spoken(t) BY <1>8 DEF Spoken, WithDisclaimer
<1>9. CASE DisclaimerThrows(t) BY <1>9 DEF DisclaimerThrows
<1>10. CASE Reply(t) BY <1>10 DEF Reply
<1>11. CASE LoadLock(t) BY <1>11 DEF LoadLock
<1>12. CASE LoadRefused(t) BY <1>12 DEF LoadRefused
<1>13. CASE LoadThrows(t) BY <1>13 DEF LoadThrows
<1>14. CASE Swap(t) BY <1>14 DEF Swap
<1>15. CASE Loaded(t) BY <1>15 DEF Loaded
<1>16. CASE Refuse(t) BY <1>16 DEF Refuse
<1> QED BY <1>1, <1>2, <1>3, <1>4, <1>5, <1>6, <1>7, <1>8, <1>9, <1>10, <1>11, <1>12, <1>13,
           <1>14, <1>15, <1>16 DEF EndLoad

LEMMA ServedKindsAlways == SafetySpec => []ServedKinds
<1>1. Init => ServedKinds
  BY DEF Init, ServedKinds, NoRequest
<1>2. IInv /\ ServedKinds /\ [Next]_vars => ServedKinds'
  <2> SUFFICES ASSUME IInv, ServedKinds, [Next]_vars PROVE ServedKinds'
    OBVIOUS
  <2>1. CASE Next
    BY <2>1, ServedKindsStep
  <2>2. CASE UNCHANGED vars
    BY <2>2 DEF vars, ServedKinds
  <2> QED BY <2>1, <2>2
<1> QED BY <1>1, <1>2, Invariant, PTL DEF SafetySpec

\* "inference runs one-at-a-time through the single loaded model" holds of a server that
\* serves no buffered voice clone: nothing else leaves the guard before it is done with the model.
THEOREM OneAtATimeWithoutClones == "clone" \notin Kinds => (SafetySpec => []OneAtATime)
<1> SUFFICES ASSUME "clone" \notin Kinds PROVE SafetySpec => []OneAtATime
  OBVIOUS
<1>1. IInv /\ ServedKinds => OneAtATime
  <2> SUFFICES ASSUME IInv, ServedKinds, NEW t \in Driving, NEW u \in Driving
               PROVE  t = u
    BY DEF OneAtATime
  <2>1. ASSUME NEW v \in Driving PROVE mutex = v
    <3>1. v \in Threads /\ pc[v] \in {"driving", "disclaiming"} /\ kind[v] # "clone"
      BY DEF Driving, ServedKinds, NoRequest
    <3> QED BY <3>1 DEF IInv, KindInv, LockInv, Locked
  <2> QED BY <2>1
<1> QED BY <1>1, Invariant, ServedKindsAlways, PTL

\* Hot-swapping is safe for a server whose requests all name the model under the mutex: a
\* streamed synthesis or transcription is never in a model that has been destroyed.
THEOREM SwapSafeUnderMutex ==
  Kinds \subseteq {"speak", "stream", "talk", "load"} => (SafetySpec => []NoDestroyedModel)
<1> SUFFICES ASSUME Kinds \subseteq {"speak", "stream", "talk", "load"}
             PROVE  SafetySpec => []NoDestroyedModel
  OBVIOUS
<1>1. IInv /\ ServedKinds => NoDestroyedModel
  <2> SUFFICES ASSUME IInv, ServedKinds, NEW t \in Threads, t \in Driving \/ pc[t] = "prefix"
               PROVE  ptr[t] = backend
    BY DEF NoDestroyedModel
  <2>1. pc[t] \in {"driving", "disclaiming"}
    BY DEF ServedKinds, NoRequest, Driving
  <2>2. kind[t] \in {"speak", "stream", "talk"}
    BY <2>1 DEF IInv, KindInv, ServedKinds, NoRequest
  <2> QED BY <2>1, <2>2 DEF IInv, KindInv, ResidentInv, Locked
<1> QED BY <1>1, Invariant, ServedKindsAlways, PTL
=============================================================================
