------------------------------ MODULE ChatRoute ------------------------------
(***************************************************************************)
(* POST /v1/chat/completions (examples/cli/crispasr_server.cpp) on top of  *)
(* the chat session.  The server has one session for the process, opened   *)
(* by the first request.  A request is two calls on it, crispasr_chat_reset *)
(* and then crispasr_chat_generate (or _stream), and holds chat_call_mutex *)
(* around both; the session's own mutex is only held by each.              *)
(*                                                                         *)
(* `viaRoute` says which program this is: the server, whose threads use    *)
(* the session through the route alone, or one that calls the C ABI.       *)
(***************************************************************************)
EXTENDS ChatSession

VARIABLES
  viaRoute,   \* the server's session, or a caller's own
  opened,     \* chat_sess
  call,       \* the thread that holds chat_call_mutex, or Nobody
  leg         \* how far each thread's request has got

route == <<viaRoute, opened, call, leg>>
routeVars == <<vars, route>>

Leg == {"away", "reset", "generate", "reply"}

RouteInit ==
  /\ Init
  /\ viaRoute \in BOOLEAN
  /\ opened = ~viaRoute
  /\ call = Nobody
  /\ leg = [t \in Threads |-> "away"]

\* ensure_chat_session; a session that fails to open leaves things as they are.
Open ==
  /\ viaRoute /\ ~opened
  /\ opened' = TRUE
  /\ UNCHANGED <<vars, viaRoute, call, leg>>

\* Mutant: requests do not wait for one another.
ArriveAtOnce(t) ==
  /\ viaRoute /\ opened
  /\ leg[t] = "away"
  /\ leg' = [leg EXCEPT ![t] = "reset"]
  /\ call' = t
  /\ UNCHANGED <<vars, viaRoute, opened>>

\* A request that is in order takes chat_call_mutex.
Arrive(t) ==
  /\ viaRoute /\ opened
  /\ leg[t] = "away" /\ call = Nobody
  /\ leg' = [leg EXCEPT ![t] = "reset"]
  /\ call' = t
  /\ UNCHANGED <<vars, viaRoute, opened>>

\* The calls of a request go in and, for one of them, work: reset first, generate second.
\* A prompt that renders to nothing is generate's early return, the session's Query.
Serve(t) ==
  /\ \/ leg[t] \in {"reset", "generate"} /\ (Enter(t) \/ LockMu(t))
     \/ leg[t] = "reset" /\ Reset(t)
     \/ /\ leg[t] = "generate"
        /\ \/ Query(t) \/ Prepare(t) \/ Prefill(t) \/ Prefilled(t) \/ CancelPrefill(t)
           \/ Say(t) \/ Stop(t) \/ EndReply(t) \/ CancelReply(t)
  /\ UNCHANGED route

\* A call returns: the next one follows, or the reply.
Done(t) ==
  /\ leg[t] \in {"reset", "generate"}
  /\ Leave(t)
  /\ leg' = [leg EXCEPT ![t] = IF leg[t] = "reset" THEN "generate" ELSE "reply"]
  /\ UNCHANGED <<viaRoute, opened, call>>

\* The handler returns, with a reply or with an error, and chat_guard unlocks.
Depart(t) ==
  /\ leg[t] = "reply"
  /\ leg' = [leg EXCEPT ![t] = "away"]
  /\ call' = Nobody
  /\ UNCHANGED <<vars, viaRoute, opened>>

RouteNext ==
  \/ ~viaRoute /\ Next /\ UNCHANGED route
  \/ Open
  \/ \E t \in Threads : viaRoute /\ (Arrive(t) \/ Serve(t) \/ Done(t) \/ Depart(t))

\* Fairness is the session's: a caller of the C ABI closes it, the server keeps it.
RouteSpec == RouteInit /\ [][RouteNext]_routeVars /\ Fairness

-----------------------------------------------------------------------------
\* Types; and chat_call_mutex is held by the one request under way.
RouteTypeOK ==
  /\ viaRoute \in BOOLEAN /\ opened \in BOOLEAN
  /\ call \in Threads \cup {Nobody}
  /\ leg \in [Threads -> Leg]
  /\ \A t \in Threads : leg[t] # "away" <=> call = t

\* On the route the sampler sees the request's own conversation and nothing else: no other
\* request's call comes between a request's two, and however the last reply ended, also at a
\* stop sequence, none of it is left.
RouteConversation ==
  viaRoute /\ Sampling =>
    /\ seen = full \o said
    /\ leg[mu] = "generate" /\ call = mu
=============================================================================
