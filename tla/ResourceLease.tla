---------------------------- MODULE ResourceLease ----------------------------
(***************************************************************************)
(* What a pool of interchangeable resources promises its users: a resource *)
(* belongs to at most one thread, a thread that has one asks for no other, *)
(* and only its owner returns it.  No queue, lock or wake-up appears here. *)
(***************************************************************************)
CONSTANTS Threads,   \* the request threads
          Workers,   \* the pooled resources
          Nobody     \* the owner of a free resource

VARIABLE owner       \* owner[w]: the thread that has resource w, or Nobody

Init == owner = [w \in Workers |-> Nobody]

Take(t, w) ==
  /\ owner[w] = Nobody
  /\ \A v \in Workers : owner[v] # t
  /\ owner' = [owner EXCEPT ![w] = t]

Return(t, w) ==
  /\ owner[w] = t
  /\ owner' = [owner EXCEPT ![w] = Nobody]

Next == \E t \in Threads, w \in Workers : Take(t, w) \/ Return(t, w)

Spec == Init /\ [][Next]_owner
=============================================================================
