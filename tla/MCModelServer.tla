---------------------------- MODULE MCModelServer ----------------------------
(* ModelServer with a few threads that serve every kind of request.          *)
EXTENDS ModelServer, TLC

CONSTANTS t1, t2, t3

TwoThreads == {t1, t2}
ThreeThreads == {t1, t2, t3}
=============================================================================
