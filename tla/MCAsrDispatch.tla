---------------------------- MODULE MCAsrDispatch ----------------------------
(* AsrDispatch with three request threads over two pooled backends: two jobs *)
(* in the pool and one on the primary backend, or a thread that waits while  *)
(* the others return their backends and take them again.                     *)
EXTENDS AsrDispatch, TLC

CONSTANTS t1, t2, t3, w1, w2

MCThreads == {t1, t2, t3}
MCWorkers == {w1, w2}
=============================================================================
