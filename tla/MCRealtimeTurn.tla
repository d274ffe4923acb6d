---------------------------- MODULE MCRealtimeTurn ----------------------------
(* RealtimeTurn with turns of three samples and messages of up to four, so   *)
(* that a turn fills up in the middle of a message, and more than once.      *)
EXTENDS RealtimeTurn
=============================================================================
