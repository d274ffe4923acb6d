----------------------------- MODULE MCChatRoute -----------------------------
(* ChatRoute with two threads and a vocabulary of two tokens.                *)
EXTENDS ChatRoute, TLC

CONSTANTS t1, t2, a, b

TwoThreads == {t1, t2}
TwoTokens == {a, b}
=============================================================================
