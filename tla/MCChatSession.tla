---------------------------- MODULE MCChatSession ----------------------------
(* ChatSession with two calling threads and a vocabulary of two tokens.      *)
EXTENDS ChatSession, TLC

CONSTANTS t1, t2, a, b

TwoThreads == {t1, t2}
TwoTokens == {a, b}
=============================================================================
