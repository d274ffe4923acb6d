---------------------------- MODULE MCModelCache ----------------------------
(* ModelCache with two processes and two urls.                               *)
EXTENDS ModelCache

CONSTANTS p1, p2, en, de

TwoProcesses == {p1, p2}
TwoUrls == {en, de}
=============================================================================
