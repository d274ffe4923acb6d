--------------------------- MODULE MCSpeechStream ---------------------------
(* SpeechStream with a queue that fills after two chunks.                   *)
EXTENDS SpeechStream, TLC
=============================================================================
