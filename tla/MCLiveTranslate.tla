--------------------------- MODULE MCLiveTranslate ---------------------------
(* LiveTranslate with its module's own constants.                            *)
EXTENDS LiveTranslate
=============================================================================
