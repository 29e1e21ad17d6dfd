------------------------------ MODULE MCTtsQueue ------------------------------
(* Two comments, one of which raises a notification; VOICEVOX and built-in.   *)
EXTENDS TtsQueue, TLC

CONSTANTS c1, c2, voicevox, builtin
=============================================================================
