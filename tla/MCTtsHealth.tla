----------------------------- MODULE MCTtsHealth -----------------------------
(* VOICEVOX and the built-in voice; two checks may be in flight.             *)
EXTENDS TtsHealth

CONSTANTS voicevox, bouyomi, builtin, t1, t2
=============================================================================
