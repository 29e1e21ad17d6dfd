---------------------------- MODULE MCChatSession ----------------------------
(* Two streams; the bounds on windows are never what stops a reconnect.      *)
EXTENDS ChatSession

CONSTANTS v1, v2
=============================================================================
