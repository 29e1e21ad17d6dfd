-------------------------- MODULE MCStreamConnection --------------------------
(* Two videos of two channels: an own stream and a guest stream.            *)
EXTENDS StreamConnection, TLC

CONSTANTS v1, v2, own, guest

MCOwnerOf == (v1 :> own) @@ (v2 :> guest)
MCSaves == SUBSET Channels
=============================================================================
