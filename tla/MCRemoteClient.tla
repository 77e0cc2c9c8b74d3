-------------------------- MODULE MCRemoteClient --------------------------
(* Three threads share two permits. *)
EXTENDS RemoteClient

CONSTANTS c1, c2, c3

MCCallers == {c1, c2, c3}
=============================================================================
