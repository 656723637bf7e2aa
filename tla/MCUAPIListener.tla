---------------------------- MODULE MCUAPIListener ----------------------------
(* Two clients connecting to one UAPI listener.                             *)
EXTENDS UAPIListener, TLC

CONSTANTS c1, c2

MCConns == {c1, c2}
=============================================================================
