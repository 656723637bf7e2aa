----------------------------- MODULE MCUAPISocket -----------------------------
(* Daemon processes started for the same interface name.                   *)
EXTENDS UAPISocket, TLC

CONSTANTS d1, d2, d3

MCProcs2 == {d1, d2}
MCProcs3 == {d1, d2, d3}
=============================================================================
