------------------------- MODULE MCUAPIListenerDarwin -------------------------
(* One client connecting to the Darwin UAPI listener.                       *)
EXTENDS UAPIListenerDarwin, TLC

CONSTANTS c1

MCConns1 == {c1}
=============================================================================
