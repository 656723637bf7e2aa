------------------------- MODULE MCHandshakeRateLimit -------------------------
(* The three goroutines of one peer that call SendHandshakeInitiation.     *)
EXTENDS HandshakeRateLimit, TLC

CONSTANTS reader, nonce, sender

MCCallers == {reader, nonce, sender}
CallerSymmetry == Permutations(MCCallers)
=============================================================================
