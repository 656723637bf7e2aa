-------------------------- MODULE MCOutboundPipeline --------------------------
(* Model-checking instance of OutboundPipeline: two peers, two workers.   *)
EXTENDS OutboundPipeline, TLC

CONSTANTS p1, p2, w1, w2

MCPeers == {p1, p2}
MCWorkers == {w1, w2}
MCPeers1 == {p1}
WorkerSymmetry == Permutations(MCWorkers)
PeerWorkerSymmetry == Permutations(MCPeers) \cup Permutations(MCWorkers)
=============================================================================
