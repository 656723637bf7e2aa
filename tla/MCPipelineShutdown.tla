-------------------------- MODULE MCPipelineShutdown --------------------------
(* One peer and one or two encryption workers.                              *)
EXTENDS PipelineShutdown, TLC

CONSTANTS w1, w2

MCWorkers1 == {w1}
MCWorkers2 == {w1, w2}
=============================================================================
