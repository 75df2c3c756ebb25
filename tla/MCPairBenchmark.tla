-------------------------- MODULE MCPairBenchmark ---------------------------
(* Two pairs and two agents, any of which may be dead. *)
EXTENDS PairBenchmark
=============================================================================
