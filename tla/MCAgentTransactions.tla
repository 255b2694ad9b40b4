------------------------ MODULE MCAgentTransactions ------------------------
(* Instances of AgentTransactions for TLC: rows and requests are interchangeable. *)
EXTENDS AgentTransactions, TLC

Symmetry == Permutations(Agent) \cup Permutations(Txn)
=============================================================================
