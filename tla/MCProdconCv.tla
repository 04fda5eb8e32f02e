---------------------------- MODULE MCProdconCv ----------------------------
(* Module ProdconCv with interchangeable threads on each side.             *)
EXTENDS ProdconCv, TLC

Symmetry == Permutations(Producers) \cup Permutations(Consumers)

============================================================================
