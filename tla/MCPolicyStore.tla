--------------------------- MODULE MCPolicyStore ---------------------------
(* PolicyStore for TLC; see the cfg files for the instances. *)
EXTENDS PolicyStore

Symmetry == Permutations(Ids) \cup Permutations(Objs)
=============================================================================
