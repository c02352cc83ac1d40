--------------------------- MODULE MCPolicyLoader ---------------------------
(* PolicyLoader for TLC: policies a, b and c, of which the PAP refuses c. *)
EXTENDS PolicyLoader

CONSTANTS a, b, c

\* An empty list, lists that share a policy, one with a refused policy.
MCLists == {<<>>, <<a>>, <<a, b>>, <<b, c, a>>}
=============================================================================
