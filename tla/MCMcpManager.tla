---------------------------- MODULE MCMcpManager ----------------------------
EXTENDS McpManager, TLC

Symmetry ==
  UNION {{f @@ g @@ h : f \in Permutations(Session), g \in Permutations(Chan)}
           : h \in Permutations(Loop)}
=============================================================================
