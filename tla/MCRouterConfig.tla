--------------------------- MODULE MCRouterConfig ---------------------------
EXTENDS RouterConfig, TLC

Symmetry == Permutations(Cluster)
=============================================================================
