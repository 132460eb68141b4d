--------------------------- MODULE MCPersistence ---------------------------
EXTENDS Persistence, TLC

Symmetry == Permutations(Chunks)
=============================================================================
