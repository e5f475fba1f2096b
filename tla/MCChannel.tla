----------------------------- MODULE MCChannel -----------------------------
EXTENDS Channel, TLC
Symmetry == Permutations(Objects) \cup Permutations(Tasks)
=============================================================================
