-------------------------------- MODULE MCLab --------------------------------
EXTENDS Lab, TLC
Symmetry == Permutations(Runs) \cup Permutations(Issues)
=============================================================================
