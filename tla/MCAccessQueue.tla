---------------------------- MODULE MCAccessQueue ----------------------------
EXTENDS AccessQueue, TLC
Symmetry == Permutations(Requests) \cup Permutations(Users)
=============================================================================
