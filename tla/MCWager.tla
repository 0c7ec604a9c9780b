------------------------------- MODULE MCWager -------------------------------
EXTENDS WagerService, TLC

Symmetry == Permutations(Workers)
==============================================================================
