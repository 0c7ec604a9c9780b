---------------------------- MODULE MCUserSession ----------------------------
EXTENDS UserSession, TLC

Symmetry == Permutations(Handlers)
==============================================================================
