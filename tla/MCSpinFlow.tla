------------------------------ MODULE MCSpinFlow ------------------------------
EXTENDS SpinFlow, TLC

\* Of the six symbols two, and of what they pay (2 to 20) the least.
MCMultipliers == [cherry |-> 2, lemon |-> 2]

Symmetry == Permutations(Workers)
==============================================================================
