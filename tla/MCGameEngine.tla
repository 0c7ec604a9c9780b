---------------------------- MODULE MCGameEngine ----------------------------
EXTENDS GameEngine, TLC

\* Of the six symbols two, and of what they pay (2 to 20) the least.
MCMultipliers == [cherry |-> 2, lemon |-> 2]

Symmetry == Permutations(Replicas)

\* How many results were published is read by no action and no property: states that
\* differ in it alone go on alike.
ButQueue == <<store, spin, resetDied, link, broker, breaks, missed>>
==============================================================================
