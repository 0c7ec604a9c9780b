-------------------------- MODULE MCPaymentService --------------------------
EXTENDS PaymentService, TLC

MCNets == {-400, 800}

Symmetry == Permutations(Handlers)
==============================================================================
