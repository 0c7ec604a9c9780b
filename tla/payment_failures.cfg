SPECIFICATION Spec
CONSTANTS
  Handlers = {h1, h2, h3}
  DefaultBalance = 1000
  Nets <- MCNets
  Failures = TRUE
  MaxPayments = 4
  MaxFaults = 2
  NoUser = NoUser
SYMMETRY Symmetry
INVARIANTS
  BalanceAddsUp
  StatementAddsUp
  OneConnection
