SPECIFICATION Spec
CONSTANTS
  StartBalance = 1000
  WelcomeBonus = 1000
  Multiplier = 2
  Workers = {w1}
  Bets = {500, 1500}
  Payouts = {0, 2000}
  Failures = FALSE
  MaxTickets = 4
  MaxOpen = 2
  MaxConversions = 2
  MaxSecond = 2
  NoDoc = NoDoc
  NoTicket = NoTicket
INVARIANT BooksBalance
PROPERTY ImplementsLedger
