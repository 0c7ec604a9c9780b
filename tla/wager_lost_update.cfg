SPECIFICATION Spec
CONSTANTS
  StartBalance = 1000
  WelcomeBonus = 1000
  Multiplier = 2
  Workers = {w1, w2}
  Bets = {1000}
  Payouts = {0}
  Failures = FALSE
  MaxTickets = 2
  MaxOpen = 2
  MaxConversions = 2
  MaxSecond = 2
  NoDoc = NoDoc
  NoTicket = NoTicket
INVARIANT NoWagerLost
