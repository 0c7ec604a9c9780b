SPECIFICATION Spec
CONSTANTS
  Replicas = {r1}
  DefaultBalance = 1000
  Bets = {0, 600}
  Symbols = {"cherry", "lemon"}
  Multipliers <- MCMultipliers
  Failures = FALSE
  MaxGames = 3
  MaxBreaks = 0
  NoGame = NoGame
  Workers = {w1, w2}
  StartBalance = 500
  WelcomeBonus = 500
  Multiplier = 1
  MaxTickets = 3
  MaxOpen = 4
  MaxConversions = 1
  MaxSecond = 2
  NoDoc = NoDoc
  NoTicket = NoTicket
  Timeouts = FALSE
  NoWorker = NoWorker
SYMMETRY Symmetry
INVARIANT ValidatedSpinsAreBooked
