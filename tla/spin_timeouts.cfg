SPECIFICATION FairSpec
CONSTANTS
  Replicas = {r1}
  DefaultBalance = 1000
  Bets = {0, 600}
  Symbols = {"cherry", "lemon"}
  Multipliers <- MCMultipliers
  Failures = TRUE
  MaxGames = 2
  MaxBreaks = 0
  NoGame = NoGame
  Workers = {w1, w2}
  StartBalance = 1000
  WelcomeBonus = 1000
  Multiplier = 2
  MaxTickets = 4
  MaxOpen = 4
  MaxConversions = 1
  MaxSecond = 1
  NoDoc = NoDoc
  NoTicket = NoTicket
  Timeouts = TRUE
  NoWorker = NoWorker
INVARIANTS
  PlacedAtMostOnce
  RecordsAreSpins
PROPERTY SpinIsAnswered
