SPECIFICATION EngineSpec
CONSTANTS
  Replicas = {r1, r2}
  DefaultBalance = 1000
  Bets = {600, 1600}
  Symbols = {"cherry", "lemon"}
  Multipliers <- MCMultipliers
  Failures = TRUE
  MaxGames = 3
  MaxBreaks = 1
  NoGame = NoGame
SYMMETRY Symmetry
VIEW ButQueue
INVARIANTS
  ShownIsPaid
  IncrementsAddUp
  NeverLeftNegative
  BreakCostsOneResult
PROPERTY ResetTakesOnlyOverlap
