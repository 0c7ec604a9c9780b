SPECIFICATION Spec
CONSTANTS
  Checks = {c1, c2}
  Addresses = {"a1"}
  Methods = {"report", "play", "stray"}
  Limited = {"report"}
  Count = 1
  Period = 2
  Delays = TRUE
  RecaptchaOn = TRUE
  MethodAuth <- MCMethodAuth
  ServiceAuth <- MCServiceAuth
  Permissions = {"CLIENT", "read"}
  NoAuth = NoAuth
  NoCheck = NoCheck
  MaxChecks = 5
  MaxTime = 3
  MaxRestarts = 1
SYMMETRY Symmetry
INVARIANTS
  LimitIsKept
  RefusedWhenUsedUp
  BurstIsBounded
  TokenIsJudged
