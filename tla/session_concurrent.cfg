SPECIFICATION Spec
CONSTANTS
  Handlers = {h1, h2}
  Users = {u1}
  AccessTTL = 1
  RefreshTTL = 2
  Failures = TRUE
  MaxSessions = 2
  MaxTokens = 4
  MaxTime = 2
  NoToken = NoToken
SYMMETRY Symmetry
INVARIANTS
  LogoutEndsRefreshing
  LogoutBoundsAccess
  SessionSurvives
  OneTokenPerSession
PROPERTY ReplayIsRefused
