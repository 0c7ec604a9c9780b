SPECIFICATION Spec
CONSTANTS
  Handlers = {h1, h2}
  Emails = {"a"}
  MaxRequests = 3
  MaxLives = 2
  Expiring = {1}
INVARIANTS
  NothingAheadOfDatabase
  EventsLostOnlyInOutage
  ShutdownCutsNone
PROPERTY Stops
CHECK_DEADLOCK FALSE
