SPECIFICATION Spec
CONSTANTS
  Configs <- MCConfigs
  Paths <- MCPaths
  PortNumbers = {"80", "99999"}
  Ports = {"80"}
  Parses = {"1s", "1m", "1h"}
  Booleans = {"true", "false"}
  NoAuth = NoAuth
  NoText = NoText
  NoLimit = NoLimit
  NoTLS = NoTLS
  NoSection = NoSection
  NoFile = NoFile
  NoRoute = NoRoute
INVARIANTS
  
  LoadersAgree
  SentAlike
  LongestRouteTaken
  JudgedByOwnAuth
CHECK_DEADLOCK FALSE
