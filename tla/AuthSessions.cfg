SPECIFICATION Spec
CONSTANTS
  Keys = {"login", "refresh"}
  MaxFailures = 1
  Window = 0
  Clients = {"cli1", "cli2"}
  MaxTokens = 3
INVARIANTS
  OneLivePerLogin
  StoredTokenIsLive
  OverrunIsBounded
PROPERTIES
  NoHeirOfRevoked
