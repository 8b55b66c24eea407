SPECIFICATION Spec
CONSTANTS
  Platforms = {"bluesky", "facebook"}
  Flows = {f1, f2}
  Requests = {r1, r2}
  MaxPending = 1
  TTL = 1
  MaxFaults = 1
CHECK_DEADLOCK FALSE
INVARIANTS CodeRedeemedOnce HistoryIsTrue StoredTokenIsLive
PROPERTY BlueskyIsRenewed
