SPECIFICATION Spec
CONSTANTS
  Posts = {p}
  Names = {a, b}
  Keys = {k1, k2}
  Limit = 2
  MaxTasks = 2
  MaxSegments = 2
  MaxUpdates = 1
  MaxFaults = 1
CHECK_DEADLOCK FALSE
INVARIANTS  MailedOnce LedgerIsTrue
PROPERTY QueuedIsAnswered
