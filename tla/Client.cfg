SPECIFICATION FairSpec
CONSTANTS
  Fds <- MCFds
  MaxAttempts = 3
  MaxCalls = 5
  MaxEvents = 2
INVARIANTS OneOwner WatchedIsOwned
PROPERTY AttemptCompletes
CHECK_DEADLOCK FALSE
