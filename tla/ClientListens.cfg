SPECIFICATION Spec
CONSTANTS
  Fds <- MCFds
  MaxAttempts = 1
  MaxCalls = 1
  MaxEvents = 0
INVARIANT EstablishedIsWatched
CHECK_DEADLOCK FALSE
