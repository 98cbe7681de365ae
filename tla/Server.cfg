SPECIFICATION FairSpec
CONSTANTS
  Fds <- MCFds
  MaxConns = 2
  MaxStops = 2
INVARIANTS OpenIsTracked NoSocketOutlivesStop
PROPERTIES EntriesLeaveClosed StopClosesAll
CHECK_DEADLOCK FALSE
