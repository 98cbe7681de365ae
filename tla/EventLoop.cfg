SPECIFICATION Spec
CONSTANTS
  creator = creator
  looper = looper
  Callers <- MCCallers
  Creator = creator
  LoopThread = looper
  AutoStart = FALSE
  PollCap = 2
  Delays <- MCNoDelay
  MaxPosts = 2
  MaxTimers = 2
  MaxTime = 1
INVARIANTS FunctorsInOrder NoLostWakeup NeverOversleeps NoTimerLost OneShotOnce
PROPERTY LoopCancelIsFinal
CHECK_DEADLOCK FALSE
