SPECIFICATION FairSpec
CONSTANTS
  creator = creator
  looper = looper
  Callers <- MCCallers
  Creator = creator
  LoopThread = looper
  AutoStart = TRUE
  PollCap = 2
  Delays <- MCDelays
  MaxPosts = 1
  MaxTimers = 1
  MaxTime = 1
PROPERTIES QueuedFunctorRuns DueTimerRuns QuitEndsLoop
CHECK_DEADLOCK FALSE
