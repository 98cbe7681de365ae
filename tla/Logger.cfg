SPECIFICATION FairSpec
CONSTANTS
  t1 = t1
  t2 = t2
  Threads <- MCThreads
  Levels <- MCLevels
  ErrorLevel = 2
  MaxEvents = 2
  MaxInits = 2
  MaxDay = 1
  MaxFailures = 1
INVARIANTS EventsInOrder StopWritesAll FlushedAtRest LinesOfTheDay
PROPERTY QueuedIsPrinted
CHECK_DEADLOCK FALSE
