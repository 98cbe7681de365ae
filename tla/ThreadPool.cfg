SPECIFICATION FairSpec
CONSTANTS
  w1 = w1
  w2 = w2
  w3 = w3
  c1 = c1
  c2 = c2
  Workers <- MCWorkers
  Clients <- MCClients
  ThreadNum = 2
  Sizes <- MCSizes
  MaxTasks = 2
INVARIANTS TasksInOrder NothingAfterDrain EveryTaskHasAWaker
PROPERTY CommittedTaskRuns
CHECK_DEADLOCK FALSE
