SPECIFICATION Spec
CONSTANTS
  f1 = f1
  f2 = f2
  f3 = f3
  c1 = c1
  c2 = c2
  c3 = c3
  c4 = c4
  None = None
  Fds <- MCFds
  Channels <- MCChannels
  FdOf <- MCFdOf
  ReadySets <- MCReadySets
  Room = 2
INVARIANT SameAnswers
PROPERTIES EpollIsPoller WSPollIsPoller
