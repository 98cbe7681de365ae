SPECIFICATION FairSpec
CONSTANTS
  Base = 4
  MaxFrame = 2
  Ping <- MCPing
  Pong <- MCPong
  Messages <- MCMessages
  MaxSent = 4
INVARIANTS FramesInStep NoFrameLeftBehind AnswersInOrder
PROPERTY MessageArrives
CHECK_DEADLOCK FALSE
