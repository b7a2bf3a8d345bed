CONSTANTS
  Size = 7
  MaxLen = 3
  Messages <- MCMessages
SPECIFICATION FairSpec
INVARIANTS ReadsFromFrameStart
PROPERTIES QueueKeepsMessages HandlersReturn
