SPECIFICATION Spec
CONSTANTS
  Boards <- MCBoards
  MaxProtocols = 5
  MaxPerProto = 5
  MaxApps = 10
  QueueSlots = 2
  WireBound = 2
  InboxBound = 2
INVARIANTS AllSubscribed Settles StatusFollowsSession
