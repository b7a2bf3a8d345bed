CONSTANTS
  Clients = {c1, c2}
  Capacity = 1
  MaySendFail = FALSE
  ReplyBound = 2
  PieceBound = 2
  InFlightBound = 2
  AuthModeChanges = FALSE
  EventBound = 2
SPECIFICATION Spec
INVARIANTS RepliesInOrder TimerFollowsPhase ProtocolsFollowNetwork
PROPERTIES RepliesDrain KeepsClients SmartConfigStarts
