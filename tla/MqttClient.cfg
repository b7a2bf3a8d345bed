CONSTANTS
  KeepAlive = 2
  ReconnectTimeout = 1
  SendTimeout = 3
  UseDns = TRUE
  QueueSlots = 2
  InTypes = {"CONNACK", "PUBLISH0", "PUBLISH2", "PUBREC", "OTHER"}
  InboxBound = 2
  InFlightBound = 2
SPECIFICATION LiveSpec
INVARIANTS StateMatchesConnection NoLostWakeup
PROPERTIES DataOnlyAfterConnack Reconnects QueueDrains KeepAlivePings
