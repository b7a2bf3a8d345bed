SPECIFICATION CodecsSpec
CONSTANTS
  Size = 4
  Byte = {b0, b1}
  Zero = b0
  Base = 16
  Ids = 7
  BufLen = 28
  Window = 6
  Users <- MCUsers
  Texts <- MCTexts
  Qos = {0, 1, 2}
  NumTokens = 128
  Nesting = 4
  LastKey <- MCLast
  Keys <- MCKeys
  Stale <- MCStale
  DigitMax = 255
  MaxProtocols = 3
  MaxPerProto = 2
  MaxApps = 4
  Trees <- MCTrees
  Garbled <- MCGarbled
  Answers <- MCAnswers
  Versions <- MCVersions
  AppLists <- MCAppLists
  AppItems <- MCAppItems
INVARIANTS FreshIds ReadsWhatItWrites TreesRead AnswersRead AppsBooted
PROPERTIES RingIsFifo
CHECK_DEADLOCK FALSE
