SPECIFICATION Spec
CONSTANTS
  Keys = {k1}
  NoKey = NoKey
  Chars = {"a", "b"}
  BufSize = 3
  QueueLen = 2
  LineBound = 4
INVARIANTS KeysFollowed LastLineShown
