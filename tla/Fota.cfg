SPECIFICATION LiveSpec
CONSTANTS Addr = {a1, a2}
          NoAddr = NoAddr
          MaxVersion = 3
          MayRefuse = TRUE
INVARIANTS StatusMatches OwnedBlocks
PROPERTIES PollEnds DownloadEnds
CHECK_DEADLOCK FALSE
