SPECIFICATION LiveSpec
CONSTANTS Addr = {a1, a2}
          NoAddr = NoAddr
          MaxVersion = 3
          MayRefuse = FALSE
PROPERTIES GettingEnds
CHECK_DEADLOCK FALSE
