SPECIFICATION FairSpec
CONSTANTS
  Series = {"btc15", "btc30"}
  Period <- OneCoin
  LastTick = 2
  Instances = {"s1_btc", "s4_btc"}
  EntryTf <- OnOneCoin
  Frames <- SlowFrames
  Bounds <- OneEach
CHECK_DEADLOCK FALSE
INVARIANTS TypeOK Delivered
PROPERTIES CaughtUp
