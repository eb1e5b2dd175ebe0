SPECIFICATION FaultySpec
CONSTANTS
  Block = {0, 1, 2, 3}
  Genesis = 0
  HashPrev <- PersistTree
  Height <- PersistHeight
  BadBlocks <- PersistBad
  NoBlock = NoBlock
  MaxFile = 2
  BlocksPerFile = 2
  MIN_BLOCKS_TO_KEEP = 1
  PruneAfterHeight = 1
  CheckBlocks = 1
  MaxEvents <- IndexEvents
INVARIANTS ChainstateIndexed
CHECK_DEADLOCK FALSE
