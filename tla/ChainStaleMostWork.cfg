SPECIFICATION Spec
CONSTANTS
  Block = {0, 1, 2, 3}
  Genesis = 0
  HashPrev <- Line
  Proof <- UnitProof
  BadContext = {}
  BadConnect = {}
  Threads = {h, r}
  NoBlock = NoBlock
  NoThread = NoThread
  MIN_BLOCKS_TO_KEEP = 2
  MaxCalls <- NoCalls
  MaxKinds = 2
INVARIANTS
  BestChainActivated
