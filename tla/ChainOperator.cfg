SPECIFICATION FairSpec
CONSTANTS
  Block = {0, 1, 2, 3, 4}
  Genesis = 0
  HashPrev <- ForkTree
  Proof <- UnitProof
  BadContext = {}
  BadConnect = {2}
  Threads = {h}
  NoBlock = NoBlock
  NoThread = NoThread
  MIN_BLOCKS_TO_KEEP = 1
  MaxCalls <- AllCalls
  MaxKinds = 2
INVARIANTS
  BlockIndexConsistent
  CandidatesNotEmpty
  ActiveChainNotFailed
  UndoDataAvailable
  CoinsAtTip
  BestChainActivated
PROPERTIES
  StepKeepsWork
  CallsReturn
CHECK_DEADLOCK FALSE
