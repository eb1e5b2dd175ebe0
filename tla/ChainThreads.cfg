SPECIFICATION Spec
CONSTANTS
  Block = {0, 1, 2, 3, 4, 5}
  Genesis = 0
  HashPrev <- LateForkTree
  Proof <- HeavyProof
  BadContext = {5}
  BadConnect = {4}
  Threads = {h, r}
  NoBlock = NoBlock
  NoThread = NoThread
  MIN_BLOCKS_TO_KEEP = 2
  MaxCalls <- RepairCalls
  MaxKinds = 2
INVARIANTS
  CandidatesSound
  ActiveChainLinked
  CandidateOrderStable
SYMMETRY ThreadSymmetry
