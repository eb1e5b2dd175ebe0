SPECIFICATION Spec
CONSTANTS
  p1 = p1
  p2 = p2
  NodeId = {p1, p2}
  Prompt = {p1}
  Preferred = {p1, p2}
  NoNode = NoNode
  NoBlock = NoBlock
  Genesis = 0
  Block <- ForkBlock
  HashPrev <- ForkHashPrev
  Height <- ForkHeight
  Ancestors <- ForkAncestors
  Chains <- ForkChains
  MAX_BLOCKS_IN_TRANSIT_PER_PEER = 2
  BLOCK_DOWNLOAD_WINDOW = 1
  MAX_HEADERS_RESULTS = 2
  RecentHeight = 0
  MaxConnects <- ForkConnects
  MaxAnnounces <- ForkAnnounces
INVARIANTS DownloadStateExact StallersHoldBlocks InFlightIsOwed
CHECK_DEADLOCK FALSE
