SPECIFICATION FairSpec
CONSTANTS
  p1 = p1
  p2 = p2
  NodeId = {p1, p2}
  Prompt = {p1}
  Preferred = {p1, p2}
  NoNode = NoNode
  NoBlock = NoBlock
  Genesis = 0
  Block <- ShortBlock
  HashPrev <- ShortHashPrev
  Height <- ShortHeight
  Ancestors <- ShortAncestors
  Chains <- ShortChains
  MAX_BLOCKS_IN_TRANSIT_PER_PEER = 1
  BLOCK_DOWNLOAD_WINDOW = 1
  MAX_HEADERS_RESULTS = 1
  RecentHeight = 1
  MaxConnects <- ShortConnects
  MaxAnnounces <- ShortAnnounces
PROPERTIES SyncCompletes
CHECK_DEADLOCK FALSE
