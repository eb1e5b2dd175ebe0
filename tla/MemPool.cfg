CONSTANTS
  Tx <- MCTx
  Index = {0, 1, 2}
  Coinbase <- MCCoinbase
  Vin <- MCVin
  Vout <- MCVout
  TxOut = {"p", "q", "return"}
  Unspendable = {"return"}
  Null = Null
  Fee <- MCFee
  LockTime <- MCLockTime
  Sequence <- MCSequence
  Replaceable = {"A"}
  NoTx = NoTx
  Block <- MCBlock
  Base = "base"
  HashPrev <- MCHashPrev
  Height <- MCHeight
  Ancestors <- MCAncestors
  Vtx <- MCVtx
  NoBlock = NoBlock
  NoUndo = NoUndo
  COINBASE_MATURITY = 2
  LimitAncestors = 3
  LimitDescendants = 3
  MaxDescendantsToVisit = 3
  IncrementalRelayFee = 1
  MaxMempool = 4
  MaxDelta <- MCMaxDelta
SPECIFICATION Spec
INVARIANTS
  TypeOK
  SpendsExact
  LinksExact
  DescendantStateExact
  PoolMinable
  CoinsExact
