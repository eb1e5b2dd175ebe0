SPECIFICATION Spec
CONSTANTS
  Txid = {t1, t2}
  Pruned = Pruned
  Coins = {Pruned, c1}
  Absent = Absent
  Usage <- MCUsage
  MaxBest = 3
  MaxWriteErrors = 1
INVARIANTS FreshMeansParentPruned CleanMatchesParent
  TipStandsForBestBlock DurableStateConsistent UsageIsExact
PROPERTIES ImplementsStore
SYMMETRY TxidSymmetry
