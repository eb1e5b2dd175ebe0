SPECIFICATION FairSpec
CONSTANTS
  Workers = {w1, w2}
  Master = m
  Interruptible = {w1, w2, m}
  Check = {1, 2, 3, 4}
  Bad = {4}
  nBatchSize = 2
INVARIANTS
  TodoCounts
  IdleBetweenBlocks
  ResultExact
  WorkersAwake
PROPERTIES
  WaitReturns
