------------------------- MODULE ChainPersistProofs -------------------------
(* Theorems about ChainPersist for every block tree, any number and size   *)
(* of files and any number of faults: blocks and undo data are where the   *)
(* index says, waiting blocks are known, and the node starts again.        *)
EXTENDS ChainPersist, TLAPS

Alive == node \in {"up", "stopping"}

(* A process that does not run has no memory and flushes nothing.          *)
DownInv ==
  /\ ~Alive => /\ mapBlockIndex = [b \in Block |-> NoEntry]
               /\ setDirtyBlockIndex = {} /\ setDirtyFileInfo = {}
               /\ pc = "idle"
  /\ Alive => coinsBest \in Block /\ tip \in Block

(* What is not dirty is the same on disk, and nothing is dirty once the    *)
(* index is written.                                                       *)
CleanInv ==
  /\ Alive => \A b \in Block \ setDirtyBlockIndex : mapBlockIndex[b] = dbIndex[b]
  /\ Alive => \A f \in File \ setDirtyFileInfo : vinfoBlockFile[f] = dbInfo[f]
  /\ pc \in {"unlink", "coins"} => setDirtyBlockIndex = {} /\ setDirtyFileInfo = {}

(* No entry disappears; the best blocks, the stored blocks and the parents *)
(* of known blocks have one.                                               *)
ParentsKnown(index) ==
  /\ \A b \in Block \ {Genesis} : Known(index, b) => Known(index, HashPrev[b])
  /\ \A b \in Block : HaveData(index, b) => Known(index, b)
KnownInv ==
  /\ ParentsKnown(mapBlockIndex) /\ ParentsKnown(dbIndex)
  /\ Alive => \A b \in Block : Known(dbIndex, b) => Known(mapBlockIndex, b)
  /\ Alive => Known(mapBlockIndex, coinsBest) /\ Known(mapBlockIndex, tip)

(* The cell of every stored block is below the recorded size of its file   *)
(* and holds the block.                                                    *)
Stored(index, info, last, b) ==
  HaveData(index, b) =>
    /\ index[b].nFile <= last
    /\ index[b].nDataPos <= info[index[b].nFile].nSize
    /\ blk[index[b].nFile][index[b].nDataPos] = b
MemInv == \A b \in Block : Stored(mapBlockIndex, vinfoBlockFile, nLastBlockFile, b)
DiskInv == \A b \in Block : Stored(dbIndex, dbInfo, dbLast, b)

(* A running node writes behind the blocks of the index on disk.           *)
AheadInv ==
  Alive => /\ dbLast <= nLastBlockFile
           /\ \A b \in Block : HaveData(dbIndex, b) =>
                \/ dbIndex[b].nFile < nLastBlockFile
                \/ dbIndex[b].nDataPos <= vinfoBlockFile[dbIndex[b].nFile].nSize

(* The index on disk names committed cells; cells that the index in memory *)
(* names and that are not committed are in the last file, until            *)
(* FlushBlockFile commits them.                                            *)
DataCell(index, b) == <<"blk", index[b].nFile, index[b].nDataPos>>
CommitInv ==
  /\ \A b \in Block : HaveData(dbIndex, b) => DataCell(dbIndex, b) \notin unsynced
  /\ \A b \in Block : HaveData(mapBlockIndex, b) /\ DataCell(mapBlockIndex, b) \in unsynced
       => mapBlockIndex[b].nFile = nLastBlockFile /\ pc \in {"idle", "begin", "files"}

(* Files chosen for pruning hold no block of the index any more.           *)
PruneInv ==
  /\ \A f \in setFilesToPrune : \A b \in Block :
       HaveData(mapBlockIndex, b) => mapBlockIndex[b].nFile # f
  /\ \A f \in setFilesToPrune : f < nLastBlockFile
  /\ setFilesToPrune # {} => fDoFullFlush = "yes"
  /\ pc \in {"idle", "begin"} => setFilesToPrune = {}

(* chainActive lags behind the coins only while ConnectTip or              *)
(* DisconnectTip flushes, or after an error.                               *)
TipInv == node = "up" /\ (pc = "idle" \/ mode # "ifneeded") => coinsBest = tip

Inv == /\ TypeOK /\ DownInv /\ CleanInv /\ KnownInv /\ ChainstateIndexed
       /\ MemInv /\ DiskInv /\ AheadInv /\ CommitInv /\ PruneInv /\ TipInv

-----------------------------------------------------------------------------
(* The event counters stay natural numbers.                                *)
LEMMA SpendType ==
  ASSUME nEvents \in [Event -> Nat], NEW e \in Event, Spend(e)
  PROVE  nEvents' \in [Event -> Nat]
BY DEF Spend, Event

(* The first state, with the genesis block alone, satisfies Inv.           *)
LEMMA InitInv == Init => Inv
<1> SUFFICES ASSUME Init PROVE Inv
  BY Zenon
<1> USE PersistAssumption DEF Init
<1>0. 0 \in File /\ 1 \in Pos
  BY DEF File, Pos
<1>1. mapBlockIndex \in [Block -> Entry] /\ vinfoBlockFile \in [File -> FileInfo]
  BY Zenon, <1>0 DEF Entry, FileInfo, NoEntry, NullInfo
<1>2. /\ blk \in [File -> [Pos -> Block \cup {NoBlock}]]
      /\ rev \in [File -> [Pos -> Block \cup {NoBlock}]]
  BY Zenon, <1>0 DEF EmptyFiles
<1>3. TypeOK
  BY Zenon, <1>0, <1>1, <1>2 DEF TypeOK
<1>4. \A b \in Block : HaveData(mapBlockIndex, b) =>
        b = Genesis /\ mapBlockIndex[b].nFile = 0 /\ mapBlockIndex[b].nDataPos = 1
  BY Zenon DEF HaveData, NoEntry
<1>5. /\ blk[0][1] = Genesis /\ vinfoBlockFile[0].nSize = 1 /\ nLastBlockFile = 0
      /\ dbIndex = mapBlockIndex /\ dbInfo = vinfoBlockFile /\ dbLast = 0
  BY Zenon, <1>0 DEF EmptyFiles
<1> HIDE DEF Init
<1>6. MemInv
  <2> SUFFICES ASSUME NEW b \in Block, HaveData(mapBlockIndex, b)
               PROVE  Stored(mapBlockIndex, vinfoBlockFile, nLastBlockFile, b)
    BY Zenon DEF MemInv, Stored
  <2> QED
    BY <1>4, <1>5 DEF Stored
<1>6a. DiskInv
  BY Zenon, <1>5, <1>6 DEF MemInv, DiskInv
<1>7. Known(mapBlockIndex, Genesis)
  BY Zenon DEF Known, Init
<1>7a. ParentsKnown(mapBlockIndex)
  BY Zenon DEF ParentsKnown, HaveData, Known, Init, NoEntry
<1>8. DownInv /\ CleanInv /\ KnownInv /\ ChainstateIndexed /\ PruneInv /\ TipInv
  BY Zenon, <1>5, <1>7, <1>7a DEF DownInv, CleanInv, KnownInv, ChainstateIndexed, PruneInv, TipInv, Alive, Init
<1>9. AheadInv
  BY <1>5, <1>6a DEF AheadInv, DiskInv, Stored
<1>10. CommitInv
  BY Zenon DEF CommitInv, Init
<1> QED
  BY Zenon, <1>3, <1>6, <1>6a, <1>8, <1>9, <1>10 DEF Inv

(* Steps that only begin a flush or choose what it writes.                 *)
LEMMA BeginInv ==
  ASSUME Inv, FlushPeriodic \/ Shutdown \/ FlushNeeded PROVE Inv'
<1> USE DEF Inv
<1>0. UNCHANGED <<mapBlockIndex, vinfoBlockFile, nLastBlockFile, setDirtyBlockIndex,
        setDirtyFileInfo, mapBlocksUnlinked, nChainTx, coinsBest, tip, node, setFilesToPrune,
        blk, rev, unsynced, dbIndex, dbInfo, dbLast, dbBest, dbOld, badBlock>>
  BY Zenon DEF FlushPeriodic, Shutdown, FlushNeeded, memVars, bestVars, cellVars, dbVars, coinsDbVars
<1>1. TypeOK'
  <2>1. nEvents' \in [Event -> Nat]
    BY Zenon, SpendType DEF TypeOK, FlushPeriodic, Shutdown, FlushNeeded, Event
  <2> QED
    BY Zenon, <1>0, <2>1 DEF TypeOK, FlushPeriodic, Shutdown, FlushNeeded
<1>2. /\ pc' \in {"begin", "files"}
      /\ node \in {"up", "stopping"}
      /\ pc \in {"idle", "begin"}
  BY Zenon DEF FlushPeriodic, Shutdown, FlushNeeded, Running, DownInv, Alive
<1>3. DownInv' /\ CleanInv'
  BY Zenon, <1>0, <1>2 DEF DownInv, CleanInv, Alive
<1>4. KnownInv' /\ ChainstateIndexed'
  BY Zenon, <1>0 DEF KnownInv, ChainstateIndexed, Alive, Known, ParentsKnown, HaveData
<1>5. MemInv' /\ DiskInv' /\ AheadInv'
  BY <1>0, Zenon DEF MemInv, DiskInv, AheadInv, Alive, Stored, HaveData
<1>6. CommitInv'
  BY Zenon, <1>0, <1>2 DEF CommitInv, HaveData, DataCell
<1>7. PruneInv'
  BY Zenon, <1>0, <1>2 DEF PruneInv, HaveData
<1>8. TipInv'
  BY Zenon, <1>0 DEF TipInv, FlushPeriodic, Shutdown, FlushNeeded, Running
<1> QED
  BY Zenon, <1>1, <1>3, <1>4, <1>5, <1>6, <1>7, <1>8

(* The process ends: only the disk matters.                                *)
LEMMA UnloadInv ==
  ASSUME Inv, node' = "down", Unloaded, NotFlushing,
         UNCHANGED <<dbIndex, dbInfo, dbLast, badBlock>>,
         blk' \in [File -> [Pos -> Block \cup {NoBlock}]],
         rev' \in [File -> [Pos -> Block \cup {NoBlock}]],
         unsynced' \subseteq unsynced,
         dbBest' \in Block, dbOld' \subseteq Block, dbBest' \in dbOld',
         nEvents' \in [Event -> Nat], ChainstateIndexed', DiskInv'
  PROVE  Inv'
<1> USE PersistAssumption DEF Inv
<1>1. NoEntry \in Entry /\ NullInfo \in FileInfo
  BY DEF NoEntry, NullInfo, Entry, FileInfo, File
<1>2. TypeOK'
  BY <1>1 DEF TypeOK, Unloaded, NotFlushing, File
<1>3a. ParentsKnown(mapBlockIndex)' /\ ParentsKnown(dbIndex)'
  BY Zenon DEF KnownInv, ParentsKnown, HaveData, Known, Unloaded, NoEntry
<1>3. DownInv' /\ CleanInv' /\ KnownInv' /\ PruneInv' /\ TipInv' /\ AheadInv'
  BY Zenon, <1>3a DEF DownInv, CleanInv, KnownInv, PruneInv, TipInv, AheadInv, Alive, Unloaded, NotFlushing
<1>4. \A b \in Block : ~HaveData(mapBlockIndex, b)'
  BY Zenon DEF Unloaded, NoEntry, HaveData
<1>5. MemInv'
  BY <1>4, Zenon DEF MemInv, Stored
<1>6. CommitInv'
  BY Zenon, <1>4 DEF CommitInv, DataCell, HaveData
<1> QED
  BY Zenon, <1>2, <1>3, <1>5, <1>6

(* FlushStateToDisk returns, with or without an error.                     *)
LEMMA ReturnsInv ==
  ASSUME Inv, pc # "idle", NEW result \in {"ok", "error"}, FlushReturns(result),
         UNCHANGED <<blk, rev, unsynced, dbIndex, dbInfo, dbLast, badBlock>>,
         dbBest' \in Block, dbOld' \subseteq Block, dbBest' \in dbOld',
         nEvents' \in [Event -> Nat], ChainstateIndexed'
  PROVE  Inv'
<1> USE DEF Inv
<1>0. DiskInv'
  BY Zenon DEF DiskInv, Stored, HaveData
<1>1. CASE mode = "always"
  BY Zenon, <1>0, <1>1, UnloadInv DEF FlushReturns, TypeOK
<1>2. CASE mode # "always"
  <2>0. /\ UNCHANGED <<mapBlockIndex, vinfoBlockFile, nLastBlockFile, setDirtyBlockIndex,
                       setDirtyFileInfo, mapBlocksUnlinked, nChainTx, coinsBest>>
        /\ NotFlushing
        /\ node' = node \/ node' = "stopping"
        /\ tip' = tip \/ (mode = "ifneeded" /\ tip' = coinsBest)
        /\ node' = "up" => node = "up" /\ (mode = "ifneeded" => tip' = coinsBest)
        /\ Alive /\ Alive'
    BY Zenon, <1>2 DEF FlushReturns, memVars, DownInv, Alive
  <2>1. TypeOK'
    BY Zenon, <2>0 DEF TypeOK, NotFlushing
  <2>2. DownInv' /\ CleanInv'
    BY Zenon, <2>0 DEF DownInv, CleanInv, NotFlushing
  <2>3. KnownInv'
    BY <2>0, Zenon DEF KnownInv, Known, ParentsKnown, HaveData
  <2>4. MemInv'
    BY <2>0, Zenon DEF MemInv, Stored, HaveData
  <2>5. AheadInv'
    BY <2>0, Zenon DEF AheadInv, HaveData
  <2>6. CommitInv'
    BY Zenon, <2>0 DEF CommitInv, HaveData, DataCell, NotFlushing
  <2>7. PruneInv'
    BY Zenon, <2>0 DEF PruneInv, NotFlushing
  <2>8. TipInv'
    BY Zenon, <2>0 DEF TipInv, NotFlushing
  <2> QED
    BY Zenon, <1>0, <2>1, <2>2, <2>3, <2>4, <2>5, <2>6, <2>7, <2>8
<1> QED
  BY Zenon, <1>1, <1>2

(* A flush that has nothing to write.                                      *)
LEMMA FlushNotNeededInv == Inv /\ FlushNotNeeded => Inv'
<1> SUFFICES ASSUME Inv, FlushNotNeeded PROVE Inv'
  BY Zenon
<1> QED
  BY Zenon, ReturnsInv DEF FlushNotNeeded, cellVars, dbVars, coinsDbVars, Inv, TypeOK,
     ChainstateIndexed, Known

(* A periodic flush ends after the index.                                  *)
LEMMA IndexOnlyInv == Inv /\ IndexOnly => Inv'
<1> SUFFICES ASSUME Inv, IndexOnly PROVE Inv'
  BY Zenon
<1> QED
  BY Zenon, ReturnsInv DEF IndexOnly, cellVars, dbVars, coinsDbVars, Inv, TypeOK,
     ChainstateIndexed, Known

(* A flush stopped by CheckDiskSpace writes nothing.                       *)
LEMMA FlushNoSpaceInv == Inv /\ FlushNoSpace => Inv'
<1> SUFFICES ASSUME Inv, FlushNoSpace PROVE Inv'
  BY Zenon
<1>1. nEvents' \in [Event -> Nat]
  BY Zenon, SpendType DEF FlushNoSpace, Inv, TypeOK, Event
<1> QED
  BY Zenon, <1>1, ReturnsInv DEF FlushNoSpace, cellVars, dbVars, coinsDbVars, Inv, TypeOK,
     ChainstateIndexed, Known

(* The chainstate is written after the index, which then knows its best    *)
(* block.                                                                  *)
LEMMA FlushCoinsInv == Inv /\ FlushCoins => Inv'
<1> SUFFICES ASSUME Inv, FlushCoins PROVE Inv'
  BY Zenon
<1>1. Known(dbIndex, coinsBest) /\ coinsBest \in Block
  BY Zenon DEF Inv, FlushCoins, DownInv, CleanInv, KnownInv, Known
<1>2. ChainstateIndexed'
  BY Zenon, <1>1 DEF Inv, FlushCoins, ChainstateIndexed, Known, dbVars
<1> QED
  BY Zenon, <1>1, <1>2, ReturnsInv DEF FlushCoins, cellVars, dbVars, Inv, TypeOK

(* A kill leaves the disk as it is.                                        *)
LEMMA KillInv == Inv /\ Kill => Inv'
<1> SUFFICES ASSUME Inv, Kill PROVE Inv'
  BY Zenon
<1>1. nEvents' \in [Event -> Nat]
  BY Zenon, SpendType DEF Kill, Inv, TypeOK, Event
<1>2. UNCHANGED <<blk, rev, unsynced, dbIndex, dbInfo, dbLast, dbBest, dbOld, badBlock>>
  BY Zenon DEF Kill, cellVars, dbVars, coinsDbVars
<1>3. DiskInv' /\ ChainstateIndexed'
  BY <1>2, Zenon DEF Inv, DiskInv, Stored, HaveData, ChainstateIndexed, Known
<1> QED
  BY Zenon, <1>1, <1>2, <1>3, UnloadInv DEF Kill, Inv, TypeOK

(* Cells that the index on disk names are committed, so they survive.      *)
LEMMA PowerFailsInv == Inv /\ PowerFails => Inv'
<1> SUFFICES ASSUME Inv, PowerFails PROVE Inv'
  BY Zenon
<1>1. nEvents' \in [Event -> Nat]
  BY Zenon, SpendType DEF PowerFails, Inv, TypeOK, Event
<1>2. PICK lost \in SUBSET unsynced :
        /\ blk' = [f \in File |-> [p \in Pos |->
                     IF <<"blk", f, p>> \in lost THEN NoBlock ELSE blk[f][p]]]
        /\ rev' = [f \in File |-> [p \in Pos |->
                     IF <<"rev", f, p>> \in lost THEN NoBlock ELSE rev[f][p]]]
  BY Zenon DEF PowerFails
<1>3. /\ blk' \in [File -> [Pos -> Block \cup {NoBlock}]]
      /\ rev' \in [File -> [Pos -> Block \cup {NoBlock}]]
  BY Zenon, <1>2 DEF Inv, TypeOK
<1>4. UNCHANGED <<dbIndex, dbInfo, dbLast, badBlock>> /\ unsynced' = {}
  BY Zenon DEF PowerFails, dbVars
<1>5. DiskInv'
  <2> SUFFICES ASSUME NEW b \in Block, HaveData(dbIndex, b)
               PROVE  Stored(dbIndex, dbInfo, dbLast, b)'
    BY Zenon, <1>4 DEF DiskInv, Stored, HaveData
  <2>1. Stored(dbIndex, dbInfo, dbLast, b) /\ DataCell(dbIndex, b) \notin lost
    BY Zenon DEF Inv, DiskInv, CommitInv
  <2>2. dbIndex[b].nFile \in File /\ dbIndex[b].nDataPos \in Pos
    BY Zenon DEF Inv, TypeOK, Entry, HaveData
  <2>3. blk'[dbIndex[b].nFile][dbIndex[b].nDataPos] = blk[dbIndex[b].nFile][dbIndex[b].nDataPos]
    BY Zenon, <1>2, <2>1, <2>2 DEF DataCell
  <2> QED
    BY Zenon, <1>4, <2>1, <2>3 DEF Stored
<1>6. dbBest' \in Block /\ dbOld' \subseteq Block /\ dbBest' \in dbOld' /\ ChainstateIndexed'
  BY Zenon, <1>4 DEF PowerFails, Inv, TypeOK, ChainstateIndexed, Known
<1>7. node' = "down" /\ Unloaded /\ NotFlushing
  BY Zenon DEF PowerFails
<1> QED
  BY Zenon, <1>1, <1>3, <1>4, <1>5, <1>6, <1>7, UnloadInv

(* A start-up that fails leaves the disk as it is.                         *)
LEMMA StartupFailsInv == Inv /\ StartupFails => Inv'
<1> SUFFICES ASSUME Inv, StartupFails PROVE Inv'
  BY Zenon
<1> USE DEF Inv
<1>0. /\ UNCHANGED <<mapBlockIndex, vinfoBlockFile, nLastBlockFile, setDirtyBlockIndex,
           setDirtyFileInfo, mapBlocksUnlinked, nChainTx, coinsBest, tip, pc, mode,
           fDoFullFlush, setFilesToPrune, blk, rev, unsynced, dbIndex, dbInfo, dbLast, dbBest,
           dbOld, nEvents, badBlock>>
      /\ node = "down" /\ node' = "failed"
  BY Zenon DEF StartupFails, memVars, bestVars, flushVars, cellVars, dbVars, coinsDbVars
<1>1. TypeOK'
  BY Zenon, <1>0 DEF TypeOK
<1>2. DownInv' /\ CleanInv' /\ KnownInv' /\ TipInv' /\ AheadInv'
  BY Zenon, <1>0 DEF DownInv, CleanInv, KnownInv, TipInv, AheadInv, Alive, ParentsKnown, HaveData, Known
<1>3. ChainstateIndexed' /\ MemInv' /\ DiskInv'
  BY <1>0, Zenon DEF ChainstateIndexed, MemInv, DiskInv, Stored, Known, HaveData
<1>4. CommitInv' /\ PruneInv'
  BY <1>0, Zenon DEF CommitInv, PruneInv, HaveData, DataCell
<1> QED
  BY Zenon, <1>1, <1>2, <1>3, <1>4

(* The node comes up with what is on disk.                                 *)
LEMMA LoadInv == Inv /\ LoadBlockIndexDB => Inv'
<1> SUFFICES ASSUME Inv, LoadBlockIndexDB PROVE Inv'
  BY Zenon
<1> USE DEF Inv
<1>0. /\ UNCHANGED <<setDirtyBlockIndex, setDirtyFileInfo, pc, mode, fDoFullFlush,
           setFilesToPrune, blk, rev, unsynced, dbIndex, dbInfo, dbLast, dbBest, dbOld,
           nEvents, badBlock>>
      /\ mapBlockIndex' = dbIndex /\ vinfoBlockFile' = dbInfo /\ nLastBlockFile' = dbLast
      /\ coinsBest' = dbBest /\ tip' = dbBest /\ node = "down" /\ node' = "up"
      /\ pc = "idle" /\ setDirtyBlockIndex = {} /\ setDirtyFileInfo = {}
      /\ mapBlocksUnlinked' \subseteq Block /\ nChainTx' \subseteq Block
      /\ Known(dbIndex, dbBest)
  BY Zenon DEF LoadBlockIndexDB, StartupPossible, UnlinkedOnDisk, flushVars, cellVars, dbVars,
     coinsDbVars, DownInv, Alive
<1>1. TypeOK'
  BY Zenon, <1>0 DEF TypeOK
<1>2. DownInv' /\ CleanInv' /\ KnownInv' /\ TipInv'
  BY Zenon, <1>0 DEF DownInv, CleanInv, KnownInv, TipInv, Alive, TypeOK, Known, ParentsKnown, HaveData
<1>3. ChainstateIndexed' /\ MemInv' /\ DiskInv'
  BY <1>0, Zenon DEF ChainstateIndexed, MemInv, DiskInv, Stored, Known, HaveData
<1>4. AheadInv'
  <2>1. dbLast <= dbLast
    BY SMTT(15) DEF TypeOK, File
  <2> QED
    BY <1>0, <2>1, Zenon DEF AheadInv, DiskInv, Stored, HaveData
<1>5. CommitInv'
  BY <1>0, Zenon DEF CommitInv, HaveData, DataCell
<1>6. PruneInv'
  BY Zenon, <1>0 DEF PruneInv
<1> QED
  BY Zenon, <1>1, <1>2, <1>3, <1>4, <1>5, <1>6

(* The cells of the last file are committed.                               *)
LEMMA FlushBlockFileInv == Inv /\ FlushBlockFile => Inv'
<1> SUFFICES ASSUME Inv, FlushBlockFile PROVE Inv'
  BY Zenon
<1> USE DEF Inv
<1>0. /\ UNCHANGED <<mapBlockIndex, vinfoBlockFile, nLastBlockFile, setDirtyBlockIndex,
           setDirtyFileInfo, mapBlocksUnlinked, nChainTx, coinsBest, tip, node, mode,
           fDoFullFlush, setFilesToPrune, blk, rev, dbIndex, dbInfo, dbLast, dbBest, dbOld,
           nEvents, badBlock>>
      /\ pc = "files" /\ pc' = "index" /\ unsynced' = unsynced \ Committed
  BY Zenon DEF FlushBlockFile, memVars, bestVars, dbVars, coinsDbVars
<1>1. TypeOK'
  BY Zenon, <1>0 DEF TypeOK
<1>2. DownInv' /\ CleanInv' /\ KnownInv' /\ TipInv'
  BY Zenon, <1>0 DEF DownInv, CleanInv, KnownInv, TipInv, Alive, Known, ParentsKnown, HaveData
<1>3. ChainstateIndexed' /\ MemInv' /\ DiskInv' /\ AheadInv' /\ PruneInv'
  BY <1>0, Zenon DEF ChainstateIndexed, MemInv, DiskInv, Stored, Known, HaveData, AheadInv,
     PruneInv, Alive
<1>4. CommitInv'
  <2>1. ASSUME NEW b \in Block, HaveData(mapBlockIndex, b), DataCell(mapBlockIndex, b) \in unsynced
        PROVE  DataCell(mapBlockIndex, b) \in Committed
    BY Zenon, <2>1 DEF CommitInv, Committed, DataCell
  <2> QED
    BY <1>0, <2>1, Zenon DEF CommitInv, HaveData, DataCell
<1> QED
  BY Zenon, <1>1, <1>2, <1>3, <1>4

(* The batch makes the index on disk equal to the one in memory.           *)
LEMMA WriteBatchEffect ==
  ASSUME Inv, WriteBatchSync
  PROVE  Alive /\ dbIndex' = mapBlockIndex /\ dbInfo' = vinfoBlockFile
<1> USE DEF Inv
<1>1. Alive
  BY Zenon DEF WriteBatchSync, DownInv
<1>2. dbIndex' = [b \in Block |-> mapBlockIndex[b]]
  BY Zenon, <1>1 DEF WriteBatchSync, CleanInv
<1>3. dbInfo' = [f \in File |-> vinfoBlockFile[f]]
  BY Zenon, <1>1 DEF WriteBatchSync, CleanInv
<1> QED
  BY Zenon, <1>1, <1>2, <1>3 DEF TypeOK

(* The index on disk becomes the one in memory, whose cells are committed. *)
LEMMA WriteBatchInv == Inv /\ WriteBatchSync => Inv'
<1> SUFFICES ASSUME Inv, WriteBatchSync PROVE Inv'
  BY Zenon
<1> USE DEF Inv
<1>0. /\ UNCHANGED <<mapBlockIndex, vinfoBlockFile, nLastBlockFile, mapBlocksUnlinked,
           nChainTx, coinsBest, tip, node, mode, fDoFullFlush, setFilesToPrune, blk, rev,
           unsynced, dbBest, dbOld, nEvents, badBlock>>
      /\ pc = "index" /\ pc' = "unlink"
      /\ setDirtyBlockIndex' = {} /\ setDirtyFileInfo' = {} /\ dbLast' = nLastBlockFile
  BY Zenon DEF WriteBatchSync, bestVars, cellVars, coinsDbVars
<1>00. Alive /\ Alive' /\ dbIndex' = mapBlockIndex /\ dbInfo' = vinfoBlockFile
  BY Zenon, <1>0, WriteBatchEffect DEF Alive
<1>1. TypeOK'
  BY Zenon, <1>0, <1>00 DEF TypeOK
<1>2. DownInv' /\ CleanInv' /\ TipInv'
  BY Zenon, <1>0, <1>00 DEF DownInv, CleanInv, TipInv
<1>3. KnownInv' /\ ChainstateIndexed'
  BY Zenon, <1>0, <1>00 DEF KnownInv, ChainstateIndexed, Known, TypeOK, ParentsKnown, HaveData
<1>4. MemInv' /\ DiskInv'
  BY <1>0, <1>00, Zenon DEF MemInv, DiskInv, Stored, HaveData
<1>5. AheadInv'
  <2>1. nLastBlockFile <= nLastBlockFile
    BY DEF TypeOK, File
  <2> QED
    BY <1>0, <1>00, <2>1, Zenon DEF AheadInv, MemInv, Stored, HaveData
<1>6. CommitInv'
  <2>1. pc \notin {"idle", "begin", "files"}
    BY Zenon, <1>0
  <2>2. \A b \in Block : HaveData(mapBlockIndex, b) => DataCell(mapBlockIndex, b) \notin unsynced
    BY <2>1, Zenon DEF CommitInv
  <2> QED
    BY <1>0, <1>00, <2>2, Zenon DEF CommitInv, HaveData, DataCell
<1>7. PruneInv'
  BY Zenon, <1>0 DEF PruneInv, HaveData
<1> QED
  BY Zenon, <1>1, <1>2, <1>3, <1>4, <1>5, <1>6, <1>7

(* No index names a file that is removed.                                  *)
LEMMA UnlinkInv == Inv /\ UnlinkPrunedFiles => Inv'
<1> SUFFICES ASSUME Inv, UnlinkPrunedFiles PROVE Inv'
  BY Zenon
<1> USE DEF Inv
<1>0. /\ UNCHANGED <<mapBlockIndex, vinfoBlockFile, nLastBlockFile, setDirtyBlockIndex,
           setDirtyFileInfo, mapBlocksUnlinked, nChainTx, coinsBest, tip, node, mode,
           fDoFullFlush, setFilesToPrune, dbIndex, dbInfo, dbLast, dbBest, dbOld, nEvents,
           badBlock>>
      /\ pc = "unlink" /\ pc' = "coins" /\ unsynced' \subseteq unsynced
  BY Zenon DEF UnlinkPrunedFiles, memVars, bestVars, dbVars, coinsDbVars
<1>1. TypeOK'
  <2>1. EmptyFiles \in [File -> [Pos -> Block \cup {NoBlock}]]
    BY Zenon DEF EmptyFiles
  <2>2. /\ blk' \in [File -> [Pos -> Block \cup {NoBlock}]]
        /\ rev' \in [File -> [Pos -> Block \cup {NoBlock}]]
    BY Zenon, <2>1 DEF UnlinkPrunedFiles, TypeOK
  <2> QED
    BY Zenon, <1>0, <2>2 DEF TypeOK
<1>2. DownInv' /\ CleanInv' /\ KnownInv' /\ TipInv'
  BY Zenon, <1>0 DEF DownInv, CleanInv, KnownInv, TipInv, Alive, Known, ParentsKnown, HaveData
<1>3. ChainstateIndexed' /\ AheadInv' /\ PruneInv'
  BY Zenon, <1>0 DEF ChainstateIndexed, AheadInv, PruneInv, Alive, Known, HaveData
<1>4. MemInv'
  <2> SUFFICES ASSUME NEW b \in Block, HaveData(mapBlockIndex, b)
               PROVE  Stored(mapBlockIndex, vinfoBlockFile, nLastBlockFile, b)'
    BY Zenon, <1>0 DEF MemInv, Stored, HaveData
  <2>1. mapBlockIndex[b].nFile \in File \ setFilesToPrune
    BY Zenon DEF PruneInv, TypeOK, Entry
  <2>2. blk'[mapBlockIndex[b].nFile] = blk[mapBlockIndex[b].nFile]
    BY Zenon, <2>1 DEF UnlinkPrunedFiles
  <2> QED
    BY Zenon, <1>0, <2>2 DEF MemInv, Stored
<1>5. dbIndex = mapBlockIndex
  <2>1. dbIndex = [b \in Block |-> mapBlockIndex[b]]
    BY Zenon, <1>0 DEF CleanInv, DownInv, TypeOK
  <2> QED
    BY Zenon, <2>1 DEF TypeOK
<1>6. DiskInv'
  BY <1>0, <1>4, <1>5, Zenon DEF MemInv, DiskInv, Stored, HaveData
<1>7. CommitInv'
  BY Zenon, <1>0 DEF CommitInv, HaveData, DataCell
<1> QED
  BY Zenon, <1>1, <1>2, <1>3, <1>4, <1>6, <1>7

(* The coins go back to the parent of the tip.                             *)
LEMMA DisconnectTipInv == Inv /\ DisconnectTip => Inv'
<1> SUFFICES ASSUME Inv, DisconnectTip PROVE Inv'
  BY Zenon
<1> USE DEF Inv
<1>0. /\ UNCHANGED <<mapBlockIndex, vinfoBlockFile, nLastBlockFile, setDirtyBlockIndex,
           setDirtyFileInfo, mapBlocksUnlinked, nChainTx, tip, node, fDoFullFlush,
           setFilesToPrune, blk, rev, unsynced, dbIndex, dbInfo, dbLast, dbBest, dbOld, nEvents,
           badBlock>>
      /\ pc = "idle" /\ pc' = "begin" /\ mode' = "ifneeded" /\ node = "up"
  BY Zenon DEF DisconnectTip, Running, memVars, cellVars, dbVars, coinsDbVars
<1>1. coinsBest' \in Block
  BY Zenon, <1>0, PersistAssumption DEF DisconnectTip, DownInv, Alive
<1>2. TypeOK'
  BY Zenon, <1>0, <1>1 DEF TypeOK
<1>3. DownInv' /\ CleanInv' /\ TipInv'
  BY Zenon, <1>0, <1>1 DEF DownInv, CleanInv, TipInv, Alive
<1>4. MemInv' /\ DiskInv' /\ ChainstateIndexed' /\ AheadInv' /\ PruneInv' /\ CommitInv'
  BY Zenon, <1>0 DEF ChainstateIndexed, MemInv, DiskInv, Stored, Known, HaveData, AheadInv,
     PruneInv, Alive, CommitInv, DataCell
<1>5. KnownInv'
  <2>1. coinsBest' = HashPrev[tip] /\ tip \in Block \ {Genesis}
    BY Zenon, <1>0 DEF DisconnectTip, DownInv, Alive
  <2>2. Known(mapBlockIndex, HashPrev[tip])
    BY Zenon, <1>0, <2>1 DEF KnownInv, ParentsKnown, HaveData, Alive
  <2> QED
    BY Zenon, <1>0, <2>1, <2>2 DEF KnownInv, Alive, Known, ParentsKnown, HaveData
<1> QED
  BY Zenon, <1>2, <1>3, <1>4, <1>5

(* What a new header and a rejected block have in common: b gets an entry  *)
(* without data.                                                           *)
Entered(b) ==
  /\ \E h \in {"header", "invalid"} :
       mapBlockIndex' = [mapBlockIndex EXCEPT ![b] = [NoEntry EXCEPT !.has = h]]
  /\ mapBlockIndex[b].has \notin {"invalid", "block"} /\ Known(mapBlockIndex, HashPrev[b])
  /\ setDirtyBlockIndex' = setDirtyBlockIndex \cup {b}
  /\ Running /\ (nEvents' = nEvents \/ Spend("header"))
  /\ UNCHANGED <<vinfoBlockFile, nLastBlockFile, setDirtyFileInfo, mapBlocksUnlinked, nChainTx,
       coinsBest, tip, node, pc, mode, fDoFullFlush, setFilesToPrune, blk, rev, unsynced,
       dbIndex, dbInfo, dbLast, dbBest, dbOld, badBlock>>

(* The parent of an accepted header is known.                              *)
LEMMA HeaderParent ==
  ASSUME Inv, NEW b \in Block \ {Genesis}, AcceptBlockHeader(b)
  PROVE  Known(mapBlockIndex, HashPrev[b])
BY Zenon DEF AcceptBlockHeader, Known, Inv, KnownInv, ParentsKnown

(* The two steps that enter a block.                                       *)
LEMMA EntersBlock ==
  ASSUME Inv, NEW b \in Block \ {Genesis}, AddToBlockIndex(b) \/ AcceptBlockInvalid(b)
  PROVE  Entered(b)
<1>1. Known(mapBlockIndex, HashPrev[b])
  BY Zenon, HeaderParent DEF AddToBlockIndex, AcceptBlockInvalid
<1>2. CASE AddToBlockIndex(b)
  BY Zenon, <1>1, <1>2 DEF Entered, AddToBlockIndex, Known, bestVars, flushVars, cellVars, dbVars,
     coinsDbVars
<1>3. CASE AcceptBlockInvalid(b)
  BY Zenon, <1>1, <1>3 DEF Entered, AcceptBlockInvalid, AcceptBlockHeader, bestVars, flushVars, cellVars, dbVars,
     coinsDbVars
<1> QED  BY Zenon, <1>2, <1>3

(* A header or a rejected block enters the index in memory.                *)
LEMMA EnteredInv ==
  ASSUME Inv, NEW b \in Block \ {Genesis}, Entered(b) PROVE Inv'
<1> USE DEF Inv
<1>0. /\ UNCHANGED <<vinfoBlockFile, nLastBlockFile, setDirtyFileInfo, mapBlocksUnlinked,
           nChainTx, coinsBest, tip, node, pc, mode, fDoFullFlush, setFilesToPrune, blk, rev,
           unsynced, dbIndex, dbInfo, dbLast, dbBest, dbOld, badBlock>>
      /\ Alive /\ Alive' /\ setDirtyBlockIndex' = setDirtyBlockIndex \cup {b} /\ pc = "idle"
  BY Zenon DEF Entered, Running, Alive
<1>h. PICK h \in {"header", "invalid"} :
        mapBlockIndex' = [mapBlockIndex EXCEPT ![b] = [NoEntry EXCEPT !.has = h]]
  BY Zenon DEF Entered
<1>00. NoEntry \in Entry
  BY PersistAssumption DEF NoEntry, Entry, File
<1>1. TypeOK'
  <2>1. nEvents' \in [Event -> Nat]
    BY Zenon, SpendType DEF TypeOK, Entered, Event
  <2>2. mapBlockIndex' \in [Block -> Entry]
    BY Zenon, <1>h, <1>00 DEF TypeOK, Entry, NoEntry
  <2> QED
    BY Zenon, <1>0, <2>1, <2>2 DEF TypeOK
<1>2. /\ \A c \in Block \ {b} : mapBlockIndex'[c] = mapBlockIndex[c]
      /\ Known(mapBlockIndex, b)' /\ Known(mapBlockIndex, HashPrev[b])
      /\ ~HaveData(mapBlockIndex, b)'
  BY Zenon, <1>h DEF Entered, TypeOK, NoEntry, Known, HaveData
<1>3. DownInv' /\ CleanInv' /\ TipInv'
  BY Zenon, <1>0, <1>2 DEF DownInv, CleanInv, TipInv
<1>4. KnownInv'
  <2>1. \A c \in Block : Known(mapBlockIndex, c)' <=> Known(mapBlockIndex, c) \/ c = b
    BY Zenon, <1>2 DEF Known
  <2>2. \A c \in Block : HaveData(mapBlockIndex, c)' => HaveData(mapBlockIndex, c)
    BY Zenon, <1>2 DEF HaveData
  <2>3. ParentsKnown(mapBlockIndex)'
    BY Zenon, <1>2, <2>1, <2>2, PersistAssumption DEF KnownInv, ParentsKnown
  <2>4. ParentsKnown(dbIndex)'
    BY Zenon, <1>0 DEF KnownInv, ParentsKnown, Known, HaveData
  <2>5. \A c \in Block : Known(dbIndex, c)' => Known(dbIndex, c)
    BY Zenon, <1>0 DEF Known
  <2> QED
    BY Zenon, <1>0, <2>1, <2>3, <2>4, <2>5 DEF KnownInv, DownInv
<1>5. ChainstateIndexed' /\ DiskInv' /\ AheadInv'
  BY <1>0, Zenon DEF ChainstateIndexed, DiskInv, Stored, Known, HaveData, AheadInv, Alive
<1>6. \A c \in Block : HaveData(mapBlockIndex, c)' =>
        HaveData(mapBlockIndex, c) /\ mapBlockIndex'[c] = mapBlockIndex[c]
  BY Zenon, <1>2 DEF HaveData
<1>7. MemInv'
  BY <1>0, <1>6, Zenon DEF MemInv, Stored
<1>8. CommitInv'
  BY <1>0, <1>6, Zenon DEF CommitInv, DataCell, HaveData
<1>9. PruneInv'
  BY Zenon, <1>0, <1>6 DEF PruneInv
<1> QED
  BY Zenon, <1>1, <1>3, <1>4, <1>5, <1>7, <1>8, <1>9

(* Pruning takes the data of entries away, of files before the last one.   *)
LEMMA FlushForPruneInv == Inv /\ FlushForPrune => Inv'
<1> SUFFICES ASSUME Inv, FlushForPrune PROVE Inv'
  BY Zenon
<1> USE DEF Inv
<1>0. PICK S \in PruneChoices : PruneBlockFiles(S) /\ setFilesToPrune' = S
  BY Zenon DEF FlushForPrune
<1>1. /\ UNCHANGED <<nLastBlockFile, nChainTx, coinsBest, tip, node, mode, blk, rev, unsynced,
           dbIndex, dbInfo, dbLast, dbBest, dbOld, badBlock>>
      /\ pc = "begin" /\ pc' = "files" /\ fDoFullFlush' = "yes" /\ Alive /\ Alive'
  BY Zenon DEF FlushForPrune, bestVars, cellVars, dbVars, coinsDbVars, DownInv, Alive
<1>2. S \subseteq File /\ \A f \in S : f < nLastBlockFile
  BY Zenon DEF PruneChoices, MayPrune
<1>3. InFiles(S) \subseteq Block
  BY Zenon DEF InFiles
<1>4. /\ mapBlockIndex' = [b \in Block |->
           IF b \in InFiles(S) THEN [NoEntry EXCEPT !.has = mapBlockIndex[b].has]
           ELSE mapBlockIndex[b]]
      /\ setDirtyBlockIndex' = setDirtyBlockIndex \cup InFiles(S)
      /\ mapBlocksUnlinked' = mapBlocksUnlinked \ InFiles(S)
      /\ vinfoBlockFile' = [f \in File |-> IF f \in S THEN NullInfo ELSE vinfoBlockFile[f]]
      /\ setDirtyFileInfo' = setDirtyFileInfo \cup S
  BY Zenon, <1>0 DEF PruneBlockFiles
<1>5. TypeOK'
  <2>1. nEvents' \in [Event -> Nat]
    BY Zenon, SpendType DEF TypeOK, FlushForPrune, Event
  <2>2. ASSUME NEW b \in Block PROVE [NoEntry EXCEPT !.has = mapBlockIndex[b].has] \in Entry
    <3>1. mapBlockIndex[b].has \in {"nothing", "header", "invalid", "block"} /\ 0 \in File
      BY PersistAssumption DEF TypeOK, Entry, File
    <3> QED
      BY Zenon, <3>1 DEF NoEntry, Entry
  <2>3. mapBlockIndex' \in [Block -> Entry]
    BY Zenon, <1>4, <2>2 DEF TypeOK
  <2>4. vinfoBlockFile' \in [File -> FileInfo]
    BY Zenon, <1>4 DEF TypeOK, NullInfo, FileInfo
  <2> QED
    BY Zenon, <1>0, <1>1, <1>2, <1>3, <1>4, <2>1, <2>3, <2>4 DEF TypeOK
<1>6. \A b \in Block : HaveData(mapBlockIndex, b)' =>
        /\ HaveData(mapBlockIndex, b) /\ mapBlockIndex'[b] = mapBlockIndex[b]
        /\ b \notin InFiles(S)
  BY Zenon, <1>4 DEF HaveData, NoEntry
<1>7. \A b \in Block : Known(mapBlockIndex, b)' <=> Known(mapBlockIndex, b)
  BY Zenon, <1>4 DEF Known, NoEntry
<1>8. \A b \in Block : HaveData(mapBlockIndex, b)' => mapBlockIndex[b].nFile \notin S
  BY Zenon, <1>6 DEF InFiles, KnownInv, ParentsKnown
<1>9. DownInv' /\ TipInv'
  BY Zenon, <1>1 DEF DownInv, TipInv
<1>10. CleanInv'
  BY Zenon, <1>1, <1>2, <1>4 DEF CleanInv
<1>11. KnownInv'
  <2>1. ParentsKnown(mapBlockIndex)'
    BY Zenon, <1>6, <1>7, PersistAssumption DEF KnownInv, ParentsKnown
  <2>2. ParentsKnown(dbIndex)'
    BY Zenon, <1>1 DEF KnownInv, ParentsKnown, Known, HaveData
  <2>3. \A c \in Block : Known(dbIndex, c)' => Known(dbIndex, c)
    BY Zenon, <1>1 DEF Known
  <2> QED
    BY Zenon, <1>1, <1>7, <2>1, <2>2, <2>3 DEF KnownInv, DownInv
<1>12. ChainstateIndexed' /\ DiskInv'
  BY <1>1, Zenon DEF ChainstateIndexed, DiskInv, Stored, Known, HaveData
<1>13. MemInv'
  <2> SUFFICES ASSUME NEW b \in Block, HaveData(mapBlockIndex, b)'
               PROVE  Stored(mapBlockIndex, vinfoBlockFile, nLastBlockFile, b)'
    BY Zenon DEF MemInv, Stored
  <2>1. mapBlockIndex'[b] = mapBlockIndex[b] /\ HaveData(mapBlockIndex, b)
    BY Zenon, <1>6
  <2>2. vinfoBlockFile'[mapBlockIndex[b].nFile] = vinfoBlockFile[mapBlockIndex[b].nFile]
    BY Zenon, <1>4, <1>8 DEF TypeOK, Entry
  <2> QED
    BY Zenon, <1>1, <2>1, <2>2 DEF MemInv, Stored
<1>14. AheadInv'
  <2> SUFFICES ASSUME NEW b \in Block, HaveData(dbIndex, b),
                      ~(dbIndex[b].nFile < nLastBlockFile)
               PROVE  dbIndex[b].nDataPos <= vinfoBlockFile'[dbIndex[b].nFile].nSize
    BY Zenon, <1>1 DEF AheadInv, HaveData
  <2>1. dbIndex[b].nFile \in File \ S
    BY Zenon, <1>2 DEF TypeOK, Entry
  <2>2. vinfoBlockFile'[dbIndex[b].nFile] = vinfoBlockFile[dbIndex[b].nFile]
    BY Zenon, <1>4, <2>1
  <2> QED
    BY Zenon, <1>1, <2>2 DEF AheadInv
<1>15. CommitInv'
  BY Zenon, <1>1, <1>6 DEF CommitInv, DataCell, HaveData
<1>16. PruneInv'
  BY Zenon, <1>0, <1>1, <1>2, <1>6, <1>8 DEF PruneInv
<1> QED
  BY Zenon, <1>5, <1>9, <1>10, <1>11, <1>12, <1>13, <1>14, <1>15, <1>16

(* A block goes behind everything recorded in the last file, or into a     *)
(* new file: no cell that either index names is written.                   *)
LEMMA AcceptBlockInv ==
  ASSUME Inv, NEW b \in Block \ {Genesis}, AcceptBlock(b) PROVE Inv'
<1> USE DEF Inv
<1>0. /\ UNCHANGED <<coinsBest, tip, node, fDoFullFlush, setFilesToPrune,
           dbIndex, dbInfo, dbLast, dbBest, dbOld, nEvents, badBlock>>
      /\ pc = "idle" /\ pc' = "begin" /\ mode' = "none" /\ Alive /\ Alive'
      /\ setDirtyBlockIndex' = setDirtyBlockIndex \cup {b}
      /\ Known(mapBlockIndex, HashPrev[b]) /\ ~HaveData(mapBlockIndex, b)
  BY Zenon, HeaderParent DEF AcceptBlock, bestVars, dbVars, coinsDbVars, Running, Alive
<1>f. PICK f \in File :
       LET p == vinfoBlockFile[f].nSize + 1
           old == vinfoBlockFile[nLastBlockFile]
           left == f # nLastBlockFile
       IN /\ FindBlockPos(f)
          /\ blk' = [g \in File |->
               IF g = f THEN [blk[f] EXCEPT ![p] = b]
               ELSE IF g = nLastBlockFile THEN Truncate(blk[g], old.nSize)
               ELSE blk[g]]
          /\ rev' = IF left
               THEN [rev EXCEPT ![nLastBlockFile] = Truncate(@, old.nUndoSize)]
               ELSE rev
          /\ unsynced' = (IF left THEN unsynced \ Committed ELSE unsynced)
                            \cup {<<"blk", f, p>>}
          /\ vinfoBlockFile' = [vinfoBlockFile EXCEPT ![f] = AddBlock(@, Height[b])]
          /\ setDirtyFileInfo' = setDirtyFileInfo \cup {f}
          /\ nLastBlockFile' = f
          /\ mapBlockIndex' = Received(b, f)
  BY Zenon DEF AcceptBlock
<1> DEFINE n == vinfoBlockFile[f].nSize
           p == n + 1
           last == nLastBlockFile
<1>n. /\ n \in 0 .. BlocksPerFile - 1 /\ p \in Pos /\ last \in File
      /\ f >= last /\ f \in Int /\ last \in Int /\ nLastBlockFile' = f
  <2>1. vinfoBlockFile[f].nSize \in Pos \cup {0} /\ last \in File
    BY Zenon DEF TypeOK, FileInfo
  <2>2. /\ vinfoBlockFile[f].nSize < BlocksPerFile /\ f \in nLastBlockFile .. MaxFile
        /\ nLastBlockFile' = f
    BY Zenon, <1>f DEF FindBlockPos
  <2> QED
    BY SMTT(15), <2>1, <2>2, PersistAssumption DEF Pos, File
<1>e. mapBlockIndex' = [mapBlockIndex EXCEPT ![b] =
        [has |-> "block", nFile |-> f, nDataPos |-> p, nUndoPos |-> 0]]
  BY Zenon, <1>f DEF Received
<1>o. \A c \in Block \ {b} : mapBlockIndex'[c] = mapBlockIndex[c]
  BY Zenon, <1>e DEF TypeOK
<1>b. mapBlockIndex'[b] = [has |-> "block", nFile |-> f, nDataPos |-> p, nUndoPos |-> 0]
  BY Zenon, <1>e DEF TypeOK
<1>v. /\ vinfoBlockFile' = [vinfoBlockFile EXCEPT ![f] = AddBlock(vinfoBlockFile[f], Height[b])]
      /\ vinfoBlockFile'[f].nSize = p
      /\ \A g \in File \ {f} : vinfoBlockFile'[g] = vinfoBlockFile[g]
  BY <1>f DEF AddBlock, TypeOK, FileInfo
<1>c. /\ blk'[f] = [blk[f] EXCEPT ![p] = b]
      /\ last # f => blk'[last] = Truncate(blk[last], vinfoBlockFile[last].nSize)
      /\ \A g \in File \ {f, last} : blk'[g] = blk[g]
  BY Zenon, <1>f, <1>n
<1>u. /\ unsynced' \subseteq unsynced \cup {<<"blk", f, p>>}
      /\ f # last => Committed \cap unsynced' = {}
  <2>1. unsynced' = (IF f # last THEN unsynced \ Committed ELSE unsynced) \cup {<<"blk", f, p>>}
    BY Zenon, <1>f
  <2>2. f # last => <<"blk", f, p>> \notin Committed
    BY Zenon DEF Committed
  <2> QED
    BY Zenon, <2>1, <2>2
<1> HIDE DEF n, p, last
<1>1. TypeOK'
  <2>1. mapBlockIndex' \in [Block -> Entry]
    <3>1. [has |-> "block", nFile |-> f, nDataPos |-> p, nUndoPos |-> 0] \in Entry
      BY Zenon, <1>n DEF Entry
    <3> QED
      BY Zenon, <1>e, <3>1 DEF TypeOK
  <2>2. vinfoBlockFile' \in [File -> FileInfo]
    <3>1. AddBlock(vinfoBlockFile[f], Height[b]) \in FileInfo
      <4>1. vinfoBlockFile[f] \in FileInfo /\ Height[b] \in Nat
        BY Zenon, PersistAssumption DEF TypeOK
      <4>2. vinfoBlockFile[f].nSize + 1 \in Pos
        BY Zenon, <1>n DEF n, p
      <4> QED
        BY Zenon, <4>1, <4>2 DEF AddBlock, FileInfo, Max2
    <3> QED
      BY Zenon, <1>v, <3>1 DEF TypeOK
  <2>3. blk' \in [File -> [Pos -> Block \cup {NoBlock}]]
    <3>1. [blk[f] EXCEPT ![p] = b] \in [Pos -> Block \cup {NoBlock}]
      BY Zenon DEF TypeOK
    <3>2. \A k : Truncate(blk[last], k) \in [Pos -> Block \cup {NoBlock}]
      BY SMTT(15), <1>n DEF TypeOK, Truncate
    <3>3. ASSUME NEW g \in File PROVE blk'[g] \in [Pos -> Block \cup {NoBlock}]
      <4>1. CASE g = f
        BY Zenon, <1>c, <3>1, <4>1
      <4>2. CASE g # f /\ g = last
        BY <1>c, <3>2, <4>2, Zenon
      <4>3. CASE g # f /\ g # last
        BY Zenon, <1>c, <4>3 DEF TypeOK
      <4> QED
        BY Zenon, <4>1, <4>2, <4>3
    <3>4. blk' = [g \in File |-> blk'[g]]
      BY Zenon, <1>f
    <3> QED
      BY Zenon, <3>3, <3>4
  <2>4. rev' \in [File -> [Pos -> Block \cup {NoBlock}]]
    <3>1. \A k : Truncate(rev[last], k) \in [Pos -> Block \cup {NoBlock}]
      BY SMTT(15), <1>n DEF TypeOK, Truncate
    <3>2. rev' = rev \/ \E k : rev' = [rev EXCEPT ![last] = Truncate(rev[last], k)]
      BY Zenon, <1>f DEF last
    <3>3. CASE \E k : rev' = [rev EXCEPT ![last] = Truncate(rev[last], k)]
      BY SMTT(15), <1>n, <3>1, <3>3 DEF TypeOK
    <3> QED
      BY Zenon, <3>2, <3>3 DEF TypeOK
  <2>5. unsynced' \subseteq {"blk", "rev"} \X File \X Pos
    BY SMTT(15), <1>u, <1>n DEF TypeOK
  <2>6. setDirtyFileInfo' \subseteq File
    BY Zenon, <1>f DEF TypeOK
  <2>7. LinkBlock(b)
    BY Zenon DEF AcceptBlock
  <2>8. mapBlocksUnlinked' \subseteq Block /\ nChainTx' \subseteq Block
    BY Zenon, <2>7 DEF LinkBlock, Reached, TypeOK
  <2> QED
    BY Zenon, <1>0, <1>n, <2>1, <2>2, <2>3, <2>4, <2>5, <2>6, <2>8 DEF TypeOK
<1>2. DownInv' /\ TipInv'
  BY Zenon, <1>0 DEF DownInv, TipInv
<1>3. CleanInv'
  <2>1. setDirtyFileInfo' = setDirtyFileInfo \cup {f}
    BY Zenon, <1>f
  <2> QED
    BY Zenon, <1>0, <1>o, <1>v, <2>1 DEF CleanInv
<1>4. KnownInv'
  <2>1. \A c \in Block : Known(mapBlockIndex, c)' <=> Known(mapBlockIndex, c) \/ c = b
    BY SMTT(15), <1>o, <1>b DEF Known
  <2>2. \A c \in Block \ {b} : HaveData(mapBlockIndex, c)' => HaveData(mapBlockIndex, c)
    BY Zenon, <1>o DEF HaveData
  <2>3. ParentsKnown(mapBlockIndex)'
    BY Zenon, <1>0, <2>1, <2>2, PersistAssumption DEF KnownInv, ParentsKnown
  <2>4. ParentsKnown(dbIndex)'
    BY Zenon, <1>0 DEF KnownInv, ParentsKnown, Known, HaveData
  <2>5. \A c \in Block : Known(dbIndex, c)' => Known(dbIndex, c)
    BY Zenon, <1>0 DEF Known
  <2> QED
    BY Zenon, <1>0, <2>1, <2>3, <2>4, <2>5 DEF KnownInv, DownInv
<1>5. ChainstateIndexed'
  BY Zenon, <1>0 DEF ChainstateIndexed, Known
(* A cell below the recorded size of its file keeps its content.           *)
<1>k. ASSUME NEW g \in File, g <= last, NEW q \in Pos, q <= vinfoBlockFile[g].nSize
      PROVE  blk'[g][q] = blk[g][q] /\ <<g, q>> # <<f, p>>
  <2>1. vinfoBlockFile[g].nSize \in Int /\ q \in Int
    BY SMTT(15) DEF TypeOK, FileInfo, Pos
  <2>2. CASE g = f
    <3>1. q # p
      BY <1>k, <2>1, <2>2, <1>n DEF p, n
    <3> QED
      BY Zenon, <1>c, <2>2, <3>1 DEF TypeOK
  <2>3. CASE g # f /\ g = last
    BY Zenon, <1>c, <1>k, <2>3 DEF Truncate
  <2>4. CASE g # f /\ g # last
    BY Zenon, <1>c, <2>4
  <2> QED
    BY Zenon, <2>2, <2>3, <2>4
<1>6. MemInv'
  <2> SUFFICES ASSUME NEW c \in Block, HaveData(mapBlockIndex, c)'
               PROVE  Stored(mapBlockIndex, vinfoBlockFile, nLastBlockFile, c)'
    BY Zenon DEF MemInv, Stored
  <2>1. CASE c = b
    <3>1. blk'[f][p] = b
      BY Zenon, <1>c, <1>n DEF TypeOK
    <3>2. f <= f /\ p <= p
      BY <1>n DEF Pos
    <3> QED
      BY SMTT(15), <1>b, <1>v, <1>n, <2>1, <3>1, <3>2 DEF Stored
  <2>2. CASE c # b
    <3> DEFINE g == mapBlockIndex[c].nFile
               q == mapBlockIndex[c].nDataPos
    <3>1. mapBlockIndex'[c] = mapBlockIndex[c] /\ HaveData(mapBlockIndex, c)
      BY Zenon, <1>o, <2>2 DEF HaveData
    <3>2. g \in File /\ q \in Pos
      BY Zenon, <3>1 DEF TypeOK, Entry, HaveData
    <3>3. g <= last /\ q <= vinfoBlockFile[g].nSize /\ blk[g][q] = c
      BY Zenon, <3>1 DEF MemInv, Stored, last
    <3>4. blk'[g][q] = c
      BY Zenon, <1>k, <3>2, <3>3
    <3>5. q <= vinfoBlockFile'[g].nSize
      <4>1. CASE g = f
        BY SMTT(15), <1>v, <1>n, <3>2, <3>3, <4>1 DEF p, n, Pos
      <4>2. CASE g # f
        BY Zenon, <1>v, <3>2, <3>3, <4>2
      <4> QED
        BY Zenon, <4>1, <4>2
    <3>6. g <= f
      BY SMTT(15), <1>n, <3>2, <3>3 DEF File
    <3> QED
      BY Zenon, <1>n, <3>1, <3>4, <3>5, <3>6 DEF Stored
  <2> QED
    BY Zenon, <2>1, <2>2
<1>d. ASSUME NEW c \in Block, HaveData(dbIndex, c)
      PROVE  /\ dbIndex[c].nFile \in File /\ dbIndex[c].nDataPos \in Pos
             /\ dbIndex[c].nFile <= last
             /\ blk'[dbIndex[c].nFile][dbIndex[c].nDataPos] = c
             /\ <<dbIndex[c].nFile, dbIndex[c].nDataPos>> # <<f, p>>
             /\ dbIndex[c].nFile = f => dbIndex[c].nDataPos <= n
  <2> DEFINE g == dbIndex[c].nFile
             q == dbIndex[c].nDataPos
  <2>1. g \in File /\ q \in Pos
    BY Zenon, <1>d DEF TypeOK, Entry, HaveData
  <2>2. g <= dbLast /\ blk[g][q] = c
    BY Zenon, <1>d DEF DiskInv, Stored
  <2>3. g <= last
    BY SMTT(15), <1>0, <1>n, <2>1, <2>2 DEF AheadInv, File, TypeOK, last
  <2>4. g < last \/ q <= vinfoBlockFile[g].nSize
    BY Zenon, <1>0, <1>d DEF AheadInv, last
  <2>5. CASE g < last
    <3>1. g # f /\ g # last
      BY SMTT(15), <1>n, <2>1, <2>5 DEF File
    <3> QED
      BY Zenon, <1>c, <2>1, <2>2, <2>3, <3>1
  <2>6. CASE q <= vinfoBlockFile[g].nSize
    BY Zenon, <1>k, <2>1, <2>2, <2>3, <2>6 DEF n
  <2> QED
    BY Zenon, <2>4, <2>5, <2>6
<1>7. DiskInv'
  BY Zenon, <1>0, <1>d DEF DiskInv, Stored, HaveData
<1>8. AheadInv'
  <2>1. dbLast <= f
    BY SMTT(15), <1>0, <1>n DEF AheadInv, TypeOK, File, last
  <2> SUFFICES ASSUME NEW c \in Block, HaveData(dbIndex, c)
               PROVE  \/ dbIndex[c].nFile < f
                      \/ dbIndex[c].nDataPos <= vinfoBlockFile'[dbIndex[c].nFile].nSize
    BY Zenon, <1>0, <1>n, <2>1 DEF AheadInv, HaveData
  <2>2. CASE dbIndex[c].nFile = f
    BY SMTT(15), <1>d, <1>v, <1>n, <2>2 DEF p, Pos
  <2>3. CASE dbIndex[c].nFile # f
    BY SMTT(15), <1>d, <1>n, <2>3 DEF File
  <2> QED
    BY Zenon, <2>2, <2>3
<1>9. CommitInv'
  <2>1. \A c \in Block : HaveData(dbIndex, c) => DataCell(dbIndex, c) \notin unsynced'
    BY Zenon, <1>u, <1>d DEF CommitInv, DataCell
  <2>2. ASSUME NEW c \in Block, HaveData(mapBlockIndex, c)', DataCell(mapBlockIndex, c)' \in unsynced'
        PROVE  mapBlockIndex'[c].nFile = f
    <3>1. CASE c = b
      BY SMTT(15), <1>b, <3>1
    <3>2. CASE c # b
      <4>1. mapBlockIndex'[c] = mapBlockIndex[c] /\ HaveData(mapBlockIndex, c)
        BY Zenon, <1>o, <2>2, <3>2 DEF HaveData
      <4>2. CASE DataCell(mapBlockIndex, c) \in unsynced
        <5>1. mapBlockIndex[c].nFile = last
          BY Zenon, <4>1, <4>2 DEF CommitInv, last
        <5>2. DataCell(mapBlockIndex, c) \in Committed
          BY Zenon, <4>2, <5>1 DEF Committed, DataCell, last
        <5> QED
          BY Zenon, <1>u, <2>2, <4>1, <5>1, <5>2 DEF DataCell
      <4>3. CASE DataCell(mapBlockIndex, c) \notin unsynced
        BY Zenon, <1>u, <2>2, <4>1, <4>3 DEF DataCell
      <4> QED
        BY Zenon, <4>2, <4>3
    <3> QED
      BY Zenon, <3>1, <3>2
  <2> QED
    BY Zenon, <1>0, <1>n, <2>1, <2>2 DEF CommitInv, HaveData, DataCell
<1>10. PruneInv'
  BY Zenon, <1>0 DEF PruneInv
<1> QED
  BY Zenon, <1>1, <1>2, <1>3, <1>4, <1>5, <1>6, <1>7, <1>8, <1>9, <1>10

(* Undo data goes behind the undo data of the file of its block.           *)
LEMMA ConnectTipInv ==
  ASSUME Inv, NEW b \in Block \ {Genesis}, ConnectTip(b) PROVE Inv'
<1> USE DEF Inv
<1>0. /\ UNCHANGED <<nLastBlockFile, mapBlocksUnlinked, nChainTx, tip, node, fDoFullFlush,
           setFilesToPrune, blk, dbIndex, dbInfo, dbLast, dbBest, dbOld, nEvents, badBlock>>
      /\ pc = "idle" /\ pc' = "begin" /\ mode' = "ifneeded" /\ Alive /\ Alive'
      /\ coinsBest' = b /\ HaveData(mapBlockIndex, b)
  BY Zenon DEF ConnectTip, memVars, cellVars, dbVars, coinsDbVars, Running, Alive
<1> DEFINE f == mapBlockIndex[b].nFile
           p == vinfoBlockFile[f].nUndoSize + 1
<1>f. f \in File
  BY Zenon DEF TypeOK, Entry
<1>1. \/ UNCHANGED <<mapBlockIndex, vinfoBlockFile, setDirtyBlockIndex, setDirtyFileInfo,
                     rev, unsynced>>
      \/ /\ p \in Pos
         /\ rev' = [rev EXCEPT ![f] = [@ EXCEPT ![p] = b]]
         /\ unsynced' = unsynced \cup {<<"rev", f, p>>}
         /\ vinfoBlockFile' = [vinfoBlockFile EXCEPT ![f] = [@ EXCEPT !.nUndoSize = p]]
         /\ setDirtyFileInfo' = setDirtyFileInfo \cup {f}
         /\ mapBlockIndex' = [mapBlockIndex EXCEPT ![b] = [@ EXCEPT !.nUndoPos = p]]
         /\ setDirtyBlockIndex' = setDirtyBlockIndex \cup {b}
  BY Zenon DEF ConnectTip, memVars, cellVars
<1>2. TypeOK'
  <2>1. CASE UNCHANGED <<mapBlockIndex, vinfoBlockFile, setDirtyBlockIndex, setDirtyFileInfo,
                         rev, unsynced>>
    BY Zenon, <1>0, <2>1 DEF TypeOK
  <2>2. CASE ~UNCHANGED <<mapBlockIndex, vinfoBlockFile, setDirtyBlockIndex, setDirtyFileInfo,
                          rev, unsynced>>
    <3> HIDE DEF f, p
    <3>0. p \in Pos /\ mapBlockIndex[b] \in Entry /\ vinfoBlockFile[f] \in FileInfo
      BY Zenon, <1>1, <1>f, <2>2 DEF TypeOK
    <3>1. [mapBlockIndex[b] EXCEPT !.nUndoPos = p] \in Entry
      BY Zenon, <3>0 DEF Entry
    <3>2. [vinfoBlockFile[f] EXCEPT !.nUndoSize = p] \in FileInfo
      BY Zenon, <3>0 DEF FileInfo
    <3>3. mapBlockIndex' \in [Block -> Entry]
      BY ZenonT(30), <1>1, <2>2, <3>1 DEF TypeOK
    <3>4. vinfoBlockFile' \in [File -> FileInfo]
      BY ZenonT(30), <1>1, <1>f, <2>2, <3>2 DEF TypeOK
    <3>5. [rev[f] EXCEPT ![p] = b] \in [Pos -> Block \cup {NoBlock}]
      BY Zenon, <1>f DEF TypeOK
    <3>6. rev' \in [File -> [Pos -> Block \cup {NoBlock}]]
      BY Zenon, <1>1, <1>f, <2>2, <3>5 DEF TypeOK
    <3>7. unsynced' \subseteq {"blk", "rev"} \X File \X Pos
      BY <1>1, <1>f, <2>2 DEF TypeOK
    <3>8. setDirtyFileInfo' \subseteq File /\ setDirtyBlockIndex' \subseteq Block
      BY Zenon, <1>1, <1>f, <2>2 DEF TypeOK
    <3> QED
      BY Zenon, <1>0, <3>3, <3>4, <3>6, <3>7, <3>8 DEF TypeOK
  <2> QED
    BY Zenon, <2>1, <2>2
<1>3. /\ \A c \in Block : /\ mapBlockIndex'[c].has = mapBlockIndex[c].has
                          /\ mapBlockIndex'[c].nFile = mapBlockIndex[c].nFile
                          /\ mapBlockIndex'[c].nDataPos = mapBlockIndex[c].nDataPos
      /\ \A g \in File : vinfoBlockFile'[g].nSize = vinfoBlockFile[g].nSize
      /\ \A c \in Block \ setDirtyBlockIndex' :
           c \notin setDirtyBlockIndex /\ mapBlockIndex'[c] = mapBlockIndex[c]
      /\ \A g \in File \ setDirtyFileInfo' :
           g \notin setDirtyFileInfo /\ vinfoBlockFile'[g] = vinfoBlockFile[g]
      /\ \A c \in unsynced' : c \in unsynced \/ c = <<"rev", f, p>>
  <2> HIDE DEF f, p
  <2>1. CASE UNCHANGED <<mapBlockIndex, vinfoBlockFile, setDirtyBlockIndex, setDirtyFileInfo,
                         rev, unsynced>>
    BY Zenon, <2>1
  <2>2. CASE ~UNCHANGED <<mapBlockIndex, vinfoBlockFile, setDirtyBlockIndex, setDirtyFileInfo,
                          rev, unsynced>>
    <3>1. /\ vinfoBlockFile' = [vinfoBlockFile EXCEPT ![f] = [@ EXCEPT !.nUndoSize = p]]
          /\ setDirtyFileInfo' = setDirtyFileInfo \cup {f}
          /\ mapBlockIndex' = [mapBlockIndex EXCEPT ![b] = [@ EXCEPT !.nUndoPos = p]]
          /\ setDirtyBlockIndex' = setDirtyBlockIndex \cup {b}
          /\ unsynced' = unsynced \cup {<<"rev", f, p>>}
      BY Zenon, <1>1, <2>2
    <3> QED
      BY <3>1, <1>f DEF TypeOK, Entry, FileInfo
  <2> QED
    BY Zenon, <2>1, <2>2
<1> HIDE DEF f, p
<1>4. /\ \A c \in Block : HaveData(mapBlockIndex, c)' <=> HaveData(mapBlockIndex, c)
      /\ \A c \in Block : Known(mapBlockIndex, c)' <=> Known(mapBlockIndex, c)
      /\ \A c \in Block : DataCell(mapBlockIndex, c)' = DataCell(mapBlockIndex, c)
  BY Zenon, <1>3 DEF HaveData, Known, DataCell
<1>5. DownInv' /\ TipInv'
  BY Zenon, <1>0 DEF DownInv, TipInv
<1>6. CleanInv'
  BY Zenon, <1>0, <1>3 DEF CleanInv
<1>7. KnownInv'
  <2>1. ParentsKnown(mapBlockIndex)'
    BY Zenon, <1>4, PersistAssumption DEF KnownInv, ParentsKnown
  <2>2. ParentsKnown(dbIndex)' /\ \A c \in Block : Known(dbIndex, c)' => Known(dbIndex, c)
    BY Zenon, <1>0 DEF KnownInv, ParentsKnown, Known, HaveData
  <2>3. Known(mapBlockIndex, b)
    BY Zenon, <1>0 DEF KnownInv, ParentsKnown
  <2> QED
    BY Zenon, <1>0, <1>4, <2>1, <2>2, <2>3 DEF KnownInv, DownInv
<1>8. ChainstateIndexed' /\ DiskInv'
  BY <1>0, Zenon DEF ChainstateIndexed, DiskInv, Stored, Known, HaveData
<1>9. MemInv'
  <2> SUFFICES ASSUME NEW c \in Block, HaveData(mapBlockIndex, c)
               PROVE  Stored(mapBlockIndex, vinfoBlockFile, nLastBlockFile, c)'
    BY Zenon, <1>4 DEF MemInv, Stored
  <2>1. mapBlockIndex[c].nFile \in File
    BY Zenon DEF TypeOK, Entry
  <2> QED
    BY Zenon, <1>0, <1>3, <2>1 DEF MemInv, Stored
<1>10. AheadInv'
  <2>1. \A c \in Block : dbIndex[c].nFile \in File
    BY Zenon DEF TypeOK, Entry
  <2> QED
    BY Zenon, <1>0, <1>3, <2>1 DEF AheadInv, HaveData
<1>11. CommitInv'
  <2>1. \A c \in Block : DataCell(mapBlockIndex, c) # <<"rev", f, p>>
                         /\ DataCell(dbIndex, c) # <<"rev", f, p>>
    BY Zenon DEF DataCell
  <2>2. \A c \in Block : /\ DataCell(dbIndex, c)' = DataCell(dbIndex, c)
                         /\ HaveData(dbIndex, c)' <=> HaveData(dbIndex, c)
    BY Zenon, <1>0 DEF DataCell, HaveData
  <2> QED
    BY Zenon, <1>0, <1>3, <1>4, <2>1, <2>2 DEF CommitInv
<1>12. PruneInv'
  BY Zenon, <1>0 DEF PruneInv
<1> QED
  BY Zenon, <1>2, <1>5, <1>6, <1>7, <1>8, <1>9, <1>10, <1>11, <1>12

(* Every step keeps Inv.                                                   *)
LEMMA NextInv == Inv /\ [Next]_vars => Inv'
<1> SUFFICES ASSUME Inv, [Next]_vars PROVE Inv'
  BY Zenon
<1>1. CASE BlockStep
  BY Zenon, <1>1, EntersBlock, EnteredInv, AcceptBlockInv, ConnectTipInv, DisconnectTipInv
     DEF BlockStep
<1>2. CASE FlushStep
  BY Zenon, <1>2, BeginInv, FlushNotNeededInv, FlushForPruneInv, FlushBlockFileInv, WriteBatchInv,
     UnlinkInv, IndexOnlyInv, FlushCoinsInv, FlushNoSpaceInv DEF FlushStep
<1>3. CASE UNCHANGED vars
  <2>0. UNCHANGED <<mapBlockIndex, vinfoBlockFile, nLastBlockFile, setDirtyBlockIndex,
          setDirtyFileInfo, mapBlocksUnlinked, nChainTx, coinsBest, tip, node, pc, mode,
          fDoFullFlush, setFilesToPrune, blk, rev, unsynced, dbIndex, dbInfo, dbLast, dbBest,
          dbOld, nEvents, badBlock>>
    BY Zenon, <1>3 DEF vars, memVars, bestVars, flushVars, cellVars, dbVars, coinsDbVars
  <2> USE <2>0 DEF Inv
  <2>1. TypeOK' /\ DownInv' /\ CleanInv' /\ TipInv'
    BY SMTT(15) DEF TypeOK, DownInv, CleanInv, TipInv, Alive
  <2>2. KnownInv' /\ ChainstateIndexed'
    BY Zenon DEF KnownInv, ParentsKnown, ChainstateIndexed, Known, HaveData, Alive
  <2>3. MemInv' /\ DiskInv' /\ AheadInv' /\ CommitInv' /\ PruneInv'
    BY Zenon DEF MemInv, DiskInv, AheadInv, CommitInv, PruneInv, Alive, HaveData, Stored, DataCell
  <2> QED
    BY Zenon, <2>1, <2>2, <2>3
<1> QED
  BY Zenon, <1>1, <1>2, <1>3, KillInv, PowerFailsInv, LoadInv, StartupFailsInv DEF Next

(* The inductive invariant holds in every behaviour of the node with       *)
(* crashes and power failures.                                             *)
THEOREM Invariance == Spec => []Inv
BY InitInv, NextInv, PTL DEF Spec

(* The chainstate on disk never names a block that the index on disk does  *)
(* not know: FlushStateToDisk writes the index before the coins.           *)
THEOREM ChainstateNeverAhead == Spec => []ChainstateIndexed
<1>1. Inv => ChainstateIndexed
  BY Zenon DEF Inv
<1> QED
  BY <1>1, Invariance, PTL

(* ReadBlockFromDisk finds every block that an index entry with            *)
(* BLOCK_HAVE_DATA names, on disk or in memory, through crashes, power     *)
(* failures, prunings and restarts.                                        *)
THEOREM BlocksNeverLost == Spec => []BlocksReadable
<1>1. Inv => BlocksReadable
  BY Zenon DEF Inv, BlocksReadable, MemInv, DiskInv, Stored, Readable
<1> QED
  BY <1>1, Invariance, PTL

(* ConnectBlock and DisconnectBlock always start from coins that are at    *)
(* the tip of the active chain, whatever the flush did before.             *)
THEOREM CoinsFollowTip == Spec => []CoinsAtTip
<1>1. Inv => CoinsAtTip
  BY Zenon DEF Inv, CoinsAtTip, TipInv, Running
<1> QED
  BY <1>1, Invariance, PTL

-----------------------------------------------------------------------------
(* Undo data.  It is written to the file of its block, which need not be   *)
(* the last one; FlushBlockFile then does not commit it, so the contents   *)
(* are only certain while the power does not fail.                         *)
NoPowerLoss == nEvents["power"] = 0
UndoStored(index, info, b) ==
  HaveUndo(index, b) =>
    /\ HaveData(index, b)
    /\ index[b].nUndoPos <= info[index[b].nFile].nUndoSize
    /\ NoPowerLoss => rev[index[b].nFile][index[b].nUndoPos] = b

(* A file whose record was cleared by pruning gets no more undo data.      *)
UndoBehind(b) ==
  HaveUndo(dbIndex, b) =>
    \/ dbIndex[b].nUndoPos <= vinfoBlockFile[dbIndex[b].nFile].nUndoSize
    \/ /\ dbIndex[b].nFile < nLastBlockFile
       /\ \A c \in Block : HaveData(mapBlockIndex, c) => mapBlockIndex[c].nFile # dbIndex[b].nFile

UndoInv ==
  /\ \A b \in Block : UndoStored(mapBlockIndex, vinfoBlockFile, b)
  /\ \A b \in Block : UndoStored(dbIndex, dbInfo, b)
  /\ Alive => \A b \in Block : UndoBehind(b)

(* A step that spends an event does not take back a power failure.         *)
LEMMA SpendPower ==
  ASSUME Inv, NEW e \in Event, Spend(e), nEvents'["power"] = 0
  PROVE  nEvents["power"] = 0
<1>1. nEvents \in [Event -> Nat] /\ "power" \in Event /\ "any" \in Event
  BY Zenon DEF Inv, TypeOK, Event
<1>2. nEvents' = [nEvents EXCEPT ![e] = nEvents[e] + 1, !["any"] = nEvents'["any"]]
  BY Zenon, <1>1 DEF Spend
<1>3. "power" # "any"
  BY Zenon
<1>4. CASE e = "power"
  <2>1. nEvents'["power"] = nEvents["power"] + 1
    BY Zenon, <1>1, <1>2, <1>3, <1>4
  <2> QED
    BY <1>1, <2>1
<1>5. CASE e # "power"
  BY Zenon, <1>1, <1>2, <1>3, <1>5
<1> QED
  BY Zenon, <1>4, <1>5

(* Steps that change neither index nor file records nor undo files.        *)
LEMMA UndoFrame ==
  ASSUME UndoInv,
         UNCHANGED <<mapBlockIndex, vinfoBlockFile, nLastBlockFile, rev, dbIndex, dbInfo>>,
         Alive' => Alive, NoPowerLoss' => NoPowerLoss
  PROVE  UndoInv'
<1>1. \A b \in Block : UndoBehind(b) => UndoBehind(b)'
  BY Zenon DEF UndoBehind, HaveUndo, HaveData
<1>2. \A b \in Block : /\ UndoStored(mapBlockIndex, vinfoBlockFile, b)
                            => UndoStored(mapBlockIndex, vinfoBlockFile, b)'
                       /\ UndoStored(dbIndex, dbInfo, b) => UndoStored(dbIndex, dbInfo, b)'
  BY Zenon DEF UndoStored, HaveUndo, HaveData
<1> QED
  BY Zenon, <1>1, <1>2 DEF UndoInv

(* The process ends, and the power may have failed.                        *)
LEMMA UndoUnload ==
  ASSUME UndoInv, Unloaded, node' = "down", UNCHANGED <<dbIndex, dbInfo>>,
         NoPowerLoss' => NoPowerLoss /\ UNCHANGED rev
  PROVE  UndoInv'
<1>1. \A b \in Block : UndoStored(mapBlockIndex, vinfoBlockFile, b)'
  BY Zenon DEF UndoStored, HaveUndo, Unloaded, NoEntry
<1>2. \A b \in Block : UndoStored(dbIndex, dbInfo, b)'
  BY Zenon DEF UndoInv, UndoStored, HaveUndo, HaveData
<1> QED
  BY Zenon, <1>1, <1>2 DEF UndoInv, Alive

(* FlushStateToDisk returns, with or without an error.                     *)
LEMMA UndoReturns ==
  ASSUME Inv, UndoInv, pc # "idle", NEW r, FlushReturns(r),
         UNCHANGED <<rev, dbIndex, dbInfo>>, NoPowerLoss' => NoPowerLoss
  PROVE  UndoInv'
<1>1. CASE mode = "always"
  BY Zenon, <1>1, UndoUnload DEF FlushReturns
<1>2. CASE mode # "always"
  <2>1. UNCHANGED <<mapBlockIndex, vinfoBlockFile, nLastBlockFile>> /\ Alive
    BY Zenon, <1>2 DEF FlushReturns, memVars, Inv, DownInv
  <2> QED
    BY Zenon, <2>1, UndoFrame
<1> QED
  BY Zenon, <1>1, <1>2

(* Steps that write no undo data, and faults.                              *)
LEMMA FlushUndo ==
  ASSUME Inv, UndoInv,
         \/ FlushPeriodic \/ Shutdown \/ FlushNotNeeded \/ FlushNeeded
         \/ FlushBlockFile \/ IndexOnly \/ FlushCoins \/ FlushNoSpace \/ DisconnectTip
         \/ Kill \/ StartupFails \/ PowerFails
  PROVE  UndoInv'
<1>0. {"flush", "stop", "space", "kill", "power"} \subseteq Event
  BY Zenon DEF Event
<1>1. CASE FlushPeriodic \/ Shutdown \/ FlushNeeded \/ FlushBlockFile \/ DisconnectTip
           \/ StartupFails
  <2>1. UNCHANGED <<mapBlockIndex, vinfoBlockFile, nLastBlockFile, rev, dbIndex, dbInfo>>
    BY Zenon, <1>1 DEF FlushPeriodic, Shutdown, FlushNeeded, FlushBlockFile, DisconnectTip,
       StartupFails, memVars, cellVars, dbVars
  <2>2. Alive' => Alive
    BY Zenon, <1>1 DEF FlushPeriodic, Shutdown, FlushNeeded, FlushBlockFile, DisconnectTip,
       StartupFails, Alive
  <2>3. NoPowerLoss' => NoPowerLoss
    BY Zenon, <1>0, <1>1, SpendPower DEF NoPowerLoss, FlushPeriodic, Shutdown, FlushNeeded,
       FlushBlockFile, DisconnectTip, StartupFails
  <2> QED
    BY Zenon, <2>1, <2>2, <2>3, UndoFrame
<1>2. CASE FlushNotNeeded \/ IndexOnly \/ FlushCoins \/ FlushNoSpace
  <2>1. UNCHANGED <<rev, dbIndex, dbInfo>> /\ pc # "idle" /\ \E r : FlushReturns(r)
    BY Zenon, <1>2 DEF FlushNotNeeded, IndexOnly, FlushCoins, FlushNoSpace, cellVars, dbVars
  <2>2. NoPowerLoss' => NoPowerLoss
    BY Zenon, <1>0, <1>2, SpendPower DEF NoPowerLoss, FlushNotNeeded, IndexOnly, FlushCoins, FlushNoSpace
  <2> QED
    BY Zenon, <2>1, <2>2, UndoReturns
<1>3. CASE Kill
  <2>1. NoPowerLoss' => NoPowerLoss
    BY Zenon, <1>0, <1>3, SpendPower DEF NoPowerLoss, Kill
  <2> QED
    BY Zenon, <1>3, <2>1, UndoUnload DEF Kill, cellVars, dbVars
<1>4. CASE PowerFails
  <2>1. ~NoPowerLoss'
    <3>1. nEvents \in [Event -> Nat] /\ nEvents["power"] \in Nat
      BY Zenon, <1>0 DEF Inv, TypeOK
    <3>2. nEvents'["power"] = nEvents["power"] + 1
      BY Zenon, <1>4, <3>1 DEF PowerFails, Spend, Event
    <3> QED
      BY <3>1, <3>2 DEF NoPowerLoss
  <2> QED
    BY Zenon, <1>4, <2>1, UndoUnload DEF PowerFails, dbVars
<1> QED
  BY Zenon, <1>1, <1>2, <1>3, <1>4

(* The node comes up with the undo records of the index on disk.           *)
LEMMA LoadUndo == Inv /\ UndoInv /\ LoadBlockIndexDB => UndoInv'
<1> SUFFICES ASSUME Inv, UndoInv, LoadBlockIndexDB PROVE UndoInv'
  BY Zenon
<1>0. /\ mapBlockIndex' = dbIndex /\ vinfoBlockFile' = dbInfo
      /\ UNCHANGED <<dbIndex, dbInfo, rev, nEvents>>
  BY Zenon DEF LoadBlockIndexDB, dbVars, cellVars
<1>1. \A b \in Block : UndoStored(dbIndex, dbInfo, b)'
  BY <1>0, Zenon DEF UndoInv, UndoStored, HaveUndo, HaveData, NoPowerLoss
<1>2. \A b \in Block : UndoStored(mapBlockIndex, vinfoBlockFile, b)'
  BY Zenon, <1>0, <1>1 DEF UndoStored, HaveUndo, HaveData
<1>3. \A b \in Block : UndoBehind(b)'
  BY Zenon, <1>0, <1>1 DEF UndoStored, UndoBehind, HaveUndo
<1> QED
  BY Zenon, <1>1, <1>2, <1>3 DEF UndoInv

(* The undo records on disk become the ones in memory.                     *)
LEMMA WriteBatchUndo == Inv /\ UndoInv /\ WriteBatchSync => UndoInv'
<1> SUFFICES ASSUME Inv, UndoInv, WriteBatchSync PROVE UndoInv'
  BY Zenon
<1>0. dbIndex' = mapBlockIndex /\ dbInfo' = vinfoBlockFile
  BY Zenon, WriteBatchEffect
<1>1. UNCHANGED <<mapBlockIndex, vinfoBlockFile, rev, nEvents>>
  BY Zenon DEF WriteBatchSync, cellVars
<1>2. \A b \in Block : UndoStored(mapBlockIndex, vinfoBlockFile, b)'
  BY <1>1, Zenon DEF UndoInv, UndoStored, HaveUndo, HaveData, NoPowerLoss
<1>3. \A b \in Block : UndoStored(dbIndex, dbInfo, b)'
  BY Zenon, <1>0, <1>1, <1>2 DEF UndoStored, HaveUndo, HaveData
<1>4. \A b \in Block : UndoBehind(b)'
  BY Zenon, <1>0, <1>1, <1>3 DEF UndoStored, UndoBehind, HaveUndo
<1> QED
  BY Zenon, <1>2, <1>3, <1>4 DEF UndoInv

(* No index names undo data of a file that is removed.                     *)
LEMMA UnlinkUndo == Inv /\ UndoInv /\ UnlinkPrunedFiles => UndoInv'
<1> SUFFICES ASSUME Inv, UndoInv, UnlinkPrunedFiles PROVE UndoInv'
  BY Zenon
<1>0. /\ UNCHANGED <<mapBlockIndex, vinfoBlockFile, nLastBlockFile, dbIndex, dbInfo, node, nEvents>>
      /\ \A f \in File \ setFilesToPrune : rev'[f] = rev[f]
      /\ pc = "unlink"
  BY Zenon DEF UnlinkPrunedFiles, memVars, dbVars
<1>1. \A b \in Block : dbIndex[b] = mapBlockIndex[b]
  BY Zenon, <1>0 DEF Inv, CleanInv, DownInv, Alive
<1>2. ASSUME NEW b \in Block, HaveUndo(mapBlockIndex, b)
      PROVE  mapBlockIndex[b].nFile \in File \ setFilesToPrune
  <2>1. HaveData(mapBlockIndex, b)
    BY Zenon, <1>2 DEF UndoInv, UndoStored
  <2> QED
    BY Zenon, <2>1 DEF Inv, PruneInv, TypeOK, Entry
<1>3. \A b \in Block : UndoStored(mapBlockIndex, vinfoBlockFile, b)'
  BY Zenon, <1>0, <1>2 DEF UndoInv, UndoStored, HaveUndo, HaveData, NoPowerLoss
<1>4. \A b \in Block : UndoStored(dbIndex, dbInfo, b)'
  BY SMTT(15), <1>0, <1>1, <1>2 DEF UndoInv, UndoStored, HaveUndo, HaveData, NoPowerLoss
<1>5. \A b \in Block : UndoBehind(b) => UndoBehind(b)'
  BY <1>0, Zenon DEF UndoBehind, HaveUndo, HaveData
<1> QED
  BY Zenon, <1>0, <1>3, <1>4, <1>5 DEF UndoInv, Alive

(* A new header, or a rejected block, has no undo data.                    *)
LEMMA EnteredUndo ==
  ASSUME Inv, UndoInv, NEW b \in Block \ {Genesis}, Entered(b) PROVE UndoInv'
<1>0. /\ UNCHANGED <<vinfoBlockFile, nLastBlockFile, rev, dbIndex, dbInfo, node>>
      /\ \E h : mapBlockIndex' = [mapBlockIndex EXCEPT ![b] = [NoEntry EXCEPT !.has = h]]
  BY Zenon DEF Entered
<1>1. NoPowerLoss' => NoPowerLoss
  BY Zenon, SpendPower DEF Entered, NoPowerLoss, Event
<1>2. /\ \A c \in Block \ {b} : mapBlockIndex'[c] = mapBlockIndex[c]
      /\ mapBlockIndex'[b].nDataPos = 0 /\ mapBlockIndex'[b].nUndoPos = 0
  BY Zenon, <1>0 DEF Inv, TypeOK, NoEntry
<1>3. \A c \in Block : UndoStored(mapBlockIndex, vinfoBlockFile, c)'
  BY <1>0, <1>1, <1>2 DEF UndoInv, UndoStored, HaveUndo, HaveData
<1>4. \A c \in Block : UndoStored(dbIndex, dbInfo, c)'
  BY Zenon, <1>0, <1>1 DEF UndoInv, UndoStored, HaveUndo, HaveData
<1>5. \A c \in Block : UndoBehind(c) => UndoBehind(c)'
  BY Zenon, <1>0, <1>2 DEF UndoBehind, HaveUndo, HaveData
<1> QED
  BY Zenon, <1>0, <1>3, <1>4, <1>5 DEF UndoInv, Alive

(* Pruned blocks lose their undo data with their data.                     *)
LEMMA FlushForPruneUndo == Inv /\ UndoInv /\ FlushForPrune => UndoInv'
<1> SUFFICES ASSUME Inv, UndoInv, FlushForPrune PROVE UndoInv'
  BY Zenon
<1>0. PICK S \in PruneChoices : PruneBlockFiles(S)
  BY Zenon DEF FlushForPrune
<1>1. UNCHANGED <<nLastBlockFile, rev, dbIndex, dbInfo, node>>
  BY Zenon DEF FlushForPrune, cellVars, dbVars
<1>2. NoPowerLoss' => NoPowerLoss
  BY Zenon, SpendPower DEF FlushForPrune, NoPowerLoss, Event
<1>3. S \subseteq File /\ \A f \in S : f < nLastBlockFile
  BY Zenon DEF PruneChoices, MayPrune
<1>4. \A c \in Block :
        IF c \in InFiles(S) THEN mapBlockIndex'[c].nDataPos = 0 /\ mapBlockIndex'[c].nUndoPos = 0
        ELSE mapBlockIndex'[c] = mapBlockIndex[c]
  BY Zenon, <1>0 DEF PruneBlockFiles, NoEntry
<1>5. \A c \in Block : HaveData(mapBlockIndex, c)' =>
        /\ mapBlockIndex'[c] = mapBlockIndex[c]
        /\ HaveData(mapBlockIndex, c) /\ mapBlockIndex[c].nFile \notin S
  BY Zenon, <1>4 DEF HaveData, InFiles, Inv, KnownInv, ParentsKnown
<1>6. \A f \in File \ S : vinfoBlockFile'[f] = vinfoBlockFile[f]
  BY Zenon, <1>0 DEF PruneBlockFiles
<1>7. \A c \in Block : mapBlockIndex[c].nFile \in File /\ dbIndex[c].nFile \in File
  BY Zenon DEF Inv, TypeOK, Entry
<1>8. ASSUME NEW c \in Block, HaveUndo(mapBlockIndex, c)'
      PROVE  UndoStored(mapBlockIndex, vinfoBlockFile, c)'
  <2>1. c \notin InFiles(S) /\ mapBlockIndex'[c] = mapBlockIndex[c] /\ HaveUndo(mapBlockIndex, c)
    BY Zenon, <1>4, <1>8 DEF HaveUndo
  <2>2. HaveData(mapBlockIndex, c)
    BY Zenon, <2>1 DEF UndoInv, UndoStored
  <2>3. HaveData(mapBlockIndex, c)'
    BY Zenon, <2>1, <2>2 DEF HaveData
  <2>4. vinfoBlockFile'[mapBlockIndex[c].nFile] = vinfoBlockFile[mapBlockIndex[c].nFile]
    BY Zenon, <1>5, <1>6, <1>7, <2>3
  <2> QED
    BY Zenon, <1>1, <1>2, <2>1, <2>3, <2>4 DEF UndoInv, UndoStored
<1>9. \A c \in Block : UndoStored(mapBlockIndex, vinfoBlockFile, c)'
  BY Zenon, <1>8 DEF UndoStored
<1>10. \A c \in Block : UndoStored(dbIndex, dbInfo, c)'
  BY Zenon, <1>1, <1>2 DEF UndoInv, UndoStored, HaveUndo, HaveData
<1>11. ASSUME NEW c \in Block, UndoBehind(c), HaveUndo(dbIndex, c)' PROVE UndoBehind(c)'
  <2>0. HaveUndo(dbIndex, c)
    BY Zenon, <1>1, <1>11 DEF HaveUndo
  <2>1. CASE dbIndex[c].nFile \in S
    BY Zenon, <1>1, <1>3, <1>5, <2>1 DEF UndoBehind
  <2>2. CASE dbIndex[c].nFile \notin S
    BY Zenon, <1>1, <1>5, <1>6, <1>7, <1>11, <2>0, <2>2 DEF UndoBehind
  <2> QED
    BY Zenon, <2>1, <2>2
<1>12. \A c \in Block : UndoBehind(c) => UndoBehind(c)'
  BY Zenon, <1>11 DEF UndoBehind
<1> QED
  BY Zenon, <1>1, <1>9, <1>10, <1>12 DEF UndoInv, Alive

(* A file that is left keeps the undo data that is recorded.               *)
LEMMA AcceptBlockUndo ==
  ASSUME Inv, UndoInv, NEW b \in Block \ {Genesis}, AcceptBlock(b) PROVE UndoInv'
<1>0. UNCHANGED <<node, dbIndex, dbInfo, nEvents>> /\ Alive
  BY Zenon DEF AcceptBlock, dbVars, Running, Alive
<1>1. PICK f \in File :
        /\ FindBlockPos(f)
        /\ rev' = IF f # nLastBlockFile
             THEN [rev EXCEPT ![nLastBlockFile] =
                     Truncate(@, vinfoBlockFile[nLastBlockFile].nUndoSize)]
             ELSE rev
        /\ vinfoBlockFile' = [vinfoBlockFile EXCEPT ![f] = AddBlock(@, Height[b])]
        /\ nLastBlockFile' = f
        /\ mapBlockIndex' = Received(b, f)
  BY Zenon DEF AcceptBlock
<1>2. nLastBlockFile \in File /\ f >= nLastBlockFile /\ f \in Int /\ nLastBlockFile \in Int
  BY SMTT(15), <1>1 DEF FindBlockPos, Inv, TypeOK, File
<1>3. \A g \in File : vinfoBlockFile'[g].nUndoSize = vinfoBlockFile[g].nUndoSize
  BY Zenon, <1>1 DEF AddBlock, Inv, TypeOK, FileInfo
<1>4. /\ mapBlockIndex'[b].nUndoPos = 0 /\ mapBlockIndex'[b].nFile = f
      /\ \A c \in Block \ {b} : mapBlockIndex'[c] = mapBlockIndex[c]
  BY Zenon, <1>1 DEF Received, Inv, TypeOK
<1>5. \A g \in File, q \in Pos :
        g # nLastBlockFile \/ q <= vinfoBlockFile[g].nUndoSize => rev'[g][q] = rev[g][q]
  BY Zenon, <1>1, <1>2 DEF Truncate, Inv, TypeOK
<1>6. ASSUME NEW c \in Block
      PROVE  /\ mapBlockIndex[c].nFile \in File /\ dbIndex[c].nFile \in File
             /\ HaveUndo(mapBlockIndex, c) => mapBlockIndex[c].nUndoPos \in Pos
             /\ HaveUndo(dbIndex, c) => dbIndex[c].nUndoPos \in Pos
  BY Zenon DEF Inv, TypeOK, Entry, HaveUndo
<1>7. ASSUME NEW c \in Block, HaveUndo(mapBlockIndex, c)'
      PROVE  UndoStored(mapBlockIndex, vinfoBlockFile, c)'
  <2>1. c # b /\ mapBlockIndex'[c] = mapBlockIndex[c] /\ HaveUndo(mapBlockIndex, c)
    BY Zenon, <1>4, <1>7 DEF HaveUndo
  <2>2. /\ HaveData(mapBlockIndex, c)
        /\ mapBlockIndex[c].nUndoPos <= vinfoBlockFile[mapBlockIndex[c].nFile].nUndoSize
        /\ NoPowerLoss => rev[mapBlockIndex[c].nFile][mapBlockIndex[c].nUndoPos] = c
    BY Zenon, <2>1 DEF UndoInv, UndoStored
  <2>3. rev'[mapBlockIndex[c].nFile][mapBlockIndex[c].nUndoPos]
          = rev[mapBlockIndex[c].nFile][mapBlockIndex[c].nUndoPos]
    BY Zenon, <1>5, <1>6, <2>1, <2>2
  <2> QED
    BY Zenon, <1>0, <1>3, <1>6, <2>1, <2>2, <2>3 DEF UndoStored, HaveData, NoPowerLoss
<1>8. \A c \in Block : UndoStored(mapBlockIndex, vinfoBlockFile, c)'
  BY Zenon, <1>7 DEF UndoStored
<1>9. ASSUME NEW c \in Block, HaveUndo(dbIndex, c)
      PROVE  UndoStored(dbIndex, dbInfo, c)' /\ UndoBehind(c)'
  <2>1. UndoStored(dbIndex, dbInfo, c) /\ UndoBehind(c)
    BY Zenon, <1>0, <1>9 DEF UndoInv
  <2>2. \/ dbIndex[c].nFile # nLastBlockFile
        \/ dbIndex[c].nUndoPos <= vinfoBlockFile[dbIndex[c].nFile].nUndoSize
    BY SMTT(15), <1>2, <1>9, <2>1 DEF UndoBehind
  <2>3. rev'[dbIndex[c].nFile][dbIndex[c].nUndoPos] = rev[dbIndex[c].nFile][dbIndex[c].nUndoPos]
    BY Zenon, <1>5, <1>6, <1>9, <2>2
  <2>4. UndoStored(dbIndex, dbInfo, c)'
    BY Zenon, <1>0, <2>1, <2>3 DEF UndoStored, HaveUndo, HaveData, NoPowerLoss
  <2>5. CASE dbIndex[c].nUndoPos <= vinfoBlockFile[dbIndex[c].nFile].nUndoSize
    BY Zenon, <1>0, <1>3, <1>6, <2>4, <2>5 DEF UndoBehind
  <2>6. CASE /\ dbIndex[c].nFile < nLastBlockFile
             /\ \A d \in Block : HaveData(mapBlockIndex, d)
                                   => mapBlockIndex[d].nFile # dbIndex[c].nFile
    <3>1. dbIndex[c].nFile < f /\ dbIndex[c].nFile # f
      BY SMTT(15), <1>2, <1>6, <2>6 DEF File
    <3>2. \A d \in Block : HaveData(mapBlockIndex, d)'
                             => mapBlockIndex'[d].nFile # dbIndex[c].nFile
      BY Zenon, <1>4, <2>6, <3>1 DEF HaveData
    <3> QED
      BY Zenon, <1>0, <1>1, <2>4, <3>1, <3>2 DEF UndoBehind
  <2> QED
    BY Zenon, <1>9, <2>1, <2>4, <2>5, <2>6 DEF UndoBehind
<1>10. \A c \in Block : UndoStored(dbIndex, dbInfo, c)' /\ UndoBehind(c)'
  BY Zenon, <1>0, <1>9 DEF UndoStored, UndoBehind, HaveUndo
<1> QED
  BY Zenon, <1>8, <1>10 DEF UndoInv

(* The cell that is written is behind the undo data of both indexes.       *)
LEMMA ConnectTipUndo ==
  ASSUME Inv, UndoInv, NEW b \in Block \ {Genesis}, ConnectTip(b) PROVE UndoInv'
<1>0. /\ UNCHANGED <<node, dbIndex, dbInfo, nEvents, nLastBlockFile>>
      /\ HaveData(mapBlockIndex, b) /\ Alive
  BY Zenon DEF ConnectTip, dbVars, memVars, Running, Alive
<1>1. CASE HaveUndo(mapBlockIndex, b)
  <2>1. UNCHANGED <<mapBlockIndex, vinfoBlockFile, rev>>
    BY Zenon, <1>1 DEF ConnectTip, memVars, cellVars
  <2> QED
    BY Zenon, <1>0, <2>1, UndoFrame DEF Alive, NoPowerLoss
<1>2. CASE ~HaveUndo(mapBlockIndex, b)
  <2> DEFINE f == mapBlockIndex[b].nFile
             n == vinfoBlockFile[f].nUndoSize
  <2>1. /\ n + 1 \in Pos
        /\ rev' = [rev EXCEPT ![f] = [@ EXCEPT ![n + 1] = b]]
        /\ vinfoBlockFile' = [vinfoBlockFile EXCEPT ![f] = [@ EXCEPT !.nUndoSize = n + 1]]
        /\ mapBlockIndex' = [mapBlockIndex EXCEPT ![b] = [@ EXCEPT !.nUndoPos = n + 1]]
    BY Zenon, <1>2 DEF ConnectTip
  <2>2. f \in File /\ vinfoBlockFile[f] \in FileInfo /\ n \in Nat
    <3>1. f \in File /\ vinfoBlockFile \in [File -> FileInfo]
      BY Zenon DEF Inv, TypeOK, Entry
    <3>2. vinfoBlockFile[f] \in FileInfo
      BY Zenon, <3>1
    <3> QED
      BY <3>1, <3>2 DEF FileInfo, Pos
  <2> HIDE DEF n
  <2>3. /\ vinfoBlockFile'[f].nUndoSize = n + 1
        /\ \A g \in File \ {f} : vinfoBlockFile'[g] = vinfoBlockFile[g]
    BY Zenon, <2>1, <2>2 DEF Inv, TypeOK, FileInfo
  <2>4. /\ mapBlockIndex'[b].nUndoPos = n + 1 /\ mapBlockIndex'[b].nFile = f
        /\ mapBlockIndex'[b].nDataPos = mapBlockIndex[b].nDataPos
        /\ \A c \in Block \ {b} : mapBlockIndex'[c] = mapBlockIndex[c]
    BY <2>1 DEF Inv, TypeOK, Entry
  <2> HIDE DEF f
  <2>5. /\ rev'[f][n + 1] = b
        /\ \A g \in File, q \in Pos : g # f \/ q <= n => rev'[g][q] = rev[g][q]
    BY <2>1, <2>2 DEF Inv, TypeOK
  <2>6. ASSUME NEW c \in Block
        PROVE  /\ mapBlockIndex[c].nFile \in File /\ dbIndex[c].nFile \in File
               /\ HaveUndo(mapBlockIndex, c) => mapBlockIndex[c].nUndoPos \in Pos
               /\ HaveUndo(dbIndex, c) => dbIndex[c].nUndoPos \in Pos
    BY Zenon DEF Inv, TypeOK, Entry, HaveUndo
  <2>7. UndoStored(mapBlockIndex, vinfoBlockFile, b)'
    BY SMTT(15), <1>0, <2>2, <2>3, <2>4, <2>5 DEF UndoStored, HaveData
  <2>8. ASSUME NEW c \in Block \ {b}, HaveUndo(mapBlockIndex, c)
        PROVE  UndoStored(mapBlockIndex, vinfoBlockFile, c)'
    <3>1. /\ HaveData(mapBlockIndex, c)
          /\ mapBlockIndex[c].nUndoPos <= vinfoBlockFile[mapBlockIndex[c].nFile].nUndoSize
          /\ NoPowerLoss => rev[mapBlockIndex[c].nFile][mapBlockIndex[c].nUndoPos] = c
      BY Zenon, <2>8 DEF UndoInv, UndoStored
    <3>2. CASE mapBlockIndex[c].nFile = f
      <4>1. mapBlockIndex[c].nUndoPos <= n /\ mapBlockIndex[c].nUndoPos <= n + 1
        BY SMTT(15), <2>2, <2>6, <2>8, <3>1, <3>2 DEF n, Pos
      <4> QED
        BY SMTT(15), <1>0, <2>3, <2>4, <2>5, <2>6, <2>8, <3>1, <3>2, <4>1
        DEF UndoStored, HaveData, NoPowerLoss
    <3>3. CASE mapBlockIndex[c].nFile # f
      BY SMTT(15), <1>0, <2>3, <2>4, <2>5, <2>6, <2>8, <3>1, <3>3 DEF UndoStored, HaveData, NoPowerLoss
    <3> QED
      BY Zenon, <3>2, <3>3
  <2>9. \A c \in Block : UndoStored(mapBlockIndex, vinfoBlockFile, c)'
    BY Zenon, <2>4, <2>7, <2>8 DEF UndoStored, HaveUndo
  <2>10. ASSUME NEW c \in Block, HaveUndo(dbIndex, c)
         PROVE  UndoStored(dbIndex, dbInfo, c)' /\ UndoBehind(c)'
    <3>1. UndoStored(dbIndex, dbInfo, c) /\ UndoBehind(c)
      BY Zenon, <1>0 DEF UndoInv
    <3>2. CASE dbIndex[c].nFile = f
      <4>1. dbIndex[c].nUndoPos <= n
        BY Zenon, <1>0, <2>10, <3>1, <3>2 DEF UndoBehind, f, n
      <4>2. dbIndex[c].nUndoPos <= n + 1
        BY SMTT(15), <2>2, <2>6, <2>10, <4>1 DEF Pos
      <4> QED
        BY Zenon, <1>0, <2>3, <2>5, <2>6, <2>10, <3>1, <3>2, <4>1, <4>2
        DEF UndoStored, UndoBehind, HaveData, HaveUndo, NoPowerLoss
    <3>3. CASE dbIndex[c].nFile # f
      <4>1. UndoStored(dbIndex, dbInfo, c)'
        BY Zenon, <1>0, <2>5, <2>6, <2>10, <3>1, <3>3 DEF UndoStored, HaveData, HaveUndo, NoPowerLoss
      <4>2. \A d \in Block : /\ HaveData(mapBlockIndex, d)' = HaveData(mapBlockIndex, d)
                             /\ mapBlockIndex'[d].nFile = mapBlockIndex[d].nFile
        BY Zenon, <2>4 DEF HaveData, f
      <4>3. UndoBehind(c)'
        BY Zenon, <1>0, <2>3, <2>6, <2>10, <3>1, <3>3, <4>2 DEF UndoBehind, HaveUndo
      <4> QED
        BY Zenon, <4>1, <4>3
    <3> QED
      BY Zenon, <3>2, <3>3
  <2>11. \A c \in Block : UndoStored(dbIndex, dbInfo, c)' /\ UndoBehind(c)'
    BY Zenon, <1>0, <2>10 DEF UndoStored, UndoBehind, HaveUndo
  <2> QED
    BY Zenon, <2>9, <2>11 DEF UndoInv
<1> QED
  BY Zenon, <1>1, <1>2

(* Every step keeps UndoInv.                                               *)
LEMMA UndoNext == Inv /\ UndoInv /\ [Next]_vars => UndoInv'
<1> SUFFICES ASSUME Inv, UndoInv, [Next]_vars PROVE UndoInv'
  BY Zenon
<1>1. ASSUME NEW b \in Block \ {Genesis},
             AddToBlockIndex(b) \/ AcceptBlock(b) \/ AcceptBlockInvalid(b) \/ ConnectTip(b)
      PROVE  UndoInv'
  BY Zenon, <1>1, EntersBlock, EnteredUndo, AcceptBlockUndo, ConnectTipUndo
<1>2. CASE \/ FlushPeriodic \/ Shutdown \/ FlushNotNeeded \/ FlushNeeded
           \/ FlushBlockFile \/ IndexOnly \/ FlushCoins \/ FlushNoSpace \/ DisconnectTip
           \/ Kill \/ StartupFails \/ PowerFails
  BY Zenon, <1>2, FlushUndo
<1>3. CASE FlushForPrune \/ WriteBatchSync \/ UnlinkPrunedFiles \/ LoadBlockIndexDB
  BY Zenon, <1>3, FlushForPruneUndo, WriteBatchUndo, UnlinkUndo, LoadUndo
<1>4. CASE UNCHANGED vars
  <2>1. UNCHANGED <<mapBlockIndex, vinfoBlockFile, nLastBlockFile, rev, dbIndex, dbInfo,
                    node, nEvents>>
    BY Zenon, <1>4 DEF vars, memVars, cellVars, dbVars
  <2> QED
    BY Zenon, <2>1, UndoFrame DEF Alive, NoPowerLoss
<1> QED
  BY Zenon, <1>1, <1>2, <1>3, <1>4 DEF Next, BlockStep, FlushStep

(* Initially there is no undo data.                                        *)
LEMMA UndoInit == Init => UndoInv
<1> SUFFICES ASSUME Init PROVE UndoInv
  BY Zenon
<1>1. \A b \in Block : mapBlockIndex[b].nUndoPos = 0
  BY Zenon, PersistAssumption DEF Init, NoEntry
<1>2. dbIndex = mapBlockIndex
  BY Zenon DEF Init
<1> QED
  BY Zenon, <1>1, <1>2 DEF UndoInv, UndoStored, UndoBehind, HaveUndo

(* Undo data is where both indexes say as long as the power does not fail, *)
(* whenever the process is killed: FindUndoPos writes behind what is       *)
(* recorded, also in a file that is no longer the last one.                *)
THEOREM UndosNeverLost == Spec => []UndosReadable
<1>1. UndoInv => UndosReadable
  BY Zenon DEF UndoInv, UndoStored, UndosReadable, UndoReadable, NoPowerLoss
<1> QED
  BY <1>1, UndoInit, UndoNext, Invariance, PTL DEF Spec

-----------------------------------------------------------------------------
(* Waiting blocks.  A block that has data has been received, blocks that   *)
(* are linked or wait have been received, and no waiting block has a       *)
(* linked parent.                                                          *)
DataReceived(index) == \A b \in Block : HaveData(index, b) => index[b].has = "block"
WaitInv ==
  /\ DataReceived(mapBlockIndex) /\ DataReceived(dbIndex)
  /\ WaitingBlocksKnown
  /\ \A a \in nChainTx \cup mapBlocksUnlinked : mapBlockIndex[a].has = "block"
  /\ \A c \in mapBlocksUnlinked \ {Genesis} : HashPrev[c] \notin nChainTx

(* The chain of a block is the block and the chain of its parent.          *)
LEMMA AncestorsFacts ==
  /\ Ancestors[Genesis] = {Genesis}
  /\ \A b \in Block : b \in Ancestors[b] /\ Ancestors[b] \subseteq Block
  /\ \A b \in Block \ {Genesis} : Ancestors[b] = Ancestors[HashPrev[b]] \cup {b}
<1>1. \A b \in Block : b \in Ancestors[b] /\ Ancestors[b] \subseteq Block
  BY Zenon DEF Ancestors
<1>2. Ancestors[Genesis] = {Genesis}
  <2>1. {Genesis} \in SUBSET Block /\ PrevClosed({Genesis})
    BY Zenon, PersistAssumption DEF PrevClosed
  <2>2. Ancestors[Genesis] \subseteq {Genesis}
    BY Zenon, <2>1, PersistAssumption DEF Ancestors
  <2> QED  BY Zenon, <1>1, <2>2, PersistAssumption
<1>3. ASSUME NEW b \in Block \ {Genesis}
      PROVE  Ancestors[b] = Ancestors[HashPrev[b]] \cup {b}
  <2>0. HashPrev[b] \in Block
    BY Zenon, PersistAssumption
  <2>1. ASSUME NEW a \in Ancestors[HashPrev[b]] PROVE a \in Ancestors[b]
    <3>1. \A S \in SUBSET Block : b \in S /\ PrevClosed(S) => HashPrev[b] \in S
      BY Zenon DEF PrevClosed
    <3> QED  BY Zenon, <2>0, <2>1, <3>1 DEF Ancestors
  <2>2. ASSUME NEW a \in Ancestors[b], a # b PROVE a \in Ancestors[HashPrev[b]]
    <3>1. a \in Block
      BY Zenon, <1>1, <2>2
    <3>2. ASSUME NEW S \in SUBSET Block, HashPrev[b] \in S, PrevClosed(S) PROVE a \in S
      <4>1. S \cup {b} \in SUBSET Block /\ PrevClosed(S \cup {b})
        BY Zenon, <3>2 DEF PrevClosed
      <4>2. a \in S \cup {b}
        BY Zenon, <2>2, <4>1 DEF Ancestors
      <4> QED  BY Zenon, <2>2, <4>2
    <3> QED  BY Zenon, <2>0, <3>1, <3>2 DEF Ancestors
  <2> QED  BY Zenon, <1>1, <2>1, <2>2
<1> QED  BY Zenon, <1>1, <1>2, <1>3

(* Steps that link no block and after which no block has newly got data    *)
(* without waiting.                                                        *)
LEMMA WaitFrame ==
  ASSUME Inv, WaitInv,
         \A b \in Block : mapBlockIndex[b].has \in {"invalid", "block"} =>
                           mapBlockIndex'[b].has = mapBlockIndex[b].has,
         \A b \in Block : HaveData(mapBlockIndex, b)' => HaveData(mapBlockIndex, b),
         nChainTx' = nChainTx, mapBlocksUnlinked' \subseteq mapBlocksUnlinked,
         \A b \in mapBlocksUnlinked \ mapBlocksUnlinked' : ~HaveData(mapBlockIndex, b)',
         dbIndex' = dbIndex \/ dbIndex' = mapBlockIndex
  PROVE  WaitInv'
<1>0. /\ nChainTx \subseteq Block /\ mapBlocksUnlinked \subseteq Block
      /\ \A b \in Block \ {Genesis} : HashPrev[b] \in Block
  BY Zenon, PersistAssumption DEF Inv, TypeOK
<1>1. DataReceived(mapBlockIndex)' /\ DataReceived(dbIndex)'
  BY Zenon DEF WaitInv, DataReceived, HaveData
<1>2. WaitingBlocksKnown'
  BY Zenon, <1>0 DEF WaitInv, WaitingBlocksKnown
<1>3. /\ \A a \in nChainTx' \cup mapBlocksUnlinked' : mapBlockIndex'[a].has = "block"
      /\ \A c \in mapBlocksUnlinked' \ {Genesis} : HashPrev[c] \notin nChainTx'
  BY Zenon, <1>0 DEF WaitInv
<1> QED  BY Zenon, <1>1, <1>2, <1>3 DEF WaitInv

(* The process ends.                                                       *)
LEMMA WaitUnload ==
  ASSUME WaitInv, Unloaded, dbIndex' = dbIndex PROVE WaitInv'
<1>1. \A b \in Block : ~HaveData(mapBlockIndex, b)'
  BY Zenon DEF Unloaded, HaveData, NoEntry
<1>2. nChainTx' = {} /\ mapBlocksUnlinked' = {}
  BY Zenon DEF Unloaded
<1> QED  BY Zenon, <1>1, <1>2 DEF WaitInv, DataReceived, HaveData, WaitingBlocksKnown

(* The queue of ReceivedBlockTransactions: a waiting child of a block it   *)
(* reaches is reached.                                                     *)
LEMMA ReachedClosed ==
  ASSUME NEW b \in Block, mapBlocksUnlinked \subseteq Block,
         NEW c \in mapBlocksUnlinked \ {Genesis, b}, HashPrev[c] \in Reached(b) \cup {b}
  PROVE  c \in Reached(b)
<1>1. c \in Block \ {Genesis} /\ HashPrev[c] \in Block
  BY Zenon, PersistAssumption
<1>2. Ancestors[c] = Ancestors[HashPrev[c]] \cup {c} /\ b \in Ancestors[b]
  BY Zenon, <1>1, AncestorsFacts
<1>3. b \in Ancestors[HashPrev[c]]
  BY Zenon, <1>2 DEF Reached
<1>4. Ancestors[HashPrev[c]] \ Ancestors[b] \subseteq mapBlocksUnlinked
  BY Zenon DEF Reached
<1> QED  BY Zenon, <1>2, <1>3, <1>4 DEF Reached

(* A block is stored: it is linked together with the blocks that waited    *)
(* for it, or it waits, or its parent is invalid.                          *)
LEMMA WaitAccept ==
  ASSUME Inv, WaitInv, NEW b \in Block \ {Genesis}, AcceptBlock(b) PROVE WaitInv'
<1>0. /\ mapBlockIndex \in [Block -> Entry] /\ HashPrev[b] \in Block
      /\ nChainTx \subseteq Block /\ mapBlocksUnlinked \subseteq Block
      /\ \A c \in Block \ {Genesis} : HashPrev[c] \in Block
  BY Zenon, PersistAssumption DEF Inv, TypeOK
<1>1. PICK f \in File : mapBlockIndex' = Received(b, f)
  BY Zenon DEF AcceptBlock
<1>2. dbIndex' = dbIndex /\ LinkBlock(b) /\ mapBlockIndex[b].has # "invalid"
  BY Zenon DEF AcceptBlock, AcceptBlockHeader, dbVars
<1>3. /\ mapBlockIndex'[b].has = "block"
      /\ \A c \in Block \ {b} : mapBlockIndex'[c] = mapBlockIndex[c]
  BY Zenon, <1>0, <1>1 DEF Received
<1>4. DataReceived(mapBlockIndex)' /\ DataReceived(dbIndex)'
  BY Zenon, <1>2, <1>3 DEF WaitInv, DataReceived, HaveData
<1>5. \A c \in Block : mapBlockIndex'[c].has # "invalid" => mapBlockIndex[c].has # "invalid"
  BY Zenon, <1>2, <1>3
<1>6. ASSUME NEW c \in Block \ {Genesis, b}, HaveData(mapBlockIndex, c)', c \notin nChainTx,
             mapBlockIndex'[HashPrev[c]].has # "invalid"
      PROVE  c \in mapBlocksUnlinked
  BY Zenon, <1>0, <1>3, <1>5, <1>6 DEF WaitInv, WaitingBlocksKnown, HaveData
<1>7. CASE HashPrev[b] \in nChainTx
  <2>1. /\ nChainTx' = nChainTx \cup {b} \cup Reached(b)
        /\ mapBlocksUnlinked' = mapBlocksUnlinked \ Reached(b)
    BY Zenon, <1>2, <1>7 DEF LinkBlock
  <2>2. Reached(b) \subseteq mapBlocksUnlinked
    BY Zenon DEF Reached
  <2>3. WaitingBlocksKnown'
    BY Zenon, <1>6, <2>1 DEF WaitingBlocksKnown
  <2>4. \A a \in nChainTx' \cup mapBlocksUnlinked' : mapBlockIndex'[a].has = "block"
    BY Zenon, <1>0, <1>3, <2>1, <2>2 DEF WaitInv
  <2>5. ASSUME NEW c \in mapBlocksUnlinked' \ {Genesis} PROVE HashPrev[c] \notin nChainTx'
    <3>1. c \in mapBlocksUnlinked /\ c \notin Reached(b) /\ HashPrev[c] \notin nChainTx
      BY Zenon, <2>1, <2>5 DEF WaitInv
    <3>2. c # b
      BY Zenon, <1>7, <3>1
    <3> QED  BY Zenon, <1>0, <2>1, <2>5, <3>1, <3>2, ReachedClosed
  <2> QED  BY Zenon, <1>4, <2>3, <2>4, <2>5 DEF WaitInv
<1>8. CASE HashPrev[b] \notin nChainTx
  <2>1. /\ nChainTx' = nChainTx \ {b}
        /\ mapBlocksUnlinked' = IF mapBlockIndex[HashPrev[b]].has # "invalid"
                                THEN mapBlocksUnlinked \cup {b} ELSE mapBlocksUnlinked
    BY Zenon, <1>2, <1>8 DEF LinkBlock
  <2>2. mapBlocksUnlinked \subseteq mapBlocksUnlinked'
        /\ mapBlocksUnlinked' \subseteq mapBlocksUnlinked \cup {b}
    BY Zenon, <2>1
  <2>3. WaitingBlocksKnown'
    <3>1. mapBlockIndex'[HashPrev[b]].has # "invalid" => b \in mapBlocksUnlinked'
      BY Zenon, <1>0, <1>5, <2>1
    <3>2. ASSUME NEW c \in Block \ {Genesis, b}, HaveData(mapBlockIndex, c)',
                 c \notin nChainTx', mapBlockIndex'[HashPrev[c]].has # "invalid"
          PROVE  c \in mapBlocksUnlinked'
      BY Zenon, <1>6, <2>1, <2>2, <3>2
    <3> QED  BY Zenon, <3>1, <3>2 DEF WaitingBlocksKnown
  <2>4. \A a \in nChainTx' \cup mapBlocksUnlinked' : mapBlockIndex'[a].has = "block"
    BY Zenon, <1>0, <1>3, <2>1, <2>2 DEF WaitInv
  <2>5. \A c \in mapBlocksUnlinked' \ {Genesis} : HashPrev[c] \notin nChainTx'
    BY Zenon, <1>8, <2>1, <2>2 DEF WaitInv
  <2> QED  BY Zenon, <1>4, <2>3, <2>4, <2>5 DEF WaitInv
<1> QED  BY Zenon, <1>7, <1>8

(* Start-up links what is complete; the rest waits.                        *)
LEMMA WaitLoad ==
  ASSUME Inv, WaitInv, LoadBlockIndexDB PROVE WaitInv'
<1>1. /\ mapBlockIndex' = dbIndex /\ dbIndex' = dbIndex
      /\ nChainTx' = {b \in Block : Linked(dbIndex, b)}
      /\ mapBlocksUnlinked' = {b \in Block : dbIndex[b].has = "block" /\ ~Linked(dbIndex, b)}
  BY Zenon DEF LoadBlockIndexDB, dbVars, UnlinkedOnDisk
<1>2. DataReceived(mapBlockIndex)' /\ DataReceived(dbIndex)'
  BY Zenon, <1>1 DEF WaitInv, DataReceived, HaveData
<1>3. WaitingBlocksKnown'
  BY Zenon, <1>1 DEF WaitInv, DataReceived, WaitingBlocksKnown, HaveData
<1>4. \A a \in nChainTx' \cup mapBlocksUnlinked' : mapBlockIndex'[a].has = "block"
  BY Zenon, <1>1, AncestorsFacts DEF Linked
<1>5. ASSUME NEW c \in mapBlocksUnlinked' \ {Genesis} PROVE HashPrev[c] \notin nChainTx'
  <2>1. c \in Block \ {Genesis} /\ dbIndex[c].has = "block" /\ ~Linked(dbIndex, c)
    BY Zenon, <1>1, <1>5
  <2>2. Ancestors[c] = Ancestors[HashPrev[c]] \cup {c}
    BY Zenon, <2>1, AncestorsFacts
  <2>3. ~Linked(dbIndex, HashPrev[c])
    BY Zenon, <2>1, <2>2 DEF Linked
  <2> QED  BY Zenon, <1>1, <2>3
<1> QED  BY Zenon, <1>2, <1>3, <1>4, <1>5 DEF WaitInv

(* Every step keeps the waiting blocks known.                              *)
LEMMA WaitNext == Inv /\ WaitInv /\ [Next]_vars => WaitInv'
<1> SUFFICES ASSUME Inv, WaitInv, [Next]_vars PROVE WaitInv'
  BY Zenon
<1>0. mapBlockIndex \in [Block -> Entry]
  BY Zenon DEF Inv, TypeOK
<1>1. ASSUME NEW b \in Block \ {Genesis}, Entered(b) PROVE WaitInv'
  <2>1. PICK h \in {"header", "invalid"} :
          mapBlockIndex' = [mapBlockIndex EXCEPT ![b] = [NoEntry EXCEPT !.has = h]]
    BY Zenon, <1>1 DEF Entered
  <2>2. /\ mapBlockIndex'[b].nDataPos = 0
        /\ \A c \in Block \ {b} : mapBlockIndex'[c] = mapBlockIndex[c]
    BY Zenon, <1>0, <2>1 DEF NoEntry
  <2>3. /\ mapBlockIndex[b].has \notin {"invalid", "block"}
        /\ UNCHANGED <<mapBlocksUnlinked, nChainTx, dbIndex>>
    BY Zenon, <1>1 DEF Entered
  <2> QED  BY Zenon, <2>2, <2>3, WaitFrame DEF HaveData
<1>2. ASSUME NEW b \in Block \ {Genesis},
             AddToBlockIndex(b) \/ AcceptBlock(b) \/ AcceptBlockInvalid(b)
      PROVE  WaitInv'
  BY Zenon, <1>1, <1>2, EntersBlock, WaitAccept
<1>3. ASSUME NEW b \in Block \ {Genesis}, ConnectTip(b) PROVE WaitInv'
  <2>1. /\ \/ mapBlockIndex' = mapBlockIndex
           \/ \E p : mapBlockIndex' =
                      [mapBlockIndex EXCEPT ![b] = [@ EXCEPT !.nUndoPos = p]]
        /\ UNCHANGED <<mapBlocksUnlinked, nChainTx, dbIndex>>
    BY Zenon, <1>3 DEF ConnectTip, memVars, dbVars
  <2>2. \A c \in Block : /\ mapBlockIndex'[c].has = mapBlockIndex[c].has
                         /\ mapBlockIndex'[c].nDataPos = mapBlockIndex[c].nDataPos
    BY <1>0, <2>1 DEF Entry
  <2> QED  BY Zenon, <2>1, <2>2, WaitFrame DEF HaveData
<1>4. CASE FlushForPrune
  <2>1. PICK S \in PruneChoices : PruneBlockFiles(S)
    BY Zenon, <1>4 DEF FlushForPrune
  <2>2. /\ mapBlocksUnlinked' = mapBlocksUnlinked \ InFiles(S)
        /\ \A c \in Block :
             IF c \in InFiles(S)
             THEN mapBlockIndex'[c].has = mapBlockIndex[c].has /\ mapBlockIndex'[c].nDataPos = 0
             ELSE mapBlockIndex'[c] = mapBlockIndex[c]
    BY Zenon, <2>1 DEF PruneBlockFiles, NoEntry
  <2>3. UNCHANGED <<dbIndex, nChainTx>> /\ InFiles(S) \subseteq Block
    BY Zenon, <1>4 DEF FlushForPrune, dbVars, InFiles
  <2> QED  BY Zenon, <2>2, <2>3, WaitFrame DEF HaveData
<1>5. CASE WriteBatchSync
  <2>1. dbIndex' = mapBlockIndex /\ UNCHANGED <<mapBlockIndex, mapBlocksUnlinked, nChainTx>>
    BY Zenon, <1>5, WriteBatchEffect DEF WriteBatchSync
  <2> QED  BY Zenon, <2>1, WaitFrame DEF HaveData
<1>6. CASE LoadBlockIndexDB
  BY Zenon, <1>6, WaitLoad
<1>7. CASE UNCHANGED <<mapBlockIndex, mapBlocksUnlinked, nChainTx, dbIndex>>
  BY Zenon, <1>7, WaitFrame DEF HaveData
<1>8. CASE \/ FlushNotNeeded \/ IndexOnly \/ FlushCoins \/ FlushNoSpace \/ Kill \/ PowerFails
  <2>1. Unloaded \/ UNCHANGED <<mapBlockIndex, mapBlocksUnlinked, nChainTx>>
    BY Zenon, <1>8 DEF FlushNotNeeded, IndexOnly, FlushCoins, FlushNoSpace, Kill, PowerFails,
       FlushReturns, memVars
  <2>2. dbIndex' = dbIndex
    BY Zenon, <1>8 DEF FlushNotNeeded, IndexOnly, FlushCoins, FlushNoSpace, Kill, PowerFails, dbVars
  <2> QED  BY Zenon, <1>7, <2>1, <2>2, WaitUnload
<1>9. CASE \/ FlushPeriodic \/ Shutdown \/ FlushNeeded \/ FlushBlockFile
           \/ UnlinkPrunedFiles \/ DisconnectTip \/ StartupFails \/ UNCHANGED vars
  <2>1. UNCHANGED <<mapBlockIndex, mapBlocksUnlinked, nChainTx, dbIndex>>
    BY Zenon, <1>9 DEF FlushPeriodic, Shutdown, FlushNeeded, FlushBlockFile, UnlinkPrunedFiles,
       DisconnectTip, StartupFails, vars, memVars, dbVars
  <2> QED  BY Zenon, <1>7, <2>1
<1> QED  BY Zenon, <1>2, <1>3, <1>4, <1>5, <1>6, <1>8, <1>9 DEF Next, BlockStep, FlushStep

(* Initially the genesis block is all there is.                            *)
LEMMA WaitInit == Init => WaitInv
<1> SUFFICES ASSUME Init PROVE WaitInv
  BY Zenon
<1>1. \A b \in Block : HaveData(mapBlockIndex, b) => b = Genesis
  BY Zenon, PersistAssumption DEF Init, HaveData, NoEntry
<1>2. /\ mapBlockIndex[Genesis].has = "block" /\ dbIndex = mapBlockIndex
      /\ nChainTx = {Genesis} /\ mapBlocksUnlinked = {}
  BY Zenon, PersistAssumption DEF Init
<1> QED  BY Zenon, <1>1, <1>2 DEF WaitInv, DataReceived, WaitingBlocksKnown

(* Every stored block that is not linked waits in mapBlocksUnlinked,       *)
(* through prunings, crashes and restarts, unless ContextualCheckBlock has *)
(* rejected its parent.                                                    *)
THEOREM WaitingBlocksAlwaysKnown == Spec => []WaitingBlocksKnown
<1>1. WaitInv => WaitingBlocksKnown
  BY Zenon DEF WaitInv
<1> QED  BY <1>1, WaitInit, WaitNext, Invariance, PTL DEF Spec

(* No stored block is left behind: ReceivedBlockTransactions and           *)
(* LoadBlockIndexDB link every stored block whose parent is linked, in     *)
(* whichever order the blocks arrive, are pruned and are fetched again.    *)
THEOREM StoredBlocksAlwaysLinked == Spec => []StoredBlocksLinked
<1>1. WaitInv => StoredBlocksLinked
  <2> SUFFICES ASSUME WaitInv, NEW b \in Block \ {Genesis}, HaveData(mapBlockIndex, b),
                      HashPrev[b] \in nChainTx, b \notin nChainTx
               PROVE  FALSE
    BY Zenon DEF StoredBlocksLinked
  <2>1. mapBlockIndex[HashPrev[b]].has = "block"
    BY Zenon DEF WaitInv
  <2>2. b \in mapBlocksUnlinked
    BY Zenon, <2>1 DEF WaitInv, WaitingBlocksKnown
  <2> QED  BY Zenon, <2>2 DEF WaitInv
<1> QED  BY <1>1, WaitInit, WaitNext, Invariance, PTL DEF Spec

-----------------------------------------------------------------------------
(* Start-up.  Blocks of the chain of best have been received, and those    *)
(* that are stored have undo data, which VerifyDB relies on.               *)
OnDisk(index, best) ==
  /\ Linked(index, best)
  /\ \A a \in Ancestors[best] \ {Genesis} : HaveData(index, a) => HaveUndo(index, a)
ChainsOnDisk ==
  /\ OnDisk(dbIndex, dbBest)
  /\ Alive => OnDisk(mapBlockIndex, dbBest) /\ OnDisk(mapBlockIndex, coinsBest)

(* Only a full disk stops the node, and without pruning every received     *)
(* block is stored.                                                        *)
NeverStopped == nEvents["space"] = 0 => node # "stopping"
NeverPruned ==
  nEvents["prune"] = 0 =>
    \A b \in Block : /\ dbIndex[b].has = "block" => HaveData(dbIndex, b)
                     /\ mapBlockIndex[b].has = "block" => HaveData(mapBlockIndex, b)

(* A pruned block of the chain on disk is in the active chain, so that it  *)
(* is not fetched again, unless the flush that pruned it is still to write *)
(* the coins.                                                              *)
PrunedInTip ==
  nEvents["space"] = 0 /\ Alive /\ setFilesToPrune = {} =>
    \A a \in Ancestors[dbBest] : ~HaveData(mapBlockIndex, a) => a \in Ancestors[tip]

(* While ConnectTip or DisconnectTip flushes, the coins are at a child of  *)
(* the tip or at its parent.                                               *)
TipMoves ==
  Alive /\ pc # "idle" /\ mode = "ifneeded" =>
    \/ coinsBest # Genesis /\ HashPrev[coinsBest] = tip
    \/ /\ tip # Genesis /\ coinsBest = HashPrev[tip]
       /\ setFilesToPrune = {} => HaveData(mapBlockIndex, tip)

(* What holds while the power does not fail, and pruning and a full disk   *)
(* do not meet.                                                            *)
RestartBody == /\ node # "failed" /\ ChainsOnDisk /\ NeverStopped /\ NeverPruned
               /\ PrunedInTip /\ TipMoves
Calm == NoPowerLoss /\ (nEvents["space"] = 0 \/ nEvents["prune"] = 0)
RestartInv == Calm => RestartBody

(* The counters of faults only grow.                                       *)
CountersGrow == \A k \in Event : nEvents'[k] = 0 => nEvents[k] = 0

(* Spend raises the counter of its kind.                                   *)
LEMMA SpendGrows ==
  ASSUME Inv, NEW e \in Event, Spend(e)
  PROVE  CountersGrow /\ nEvents'[e] # 0
<1>1. nEvents \in [Event -> Nat]
  BY Zenon DEF Inv, TypeOK
<1> QED  BY <1>1 DEF Spend, CountersGrow, Event

(* Every step keeps or raises the counters.                                *)
LEMMA EventsGrow == Inv /\ [Next]_vars => CountersGrow
<1> SUFFICES ASSUME Inv, [Next]_vars PROVE CountersGrow
  BY Zenon
<1>1. nEvents' = nEvents \/ \E e \in Event : Spend(e)
  <2>1. Event = {"header", "flush", "stop", "prune", "space", "index", "kill", "power", "any"}
    BY Zenon DEF Event
  <2> QED
    BY Zenon, <2>1 DEF Next, BlockStep, FlushStep, AddToBlockIndex, AcceptBlock, AcceptBlockInvalid,
       ConnectTip, DisconnectTip, FlushPeriodic, Shutdown, FlushNotNeeded, FlushNeeded, FlushForPrune,
       FlushBlockFile, WriteBatchSync, UnlinkPrunedFiles, IndexOnly, FlushCoins, FlushNoSpace,
       Kill, PowerFails, LoadBlockIndexDB, StartupFails, vars
<1> QED  BY Zenon, <1>1, SpendGrows DEF CountersGrow

(* An index that keeps the received blocks and the undo data of what it    *)
(* stores keeps a chain on disk.                                           *)
LEMMA OnDiskKept ==
  ASSUME NEW i, NEW j, NEW best, OnDisk(i, best),
         \A a \in Ancestors[best] :
           /\ i[a].has = "block" => j[a].has = "block"
           /\ HaveData(j, a) => HaveData(i, a)
           /\ HaveData(j, a) /\ HaveUndo(i, a) => HaveUndo(j, a)
  PROVE  OnDisk(j, best)
BY Zenon DEF OnDisk, Linked

(* The parent of a block on disk is on disk.                               *)
LEMMA OnDiskParent ==
  ASSUME NEW i, NEW b \in Block \ {Genesis}, OnDisk(i, b) PROVE OnDisk(i, HashPrev[b])
<1>1. Ancestors[HashPrev[b]] \subseteq Ancestors[b]
  BY Zenon, AncestorsFacts
<1> QED  BY Zenon, <1>1 DEF OnDisk, Linked

(* Steps of FlushStateToDisk and its callers that change neither index nor *)
(* best block.                                                             *)
LEMMA RestartFrame ==
  ASSUME RestartBody, CountersGrow, TipMoves',
         UNCHANGED <<mapBlockIndex, dbIndex, coinsBest, tip, dbBest, node, setFilesToPrune>>
  PROVE  RestartBody'
<1>0. {"space", "prune"} \subseteq Event
  BY Zenon DEF Event
<1>1. ChainsOnDisk'
  BY Zenon DEF RestartBody, ChainsOnDisk, Alive, OnDisk, Linked, HaveData, HaveUndo
<1>2. NeverStopped' /\ NeverPruned'
  BY Zenon, <1>0 DEF RestartBody, CountersGrow, NeverStopped, NeverPruned, HaveData
<1>3. PrunedInTip'
  BY Zenon, <1>0 DEF RestartBody, CountersGrow, PrunedInTip, Alive, HaveData
<1> QED  BY Zenon, <1>1, <1>2, <1>3 DEF RestartBody

(* The process ends.                                                       *)
LEMMA RestartUnload ==
  ASSUME RestartBody, CountersGrow, node' = "down", Unloaded, dbIndex' = dbIndex,
         OnDisk(dbIndex, dbBest')
  PROVE  RestartBody'
<1>0. {"space", "prune"} \subseteq Event
  BY Zenon DEF Event
<1>1. ChainsOnDisk'
  BY Zenon DEF ChainsOnDisk, Alive, OnDisk, Linked, HaveData, HaveUndo
<1>2. NeverStopped' /\ NeverPruned'
  BY Zenon, <1>0 DEF RestartBody, CountersGrow, NeverStopped, NeverPruned, HaveData,
     Unloaded, NoEntry
<1>3. PrunedInTip' /\ TipMoves'
  BY Zenon DEF PrunedInTip, TipMoves, Alive
<1> QED  BY Zenon, <1>1, <1>2, <1>3 DEF RestartBody

(* FlushStateToDisk returns without an error.                              *)
LEMMA RestartReturns ==
  ASSUME Inv, RestartBody, CountersGrow, pc # "idle", FlushReturns("ok"), dbIndex' = dbIndex,
         OnDisk(dbIndex, dbBest'), Alive => OnDisk(mapBlockIndex, dbBest'),
         \/ dbBest' = coinsBest
         \/ dbBest' = dbBest /\ setFilesToPrune = {}
  PROVE  RestartBody'
<1>0. {"space", "prune"} \subseteq Event
  BY Zenon DEF Event
<1>1. CASE mode = "always"
  BY Zenon, <1>1, RestartUnload DEF FlushReturns
<1>2. CASE mode # "always"
  <2>1. /\ UNCHANGED <<mapBlockIndex, coinsBest, node>> /\ pc' = "idle"
        /\ tip' = IF mode = "ifneeded" THEN coinsBest ELSE tip
    BY Zenon, <1>2 DEF FlushReturns, NotFlushing, memVars
  <2>2. Alive /\ coinsBest \in Block /\ tip \in Block
    BY Zenon DEF Inv, DownInv
  <2>3. ChainsOnDisk'
    BY Zenon, <2>1, <2>2 DEF RestartBody, ChainsOnDisk, Alive, OnDisk, Linked, HaveData, HaveUndo
  <2>4. NeverStopped' /\ NeverPruned' /\ TipMoves'
    BY Zenon, <1>0, <2>1 DEF RestartBody, CountersGrow, NeverStopped, NeverPruned, TipMoves, HaveData
  <2>5. ASSUME nEvents'["space"] = 0, NEW a \in Ancestors[dbBest'], ~HaveData(mapBlockIndex, a)
        PROVE  a \in Ancestors[tip']
    <3>0. nEvents["space"] = 0 /\ node = "up"
      BY Zenon, <1>0, <2>2, <2>5 DEF CountersGrow, RestartBody, NeverStopped, Alive
    <3>1. CASE dbBest' = coinsBest
      BY Zenon, <2>1, <2>5, <3>0, <3>1 DEF Inv, TipInv
    <3>2. CASE dbBest' = dbBest /\ setFilesToPrune = {}
      <4>1. a \in Ancestors[tip]
        BY Zenon, <2>2, <2>5, <3>0, <3>2 DEF RestartBody, PrunedInTip
      <4>2. CASE mode # "ifneeded"
        BY Zenon, <2>1, <4>1, <4>2
      <4>3. CASE mode = "ifneeded" /\ coinsBest # Genesis /\ HashPrev[coinsBest] = tip
        BY Zenon, <2>1, <2>2, <4>1, <4>3, AncestorsFacts
      <4>4. CASE /\ mode = "ifneeded" /\ tip # Genesis /\ coinsBest = HashPrev[tip]
                 /\ HaveData(mapBlockIndex, tip)
        <5>1. a # tip
          BY Zenon, <2>5, <4>4
        <5>2. Ancestors[tip] = Ancestors[coinsBest] \cup {tip}
          BY Zenon, <2>2, <4>4, AncestorsFacts
        <5> QED  BY Zenon, <2>1, <4>1, <4>4, <5>1, <5>2
      <4> QED  BY Zenon, <2>2, <3>2, <4>2, <4>3, <4>4 DEF RestartBody, TipMoves
    <3> QED  BY Zenon, <3>1, <3>2
  <2>6. PrunedInTip'
    BY Zenon, <2>1, <2>5 DEF PrunedInTip, HaveData
  <2>7. node' # "failed"
    BY Zenon, <2>1 DEF RestartBody
  <2> QED  BY Zenon, <2>3, <2>4, <2>6, <2>7 DEF RestartBody
<1> QED  BY Zenon, <1>1, <1>2

(* The disk is full: from then on nothing may have been pruned.            *)
LEMMA FlushNoSpaceRestart ==
  ASSUME Inv, RestartBody, CountersGrow, Calm', FlushNoSpace PROVE RestartBody'
<1>0. {"space", "prune"} \subseteq Event
  BY Zenon DEF Event
<1>1. /\ FlushReturns("error") /\ UNCHANGED <<dbIndex, dbBest>>
      /\ nEvents'["space"] # 0 /\ pc # "idle"
  BY Zenon, <1>0, SpendGrows DEF FlushNoSpace, dbVars, coinsDbVars
<1>2. CASE mode = "always"
  BY Zenon, <1>1, <1>2, RestartUnload DEF FlushReturns, RestartBody, ChainsOnDisk
<1>3. CASE mode # "always"
  <2>1. UNCHANGED <<mapBlockIndex, coinsBest>> /\ pc' = "idle" /\ node' = "stopping"
    BY Zenon, <1>1, <1>3 DEF FlushReturns, NotFlushing, memVars
  <2>2. Alive
    BY Zenon, <1>1 DEF Inv, DownInv
  <2>3. ChainsOnDisk'
    BY Zenon, <1>1, <2>1, <2>2 DEF RestartBody, ChainsOnDisk, OnDisk, Linked, HaveData, HaveUndo
  <2>4. NeverStopped' /\ PrunedInTip' /\ TipMoves'
    BY Zenon, <1>1, <2>1 DEF NeverStopped, PrunedInTip, TipMoves
  <2>5. NeverPruned'
    BY Zenon, <1>0, <1>1, <2>1 DEF RestartBody, CountersGrow, NeverPruned, HaveData
  <2> QED  BY Zenon, <2>1, <2>3, <2>4, <2>5 DEF RestartBody
<1> QED  BY Zenon, <1>2, <1>3

(* The index in memory is on disk when the coins are written.              *)
LEMMA FlushCoinsRestart ==
  ASSUME Inv, RestartBody, CountersGrow, FlushCoins PROVE RestartBody'
<1>1. Alive /\ coinsBest \in Block /\ \A b \in Block : mapBlockIndex[b] = dbIndex[b]
  BY Zenon DEF FlushCoins, Inv, DownInv, CleanInv
<1>2. OnDisk(mapBlockIndex, coinsBest)
  BY Zenon, <1>1 DEF RestartBody, ChainsOnDisk
<1>3. Ancestors[coinsBest] \subseteq Block
  BY Zenon, <1>1, AncestorsFacts
<1>4. OnDisk(dbIndex, coinsBest)
  BY Zenon, <1>1, <1>2, <1>3, OnDiskKept DEF HaveData, HaveUndo
<1> QED  BY Zenon, <1>2, <1>4, RestartReturns DEF FlushCoins, dbVars

(* A pruned block loses its undo data with its data, and the prune count   *)
(* rises.                                                                  *)
LEMMA FlushForPruneRestart ==
  ASSUME Inv, RestartBody, CountersGrow, FlushForPrune PROVE RestartBody'
<1>0. {"space", "prune"} \subseteq Event
  BY Zenon DEF Event
<1>1. PICK S \in PruneChoices \ {{}} : PruneBlockFiles(S) /\ setFilesToPrune' = S
  BY Zenon DEF FlushForPrune
<1>2. /\ UNCHANGED <<coinsBest, tip, node, mode, dbIndex, dbBest>> /\ nEvents'["prune"] # 0
      /\ pc = "begin"
  BY Zenon, <1>0, SpendGrows DEF FlushForPrune, bestVars, dbVars, coinsDbVars
<1>3. \A c \in Block : /\ mapBlockIndex'[c].has = mapBlockIndex[c].has
                       /\ \/ mapBlockIndex'[c].nDataPos = 0
                          \/ mapBlockIndex'[c] = mapBlockIndex[c]
  BY Zenon, <1>1 DEF PruneBlockFiles, NoEntry
<1>4. ASSUME NEW best \in Block, OnDisk(mapBlockIndex, best)
      PROVE  OnDisk(mapBlockIndex', best)
  <2>1. Ancestors[best] \subseteq Block
    BY Zenon, AncestorsFacts
  <2>2. \A a \in Ancestors[best] :
          /\ mapBlockIndex[a].has = "block" => mapBlockIndex'[a].has = "block"
          /\ HaveData(mapBlockIndex', a) => HaveData(mapBlockIndex, a)
          /\ HaveData(mapBlockIndex', a) /\ HaveUndo(mapBlockIndex, a)
               => HaveUndo(mapBlockIndex', a)
    BY Zenon, <1>3, <2>1 DEF HaveData, HaveUndo
  <2> QED  BY Zenon, <1>4, <2>2, OnDiskKept
<1>5. Alive /\ coinsBest \in Block /\ dbBest \in Block
  BY Zenon, <1>2 DEF Inv, DownInv, TypeOK
<1>6. OnDisk(mapBlockIndex', dbBest) /\ OnDisk(mapBlockIndex', coinsBest)
  BY Zenon, <1>4, <1>5 DEF RestartBody, ChainsOnDisk
<1>7. ChainsOnDisk'
  BY Zenon, <1>2, <1>6 DEF RestartBody, ChainsOnDisk, OnDisk, Linked, HaveData, HaveUndo
<1>8. NeverStopped' /\ NeverPruned' /\ PrunedInTip'
  BY Zenon, <1>0, <1>1, <1>2 DEF RestartBody, CountersGrow, NeverStopped, NeverPruned, PrunedInTip
<1>9. TipMoves'
  BY Zenon, <1>1, <1>2 DEF RestartBody, TipMoves, Alive
<1> QED  BY Zenon, <1>2, <1>7, <1>8, <1>9 DEF RestartBody

(* The index on disk becomes the one in memory.                            *)
LEMMA WriteBatchRestart ==
  ASSUME Inv, RestartBody, CountersGrow, WriteBatchSync PROVE RestartBody'
<1>0. {"space", "prune"} \subseteq Event
  BY Zenon DEF Event
<1>1. /\ dbIndex' = mapBlockIndex
      /\ UNCHANGED <<mapBlockIndex, coinsBest, tip, dbBest, node, mode, setFilesToPrune>>
      /\ pc = "index"
  BY Zenon, WriteBatchEffect DEF WriteBatchSync, bestVars, coinsDbVars
<1>2. Alive
  BY Zenon, <1>1 DEF Inv, DownInv
<1>3. ChainsOnDisk'
  BY Zenon, <1>1, <1>2 DEF RestartBody, ChainsOnDisk, OnDisk, Linked, HaveData, HaveUndo
<1>4. NeverStopped' /\ NeverPruned' /\ PrunedInTip'
  BY Zenon, <1>0, <1>1 DEF RestartBody, CountersGrow, NeverStopped, NeverPruned, PrunedInTip,
     HaveData, Alive
<1>5. TipMoves'
  BY Zenon, <1>1 DEF RestartBody, TipMoves, Alive, HaveData
<1> QED  BY Zenon, <1>1, <1>3, <1>4, <1>5 DEF RestartBody

(* A block that is on neither chain is entered, or stored.                 *)
LEMMA BlockEnters ==
  ASSUME Inv, RestartBody, CountersGrow, NEW b \in Block, Running,
         b \notin Ancestors[dbBest], b \notin Ancestors[coinsBest],
         \A c \in Block \ {b} : mapBlockIndex'[c] = mapBlockIndex[c],
         mapBlockIndex'[b].has = "block" => HaveData(mapBlockIndex', b),
         UNCHANGED <<coinsBest, tip, dbBest, dbIndex, node, setFilesToPrune>>,
         pc' = "idle" \/ mode' = "none"
  PROVE  RestartBody'
<1>0. {"space", "prune"} \subseteq Event
  BY Zenon DEF Event
<1>1. Alive /\ coinsBest \in Block /\ dbBest \in Block
  BY Zenon DEF Inv, DownInv, TypeOK, Running, Alive
<1>2. Ancestors[dbBest] \subseteq Block /\ Ancestors[coinsBest] \subseteq Block
  BY Zenon, <1>1, AncestorsFacts
<1>3. OnDisk(mapBlockIndex, dbBest) /\ OnDisk(mapBlockIndex, coinsBest)
  BY Zenon, <1>1 DEF RestartBody, ChainsOnDisk
<1>4. OnDisk(mapBlockIndex', dbBest) /\ OnDisk(mapBlockIndex', coinsBest)
  BY Zenon, <1>2, <1>3 DEF OnDisk, Linked, HaveData, HaveUndo
<1>5. ChainsOnDisk'
  BY Zenon, <1>4 DEF RestartBody, ChainsOnDisk, OnDisk, Linked, HaveData, HaveUndo
<1>6. NeverStopped' /\ NeverPruned'
  BY Zenon, <1>0 DEF RestartBody, CountersGrow, NeverStopped, NeverPruned, HaveData
<1>7. PrunedInTip'
  BY Zenon, <1>0, <1>2 DEF RestartBody, CountersGrow, PrunedInTip, HaveData, Alive
<1>8. TipMoves'
  BY Zenon DEF TipMoves
<1> QED  BY Zenon, <1>5, <1>6, <1>7, <1>8 DEF RestartBody

(* A new header, or a rejected block, is on neither chain, whose blocks    *)
(* have been received.                                                     *)
LEMMA EnteredRestart ==
  ASSUME Inv, RestartBody, CountersGrow, NEW b \in Block \ {Genesis}, Entered(b)
  PROVE  RestartBody'
<1>0. mapBlockIndex \in [Block -> Entry]
  BY Zenon DEF Inv, TypeOK
<1>1. /\ UNCHANGED <<coinsBest, tip, dbBest, dbIndex, node, setFilesToPrune, pc>>
      /\ Running /\ pc = "idle" /\ mapBlockIndex[b].has # "block"
  BY Zenon DEF Entered, Running
<1>h. PICK h \in {"header", "invalid"} :
        mapBlockIndex' = [mapBlockIndex EXCEPT ![b] = [NoEntry EXCEPT !.has = h]]
  BY Zenon DEF Entered
<1>2. /\ mapBlockIndex'[b].has # "block"
      /\ \A c \in Block \ {b} : mapBlockIndex'[c] = mapBlockIndex[c]
  BY Zenon, <1>0, <1>h DEF NoEntry
<1>3. OnDisk(mapBlockIndex, dbBest) /\ OnDisk(mapBlockIndex, coinsBest)
  BY Zenon, <1>1 DEF RestartBody, ChainsOnDisk, Running, Alive
<1>4. b \notin Ancestors[dbBest] /\ b \notin Ancestors[coinsBest]
  BY Zenon, <1>1, <1>3 DEF OnDisk, Linked
<1> QED  BY Zenon, <1>1, <1>2, <1>4, BlockEnters

(* A block without data that AcceptBlock stores is on neither chain: one   *)
(* that was pruned is fetched again only if it is not in the active chain. *)
LEMMA AcceptBlockRestart ==
  ASSUME Inv, RestartBody, CountersGrow, Calm, NEW b \in Block \ {Genesis}, AcceptBlock(b)
  PROVE  RestartBody'
<1>0. mapBlockIndex \in [Block -> Entry] /\ vinfoBlockFile \in [File -> FileInfo]
  BY Zenon DEF Inv, TypeOK
<1>1. /\ UNCHANGED <<coinsBest, tip, dbBest, dbIndex, node, setFilesToPrune>>
      /\ Running /\ pc = "idle" /\ mode' = "none"
      /\ ~HaveData(mapBlockIndex, b)
      /\ mapBlockIndex[b].has = "block" => b \notin Ancestors[tip]
  BY Zenon DEF AcceptBlock, Running, bestVars, dbVars, coinsDbVars
<1>2. PICK f \in File : mapBlockIndex' = Received(b, f)
  BY Zenon DEF AcceptBlock
<1>3. \A c \in Block \ {b} : mapBlockIndex'[c] = mapBlockIndex[c]
  BY Zenon, <1>0, <1>2 DEF Received
<1>4. HaveData(mapBlockIndex', b)
  <2>1. vinfoBlockFile[f].nSize \in Nat
    BY <1>0, <1>2 DEF FileInfo, Pos
  <2>2. mapBlockIndex'[b].nDataPos = vinfoBlockFile[f].nSize + 1
    BY Zenon, <1>0, <1>2 DEF Received
  <2> QED  BY <2>1, <2>2 DEF HaveData
<1>5. OnDisk(mapBlockIndex, dbBest) /\ OnDisk(mapBlockIndex, coinsBest)
  BY Zenon, <1>1 DEF RestartBody, ChainsOnDisk, Running, Alive
<1>6. b \notin Ancestors[dbBest] /\ b \notin Ancestors[coinsBest]
  <2>1. CASE mapBlockIndex[b].has # "block"
    BY Zenon, <1>5, <2>1 DEF OnDisk, Linked
  <2>2. CASE mapBlockIndex[b].has = "block"
    <3>1. nEvents["space"] = 0
      BY Zenon, <1>1, <2>2 DEF RestartBody, NeverPruned, Calm
    <3>2. node = "up" /\ setFilesToPrune = {} /\ coinsBest = tip
      BY Zenon, <1>1, <3>1 DEF RestartBody, NeverStopped, Running, Inv, PruneInv, TipInv
    <3> QED  BY Zenon, <1>1, <2>2, <3>1, <3>2 DEF RestartBody, PrunedInTip, Alive
  <2> QED  BY Zenon, <2>1, <2>2
<1> QED  BY Zenon, <1>1, <1>3, <1>4, <1>6, BlockEnters

(* ConnectBlock writes the undo data of the block it connects.             *)
LEMMA ConnectTipRestart ==
  ASSUME Inv, WaitInv, RestartBody, CountersGrow, NEW b \in Block \ {Genesis}, ConnectTip(b)
  PROVE  RestartBody'
<1>0. mapBlockIndex \in [Block -> Entry] /\ {"space", "prune"} \subseteq Event
  BY Zenon DEF Inv, TypeOK, Event
<1>1. /\ UNCHANGED <<tip, dbBest, dbIndex, node, setFilesToPrune>>
      /\ Running /\ node = "up" /\ HashPrev[b] = tip /\ coinsBest' = b
      /\ HaveData(mapBlockIndex, b)
  BY Zenon DEF ConnectTip, bestVars, dbVars, coinsDbVars
<1>2. coinsBest = tip /\ Alive /\ tip \in Block /\ dbBest \in Block
  BY Zenon, <1>1 DEF Inv, TipInv, Running, DownInv, TypeOK, Alive
<1>3. /\ \A c \in Block : /\ mapBlockIndex'[c].has = mapBlockIndex[c].has
                          /\ mapBlockIndex'[c].nDataPos = mapBlockIndex[c].nDataPos
      /\ \A c \in Block \ {b} : mapBlockIndex'[c] = mapBlockIndex[c]
      /\ mapBlockIndex'[b].nUndoPos # 0
  <2>1. CASE HaveUndo(mapBlockIndex, b)
    BY Zenon, <2>1 DEF ConnectTip, memVars, HaveUndo
  <2>2. CASE ~HaveUndo(mapBlockIndex, b)
    <3>1. PICK p \in Pos : mapBlockIndex' = [mapBlockIndex EXCEPT ![b] = [@ EXCEPT !.nUndoPos = p]]
      BY Zenon, <2>2 DEF ConnectTip
    <3>2. p # 0
      BY <3>1 DEF Pos
    <3> QED  BY <1>0, <3>1, <3>2 DEF Entry
  <2> QED  BY Zenon, <2>1, <2>2
<1>4. ASSUME NEW best \in Block, OnDisk(mapBlockIndex, best)
      PROVE  OnDisk(mapBlockIndex', best)
  <2>1. Ancestors[best] \subseteq Block
    BY Zenon, AncestorsFacts
  <2>2. \A a \in Ancestors[best] :
          /\ mapBlockIndex[a].has = "block" => mapBlockIndex'[a].has = "block"
          /\ HaveData(mapBlockIndex', a) => HaveData(mapBlockIndex, a)
          /\ HaveData(mapBlockIndex', a) /\ HaveUndo(mapBlockIndex, a)
               => HaveUndo(mapBlockIndex', a)
    BY Zenon, <1>3, <2>1 DEF HaveData, HaveUndo
  <2> QED  BY Zenon, <1>4, <2>2, OnDiskKept
<1>5. OnDisk(mapBlockIndex', dbBest) /\ OnDisk(mapBlockIndex', tip)
  BY Zenon, <1>2, <1>4 DEF RestartBody, ChainsOnDisk
<1>6. mapBlockIndex'[b].has = "block"
  BY Zenon, <1>1, <1>3 DEF WaitInv, DataReceived
<1>7. OnDisk(mapBlockIndex', b)
  <2>1. Ancestors[b] = Ancestors[tip] \cup {b}
    BY Zenon, <1>1, AncestorsFacts
  <2>2. HaveUndo(mapBlockIndex', b)
    BY Zenon, <1>3 DEF HaveUndo
  <2>3. Linked(mapBlockIndex', b)
    BY Zenon, <1>5, <1>6, <2>1 DEF OnDisk, Linked
  <2>4. ASSUME NEW a \in Ancestors[b] \ {Genesis}, HaveData(mapBlockIndex', a)
        PROVE  HaveUndo(mapBlockIndex', a)
    <3>1. CASE a = b
      BY Zenon, <2>2, <3>1
    <3>2. CASE a \in Ancestors[tip]
      BY Zenon, <1>5, <2>4, <3>2 DEF OnDisk
    <3> QED  BY Zenon, <2>1, <2>4, <3>1, <3>2
  <2> QED  BY Zenon, <2>3, <2>4 DEF OnDisk
<1>8. ChainsOnDisk'
  BY Zenon, <1>1, <1>5, <1>7 DEF RestartBody, ChainsOnDisk, OnDisk, Linked, HaveData, HaveUndo
<1>9. NeverStopped' /\ NeverPruned'
  BY Zenon, <1>0, <1>1, <1>3 DEF RestartBody, CountersGrow, NeverStopped, NeverPruned, HaveData
<1>10. PrunedInTip'
  <2>1. Ancestors[dbBest] \subseteq Block
    BY Zenon, <1>2, AncestorsFacts
  <2> QED
    BY Zenon, <1>0, <1>1, <1>3, <2>1 DEF RestartBody, CountersGrow, PrunedInTip, HaveData, Alive
<1>11. TipMoves'
  BY Zenon, <1>1 DEF TipMoves
<1> QED  BY Zenon, <1>1, <1>8, <1>9, <1>10, <1>11 DEF RestartBody

(* The parent of the tip is on disk when the tip is disconnected.          *)
LEMMA DisconnectTipRestart ==
  ASSUME Inv, RestartBody, CountersGrow, DisconnectTip PROVE RestartBody'
<1>0. {"space", "prune"} \subseteq Event
  BY Zenon DEF Event
<1>1. /\ UNCHANGED <<mapBlockIndex, tip, dbBest, dbIndex, node, setFilesToPrune>>
      /\ Running /\ node = "up" /\ tip # Genesis /\ coinsBest' = HashPrev[tip]
      /\ HaveData(mapBlockIndex, tip)
  BY Zenon DEF DisconnectTip, memVars, dbVars, coinsDbVars
<1>2. coinsBest = tip /\ Alive /\ tip \in Block
  BY Zenon, <1>1 DEF Inv, TipInv, Running, DownInv, Alive
<1>3. OnDisk(mapBlockIndex, HashPrev[tip])
  BY Zenon, <1>1, <1>2, OnDiskParent DEF RestartBody, ChainsOnDisk
<1>4. ChainsOnDisk'
  BY Zenon, <1>1, <1>2, <1>3 DEF RestartBody, ChainsOnDisk, OnDisk, Linked, HaveData, HaveUndo
<1>5. NeverStopped' /\ NeverPruned' /\ PrunedInTip'
  BY Zenon, <1>0, <1>1 DEF RestartBody, CountersGrow, NeverStopped, NeverPruned, PrunedInTip,
     HaveData, Alive
<1>6. TipMoves'
  BY Zenon, <1>1 DEF TipMoves, HaveData
<1> QED  BY Zenon, <1>1, <1>4, <1>5, <1>6 DEF RestartBody

(* The node comes up with what is on disk.                                 *)
LEMMA LoadRestart ==
  ASSUME Inv, RestartBody, CountersGrow, LoadBlockIndexDB PROVE RestartBody'
<1>0. {"space", "prune"} \subseteq Event
  BY Zenon DEF Event
<1>1. /\ mapBlockIndex' = dbIndex /\ coinsBest' = dbBest /\ tip' = dbBest /\ node' = "up"
      /\ node = "down" /\ UNCHANGED <<dbIndex, dbBest, pc>>
  BY Zenon DEF LoadBlockIndexDB, dbVars, coinsDbVars, flushVars
<1>2. pc' = "idle"
  BY Zenon, <1>1 DEF Inv, DownInv, Alive
<1>3. ChainsOnDisk'
  BY Zenon, <1>1 DEF RestartBody, ChainsOnDisk, OnDisk, Linked, HaveData, HaveUndo
<1>4. NeverStopped' /\ NeverPruned' /\ PrunedInTip' /\ TipMoves'
  BY Zenon, <1>0, <1>1, <1>2 DEF RestartBody, CountersGrow, NeverStopped, NeverPruned,
     PrunedInTip, TipMoves, HaveData
<1> QED  BY Zenon, <1>1, <1>3, <1>4 DEF RestartBody

(* The block files are there, the index knows the best block, and VerifyDB *)
(* finds the blocks it checks and their undo data.                         *)
LEMMA StartsUp ==
  ASSUME Inv, UndoInv, NoPowerLoss, ChainsOnDisk PROVE StartupPossible
<1>1. ASSUME NEW b \in Block, HaveData(dbIndex, b)
      PROVE  /\ dbIndex[b].nDataPos \in Pos
             /\ blk[dbIndex[b].nFile][dbIndex[b].nDataPos] = b
  BY Zenon, <1>1 DEF Inv, TypeOK, Entry, HaveData, DiskInv, Stored
<1>2. FilesPresent
  BY Zenon, <1>1, PersistAssumption DEF FilesPresent
<1>3. Known(dbIndex, dbBest) /\ dbBest \in Block
  BY Zenon DEF Inv, TypeOK, ChainstateIndexed
<1>4. ASSUME NEW a \in Checked(dbBest)
      PROVE  /\ Readable(dbIndex, a)
             /\ HaveUndo(dbIndex, a) /\ UndoReadable(dbIndex, a)
  <2>1. /\ a \in Ancestors[dbBest] \ {Genesis}
        /\ \A c \in Ancestors[dbBest] \ (Ancestors[a] \ {a}) : HaveData(dbIndex, c)
    BY Zenon, <1>4 DEF Checked
  <2>2. a \in Block /\ HaveData(dbIndex, a)
    BY Zenon, <1>3, <2>1, AncestorsFacts
  <2>3. HaveUndo(dbIndex, a)
    BY Zenon, <2>1, <2>2 DEF ChainsOnDisk, OnDisk
  <2>4. UndoReadable(dbIndex, a)
    BY Zenon, <2>2, <2>3 DEF UndoInv, UndoStored, UndoReadable
  <2> QED  BY Zenon, <1>1, <2>2, <2>3, <2>4 DEF Readable
<1> QED  BY Zenon, <1>2, <1>3, <1>4 DEF StartupPossible, VerifyDB

(* Steps that begin a flush or write cells, and stuttering.                *)
LEMMA FlushRestart ==
  ASSUME Inv, RestartBody, CountersGrow,
         \/ FlushPeriodic \/ Shutdown \/ FlushNeeded \/ FlushBlockFile \/ UnlinkPrunedFiles
         \/ UNCHANGED vars
  PROVE  RestartBody'
<1>1. UNCHANGED <<mapBlockIndex, dbIndex, coinsBest, tip, dbBest, node, setFilesToPrune>>
  BY Zenon DEF FlushPeriodic, Shutdown, FlushNeeded, FlushBlockFile, UnlinkPrunedFiles,
     vars, memVars, bestVars, dbVars, coinsDbVars, flushVars
<1>2. mode' # "ifneeded" \/ (mode' = mode /\ (pc' # "idle" => pc # "idle"))
  BY Zenon DEF FlushPeriodic, Shutdown, FlushNeeded, FlushBlockFile, UnlinkPrunedFiles,
     vars, flushVars
<1>3. TipMoves'
  BY Zenon, <1>1, <1>2 DEF RestartBody, TipMoves, Alive, HaveData
<1> QED  BY Zenon, <1>1, <1>3, RestartFrame

(* Every step keeps what start-up needs.                                   *)
LEMMA RestartNext == Inv /\ UndoInv /\ WaitInv /\ RestartInv /\ [Next]_vars => RestartInv'
<1> SUFFICES ASSUME Inv, UndoInv, WaitInv, RestartInv, [Next]_vars, Calm' PROVE RestartBody'
  BY Zenon DEF RestartInv
<1>0. CountersGrow /\ {"space", "prune", "power"} \subseteq Event
  BY Zenon, EventsGrow DEF Event
<1>1. Calm
  BY Zenon, <1>0 DEF CountersGrow, Calm, NoPowerLoss
<1>2. RestartBody
  BY Zenon, <1>1 DEF RestartInv
<1>3. ASSUME NEW b \in Block \ {Genesis},
             AddToBlockIndex(b) \/ AcceptBlock(b) \/ AcceptBlockInvalid(b) \/ ConnectTip(b)
      PROVE  RestartBody'
  BY Zenon, <1>0, <1>1, <1>2, <1>3, EntersBlock, EnteredRestart, AcceptBlockRestart,
     ConnectTipRestart
<1>4. CASE DisconnectTip \/ FlushForPrune \/ WriteBatchSync \/ FlushCoins \/ FlushNoSpace
           \/ LoadBlockIndexDB
  BY Zenon, <1>0, <1>2, <1>4, DisconnectTipRestart, FlushForPruneRestart, WriteBatchRestart,
     FlushCoinsRestart, FlushNoSpaceRestart, LoadRestart
<1>5. CASE \/ FlushPeriodic \/ Shutdown \/ FlushNeeded \/ FlushBlockFile \/ UnlinkPrunedFiles
           \/ UNCHANGED vars
  BY Zenon, <1>0, <1>2, <1>5, FlushRestart
<1>6. CASE FlushNotNeeded \/ IndexOnly
  <2>1. /\ UNCHANGED <<dbIndex, dbBest>> /\ FlushReturns("ok") /\ pc # "idle"
        /\ setFilesToPrune = {}
    BY Zenon, <1>6 DEF FlushNotNeeded, IndexOnly, dbVars, coinsDbVars, Inv, PruneInv
  <2> QED
    BY Zenon, <1>0, <1>2, <2>1, RestartReturns DEF RestartBody, ChainsOnDisk
<1>7. CASE Kill
  BY Zenon, <1>0, <1>2, <1>7, RestartUnload DEF Kill, dbVars, coinsDbVars, RestartBody, ChainsOnDisk
<1>8. CASE PowerFails
  BY Zenon, <1>0, <1>8, SpendGrows DEF PowerFails, Calm, NoPowerLoss
<1>9. CASE StartupFails
  BY Zenon, <1>1, <1>2, <1>9, StartsUp DEF StartupFails, Calm, RestartBody
<1> QED
  BY Zenon, <1>3, <1>4, <1>5, <1>6, <1>7, <1>8, <1>9 DEF Next, BlockStep, FlushStep

(* The genesis block is stored and needs no undo data.                     *)
LEMMA RestartInit == Init => RestartInv
<1> SUFFICES ASSUME Init PROVE RestartBody
  BY Zenon DEF RestartInv
<1>1. /\ mapBlockIndex[Genesis].has = "block" /\ mapBlockIndex[Genesis].nDataPos = 1
      /\ \A b \in Block \ {Genesis} : mapBlockIndex[b].has = "nothing"
      /\ dbIndex = mapBlockIndex /\ coinsBest = Genesis /\ tip = Genesis /\ dbBest = Genesis
      /\ node = "up" /\ pc = "idle"
  BY Zenon, PersistAssumption DEF Init, NoEntry
<1>2. OnDisk(mapBlockIndex, Genesis)
  BY Zenon, <1>1, AncestorsFacts DEF OnDisk, Linked
<1>3. HaveData(mapBlockIndex, Genesis)
  BY <1>1 DEF HaveData
<1> QED
  BY Zenon, <1>1, <1>2, <1>3 DEF RestartBody, ChainsOnDisk, NeverStopped, NeverPruned,
     PrunedInTip, TipMoves

(* Whatever FlushStateToDisk was doing when the process was killed, the    *)
(* node starts again, unless a pruning and a full disk have come together: *)
(* the index and the block files are written before the coins, so VerifyDB *)
(* finds the last blocks of the chain and their undo data.                 *)
THEOREM StartupAlwaysSucceeds ==
  Spec => [](nEvents["space"] = 0 \/ nEvents["prune"] = 0 => StartupSucceeds)
<1>1. RestartInv => (nEvents["space"] = 0 \/ nEvents["prune"] = 0 => StartupSucceeds)
  BY Zenon DEF RestartInv, Calm, RestartBody, NoPowerLoss, StartupSucceeds
<1> QED
  BY <1>1, RestartInit, RestartNext, WaitInit, WaitNext, UndoInit, UndoNext, InitInv, NextInv,
     PTL DEF Spec
=============================================================================
