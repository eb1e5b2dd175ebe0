---------------------------- MODULE ChainPersist ----------------------------
(***************************************************************************)
(* What validation.cpp keeps on disk and in which order it writes it: the  *)
(* block and undo files (FindBlockPos, WriteBlockToDisk, FindUndoPos,      *)
(* UndoWriteToDisk, FlushBlockFile), the block index database with the     *)
(* sets of dirty entries (CBlockTreeDB::WriteBatchSync), the best block of *)
(* the chainstate (pcoinsTip->Flush) and the removal of pruned files.      *)
(* FlushStateToDisk writes them one after the other; the process may be    *)
(* killed or the power may fail between any two writes, and start-up       *)
(* (LoadBlockIndexDB, VerifyDB) works with what it finds.                  *)
(*                                                                         *)
(* Which chain is activated is the subject of ChainState; here any stored  *)
(* child of the tip may be connected and any tip disconnected.  So marks   *)
(* that invalidateblock and a failed ConnectBlock leave on stored blocks,  *)
(* and blocks that FindMostWorkChain puts back into mapBlocksUnlinked      *)
(* because an ancestor is pruned, are not in this module.  Blocks all have *)
(* the same size: a file is a sequence of cells, and a position is the     *)
(* number of a cell.                                                       *)
(***************************************************************************)
EXTENDS Integers, FiniteSets

CONSTANTS
  Block, Genesis,
  HashPrev,           \* hashPrevBlock of every block but the genesis block
  Height,             \* nHeight
  BadBlocks,          \* which sets of blocks may break the rules of
                      \* ContextualCheckBlock
  NoBlock,            \* NULL, and the content of a cell that was never
                      \* written or that is lost
  MaxFile,            \* bound on the number of block files
  BlocksPerFile,      \* MAX_BLOCKFILE_SIZE, in blocks
  MIN_BLOCKS_TO_KEEP,
  PruneAfterHeight,
  CheckBlocks,        \* -checkblocks of VerifyDB
  MaxEvents           \* bound on the faults and calls of each kind

File == 0 .. MaxFile
Pos == 1 .. BlocksPerFile
Event == {"header", "flush", "stop", "prune", "space", "index", "kill", "power", "any"}

ASSUME PersistAssumption ==
  /\ Genesis \in Block
  /\ HashPrev \in [Block \ {Genesis} -> Block]
  /\ Height \in [Block -> Nat]
  /\ NoBlock \notin Block
  /\ MaxFile \in Nat
  /\ BlocksPerFile \in Nat \ {0}
  /\ MIN_BLOCKS_TO_KEEP \in Nat
  /\ PruneAfterHeight \in Nat /\ PruneAfterHeight >= MIN_BLOCKS_TO_KEEP
  /\ CheckBlocks \in Nat
  /\ MaxEvents \in [Event -> Nat]
ASSUME BadBlocksAssumption == BadBlocks \subseteq SUBSET (Block \ {Genesis})

(* CBlockIndex: what is known of the block, and where its data and its     *)
(* undo data are.  HAVE_DATA is nDataPos # 0 and HAVE_UNDO is              *)
(* nUndoPos # 0; has is "block" once nTx # 0, and "invalid" for            *)
(* BLOCK_FAILED_VALID on a block that was never stored.                    *)
Entry == [has : {"nothing", "header", "invalid", "block"}, nFile : File,
          nDataPos : Pos \cup {0}, nUndoPos : Pos \cup {0}]
NoEntry == [has |-> "nothing", nFile |-> 0, nDataPos |-> 0, nUndoPos |-> 0]

(* CBlockFileInfo                                                          *)
FileInfo == [nSize : Pos \cup {0}, nUndoSize : Pos \cup {0}, nHeightLast : Nat]
NullInfo == [nSize |-> 0, nUndoSize |-> 0, nHeightLast |-> 0]

VARIABLES
  (* Memory of the process.                                                *)
  mapBlockIndex,      \* an entry for every block, NoEntry if not in the map
  vinfoBlockFile, nLastBlockFile,
  setDirtyBlockIndex, setDirtyFileInfo,
  mapBlocksUnlinked,  \* the blocks b with an entry (b->pprev, b)
  nChainTx,           \* the blocks b with b->nChainTx # 0
  coinsBest,          \* pcoinsTip->GetBestBlock()
  tip,                \* chainActive.Tip()
  node,               \* "up", "stopping" after AbortNode, "down", or
                      \* "failed" when start-up gave up
  pc,                 \* the step of FlushStateToDisk that is next
  mode,               \* its FlushStateMode
  fDoFullFlush,       \* "yes" or "no"
  setFilesToPrune,
  (* The disk.                                                             *)
  blk, rev,           \* cells of the block files and of the undo files
  unsynced,           \* cells that are written but not yet committed
  dbIndex, dbInfo, dbLast,   \* the block index database
  dbBest,             \* best block of the chainstate database
  dbOld,              \* the values it may fall back to when the power fails
  nEvents,
  badBlock            \* the blocks that ContextualCheckBlock rejects, which
                      \* no step changes

memVars == <<mapBlockIndex, vinfoBlockFile, nLastBlockFile,
             setDirtyBlockIndex, setDirtyFileInfo, mapBlocksUnlinked, nChainTx>>
bestVars == <<coinsBest, tip>>
flushVars == <<pc, mode, fDoFullFlush, setFilesToPrune>>
cellVars == <<blk, rev, unsynced>>
dbVars == <<dbIndex, dbInfo, dbLast>>
coinsDbVars == <<dbBest, dbOld>>
vars == <<memVars, bestVars, node, flushVars, cellVars, dbVars, coinsDbVars,
          nEvents, badBlock>>

-----------------------------------------------------------------------------
(* The block tree and the files.                                           *)

Known(index, b) == index[b].has # "nothing"
HaveData(index, b) == index[b].nDataPos # 0
HaveUndo(index, b) == index[b].nUndoPos # 0

(* ReadBlockFromDisk and UndoReadFromDisk find what the entry promises.    *)
Readable(index, b) ==
  HaveData(index, b) => blk[index[b].nFile][index[b].nDataPos] = b
UndoReadable(index, b) ==
  HaveUndo(index, b) => rev[index[b].nFile][index[b].nUndoPos] = b

PrevClosed(S) == \A b \in S \ {Genesis} : HashPrev[b] \in S
Ancestors ==
  [b \in Block |-> {a \in Block :
     \A S \in SUBSET Block : (b \in S /\ PrevClosed(S)) => a \in S}]

(* The transactions of b and of all its ancestors have been received at    *)
(* some time: LoadBlockIndexDB gives nChainTx to these blocks.             *)
Linked(index, b) == \A a \in Ancestors[b] : index[a].has = "block"

Spend(e) ==
  /\ nEvents[e] < MaxEvents[e] /\ nEvents["any"] < MaxEvents["any"]
  /\ nEvents' = [nEvents EXCEPT ![e] = @ + 1, !["any"] = @ + 1]

EmptyFiles == [f \in File |-> [p \in Pos |-> NoBlock]]

(* The genesis block is stored and connected and everything is flushed     *)
(* (InitBlockIndex, and the first ActivateBestChain).                      *)
Init ==
  /\ mapBlockIndex = [[b \in Block |-> NoEntry] EXCEPT ![Genesis] =
       [has |-> "block", nFile |-> 0, nDataPos |-> 1, nUndoPos |-> 0]]
  /\ vinfoBlockFile = [[f \in File |-> NullInfo] EXCEPT ![0] =
       [nSize |-> 1, nUndoSize |-> 0, nHeightLast |-> Height[Genesis]]]
  /\ nLastBlockFile = 0
  /\ setDirtyBlockIndex = {} /\ setDirtyFileInfo = {}
  /\ mapBlocksUnlinked = {} /\ nChainTx = {Genesis}
  /\ coinsBest = Genesis /\ tip = Genesis /\ node = "up"
  /\ pc = "idle" /\ mode = "none" /\ fDoFullFlush = "no" /\ setFilesToPrune = {}
  /\ blk = [EmptyFiles EXCEPT ![0] = [@ EXCEPT ![1] = Genesis]]
  /\ rev = EmptyFiles /\ unsynced = {}
  /\ dbIndex = mapBlockIndex /\ dbInfo = vinfoBlockFile /\ dbLast = 0
  /\ dbBest = Genesis /\ dbOld = {Genesis}
  /\ nEvents = [f \in Event |-> 0]
  /\ badBlock \in BadBlocks

Running == node \in {"up", "stopping"} /\ pc = "idle"

-----------------------------------------------------------------------------
(* Blocks arrive, are connected and disconnected.                          *)

(* AcceptBlockHeader: no header is accepted that is marked invalid, and no *)
(* new one whose parent is unknown or invalid.                             *)
AcceptBlockHeader(b) ==
  /\ mapBlockIndex[b].has # "invalid"
  /\ ~Known(mapBlockIndex, b) =>
       mapBlockIndex[HashPrev[b]].has \notin {"nothing", "invalid"}

(* AddToBlockIndex for a header that arrives before its block              *)
AddToBlockIndex(b) ==
  /\ Running /\ Spend("header")
  /\ ~Known(mapBlockIndex, b) /\ AcceptBlockHeader(b)
  /\ mapBlockIndex' = [mapBlockIndex EXCEPT ![b] = [NoEntry EXCEPT !.has = "header"]]
  /\ setDirtyBlockIndex' = setDirtyBlockIndex \cup {b}
  /\ UNCHANGED <<vinfoBlockFile, nLastBlockFile, setDirtyFileInfo,
                 mapBlocksUnlinked, nChainTx, bestVars, node, flushVars,
                 cellVars, dbVars, coinsDbVars, badBlock>>

(* FlushBlockFile commits the files with number nLastBlockFile.            *)
Committed == {c \in unsynced : c[2] = nLastBlockFile}

(* Changed definitions, here and below, which the properties must reject.  *)
TruncateShort(cells, n) == [p \in Pos |-> IF p < n THEN cells[p] ELSE NoBlock]

(* TruncateFile: the cells after the first n are gone.                     *)
Truncate(cells, n) == [p \in Pos |-> IF p <= n THEN cells[p] ELSE NoBlock]

(* FindBlockPos: b goes to the end of file f, the first one from           *)
(* nLastBlockFile with room for it.  A file that is left is truncated to   *)
(* its recorded size and committed.                                        *)
FindBlockPos(f) ==
  /\ f \in nLastBlockFile .. MaxFile
  /\ vinfoBlockFile[f].nSize < BlocksPerFile
  /\ \A g \in nLastBlockFile .. f - 1 : vinfoBlockFile[g].nSize = BlocksPerFile

Max2(m, n) == IF m > n THEN m ELSE n

(* CBlockFileInfo::AddBlock, and the new size.                             *)
AddBlock(info, h) ==
  [info EXCEPT !.nSize = @ + 1,
     !.nHeightLast = IF info.nSize = 0 THEN h ELSE Max2(h, @)]

(* ReceivedBlockTransactions: the entry of b afterwards.                   *)
Received(b, f) ==
  [mapBlockIndex EXCEPT ![b] = [has |-> "block", nFile |-> f,
     nDataPos |-> vinfoBlockFile[f].nSize + 1, nUndoPos |-> 0]]

(* The waiting blocks that its queue reaches from b: all blocks between    *)
(* them and b wait too.                                                    *)
ReachedChildren(b) == {c \in mapBlocksUnlinked \ {b} : HashPrev[c] = b}
Reached(b) ==
  {c \in mapBlocksUnlinked \ {b} :
     b \in Ancestors[c] /\ Ancestors[c] \ Ancestors[b] \subseteq mapBlocksUnlinked}

(* A block whose parent is linked is linked, with the blocks that waited   *)
(* for it.  Another block waits, unless its parent is marked invalid.      *)
LinkBlock(b) ==
  IF HashPrev[b] \in nChainTx
  THEN /\ nChainTx' = nChainTx \cup {b} \cup Reached(b)
       /\ mapBlocksUnlinked' = mapBlocksUnlinked \ Reached(b)
  ELSE /\ nChainTx' = nChainTx \ {b}
       /\ mapBlocksUnlinked' =
            IF mapBlockIndex[HashPrev[b]].has # "invalid"
            THEN mapBlocksUnlinked \cup {b} ELSE mapBlocksUnlinked

(* AcceptBlock, which enters the header too if it is new, with a block     *)
(* whose data is not here, because it never was or because it was pruned.  *)
(* A pruned block is accepted only if it was requested, and                *)
(* FindNextBlocksToDownload requests no block of the active chain.  Blocks *)
(* of whitelisted peers and of imported files are left out.                *)
AcceptBlock(b) ==
  /\ Running
  /\ AcceptBlockHeader(b) /\ ~HaveData(mapBlockIndex, b) /\ b \notin badBlock
  /\ mapBlockIndex[b].has = "block" => b \notin Ancestors[tip]
  /\ \E f \in File :
       LET p == vinfoBlockFile[f].nSize + 1
           old == vinfoBlockFile[nLastBlockFile]
           left == f # nLastBlockFile
       IN /\ FindBlockPos(f)
          /\ blk' = [g \in File |->
               IF g = f THEN [blk[f] EXCEPT ![p] = b]
               ELSE IF g = nLastBlockFile THEN Truncate(blk[g], old.nSize)
               ELSE blk[g]]
          /\ rev' = IF left
               THEN [rev EXCEPT ![nLastBlockFile] = Truncate(@, old.nUndoSize)]
               ELSE rev
          /\ unsynced' = (IF left THEN unsynced \ Committed ELSE unsynced)
                            \cup {<<"blk", f, p>>}
          /\ vinfoBlockFile' = [vinfoBlockFile EXCEPT ![f] = AddBlock(@, Height[b])]
          /\ setDirtyFileInfo' = setDirtyFileInfo \cup {f}
          /\ nLastBlockFile' = f
          /\ mapBlockIndex' = Received(b, f)
  /\ LinkBlock(b)
  /\ setDirtyBlockIndex' = setDirtyBlockIndex \cup {b}
  /\ pc' = "begin" /\ mode' = "none"
  /\ UNCHANGED <<bestVars, node, fDoFullFlush, setFilesToPrune, dbVars,
                 coinsDbVars, nEvents, badBlock>>

(* AcceptBlock with a block that ContextualCheckBlock rejects: the entry   *)
(* is marked and nothing is stored.                                        *)
AcceptBlockInvalid(b) ==
  /\ Running
  /\ AcceptBlockHeader(b) /\ mapBlockIndex[b].has # "block" /\ b \in badBlock
  /\ mapBlockIndex' = [mapBlockIndex EXCEPT ![b] = [NoEntry EXCEPT !.has = "invalid"]]
  /\ setDirtyBlockIndex' = setDirtyBlockIndex \cup {b}
  /\ UNCHANGED <<vinfoBlockFile, nLastBlockFile, setDirtyFileInfo,
                 mapBlocksUnlinked, nChainTx, bestVars, node, flushVars,
                 cellVars, dbVars, coinsDbVars, nEvents, badBlock>>

(* ConnectBlock of b, stored as a child of the tip, writes its undo data   *)
(* behind the undo data of the file b is in, unless it has some already.   *)
(* The view is flushed to pcoinsTip and FlushStateToDisk is called before  *)
(* chainActive moves.  ActivateBestChain stops once a shutdown is          *)
(* requested.                                                              *)
ConnectTip(b) ==
  /\ Running /\ node = "up"
  /\ HashPrev[b] = tip /\ b \in nChainTx
  /\ HaveData(mapBlockIndex, b) /\ Readable(mapBlockIndex, b)
  /\ LET f == mapBlockIndex[b].nFile
         p == vinfoBlockFile[f].nUndoSize + 1
     IN IF HaveUndo(mapBlockIndex, b)
        THEN UNCHANGED <<memVars, cellVars>>
        ELSE /\ p \in Pos
             /\ rev' = [rev EXCEPT ![f] = [@ EXCEPT ![p] = b]]
             /\ unsynced' = unsynced \cup {<<"rev", f, p>>}
             /\ vinfoBlockFile' = [vinfoBlockFile EXCEPT ![f] = [@ EXCEPT !.nUndoSize = p]]
             /\ setDirtyFileInfo' = setDirtyFileInfo \cup {f}
             /\ mapBlockIndex' = [mapBlockIndex EXCEPT ![b] = [@ EXCEPT !.nUndoPos = p]]
             /\ setDirtyBlockIndex' = setDirtyBlockIndex \cup {b}
             /\ UNCHANGED <<blk, nLastBlockFile, mapBlocksUnlinked, nChainTx>>
  /\ coinsBest' = b
  /\ pc' = "begin" /\ mode' = "ifneeded"
  /\ UNCHANGED <<tip, node, fDoFullFlush, setFilesToPrune, dbVars,
                 coinsDbVars, nEvents, badBlock>>

(* DisconnectTip reads the block and its undo data.                        *)
DisconnectTip ==
  /\ Running /\ node = "up"
  /\ tip # Genesis
  /\ HaveData(mapBlockIndex, tip) /\ Readable(mapBlockIndex, tip)
  /\ HaveUndo(mapBlockIndex, tip) /\ UndoReadable(mapBlockIndex, tip)
  /\ coinsBest' = HashPrev[tip]
  /\ pc' = "begin" /\ mode' = "ifneeded"
  /\ UNCHANGED <<memVars, tip, node, fDoFullFlush, setFilesToPrune, cellVars,
                 dbVars, coinsDbVars, nEvents, badBlock>>

-----------------------------------------------------------------------------
(* FlushStateToDisk, one action for each thing it writes.  cs_main is held *)
(* from "begin" on, so nothing but a fault comes in between.               *)

(* UnloadBlockIndex, and the rest of the memory of the process.            *)
Unloaded ==
  /\ mapBlockIndex' = [b \in Block |-> NoEntry]
  /\ vinfoBlockFile' = [f \in File |-> NullInfo] /\ nLastBlockFile' = 0
  /\ setDirtyBlockIndex' = {} /\ setDirtyFileInfo' = {}
  /\ mapBlocksUnlinked' = {} /\ nChainTx' = {}
  /\ coinsBest' = NoBlock /\ tip' = NoBlock

NotFlushing == pc' = "idle" /\ mode' = "none" /\ fDoFullFlush' = "no" /\ setFilesToPrune' = {}

(* FlushStateToDisk returns, with an error after AbortNode.  ConnectTip    *)
(* and DisconnectTip then call UpdateTip, or return the error; Shutdown    *)
(* ends the process either way.                                            *)
FlushReturns(result) ==
  /\ NotFlushing
  /\ IF mode = "always"
     THEN node' = "down" /\ Unloaded
     ELSE /\ node' = IF result = "error" THEN "stopping" ELSE node
          /\ tip' = IF result = "ok" /\ mode = "ifneeded" THEN coinsBest ELSE tip
          /\ UNCHANGED <<memVars, coinsBest>>

(* ActivateBestChain when it is done, AcceptToMemoryPool                   *)
FlushPeriodic ==
  /\ Running /\ Spend("flush")
  /\ pc' = "begin" /\ mode' = "periodic"
  /\ UNCHANGED <<memVars, bestVars, node, fDoFullFlush, setFilesToPrune,
                 cellVars, dbVars, coinsDbVars, badBlock>>

(* Shutdown, called for by the operator or by AbortNode                    *)
Shutdown ==
  /\ Running /\ Spend("stop")
  /\ pc' = "begin" /\ mode' = "always"
  /\ UNCHANGED <<memVars, bestVars, node, fDoFullFlush, setFilesToPrune,
                 cellVars, dbVars, coinsDbVars, badBlock>>

(* Nothing has to be written: the caches are small, the time has not come. *)
FlushNotNeeded ==
  /\ pc = "begin" /\ mode # "always"
  /\ FlushReturns("ok")
  /\ UNCHANGED <<cellVars, dbVars, coinsDbVars, nEvents, badBlock>>

FlushNeededCoinsFirst ==
  /\ pc = "begin" /\ mode # "none"
  /\ fDoFullFlush' \in IF mode = "periodic" THEN {"yes", "no"} ELSE {"yes"}
  /\ pc' = IF fDoFullFlush' = "yes" THEN "coins" ELSE "files"
  /\ UNCHANGED <<memVars, bestVars, node, mode, setFilesToPrune, cellVars,
                 dbVars, coinsDbVars, nEvents, badBlock>>

(* Periodic writes leave the chainstate alone, all others do not.          *)
FlushNeeded ==
  /\ pc = "begin" /\ mode # "none"
  /\ pc' = "files"
  /\ fDoFullFlush' \in IF mode = "periodic" THEN {"yes", "no"} ELSE {"yes"}
  /\ UNCHANGED <<memVars, bestVars, node, mode, setFilesToPrune, cellVars,
                 dbVars, coinsDbVars, nEvents, badBlock>>

(* The files FindFilesToPrune and FindFilesToPruneManual may prune, and    *)
(* the sets they choose: the first ones until enough space is free, or     *)
(* the ones up to the height that the operator gives.                      *)
MayPrune ==
  {f \in File : /\ f < nLastBlockFile /\ vinfoBlockFile[f].nSize # 0
                /\ Height[tip] > PruneAfterHeight
                /\ vinfoBlockFile[f].nHeightLast <= Height[tip] - MIN_BLOCKS_TO_KEEP}
PruneChoices ==
  {{f \in MayPrune : f <= last} : last \in File}
    \cup {{f \in MayPrune : vinfoBlockFile[f].nHeightLast <= Height[b]} : b \in Block}

(* PruneOneBlockFile for every file of S.  Entries without data have the   *)
(* file number 0 and are touched with file 0.  nChainTx stays: a block     *)
(* pruned while it waits is not linked until it is stored again or until   *)
(* the next start.                                                         *)
InFiles(S) == {b \in Block : Known(mapBlockIndex, b) /\ mapBlockIndex[b].nFile \in S}
PruneBlockFiles(S) ==
  /\ mapBlockIndex' = [b \in Block |->
       IF b \in InFiles(S) THEN [NoEntry EXCEPT !.has = mapBlockIndex[b].has]
       ELSE mapBlockIndex[b]]
  /\ setDirtyBlockIndex' = setDirtyBlockIndex \cup InFiles(S)
  /\ mapBlocksUnlinked' = mapBlocksUnlinked \ InFiles(S)
  /\ vinfoBlockFile' = [f \in File |-> IF f \in S THEN NullInfo ELSE vinfoBlockFile[f]]
  /\ setDirtyFileInfo' = setDirtyFileInfo \cup S

(* Files are pruned first, whatever the mode, and then everything has to   *)
(* be written.                                                             *)
FlushForPrune ==
  /\ pc = "begin"
  /\ Spend("prune")
  /\ \E S \in PruneChoices \ {{}} : PruneBlockFiles(S) /\ setFilesToPrune' = S
  /\ pc' = "files" /\ fDoFullFlush' = "yes"
  /\ UNCHANGED <<nLastBlockFile, nChainTx, bestVars, node, mode, cellVars, dbVars,
                 coinsDbVars, badBlock>>

FlushBlockFileNothing ==
  /\ pc = "files" /\ pc' = "index"
  /\ UNCHANGED <<memVars, bestVars, node, mode, fDoFullFlush, setFilesToPrune,
                 cellVars, dbVars, coinsDbVars, nEvents, badBlock>>
FlushBlockFileUnlinks ==
  /\ pc = "files"
  /\ blk' = [f \in File |-> IF f \in setFilesToPrune THEN EmptyFiles[f] ELSE blk[f]]
  /\ unsynced' = unsynced \ Committed
  /\ pc' = "index"
  /\ UNCHANGED <<memVars, bestVars, node, mode, fDoFullFlush, setFilesToPrune,
                 rev, dbVars, coinsDbVars, nEvents, badBlock>>

FlushBlockFile ==
  /\ pc = "files"
  /\ unsynced' = unsynced \ Committed
  /\ pc' = "index"
  /\ UNCHANGED <<memVars, bestVars, node, mode, fDoFullFlush, setFilesToPrune,
                 blk, rev, dbVars, coinsDbVars, nEvents, badBlock>>

(* The entries of the dirty sets in one synchronous batch, with            *)
(* nLastBlockFile.                                                         *)
WriteBatchSync ==
  /\ pc = "index"
  /\ dbIndex' = [b \in Block |-> IF b \in setDirtyBlockIndex THEN mapBlockIndex[b]
                                 ELSE dbIndex[b]]
  /\ dbInfo' = [f \in File |-> IF f \in setDirtyFileInfo THEN vinfoBlockFile[f]
                               ELSE dbInfo[f]]
  /\ dbLast' = nLastBlockFile
  /\ setDirtyBlockIndex' = {} /\ setDirtyFileInfo' = {}
  /\ pc' = "unlink"
  /\ UNCHANGED <<mapBlockIndex, vinfoBlockFile, nLastBlockFile,
                 mapBlocksUnlinked, nChainTx, bestVars, node, mode, fDoFullFlush,
                 setFilesToPrune, cellVars, coinsDbVars, nEvents, badBlock>>

UnlinkPrunedFiles ==
  /\ pc = "unlink" /\ fDoFullFlush = "yes"
  /\ blk' = [f \in File |-> IF f \in setFilesToPrune THEN EmptyFiles[f] ELSE blk[f]]
  /\ rev' = [f \in File |-> IF f \in setFilesToPrune THEN EmptyFiles[f] ELSE rev[f]]
  /\ unsynced' = {c \in unsynced : c[2] \notin setFilesToPrune}
  /\ pc' = "coins"
  /\ UNCHANGED <<memVars, bestVars, node, mode, fDoFullFlush, setFilesToPrune,
                 dbVars, coinsDbVars, nEvents, badBlock>>

IndexOnly ==
  /\ pc = "unlink" /\ fDoFullFlush = "no"
  /\ FlushReturns("ok")
  /\ UNCHANGED <<cellVars, dbVars, coinsDbVars, nEvents, badBlock>>

(* pcoinsTip->Flush: one batch, which is not synchronous.                  *)
FlushCoins ==
  /\ pc = "coins"
  /\ dbBest' = coinsBest /\ dbOld' = dbOld \cup {coinsBest}
  /\ FlushReturns("ok")
  /\ UNCHANGED <<cellVars, dbVars, nEvents, badBlock>>

(* CheckDiskSpace fails before one of the two databases is written.        *)
FlushNoSpace ==
  /\ pc \in {"files", "coins"}
  /\ Spend("space")
  /\ FlushReturns("error")
  /\ UNCHANGED <<cellVars, dbVars, coinsDbVars, badBlock>>

-----------------------------------------------------------------------------
(* Faults and start-up.                                                    *)

(* The process is killed; the operating system keeps what it has written.  *)
Kill ==
  /\ node \in {"up", "stopping"}
  /\ Spend("kill")
  /\ node' = "down" /\ Unloaded /\ NotFlushing
  /\ UNCHANGED <<cellVars, dbVars, coinsDbVars, badBlock>>

(* The power fails: cells that are not committed may be lost, and so may   *)
(* the last batches of the chainstate database.                            *)
PowerFails ==
  /\ node \in {"up", "stopping"}
  /\ Spend("power")
  /\ \E lost \in SUBSET unsynced :
       /\ blk' = [f \in File |-> [p \in Pos |->
                    IF <<"blk", f, p>> \in lost THEN NoBlock ELSE blk[f][p]]]
       /\ rev' = [f \in File |-> [p \in Pos |->
                    IF <<"rev", f, p>> \in lost THEN NoBlock ELSE rev[f][p]]]
  /\ unsynced' = {}
  /\ dbBest' \in dbOld /\ dbOld' = {dbBest'}
  /\ node' = "down" /\ Unloaded /\ NotFlushing
  /\ UNCHANGED <<dbVars, badBlock>>

(* The block files that the index refers to are there.                     *)
FilesPresent ==
  \A b \in Block : HaveData(dbIndex, b) =>
    \E p \in Pos : blk[dbIndex[b].nFile][p] # NoBlock

(* VerifyDB reads the last blocks of the chain and disconnects them in     *)
(* memory, back to a block that is pruned.                                 *)
Checked(b) ==
  {a \in Ancestors[b] \ {Genesis} :
     /\ Height[a] >= Height[b] - CheckBlocks
     /\ \A c \in Ancestors[b] \ (Ancestors[a] \ {a}) : HaveData(dbIndex, c)}
VerifyDB(b) ==
  \A a \in Checked(b) : /\ Readable(dbIndex, a)
                        /\ HaveUndo(dbIndex, a) /\ UndoReadable(dbIndex, a)

(* Start-up goes wrong when a block file is missing, when VerifyDB fails,  *)
(* or when the index does not know the best block of the chainstate: the   *)
(* active chain then stays empty and the first ConnectBlock, of the        *)
(* genesis block, finds the view at another block and asserts.             *)
StartupPossible ==
  FilesPresent /\ Known(dbIndex, dbBest) /\ VerifyDB(dbBest)

(* The received blocks with a missing ancestor, pruned ones too.           *)
UnlinkedNone == {}
UnlinkedOnDisk == {b \in Block : dbIndex[b].has = "block" /\ ~Linked(dbIndex, b)}

(* LoadBlockIndexDB.  RewindBlockIndex finds every block stored with its   *)
(* witness, and its flush writes what has just been read.                  *)
LoadBlockIndexDB ==
  /\ node = "down" /\ StartupPossible
  /\ mapBlockIndex' = dbIndex /\ vinfoBlockFile' = dbInfo /\ nLastBlockFile' = dbLast
  /\ nChainTx' = {b \in Block : Linked(dbIndex, b)}
  /\ mapBlocksUnlinked' = UnlinkedOnDisk
  /\ coinsBest' = dbBest /\ tip' = dbBest /\ node' = "up"
  /\ UNCHANGED <<setDirtyBlockIndex, setDirtyFileInfo, flushVars, cellVars,
                 dbVars, coinsDbVars, nEvents, badBlock>>

StartupFails ==
  /\ node = "down" /\ ~StartupPossible
  /\ node' = "failed"
  /\ UNCHANGED <<memVars, bestVars, flushVars, cellVars, dbVars, coinsDbVars, nEvents, badBlock>>

-----------------------------------------------------------------------------
BlockStep ==
  \/ \E b \in Block \ {Genesis} :
       AddToBlockIndex(b) \/ AcceptBlock(b) \/ AcceptBlockInvalid(b) \/ ConnectTip(b)
  \/ DisconnectTip
FlushStep ==
  \/ FlushPeriodic \/ Shutdown \/ FlushNotNeeded \/ FlushNeeded \/ FlushForPrune
  \/ FlushBlockFile \/ WriteBatchSync \/ UnlinkPrunedFiles \/ IndexOnly
  \/ FlushCoins \/ FlushNoSpace
Next ==
  \/ BlockStep \/ FlushStep
  \/ Kill \/ PowerFails \/ LoadBlockIndexDB \/ StartupFails

Spec == Init /\ [][Next]_vars

(* WriteBatchSync fails after the dirty sets have been emptied: AbortNode. *)
WriteBatchFails ==
  /\ pc = "index"
  /\ Spend("index")
  /\ NotFlushing
  /\ IF mode = "always"
     THEN node' = "down" /\ Unloaded
     ELSE /\ node' = "stopping"
          /\ setDirtyBlockIndex' = {} /\ setDirtyFileInfo' = {}
          /\ UNCHANGED <<mapBlockIndex, vinfoBlockFile, nLastBlockFile,
                         mapBlocksUnlinked, nChainTx, bestVars>>
  /\ UNCHANGED <<cellVars, dbVars, coinsDbVars, badBlock>>

(* The node on a disk whose writes may fail.                               *)
FaultySpec == Init /\ [][Next \/ WriteBatchFails]_vars

-----------------------------------------------------------------------------
(* Properties.                                                             *)

(* Every variable has its type.                                            *)
TypeOK ==
  /\ mapBlockIndex \in [Block -> Entry] /\ dbIndex \in [Block -> Entry]
  /\ vinfoBlockFile \in [File -> FileInfo] /\ dbInfo \in [File -> FileInfo]
  /\ nLastBlockFile \in File /\ dbLast \in File
  /\ setDirtyBlockIndex \subseteq Block /\ setDirtyFileInfo \subseteq File
  /\ mapBlocksUnlinked \subseteq Block /\ nChainTx \subseteq Block
  /\ coinsBest \in Block \cup {NoBlock} /\ tip \in Block \cup {NoBlock}
  /\ node \in {"up", "stopping", "down", "failed"}
  /\ pc \in {"idle", "begin", "files", "index", "unlink", "coins"}
  /\ mode \in {"none", "ifneeded", "periodic", "always"}
  /\ fDoFullFlush \in {"yes", "no"} /\ setFilesToPrune \subseteq File
  /\ blk \in [File -> [Pos -> Block \cup {NoBlock}]]
  /\ rev \in [File -> [Pos -> Block \cup {NoBlock}]]
  /\ unsynced \subseteq {"blk", "rev"} \X File \X Pos
  /\ dbBest \in Block /\ dbOld \subseteq Block /\ dbBest \in dbOld
  /\ nEvents \in [Event -> Nat] /\ badBlock \in BadBlocks

(* The chainstate on disk never names a block that the index on disk does  *)
(* not know, whichever of its batches survive: FlushStateToDisk writes the *)
(* index before the coins.                                                 *)
ChainstateIndexed == \A b \in dbOld : Known(dbIndex, b)

(* Every block that the index, in memory or on disk, says is stored is     *)
(* where it says: no crash lets a later block overwrite it, no pruning     *)
(* removes it before the index on disk forgets it, and it is committed     *)
(* before the index on disk names it.                                      *)
BlocksReadable ==
  \A b \in Block : Readable(dbIndex, b) /\ Readable(mapBlockIndex, b)

(* The same of the undo data, as long as the power does not fail.          *)
UndosReadable ==
  nEvents["power"] = 0 =>
    \A b \in Block : UndoReadable(dbIndex, b) /\ UndoReadable(mapBlockIndex, b)

(* Whatever FlushStateToDisk was doing when the process was killed, the    *)
(* node starts again.  On a tree with a fork longer than                   *)
(* MIN_BLOCKS_TO_KEEP, only if pruning and a full disk do not both occur.  *)
StartupSucceeds == nEvents["power"] = 0 => node # "failed"

(* The coins and the active chain are at the same block whenever blocks    *)
(* may be connected: ConnectBlock and DisconnectBlock assert it.           *)
CoinsAtTip == Running /\ node = "up" => coinsBest = tip

(* Every stored block that is not linked waits in mapBlocksUnlinked, after *)
(* a pruning, a crash and a restart too, unless ContextualCheckBlock has   *)
(* rejected its parent: ReceivedBlockTransactions finds it when the block  *)
(* it waits for arrives.                                                   *)
WaitingBlocksKnown ==
  \A b \in Block \ {Genesis} :
    /\ HaveData(mapBlockIndex, b) /\ b \notin nChainTx
    /\ mapBlockIndex[HashPrev[b]].has # "invalid"
    => b \in mapBlocksUnlinked

(* No stored block is left behind: once its parent is linked it is linked, *)
(* in whichever order the blocks of its chain arrived, were pruned, were   *)
(* fetched again and were read from the index on disk.                     *)
StoredBlocksLinked ==
  \A b \in Block \ {Genesis} :
    HaveData(mapBlockIndex, b) /\ HashPrev[b] \in nChainTx => b \in nChainTx
=============================================================================
