# Verification of the Veggie node

Veggie is a node of a proof-of-work currency, derived from Bitcoin Core 0.14
(`src/src`). This directory holds TLA+ modules that model the parts of it on which
the agreement of its data rests, TLC configurations that check them on small
instances, and TLAPS proofs of the most important facts for every instance.

`tlc -config X.cfg M` checks a run, `tlapm M.tla` checks the proofs of a module.
`PROJECT.json` lists the runs, the source lines every definition models, the mutants,
the hazards of the code with the properties that cover them, and the theorems.

## The system

A node receives headers and blocks from its peers, keeps a tree of them (the block
index), chooses the valid chain with the most work, and maintains the set of unspent
coins at the tip of that chain, in memory and on disk.

| part | source | state | operations | interacts with |
|---|---|---|---|---|
| coins views | `coins.*`, `txdb.*`, `dbwrapper.*` | chainstate database, `pcoinsTip`, a view per block | fetch, modify, uncache, flush, batch write | chain activation, shutdown |
| block index and chain activation | `validation.cpp`, `chain.*` | `mapBlockIndex`, status flags, `setBlockIndexCandidates`, `mapBlocksUnlinked`, `chainActive` | accept header, accept block, link, activate, invalidate, reconsider, precious, prune | coins views, block files, memory pool, RPC |
| script check queue | `checkqueue.h` | queue, counters, condition variables | add, wait, worker loop | `ConnectBlock`, shutdown |
| block and undo application | `validation.cpp`, `undo.h` | coins, undo records | `UpdateCoins`, `ApplyTxInUndo`, `DisconnectBlock` | coins views |
| block files and flush order | `validation.cpp`, `txdb.cpp` | files, dirty sets, index database | `FindBlockPos`, `FlushStateToDisk`, `LoadBlockIndexDB` | all persistent state |
| difficulty and subsidy | `pow.cpp`, `chainparams.cpp` | parameters that change with the height | `GetNextWorkRequired`, `SetDifficultyAdjustmentParams` | header checks, mining |
| version bits | `versionbits.*` | threshold cache | `GetStateFor` | header checks, script flags |
| memory pool | `txmempool.*`, `policy/*` | transactions, ancestor and descendant totals | add, remove, trim, expire | chain activation, mining |
| message processing | `net_processing.*`, `blockencodings.*` | blocks in flight, orphans, peer states | message handlers, timeouts | block index, memory pool, connections |
| connections, addresses | `net.*`, `addrman.*` | nodes, buffers, address tables | socket, message and open-connection threads | message processing |
| scheduler | `scheduler.*` | task queue | schedule, service, stop | every periodic task |
| wallet | `wallet/*` | keys, transactions, key pool | sync, spend, rescan | chain activation signals |
| RPC, HTTP, REST, mining, start-up, user interface | `rpc/*`, `httpserver.*`, `miner.*`, `init.cpp`, `qt/*`, `zmq/*` | work queue, templates | handlers | everything above |
| scripts, cryptography, encodings | `script/*`, `hmq1725/*`, `secp256k1/*`, `serialize.h` | none | pure functions | validation |

Where it is hard: blocks come in any order and may turn out invalid long after they
were stored; the best chain is activated in steps with `cs_main` released in between,
while other threads run the same code; caches defer writes and drop what they believe
their parent knows; every write may fail and the process may stop at any point;
operator calls revise past verdicts; pruning removes what other structures refer to;
worker threads are interrupted while a block is being checked.

What makes it correct: the coins on disk are those of the block the database names; the
active chain is linked, valid and has the most work of all that the node could switch
to; the derived sets agree with the block tree, as `CheckBlockIndex` asserts; a block is
accepted if and only if all its checks succeed; every call ends.

## Modules

| module | contents |
|---|---|
| `UtxoStore` | what the coins views promise: three plain maps |
| `CoinsCache`, `CoinsCacheProofs` | database, `pcoinsTip` and the view of a block, with flags, memory accounting, failures and crashes; its invariants, and that it implements `UtxoStore` |
| `ChainState`, `ChainStateProofs`, `ChainSelectionProofs` | block index, candidates, linking, chain activation, operator calls, pruning; invariants of any number of threads, and what the calls of one thread promise when they have returned |
| `CheckQueue`, `CheckQueueProofs` | the script check queue |
| `ChainPersist`, `ChainPersistProofs` | block and undo files, the index and chainstate databases, the order of writes, faults and start-up |
| `BlockCoins` | what a block does to the coins and its undo data takes back, as operators |
| `MemPool`, `MemPoolProofs` | the transaction pool and the coins below it (with `BlockCoins`) through admission, blocks and reorganizations; that the undo data of a block takes back what it does |
| `BlockDownload`, `BlockDownloadProofs` | which block is requested from which peer, announcements, timeouts, compact blocks |
| `HeaderRules`, `HeaderRulesProofs` | difficulty parameters by height, deployment states and their caches |
| `MCCoinsCache`, `MCChainState`, `MCChainPersist`, `MCMemPool`, `MCBlockDownload`, `MCHeaderRules` | values of the constants for TLC |

How they fit together. `ChainState` decides which chain is active and takes a
block as connectable or not; `BlockCoins` says what connecting means, and `MemPool` composes it
with the pool at `ConnectTip` and `DisconnectTip`; `CoinsCache` shows that the layers of views
behave like the plain map of coins that `BlockCoins` works on; `ChainPersist` is where the
index and the best block of the coins meet on disk; `BlockDownload` delivers the blocks, and
`HeaderRules` judges their headers.

Operators whose comment says "Mutant" (or that precede a definition as a faulty variant of
it) are used to show that the properties can fail.

### CoinsCache

`db` and `dbBest` are `CCoinsViewDB`; `tip`, `tipBest`, `tipUsage` the members
`cacheCoins`, `hashBlock`, `cachedCoinsUsage` of `pcoinsTip`; `view...` those of the
`CCoinsViewCache` that `ConnectBlock` and `DisconnectBlock` fill. An entry of a
`CCoinsMap` is a record of coins and flags, or `Absent`. A `CCoins` is one value of
`Coins`, and `Pruned` the one without unspent outputs. All callers hold `cs_main`, so a
call is one action: a `CCoinsModifier` is never alive across two calls
(`hasModifier` asserts it). `stateOf` is a history variable: the coins a block
stood for when `SetBestBlock` named it.

* `FetchTip`, `FetchView`, `ModifyCoins`, `ModifyNewCoins`, `Uncache` and `FlushView`
  are the functions of the same or similar name in `coins.cpp`, each with the fetches
  into `pcoinsTip` it causes and the destructor of the modifier at its end.
* `FlushTip`, `FlushTipFails` are `pcoinsTip->Flush()` in `FlushStateToDisk`.
  `dbwrapper.cpp` throws on a failed write; by then `BatchWrite` has emptied the map, and the
  exception leaves `cachedCoinsUsage` and `hashBlock` as they were.
* `Shutdown` is the last flush of `init.cpp`, `Crash` a stop without it.

Left out: cursors, `GetStats`, and the height and version of a coin.

### ChainState

A block is a number, which also stands for the address that breaks ties in
`CBlockIndexWorkComparator`. The parent and the work of a block are fixed by its hash and
are constants, as are the sets of blocks that contextual checks (`BadContext`) or
`ConnectBlock` (`BadConnect`) reject. The fields of `CBlockIndex` are functions and sets over
blocks; `nStatus` is split into validity, data, undo and failure flags; of `nTx` and
`nChainTx` only whether they are 0 matters.

A thread runs one call at a time. `pc` says where it is and `csMain` who holds the lock.
Each action is one iteration of a loop of the code: one block linked by
`ReceivedBlockTransactions`, one candidate examined by `FindMostWorkChain`, one block
connected or disconnected by `ActivateBestChainStep` or `InvalidateBlock`. The lock is free
at `pc = "idle"`, `"accepted"` and `"abc"` only. `CheckBlockIndex` runs before the first two
(`CheckPoint`).

| `pc` | code |
|---|---|
| `accept` | `AcceptBlock` after `AcceptBlockHeader` |
| `link` | the queue of `ReceivedBlockTransactions` |
| `accepted` | `ProcessNewBlock` between `AcceptBlock` and `ActivateBestChain` |
| `abc` | top of the loop of `ActivateBestChain`, lock free |
| `find` | `FindMostWorkChain` |
| `step` | `ActivateBestChainStep` |
| `invalidate` | the loop of `InvalidateBlock` |

Abstractions, each of which keeps the behaviours of the code:

* Entries of `mapBlocksUnlinked` for the same pair are one; the order in which the children
  of one parent are linked is left open.
* Every block has a block file of its own, so pruning may remove any one block; the file
  written last stays. Which files go depends on sizes, so pruning is an action that may happen
  whenever `FlushStateToDisk` may run: with the lock free (periodic flush,
  `pruneblockchain`) or from inside `ConnectTip` and `DisconnectTip`.
* A block that fails `CheckBlock` before its header is accepted leaves no trace. A
  mutated block leaves what its header alone does.
* Any block may come as requested (`fRequested`) or not. That includes pruned blocks of the
  active chain, which a whitelisted peer or `-loadblock` delivers: they get their data back and no
  undo data, and `DisconnectTip` then fails without stopping the node (`StepDisconnectFails`,
  `InvalidateDisconnectFails`).
* `invalidateblock` is not called for the genesis block, where the code asserts.
* After AbortNode no new call starts; calls in progress see `ShutdownRequested`.
* After a failed assertion the real process ends; the model goes on.
* Left out: `nLastPreciousChainwork` beyond its comparison, saturation of the reverse
  sequence number at its least value, failures of block file writes, the memory pool.

### CheckQueue

An action is one critical section of the mutex. `Loop` is split at `cond.wait` and
at the execution of a batch, which touches only local variables and is therefore joined with the
clean-up that follows. `Add` and `Wait` belong to the master, which is the thread in
`ConnectBlock`; the destructor of `CCheckQueueControl` is `Wait`. Workers, and the import
thread when it is the master, can be interrupted in `cond.wait`: a worker ends, the
master unwinds and its control waits again. Both stay counted in `nTotal` and `nIdle`.
`fQuit` is never set. The checks a batch takes are any of the queue, not its last.

### ChainPersist

Memory (`mapBlockIndex`, `vinfoBlockFile`, dirty sets, `coinsBest`, `tip`) and disk
(cells of block and undo files, `dbIndex`, `dbInfo`, `dbLast`, `dbBest`) are separate
variables. A block file is a sequence of cells of one block each. `unsynced` are the cells that
are written but not committed, and `dbOld` the values the chainstate may go back to: a kill
leaves both as they are, a power failure may lose any of the cells and go back to any of the values.
`FlushStateToDisk` is split at each of its writes (`pc`): files, index, unlinking of pruned
files, coins. `LoadBlockIndexDB` (with `VerifyDB`) rebuilds memory from the disk, or start-up fails.

* Any linked stored child of the tip may be connected and any tip disconnected; which one the
  node takes is the subject of `ChainState`. With it the marks that `invalidateblock` and a
  failed `ConnectBlock` leave on stored blocks are left out, and the blocks that
  `FindMostWorkChain` puts back into `mapBlocksUnlinked`.
* `nChainTx` is kept as the code keeps it: set by the queue of `ReceivedBlockTransactions`
  (`Reached`), lost for a block that is pruned while it waits, computed afresh by
  `LoadBlockIndexDB`. `badBlock` is the set of blocks that `ContextualCheckBlock` rejects, chosen
  at the start; a block whose parent is one of them is stored without being queued.
* A write into a block file succeeds or the process is gone. Writes of the databases and
  lack of space are separate faults; `FaultySpec` adds a failed index write.
* A pruned block is stored again only if it is not an ancestor of the tip, which is when
  it is requested. Left out are the two other callers that make `AcceptBlock` take a block as
  requested: a whitelisted peer that sends one unasked, and the import of block files
  (`-loadblock`).

### BlockCoins and MemPool

A `CCoins` is kept with its vector of outputs, spent ones null and null ones at the end
cut off, because what `ApplyTxInUndo` does depends on the length. Undo data holds height and
coinbase flag only for the input that spends the last output (`nVersion` goes the way of
`nHeight`). A `CCoins` without unspent outputs is normalised to `Pruned`; the null input of a coinbase
is left out. Errors of `DisconnectBlock` about sizes are part of `fClean`, and the check for
overwritten coins (BIP30) is always made. Amounts, fees, signature operations and scripts are left
out.

`pool` is `mapTx` with the entries, `mapLinks` and `mapNextTx`; `coins`, `coinsTip`,
`undo` and `tip` are the chain. All calls hold `cs_main`, but a reorganization goes through
the transactions of a block one by one, and the coins, the pool and `chainActive` are not
consistent in between. `pc` is the place in the call:

| `pc` | code |
|---|---|
| `move` | the loops of `ActivateBestChainStep` and `InvalidateBlock` |
| `resurrect` | `DisconnectTip` putting back the transactions of the block |
| `update` | `UpdateTransactionsFromBlock`, backwards |
| `block` | `removeForBlock`, transaction by transaction |
| `removeForReorg`, `expire`, `trim` | what a call does about the pool at its end |

* Sizes and signature operations are added and subtracted with the counts, so every
  transaction has size 1, memory usage is the number of entries, and a fee rate is a fee.
* What policy decides about a transaction alone (standardness, priority, the rolling minimum
  fee) may go either way. Locks by time and `Uncache` of refused inputs are left out, as are the fee
  estimator and `vTxHashes`.
* Work is height. A call may end early, at a block that cannot be connected; errors of
  `DisconnectTip` are left out and shown to be impossible as far as the coins are concerned
  (`TipUndoable`).
* `PrioritiseTransaction` takes only the lock of the pool and may come between any two steps
  (except in the middle of trimming, which holds that lock).

### BlockDownload

An action is one message handled, one `SendMessages` or one step of the socket thread. The state
is that of `CNodeState` and the globals of `net_processing.cpp`; `known`, `data` and `tip` are as
much of the block index as the download looks at. `wire` holds what a peer will send, in order.
The answer to a request is put there with the request, from the chain the peer serves then, and is
received later, or never.

* A handler gives up `cs_main` between its parts; the only other writer of this state is
  `FinalizeNode` of another peer, which takes away that peer's entries only.
* A peer that is not `Prompt` may fall silent, send a corrupt block or hang up; one that was
  banned may connect again.
* What `InitData` and `FillBlock` find is open: complete, transactions missing, not to be
  completed, invalid. `RecentHeight` stands for the times that end the initial download.
* Left out: `hashStop`, whitelisted, witness and client-only peers, the score for headers
  that do not connect, transactions, addresses, orphans.

### HeaderRules

`interval` is the part of the global consensus parameters that `SetDifficultyAdjustmentParams`
moves: heights from 17500 on set it, lower ones leave it as it is. A target is named by what it is computed from: the
block before and the interval. KGW is never used, `nPowKGWHeight` being equal to `nPowDGWHeight`.
`cache` and `warningcache` are the threshold caches, filled exactly as `GetStateFor`
walks back and forward; the condition of a warning bit goes through the caches of the deployments.
Versions and median times of the tree are chosen at the start, and the times need not increase
along a chain, since the code does not check them at all heights (`Unchecked`). Refusals for time
or version may or may not happen. A restart empties the caches and keeps headers and tip.

## Runs

| run | instance | what it shows |
|---|---|---|
| `coins_caches` | 2 transactions, 2 values, 3 blocks, 1 failed write | the flags mean what `coins.h` says at both levels, memory is accounted exactly, database and `pcoinsTip` hold the coins of the block they name while writes succeed, and the stack implements `UtxoStore` |
| `chain_operator` | 5 blocks, two branches from the genesis block, one block that does not connect; any two of one `invalidateblock`, one `preciousblock`, one prune call and one failed flush, pruned blocks stored again; one thread | the assertions of `CheckBlockIndex` (but for two of them after a prune or `invalidateblock` call), the best usable chain is active when calls have returned, no failed block is active, undo data is there for all but buried blocks, coins follow the tip through failed flushes, no step ends with less work, every call ends |
| `chain_threads` | 6 blocks, a fork of two bad ones off the second block, one of each kind and the first with the work of two, two threads, one `invalidateblock` and one `reconsiderblock` | what survives the release of `cs_main`: candidates are sound and keep their order, the active chain is linked |
| `check_queue` | 2 workers, 4 checks of which one fails, batches of 2 | counters, idleness between blocks, exact results, no lost wakeup, `Wait` returns |
| `persist_crash` | 4 blocks, of which one may break the rules, files of 2, up to 3 of: 2 new headers, 2 kills, 1 each of flush, stop, prune, lack of space and power failure | whenever the node starts again, the index knows the block of the chainstate, names only blocks and (unless the power failed) undo data it can read, start-up succeeds unless the power failed, blocks that wait for an ancestor are queued unless their parent was rejected, and none is left behind when its parent is linked |
| `block_download` | 5 blocks with a fork, a prompt and an unreliable peer, 2 blocks in transit | the record of what is in flight from whom is exact, stalling clocks run only against peers that hold a block, and the answer to every request is still owed |
| `block_sync` | a chain of 3, the unreliable peer may come back | the node reaches the tip of the prompt peer |
| `mempool` | 13 transactions, 8 blocks in 3 branches, limits of 3 and 4 | coins are exactly those of the chain and its undo data fits; spends, links and statistics are exact; what is left in the pool can be mined |
| `header_rules` | 9 blocks with a branch, periods of 2, two choices of signals and three of times, one of which goes back below the start time, changes at heights 3 and 5, DGW from 6 | cached states are those of a definition without a cache, and "since" heights are right |

and three that are expected to fail, see below.

Bounds. Two transactions are enough for the caches because entries of different
transactions never interact except in the memory total; three blocks are needed for an entry to be
created, spent and created again with flushes in between. Four or five blocks besides genesis make a
fork at which both branches can win, lose, be unlinked and be invalid; one call of each kind, and
two kinds in one behaviour (`MaxCalls`, `MaxKinds`), are where the interesting orders are. With
all four kinds in one behaviour `chain_operator` passes as well and has 2.5 times the states. Two
threads are what a stale `pindexMostWork` takes.
`MIN_BLOCKS_TO_KEEP` is 1 instead of 288. Files of two blocks let a
file be pruned, undo data go to a file that is not the last, and a file be rewritten after a
kill. A chain of four blocks lets one be stored under a rejected parent and be queued by the next
restart; for a block to be pruned while it waits it is too short, and six blocks with a fork are
too many for TLC, so that case rests on the theorems about waiting blocks, which hold for every
tree. Two peers and a
window of one block are what stalling takes: one holds the window, the other is kept waiting.
The transactions of `MCMemPool` contain a chain longer than the limits, two parents with a common
child, a double spend, a coinbase spend and locks by height and by age; the branches confirm
them in different blocks and orders, and one of them spends two outputs of one transaction in the
order that shrinks the vector of outputs. Periods of two blocks give a deployment time to pass
through its states on one branch and to be in another state on the other.

`header_rules` combines the difficulty changes of the main net with a threshold like that
of the test net; the two parts do not read each other's state.

Fairness. `FairSpec` of `ChainState` and `CheckQueue` assumes that a thread in the
middle of a call goes on (weak fairness of its steps): the operating system schedules all
threads, and none of the modelled steps waits for the network. `CallsReturn` is checked
with one thread. With two, a thread may find `cs_main` taken at every attempt; weak
fairness does not exclude that, and neither does the mutex. `FairSpec` of `BlockDownload` assumes
that the message handler thread gives every peer its turn, that clocks run out on peers that are
not prompt and the socket thread deletes what is to be disconnected, and that a prompt peer
connects, announces its tip and delivers. The announcement is needed: this version has no timeout
for headers, so behind a silent sync peer they come only with the next block the network
finds. Nothing is assumed of arrivals, operator calls, failures, spurious wakeups or other
peers.

`CHECK_DEADLOCK FALSE` stands where the system may stop: after `AbortNode`, when
everything was received, or when all bounds are used up.

### Disagreements between the code and what it says

Three runs are expected to fail; each shows behaviour of the code that a comment
of the code excludes.

* `chain_stale_most_work`: a thread in `ActivateBestChain` goes back to a target it chose
  before it released `cs_main`, undoing the better chain another thread activated meanwhile
  (validation.cpp:2535).
* `persist_index_fails`: the dirty sets are emptied before the index is written. When the write
  fails, the flush of `Shutdown` writes an empty batch and then the coins, and the
  chainstate names a block the index on disk does not know (validation.cpp:2092).
* `version_threshold`: the activation threshold of the main net is computed from a window that
  is assigned one line later, so it is 0 and bits that no block sets lock in
  (chainparams.cpp:94). All warning bits are active after the third period; that sets `fWarned`
  without an alert, and the later alert for unknown versions is never sent.

The models show more of the kind, which bound what the passing runs check. They are
reached by lifting the restriction named:

* After a failed batch write the cache is empty but still names its block; the flush
  of `Shutdown` records that block without its coins. `DurableStateConsistent` is therefore stated
  for as long as no write failed.
* A stale target that another thread invalidates in the gap is connected all the same, and
  `PruneBlockIndexCandidates` finds its set empty. `ActiveChainNotFailed` and `CandidatesNotEmpty`
  are checked with one thread.
* `reconsiderblock` clears the flags of ancestors without making them candidates, and leaves
  those of a sibling branch (validation.cpp:2683, against 4118). A block stored under an
  invalid parent is not entered in `mapBlocksUnlinked` (2769), so after the parent is
  reconsidered 4107 and 4148 can fail. `BlockIndexConsistent` and `BestChainActivated` are
  checked without `reconsiderblock`.
* Pruning a block that waits for its parent removes it from `mapBlocksUnlinked`; when the
  parent arrives, `nChainTx` stays 0 (against 4107) until the block is stored again or the node
  restarts. A block stored under a parent that `invalidateblock` marked is not linked when the
  ancestors arrive, so 4107 fails for it too, and a child of it stored later goes to
  `mapBlocksUnlinked` although no data is missing (against 4152; it takes a branch one block
  longer than those of `chain_operator`). These two assertions are `AllLinked`.
  `BlockIndexConsistent` asks for all of `CheckBlockIndex` until something was pruned or
  invalidated, and for all but `AllLinked` after that; its other parts still ask for
  `nChainTx` of every block that the node could switch to.
* A pruned block of the active chain that is stored again has data and no undo data.
  `DisconnectTip` fails on it (validation.cpp:1632) and the node runs on: a reorganization below
  that block is never completed, and after `invalidateblock` it may stay active with a failure
  mark. `UndoDataAvailable` says that only blocks with `MIN_BLOCKS_TO_KEEP` others on top get
  there. In such a state (`Undoable` is false) the properties on the result of a call, and what
  `BlockIndexConsistent` asks after a prune call, are not required.
* `InvalidateBlock` makes a pruned block a candidate if it is as good as the new tip
  (validation.cpp:2648). If another thread receives it again before the next
  `ActivateBestChain`, its sequence number changes while it is in the set that is ordered
  by it (2755). `CandidateOrderStable` is checked, and proved, without pruning.
* `preciousblock` counts its sequence numbers down from -1 and starts again when the active
  chain has more work than at the last call (2599). If `invalidateblock` takes the work back
  again, the count restarted at the longer chain goes on among the blocks numbered before it: a
  call can give a block the number its rival of equal work has, or a higher one, and the
  candidates are not those that 4120 asks for. It takes five calls of `preciousblock` around an
  `invalidateblock`. The theorems on one thread exclude such calls (`PreciousExtends`).
* After a reorganization fails halfway the tip need not be a candidate while the lock is free
  (against 4122). If, besides, it was deeper than what pruning keeps and pruning takes a block on
  the way back, `FindMostWorkChain` can drop the last candidate. `BlockIndexConsistent` is
  checked where the code runs `CheckBlockIndex`, with reorganizations no deeper than that.
* Undo data may be written into a file that is no longer the last one, and
  `FlushBlockFile` commits the last only: `UndosReadable` does not cover a power failure.
* Once a header of height 17500 or more was checked, a header below is judged by the parameters
  that one left, until the node restarts. What is required of it depends on the order of arrival,
  so no property says what it is.
* A median time that goes back can turn a deployment that has started into one that has not, and
  make it start again: `GetStateFor` walks back to the last period before the start time, and takes it for
  "defined" (versionbits.cpp:46, "Optimization: don't recompute down further, as we know every
  earlier block will be before the start time"). `Begun` in the definition by history says this.

## What is proved

Eight modules hold theorems. Each proves an inductive invariant
(`Init => Inv`, `Inv /\ [Next]_vars => Inv'`, by action) and derives the properties from it, for
every value of the constants that satisfies the named assumption of the component's module.
What a theorem assumes besides is said below.

**`CoinsCacheProofs`** (`TypeCorrect`, `FreshCorrect`, `CleanCorrect`, `NoMisappliedFresh`,
`DurableConsistency`, `TipConsistency`, `UsageAlwaysExact`, `Refinement`). For any finite set of
transactions, any coins values and any number of blocks and failed writes. FRESH alone is not inductive: an entry
that is dropped or overwritten without a write is only harmless if entries that are not DIRTY equal
what the parent holds, so `Inv` adds `CleanMatchesParent` at both levels, and that a sealed
view holds the coins of the block it names, which is what a flush hands to the level below.
`Refinement` maps the database to `durable`, a lookup through `pcoinsTip` to `current` and a
lookup through the block's view to `scratch` (`Store` in `CoinsCache`); the proof shows
that every action is one step of `UtxoStore` or leaves its variables alone. Fetches,
`Uncache` and modifications that change nothing visible are the latter. `NoMisappliedFresh`, that the
exception "FRESH flag misapplied" of `BatchWrite` is unreachable, follows from the meaning of FRESH and
is proved only. `UsageAlwaysExact` needs sums. `Total` counts units instead of adding numbers, so
that it is a cardinality and the theorems about finite sets apply: if for every transaction either nothing
changes or the old number is subtracted and the new one added, the totals follow (`TotalExchange`).
`BatchWrite` does that for every entry (`BatchWriteExact`). `ModifyNewCoins` subtracts nothing
because what it replaces is spent and takes no memory. After a failed write the account of
`pcoinsTip` is wrong, and the node is stopping.

**`CheckQueueProofs`** (`TypeCorrect`, `AssertedIdle`, `QueueFinished`, `ResultCorrect`,
`TodoCorrect`, `NoLostWakeup`). For any number of workers, checks and any batch size. `Inv`
says that batches and queue share no check and a thread has a batch exactly while it works
(`Ownership`), that `nTodo` and `nTotal - nIdle` count what they should (`Counters`), what is
pending in each phase of a control (`Phases`), that checks no longer pending have passed unless
`fAllOk` or a thread's `fOk` says otherwise (`Verdict`), and who may be asleep (`Wakeups`). The
counters are needed because the code decides on them alone when `Wait` returns and whom to wake.

**`ChainStateProofs`** (`TypeCorrect`, `ChainLinked`, `UndoAvailable`, `CoinsFollowTip`).
For every finite block tree, any set of threads and any bounds on the calls.
`ActiveChainLinked` is not inductive by itself: `ConnectTip` appends a block of the way to
`pindexMostWork`, so one must know that the target was received with all its ancestors. The target
was a candidate, candidates come from the queue of `ReceivedBlockTransactions` or from
blocks with `nChainTx`, and the queue is filled from `mapBlocksUnlinked`; `Received` states
the fact for all of them at once. That it also holds for a target chosen before the lock
was released is what makes the theorem independent of the race described above: a
stale target is not the best chain any more, but still a chain. `KnownTree` (heights follow parents,
the genesis block is an ancestor of all) shows that the genesis block is never disconnected,
and `Locking` (one thread inside a critical section, with the locals it needs) that steps do not
interfere. `UndoAvailable` says when `DisconnectTip` finds undo data. `ConnectBlock` writes it for every block it
connects, and only pruning removes it, which `FindFilesToPrune` allows for blocks at least
`MIN_BLOCKS_TO_KEEP` below the tip of that moment. The tip may go back later, but what was
received stays received, so `Buried` speaks of received blocks and not of the active ones.

Two results of `ChainStateProofs` need that no file is pruned (`MaxCalls["prune"] = 0`):
`OrderAlwaysStable` and `CandidatesAlwaysSound`, for any number of threads and all other calls.
The second also assumes that `preciousblock` is not called for a tip that is known to be invalid
(`PreciousTipsValid`), which only the gap inside `invalidateblock` makes possible: the tip would
get a lower sequence number without `PruneBlockIndexCandidates` being called. Their invariant is
`LinkOK`, about how received blocks get linked: a linked block has a linked parent, its work is
the parent's plus its own, a block waits in `mapBlocksUnlinked` or stands in the queue of
`ReceivedBlockTransactions` only if it is not linked yet, and the queue has no block twice. So a
block whose sequence number is about to be set is not linked, and candidates are. `NoneWorse` is
`CandidatesSound` without the restriction to states between calls; it rests on the comparison of
blocks being a strict weak order (`WorkOrder`) and on work growing along a chain, so that a tip
that is disconnected makes no candidate worse.

**`ChainSelectionProofs`** (`BlockIndexAlwaysConsistent`, `CandidatesNeverEmpty`,
`ActiveChainNeverFailed`, `BestChainAlwaysActivated`, `StepsAlwaysKeepWork`). What the calls of
one thread promise when they have returned, for every finite block tree, every set of invalid
blocks and any sequence of headers, blocks, `invalidateblock`, `preciousblock` and failed
flushes. The assumptions are the limits of the code described above, each of which TLC refutes
the properties without: one thread (`Threads = {h}`), no pruning, no `reconsiderblock`, and
`PreciousExtends`. The run `chain_operator` checks the same properties with one call each of any two
kinds, pruning included; the theorems have no bound on the calls and no bound on the tree. The
obvious statement, that the candidates are the linked valid blocks that are not worse than the
tip, is true between calls only: during a reorganization the tip goes back to the fork and
candidates that would now be good enough are not put in. `Selection` therefore speaks of a
reference block (`Reference`): a candidate whose chain connects, such that every linked, valid
block that is not worse than it is a candidate too. Between calls the tip is one. While
`ActivateBestChainStep` disconnects, the reference block stays where it was, and moves when a
better tip is connected; a block that turns out invalid is never below it. So a candidate is
always left, and the best candidate is the best of all linked, valid blocks. Only inside
`invalidateblock`, which may take the reference block itself off the chain, there may be none;
the scan at its end makes the new tip one. The other parts say that a failed block has a cause
(`Caused`), that a received block is linked, queued, waiting or has a failed parent (`Awaited`),
that the active chain is valid except for what `invalidateblock` is about to take off
(`Validated`), that a target is the best candidate (`Targeted`), and that the numbers of
`preciousblock` are in order (`Numbered`). `BlockIndexAlwaysConsistent` also states `AllLinked`,
which `invalidateblock` can break, and for which `Awaited` is too weak: a parent that failed
could have been received. `Innocent` says that without `invalidateblock` it was not: whatever
failed is either linked or was refused by `AcceptBlock` and has no data.

**`ChainPersistProofs`** (`ChainstateNeverAhead`, `BlocksNeverLost`, `UndosNeverLost`,
`WaitingBlocksAlwaysKnown`, `StoredBlocksAlwaysLinked`, `StartupAlwaysSucceeds`, `CoinsFollowTip`,
`Invariance`). For every block tree, any rejected blocks, any number and size of files and any number
of kills, power failures and other events. That the index on disk names only readable blocks is
not inductive, since a restart continues from recorded file sizes that may be smaller
than the files. `Inv` adds that a stored block lies below the recorded size, in memory and on
disk (`MemInv`, `DiskInv`), that a running node writes behind all blocks of the index on disk
(`AheadInv`), that what is not dirty is the same on disk (`CleanInv`), that the index on disk names
committed cells and uncommitted ones are in the last file until it is flushed (`CommitInv`),
and that files chosen for pruning hold no block any more (`PruneInv`). `UndosNeverLost` adds the
same facts about undo data while the power has not failed (`UndoInv`).

`WaitingBlocksAlwaysKnown` and `StoredBlocksAlwaysLinked` share an invariant (`WaitInv`): only
received blocks have data, on disk too, where a restart takes them from; linked and waiting blocks
were received; and no waiting block has a linked parent. The last is what the queue of
`ReceivedBlockTransactions` has to establish: it reaches every waiting block whose chain up to the
new one waits as a whole (`ReachedClosed`), so none is left behind. A stored block that does not
wait has a rejected parent, which is never linked. A block that was pruned while it waited has no data, so the
properties say nothing of it until it is stored again.

`StartupAlwaysSucceeds` states `StartupSucceeds` as long as lack of space and pruning do not both
occur. Its invariant (`RestartInv`) says what `VerifyDB` relies on: every block of the chain of
the chainstate, on disk and in memory, has been received, and has undo data if it is
stored (`ChainsOnDisk`). `AcceptBlock` endangers this, since it stores a block without undo data.
It would break if the block were in that chain, which takes a block that was pruned and
that the node fetches again. While there is space it cannot be, because the flush
that prunes goes on to write the coins, and a pruned block of the chain on disk is then in the
active chain, whose blocks are not requested (`PrunedInTip`). The two together do break it,
and the hypothesis is needed: on a fork longer than `MIN_BLOCKS_TO_KEEP`, with the coins on disk
still at a block of the abandoned branch, that block is pruned, `CheckDiskSpace` stops the flush
and with it the node, the block arrives again before the shutdown, and the process is killed when the
flush of the shutdown has written the index and not the coins. TLC finds this behaviour on five
blocks; the chain of `persist_crash` has no fork.

**`MemPoolProofs`, coins** (`DisconnectUndoesConnect`, `CoinsAlwaysExact`). For any coins, any block that
connects and any height but 0: `DisconnectBlock` with the undo data of `ConnectBlock` reports
nothing wrong and gives back the coins, output by output. Three levels: one input (restoring a
spent output rebuilds the vector up to its last output, whether the `CCoins` was pruned by it or
not), the inputs of a transaction, the transactions of a block; on the last two the states of
the walk back are those of the walk forward. The induction is by the least counterexample in a set
of natural numbers (`WFMin`), which needs no operator parameter; by the same induction the
recursive functions are shown to satisfy their equations.

**`MemPoolProofs`, pool and chain** (`SpendsAlwaysExact`, `TipAlwaysUndoable`). For any transactions, any block tree
and any limits. The first proof is by kinds of change: removing staged entries, adding one whose
conflicts are gone, and changing links and statistics each keep `mapNextTx` exact, and every
action is made of these. The second uses `DisconnectUndoesConnect`. Its invariant keeps a
history, `F[b]` being the coins that block `b` left when it was first connected: coins are those of
`coinsTip`, and the undo data of every block that was ever connected is what connecting it to the coins of its
parent gives. So undo data written once fits every later disconnection, whatever branches were
tried in between. `CoinsAlwaysExact` reads the same history along the chain to the tip: the coins of a
transaction are what its blocks, one by one, leave of it. It needs three facts about the
transactions and blocks, in the assumption of `MemPool`: only a coinbase has no inputs, blocks of
different heights have different coinbases (BIP34), and ancestors and heights follow the
parents.

**`BlockDownloadProofs`** (`DownloadStateAlwaysExact`, `StallersAlwaysHoldBlocks`,
`InFlightAlwaysOwed`, `DownloadInvariant`). For every finite set of peers and every finite tree of
blocks (`TreeAssumption`: a chain holds the chain of each of its blocks and one block of every
height). `mapBlocksInFlight` and the lists
agree, every counter is the cardinality of what it counts (`FlightOK`, `ConnOK`), and messages
hold blocks (`WireOK`), which the counting needs. The stalling clock is part of `FlightOK`: it has
to stop wherever the list of a peer may become empty. `InFlightIsOwed` needs more (`OweInv`). Which
message settles a request depends on whether the compact block has come (`Answers`): after that a
second compact block is dropped without a new request, so one under way no longer counts. A
compact block whose parent is unknown is dropped as well; that loses no request because the known
headers are closed under ancestors and only known blocks are requested (`IndexOK`). And the limit
per peer holds because `FindNextBlocksToDownload` and the direct fetch take at most as many blocks
of one chain as there is room for (`LowestCount`, by pigeonhole), and the list for a GETDATA names
each of them (`CarriesBlocks`).

**`HeaderRulesProofs`** (`StatesAlwaysExact`, `SinceHeightAlwaysExact`). For every block tree, any
signals, any median times, increasing along a chain or not, any window and threshold, and any
start and end of the deployments. The invariant is that every cached state
is the state by history, at the last block of a period (`IInv`). A step of the state
machine from a period to the next one agrees with the history (`HistoryStep`: the set of lock-ins
grows by at most the new period), so what `GetStateFor` computes forward from where its walk back ends
is the history (`ComputedIs`), by induction over heights. The walk may end early, at a period
before the start time; the history therefore counts only the periods after the last such one
(`Begun`), which with times that never go back are all periods from the start time on, as BIP9 has it.
`GetStateSinceHeightFor` walks back while the state stays the same, which gives the first block since
which the chain has been in that state, and not the first in which it ever was.

## What is only model-checked

* `BestChainActivated`, `BlockIndexConsistent`, `ActiveChainNotFailed`, `CandidatesNotEmpty` and
  `StepKeepsWork` with pruning, and `CandidatesSound` and `CandidateOrderStable` after
  `reconsiderblock` together with pruning: the theorems exclude pruning.
* `LinksExact`, `DescendantStateExact`, `PoolMinable`: the
  reference definitions are transitive closures and sums over the pool. `TypeOK` of `MemPool`
  with them: that counts stay above zero rests on their being exact.
* `StartupSucceeds` with both lack of space and pruning: on the instance of `persist_crash`, a
  chain without forks. It does not hold for every tree, see `ChainPersistProofs` above.
* `CallsReturn`, `WaitReturns`, `SyncCompletes`: liveness under fairness and ENABLED are outside
  what the proof system handles.

The proof system instantiates no operator parameters, so the induction theorems of its library
are not used, and it has no support for RECURSIVE operators; recursion is written as recursive
functions.

## What is not modelled

The components list in `PROJECT.json` gives a reason for every part. In short:

* Scripts, signatures, hashes and encodings are sequential functions over byte strings, and enter
  the models only by their verdict (`BadContext`, `BadConnect`, the outcome of a check). The
  arithmetic of targets and subsidies is on 256-bit integers. These, with the vendored
  libraries (LevelDB, secp256k1, univalue), the user interface and the tests, are most of the
  lines of the repository.
* Fee estimation works on decaying floating-point averages; the signature cache is
  probabilistic and a miss costs time only.
* The user interface, ZeroMQ and REST only read.
* The address manager places addresses by keyed hashes and random choices; the connection
  manager moves bytes; both are left out in favour of what is sent through them.
* The scheduler, the HTTP work queue and the wallet have state machines of their own that do
  not touch the agreement of chain, coins and pool, on which this project concentrates.
* Damage to block files that nobody wrote (`CorruptionPossible` from a block that cannot be read
  back makes `ActivateBestChain` take the same candidate again, validation.cpp:2441), a node
  that runs on after a failed block file write (3275), and life times of C++ objects
  (`txdata` is declared after the control object that waits for its users, 1905).
* `RewindBlockIndex`, `mempool.dat`, orphan transactions, address and transaction relay.
