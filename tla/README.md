# Anker Core: TLA+ models, checks and proofs

Anker is a proof-of-stake cryptocurrency node in the Bitcoin / Dash / PIVX
line: a UTXO chain, a block tree with a most-work rule, masternodes that vote
on payments, budgets and instant transaction locks, and zerocoin mints. This
directory holds TLA+ models of the parts of it that carry its own logic, TLC
runs that check them on small instances, and TLAPS proofs that hold for every
instance. Paths below are relative to the repository (`src/main.cpp` is the
file `main.cpp` in the directory `src` of the repository).

## 1. Inventory: the parts of the system

| Component | Source | State it keeps | Operations | What is hard | What makes it correct |
|---|---|---|---|---|---|
| Coins caches | `coins.cpp`, `coins.h`, `txdb.cpp` | a stack of maps txid -> coins with DIRTY/FRESH flags over leveldb, a best block per layer | fetch, modify, flush one layer into the next, crash | flags that must survive reorganisations; a flush that fails half way; one batch for coins and best block | each layer answers as if there were no caches; disk and tip represent the block they name |
| Block application | `main.cpp` (`ConnectBlock`, `DisconnectBlock`, `UpdateCoins`, `CheckInputs`), `undo.h` | coins of a view, undo records in rev files | spend, create, undo | the undo record must restore exactly what the spend destroyed, over any sequence of connects and disconnects | disconnecting undoes connecting |
| Block tree and best chain | `main.cpp` (`AddToBlockIndex` ... `ActivateBestChain`, `InvalidateBlock`, `ReconsiderBlock`, `LoadBlockIndexDB`), `chain.h` | `mapBlockIndex`, `setBlockIndexCandidates`, `mapBlocksUnlinked`, `pindexBestInvalid`, `chainActive`, block status bits | header, block data, activate one step, invalidate, reconsider, flush, restart | blocks arriving out of order, invalid blocks found late, restarts between steps; the assertions of `CheckBlockIndex` | the candidates always contain the best usable chain; the node ends on it |
| Accepting a stake block | `main.cpp` (`AcceptBlock`), `kernel.cpp` | `mapStakeSpent`, the active chain | checks a fork's stake against spent outputs | a walk down the fork with cs_main held | the walk reaches the active chain |
| SwiftTX | `swifttx.cpp` | `mapTxLockReq`, `mapTxLockReqRejected`, `mapTxLockVote`, `mapTxLocks`, `mapLockedInputs`, `mapUnknownVotes` | request, vote, expire | votes before requests, conflicting requests, expiry racing votes | an input is locked to one transaction; a lock needs six votes |
| Masternode sync | `masternode-sync.cpp` | the asset being synced, attempts, times, what each peer has answered | tick, `Reset`, items received, `ssc` counts | it has to end, with peers coming and going | it ends as finished or failed |
| Masternode list | `masternode.cpp`, `masternodeman.cpp`, `activemasternode.cpp` | `vMasternodes`, pings, broadcasts, states | announce, ping, check, remove, rank | stale pings, expiry and re-announcement | an enabled masternode has a recent ping and an unspent collateral |
| Masternode payments | `masternode-payments.cpp` | `mapMasternodePayeeVotes`, `mapMasternodeBlocks` | winner vote, block check, clean | votes for one height from many nodes | a payee needs six votes to be enforced |
| Budget | `masternode-budget.cpp` | proposals, votes, finalized budgets, `CBudgetManager` maps | propose, vote, finalize, pay | votes before proposals, replaced votes | paid amounts stay within the budget |
| Sporks | `spork.cpp`, `sporkdb.cpp` | `mapSporksActive` | message, execute, load | replays of old values | the newest signed value wins |
| Mempool | `txmempool.cpp`, `main.cpp` (`AcceptToMemoryPool`) | `mapTx`, `mapNextTx`, `mapDeltas`, total size | add, remove (recursive), removeForBlock, removeConflicts | reorganisations, chains of unconfirmed transactions | `CTxMemPool::check` |
| Script check queue | `checkqueue.h` | queue, `nTodo`, `nIdle`, `fAllOk` | Add, Loop (worker / master), Wait | several threads, two condition variables | the master returns when all are done and the result is theirs |
| Scheduler | `scheduler.cpp` | `taskQueue`, threads serviced, stop flags | schedule, serviceQueue, stop | lost wake-ups, stop with drain | every task runs once, when due |
| HTTP work queue | `httpserver.cpp` | bounded queue, running, numThreads | Enqueue, Run, Interrupt, WaitExit | stop while busy | no accepted item is lost, exit waits for all |
| Mixing pool | `obfuscation.cpp` | session state, entries, signatures | accept, add entry, sign, commit, time out | timeouts against late messages | no more entries than participants; no commit without all signatures |
| Wallet | `wallet.cpp`, `walletdb.cpp`, `crypter.cpp`, `keystore.cpp` | keys, key pool, transactions, spends, locked coins | create, add, sync, lock | reorganisations, key pool across restarts | no key is handed out twice; balances |
| Zerocoin | `zanktracker.cpp`, `zankwallet.cpp`, `mintpool.cpp`, `accumulators.cpp`, `main.cpp` | mints, pending spends, accumulator checkpoints | mint, spend, archive, recompute | reorganisations | no serial is spent twice |
| Peers and addresses | `net.cpp`, `addrman.cpp`, `timedata.cpp`, `alert.cpp` | connections, send / receive queues, address tables, time offset | connect, send, receive, good / attempt | bounded tables, eviction | table and index agree |
| Stake and work | `kernel.cpp`, `pow.cpp`, `miner.cpp` | - | kernel hash, retarget, template | boundaries of retargeting | target limits |
| Script, keys, serialisation | `script/`, `key.cpp`, `primitives/`, `serialize.h` | - | pure functions | - | - |
| RPC, init, GUI, Tor, ZMQ | `rpc*.cpp`, `init.cpp`, `qt/`, `torcontrol.cpp`, `zmq/` | - | calls into the above | - | - |
| Vendored | `leveldb/`, `secp256k1/`, `univalue/`, `crypto/`, `libzerocoin/` | - | - | - | - |

How they interact: network threads receive messages (`net.cpp`) and
`ProcessMessage` (`main.cpp`) hands them to the block tree, the mempool, or one
of the masternode components. A block is written to disk and indexed under
`cs_main`, the lock is released, and `ActivateBestChain` moves `chainActive`
one step at a time; each step opens a cache over `pcoinsTip`, applies a block
and flushes. `FlushStateToDisk` writes block index and coins to leveldb.
SwiftTX locks refuse conflicting transactions in the mempool and in blocks and
may ask for the last blocks to be replayed. Masternode sync asks every peer for
sporks, list, winners and budget in turn, and nothing that depends on
masternodes is enforced before it has finished.

Components not modelled, and why, are in section 7. What is hard to test in
this code is listed line by line under `hazards` in `PROJECT.json`, each with
the properties that would catch it.

## 2. Plan

The order follows what would hurt most: the coins, the blocks applied to them,
the choice of the chain, then the masternode protocols, the small concurrent
pieces, the wallet, and what goes between peers.

| | Modules | Model | State |
|---|---|---|---|
| 1 | `UtxoStore`, `CoinsCache`, `StoresProofs` | coins caches and their database; `CoinsCache` implements `UtxoStore` | checked, proved |
| 2 | `BlockApply` | connect, disconnect, verify, restart over coins, undo, stakes, zerocoin database | checked |
| 3 | `ChainState`, `ChainStateProofs` | block tree, best chain, commands, flush, restart | checked, safety proved |
| 4 | `SwiftTX`, `MasternodesProofs` | instant locks with mempool and last blocks | checked, safety proved |
| 5 | `MasternodeSync`, `MasternodePayments`, `MasternodeList`, `Superblocks`, `Budget`, `Sporks` | the masternode protocols | checked; safety proved (`MasternodesProofs`, `MasternodeSyncProofs`), except that a block is judged alike twice, which is false (finding 5) |
| 6 | `CheckQueue`, `Scheduler`, `WorkQueue`, `Peers` | where threads meet | checked, safety of all four proved (`ThreadsProofs`) |
| 7 | `Mempool`, `BlockTemplate`, `BlockImport` | the pool, new blocks made from it, blocks read from files | checked; safety of the pool proved (`StoresProofs`) |
| 8 | `WalletTxs`, `KeyPool`, `WalletCrypto`, `CoinSelection`, `Payment`, `ZerocoinMints` | the wallet | checked; safety of the key pool and of encryption proved (`StoresProofs`, `ThreadsProofs`) |
| 9 | `AddrMan`, `BlockSync`, `Inventory`, `Transport`, `TimeOffset` | what goes between peers | checked; safety of `AddrMan` proved (`AddrManProofs`) |
| 10 | `BlockIndex`, `MerkleBlock`, `Compressor`, `Signatures`, `StakeKernel` | algorithms | checked |
| 11 | proofs still to come | in this order: `WalletIsCurrent` of `WalletTxs`, `StoresMatchChain` of `BlockApply`; why the rest is only checked is in section 5 | left |

## 3. Modules: state and actions against the code

### CoinsCache and UtxoStore

`UtxoStore` says what users of the chain state rely on: three copies of the set
of unspent outputs (disk, active, work), each changed by whole blocks.

`CoinsCache` is the code: `db` and `dbBest` are the leveldb records, `tip` and
`tipBest` the map and `hashBlock` of `pcoinsTip`, `view` the local cache of
`ConnectTip` / `DisconnectTip`. An entry has the DIRTY and FRESH flags.
`ReadTip` and `ReadView` are `FetchCoins`, which copies what it finds from the
layer below; `ModifyCoins` sets the flags; `FlushView` and `FlushTip` are
`BatchWrite` of a cache and of the database; `FlushTipFails` is a batch that
leveldb refuses; `Crash` keeps the database. A coin's contents are one of a few
values: the caches never look inside, except for "all spent".

### BlockApply

`coins` are the contents of `pcoinsTip`, `undo` the rev files, `stakeSpent` the
map `mapStakeSpent`, `spendDB` and `mintDB` the zerocoin database, `saved` what
was flushed last. A transaction is `[id, kind, ins, outs, serials, mints]`.
`ConnectBlock` is `ConnectTip` with `ConnectBlock`, `CheckInputs` and
`UpdateCoins`; `DisconnectTip` restores from the undo records, in reverse, and
changes `mapStakeSpent` and the zerocoin database even when the result is not
clean; `VerifyChain` is the RPC command at level 4; `StopInVerifyChain` a
shutdown inside it; `Restart` the next start with its own `VerifyDB`. The loop
that erases old entries of `mapStakeSpent` advances an erased iterator: what it
leaves behind is a free choice (`keep`).
Scripts, amounts, signatures and accumulator values are not modelled.

### ChainState

Every action is one critical section of `cs_main`. The status bits are sets
(`data`, `linked`, `failedValid`, `failedChild`); `Line[b]` is a block with all
its ancestors, `Height[b]` its height and `Work[b]` its `nChainWork`. `cand` is
`setBlockIndexCandidates`, `unlinked` is `mapBlocksUnlinked`, `dirty` is
`setDirtyBlockIndex`, `disk` the two databases. `AcceptBlockHeader`,
`AcceptMisplacedBlock`, `AcceptBlock` and `AcceptOnCheckpoint` are the ways a
header or block comes in; a stake block on a fork is first walked down to the
active chain (`BeginWalk`, `WalkOn`). `ActivateBestChain` is one round of the
loop of that name, with `FindMostWorkChain` and `ActivateBestChainStep`; other
actions interleave between rounds. `InvalidateBlock`, `ReconsiderBlock` and
`DisconnectBlocks` are RPC commands and the replay that SwiftTX and the
operator ask for. `Crash` falls between critical sections or between the two
writes of a flush, `CrashInInvalidateBlock` inside that command; both continue
with `LoadBlockIndexDB`. What a block contains is replaced by sets of blocks
that a check turns down: `Invalid` (`ConnectBlock`), `Misplaced`
(`ContextualCheckBlock`), `Contested` (the part of `CheckBlock` that depends on
payments and locks, whose answer may change).

### SwiftTX

One variable for each map of `swifttx.cpp`; `known` is the masternode list,
`pool` the mempool, `mined` the last blocks. `RequestAccepted` and
`RequestRejected` are the two outcomes of the `ix` message, `LocalRequest` the
wallet's way (while an input is too young the node's own vote names height 0,
ranked at the tip, and is any), `ReceiveVote` the `txlvote` message with `ProcessConsensusVote`,
`Expire` and `Clean` the passing of an hour and `CleanTransactionLocksList`.
`mapTxLockReq[hash]` creates an empty transaction where there is none; that is
the value "empty" of `req`.

### MasternodeSync

`sync` has the fields of `CMasternodeSync` and the requests that each peer has
fulfilled. `Process` is one tick, with both `TRY_LOCK`s free to fail;
`AddedItem` is a message with an item; `TurnsQuiet`, `TurnsLate` and
`MinutePasses` are the three comparisons of times that the code makes.
`OldPeers` stands for both version checks: `GetMinMasternodePaymentsProto()`
returns `ActiveProtocol()` (`masternode-payments.cpp`, 374). SPORK_8 and the
active protocol do not change during a behaviour.

### Payments, list, superblocks, budget and sporks

- `MasternodePayments`: `mapMasternodePayeeVotes` (`votes`), the counts of
  `mapMasternodeBlocks`, the last height each masternode voted for, the dump.
  `AddWinningMasternode` is two steps, because the counts are made after the
  lock on the votes was released; `CleanPaymentList` runs in another thread. The
  vote for height 0 that `ProcessBlock` signs at a budget block is left out: it concerns no block.
- `MasternodeList`: one collateral, since everything is kept per collateral.
  Announcements and pings are delivered late, in any order, again or never;
  `Check` may miss `cs_main`. An announcement is marked as seen before it is
  checked, and each delivery may fail one of the checks (`flaw`: those of
  `CheckAndUpdate`, the owner of the collateral, its confirmations, `sigTime` against the block that
  confirmed it). `Restart` follows a clean stop, which writes `mncache.dat`, a
  crash, after which the file of an earlier stop is read, or a stop inside the
  write, after which the file cannot be read.
- `Superblocks`: `IsBlockPayeeValid` with its side effect on
  `mapPayment_History`; a block is judged by `TestBlockValidity`, `CheckBlock`,
  `ConnectBlock` and `verifychain`, so it may be judged several times. What the
  budgets do not find valid is left to the votes for payees: whether a payee has six votes at the
  height is an input (`enforced`), and each block of the chain carries who has
  vouched for it, a budget, an enforced payee or nobody.
- `Budget`: proposals and finalized budgets share their code and so one model;
  votes that come before their item, items whose fee is not old enough, the
  maps of what was seen and when they are cleared, `SubmitFinalBudget`, dump and
  restart. `MasternodeSync` is its environment.
- `Sporks`: several nodes in a line; a spork is the time it was signed at.
  Messages are lost, repeated and late; `getsporks` and the database repair that.

### Check queue, scheduler, work queue, peers

One step is one critical section of the mutex in question.

- `CheckQueue`: `Loop` of master and workers, `Add`, `Wait`, the control
  object, wake-ups without a notification, interruption at shutdown.
- `Scheduler`: `schedule` and `stop` notify after they have released the mutex,
  so that is a step of its own; a thread sleeps until the time it has read.
- `WorkQueue`: one condition variable for workers and `WaitExit`; a thread
  counts itself when it has begun to run.
- `Peers`: references, `fDisconnect`, socket, send queue and grant of a
  `CNode`, between socket thread, message thread, openers and commands. `AddRef`
  and `Release` are atomic steps, although `nRefCount` is a plain `int` that
  `ConnectNode` (`net.cpp`, 408) and `activemasternode.cpp` (82) change without
  `cs_vNodes`; a lost update is not modelled. The check of the count (880) and the deletion (895) are one step.

### Pool, templates, import

- `Mempool`: `mapTx`, `mapNextTx`, orphan transactions, blocks connected and
  disconnected with their transactions returning to the pool. No refusal has a
  penalty, so `setMisbehaving` (`main.cpp`, 6410) stays empty.
- `BlockTemplate`: `CreateNewBlock`; the heap by priority, then by fee, the
  transactions that wait for others, and all limits. Nothing is prioritised by
  hand (`miner.cpp`, 351); the zerocoin checks of 369 and 377 pass.
- `BlockImport`: `LoadExternalBlockFile` with `mapBlocksUnknownParent`. Which
  blocks are bad is fixed (the verdict on a stake may depend on the active
  chain), all of them can be read, and no system error ends a file (5358).

### Wallet

- `WalletTxs`: `mapWallet`, the cached credit and the block of each
  transaction, beside the chain and the pool of `Mempool`; crash, rescan,
  `ReacceptWalletTransactions`.
- `KeyPool`: `setKeyPool` and the records behind it.
- `WalletCrypto`: keys, master keys and zerocoin seed in memory and in
  `wallet.dat`, over the four commands, the timer, whose callback does not take
  `cs_wallet`, and crashes. The change of a seed record of the oldest form
  (`zankwallet.cpp`, 26) is left out.
- `CoinSelection` and `Payment`: `SelectCoins` as the set of results that the
  random draws allow, without coin control and ONLY_DENOMINATED; the rounds of `CreateTransaction`, which take any coins that
  are worth enough.
- `ZerocoinMints`: counts of the seed, mint pool, tracker, records, archive and
  pending spends, beside the chain, the pool and the zerocoin database.

### Between peers

- `AddrMan`: both tables, the reference counts, counters and positions in the
  random vector, which repeat each other.
- `BlockSync`: `getblocks`, `inv`, `getdata`, `block` and `hashContinue`, with
  the set of known inventory that keeps announcements from being repeated.
- `Inventory`: `AskFor`, `mapAskFor` and `mapAlreadyAskedFor`, below the limit
  of `mapAskFor` (`net.cpp`, 2143).

  Both describe a node that is not importing or reindexing. During an import
  inventory of other items and of blocks and the blocks themselves are ignored
  (`main.cpp`, 6186, 6195, 6551), while the guard of the `getblocks` that asks
  for them is commented out (7066), so an answer can be lost and neither
  `AnnouncedArrives` nor `GapsWereDropped` is claimed.
- `Transport`: the bytes of a connection in both directions, cut anywhere, with
  the two buffers and the limits at which a node stops to read or to process.
- `TimeOffset`: the median filter of `AddTimeData`.

### Algorithms

`BlockIndex` (skip pointers, `CChain`, locators), `MerkleBlock`, `Compressor`,
`Signatures` and `StakeKernel` (with the targets of `pow.cpp`) are operators; each is compared with
what it should compute, stated without reference to how it is computed. Partial
merkle trees are those a node builds: trees that were changed on the way are not tried.

### Composition

The MC modules put components side by side that share no state. A behaviour
picks one of them (`part`) and leaves the others in their initial states, so the
states add up and do not multiply, and every component is checked as if it were
alone. Components that do interact are in one module (`BlockApply` over four
stores, `WalletTxs` over `Mempool`, `SwiftTX` with pool and blocks, `Budget` with
the sync).

## 4. Runs

All runs that pass do so exhaustively for their constants. A property of a run
is the conjunction of what one component promises, with its type invariant;
the named parts (`LinksAreSound`, `QuorumIsDistinct`, ...) and what each says of
the code are in the component's module.

| Run | Shows | Bounds and why they are enough |
|---|---|---|
| `stores` | what is kept several times over stays in step (coins, block application, pool, wallet, addresses, zerocoins, block download, transport, templates, payments and the algorithms) | below |
| `chain_invalidate` | the assertions of `CheckBlockIndex` at rest, the best chain at rest, no marks on the active chain, start-up (proved for any tree) | two branches of two and three blocks, one invalid, one command (invalidate, replay) or crash: headers and data in any order, ties in work, a reorganisation that fails half way |
| `chain_all` | candidates are sound, the disk is consistent, activation ends; with every command and kind of block | two branches of two blocks, one of each kind of block (invalid, misplaced, contested, checkpointed, stake on a fork), one command: every command meets every stage of a reorganisation |
| `threads` | results of script checks, tasks, requests, nodes, grants and encryption under all interleavings, and that everything ends | below |
| `masternodes` | locks, payees, list and superblocks under reordered, repeated and late messages | below |
| `sync` | sync, budget votes, sporks and announced items come to an end | below |
| `apply_immature` | violated, finding 1 | block application alone, as in `stores` |
| `chain_kill` | violated, finding 2 | two branches of two blocks |
| `chain_walk` | violated, finding 3 | a fork of three blocks |
| `swift_votes` | violated, finding 4 | as `masternodes` |
| `superblock_twice` | violated, finding 5 | as `masternodes` |
| `peers_closed` | violated, finding 6 | one node |

Bounds of `stores`, part by part:

- coins: two transactions, two values, three blocks, which are every pair of old
  and new value of an entry on every layer (the same is proved for all values);
- block application: a tree of eleven blocks with partial and whole spends,
  spends inside a block, a stake, a serial, a mint; maturity 2, reorganisation
  depth 2, `VerifyDB` 1 deep at the start and 2 by command, so that all limits are met;
- pool: six transactions with a conflict, a chain, a coinbase and one that only
  comes with a block; two blocks, two orphans. Wallet: four transactions, two
  crashes or restarts, since some things go wrong only at the second;
- addresses: four, which meet in two buckets of both tables;
- key pool: two holders, one key ahead, six keys, one crash;
- zerocoins: two counts with change minted and no restart; one count, two blocks, three
  transactions and one restart;
- block download: answers of one block, a tip that goes from 4 to 6, a known
  set of three, so that entries are driven out;
- transport: two requests one way and one the other, headers of two bytes,
  sockets of three, limits of four and three bytes: every cut of a message, and
  both limits, are met;
- templates: three transactions of which not all fit; payments: up to four coins
  and two payees, split three ways;
- algorithms: heights up to 32, merkle trees of six transactions, amounts of two
  digits, at most four coins, chains of nine blocks and branches of two, targets
  of 16 bits, six clocks, transactions of two inputs and two outputs, four keys,
  all orders of the blocks of a five-block tree.

`threads`: three checks, two workers, batches of two (the master and both
workers hold batches at once); two tasks, one of them repeating, two service
threads; two requests, two threads, a queue of one; one accepted and one opened
node, two openers of one address, two grants; two passphrases, three keys, two
master keys, two starts.

`masternodes`: two transactions that share an input, two masternodes of which
one is not ranked at the other height, quorum 2 (with a quorum of one, or no
conflict, the cases of interest do not arise); two voters, three votes, one
reorganisation and one restart around a tip that moves past the limit; two
announcements and two pings, the least time between two pings as the unit
(`PingGap`, a minute less, rounds to 0), expiry after 1 and removal after 2 units, two stops (one that
writes the dump and one that leaves an older one behind); two
budgets that pay the same proposals in another order, with a payee enforced or
not for each block. That announcements leave the seen map after twice the
removal time is beyond the time of this instance and covered by the theorem only.

`sync`: two peers, one of them too old to be asked for lists, threshold 1 in
place of 2 (the code multiplies and compares it only), two items, one reset; one
budget item of the node's own, two votes of one masternode, one restart; three
nodes, two signed sporks, two crashes; two announcers of which one never
answers, two items, a map that holds two.

Behaviours end when such a bound is used up, or because the part is at rest (a
tree whose blocks have all arrived, locks that are gone), so deadlock is
checked only in `apply_immature`; that work does not get stuck is stated by
properties instead (`ActivationEnds`, `WaitReturns`, `StopEnds`, `ServerStops`,
`StallIsMutual`, `SyncEnds` and the other liveness properties).

Each property has a mutant (`mutants` in `PROJECT.json`): a plausible slip in
one operator, such as a dropped guard or a missing reset, for which TLC finds
the property violated under the configuration of the run.

### Fairness

- `ChainState`: a thread inside `ActivateBestChain` goes on when it gets
  `cs_main`, and so does one in the loop of `AcceptBlock` (weak fairness). Nothing
  is assumed of peers or commands.
- `SwiftTX`: time passes, so locks expire; the thread that cleans runs once a
  minute (`ThreadCheckObfuScationPool`).
- `CheckQueue`, `Scheduler`, `WorkQueue`, `Peers`: every thread that can go on
  goes on (weak fairness of each loop); the send lock that `SendMessages` only
  tries is got now and then (strong fairness of `SendPing`). Nothing is assumed
  of wake-ups without a notification.
- `WalletCrypto`: the timer fires and commands that have begun end.
- `MasternodeSync`: the tick comes every five seconds and gets the lock now and
  then (strong fairness, since peers and time change what it does), time passes, the chain catches up, and
  peers come and go. The last is not in the code's hands and is needed: when
  every peer has been asked and none answers, only a new peer moves list and
  winners on (`masternode-sync.cpp`, 306).
- `Budget`: blocks go on coming, a peer that has an item or vote offers it again
  in every sync round, the sync starts again (strong fairness); fees are
  confirmed. `Sporks`: a node asks for sporks again and again. One round of the
  sync asks each peer once and a node that has finished does not ask again
  (`masternode-sync.cpp`, 239), so this assumes that rounds recur: a start, a
  failure, `mnsync reset`, a long sleep.
- `Inventory`: minutes pass, `SendMessages` runs, and a peer that answers
  answers; the silent ones do not.

## 5. Proofs

`StoresProofs` has three parts. The first proves of the coins caches, for any
sets of transactions, values and blocks and with only the assumption that the constants have their types
(`CacheAssumption`):

- `TypeCorrect` and `FlagsCorrect`: types; a clean entry equals what is below
  it; FRESH means nothing unspent below; an entry of the view that is not FRESH
  has its counterpart in the tip, which is the assert of `BatchWrite`.
  The invariant is `CacheInv`. The flags are not inductive one by one: a flush
  keeps FRESH right only if clean entries agree with the layer below, clean entries stay right only
  if the assert holds, and both need the view to be empty when it is closed.
- `BestBlockNamesState` and `CachesImplementStore`: if no write is refused, tip
  and disk represent the block they name, and every step is a step of
  `UtxoStore` or changes nothing there. The lemmas `...Answers` say what each
  operation does to what the three layers answer.

The second is about the key pool (`KeyPoolAssumption`): `KeysCorrect`
(`KeysServeOnce`). That no key serves twice is not inductive, because a key that
is given back becomes a pool key again by its index. `KeyInv` adds that the
records in the file are exactly those of the set and of the holders, each with a
key of its own that was not used, and that no two holders have one index
(`RecordsAreHeld`); and that in an unencrypted wallet the set reaches beyond every index in hand
(`HeldIsBehind`), so that it is never filled from 1 again.

The third is about the memory pool (`MempoolAssumption`): `PoolCorrect`
(`PoolIsSound`) and `NothingDropped` (`NothingIsDropped`). `MempoolInv` says of
the chain that each block spends mature outputs of the chain before it or of the
block itself, none twice (`ChainOk`, `BlockOk`); without that the pool is not
sound after a block is disconnected. The loops inside the handlers have
invariants of their own. While the transactions of a disconnected block come
back, an input may still miss a parent that comes later in the block
(`Returning`). While orphans are looked at, what was accepted is in the work queue
once (`Resolving`), and after k rounds every orphan that spends one of the first
k entries has been tried or lacks a parent (`RoundsDone`).

`ChainStateProofs` is about any finite tree of blocks (`TreeAssumption`: every
set of blocks has one whose parent is outside it, work grows along a line,
addresses differ) and any number of commands. Lines of ancestors are defined
without recursion, as least closed sets, so that facts about ancestors follow
without induction over data. Three invariants, each containing the one before:

- `ChainInv` proves `ChainTypeCorrect`, `LinksCorrect` and `IndexCorrect`
  (`IndexIsUsable`) with no condition at all: every command, kind of block, crash
  and kill. The two parts of `IndexIsUsable` are not inductive. Candidates are
  linked only if links are exact, with the blocks that wait for a parent's data in
  `mapBlocksUnlinked` (`LinksAreSound`); what a start finds is right only because the databases lag behind by the dirty entries and
  no others (`DiskIsBehind`).
- `MarkInv` proves `ChainIsUnmarked`: no marks on the active chain, in memory
  and on disk, and every start succeeds. It needs that the coins on disk are
  at an ancestor of the tip, because a reorganisation flushes when it disconnects
  (`DiskTipIsBelow`), and that a mark that was taken back is dirty
  (`OldMarksAreDirty`). The hypothesis is that no kill comes
  inside `invalidateblock`; `chain_kill` shows what one does.
- `BestInv` proves `IndexStaysSound` (`IndexIsSound`) and `BestChainIsChosen`
  (`BestChainIsKept`). Exact candidates at rest are not inductive: inside the
  loop a candidate may be missing, and what holds then is that a better one, which
  no later prune removes, is still there (`CandidatesSuffice`); and a mark keeps
  its cause over a crash only if causes are written no later than what they
  caused (`CausesAreKept`). The hypothesis `Undisputed` leaves out contested
  blocks, checkpoints, `reconsiderblock` and the kill. It is not a convenience:
  a contested block that the chain already holds may be turned down later, and
  `ReconsiderBlock`, which a checkpoint also calls, takes causes away and leaves
  marks, so the statements are false there (section 6). `BestChainIsChosen` also
  excludes blocks damaged on disk, which end the loop without a verdict.
  `invalidateblock`, replays, crashes, invalid, misplaced and stake blocks are all in.

`MasternodesProofs` has four parts. `LocksCorrect` (`LocksAreSound`, all safety
properties of SwiftTX locks) is proved from `SwiftAssumption`, in three steps:

- `VotersAreDistinct`: no masternode is counted twice in a
  lock. That alone is not inductive: it depends on `mapTxLockVote` still
  remembering every counted vote (`Remembered`), which cleaning has to respect
  by removing votes only together with their lock. `VotesInv` says so.
- `BlocksAreUndone`: the steps that complete a lock replay the blocks and
  `CheckBlock` keeps new conflicts out; inductive beside the types.
- `CompleteLocksStay`, an action property: needs that a lock has the height of its
  request or none (`HeightsOK`), because a second request that gave it another
  height would uncount its votes. `Follows` is what a step may do to one lock.

`PayeesCorrect` (`PayeesAreVoted`) is proved from `PaymentsAssumption`. `CountsAreVotes` is about heights in reach of the tip and
not inductive, because the tip moves back in a reorganisation; `PayInv` says the
same of all heights in reach of the deepest one (`Floor`), of the votes in memory
and of those in the dump, and bounds the counts below it. The assumption that
matters is `Window + MaxReorg <= Limit`: cleaning looks further back than new
votes may. In the code `Window` is 1.25 times the enabled masternodes and `Limit`
1.25 times all of them, at least 1000 (`masternode-payments.cpp`, 418 and 657):
with n masternodes enabled there is room for reorganisations of 1000 - 1.25 n
blocks, and with very many masternodes for 1.25 blocks per masternode that is
listed and not enabled.

`ListCorrect` (`ListFollowsNews`) is proved from `ListAssumption`. That a ping
under way revives nobody depends on states that are not older than their
reasons (`Settled`: an entry is expired only if its ping is that old by now), so a
check that misses the lock cannot find it well again. `CanComeBack` is not
inductive, because what was seen while a masternode is listed stays seen when its entry goes; `SeenListed`
says of every newest announcement seen that it is the listed one or was passed over. A node may
start from a dump of any age, so all of this (`HeldOK`) is kept of the dump as of
the memory (`FileInv`); it stays true of what does not change while time passes and more is signed (`HeldStays`).

`PaymentsCorrect` (`NoDoublePayment`) is proved from `SuperblocksAssumption`, with
or without SPORK_8. It is a statement about who grants a payment: a block that
the budgets call `DoublePayment` is refused only where a payee has six votes and
SPORK_8 is on, and accepted with nobody vouching for it otherwise; such blocks
are the exception in the property. `SuperInv` says
that what budgets have granted in the chain is in the history; the loop over the budgets keeps that
(`Answers`, `Kept`): an answer that finds a payment valid records it, and the
cleaning done by one budget drops nothing that another needs if both end together.

`ThreadsProofs` proves the safety of everything in `threads`, and of the
composition (`ThreadsCorrect`), from `CheckQueueAssumption` and
`ServicesAssumption` (types, finitely many threads, names that differ):

- `ChecksCorrect` (`ChecksAreSound`) for any number of checks, workers and any
  batch size. The property speaks of the master outside a block; `CheckInv` adds
  what holds while checks are under way: a thread holds a batch exactly while it
  works (`BatchesAreHeld`), what is under way belongs to this block
  (`NothingIsStale`), `nTotal` exceeds `nIdle` by the working threads although
  interrupted ones stay counted (`ThreadsAreCounted`), and a failing check is
  still to come, or `fAllOk` has it (`FailuresAreKept`).
- `NodesCorrect` (`NodesAreAlive`): no thread uses a deleted node, and grants are
  exact with one opener or one node. `PeersInv` says who will give back which
  reference, and that the count is no less (`RefsAreOwed`; it may be more, because a second opener
  of an address leaves one behind); who has a copy of the list is in the loop over
  it (`LoopsAreInPlace`, `CopiesAreMade`); openers have a node in hand
  (`OpenersHaveNodes`); before and after its life a node has neither references
  nor a grant (`EndsAreBare`); free grants, those of openers and those of nodes
  make up all of them (`GrantsAreCounted`).
- `ServicesCorrect` (`ServicesAreSafe`): `SchedInv` counts the threads inside
  `serviceQueue` (`InsideIsCounted`), has every task queued or run only after it
  was scheduled (`TasksAreOnce`), and a thread that was always alone finds, when it
  wakes, a task that is due (`AloneIsInTime`). `HttpInv` counts the threads that
  `WaitExit` waits for (`WorkersAreCounted`).
- `WalletCorrect` (`WalletIsProtected`): `CryptInv` says that memory and file are
  either both in the plain (`PlainOk`) or both encrypted, every key under one master
  key whose record the passphrase opens (`EncryptedOk`), and that the wallet is locked between the two
  steps of `walletpassphrasechange`.

`MasternodeSyncProofs` proves, from `SyncAssumption`, `SyncTypeCorrect` and
`SyncedCorrect` (`SyncedNeedsItems`), which are inductive together; from
`SporksAssumption`, `SporksStay`, the safety part of `SporksSettle`: no node's
stored spork is newer than its active one (`SporkInv`), and what is stored only grows; and from
`BudgetAssumption`, `BudgetCorrect`, the safety part of `BudgetVotesCount`. `BudgetInv`
counts a fee beyond the restarts only for items in `mapCollateralTxids`; a handler
is a chain of operations, each of which may only move votes forward
(`Leads`), and chains compose. That votes are far enough apart (`UpdateMin`)
is what `AddOrUpdateVote` asks for.

`AddrManProofs` proves, from `AddrManAssumption` (the hashes pick buckets and
positions, an entry may have at least one reference, `Nobody` is no address),
`AddressesCorrect` (`AddressesAreKept`). `AddrInv` has more than `Check_` asks
for: a slot of the tried table names an entry whose slot it is (`TriedOk`), without
which sending an entry back to the new table could leave it in both; and entries
and places in the vector name each other, both ways (`VectorOk`), without which `SwapRandom` could lose one. The
operations leave the manager inconsistent for a moment, so its main part,
`Core`, takes the entries that may be without a slot and those that are not counted as parameters,
and each operation is followed from one such state to the next. The loops have
invariants of their own: a shuffle only moves entries in the vector (`Moved`); a
file of another version is read slot by slot (`Reading`), each being
the one of the entry's first source; and what then has no slot is deleted one by
one, tried entries excepted (`Losing`).

`FoldTheorems` is what these proofs use to go through loops and folds, since the
library's induction rules cannot be applied by the installed provers: a set of numbers has a
least element (from the well-foundedness of the naturals), so a property of all prefixes of a loop is proved from its
first failure. It states that a fold over a sequence exists, what each of its
steps is, and that what every step keeps holds at the end; `FoldVaries` and
`FoldEnds` say the same of loops whose invariant changes from step to step.

Only model-checked:

- all liveness (`ActivationEnds`, `LocksGo`, `WaitReturns`, `ServicesGoOn`, the rounds of
  the sync, votes and sporks that come through, announced items) and with it
  everything that speaks of `ENABLED`, which the prover does not cover;
- what encodings, merkle trees, skip pointers, locators, medians, targets, signature hashes and the
  selection of coins compute for every input (`EncodingsAreReadBack`,
  `WalksFindTheirBlock`, `MinorityDoesNotMoveTime`, `StakesAreJudgedAlike`,
  `SignaturesCoverTheirPart`, `PaymentsAreSound`, `NewBlockIsSound`, `ReindexFindsAll`): they compare a
  computation with a reference over bounded inputs, and each would need its own
  induction over data;
- `StoresMatchChain`, `WalletIsCurrent`, `MintsAreSafe`, `BlocksFollowPeers` and
  `StreamsAreWhole`: invariants of components whose handlers are nested loops over
  several stores. They are checked exhaustively on the instances of section 4.

## 6. What the models found

Six runs state what a comment, assertion or declaration of the repository says
and find it violated by the code (`findings` in `PROJECT.json`):

1. `apply_immature`: `DisconnectBlock` restores height and coinbase flag of a
   transaction whose last output was spent, not its coinstake flag
   (`main.cpp`, 2650); its outputs may then be spent before they mature.
2. `chain_kill`: a crash inside `invalidateblock` leaves the coins at a block
   that is marked on disk; every start then ends in an assertion
   (`main.cpp`, 3878 and 3717).
3. `chain_walk`: the walk down a fork in `AcceptBlock` never gets past the
   grandparent (`main.cpp`, 4688).
4. `swift_votes`: the inputs of a refused lock request are reserved without a
   vote (`swifttx.cpp`, 110), and blocks are rejected for it.
5. `superblock_twice`: a payment that the budgets have found valid is a double
   payment when they judge the same block again (`masternode-budget.cpp`, 2121). What
   becomes of the block is then left to the votes for a payee at its height.
6. `peers_closed`: `DisconnectOldProtocol` takes back the mark of a node that
   another thread has closed (`net.cpp`, 470); it is never deleted.

Smaller observations, made while modelling. Where a property would be touched,
its comment names the exception; the rest is read from the code.

Chain and coins

- A refused write in `FlushStateToDisk` (`main.cpp`, 3382) leaves the tip naming
  a block whose changes the flush has already dropped from the cache; the code
  aborts the node. This is why `TipRepresentsBest` is stated without refused writes.
- A mint that is recorded in the zerocoin database before a crash makes the same
  block invalid after it (`main.cpp`, 1245 does not ask whether the recorded
  transaction is in the chain, as the check of serials does); `BlocksStayValid`
  excludes blocks with mints.
- The assertions of `CheckBlockIndex` on candidates hold when no thread is inside
  `ActivateBestChain`, and not in between (`main.cpp`, 3770 and 5468).
- `ReconsiderBlock` clears the ancestors of a block and leaves their other
  descendants marked, and cleared ancestors do not become candidates
  (`main.cpp`, 3922); the exact statements are therefore checked and
  proved without it. `DisconnectBlocksAndReprocess` (3571) leaves the
  candidates alone as well, but the activation that follows it makes them right.
- A block whose data are damaged on disk is tried again for ever
  (`main.cpp`, 3762 and 4158); no run contains one.
- SwiftTX: inputs of a refused request are only released together with a lock
  whose request was recorded; cleaning an expired loser also frees the winner's inputs; when the votes complete
  a lock after its request was refused, the conflict is not seen, because the
  request looked up is empty; a lock that votes complete before the request
  comes never reserves its inputs; a masternode's own vote is not counted by
  itself; votes of masternodes that are not known yet are remembered and never
  counted.
- `DisconnectBlockAndInputs` (`main.cpp`, 3585) is not called.
- A shutdown inside `verifychain` leaves serials erased from the zerocoin database
  (`main.cpp`, 5143), deeper (288) than the next start looks (100). The actions
  are in `BlockApply`; `BlocksStayValid` and `CoinsMatchChain` are not touched by it.
- The cleaning of SwiftTX runs in the masternode thread without the lock of the
  messages (`obfuscation.cpp`, 2315); the model cleans in one step.
- An import from elsewhere (`-loadblock`) drops blocks that come before their
  parents; only a reindex keeps them.

Stakes and work

- `GetKernelStakeModifier` walks the active chain also for the stakes of other
  branches; `StakeVerdictIsShared` is stated for branches that parted later than
  the minimum age allows for. When the chain stood still it fails (`kernel.cpp`, 267,
  "Should never happen") and the log lines 261 and 277 read through a null pointer.
- Two stakes with the same time give the easiest target of all: only negative
  spacing is handled (`pow.cpp`, 46).

Block download and inventory

- `hashStop` of `getblocks` is exclusive (`main.cpp`, 6263), and a block that was
  announced and dropped for its unknown parent is not announced again
  (7115). A first sync over several answers ends up to two blocks short and, with a single peer,
  the node can stay behind until the entry leaves the known set or it reconnects.
  `GapsWereDropped` and `FirstSyncIsNear` say exactly how far. Several peers usually repair it.
- `AskFor` is called before the type is changed to `MSG_WITNESS_TX` (6186 and
  6189), so transactions are always asked for without witness.
- A full filter of clocks (200 samples) no longer changes the offset
  (documented in `timedata.cpp`, 56).
- `net.cpp`, 942: "so we don't deadlock" holds while one of the sockets has room.
  A node with a queued message does not receive, so two nodes that both have more to send than
  the sockets hold wait until a `TRY_LOCK` is missed or the time-out;
  `StallIsMutual` excepts exactly this.

Peers and threads

- A node that is removed between `push_back` and the end of `OpenNetworkConnection`
  is never released; two openers of one address leave an extra reference. `ConnectNode`
  (404) and `disconnectnode` use what `FindNode` returned without a reference, so
  the node may be deleted in between, or between the look at its count and the deletion.
- `WaitExit` does not wait for a thread that has not begun to run.

Pool and templates

- Two spends of one serial can both be in the pool. Orphans whose parent comes by a block or
  from the node itself stay waiting.
- `CreateNewBlock` never clears the serials of a transaction it leaves out, counts
  signature operations of transactions that it leaves out later (`miner.cpp`, 225), and
  compares `nBlockMinSize` with a cost; `LeftOutForACause` has these causes.

Wallet

- A start-up that finds the chain at the fork keeps the locator of a branch that
  the wallet has left. If the node then crashes in `ConnectTip` of a block of
  that branch, the next start-up takes it for scanned: the exception
  `course = "lost"` of `WalletFollowsChain`.
- Cached credit is stale when a transaction leaves the pool without notice
  (`main.cpp`, 3463; `miner.cpp`, 520): the exception of `CreditIsCurrent`.
- A locked wallet whose pool is empty starts again at index 1 over an index that is held, and hands the
  key out twice (`wallet.cpp`, 2551); `ReuseNeedsALock` shows that nothing else does.
- `walletpassphrase` with time 0 leaves an earlier timer in place
  (`rpcwallet.cpp`, 2073). `LockWallet` may fire while `walletpassphrasechange` has the wallet
  locked, which then stays open; `RPCRunLater` waits for a callback that waits for
  its lock. These are the two exceptions of `WalletIsRelocked`. A crash between
  the two writes of `WriteZANKSeed` makes every unlock report a failure.
- Without coin control amounts are not compared with dust (`wallet.cpp`, 2667), and
  a fee from an earlier, larger round is kept. A single random round of the
  selection may keep a coin too many.
- Zerocoins: `UpdateMint` runs before the `fJustCheck` return (`main.cpp`, 3222);
  pending spends are only in memory and spends that were disconnected are
  forgotten, so a mint may be spent a second time (the exceptions of
  `NotSpentTwice`); unconfirmed mints are archived at every restart; a search with
  several threads leaves out a count between them (`rpcwallet.cpp`, 3578).
- `backupwallet` waits for the use count of the wallet file with `cs_main` and
  `cs_wallet` held (`rpcwallet.cpp`, 2011), and the GUI's list of mints takes
  `cs_main` with the file open (`qt/walletmodel.cpp`, 750).

Masternodes

- A masternode may vote twice for one height by voting for another in between;
  `Limit` of `MasternodePayments` assumes fewer than about 800 masternodes.
- Superblocks: budgets of different length let later entries through, and a
  restart loses the history: the conditions of `NoDoublePayment`. A block that is a `DoublePayment`
  is accepted also with SPORK_8 when no payee has six votes at its height
  (`masternode-payments.cpp`, 572 and 638), and masternodes do not vote for one at
  the heights of a budget (729).
- List: a newer announcement within five minutes, or one that fails a check that is not
  expected to pass, stays seen (the exception of `CanComeBack`), and the hash
  it is remembered by covers only its time and the key of the collateral. After
  a crash the node reads the `mncache.dat` of its last clean stop and may list a
  masternode as enabled that has expired or is spent until it is checked; a file
  that cannot be read is not written again at the next stop. `CheckAndRemove` (about 340) reads an iterator
  after `erase(it3++)`.
- Budget: one orphan vote is kept per item; the fee is paid again after a restart or
  when the outcome of the votes changes; `ResetSync` does nothing after `ClearSeen` (985).
- Sporks: `UpdateSpork` does not write the database, and two updates within one
  second diverge.

## 7. What is not modelled

- Accumulators: inactive, since `nZerocoinLastOldParams` is 2147483646 on every
  network (`chainparams.cpp`, 222, 268, 348).
- The mixing pool: disabled (`obfuscation.cpp`, 1387).
- The headers-first download (`mapBlocksInFlight` and what belongs to it,
  `main.cpp`, 300-495): nothing adds to it in this code.
- Hashing, ciphers, the interpreter beyond signatures, serialisation, and 256-bit
  arithmetic (`crypto/`, `script/`, `key.cpp`, `uint256.cpp`): pure functions on
  byte strings out of the model checker's reach. Their answers are inputs.
- The search for a kernel and the coinbase of a new block (`miner.cpp`); scores
  and ranks of masternodes; accounts, watch-only coins and coin control beyond `Payment`.
- The environment of the wallet file (`db.cpp`): its use counts guard other
  threads' Berkeley DB handles; the models write records in one step.
- Alerts, aliases, KYC and cold-staking lists: lists without a protocol.
- RPC, GUI, Tor, ZMQ and start-up, except where they call the modelled parts.
- Vendored libraries (`leveldb/`, `secp256k1/`, `univalue/`, `libzerocoin/`).

Libraries, hash functions, the GUI and tests make up most of the lines of the
repository; the modules cover the files that hold the node's own control.
