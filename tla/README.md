# TLA+ models of the staking indexer

The staking indexer (`sid`) follows the Bitcoin chain, extracts staking,
unbonding and withdrawal transactions from blocks that are deep enough, keeps
them and the confirmed TVL (total value locked) in a database, and publishes
them as events on message queues. These modules model the process from its
configuration to its shutdown: the BTC poller, the indexer, the goroutines and
channels between them, with the Bitcoin node, the notifier, the database and the
queues around them. TLC checks the models on small instances; TLAPS proves the
main safety properties for all instances.

## The system

```
 bitcoind  --RPC-->  BTC client ---+
    |                              v
    +--epochs--> notifier --> BTC poller --ChainUpdateInfo--> indexer --> store
                              (cache of                          |
                              unconfirmed blocks)                +--> queues
```

| part | state | operations | modelled in |
|---|---|---|---|
| block cache (`btcscanner/btc_cache.go`) | sequence of blocks | `Add`, `Tip`, `RemoveAll`, `GetLastBlocks`, `TrimConfirmedBlocks` | `BTCCache` |
| BTC poller (`btc_scanner.go`, `block_handler.go`) | cache, `confirmedTipBlock`, the running `Bootstrap`, `quit` | `Start`, `waitUntilActivation`, `Bootstrap`, `blockEventLoop`, `HandleNewBlock`, `commitChainUpdate`, `Stop` | `BtcScanner` |
| notifier, node (`btc_notifier.go`; lnd, bitcoind) | best chain, queue of epochs | registration, new best blocks, reorgs | external actions of `BtcScanner` |
| BTC client, `btc-headers` (`btcclient/client.go`, `btc_headers.go`) | the RPC and its attempts, the list of headers | `clientCallWithRetry`, reads by height, the command | `BtcClient` |
| indexer, confirmed blocks (`indexer/indexer.go`) | the block, transaction and input at hand | `Start`, `ValidateStartHeight`, `HandleConfirmedBlock` and everything it calls | `StakingIndexer` |
| what that promises | a ledger of stakes | one confirmed transaction after the other | `StakingLedger` |
| indexer, unconfirmed blocks (`indexer/indexer.go`) | the update at hand | `blocksEventLoop`, `processUnconfirmedInfo`, `CalculateTvlInUnconfirmedBlocks` | `UnconfirmedInfo` |
| store (`indexerstore/indexer_store.go`) | four buckets | `AddStakingTransaction`, `AddUnbondingTransaction`, `SaveLastProcessedHeight` and the reads | `IndexerStore` |
| poller and indexer together | the above, over several lives of the process | hand-over, crash, restart, clean database | `IndexerSystem` |
| lifecycle (`server`, `cmd/sid/cli/start.go`, `Start` and `Stop` of the parts) | four goroutines, deferred calls, quit channels | construction, start, signal, shutdown | `Lifecycle` |
| `sid init`, configuration, logger (`init.go`, `config`, `log`) | the home directory and `sid.conf` | `init`, `LoadConfig`, `Validate`, choice of the level | `SidHome` |
| event consumer (`consumer`; RabbitMQ) | queues | one push per kind of event | history variables of the indexer's modules |
| parameters (`params`) | versions with activation heights | lookup by height | constant `ParamsAt` |

What is hard in it, and what the properties are about:

- the node may change its chain between any two RPCs, any RPC may fail after its
  retries, and an epoch may be stale when it is handled;
- confirmed blocks leave the cache in batches, are handed over on an unbuffered
  channel, and must form one chain across re-bootstraps and restarts;
- a block is handled in many steps, each a push or a write; a crash may fall
  between any two, and the block, or any number of earlier blocks, is then
  handled again;
- whether a stake is active depends on the TVL when it is first handled, so a
  replay must not classify it again;
- one transaction may be a stake, an unbonding and a withdrawal of several
  outputs at once;
- the unconfirmed TVL is computed from a database that is behind the chain;
- the goroutines must end before what they use is stopped, and none may wait for
  one that has ended.

## Modules

**`BTCCache`**: the cache as a sequence, oldest block first; each method, which
runs under the cache's lock, is one operator.

**`BtcScanner`** extends it. `pc` says where the poller is: `waiting`
(`waitUntilActivation`), `bootstrap`, `fetch` (the loop of `Bootstrap`), `send`
(the `select` of `commitChainUpdate`), `idle` (the `select` of `blockEventLoop`,
or about to register), and the ends `failed` (`Start` returns an error),
`panicked`, `stopped`, `loopexit` (the epochs channel was closed). An action
runs from one RPC or channel operation to the next: `BootstrapBegin` is
`Bootstrap` up to `GetTipHeight` and its check, `FetchBlock` one iteration of its
loop, `BootstrapEnd` the rest. `CommitChainUpdate` is the code before the `select`;
`Receive` and `SendQuit` are its two cases. `MineBlock` and `Reorg` are the node:
it moves to any longer chain of `Chains`, and the notifier queues each new best
block. `boot` keeps the local variables of `Bootstrap`; after an error they are
dead and `BootstrapBegin` overwrites them.

**`BtcClient`**: a read by height is two RPCs, the hash of the height and the
block of the hash, each repeated up to `MaxRetryTimes`. The node keeps blocks of
branches it has left, so the read returns the block that was best at the moment
of the hash RPC: this is why a read is one step in `BtcScanner`. The
`btc-headers` command is the caller modelled here.

**`IndexerStore`**: the four buckets as variables with `Nil` for an absent key;
each write is one atomic operator with its errors (`AddStakingError`,
`AddUnbondingError`), as in the kvdb transaction.

**`StakingIndexer`** extends it with `HandleConfirmedBlock`. `pc` names the step:
`block`, `tx`, `save_staking`, `spend_staking`, `save_unbonding`,
`spend_unbonding`, `confirmed_info`, plus `down` and `fatal`. An action runs from
one push or write to the next. `Crash` loses the process's memory at any point;
`Start` begins at the height the operator gives, or at `GetStartHeight`, if
`ValidateStartHeight` accepts it. A push or write that fails ends in
`logger.Fatal`, which is a crash just before it; `fatal` is kept for errors that
come back on every restart (`ErrNegativeTvl`, a missing record, no parameters).
A transaction is a model value with a record of what the parsers of the external
libraries read off it: the staking data and the parameters' tag it matches, the
outpoints it spends and the script path it reveals, the shape that
`IsValidUnbondingTx` checks. The confirmed chain is fixed in `Init`: blocks reach
the indexer in order, and when a block becomes confirmed makes no difference.

**`StakingLedger`** is the abstract specification: a ledger that sees each
transaction of the confirmed chain once and in order, without a process that
could crash. **`IndexerLedger`** has the refinement mapping: its
`ImplementsLedger` states that the database of `StakingIndexer` goes through the
ledger's states.

**`UnconfirmedInfo`** extends `StakingIndexer` with the update at hand: the
confirmed blocks of an update are handled, then its unconfirmed ones are scanned
and the forecast is pushed. The scan is a function of the database and the
blocks: `CountTx` is one transaction, `CountBlock` and `CountBlocks` the two loops
of `CalculateTvlInUnconfirmedBlocks`, which carry the running sum and the map of
unconfirmed stakes along.

**`IndexerSystem`** extends `BtcScanner` with the other end of the channel and
with a database that outlives the process. A block is handled in one step, since
`StakingIndexer` has the steps inside. `NewProcess` is everything a process
forgets, `StartFromCleanDb` what the README asks of the operator after a panic.

**`Lifecycle`** has one action per step of the main goroutine (constructors,
services and their deferred stops, `StakingIndexer.Start` and `Stop`), of
`blocksEventLoop`, of `blockEventLoop` and of the Prometheus server; a block is
only counted.

**`SidHome`**: `sid init` writes the file in parts, and may be interrupted,
repeated or forced; an option's value is reduced to whether it is accepted and
whether it is zero.

**`MCBtcScanner`**, **`MCIndexerSystem`**, **`MCStakingIndexer`**,
**`MCUnconfirmedInfo`**, **`MCBtcClient`** give the constants values. In the
scanner's, a block is the sequence of branch numbers of its ancestors and itself.
In the indexer's, the chains are all longest valid orders of a small set of
transactions in all cuts into blocks.

The `_proofs` modules hold the theorems, and the invariants and lemmas they rest
on:

```
StakingIndexer_proofs <- IndexerProgress_proofs <---------+
        ^                                                 |
        +-- IndexerTvl_proofs <- UnconfirmedTvl_proofs <- UnconfirmedInfo_proofs
BtcScanner_proofs <- IndexerSystem_proofs      SidCommands_proofs
```

## Runs

| run | properties | shows |
|---|---|---|
| `scanner_safety` | `TypeOK`, `ConfirmedDeepEnough`, `DeliveredConnected`, `DeliveredFinal`, `StopTerminates` | with a reorg of any depth and a failed RPC anywhere, the indexer gets one chain of blocks that were deep enough; they stay on the best chain while no reorg is as deep as the confirmation depth; `Stop` ends the poller, also when it waits to send |
| `system_chain` | `StoredFinal`, `StoredGapless`, `NoGapAtStart`, `NoFalseAlarm`, `ConfirmedIsStored`, `CatchesUp` | over several lives of the process, with two reorgs, a crash and replays, the database is a gapless part of the best chain while no reorg is as deep as the confirmation depth; the poller panics only after such a reorg; every block that becomes deep enough is stored in the end |
| `indexer_flows` | `NothingMissed`, `TvlIsActiveStake`, `ClassifiedByCap` | every order and cut of nine transactions leaves the right records, events and TVL |
| `indexer_crash` | `TypeOK`, `NothingMissed`, `StoredIsPublished`, `OverflowIsFinal`, `NoFatalError`, `TvlIsActiveStake`, `ImplementsLedger`, `ChainProcessed` | the same with two crashes anywhere and restarts at any valid height; the database goes through the ledger's states; an indexer that stays up processes the whole chain |
| `info_forecast` | `TvlNeverNegative`, `TvlBounded`, `ForecastComesTrue` | the unconfirmed TVL is what the confirmed TVL becomes once its blocks are confirmed, but for stakes that turn out to be overflow; the confirmed TVL is below the cap plus the maximal stake |
| `lifecycle_shutdown` | `TypeOK`, `NothingUsedAfterStop`, `ShutdownCompletes` | from any point of a process on an active chain a signal leads to its end, and after a successful start nothing is used after its stop |
| `headers_file` | `FileIsBestChain`, `CommandEnds` | `btc-headers` ends for every range, and without a reorg its file is the best chain between the heights |
| `home_init` | `StartsOnDefaults` | a `sid.conf` that an interrupted `sid init` has left is refused, or differs from the defaults in its last line only |

Four runs end in a counterexample; each is a place where the code does not do
what the repository says:

| run | property | what happens |
|---|---|---|
| `scanner_gap` | `NoGapAtStart` | `GetBlockByHeight` fails in a `Bootstrap` run by the event loop, after confirmed blocks were trimmed out of the cache. `Bootstrap` returns and drops them; the cache still holds the blocks above, so the next epoch continues there and the blocks at the start height never reach the indexer ("does not miss relevant blocks", `indexer.go:104`) |
| `system_reorg_down` | `StoredConnected` | a major reorg while the process is down: `confirmedTipBlock` is nil after a restart and nothing compares the first block with the database, so blocks of the new branch are stored above blocks of the old one ("In case of major reorg, the indexer will terminate", `README.md:17`) |
| `indexer_info_lost` | `ConfirmedInfoPushed` | the height is saved before its `ConfirmedInfoEvent` is pushed; a crash in between loses it, against the "push the events first" of `indexer.go:878` |
| `lifecycle_signal` | `SignalEndsProcess` | `waitUntilActivation` looks at no quit channel: a signal before the activation height ends nothing ("until a signal is received", `server.go:55`) |

`DeliveredConnected` holds in spite of `scanner_gap`: the poller skips at the
start or panics, it never hands over a broken chain. `StoredFinal` holds in spite
of `system_reorg_down`, which needs a reorg as deep as the confirmation depth.

### Deviations without a run

The modules state more of what the repository's text says and the code does not
keep. Each was found violated by TLC with the configuration of a run above after
the change given here (the property replaces those of the configuration).

| property | configuration and change | what happens |
|---|---|---|
| `NoFalseAlarm` | `scanner_gap` | the loss of `scanner_gap` after something was confirmed: the next confirmed block does not connect and the poller panics with "major reorgs happened" (`block_handler.go:139`) without a reorg |
| `NoGapAtStart` | `scanner_gap` with `Chains <- MCTwoBranches`, `MaxHeight = 8`, `MaxEntries = 5`, `ConfirmationDepth = 4`, `BatchSize = 3`, `StartHeights = {2}`, `MaxReorgs = 3`, `MaxReorgDepth = 3`, `MaxRpcFailures = 0`, `NotifierMayClose = FALSE` | the same loss without a failed RPC: the chain flips three times between two branches, each time shallower than the depth, and `Bootstrap` returns because a block does not connect to the cache (`btc_scanner.go:155`) |
| `TvlWithinCap` | `indexer_flows` with `Txs = {"s1", "s2", "u1"}`, `MaxHeight = 5`, `V2Height = 9` | `isOverflow` (`indexer.go:1106`) compares the TVL without the new stake with the cap; the active stake exceeds "the maximum amount of Bitcoin stake the system considers active" (`doc/staking.md:61`) by less than one stake |
| `ConfirmedInfoReplayable` | `indexer_info_lost` with `StartHeightFlags = {1, 2, 3, 4, 5}` | on a replay the event of an old height carries the TVL of a later one (`indexer.go:388`), while "the Bitcoin history can be replayed in order to reach the same state conclusions" (`doc/staking.md:76`) |
| `TvlOfObservedStakes` | `info_forecast` with `Txs = {"s1", "u1"}`, `MaxHeight = 5`, `V2Height = 4`, `BatchSize = 1`, `StartHeightFlags = {1, 2, 3, 4, 5}` | on a replay the stakes of unconfirmed blocks are in the store already and are counted twice (`indexer.go:250`): the forecast exceeds all observed stake ("based on observed transactions", `README.md:24`) |
| `BlockFailureIsSystematic` | `lifecycle_signal` | `Start` fails after it has started `blocksEventLoop`; the deferred calls of `server.go:108` close the database under the loop, and the block at hand fails, which "indicates systematic failure" (`indexer.go:147`) |
| `FileIsRange` | `headers_file` with `MaxHeight = 4`, `MaxRetryTimes = 1`, `MaxReorgs = 1` | a reorg between two reads (`btc_headers.go:135`): the headers of the file do not connect, though it is "a range of BTC headers" (`:35`) |
| `MissingIsDefault` | `home_init` with `MaxCrashes = 0` | `LoadConfig` parses the file into a zero configuration (`config.go:104`), so a missing option is zero or refused and not "a default config with sane settings" (`:90`) |
| `OfferedLevelStarts` | `home_init` with `MaxCrashes = 0` | the option offers the level "trace" (`config.go:34`), which `log.go:54` does not know |

In the same way a `sid.conf` that lost its last line is accepted with metrics
port 0; `StartsOnDefaults` says that nothing else can happen to it.

### Bounds

- Scanner and system: depth 3, batches of 2, heights up to 6 on two branch
  numbers, so that batches fill up, blocks are confirmed by bootstrap and by
  epochs, a reorg can be shallower than, as deep as and deeper than the depth (up
  to 5), and the start height can be at or above the activation height.
  `scanner_safety` has one reorg with one RPC failure, `system_chain` two reorgs,
  a crash and no failure. With a failure, or with a third reorg on longer chains,
  `NoGapAtStart`, `NoFalseAlarm` and `StoredGapless` are not to be expected (see
  above); that the loss shown by `scanner_gap` is the only cause is proved
  without bounds, and so are the other safety properties of these modules.
- `MaxEntries` is 4, above the depth, as 100 is above the depths in use
  (`DepthAssumption`; a depth above the cache's size would lose blocks, and
  nothing under `btcscanner` rejects it). The depth is at least 2: the
  repository's README asks for 6 or more on mainnet, its tests use 2 or more.
- Indexer: four to six heights, the base height at 2, two versions of the
  parameters (a staking cap, then a cap height), four to nine transactions. The
  values are such that a stake fits, reaches or exceeds the cap of 3. Two crashes
  let a crash fall into the replay of an earlier crash. Start heights 1 to 5
  include invalid ones.
- Unconfirmed blocks: depth 3 and batches of 2 over six heights, so that a stake
  and its unbonding meet in one update, in two, and across a crash.
- Lifecycle: three updates of at most two blocks: one in bootstrap, one being
  handled, one being sent.
- `btc-headers`: all ranges of heights up to 5, three attempts, two reorgs.
- Home: five commands, three interruptions, one edit, over all options.

`CHECK_DEADLOCK FALSE` is set where the system stops by itself: the bounded chain
ends and the poller and the indexer then wait, as the program does between
blocks, and a failed or stopped process or a finished command takes no steps.
`Lifecycle` is checked for deadlock.

### Fairness

- `BtcScanner!FairSpec`: weak fairness of the poller's own steps (its goroutine is
  scheduled) and of `Receive` (the indexer reads the channel until it stops).
  Nothing obliges the node to mine or anyone to call `Stop`.
- `StakingIndexer!FairSpec`: weak fairness of the goroutine's steps; a process
  that is down need not be restarted.
- `IndexerSystem!FairSystemSpec`: the two goroutines' steps, and an operator who
  restarts a process that has ended. Since failed RPCs are part of the poller's
  steps, `system_chain` allows none: a failed bootstrap is retried only when the
  next epoch arrives, which need not happen.
- `Lifecycle!Spec`: each goroutine that can run does; failures, signals, updates
  and activation need not happen. The number of updates is bounded, so the choice
  of a `select` between an update and `quit` cannot starve `quit`.
- `BtcClient!HeadersSpec`: every RPC is answered, well or with an error.

## Theorems

All hold for every value of the constants that satisfies the named assumptions.

`BtcScanner_proofs`: any block tree, depth (2 up to `MaxEntries`), batch size,
number and depth of reorgs, number of failed RPCs.

- `ScannerTypeOK`, `ScannerConfirmedDeepEnough`, `ScannerDeliveredConnected`.
- The inductive invariant `Inv` adds to the three properties: `BootOK`, the
  heights `Bootstrap` asks for exist; `BranchOK`, the cache is one branch and
  continues the confirmed blocks collected so far, which exist only below a full
  cache; `DeliveryOK`, until `Stop` the confirmed tip is the last block handed
  over or about to be. `AddFacts` (adding and trimming keeps the branch) and
  `CommitFacts` (the check against `confirmedTipBlock` makes the next batch
  continue what was delivered) carry the argument.

- `ScannerNoGapAtStart`: the first block handed over is the one at the start
  height, provided that `NoBatchDropped`: no `Bootstrap` run by the event loop
  returns an error while it holds confirmed blocks that it has taken out of the
  cache and not committed. The run `scanner_gap` is a behaviour without that
  proviso, so the theorem says that this loss is the only way to a gap, however
  many reorgs of whatever depth and failed RPCs there are. The invariant `GapInv`
  gives every block of what is delivered, collected and cached its height
  (`CacheRises`, `DeliveredRises`); it fails at once when a batch is dropped,
  since the cache keeps the blocks above.
- `SmallBatchesAreNotDropped`, `NoFaultsNoDrop`: the proviso holds when the batch
  size is 1, and when there are neither reorgs nor failed RPCs.

`IndexerSystem_proofs`: the poller over a node that reorganizes, and the poller
with the database over several lives of the process.

- `ScannerDeliveredFinal`: what was handed over stays on the best chain while no
  reorg is as deep as the confirmation depth. That a chain which holds a block
  holds its ancestors would be an induction over chains; here it is part of the
  invariant `FinalInv` for the blocks of the cache (`Branch`), which every `Add`
  extends by one. A block that leaves the cache is then depth - 1 below a block of
  the best chain (`Settled`), and `SettledStays` shows that a shallower reorg
  leaves it there.
- `ScannerNoFalseAlarm`: under `NoBatchDropped` the poller panics only after a
  reorg as deep as the confirmation depth. `AlarmInv` says that the confirmed tip
  is settled; the next confirmed block has the next height (`GapInv`) and is
  settled too, so both are on the best chain and the one follows the other.
- `SystemStoredFinal`: finality for the database, over any number of crashes,
  restarts, replays and clean databases. `SystemInv` holds the poller's
  invariants in every life of the process (`NewProcessInv`) and says that the
  pending and the stored blocks are settled. `StartHeightsAssumption`: the set of
  start heights has every height a process may be started with.
- `SystemStoredGapless`, `SystemNoGap`: under `NoBatchDropped` the database has
  every height from the activation height to its last one, and each life of the
  process is without gap and false alarm. `GaplessInv` says that the blocks the
  indexer still has to handle go on where the database ends, or below that on a
  replay; `ValidateStartHeight` is what makes it hold for a new process.

`StakingIndexer_proofs`: any transactions, parameters and chains (a transaction
occurs once and after those it spends, and no output is spent twice:
`ChainsAssumption` and `SpentOnceAssumption`, which Bitcoin's consensus rules
give), any number of crashes, any start heights.

- `IndexerTypeOK`, `IndexerStoredIsPublished`, `IndexerClassifiedByCap`,
  `IndexerTvlBounded`.
- `Inv` says where in the block the indexer is at each `pc` and what it is about
  to write: a staking tx about to be saved has been published with the flag at
  hand, which is the one `isOverflow` gives now or the stored one
  (`PendingStaking`), and likewise for an unbonding tx (`PendingUnbonding`). The
  properties are false of arbitrary states without that.

`IndexerProgress_proofs`

- `IndexerNothingMissed`: a height is saved only when every transaction up to it
  is stored and published. The invariant `Progress` says that everything before
  the current position has been processed, what part of the current transaction
  has been, and that stored unbondings link to stored stakings. The main
  lemma, `PrefixStable`, is that a step never undoes what an earlier transaction
  has left: a transaction only spends outputs of earlier ones (`Causality`), so a
  new record gives an earlier transaction no new spent input.
- `IndexerImplementsLedger`: every step of the indexer is a step of
  `StakingLedger` or leaves it unchanged. What `FullyProcessed` says of the
  database and the queues is `Settled` in the ledger, so the position of the
  indexer gives every new record its turn; replays change nothing.
- `IndexerOverflowIsFinal`: the events of one staking tx agree on whether it is
  overflow, however often they are repeated.

`IndexerTvl_proofs`

- `IndexerTvlIsActiveStake`: the confirmed TVL is the sum of the stored stakes
  that are neither overflow nor unbonded, at every point of a block, after every
  crash and during replays.
- `IndexerNoFatalError`: no error that would come back on every restart. In
  particular `ErrNegativeTvl` cannot happen: what an unbonding tx takes from the
  TVL is in the sum.
- The invariant `TvlInv` is the conjunction of both properties with
  `UnbondedOK`: a stored unbonding tx is on the chain and spends the output of
  its stored staking tx, and so does the one about to be stored. Since an output
  is spent once (`UnbondedOnce`), a stake is not yet unbonded when an unbonding
  tx of it is stored, and leaves the sum exactly once. Neither property is
  inductive without the other and without that.
- The sum, `MapThenSumSet`, is defined by recursion over a finite set. `Minimal`
  (a nonempty set of finite sets has a minimal element) replaces the induction:
  a smallest set for which a lemma fails is taken one element apart. `TotalRemove`
  and its companions are what the steps use.

`UnconfirmedTvl_proofs`, `UnconfirmedInfo_proofs`: the event loop with its
forecasts, for any chain, depth (2 or more), batch size, poller's tips and number
of crashes.

- `InfoImplementsIndexer`: `InfoSpec => Spec`. The loop only takes steps of
  `StakingIndexer`, so all its theorems hold of the loop.
- `InfoTvlNeverNegative`, `InfoForecastComesTrue`, under the hypothesis
  `StartHeightFlags = {}`: a restart goes on at the last processed height + 1, as
  `sid start` does when the operator gives no `--start-height`. The hypothesis is
  needed: on a replay from an earlier height the database holds records of the
  "unconfirmed" blocks, an unbonding tx is then taken from a TVL that is already
  without its stake, and TLC finds both properties violated (`info_forecast` with
  `Txs = {"s1", "u1"}` and `StartHeightFlags = {2, 3, 4}`; the error is only
  logged).
- The value of a forecast. `Counted(l, h, i)` is the set of valid staking
  transactions before position `i` of the block at height `h` that no transaction
  before it unbonds, without those up to height `l` that are stored as overflow.
  `AccOK` is the loop invariant of `CalculateTvlInUnconfirmedBlocks`: confirmed
  TVL plus running sum is the sum of `Counted`, and the map holds the unconfirmed
  stakes.
  `CountTxStep` shows it for one transaction, by cases: a stake is new to the sum;
  an unbonding tx leaves it by the value of its stake, which is stored or in the
  map; every other transaction changes nothing. `ForecastIs` concludes: the
  forecast for the tip `t` is the sum of `Counted(l, t + 1, 1)`, so it is never
  negative. The code's two loops are recursive functions; in place of an induction
  the proof takes the least position at which a loop has no value with `AccOK`
  (`Least`).
- The state in which a forecast is made. `UpdateOK`: when the confirmed blocks of
  the update at hand are handled, the indexer is just above the last of them, and
  the database holds the blocks up to there and nothing else (`Settled`). A crash
  endangers that: it leaves in the database a part of a block that was not saved.
  `DirtyOK` says that this can only be the first block above the last saved one,
  and that the poller's highest tip, `seenTip`, then makes it a confirmed block;
  since that tip never falls, the next update has it among its confirmed blocks,
  and no forecast is made below it. `SourceOK` traces every record to a position
  of the chain; `HeightOK` ties the block at hand to the last saved height, which
  is where replays are excluded.
- The forecast comes true. `ForecastOK` keeps of each pushed forecast the height
  `l` confirmed then and that its value is the sum of `Counted(l, t + 1, 1)`. That
  set never changes again (`CountedStays`: the records up to `l` are final). When
  the tip `t` is saved the confirmed TVL is the sum of `Counted(t, t + 1, 1)`, by
  `TvlIsActiveStake`; it differs from the set of the forecast by the stakes above
  `l` that were stored as overflow (`CountedSubset`, `CountedSame`, `TotalMono`).

`SidCommands_proofs`: the commands `btc-headers` (`BtcClient`), `init` (`SidHome`)
and `start` (`Lifecycle`).

- `FileIsBestChainHolds`: for every set of chains, range and number of attempts.
  `ReadInv` says that what has been read, and the hash at hand, are at their
  heights on a chain that has only grown.
- `HomeStartsOnDefaults`: for any number of runs, interruptions and edits.
  `HomeInv` says that a file the operator has not touched is a prefix of the
  options with their defaults (`Prefix`), whichever `sid init` it comes from; such
  a prefix passes `Validate` only if it reaches the metrics host.
- `LifecycleTypeOK`, `NothingUsedAfterStopHolds`: for any number of updates and
  blocks. `LifeInv` says that the deferred calls are a prefix of one list
  (`StackOK`), that what has been stopped is off it (`StoppedOK`), and which
  goroutines exist at each point (`GoroutinesOK`); the property itself does not
  know that main is returning.

Only model-checked is liveness, which is outside the prover's reach:
`StopTerminates`, `CatchesUp`, `ConfirmedIsStored`, `ChainProcessed`,
`ShutdownCompletes`, `CommandEnds`.

## Not modelled

- Parsing and script checks of the external Babylon and btcd libraries: a
  transaction carries their verdicts. `types`, `utils/tx.go`, `utils/pubkey.go`
  are conversions around them.
- The file of global parameters: an external library parses and checks it.
- Construction of lnd's notifier and of the queue and database clients from the
  configuration; RabbitMQ, lnd and bitcoind beyond what the code relies on.
- Encoding of records and keys, generated code, metrics, the dispatch of
  subcommands: no state that the behaviour depends on.
- `Init`, `First`, `Size`, `GetAllBlocks` of the cache and `TxExists` of the store,
  which only tests call; the test utilities and the end-to-end tests.
- The 64-bit width of TVL and heights: all Bitcoin in satoshis is below 2^51.
- A depth of 1: after trimming, the cache is then always empty and `Bootstrap`
  compares no block with the one before it.
