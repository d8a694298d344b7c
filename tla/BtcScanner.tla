----------------------------- MODULE BtcScanner -----------------------------
(***************************************************************************)
(* The BTC poller (btcscanner/btc_scanner.go, block_handler.go): it waits  *)
(* for the activation height, bootstraps from the Bitcoin node, then       *)
(* follows the node's best-block notifications.  Blocks with               *)
(* ConfirmationDepth confirmations leave the cache and are handed, with    *)
(* the unconfirmed blocks above them, to the indexer over an unbuffered    *)
(* channel.                                                                *)
(*                                                                         *)
(* The Bitcoin node and lnd's notifier are external: the node switches to  *)
(* any longer chain, the notifier queues one epoch per new best block, and *)
(* any RPC may fail after its retries.  One action runs from one RPC or    *)
(* channel operation to the next, so the node may change in between.       *)
(***************************************************************************)
EXTENDS BTCCache

CONSTANTS
    Blocks,             \* the blocks that may ever be mined
    NoBlock,            \* a nil *IndexedBlock
    Prev(_),            \* Header.PrevBlock, as the block it names
    HeightOf(_),        \* IndexedBlock.Height
    Chains,             \* the chains the node may follow; c[h] is at height h
    ConfirmationDepth,  \* confirmationDepth
    BatchSize,          \* ConfirmedBlockBatchSize
    ActivationHeight,   \* the first version's activation height
    StartHeights,       \* the heights Start may be called with
    MaxReorgs,          \* bound: reorgs of the node's chain
    MaxReorgDepth,      \* bound: blocks that one reorg replaces
    MaxRpcFailures,     \* bound: RPCs that fail after all their retries
    NotifierMayClose    \* whether the notifier may close its channel

ASSUME BlocksAssumption ==
    /\ NoBlock \notin Blocks
    /\ \A b \in Blocks : HeightOf(b) \in Nat \ {0}

ASSUME ChainsAssumption ==
    /\ Chains \subseteq Seq(Blocks)
    /\ \A c \in Chains : /\ \A h \in 1..Len(c) : HeightOf(c[h]) = h
                         /\ \A h \in 2..Len(c) : Prev(c[h]) = c[h - 1]

\* With a depth of 1 the cache is always empty after trimming and Bootstrap
\* compares no block with the one before it; the README asks for 6 or more on
\* mainnet, the tests generate 2 or more.  The cache holds ConfirmationDepth
\* blocks between Add and TrimConfirmedBlocks.
ASSUME DepthAssumption ==
    /\ ConfirmationDepth \in Nat
    /\ 2 <= ConfirmationDepth
    /\ ConfirmationDepth <= MaxEntries

ASSUME ScannerBoundsAssumption ==
    /\ BatchSize \in Nat \ {0}
    /\ ActivationHeight \in Nat \ {0}
    /\ StartHeights \subseteq Nat \ {0}
    /\ MaxReorgs \in Nat
    /\ MaxReorgDepth \in Nat
    /\ MaxRpcFailures \in Nat
    /\ NotifierMayClose \in BOOLEAN

VARIABLES
    main,           \* the node's best chain (external)
    epochs,         \* epochs queued by the notifier, oldest first (external)
    pc,             \* where the poller is
    registered,     \* blockEventLoop has registered with the notifier
    startHeight,    \* the argument of Start
    cache,          \* unconfirmedBlockCache
    confirmedTip,   \* confirmedTipBlock
    boot,           \* i, tipHeight and confirmedBlocks of a running Bootstrap
    update,         \* the ChainUpdateInfo being sent
    resume,         \* where the poller continues after the send
    quit,           \* the quit channel is closed
    delivered,      \* history: confirmed blocks the indexer has received
    latest,         \* history: unconfirmed blocks of the last update received
    rpcFailures,    \* history: failed RPCs
    reorgs,         \* history: reorgs
    deepestReorg    \* history: most blocks replaced by one reorg

node    == <<main, reorgs, deepestReorg>>
history == <<delivered, latest>>
vars    == <<main, epochs, pc, registered, startHeight, cache, confirmedTip,
             boot, update, resume, quit, delivered, latest, rpcFailures,
             reorgs, deepestReorg>>

NoUpdate == [confirmed |-> <<>>, unconfirmed |-> <<>>]
NoBoot   == [next |-> 0, tip |-> 0, confirmed |-> <<>>]
Running  == pc \notin {"failed", "panicked", "stopped", "loopexit"}

----------------------------------------------------------------------------
(* The Bitcoin node and the notifier.                                      *)

\* Chains c and d agree up to height h and no further.
IsFork(h, c, d) ==
    /\ h \in 0..Len(c) /\ h <= Len(d)
    /\ \A i \in 1..h : c[i] = d[i]
    /\ h < Len(c) /\ h < Len(d) => c[h + 1] # d[h + 1]

\* Blocks of chain c above height h, in the order the notifier emits them.
EpochsAbove(c, h) == SubSeq(c, h + 1, Len(c))

\* The node's chain becomes c, which leaves the old one at height f; the
\* notifier emits every block of the new chain above the fork.
SwitchTo(c, f) ==
    /\ IsFork(f, main, c)
    /\ main' = c
    /\ epochs' = IF registered THEN epochs \o EpochsAbove(c, f) ELSE epochs
    /\ UNCHANGED <<pc, registered, startHeight, cache, confirmedTip, boot,
                   update, resume, quit, history, rpcFailures>>

MineBlock ==
    \E c \in Chains :
        /\ Len(c) = Len(main) + 1
        /\ SwitchTo(c, Len(main))
        /\ UNCHANGED <<reorgs, deepestReorg>>

\* A reorg: the node switches to a longer chain that replaces some blocks.
Reorg ==
    \E c \in Chains, f \in 0..Len(main) :
        LET depth == Len(main) - f
        IN  /\ reorgs < MaxReorgs
            /\ Len(c) > Len(main)
            /\ 0 < depth /\ depth <= MaxReorgDepth
            /\ SwitchTo(c, f)
            /\ reorgs' = reorgs + 1
            /\ deepestReorg' = IF depth > deepestReorg THEN depth
                                                       ELSE deepestReorg

----------------------------------------------------------------------------
(* The poller.                                                             *)

\* Mutant: blocks are confirmed one block early.
Unconfirmed_OffByOne == ConfirmationDepth - 2

\* A block is confirmed once this many blocks are on top of it.
Unconfirmed == ConfirmationDepth - 1

\* An RPC fails after clientCallWithRetry has used up its retries.
RpcFails == /\ rpcFailures < MaxRpcFailures
            /\ rpcFailures' = rpcFailures + 1

\* waitUntilActivation, called by Start: polls until the tip is high enough.
WaitUntilActivation ==
    /\ pc = "waiting"
    /\ \/ /\ Len(main) >= ActivationHeight
          /\ pc' = "bootstrap"
          /\ UNCHANGED rpcFailures
       \/ /\ RpcFails
          /\ pc' = "failed"
    /\ UNCHANGED <<node, epochs, registered, startHeight, cache, confirmedTip,
                   boot, update, resume, quit, history>>

\* Mutant: re-bootstrapping ignores what is confirmed already.
BootstrapHeight_FromStart == startHeight

\* Mutant: the start height itself is taken for processed.
BootstrapHeight_AboveStart == IF confirmedTip = NoBlock THEN startHeight + 1
                              ELSE HeightOf(confirmedTip) + 1

\* Start passes its own startHeight; blockEventLoop passes the height above
\* LastConfirmedHeight unless nothing is confirmed yet.
BootstrapHeight == IF confirmedTip = NoBlock THEN startHeight
                                             ELSE HeightOf(confirmedTip) + 1

\* An error of Bootstrap ends Start; blockEventLoop only logs it.
AfterBootstrapError == IF registered THEN "idle" ELSE "failed"

\* Bootstrap up to its loop: RemoveAll, GetTipHeight, the check of the height.
BootstrapBegin ==
    /\ pc = "bootstrap"
    /\ cache' = <<>>
    /\ \/ /\ RpcFails
          /\ pc' = AfterBootstrapError
          /\ UNCHANGED boot
       \/ /\ BootstrapHeight > Len(main)
          /\ pc' = AfterBootstrapError
          /\ UNCHANGED <<boot, rpcFailures>>
       \/ /\ BootstrapHeight <= Len(main)
          /\ pc' = "fetch"
          /\ boot' = [next |-> BootstrapHeight, tip |-> Len(main),
                      confirmed |-> <<>>]
          /\ UNCHANGED rpcFailures
    /\ UNCHANGED <<node, epochs, registered, startHeight, confirmedTip, update,
                   resume, quit, history>>

\* Mutant: the check that confirmed blocks connect is missing.
MajorReorg_Unchecked(confirmed) == FALSE

\* The confirmed blocks do not extend the last confirmed block.
MajorReorg(confirmed) ==
    /\ confirmed # <<>>
    /\ confirmedTip # NoBlock
    /\ Prev(Head(confirmed)) # confirmedTip

\* commitChainUpdate with blocks as the cache; then the poller waits to send.
CommitChainUpdate(confirmed, blocks, next) ==
    \/ /\ MajorReorg(confirmed)
       /\ pc' = "panicked"
       /\ UNCHANGED <<confirmedTip, update, resume>>
    \/ /\ ~MajorReorg(confirmed)
       /\ pc' = "send"
       /\ resume' = next
       /\ confirmedTip' = IF confirmed = <<>> THEN confirmedTip
                                              ELSE Tip(confirmed)
       /\ update' = [confirmed |-> confirmed,
                     unconfirmed |-> GetLastBlocks(blocks, Unconfirmed)]

\* A block fetched by Bootstrap does not connect to the cache.
Disconnected(ib) == cache # <<>> /\ Prev(ib) # Tip(cache)

\* One iteration of Bootstrap's loop: GetBlockByHeight and what follows it.
\* An error returns from Bootstrap: the confirmed blocks collected so far and
\* not yet committed are lost, the cache keeps the blocks above them.
FetchBlock ==
    LET ib        == main[boot.next]
        added     == Add(cache, ib)
        kept      == KeptBlocks(added, Unconfirmed)
        confirmed == boot.confirmed \o TrimmedBlocks(added, Unconfirmed)
    IN  /\ pc = "fetch"
        /\ boot.next <= boot.tip
        /\ \/ /\ RpcFails
              /\ pc' = AfterBootstrapError
              /\ UNCHANGED <<cache, boot, confirmedTip, update, resume>>
           \/ /\ Disconnected(ib)
              /\ pc' = AfterBootstrapError
              /\ UNCHANGED <<cache, boot, confirmedTip, update, resume,
                             rpcFailures>>
           \/ /\ ~Disconnected(ib)
              /\ Len(confirmed) < BatchSize
              /\ cache' = kept
              /\ boot' = [boot EXCEPT !.next = @ + 1, !.confirmed = confirmed]
              /\ UNCHANGED <<pc, confirmedTip, update, resume, rpcFailures>>
           \/ /\ ~Disconnected(ib)
              /\ Len(confirmed) >= BatchSize
              /\ cache' = kept
              /\ boot' = [boot EXCEPT !.next = @ + 1, !.confirmed = <<>>]
              /\ CommitChainUpdate(confirmed, kept, "fetch")
              /\ UNCHANGED rpcFailures
        /\ UNCHANGED <<node, epochs, registered, startHeight, quit, history>>

\* The end of Bootstrap: what is left is committed.
BootstrapEnd ==
    /\ pc = "fetch"
    /\ boot.next > boot.tip
    /\ boot' = NoBoot
    /\ IF boot.confirmed # <<>> \/ cache # <<>>
       THEN CommitChainUpdate(boot.confirmed, cache, "idle")
       ELSE /\ pc' = "idle"
            /\ UNCHANGED <<confirmedTip, update, resume>>
    /\ UNCHANGED <<node, epochs, registered, startHeight, cache, quit, history,
                   rpcFailures>>

\* The indexer receives the update from the channel.  It reads the channel
\* until it is stopped, which happens before the poller is.
Receive ==
    /\ pc = "send"
    /\ ~quit
    /\ pc' = resume
    /\ delivered' = delivered \o update.confirmed
    /\ latest' = update.unconfirmed
    /\ update' = NoUpdate
    /\ UNCHANGED <<node, epochs, registered, startHeight, cache, confirmedTip,
                   boot, resume, quit, rpcFailures>>

\* Mutant: commitChainUpdate sends without the quit case.
SendQuit_Missing == FALSE /\ UNCHANGED vars

\* The select of commitChainUpdate takes the quit case: the update is dropped.
SendQuit ==
    /\ pc = "send"
    /\ quit
    /\ pc' = resume
    /\ update' = NoUpdate
    /\ UNCHANGED <<node, epochs, registered, startHeight, cache, confirmedTip,
                   boot, resume, quit, history, rpcFailures>>

\* blockEventLoop registers with the cache's tip as best known block; the
\* notifier queues the blocks of the best chain the client has missed, or the
\* current tip when there is no best known block.
Register ==
    /\ pc = "idle"
    /\ ~registered
    /\ registered' = TRUE
    /\ IF cache = <<>>
       THEN epochs' = EpochsAbove(main, Len(main) - 1)
       ELSE \E c \in Chains, f \in 0..Len(main) :
                /\ Len(c) = HeightOf(Tip(cache)) /\ Tip(c) = Tip(cache)
                /\ IsFork(f, main, c)
                /\ epochs' = EpochsAbove(main, f)
    /\ UNCHANGED <<node, pc, startHeight, cache, confirmedTip, boot, update,
                   resume, quit, history, rpcFailures>>

\* Mutant: the block after the cache's tip is skipped too.
LowBlock_OffByOne(e) ==
    cache # <<>> /\ HeightOf(Tip(cache)) + 1 >= HeightOf(e)

\* The epoch is skipped: the cache already reaches its height.
LowBlock(e) == cache # <<>> /\ HeightOf(Tip(cache)) >= HeightOf(e)

\* The epoch is the next block of the branch in the cache.
NextBlock(e) == /\ cache # <<>>
                /\ HeightOf(e) = HeightOf(Tip(cache)) + 1
                /\ Prev(e) = Tip(cache)

\* GetBlockByHeight returns the block the epoch announced.
StillBest(e) == HeightOf(e) <= Len(main) /\ main[HeightOf(e)] = e

\* blockEventLoop takes an epoch: HandleNewBlock; on an error, Bootstrap.
HandleNewBlock ==
    LET e     == Head(epochs)
        added == Add(cache, e)
        kept  == KeptBlocks(added, Unconfirmed)
    IN  /\ pc = "idle"
        /\ registered
        /\ epochs # <<>>
        /\ epochs' = Tail(epochs)
        /\ \/ /\ LowBlock(e)
              /\ UNCHANGED <<pc, cache, confirmedTip, update, resume,
                             rpcFailures>>
           \/ /\ ~LowBlock(e)
              /\ ~NextBlock(e)
              /\ pc' = "bootstrap"
              /\ UNCHANGED <<cache, confirmedTip, update, resume, rpcFailures>>
           \/ /\ NextBlock(e)
              /\ RpcFails
              /\ pc' = "bootstrap"
              /\ UNCHANGED <<cache, confirmedTip, update, resume>>
           \/ /\ NextBlock(e)
              /\ ~StillBest(e)
              /\ pc' = "bootstrap"
              /\ UNCHANGED <<cache, confirmedTip, update, resume, rpcFailures>>
           \/ /\ NextBlock(e)
              /\ StillBest(e)
              /\ cache' = kept
              /\ CommitChainUpdate(TrimmedBlocks(added, Unconfirmed), kept,
                                   "idle")
              /\ UNCHANGED rpcFailures
        /\ UNCHANGED <<node, registered, startHeight, boot, quit, history>>

\* The notifier closes its channel: blockEventLoop returns.
EpochsClosed ==
    /\ NotifierMayClose
    /\ pc = "idle"
    /\ registered
    /\ pc' = "loopexit"
    /\ UNCHANGED <<node, epochs, registered, startHeight, cache, confirmedTip,
                   boot, update, resume, quit, history, rpcFailures>>

\* Stop closes quit once Start has returned (the indexer has stopped by then).
Stop ==
    /\ Running
    /\ registered \/ pc = "idle"
    /\ ~quit
    /\ quit' = TRUE
    /\ UNCHANGED <<node, epochs, pc, registered, startHeight, cache,
                   confirmedTip, boot, update, resume, history, rpcFailures>>

\* blockEventLoop takes the quit case.
LoopQuit ==
    /\ pc = "idle"
    /\ registered
    /\ quit
    /\ pc' = "stopped"
    /\ UNCHANGED <<node, epochs, registered, startHeight, cache, confirmedTip,
                   boot, update, resume, quit, history, rpcFailures>>

----------------------------------------------------------------------------

Init ==
    /\ main \in {c \in Chains : Len(c) = 1}
    /\ startHeight \in StartHeights
    /\ epochs = <<>>
    /\ pc = "waiting"
    /\ registered = FALSE
    /\ cache = <<>>
    /\ confirmedTip = NoBlock
    /\ boot = NoBoot
    /\ update = NoUpdate
    /\ resume = "idle"
    /\ quit = FALSE
    /\ delivered = <<>>
    /\ latest = <<>>
    /\ rpcFailures = 0
    /\ reorgs = 0
    /\ deepestReorg = 0

\* The steps of the poller's own goroutine.
Poller ==
    \/ WaitUntilActivation
    \/ BootstrapBegin
    \/ FetchBlock
    \/ BootstrapEnd
    \/ SendQuit
    \/ Register
    \/ HandleNewBlock
    \/ LoopQuit

Next ==
    \/ MineBlock
    \/ Reorg
    \/ Poller
    \/ Receive
    \/ EpochsClosed
    \/ Stop

Spec == Init /\ [][Next]_vars

\* The Go scheduler runs the poller, and the indexer keeps reading the channel
\* until it is stopped.  Nothing obliges the node to mine or anyone to stop.
FairSpec == Spec /\ WF_vars(Poller) /\ WF_vars(Receive)

----------------------------------------------------------------------------
(* Properties.                                                             *)

TypeOK ==
    /\ main \in Chains
    /\ epochs \in Seq(Blocks)
    /\ pc \in {"waiting", "bootstrap", "fetch", "send", "idle", "failed",
               "panicked", "stopped", "loopexit"}
    /\ registered \in BOOLEAN
    /\ startHeight \in StartHeights
    /\ cache \in Seq(Blocks) /\ Len(cache) < ConfirmationDepth
    /\ confirmedTip \in Blocks \cup {NoBlock}
    /\ boot \in [next : Nat, tip : Nat, confirmed : Seq(Blocks)]
    /\ update \in [confirmed : Seq(Blocks), unconfirmed : Seq(Blocks)]
    /\ resume \in {"fetch", "idle"}
    /\ quit \in BOOLEAN
    /\ delivered \in Seq(Blocks)
    /\ latest \in Seq(Blocks)
    /\ rpcFailures \in 0..MaxRpcFailures
    /\ reorgs \in 0..MaxReorgs
    /\ deepestReorg \in Nat

\* Every block is the parent of the next one.
Linked(s) == \A i \in 1..(Len(s) - 1) : Prev(s[i + 1]) = s[i]

\* "The poller ensures that all the output blocks have at least N
\* confirmations": what commitChainUpdate sends is one branch, and confirmed
\* blocks have ConfirmationDepth - 1 unconfirmed blocks on top of them.
ConfirmedDeepEnough ==
    pc = "send" =>
        /\ Linked(update.confirmed \o update.unconfirmed)
        /\ update.confirmed # <<>> =>
               Len(update.unconfirmed) = ConfirmationDepth - 1

\* The confirmed blocks the indexer receives form one chain, across batches,
\* re-bootstraps and reorgs: none is repeated, skipped or replaced.
DeliveredConnected == Linked(delivered)

\* While no reorg is as deep as the confirmation depth, the indexer only ever
\* holds confirmed blocks that are on the node's best chain.
DeliveredFinal ==
    deepestReorg < ConfirmationDepth =>
        \A i \in 1..Len(delivered) :
            LET h == HeightOf(delivered[i])
            IN  h <= Len(main) /\ main[h] = delivered[i]

\* The first confirmed block the indexer receives is the one at startHeight.
NoGapAtStart ==
    delivered # <<>> => HeightOf(delivered[1]) = startHeight

\* Bootstrap returns an error to blockEventLoop with confirmed blocks collected
\* and not committed: they are lost, the cache keeps the blocks above them.
DropsBatch == pc = "fetch" /\ pc' = "idle" /\ boot.confirmed # <<>>

\* No Bootstrap that the event loop runs has lost confirmed blocks in this way.
NoBatchDropped == [][~DropsBatch]_vars

\* commitChainUpdate panics with "major reorgs happened" only after a reorg
\* that the confirmation depth does not cover.
NoFalseAlarm == pc = "panicked" => deepestReorg >= ConfirmationDepth

\* The indexer has every confirmed block of the node's best chain and its last
\* unconfirmed blocks.
UpToDate ==
    /\ startHeight + ConfirmationDepth - 1 <= Len(main) =>
          delivered = SubSeq(main, startHeight,
                             Len(main) - ConfirmationDepth + 1)
    /\ latest = GetLastBlocks(SubSeq(main, startHeight, Len(main)),
                              ConfirmationDepth - 1)

\* When the node's chain comes to rest, a poller that is neither stopped nor
\* failed brings the indexer up to date with it.
CatchesUp ==
    <>[](UpToDate \/ quit \/ ~Running \/ Len(main) < ActivationHeight)

\* Once Stop has closed quit, blockEventLoop returns, even when the poller is
\* blocked on the channel nobody reads any more.
StopTerminates == quit ~> ~Running
=============================================================================
