---------------------------- MODULE IndexerSystem ---------------------------
(***************************************************************************)
(* The poller and the indexer together, over several lives of the process. *)
(* blocksEventLoop takes an update from the poller's channel, handles its  *)
(* confirmed blocks one by one and is ready for the next update; the       *)
(* poller works on meanwhile.  The database survives a crash, the poller's *)
(* memory (its cache and the last confirmed block) does not: the next      *)
(* process starts from the height in the database, or from a lower one     *)
(* that the operator gives.  The node may switch chains at any time, also  *)
(* while the process is down.                                              *)
(*                                                                         *)
(* Here a block is handled in one step; StakingIndexer has the steps       *)
(* inside.  A graceful stop is a crash between two blocks.                 *)
(***************************************************************************)
EXTENDS BtcScanner

CONSTANTS
    MaxCrashes,       \* bound: crashes of the process
    StartHeightFlags, \* start heights that the operator may give
    MaxChainHeight    \* bound: height of the highest block

ASSUME SystemAssumption ==
    /\ MaxCrashes \in Nat
    /\ StartHeightFlags \subseteq Nat
    /\ \A c \in Chains : Len(c) <= MaxChainHeight

\* StartHeights has every height that a process may be started with.
ASSUME StartHeightsAssumption ==
    /\ ActivationHeight \in StartHeights
    /\ StartHeightFlags \subseteq StartHeights
    /\ \A b \in Blocks : HeightOf(b) + 1 \in StartHeights

VARIABLES
    pending,              \* confirmed blocks of the update being handled
    stored,               \* history: the block last handled at each height
    lastProcessedHeight,  \* in the database; 0 when it is empty
    crashes               \* history: crashes

indexer    == <<pending, stored, lastProcessedHeight, crashes>>
systemVars == <<vars, indexer>>

\* The process is alive: a panic or an error of Start has not ended it.
Alive == pc \notin {"panicked", "failed"}

\* blocksEventLoop receives an update when it has handled the last one.
ReceiveUpdate ==
    /\ pending = <<>>
    /\ pending' = update.confirmed
    /\ Receive
    /\ UNCHANGED <<stored, lastProcessedHeight, crashes>>

\* HandleConfirmedBlock, which saves the height last.
HandleConfirmedBlock ==
    LET ib == Head(pending)
    IN  /\ Alive
        /\ pending # <<>>
        /\ pending' = Tail(pending)
        /\ stored' = [h \in DOMAIN stored \cup {HeightOf(ib)} |->
                         IF h = HeightOf(ib) THEN ib ELSE stored[h]]
        /\ lastProcessedHeight' = HeightOf(ib)
        /\ UNCHANGED <<vars, crashes>>

\* Mutant: the height of the database is skipped.
GetStartHeight_OffByOne(last) == IF last = 0 THEN ActivationHeight ELSE last + 2

\* GetStartHeight
GetStartHeight(last) == IF last = 0 THEN ActivationHeight ELSE last + 1

\* ValidateStartHeight
ValidStartHeight(h, last) ==
    /\ h >= ActivationHeight
    /\ last = 0 => h = ActivationHeight
    /\ last # 0 => h <= last + 1

\* A new process, with a database whose last processed height is last: a new
\* poller, and nothing received yet.
NewProcess(last) ==
    /\ startHeight' \in {GetStartHeight(last)} \cup
                           {h \in StartHeightFlags : ValidStartHeight(h, last)}
    /\ pc' = "waiting"
    /\ registered' = FALSE
    /\ epochs' = <<>>
    /\ cache' = <<>>
    /\ confirmedTip' = NoBlock
    /\ boot' = NoBoot
    /\ update' = NoUpdate
    /\ resume' = "idle"
    /\ quit' = FALSE
    /\ delivered' = <<>>
    /\ latest' = <<>>
    /\ pending' = <<>>
    /\ UNCHANGED <<node, rpcFailures>>

\* The process dies, or Start has failed, and it is started again.
Restart ==
    /\ pc # "panicked"
    /\ pc = "failed" \/ crashes < MaxCrashes
    /\ crashes' = IF pc = "failed" THEN crashes ELSE crashes + 1
    /\ NewProcess(lastProcessedHeight)
    /\ UNCHANGED <<stored, lastProcessedHeight>>

\* After a major reorg the operator bootstraps from a clean database.
StartFromCleanDb ==
    /\ pc = "panicked"
    /\ NewProcess(0)
    /\ stored' = <<>>
    /\ lastProcessedHeight' = 0
    /\ UNCHANGED crashes

SystemInit ==
    /\ Init
    /\ startHeight = GetStartHeight(0)
    /\ pending = <<>>
    /\ stored = <<>>
    /\ lastProcessedHeight = 0
    /\ crashes = 0

Node == (MineBlock \/ Reorg) /\ UNCHANGED indexer

PollerStep == Alive /\ Poller /\ UNCHANGED indexer

SystemNext ==
    \/ Node
    \/ PollerStep
    \/ ReceiveUpdate
    \/ HandleConfirmedBlock
    \/ Restart
    \/ StartFromCleanDb

SystemSpec == SystemInit /\ [][SystemNext]_systemVars

\* Both goroutines run, and a process that has ended is started again.
Recovers == (pc = "failed" /\ Restart) \/ StartFromCleanDb

FairSystemSpec ==
    /\ SystemSpec
    /\ WF_systemVars(PollerStep)
    /\ WF_systemVars(ReceiveUpdate)
    /\ WF_systemVars(HandleConfirmedBlock)
    /\ WF_systemVars(Recovers)

----------------------------------------------------------------------------
(* Properties.                                                             *)

\* As long as no reorg reaches a block with ConfirmationDepth confirmations,
\* the database holds only blocks of the node's best chain, whatever crashes,
\* replays and shallow reorgs come between.
StoredFinal ==
    deepestReorg < ConfirmationDepth =>
        \A h \in DOMAIN stored : stored[h] = main[h]

\* Nor is a block skipped: the database holds a segment from the activation
\* height on.
StoredGapless ==
    deepestReorg < ConfirmationDepth =>
        \A h \in DOMAIN stored :
            h > ActivationHeight => h - 1 \in DOMAIN stored

\* "In case of major reorg, the indexer will terminate and should manually
\* bootstrap from a clean DB": it never builds on a block that is gone.
StoredConnected ==
    \A h \in DOMAIN stored :
        h + 1 \in DOMAIN stored => Prev(stored[h + 1]) = stored[h]

\* A block that gets ConfirmationDepth confirmations is handled in the end,
\* although the process may die with it in its memory.
ConfirmedIsStored ==
    \A h \in ActivationHeight..MaxChainHeight :
        (Len(main) >= h + ConfirmationDepth - 1) ~> (h \in DOMAIN stored)
=============================================================================
