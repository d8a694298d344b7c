--------------------------- MODULE IndexerLedger ----------------------------
(***************************************************************************)
(* What StakingIndexer promises: the refinement mapping to StakingLedger.  *)
(***************************************************************************)
EXTENDS StakingIndexer

\* The ledger that the database and the withdrawal queue stand for.
Ledger == INSTANCE StakingLedger
          WITH stakes <- stakingTxs, unbondings <- unbondingTxs,
               tvl <- GetConfirmedTvl, withdrawn <- withdrawEvents

\* With crashes, restarts at any height, replays and duplicates, the indexer
\* records what a ledger that sees every transaction once, in order, records.
ImplementsLedger == Ledger!Spec
=============================================================================
