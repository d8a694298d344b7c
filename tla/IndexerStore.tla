---------------------------- MODULE IndexerStore ----------------------------
(***************************************************************************)
(* The indexer's database (indexerstore/indexer_store.go): the buckets of  *)
(* staking and unbonding transactions, the confirmed TVL (total value      *)
(* locked) and the last processed height.  Every method is one kvdb        *)
(* transaction: it happens as a whole or, when it returns an error, not at *)
(* all.  A transaction stands for its hash; of what is stored about it the *)
(* model keeps what the indexer reads back.                                *)
(***************************************************************************)
EXTENDS Integers, FiniteSetsExt

CONSTANTS
    Txs,      \* Bitcoin transactions, by hash
    Values,   \* staking values in satoshis
    Heights,  \* block heights
    OutIdxs,  \* output indices
    Nil       \* an absent key

ASSUME StoreAssumption ==
    /\ Values \subseteq Nat
    /\ Heights \subseteq Nat \ {0}
    /\ Nil \notin Txs

\* proto.StakingTransaction
StakingTransaction ==
    [idx : OutIdxs, height : Heights, value : Values, overflow : BOOLEAN]

ASSUME NilAssumption == Nil \notin StakingTransaction /\ Nil \notin Nat

VARIABLES
    stakingTxs,           \* stakingtxs bucket
    unbondingTxs,         \* unbondingtxs bucket: the staking tx it unbonds
    confirmedTvl,         \* confirmedtvl bucket: absent until the first write
    lastProcessedHeight   \* indexerstate bucket: absent until the first write

storeVars == <<stakingTxs, unbondingTxs, confirmedTvl, lastProcessedHeight>>

\* A new database (initBuckets).
StoreInit ==
    /\ stakingTxs = [tx \in Txs |-> Nil]
    /\ unbondingTxs = [tx \in Txs |-> Nil]
    /\ confirmedTvl = Nil
    /\ lastProcessedHeight = Nil

----------------------------------------------------------------------------

\* GetStakingTransaction and GetUnbondingTransaction: what was stored, or
\* (nil, nil) when nothing was.
GetStakingTransaction(tx) == stakingTxs[tx]
GetUnbondingTransaction(tx) == unbondingTxs[tx]

\* GetLastProcessedHeight: ErrLastProcessedHeightNotFound is Nil.
GetLastProcessedHeight == lastProcessedHeight

\* GetConfirmedTvl: 0 before the first write.
GetConfirmedTvl == IF confirmedTvl = Nil THEN 0 ELSE confirmedTvl

\* incrementConfirmedTvl, inside AddStakingTransaction.
IncrementedTvl(tvlIncrement) == GetConfirmedTvl + tvlIncrement

\* The error of subtractConfirmedTvl, inside AddUnbondingTransaction.
SubtractTvlError(tvlSubtract) ==
    IF confirmedTvl = Nil THEN "ErrCorruptedStateDb"
    ELSE IF tvlSubtract > confirmedTvl THEN "ErrNegativeTvl" ELSE "none"

\* Mutant: a transaction is added again on replay.
AddStakingError_NoDuplicateCheck(tx) == "none"

\* The error of AddStakingTransaction.
AddStakingError(tx) ==
    IF stakingTxs[tx] # Nil THEN "ErrDuplicateTransaction" ELSE "none"

\* Mutant: the TVL counts overflow transactions too.
AddStakingTransaction_CountsOverflow(tx, st) ==
    IF AddStakingError(tx) # "none"
    THEN UNCHANGED storeVars
    ELSE /\ stakingTxs' = [stakingTxs EXCEPT ![tx] = st]
         /\ confirmedTvl' = IncrementedTvl(st.value)
         /\ UNCHANGED <<unbondingTxs, lastProcessedHeight>>

\* AddStakingTransaction: an active transaction also increments the TVL
\* (incrementConfirmedTvl).
AddStakingTransaction(tx, st) ==
    IF AddStakingError(tx) # "none"
    THEN UNCHANGED storeVars
    ELSE /\ stakingTxs' = [stakingTxs EXCEPT ![tx] = st]
         /\ confirmedTvl' = IF st.overflow THEN confirmedTvl
                                           ELSE IncrementedTvl(st.value)
         /\ UNCHANGED <<unbondingTxs, lastProcessedHeight>>

\* Mutant: an unbonding transaction is subtracted again on replay.
AddUnbondingError_NoDuplicateCheck(tx, stakingTx) ==
    LET st == stakingTxs[stakingTx]
    IN  IF st = Nil THEN "ErrTransactionNotFound"
        ELSE IF st.overflow THEN "none"
        ELSE SubtractTvlError(st.value)

\* The error of AddUnbondingTransaction.
AddUnbondingError(tx, stakingTx) ==
    LET st == stakingTxs[stakingTx]
    IN  IF st = Nil THEN "ErrTransactionNotFound"
        ELSE IF unbondingTxs[tx] # Nil THEN "ErrDuplicateTransaction"
        ELSE IF st.overflow THEN "none"
        ELSE SubtractTvlError(st.value)

\* AddUnbondingTransaction: unbonding an active transaction also subtracts its
\* value from the TVL (subtractConfirmedTvl).
AddUnbondingTransaction(tx, stakingTx) ==
    IF AddUnbondingError(tx, stakingTx) # "none"
    THEN UNCHANGED storeVars
    ELSE /\ unbondingTxs' = [unbondingTxs EXCEPT ![tx] = stakingTx]
         /\ confirmedTvl' =
               IF stakingTxs[stakingTx].overflow THEN confirmedTvl
               ELSE confirmedTvl - stakingTxs[stakingTx].value
         /\ UNCHANGED <<stakingTxs, lastProcessedHeight>>

\* Mutant: the next height is saved as processed.
SaveLastProcessedHeight_OffByOne(h) ==
    /\ lastProcessedHeight' = h + 1
    /\ UNCHANGED <<stakingTxs, unbondingTxs, confirmedTvl>>

\* SaveLastProcessedHeight
SaveLastProcessedHeight(h) ==
    /\ lastProcessedHeight' = h
    /\ UNCHANGED <<stakingTxs, unbondingTxs, confirmedTvl>>

\* The value of the active staking transactions that have not been unbonded.
ActiveStake ==
    LET Unbonded == {unbondingTxs[tx] : tx \in Txs}
        Active   == {tx \in Txs \ Unbonded :
                        stakingTxs[tx] # Nil /\ ~stakingTxs[tx].overflow}
    IN  MapThenSumSet(LAMBDA tx : stakingTxs[tx].value, Active)

StoreTypeOK ==
    /\ stakingTxs \in [Txs -> StakingTransaction \cup {Nil}]
    /\ unbondingTxs \in [Txs -> Txs \cup {Nil}]
    /\ confirmedTvl \in Nat \cup {Nil}
    /\ lastProcessedHeight \in Heights \cup {Nil}
=============================================================================
