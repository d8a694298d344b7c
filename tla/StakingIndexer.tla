--------------------------- MODULE StakingIndexer ---------------------------
(***************************************************************************)
(* The staking indexer's handling of confirmed blocks (indexer/indexer.go, *)
(* HandleConfirmedBlock and what it calls), on top of its store, with      *)
(* crashes and restarts.  An action runs from one write to the database or *)
(* push to a queue to the next, so a crash may fall between any two.  A    *)
(* push or a write that fails ends in logger.Fatal, which is a crash       *)
(* before it.                                                              *)
(*                                                                         *)
(* The confirmed chain is chosen at the start: the poller hands its blocks *)
(* over in order from the start height (BtcScanner), and when a block      *)
(* becomes confirmed makes no difference here.                             *)
(***************************************************************************)
EXTENDS IndexerStore, Sequences

CONSTANTS
    Tags,               \* a tag stands for tag, covenant keys and quorum
    TxData,             \* what the indexer reads off each transaction
    ParamsAt,           \* GetVersionedGlobalParamsByHeight, Nil below the base
    BaseHeight,         \* Versions[0].ActivationHeight
    Chains,             \* confirmed chains: c[h] is the block at height h
    StartHeightFlags,   \* values the operator may give as --start-height
    ExtraEventEnabled,  \* cfg.ExtraEventEnabled
    MaxCrashes          \* bound: crashes

\* An input: the outpoint it spends and the leaf script of that output its
\* witness reveals.
Inputs == [tx : Txs, idx : OutIdxs,
           path : {"unbonding", "timelock", "slashing"}]

\* What ParseV0StakingTx reads off a staking transaction.
StakingData == [tag : Tags, value : Values, time : Nat, idx : OutIdxs]

\* A transaction.  staking: it parses as a staking transaction under the
\* parameters with that tag.  transfer: it has one input and one output.
\* final: neither RBF nor a lock time.  out: its first output, whose script is
\* the unbonding script under the parameters with that tag, or another (Nil).
Transactions ==
    [staking  : StakingData \cup {Nil},
     ins      : Seq(Inputs),
     transfer : BOOLEAN,
     final    : BOOLEAN,
     out      : [script : Tags \cup {Nil}, value : Nat]]

\* The fields of parser.ParsedVersionedGlobalParams that the indexer reads.
Params == [tag : Tags, cap : Nat, capHeight : Nat, fee : Nat,
           minAmount : Nat, maxAmount : Nat, minTime : Nat, maxTime : Nat]

ASSUME IndexerAssumption ==
    /\ TxData \in [Txs -> Transactions]
    /\ \A t \in Txs : TxData[t].transfer => Len(TxData[t].ins) = 1
    /\ BaseHeight \in Heights
    /\ ParamsAt \in [Heights -> Params \cup {Nil}]
    /\ \A h \in Heights : ParamsAt[h] = Nil <=> h < BaseHeight
    /\ StartHeightFlags \subseteq Nat
    /\ ExtraEventEnabled \in BOOLEAN
    /\ MaxCrashes \in Nat

\* What Bitcoin guarantees of a chain: a transaction occurs once, after the
\* transactions whose outputs it spends.
ASSUME ChainsAssumption ==
    \A c \in Chains :
        /\ c \in Seq(Seq(Txs))
        /\ 1..Len(c) \subseteq Heights
        /\ \A g, h \in 1..Len(c) : \A i \in 1..Len(c[g]), j \in 1..Len(c[h]) :
              /\ c[g][i] = c[h][j] => g = h /\ i = j
              /\ \A k \in 1..Len(TxData[c[g][i]].ins) :
                    TxData[c[g][i]].ins[k].tx = c[h][j] =>
                        h < g \/ (h = g /\ j < i)

\* Two inputs spend the same output.
SameOutpoint(in1, in2) == in1.tx = in2.tx /\ in1.idx = in2.idx

\* Bitcoin also guarantees that no output is spent twice.
ASSUME SpentOnceAssumption ==
    \A c \in Chains :
        \A g, h \in 1..Len(c) : \A i \in 1..Len(c[g]), j \in 1..Len(c[h]) :
            \A k \in 1..Len(TxData[c[g][i]].ins),
               l \in 1..Len(TxData[c[h][j]].ins) :
                SameOutpoint(TxData[c[g][i]].ins[k], TxData[c[h][j]].ins[l])
                    => g = h /\ i = j /\ k = l

VARIABLES
    chain,          \* the confirmed chain (external)
    pc,             \* where the indexer is
    height,         \* the block being handled, or the next one
    txIdx,          \* the transaction being handled
    inIdx,          \* the last input of it that has been handled
    overflow,       \* isOverflow of the staking transaction being added
    stakingEvents,        \* history: ActiveStakingEvents pushed
    unbondingEvents,      \* history: UnbondingStakingEvents pushed
    withdrawEvents,       \* history: WithdrawStakingEvents pushed
    confirmedInfoEvents,  \* history: ConfirmedInfoEvents pushed
    crashes               \* history: crashes so far

events == <<stakingEvents, unbondingEvents, withdrawEvents,
            confirmedInfoEvents>>
vars   == <<storeVars, chain, pc, height, txIdx, inIdx, overflow, events,
            crashes>>

tx == chain[height][txIdx]
params == ParamsAt[height]

----------------------------------------------------------------------------
(* Reading transactions.                                                   *)

\* tryParseStakingTx
ParsesAsStaking(t, p) == /\ TxData[t].staking # Nil
                         /\ TxData[t].staking.tag = p.tag

\* validateStakingTx
ValidStaking(t, p) ==
    LET data == TxData[t].staking
    IN  /\ p.minAmount <= data.value /\ data.value <= p.maxAmount
        /\ p.minTime <= data.time /\ data.time <= p.maxTime

\* Mutant: a TVL that has reached the cap still admits a stake.
IsOverflow_Strict(h, p) == IF p.capHeight # 0 THEN h > p.capHeight
                                              ELSE GetConfirmedTvl > p.cap

\* Mutant: the cap is not checked.
IsOverflow_Never(h, p) == FALSE

\* isOverflow: a cap height, when there is one, replaces the staking cap.
IsOverflow(h, p) == IF p.capHeight # 0 THEN h > p.capHeight
                                       ELSE GetConfirmedTvl >= p.cap

\* Mutant: a replayed transaction is classified again.
OverflowOf_Again(t, h, p) == IsOverflow(h, p)

\* A stored transaction keeps its overflow flag.
OverflowOf(t, h, p) ==
    LET stored == GetStakingTransaction(t)
    IN  IF stored # Nil THEN stored.overflow ELSE IsOverflow(h, p)

\* Mutant: the overflow flag is not stored.
StakingRecord_FlagLost(t, h, isOverflow) ==
    [idx |-> TxData[t].staking.idx, height |-> h,
     value |-> TxData[t].staking.value, overflow |-> FALSE]

\* The record that AddStakingTransaction stores.
StakingRecord(t, h, isOverflow) ==
    [idx |-> TxData[t].staking.idx, height |-> h,
     value |-> TxData[t].staking.value, overflow |-> isOverflow]

\* getSpentStakingTxs: the inputs that spend the output of a stored staking tx.
SpentStakingInputs(t) ==
    {i \in 1..Len(TxData[t].ins) :
        LET in     == TxData[t].ins[i]
            stored == GetStakingTransaction(in.tx)
        IN  stored # Nil /\ stored.idx = in.idx}

\* getSpentUnbondingTxs: the inputs that spend a stored unbonding tx.
SpentUnbondingInputs(t) ==
    {i \in 1..Len(TxData[t].ins) :
        GetUnbondingTransaction(TxData[t].ins[i].tx) # Nil}

\* IsValidUnbondingTx, its first half: t unlocks the unbonding path of the
\* staking tx s.
UnlocksUnbonding(t, s) ==
    LET in == TxData[t].ins[1]
    IN  /\ TxData[t].transfer
        /\ in.tx = s /\ in.idx = stakingTxs[s].idx
        /\ in.path = "unbonding"

\* IsValidUnbondingTx, its second half; otherwise ErrInvalidUnbondingTx.
ValidUnbonding(t, s) ==
    LET p == ParamsAt[stakingTxs[s].height]
    IN  /\ TxData[t].final
        /\ stakingTxs[s].value > p.fee
        /\ TxData[t].out.script = p.tag
        /\ TxData[t].out.value = stakingTxs[s].value - p.fee

\* ValidateWithdrawalTxFromStaking, ValidateWithdrawalTxFromUnbonding
UnlocksTimelock(t, i) == TxData[t].ins[i].path = "timelock"

\* Mutant: only the last spent output is handled.
IsNextInput_Last(i, S) == i > inIdx /\ \A j \in S : j <= i

\* Mutant: the same input is handled again.
IsNextInput_Again(i, S) == i >= inIdx /\ \A j \in S : j >= inIdx => i <= j

\* The next element of S in the order of the inputs.
IsNextInput(i, S) == i > inIdx /\ \A j \in S : j > inIdx => i <= j

----------------------------------------------------------------------------
(* Start.                                                                  *)

\* Mutant: the start height may lie above the last processed height + 1.
ValidStartHeight_NoUpperBound(h) ==
    /\ h >= BaseHeight
    /\ GetLastProcessedHeight = Nil => h = BaseHeight

\* ValidateStartHeight
ValidStartHeight(h) ==
    /\ h >= BaseHeight
    /\ GetLastProcessedHeight = Nil => h = BaseHeight
    /\ GetLastProcessedHeight # Nil => h <= GetLastProcessedHeight + 1

\* GetStartHeight
GetStartHeight == IF GetLastProcessedHeight = Nil
                  THEN BaseHeight ELSE GetLastProcessedHeight + 1

\* The process starts, at the operator's start height if one is given.
Start ==
    /\ pc = "down"
    /\ \E h \in StartHeightFlags \cup {GetStartHeight} :
          ValidStartHeight(h) /\ height' = h
    /\ pc' = "block"
    /\ UNCHANGED <<storeVars, chain, txIdx, inIdx, overflow, events, crashes>>

\* The process dies: its memory is lost, the database and the queues are not.
Crash ==
    /\ pc \notin {"down", "fatal"}
    /\ crashes < MaxCrashes
    /\ crashes' = crashes + 1
    /\ pc' = "down"
    /\ height' = 0 /\ txIdx' = 0 /\ inIdx' = 0 /\ overflow' = FALSE
    /\ UNCHANGED <<storeVars, chain, events>>

----------------------------------------------------------------------------
(* HandleConfirmedBlock.                                                   *)

\* The next confirmed block arrives; its parameters are looked up.
ReceiveBlock ==
    /\ pc = "block"
    /\ height <= Len(chain)
    /\ pc' = IF params = Nil THEN "fatal" ELSE "tx"
    /\ txIdx' = 1 /\ inIdx' = 0
    /\ UNCHANGED <<storeVars, chain, height, overflow, events, crashes>>

\* ProcessStakingTx up to the push of the event by addStakingTransaction: a
\* stored transaction keeps its overflow flag, a new one must be valid.
ProcessStakingTx ==
    /\ pc = "tx"
    /\ txIdx <= Len(chain[height])
    /\ \/ /\ ~ParsesAsStaking(tx, params)
          /\ pc' = "spend_staking"
          /\ UNCHANGED <<overflow, stakingEvents>>
       \/ /\ ParsesAsStaking(tx, params)
          /\ stakingTxs[tx] = Nil
          /\ ~ValidStaking(tx, params)
          /\ pc' = "spend_staking"
          /\ UNCHANGED <<overflow, stakingEvents>>
       \/ /\ ParsesAsStaking(tx, params)
          /\ stakingTxs[tx] # Nil \/ ValidStaking(tx, params)
          /\ overflow' = OverflowOf(tx, height, params)
          /\ stakingEvents' = stakingEvents \cup
                                 {[tx |-> tx, overflow |-> overflow']}
          /\ pc' = "save_staking"
    /\ UNCHANGED <<storeVars, chain, height, txIdx, inIdx, unbondingEvents,
                   withdrawEvents, confirmedInfoEvents, crashes>>

\* addStakingTransaction saves the transaction; a duplicate is no error.
SaveStakingTx ==
    /\ pc = "save_staking"
    /\ AddStakingTransaction(tx, StakingRecord(tx, height, overflow))
    /\ overflow' = FALSE
    /\ pc' = "spend_staking"
    /\ UNCHANGED <<chain, height, txIdx, inIdx, events, crashes>>

\* processWithdrawTx: a withdrawal is published and not stored.
ProcessWithdrawTx(s) == withdrawEvents' = withdrawEvents \cup {s}

\* handleSpendingStakingTransaction up to a push: an unbonding tx, a
\* withdrawal, or an invalid one of either kind, which is only logged.
HandleSpendingStaking ==
    /\ pc = "spend_staking"
    /\ \E i \in SpentStakingInputs(tx) :
          LET s == TxData[tx].ins[i].tx
          IN  /\ IsNextInput(i, SpentStakingInputs(tx))
              /\ inIdx' = i
              /\ \/ /\ UnlocksUnbonding(tx, s)
                    /\ ValidUnbonding(tx, s)
                    /\ unbondingEvents' = unbondingEvents \cup
                                             {[staking |-> s, unbonding |-> tx]}
                    /\ pc' = "save_unbonding"
                    /\ UNCHANGED withdrawEvents
                 \/ /\ UnlocksUnbonding(tx, s)
                    /\ ~ValidUnbonding(tx, s)
                    /\ UNCHANGED <<pc, unbondingEvents, withdrawEvents>>
                 \/ /\ ~UnlocksUnbonding(tx, s)
                    /\ UnlocksTimelock(tx, i)
                    /\ ProcessWithdrawTx(s)
                    /\ UNCHANGED <<pc, unbondingEvents>>
                 \/ /\ ~UnlocksUnbonding(tx, s)
                    /\ ~UnlocksTimelock(tx, i)
                    /\ UNCHANGED <<pc, unbondingEvents, withdrawEvents>>
    /\ UNCHANGED <<storeVars, chain, height, txIdx, overflow, stakingEvents,
                   confirmedInfoEvents, crashes>>

\* ProcessUnbondingTx saves the transaction; a duplicate is no error, any
\* other error of the store is fatal.
SaveUnbondingTx ==
    LET s   == TxData[tx].ins[inIdx].tx
        err == AddUnbondingError(tx, s)
    IN  /\ pc = "save_unbonding"
        /\ AddUnbondingTransaction(tx, s)
        /\ pc' = IF err \in {"none", "ErrDuplicateTransaction"}
                 THEN "spend_staking" ELSE "fatal"
        /\ UNCHANGED <<chain, height, txIdx, inIdx, overflow, events, crashes>>

\* No input is left that spends a stored staking transaction.
SpentStakingDone ==
    /\ pc = "spend_staking"
    /\ \A i \in SpentStakingInputs(tx) : i <= inIdx
    /\ pc' = "spend_unbonding"
    /\ inIdx' = 0
    /\ UNCHANGED <<storeVars, chain, height, txIdx, overflow, events, crashes>>

\* handleSpendingUnbondingTransaction: a withdrawal or an invalid one.
HandleSpendingUnbonding ==
    /\ pc = "spend_unbonding"
    /\ \E i \in SpentUnbondingInputs(tx) :
          LET s == unbondingTxs[TxData[tx].ins[i].tx]
          IN  /\ IsNextInput(i, SpentUnbondingInputs(tx))
              /\ inIdx' = i
              /\ pc' = IF stakingTxs[s] = Nil THEN "fatal" ELSE pc
              /\ IF stakingTxs[s] # Nil /\ UnlocksTimelock(tx, i)
                 THEN ProcessWithdrawTx(s) ELSE UNCHANGED withdrawEvents
    /\ UNCHANGED <<storeVars, chain, height, txIdx, overflow, stakingEvents,
                   unbondingEvents, confirmedInfoEvents, crashes>>

\* No input is left that spends a stored unbonding transaction: next tx.
SpentUnbondingDone ==
    /\ pc = "spend_unbonding"
    /\ \A i \in SpentUnbondingInputs(tx) : i <= inIdx
    /\ pc' = "tx"
    /\ txIdx' = txIdx + 1
    /\ inIdx' = 0
    /\ UNCHANGED <<storeVars, chain, height, overflow, events, crashes>>

\* All transactions of the block are handled: its height is saved.
SaveHeight ==
    /\ pc = "tx"
    /\ txIdx > Len(chain[height])
    /\ SaveLastProcessedHeight(height)
    /\ IF ExtraEventEnabled
       THEN pc' = "confirmed_info" /\ height' = height
       ELSE pc' = "block" /\ height' = height + 1
    /\ UNCHANGED <<chain, txIdx, inIdx, overflow, events, crashes>>

\* The ConfirmedInfoEvent of the block, after its height is saved.
PushConfirmedInfo ==
    /\ pc = "confirmed_info"
    /\ confirmedInfoEvents' = confirmedInfoEvents \cup
                                 {[height |-> height, tvl |-> GetConfirmedTvl]}
    /\ pc' = "block"
    /\ height' = height + 1
    /\ UNCHANGED <<storeVars, chain, txIdx, inIdx, overflow, stakingEvents,
                   unbondingEvents, withdrawEvents, crashes>>

----------------------------------------------------------------------------

Init ==
    /\ StoreInit
    /\ chain \in Chains
    /\ pc = "down"
    /\ height = 0 /\ txIdx = 0 /\ inIdx = 0 /\ overflow = FALSE
    /\ stakingEvents = {}
    /\ unbondingEvents = {}
    /\ withdrawEvents = {}
    /\ confirmedInfoEvents = {}
    /\ crashes = 0

\* The steps of blocksEventLoop's goroutine.
HandleBlocks ==
    \/ ReceiveBlock
    \/ ProcessStakingTx
    \/ SaveStakingTx
    \/ HandleSpendingStaking
    \/ SaveUnbondingTx
    \/ SpentStakingDone
    \/ HandleSpendingUnbonding
    \/ SpentUnbondingDone
    \/ SaveHeight
    \/ PushConfirmedInfo

Next == Start \/ HandleBlocks \/ Crash

Spec == Init /\ [][Next]_vars

\* The goroutine runs as long as the process does.
FairSpec == Spec /\ WF_vars(HandleBlocks)

----------------------------------------------------------------------------
(* Properties.                                                             *)

TypeOK ==
    /\ StoreTypeOK
    /\ chain \in Seq(Seq(Txs))
    /\ pc \in {"down", "block", "tx", "save_staking", "spend_staking",
               "save_unbonding", "spend_unbonding", "confirmed_info", "fatal"}
    /\ height \in Nat /\ txIdx \in Nat /\ inIdx \in Nat
    /\ overflow \in BOOLEAN
    /\ stakingEvents \subseteq [tx : Txs, overflow : BOOLEAN]
    /\ unbondingEvents \subseteq [staking : Txs, unbonding : Txs]
    /\ withdrawEvents \subseteq Txs
    /\ confirmedInfoEvents \subseteq [height : Nat, tvl : Nat]
    /\ crashes \in 0..MaxCrashes

\* A valid staking tx t at height h is stored, and published as stored.
StakingDone(t, h) ==
    ParsesAsStaking(t, ParamsAt[h]) /\ ValidStaking(t, ParamsAt[h]) =>
        /\ stakingTxs[t] # Nil
        /\ [tx |-> t, overflow |-> stakingTxs[t].overflow] \in stakingEvents

\* Input i of t, which spends a stored staking tx, has been dealt with: a valid
\* unbonding tx is stored and published, a withdrawal is published.
SpendDone(t, i) ==
    LET s == TxData[t].ins[i].tx
    IN  IF UnlocksUnbonding(t, s)
        THEN ValidUnbonding(t, s) =>
                /\ unbondingTxs[t] = s
                /\ [staking |-> s, unbonding |-> t] \in unbondingEvents
        ELSE UnlocksTimelock(t, i) => s \in withdrawEvents

\* Input i of t, which spends a stored unbonding tx, has been dealt with.
WithdrawDone(t, i) ==
    UnlocksTimelock(t, i) =>
        unbondingTxs[TxData[t].ins[i].tx] \in withdrawEvents

\* Transaction t of a block at height h has left every trace it should.
FullyProcessed(t, h) ==
    /\ StakingDone(t, h)
    /\ \A i \in SpentStakingInputs(t) : SpendDone(t, i)
    /\ \A i \in SpentUnbondingInputs(t) : WithdrawDone(t, i)

\* A height is saved as processed only when every transaction of every block
\* from the base height up to it has been stored and published, whatever
\* crashes and start heights came before.
NothingMissed ==
    lastProcessedHeight # Nil =>
        \A h \in BaseHeight..lastProcessedHeight :
            \A i \in 1..Len(chain[h]) : FullyProcessed(chain[h][i], h)

\* A stored transaction has been published with what is stored: the event is
\* pushed before the transaction is saved.
StoredIsPublished ==
    /\ \A t \in Txs : stakingTxs[t] # Nil =>
          [tx |-> t, overflow |-> stakingTxs[t].overflow] \in stakingEvents
    /\ \A t \in Txs : unbondingTxs[t] # Nil =>
          [staking |-> unbondingTxs[t], unbonding |-> t] \in unbondingEvents

\* Events of the same staking tx, repeated because of crashes or replays, never
\* disagree on whether it is overflow.
OverflowIsFinal ==
    \A e, f \in stakingEvents : e.tx = f.tx => e.overflow = f.overflow

\* The indexer never dies of an error of its own store or parameters:
\* ErrNegativeTvl, ErrTransactionNotFound, ErrCorruptedStateDb, no parameters.
NoFatalError == pc # "fatal"

\* The confirmed TVL in the database is the value of the stored active staking
\* txs without a stored unbonding tx, at every step of the processing.
TvlIsActiveStake == GetConfirmedTvl = ActiveStake

\* A staking tx that this step stores is classified by the cap in force at its
\* height and the TVL of this very moment.
ClassifiedNow ==
    \A t \in Txs :
        stakingTxs[t] = Nil /\ stakingTxs'[t] # Nil =>
            LET p == ParamsAt[stakingTxs'[t].height]
            IN  stakingTxs'[t].overflow <=>
                    IF p.capHeight # 0 THEN stakingTxs'[t].height > p.capHeight
                                       ELSE GetConfirmedTvl >= p.cap

\* A staking tx is stored as active exactly when, at that moment, the cap in
\* force at its height is not used up: no step between the check in isOverflow
\* and the write can make the check stale.
ClassifiedByCap == [][ClassifiedNow]_vars

\* The TVL exceeds a staking cap by less than one stake: it is below the cap
\* plus the maximal staking amount of some version in use (a version with a cap
\* height bounds nothing).
TvlBounded ==
    GetConfirmedTvl # 0 =>
        \E h \in Heights :
            /\ ParamsAt[h] # Nil
            /\ \/ ParamsAt[h].capHeight # 0
               \/ GetConfirmedTvl < ParamsAt[h].cap + ParamsAt[h].maxAmount

\* "a staking cap value, which defines the maximum amount of Bitcoin stake the
\* system considers active at any moment" (doc/staking.md).
\* The code does not keep it (README, "Deviations without a run").
TvlWithinCap ==
    lastProcessedHeight # Nil =>
        LET p == ParamsAt[lastProcessedHeight]
        IN  p.capHeight = 0 => GetConfirmedTvl <= p.cap

\* "push the events first then save ... due to the assumption that the consumer
\* can handle duplicate events" (addStakingTransaction): a height saved as
\* processed has its ConfirmedInfoEvent, or its push is the next step.
ConfirmedInfoPushed ==
    lastProcessedHeight # Nil /\ pc # "confirmed_info" =>
        \A h \in BaseHeight..lastProcessedHeight :
            \E e \in confirmedInfoEvents : e.height = h

\* "the Bitcoin history can be replayed in order to reach the same state
\* conclusions" (doc/staking.md): the ConfirmedInfoEvents of a height agree on
\* its TVL.
\* The code does not keep it (README, "Deviations without a run").
ConfirmedInfoReplayable ==
    \A e, f \in confirmedInfoEvents : e.height = f.height => e.tvl = f.tvl

\* An indexer that stays up processes the whole confirmed chain.
ChainProcessed ==
    <>[](lastProcessedHeight = Len(chain) \/ pc \in {"down", "fatal"})
=============================================================================
