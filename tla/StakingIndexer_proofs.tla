----------------------- MODULE StakingIndexer_proofs -----------------------
(***************************************************************************)
(* Theorems about StakingIndexer, for every chain, every set of            *)
(* transactions and parameters, and any number of crashes.  The inductive  *)
(* invariant is TypeOK, ControlOK (where the indexer is in the chain) and  *)
(* PendingOK (what holds between the push of an event and the write to the *)
(* database that follows it).                                              *)
(***************************************************************************)
EXTENDS StakingIndexer, TLAPS

\* The indexer is inside HandleConfirmedBlock.
InBlock == {"tx", "save_staking", "spend_staking", "save_unbonding",
            "spend_unbonding", "confirmed_info"}

\* The indexer is handling a transaction.
InTx == {"save_staking", "spend_staking", "save_unbonding", "spend_unbonding"}

\* The position in the chain is a real one.
ControlOK ==
    /\ chain \in Chains
    /\ pc = "block" => height >= BaseHeight
    /\ pc \in InBlock => height \in BaseHeight..Len(chain)
    /\ pc = "tx" => txIdx >= 1
    /\ pc \in InTx => txIdx \in 1..Len(chain[height])
    /\ pc = "save_unbonding" => inIdx \in 1..Len(TxData[tx].ins)

\* A staking transaction about to be saved has been published with its
\* classification, which is the stored one, or else the one the store gives now.
PendingStaking ==
    pc = "save_staking" =>
        /\ ParsesAsStaking(tx, params)
        /\ [tx |-> tx, overflow |-> overflow] \in stakingEvents
        /\ stakingTxs[tx] = Nil => /\ ValidStaking(tx, params)
                                   /\ overflow = IsOverflow(height, params)

\* An unbonding transaction about to be saved has been published.
PendingUnbonding ==
    pc = "save_unbonding" =>
        [staking |-> TxData[tx].ins[inIdx].tx, unbonding |-> tx]
            \in unbondingEvents

Inv == TypeOK /\ ControlOK /\ PendingStaking /\ PendingUnbonding

----------------------------------------------------------------------------
(* The constants and the current position.                                 *)

\* The types of the scalar constants.
LEMMA ConstantFacts ==
    /\ MaxCrashes \in Nat
    /\ BaseHeight \in Nat \ {0}
    /\ StartHeightFlags \subseteq Nat
BY IndexerAssumption, StoreAssumption

\* The confirmed chain has transactions in its blocks and valid heights.
LEMMA ChainFacts ==
    ASSUME NEW c \in Chains
    PROVE  /\ c \in Seq(Seq(Txs))
           /\ \A h \in 1..Len(c) : h \in Heights
BY Zenon, ChainsAssumption

\* From the base height on there are parameters (getVersionedParams).
LEMMA ParamsFacts ==
    ASSUME NEW h \in Heights, h >= BaseHeight
    PROVE  ParamsAt[h] \in Params /\ ParamsAt[h] # Nil
<1>1. BaseHeight \in Nat /\ h \in Nat
  BY IndexerAssumption, StoreAssumption
<1>2. ~(h < BaseHeight)
  BY <1>1
<1>3. ParamsAt[h] \in Params \cup {Nil} /\ (ParamsAt[h] = Nil <=> h < BaseHeight)
  BY IndexerAssumption
<1> QED
  BY <1>2, <1>3

\* The fields of a transaction.
LEMMA TxFacts ==
    ASSUME NEW t \in Txs
    PROVE  /\ TxData[t].ins \in Seq(Inputs)
           /\ TxData[t].staking \in StakingData \cup {Nil}
           /\ \A i \in 1..Len(TxData[t].ins) : TxData[t].ins[i].tx \in Txs
<1>1. TxData[t] \in Transactions
  BY IndexerAssumption
<1>2. TxData[t].ins \in Seq(Inputs)
  BY <1>1 DEF Transactions
<1>3. \A i \in 1..Len(TxData[t].ins) : TxData[t].ins[i] \in Inputs
  BY <1>2
<1>4. \A i \in 1..Len(TxData[t].ins) : TxData[t].ins[i].tx \in Txs
  BY <1>3 DEF Inputs
<1> QED
  BY <1>1, <1>2, <1>4 DEF Transactions

\* Inside a block its height is a height with parameters.
LEMMA BlockPosition ==
    ASSUME TypeOK, ControlOK, pc \in InBlock
    PROVE  /\ height \in Heights /\ height \in 1..Len(chain)
           /\ height >= BaseHeight
           /\ params \in Params
           /\ chain[height] \in Seq(Txs)
<1>1. chain \in Seq(Seq(Txs)) /\ \A h \in 1..Len(chain) : h \in Heights
  BY ChainFacts DEF ControlOK
<1>2. BaseHeight \in Nat \ {0}
  BY IndexerAssumption, StoreAssumption
<1>3. height \in 1..Len(chain) /\ height >= BaseHeight
  BY <1>1, <1>2 DEF ControlOK
<1>4. height \in Heights
  BY <1>1, <1>3
<1>5. params \in Params
  BY <1>3, <1>4, ParamsFacts DEF params
<1>6. chain[height] \in Seq(Txs)
  BY <1>1, <1>3
<1> QED
  BY <1>3, <1>4, <1>5, <1>6

\* While a transaction is handled, tx is a transaction.
LEMMA TxPosition ==
    ASSUME TypeOK, ControlOK, pc \in InBlock, txIdx \in 1..Len(chain[height])
    PROVE  tx \in Txs
BY BlockPosition DEF tx

----------------------------------------------------------------------------
(* The invariant holds initially and every action keeps it.                *)

\* A fresh database and no process: the invariant holds.
LEMMA InitInv == Init => Inv
<1> SUFFICES ASSUME Init PROVE Inv
  OBVIOUS
<1>1. chain \in Seq(Seq(Txs))
  BY ChainFacts DEF Init
<1>2. TypeOK
  <2>1. overflow \in BOOLEAN
    BY Zenon DEF Init
  <2>2. StoreTypeOK
    BY DEF Init, StoreInit, StoreTypeOK
  <2> QED
    BY <1>1, <2>1, <2>2, ConstantFacts DEF Init, TypeOK
<1> QED
  BY <1>2 DEF Init, Inv, ControlOK, PendingStaking, PendingUnbonding, InBlock,
              InTx

\* Start with a valid height preserves the invariant.
LEMMA StartInv == Inv /\ Start => Inv'
<1> SUFFICES ASSUME Inv, Start PROVE Inv'
  OBVIOUS
<1> USE DEF Inv
<1>1. PICK h \in StartHeightFlags \cup {GetStartHeight} :
          ValidStartHeight(h) /\ height' = h
  BY DEF Start
<1>2. h \in Nat /\ h >= BaseHeight
  <2>1. h >= BaseHeight
    BY <1>1 DEF ValidStartHeight, GetLastProcessedHeight
  <2>2. GetStartHeight \in Nat
    BY IndexerAssumption, StoreAssumption
       DEF GetStartHeight, GetLastProcessedHeight, TypeOK, StoreTypeOK
  <2> QED
    BY <2>1, <2>2, IndexerAssumption
<1>3. TypeOK'
  BY <1>1, <1>2 DEF Start, TypeOK, StoreTypeOK, storeVars, events
<1>4. ControlOK'
  BY <1>1, <1>2 DEF Start, ControlOK, InBlock, InTx
<1> QED
  BY <1>3, <1>4 DEF Start, PendingStaking, PendingUnbonding

\* A crash loses only what the process held in memory.
LEMMA CrashInv == Inv /\ Crash => Inv'
<1> SUFFICES ASSUME Inv, Crash PROVE Inv'
  OBVIOUS
<1> USE DEF Inv
<1>1. TypeOK'
  <2>1. overflow' \in BOOLEAN
    BY Zenon DEF Crash
  <2> QED
    BY <2>1, ConstantFacts
       DEF Crash, TypeOK, StoreTypeOK, storeVars, events
<1>2. ControlOK'
  BY DEF Crash, ControlOK, InBlock, InTx
<1> QED
  BY <1>1, <1>2 DEF Crash, PendingStaking, PendingUnbonding

\* Taking a confirmed block, or rejecting it, preserves the invariant.
LEMMA ReceiveBlockInv == Inv /\ ReceiveBlock => Inv'
<1> SUFFICES ASSUME Inv, ReceiveBlock PROVE Inv'
  OBVIOUS
<1> USE DEF Inv
<1>1. TypeOK'
  BY DEF ReceiveBlock, TypeOK, StoreTypeOK, storeVars, events
<1>2. height \in BaseHeight..Len(chain)
  <2>1. BaseHeight \in Nat
    BY IndexerAssumption, StoreAssumption
  <2> QED
    BY <2>1 DEF ReceiveBlock, ControlOK, TypeOK
<1>3. ControlOK'
  BY <1>2 DEF ReceiveBlock, ControlOK, InBlock, InTx
<1> QED
  BY <1>1, <1>3 DEF ReceiveBlock, PendingStaking, PendingUnbonding

\* Parsing, classifying and pushing a staking tx preserves the invariant.
LEMMA ProcessStakingTxInv == Inv /\ ProcessStakingTx => Inv'
<1> SUFFICES ASSUME Inv, ProcessStakingTx PROVE Inv'
  OBVIOUS
<1> USE DEF Inv
<1>1. /\ pc \in InBlock
      /\ txIdx \in 1..Len(chain[height])
      /\ height \in BaseHeight..Len(chain)
  <2>1. pc \in InBlock
    BY DEF ProcessStakingTx, InBlock
  <2>2. chain[height] \in Seq(Txs)
    BY <2>1, BlockPosition
  <2> QED
    BY <2>1, <2>2 DEF ProcessStakingTx, ControlOK, TypeOK
<1>2. tx \in Txs
  BY <1>1, TxPosition
<1>3. OverflowOf(tx, height, params) \in BOOLEAN
  <2>1. stakingTxs[tx] # Nil => stakingTxs[tx].overflow \in BOOLEAN
    BY <1>2 DEF TypeOK, StoreTypeOK, StakingTransaction
  <2>2. IsOverflow(height, params) \in BOOLEAN
    <3>1. CASE params.capHeight # 0
      <4>1. IsOverflow(height, params) = (height > params.capHeight)
        BY <3>1 DEF IsOverflow
      <4> QED
        BY <4>1
    <3>2. CASE params.capHeight = 0
      <4>1. IsOverflow(height, params) = (GetConfirmedTvl >= params.cap)
        BY <3>2 DEF IsOverflow
      <4> QED
        BY <4>1
    <3> QED
      BY <3>1, <3>2
  <2> QED
    BY <2>1, <2>2 DEF OverflowOf, GetStakingTransaction
<1>4. TypeOK'
  BY SMTT(30), <1>2, <1>3
     DEF ProcessStakingTx, TypeOK, StoreTypeOK, storeVars
<1>5. ControlOK'
  BY SMTT(30), <1>1 DEF ProcessStakingTx, ControlOK, InBlock, InTx, tx
<1>6. PendingStaking'
  BY Zenon
     DEF ProcessStakingTx, PendingStaking, storeVars, OverflowOf,
         GetStakingTransaction, ParsesAsStaking, ValidStaking, IsOverflow,
         GetConfirmedTvl, tx, params
<1> QED
  BY <1>4, <1>5, <1>6 DEF ProcessStakingTx, PendingUnbonding

\* Inside a transaction tx is one, at a height with parameters.
LEMMA InTxPosition ==
    ASSUME TypeOK, ControlOK, pc \in InTx
    PROVE  /\ tx \in Txs
           /\ height \in Heights
           /\ params \in Params
           /\ pc \in InBlock
           /\ height \in BaseHeight..Len(chain)
           /\ txIdx \in 1..Len(chain[height])
<1>1. pc \in InBlock /\ txIdx \in 1..Len(chain[height])
  BY DEF ControlOK, InTx, InBlock
<1>2. tx \in Txs /\ height \in Heights /\ params \in Params
  BY <1>1, BlockPosition, TxPosition
<1> QED
  BY <1>1, <1>2 DEF ControlOK

\* What AddStakingTransaction is given to store is a proto.StakingTransaction.
LEMMA RecordType ==
    ASSUME TypeOK, ControlOK, PendingStaking, pc = "save_staking"
    PROVE  StakingRecord(tx, height, overflow) \in StakingTransaction
<1>1. tx \in Txs /\ height \in Heights
  BY InTxPosition DEF InTx
<1>2. TxData[tx].staking \in StakingData
  BY <1>1, TxFacts DEF PendingStaking, ParsesAsStaking
<1>3. TxData[tx].staking.idx \in OutIdxs /\ TxData[tx].staking.value \in Values
  BY <1>2 DEF StakingData
<1>4. overflow \in BOOLEAN
  BY DEF TypeOK
<1> QED
  BY <1>1, <1>3, <1>4 DEF StakingRecord, StakingTransaction

\* AddStakingTransaction keeps the types of the store.
LEMMA AddStakingType ==
    ASSUME StoreTypeOK, NEW t \in Txs, NEW st \in StakingTransaction,
           AddStakingTransaction(t, st)
    PROVE  StoreTypeOK'
<1>1. CASE AddStakingError(t) # "none"
  BY <1>1 DEF AddStakingTransaction, IncrementedTvl, StoreTypeOK, storeVars
<1>2. CASE AddStakingError(t) = "none"
  <2>1. stakingTxs' = [stakingTxs EXCEPT ![t] = st]
    BY <1>2 DEF AddStakingTransaction, IncrementedTvl
  <2>2. stakingTxs' \in [Txs -> StakingTransaction \cup {Nil}]
    BY <2>1 DEF StoreTypeOK
  <2>3. st.value \in Nat
    BY Zenon, StoreAssumption DEF StakingTransaction
  <2>4. GetConfirmedTvl \in Nat
    BY DEF GetConfirmedTvl, StoreTypeOK
  <2>5. confirmedTvl' \in Nat \cup {Nil}
    BY <1>2, <2>3, <2>4 DEF AddStakingTransaction, IncrementedTvl, StoreTypeOK
  <2> QED
    BY <1>2, <2>2, <2>5 DEF AddStakingTransaction, IncrementedTvl, StoreTypeOK
<1> QED
  BY <1>1, <1>2

\* AddUnbondingTransaction keeps the types of the store: in particular the TVL
\* never becomes negative (ErrNegativeTvl).
LEMMA AddUnbondingType ==
    ASSUME StoreTypeOK, NEW t \in Txs, NEW s \in Txs,
           AddUnbondingTransaction(t, s)
    PROVE  StoreTypeOK'
<1>1. CASE AddUnbondingError(t, s) # "none"
  BY <1>1 DEF AddUnbondingTransaction, StoreTypeOK, storeVars
<1>2. CASE AddUnbondingError(t, s) = "none"
  <2>1. unbondingTxs' \in [Txs -> Txs \cup {Nil}]
    BY <1>2 DEF AddUnbondingTransaction, StoreTypeOK
  <2>2. stakingTxs[s] # Nil
    BY <1>2 DEF AddUnbondingError, SubtractTvlError
  <2>3. stakingTxs[s].value \in Nat
    BY Zenon, <2>2, StoreAssumption DEF StoreTypeOK, StakingTransaction
  <2>4. CASE stakingTxs[s].overflow
    BY <1>2, <2>1, <2>4 DEF AddUnbondingTransaction, StoreTypeOK
  <2>5. CASE ~stakingTxs[s].overflow
    <3>1. confirmedTvl # Nil /\ ~(stakingTxs[s].value > confirmedTvl)
      BY <1>2, <2>5 DEF AddUnbondingError, SubtractTvlError
    <3>2. confirmedTvl - stakingTxs[s].value \in Nat
      BY <2>3, <3>1 DEF StoreTypeOK
    <3> QED
      BY <1>2, <2>1, <2>5, <3>2 DEF AddUnbondingTransaction, StoreTypeOK
  <2> QED
    BY <2>4, <2>5
<1> QED
  BY <1>1, <1>2

\* AddStakingTransaction stores what was pushed.
LEMMA SaveStakingTxInv == Inv /\ SaveStakingTx => Inv'
<1> SUFFICES ASSUME Inv, SaveStakingTx PROVE Inv'
  OBVIOUS
<1> USE DEF Inv
<1>1. pc = "save_staking" /\ pc \in InTx /\ pc \in InBlock
  BY DEF SaveStakingTx, InTx, InBlock
<1>2. StoreTypeOK'
  BY <1>1, InTxPosition, RecordType, AddStakingType DEF SaveStakingTx, TypeOK
<1>3. TypeOK'
  <2>1. overflow' \in BOOLEAN
    BY Zenon DEF SaveStakingTx
  <2> QED
    BY <1>2, <2>1 DEF SaveStakingTx, TypeOK, events
<1>4. ControlOK'
  BY <1>1 DEF SaveStakingTx, ControlOK, InBlock, InTx
<1> QED
  BY <1>3, <1>4 DEF SaveStakingTx, PendingStaking, PendingUnbonding

\* Handling the spend of a staking output preserves the invariant.
LEMMA HandleSpendingStakingInv == Inv /\ HandleSpendingStaking => Inv'
<1> SUFFICES ASSUME Inv, HandleSpendingStaking PROVE Inv'
  OBVIOUS
<1> USE DEF Inv
<1>1. pc = "spend_staking" /\ pc \in InTx /\ pc \in InBlock
  BY DEF HandleSpendingStaking, ProcessWithdrawTx, InTx, InBlock
<1>2. PICK i \in SpentStakingInputs(tx) :
          /\ inIdx' = i
          /\ \/ /\ pc' = "save_unbonding"
                /\ unbondingEvents' = unbondingEvents \cup
                      {[staking |-> TxData[tx].ins[i].tx, unbonding |-> tx]}
                /\ withdrawEvents' = withdrawEvents
             \/ /\ pc' = pc
                /\ unbondingEvents' = unbondingEvents
                /\ \/ withdrawEvents' = withdrawEvents
                   \/ withdrawEvents' = withdrawEvents \cup {TxData[tx].ins[i].tx}
  BY DEF HandleSpendingStaking, ProcessWithdrawTx
<1>3. tx \in Txs
  BY <1>1, InTxPosition
<1>4. i \in 1..Len(TxData[tx].ins) /\ i \in Nat /\ TxData[tx].ins[i].tx \in Txs
  BY <1>3, TxFacts DEF SpentStakingInputs, GetStakingTransaction
<1>5. UNCHANGED <<storeVars, chain, height, txIdx, overflow, stakingEvents,
                  confirmedInfoEvents, crashes>>
  BY DEF HandleSpendingStaking, ProcessWithdrawTx
<1>6. TypeOK'
  BY SMTT(30), <1>1, <1>2, <1>3, <1>4, <1>5 DEF TypeOK, StoreTypeOK, storeVars
<1>7. ControlOK'
  BY Zenon, <1>1, <1>2, <1>4, <1>5 DEF ControlOK, InBlock, InTx, tx
<1>8. PendingUnbonding'
  BY <1>1, <1>2, <1>5 DEF PendingUnbonding, tx
<1> QED
  BY <1>1, <1>2, <1>6, <1>7, <1>8 DEF PendingStaking

\* AddUnbondingTransaction stores what was pushed.
LEMMA SaveUnbondingTxInv == Inv /\ SaveUnbondingTx => Inv'
<1> SUFFICES ASSUME Inv, SaveUnbondingTx PROVE Inv'
  OBVIOUS
<1> USE DEF Inv
<1>1. pc = "save_unbonding" /\ pc \in InTx /\ pc \in InBlock
  BY DEF SaveUnbondingTx, InTx, InBlock
<1>2. tx \in Txs /\ TxData[tx].ins[inIdx].tx \in Txs
  BY <1>1, InTxPosition, TxFacts DEF ControlOK
<1>3. StoreTypeOK'
  BY <1>2, AddUnbondingType DEF SaveUnbondingTx, TypeOK
<1>4. TypeOK'
  BY SMTT(30), <1>3 DEF SaveUnbondingTx, TypeOK, events
<1>5. ControlOK'
  BY <1>1 DEF SaveUnbondingTx, ControlOK, InBlock, InTx
<1> QED
  BY <1>4, <1>5 DEF SaveUnbondingTx, PendingStaking, PendingUnbonding

\* Moving on to spent unbonding outputs preserves the invariant.
LEMMA SpentStakingDoneInv == Inv /\ SpentStakingDone => Inv'
<1> SUFFICES ASSUME Inv, SpentStakingDone PROVE Inv'
  OBVIOUS
<1> USE DEF Inv
<1>1. TypeOK'
  BY DEF SpentStakingDone, TypeOK, StoreTypeOK, storeVars, events
<1>2. ControlOK'
  BY DEF SpentStakingDone, ControlOK, InBlock, InTx
<1> QED
  BY <1>1, <1>2 DEF SpentStakingDone, PendingStaking, PendingUnbonding

\* Handling the spend of an unbonding output preserves the invariant.
LEMMA HandleSpendingUnbondingInv == Inv /\ HandleSpendingUnbonding => Inv'
<1> SUFFICES ASSUME Inv, HandleSpendingUnbonding PROVE Inv'
  OBVIOUS
<1> USE DEF Inv
<1>1. pc = "spend_unbonding" /\ pc \in InTx /\ pc \in InBlock
  BY SMTT(30) DEF HandleSpendingUnbonding, ProcessWithdrawTx, InTx, InBlock
<1>2. PICK i \in SpentUnbondingInputs(tx) :
          /\ inIdx' = i
          /\ pc' \in {pc, "fatal"}
          /\ \/ withdrawEvents' = withdrawEvents
             \/ withdrawEvents' = withdrawEvents \cup
                                     {unbondingTxs[TxData[tx].ins[i].tx]}
  BY DEF HandleSpendingUnbonding, ProcessWithdrawTx
<1>3. tx \in Txs
  BY <1>1, InTxPosition
<1>4. i \in 1..Len(TxData[tx].ins) /\ i \in Nat
      /\ unbondingTxs[TxData[tx].ins[i].tx] \in Txs
  BY SMTT(30), <1>3, TxFacts
  DEF SpentUnbondingInputs, GetUnbondingTransaction, TypeOK,
                       StoreTypeOK
<1>5. UNCHANGED <<storeVars, chain, height, txIdx, overflow, stakingEvents,
                  unbondingEvents, confirmedInfoEvents, crashes>>
  BY DEF HandleSpendingUnbonding, ProcessWithdrawTx
<1>6. TypeOK'
  BY <1>1, <1>2, <1>4, <1>5 DEF TypeOK, StoreTypeOK, storeVars
<1>7. ControlOK'
  BY <1>1, <1>2, <1>5 DEF ControlOK, InBlock, InTx
<1> QED
  BY SMTT(30), <1>1, <1>2, <1>6, <1>7 DEF PendingStaking, PendingUnbonding

\* Moving on to the next transaction preserves the invariant.
LEMMA SpentUnbondingDoneInv == Inv /\ SpentUnbondingDone => Inv'
<1> SUFFICES ASSUME Inv, SpentUnbondingDone PROVE Inv'
  OBVIOUS
<1> USE DEF Inv
<1>1. TypeOK'
  BY DEF SpentUnbondingDone, TypeOK, StoreTypeOK, storeVars, events
<1>2. ControlOK'
  BY SMTT(30) DEF SpentUnbondingDone, ControlOK, InBlock, InTx, TypeOK
<1> QED
  BY <1>1, <1>2 DEF SpentUnbondingDone, PendingStaking, PendingUnbonding

\* SaveLastProcessedHeight preserves the invariant.
LEMMA SaveHeightInv == Inv /\ SaveHeight => Inv'
<1> SUFFICES ASSUME Inv, SaveHeight PROVE Inv'
  OBVIOUS
<1> USE DEF Inv
<1>1. /\ pc = "tx" /\ pc \in InBlock
      /\ height \in Heights /\ height \in 1..Len(chain)
      /\ height >= BaseHeight
  BY BlockPosition DEF SaveHeight, InBlock
<1>2. TypeOK'
  BY SMTT(30), <1>1
  DEF SaveHeight, SaveLastProcessedHeight, TypeOK, StoreTypeOK, events
<1>3. ControlOK'
  BY <1>1, ConstantFacts DEF SaveHeight, ControlOK, InBlock, InTx
<1> QED
  BY <1>2, <1>3 DEF SaveHeight, PendingStaking, PendingUnbonding

\* Pushing the confirmed info preserves the invariant.
LEMMA PushConfirmedInfoInv == Inv /\ PushConfirmedInfo => Inv'
<1> SUFFICES ASSUME Inv, PushConfirmedInfo PROVE Inv'
  OBVIOUS
<1> USE DEF Inv
<1>1. /\ pc = "confirmed_info" /\ pc \in InBlock
      /\ height \in Nat /\ height >= BaseHeight
  BY BlockPosition DEF PushConfirmedInfo, InBlock, TypeOK
<1>2. GetConfirmedTvl \in Nat
  BY DEF GetConfirmedTvl, TypeOK, StoreTypeOK
<1>3. TypeOK'
  BY <1>1, <1>2 DEF PushConfirmedInfo, TypeOK, StoreTypeOK, storeVars
<1>4. ControlOK'
  BY <1>1, ConstantFacts DEF PushConfirmedInfo, ControlOK, InBlock, InTx
<1> QED
  BY <1>3, <1>4 DEF PushConfirmedInfo, PendingStaking, PendingUnbonding

\* The record of a staking tx holds its height and its overflow flag.
LEMMA RecordFields ==
    ASSUME NEW t, NEW h, NEW o
    PROVE  StakingRecord(t, h, o).height = h /\ StakingRecord(t, h, o).overflow = o
BY DEF StakingRecord

\* Every step keeps the invariant.
LEMMA NextInv == Inv /\ [Next]_vars => Inv'
<1> SUFFICES ASSUME Inv, [Next]_vars PROVE Inv'
  OBVIOUS
<1>1. CASE UNCHANGED vars
  <2>1. UNCHANGED <<stakingTxs, unbondingTxs, confirmedTvl,
                    lastProcessedHeight, chain, pc, height, txIdx, inIdx,
                    overflow, stakingEvents, unbondingEvents, withdrawEvents,
                    confirmedInfoEvents, crashes>>
    BY <1>1 DEF vars, storeVars, events
  <2>2. TypeOK'
    BY SMTT(30), <2>1 DEF Inv, TypeOK, StoreTypeOK
  <2>3. ControlOK' /\ PendingUnbonding'
    BY SMTT(30), <2>1 DEF Inv, ControlOK, PendingUnbonding, tx
  <2>4. PendingStaking'
    BY <2>1 DEF Inv, PendingStaking, tx, params, IsOverflow, GetConfirmedTvl
  <2> QED
    BY <2>2, <2>3, <2>4 DEF Inv
<1>2. CASE Next
  BY <1>2, StartInv, CrashInv, ReceiveBlockInv, ProcessStakingTxInv,
     SaveStakingTxInv, HandleSpendingStakingInv, SaveUnbondingTxInv,
     SpentStakingDoneInv, HandleSpendingUnbondingInv, SpentUnbondingDoneInv,
     SaveHeightInv, PushConfirmedInfoInv
     DEF Next, HandleBlocks
<1> QED
  BY <1>1, <1>2

\* The inductive invariant holds in every state.
THEOREM IndexerInv == Spec => []Inv
BY InitInv, NextInv, PTL DEF Spec

----------------------------------------------------------------------------
(* The theorems.                                                           *)

\* Type correctness: in particular the confirmed TVL is never negative and the
\* last processed height is always the height of a block.
THEOREM IndexerTypeOK == Spec => []TypeOK
<1>1. Inv => TypeOK
  BY DEF Inv
<1> QED
  BY <1>1, IndexerInv, PTL

\* Nothing that has been pushed to a queue is taken back.
LEMMA EventsGrow ==
    ASSUME [Next]_vars
    PROVE  /\ stakingEvents \subseteq stakingEvents'
           /\ unbondingEvents \subseteq unbondingEvents'
           /\ withdrawEvents \subseteq withdrawEvents'
BY Zenon DEF Next, HandleBlocks, Start, Crash, ReceiveBlock, ProcessStakingTx,
       SaveStakingTx, HandleSpendingStaking, ProcessWithdrawTx,
       SaveUnbondingTx, SpentStakingDone, HandleSpendingUnbonding,
       SpentUnbondingDone, SaveHeight, PushConfirmedInfo, events, vars

\* Only two actions write transactions or the TVL.
LEMMA StoreSteps ==
    ASSUME [Next]_vars
    PROVE  \/ SaveStakingTx
           \/ SaveUnbondingTx
           \/ UNCHANGED <<stakingTxs, unbondingTxs, confirmedTvl>>
BY Zenon DEF Next, HandleBlocks, Start, Crash, ReceiveBlock, ProcessStakingTx,
       HandleSpendingStaking, ProcessWithdrawTx, SpentStakingDone,
       HandleSpendingUnbonding, SpentUnbondingDone, SaveHeight,
       SaveLastProcessedHeight, PushConfirmedInfo, storeVars, vars

\* SaveStakingTx stores at most tx, with its published classification.
LEMMA SaveStakingEffect ==
    ASSUME Inv, SaveStakingTx
    PROVE  \/ UNCHANGED <<stakingTxs, unbondingTxs, confirmedTvl>>
           \/ /\ tx \in Txs
              /\ stakingTxs[tx] = Nil
              /\ stakingTxs' = [stakingTxs EXCEPT ![tx] =
                                   StakingRecord(tx, height, overflow)]
              /\ confirmedTvl' = IF overflow THEN confirmedTvl
                                 ELSE GetConfirmedTvl + TxData[tx].staking.value
              /\ unbondingTxs' = unbondingTxs
<1>1. tx \in Txs
  BY InTxPosition DEF Inv, SaveStakingTx, InTx
<1>2. CASE AddStakingError(tx) # "none"
  BY SMTT(30), <1>2
  DEF SaveStakingTx, AddStakingTransaction, IncrementedTvl, storeVars
<1>3. CASE AddStakingError(tx) = "none"
  BY Zenon, <1>1, <1>3
     DEF SaveStakingTx, AddStakingTransaction, IncrementedTvl, AddStakingError,
         StakingRecord
<1> QED
  BY Zenon, <1>2, <1>3

\* SaveUnbondingTx stores at most tx and never increases the TVL.
LEMMA SaveUnbondingEffect ==
    ASSUME Inv, SaveUnbondingTx
    PROVE  \/ UNCHANGED <<stakingTxs, unbondingTxs, confirmedTvl>>
           \/ /\ tx \in Txs
              /\ TxData[tx].ins[inIdx].tx \in Txs
              /\ unbondingTxs[tx] = Nil
              /\ unbondingTxs' = [unbondingTxs EXCEPT ![tx] =
                                     TxData[tx].ins[inIdx].tx]
              /\ stakingTxs' = stakingTxs
              /\ GetConfirmedTvl' <= GetConfirmedTvl
<1> DEFINE s == TxData[tx].ins[inIdx].tx
<1>1. tx \in Txs /\ s \in Txs
  BY InTxPosition, TxFacts DEF Inv, ControlOK, SaveUnbondingTx, InTx
<1>2. CASE AddUnbondingError(tx, s) # "none"
  BY SMTT(30), <1>2 DEF SaveUnbondingTx, AddUnbondingTransaction, storeVars
<1>3. CASE AddUnbondingError(tx, s) = "none"
  <2>1. stakingTxs[s] # Nil /\ unbondingTxs[tx] = Nil
    BY <1>3 DEF AddUnbondingError, SubtractTvlError
  <2>2. stakingTxs[s].value \in Nat
    BY Zenon, <1>1, <2>1, StoreAssumption
       DEF Inv, TypeOK, StoreTypeOK, StakingTransaction
  <2>3. /\ unbondingTxs' = [unbondingTxs EXCEPT ![tx] = s]
        /\ stakingTxs' = stakingTxs
        /\ confirmedTvl' = IF stakingTxs[s].overflow THEN confirmedTvl
                           ELSE confirmedTvl - stakingTxs[s].value
    BY Zenon, <1>3 DEF SaveUnbondingTx, AddUnbondingTransaction
  <2>4. ~stakingTxs[s].overflow =>
            confirmedTvl # Nil /\ ~(stakingTxs[s].value > confirmedTvl)
    BY <1>3 DEF AddUnbondingError, SubtractTvlError
  <2>5. GetConfirmedTvl' <= GetConfirmedTvl
    <3>1. confirmedTvl \in Nat \cup {Nil} /\ GetConfirmedTvl \in Nat
      BY DEF Inv, TypeOK, StoreTypeOK, GetConfirmedTvl
    <3>2. CASE stakingTxs[s].overflow
      <4>1. GetConfirmedTvl' = GetConfirmedTvl
        BY <2>3, <3>2 DEF GetConfirmedTvl
      <4> QED
        BY <3>1, <4>1
    <3>3. CASE ~stakingTxs[s].overflow
      <4>1. /\ confirmedTvl \in Nat
            /\ confirmedTvl' = confirmedTvl - stakingTxs[s].value
            /\ ~(stakingTxs[s].value > confirmedTvl)
        BY ZenonT(30), <2>3, <2>4, <3>1, <3>3
      <4>2. confirmedTvl' \in Nat /\ confirmedTvl' <= confirmedTvl
        <5>1. \A c, v \in Nat : ~(v > c) => c - v \in Nat /\ c - v <= c
          BY SMTT(30)
        <5> QED
          BY <2>2, <4>1, <5>1
      <4>3. GetConfirmedTvl = confirmedTvl /\ GetConfirmedTvl' = confirmedTvl'
        BY Zenon, <4>1, <4>2, NilAssumption DEF GetConfirmedTvl
      <4> QED
        BY <4>2, <4>3
    <3> QED
      BY <3>2, <3>3
  <2> QED
    BY SMTT(30), <1>1, <2>1, <2>3, <2>5
<1> QED
  BY <1>2, <1>3

\* Every stored transaction has been published as stored, whenever the process
\* dies: addStakingTransaction and ProcessUnbondingTx push before they save.
THEOREM IndexerStoredIsPublished == Spec => []StoredIsPublished
<1>1. Init => StoredIsPublished
  BY DEF Init, StoreInit, StoredIsPublished
<1>2. Inv /\ StoredIsPublished /\ [Next]_vars => StoredIsPublished'
  <2> SUFFICES ASSUME Inv, StoredIsPublished, [Next]_vars
               PROVE  StoredIsPublished'
    OBVIOUS
  <2>1. CASE UNCHANGED <<stakingTxs, unbondingTxs, confirmedTvl>>
    BY SMTT(30), <2>1, EventsGrow DEF StoredIsPublished
  <2>2. CASE SaveStakingTx
    <3>1. [tx |-> tx, overflow |-> overflow] \in stakingEvents
      BY <2>2 DEF Inv, PendingStaking, SaveStakingTx
    <3>2. StakingRecord(tx, height, overflow).overflow = overflow
      BY DEF StakingRecord
    <3> QED
      BY SMTT(30), <2>1, <2>2, <3>1, <3>2, EventsGrow, SaveStakingEffect
         DEF StoredIsPublished, Inv, TypeOK, StoreTypeOK
  <2>3. CASE SaveUnbondingTx
    <3>1. [staking |-> TxData[tx].ins[inIdx].tx, unbonding |-> tx]
              \in unbondingEvents
      BY <2>3 DEF Inv, PendingUnbonding, SaveUnbondingTx
    <3> QED
      BY Zenon, <2>1, <2>3, <3>1, EventsGrow, SaveUnbondingEffect
         DEF StoredIsPublished, Inv, TypeOK, StoreTypeOK
  <2> QED
    BY <2>1, <2>2, <2>3, StoreSteps
<1> QED
  BY <1>1, <1>2, IndexerInv, PTL DEF Spec

\* A staking transaction is stored as active exactly when the cap at its height
\* is not used up at that moment: the check of isOverflow is never stale, for no
\* other action changes the TVL between the check and the write.
THEOREM IndexerClassifiedByCap == Spec => ClassifiedByCap
<1>1. Inv /\ [Next]_vars => [ClassifiedNow]_vars
  <2> SUFFICES ASSUME Inv, [Next]_vars PROVE ClassifiedNow
    OBVIOUS
  <2>1. CASE stakingTxs' = stakingTxs
    BY <2>1 DEF ClassifiedNow
  <2>2. CASE SaveStakingTx /\ stakingTxs' # stakingTxs
    <3>1. /\ tx \in Txs
          /\ stakingTxs[tx] = Nil
          /\ stakingTxs' = [stakingTxs EXCEPT ![tx] =
                               StakingRecord(tx, height, overflow)]
      BY <2>2, SaveStakingEffect
    <3>2. overflow = IsOverflow(height, params)
      BY SMTT(30), <2>2, <3>1 DEF SaveStakingTx, Inv, PendingStaking
    <3> SUFFICES ASSUME NEW t \in Txs, stakingTxs[t] = Nil, stakingTxs'[t] # Nil
                 PROVE  LET p == ParamsAt[stakingTxs'[t].height]
                        IN  stakingTxs'[t].overflow <=>
                                IF p.capHeight # 0
                                THEN stakingTxs'[t].height > p.capHeight
                                ELSE GetConfirmedTvl >= p.cap
      BY DEF ClassifiedNow
    <3>3. stakingTxs'[t] = StakingRecord(tx, height, overflow)
      BY <3>1 DEF Inv, TypeOK, StoreTypeOK
    <3>4. stakingTxs'[t].height = height /\ stakingTxs'[t].overflow = overflow
      BY <3>3, RecordFields
    <3> QED
      BY Zenon, <3>2, <3>4 DEF IsOverflow, params
  <2> QED
    BY <2>1, <2>2, StoreSteps, SaveUnbondingEffect
<1> QED
  BY <1>1, IndexerInv, PTL DEF Spec, ClassifiedByCap

\* The TVL never exceeds a staking cap by a whole stake, whatever crashes,
\* replays and changes of version the indexer goes through.
THEOREM IndexerTvlBounded == Spec => []TvlBounded
<1>1. Init => TvlBounded
  BY DEF Init, StoreInit, TvlBounded, GetConfirmedTvl
<1>2. Inv /\ TvlBounded /\ [Next]_vars => TvlBounded'
  <2> SUFFICES ASSUME Inv, TvlBounded, [Next]_vars, GetConfirmedTvl' # 0
               PROVE  \E h \in Heights :
                          /\ ParamsAt[h] # Nil
                          /\ \/ ParamsAt[h].capHeight # 0
                             \/ GetConfirmedTvl' < ParamsAt[h].cap
                                                     + ParamsAt[h].maxAmount
    BY DEF TvlBounded, GetConfirmedTvl
  <2> USE DEF Inv
  <2>1. Inv'
    BY NextInv
  <2>2. GetConfirmedTvl \in Nat /\ GetConfirmedTvl' \in Nat
    BY <2>1 DEF TypeOK, StoreTypeOK, GetConfirmedTvl
  <2>3. CASE GetConfirmedTvl' <= GetConfirmedTvl
    <3>1. PICK h \in Heights :
              /\ ParamsAt[h] # Nil
              /\ \/ ParamsAt[h].capHeight # 0
                 \/ GetConfirmedTvl < ParamsAt[h].cap + ParamsAt[h].maxAmount
      BY <2>2, <2>3 DEF TvlBounded
    <3>2. ParamsAt[h].cap \in Nat /\ ParamsAt[h].maxAmount \in Nat
      BY <3>1, IndexerAssumption DEF Params
    <3> QED
      BY <2>2, <2>3, <3>1, <3>2
  <2>4. CASE SaveStakingTx /\ ~(GetConfirmedTvl' <= GetConfirmedTvl)
    <3>1. /\ stakingTxs[tx] = Nil
          /\ confirmedTvl' = IF overflow THEN confirmedTvl
                             ELSE GetConfirmedTvl + TxData[tx].staking.value
      <4>1. confirmedTvl' # confirmedTvl
        <5>1. ASSUME confirmedTvl' = confirmedTvl
              PROVE  GetConfirmedTvl' = GetConfirmedTvl
          BY <5>1 DEF GetConfirmedTvl
        <5> QED
          BY <2>2, <2>4, <5>1
      <4> QED
        BY <2>4, <4>1, SaveStakingEffect
    <3>2. ~overflow
      BY SMTT(30), <2>2, <2>4, <3>1 DEF GetConfirmedTvl
    <3>3. /\ pc = "save_staking"
          /\ ~IsOverflow(height, params)
          /\ TxData[tx].staking.value <= params.maxAmount
          /\ TxData[tx].staking # Nil
      BY <2>4, <3>1, <3>2
         DEF SaveStakingTx, PendingStaking, ValidStaking, ParsesAsStaking
    <3>4. tx \in Txs /\ height \in Heights /\ params \in Params
      BY <3>3, InTxPosition DEF InTx
    <3>5. TxData[tx].staking.value \in Nat
      BY Zenon, <3>3, <3>4, TxFacts, StoreAssumption DEF StakingData
    <3>6. GetConfirmedTvl' = GetConfirmedTvl + TxData[tx].staking.value
      <4>1. confirmedTvl' = GetConfirmedTvl + TxData[tx].staking.value
        BY <3>1, <3>2
      <4>2. confirmedTvl' # Nil
        BY <2>2, <3>5, <4>1, NilAssumption
      <4> QED
        BY <4>1, <4>2 DEF GetConfirmedTvl
    <3>7. params.cap \in Nat /\ params.maxAmount \in Nat
      BY <3>4 DEF Params
    <3>8. params.capHeight # 0 \/ GetConfirmedTvl < params.cap
      BY <2>2, <3>3, <3>7 DEF IsOverflow
    <3>9. params # Nil
      <4>1. height >= BaseHeight
        BY <3>3, BlockPosition DEF InBlock
      <4> QED
        BY <3>4, <4>1, ParamsFacts DEF params
    <3>10. params.capHeight # 0 \/ GetConfirmedTvl' < params.cap + params.maxAmount
      BY <2>2, <3>3, <3>5, <3>6, <3>7, <3>8
    <3> QED
      BY <3>4, <3>9, <3>10 DEF params
  <2>5. CASE UNCHANGED confirmedTvl
    <3>1. GetConfirmedTvl' = GetConfirmedTvl
      BY <2>5 DEF GetConfirmedTvl
    <3> QED
      BY <2>2, <2>3, <3>1
  <2> QED
    BY Zenon, <2>3, <2>4, <2>5, StoreSteps, SaveUnbondingEffect
<1> QED
  BY <1>1, <1>2, IndexerInv, PTL DEF Spec

----------------------------------------------------------------------------
(* The stored unbonding transactions.                                      *)

\* Transaction t is on the confirmed chain.
OfChain(t) ==
    \E h \in 1..Len(chain) : \E i \in 1..Len(chain[h]) : chain[h][i] = t

\* Transaction t unlocks the unbonding path of the stored staking tx s.
Unlocks(t, s) == stakingTxs[s] # Nil /\ UnlocksUnbonding(t, s)

\* A stored unbonding tx is on the chain and spends its staking output, and so
\* does the one that is about to be stored.
UnbondedOK ==
    /\ \A t \in Txs : unbondingTxs[t] # Nil =>
          OfChain(t) /\ Unlocks(t, unbondingTxs[t])
    /\ pc = "save_unbonding" => Unlocks(tx, TxData[tx].ins[inIdx].tx)

\* Two transactions of the chain that unbond the same staking output are one.
LEMMA UnbondedOnce ==
    ASSUME Inv, NEW t \in Txs, NEW u \in Txs, NEW s \in Txs,
           OfChain(t), OfChain(u), Unlocks(t, s), Unlocks(u, s)
    PROVE  t = u
<1>1. PICK g \in 1..Len(chain) : \E i \in 1..Len(chain[g]) : chain[g][i] = t
  BY DEF OfChain
<1>2. PICK i \in 1..Len(chain[g]) : chain[g][i] = t
  BY <1>1
<1>3. PICK h \in 1..Len(chain) : \E j \in 1..Len(chain[h]) : chain[h][j] = u
  BY DEF OfChain
<1>4. PICK j \in 1..Len(chain[h]) : chain[h][j] = u
  BY <1>3
<1>5. Len(TxData[t].ins) = 1 /\ Len(TxData[u].ins) = 1
  BY IndexerAssumption DEF Unlocks, UnlocksUnbonding
<1>6. SameOutpoint(TxData[t].ins[1], TxData[u].ins[1])
  BY DEF Unlocks, UnlocksUnbonding, SameOutpoint
<1>7. \A k \in 1..Len(TxData[t].ins), l \in 1..Len(TxData[u].ins) :
          SameOutpoint(TxData[t].ins[k], TxData[u].ins[l]) => g = h /\ i = j
  <2>1. chain \in Chains
    BY DEF Inv, ControlOK
  <2>2. \A k \in 1..Len(TxData[chain[g][i]].ins),
           l \in 1..Len(TxData[chain[h][j]].ins) :
          SameOutpoint(TxData[chain[g][i]].ins[k], TxData[chain[h][j]].ins[l])
              => g = h /\ i = j /\ k = l
    BY <2>1, SpentOnceAssumption, Zenon
  <2> QED
    BY <1>2, <1>4, <2>2
<1>8. g = h /\ i = j
  BY <1>5, <1>6, <1>7
<1> QED
  BY <1>2, <1>4, <1>8

\* A stored staking tx is not changed, so what unlocks it still does.
LEMMA UnlocksStays ==
    ASSUME Inv, [Next]_vars, NEW t, NEW s \in Txs, Unlocks(t, s)
    PROVE  Unlocks(t, s)'
<1>1. stakingTxs'[s] = stakingTxs[s]
  <2>1. CASE stakingTxs' = stakingTxs
    BY <2>1
  <2>2. CASE SaveStakingTx /\ stakingTxs' # stakingTxs
    <3>1. /\ tx \in Txs
          /\ stakingTxs[tx] = Nil
          /\ stakingTxs' = [stakingTxs EXCEPT ![tx] =
                               StakingRecord(tx, height, overflow)]
      BY <2>2, SaveStakingEffect
    <3>2. s # tx
      BY <3>1 DEF Unlocks
    <3> QED
      BY <3>1, <3>2 DEF Inv, TypeOK, StoreTypeOK
  <2> QED
    BY <2>1, <2>2, StoreSteps, SaveUnbondingEffect
<1> QED
  BY <1>1 DEF Unlocks, UnlocksUnbonding

\* The chain is that of the initial state.
LEMMA ChainConstant == [Next]_vars => chain' = chain
BY Zenon DEF Next, HandleBlocks, Start, Crash, ReceiveBlock,
   ProcessStakingTx, SaveStakingTx, HandleSpendingStaking, SaveUnbondingTx,
   SpentStakingDone, HandleSpendingUnbonding, ProcessWithdrawTx,
   SpentUnbondingDone, SaveHeight, PushConfirmedInfo, vars

----------------------------------------------------------------------------
(* Positions of the chain.                                                 *)

\* Position (h, i), a height and an index, comes before position (g, j).
Before(h, i, g, j) == h < g \/ (h = g /\ i < j)

\* Every transaction before position (g, j) is fully processed.
AllBefore(g, j) ==
    \A h \in BaseHeight..Len(chain) : \A i \in 1..Len(chain[h]) :
        Before(h, i, g, j) => FullyProcessed(chain[h][i], h)

\* A position before (g, j) holds a transaction that neither is nor spends the
\* transaction at a position that is not before (g, j).
LEMMA Causality ==
    ASSUME chain \in Chains,
           NEW h \in 1..Len(chain), NEW i \in 1..Len(chain[h]),
           NEW k \in 1..Len(chain), NEW l \in 1..Len(chain[k]),
           NEW g \in Int, NEW j \in Int,
           Before(h, i, g, j), ~Before(k, l, g, j)
    PROVE  /\ chain[h][i] # chain[k][l]
           /\ \A n \in 1..Len(TxData[chain[h][i]].ins) :
                 TxData[chain[h][i]].ins[n].tx # chain[k][l]
<1>1. /\ chain[h][i] = chain[k][l] => h = k /\ i = l
      /\ \A n \in 1..Len(TxData[chain[h][i]].ins) :
            TxData[chain[h][i]].ins[n].tx = chain[k][l] =>
                k < h \/ (k = h /\ l < i)
  BY Zenon, ChainsAssumption
<1>2. ~(h = k /\ i = l)
  BY DEF Before
<1>3. ~(k < h \/ (k = h /\ l < i))
  BY DEF Before
<1> QED
  BY <1>1, <1>2, <1>3

\* The transaction at a position of the chain.
LEMMA AtPosition ==
    ASSUME chain \in Chains,
           NEW h \in BaseHeight..Len(chain), NEW i \in 1..Len(chain[h])
    PROVE  h \in 1..Len(chain) /\ chain[h][i] \in Txs
<1>1. chain \in Seq(Seq(Txs))
  BY ChainFacts
<1>2. h \in 1..Len(chain)
  BY <1>1, ConstantFacts
<1>3. chain[h] \in Seq(Txs)
  BY <1>1, <1>2
<1> QED
  BY <1>2, <1>3

\* A transaction has one position.
LEMMA SamePosition ==
    ASSUME chain \in Chains,
           NEW h \in BaseHeight..Len(chain), NEW i \in 1..Len(chain[h]),
           NEW k \in BaseHeight..Len(chain), NEW n \in 1..Len(chain[k]),
           chain[h][i] = chain[k][n]
    PROVE  h = k /\ i = n
<1>1. h \in 1..Len(chain) /\ k \in 1..Len(chain)
  BY AtPosition
<1>2. h \in Int /\ i \in Int /\ k \in Int /\ n \in Int
  BY <1>1
<1>3. ~Before(h, i, h, i) /\ ~Before(k, n, k, n)
  BY <1>2 DEF Before
<1>4. ~Before(h, i, k, n) /\ ~Before(k, n, h, i)
  BY <1>1, <1>2, <1>3, Causality
<1> QED
  BY <1>2, <1>4 DEF Before

----------------------------------------------------------------------------
(* What is stored, and where it comes from.                                *)

\* Transaction t at height h is a valid staking tx.
IsStake(t, h) ==
    ParsesAsStaking(t, ParamsAt[h]) /\ ValidStaking(t, ParamsAt[h])

\* A stored staking tx is a valid one of the chain, stored with its height.
StakesOK ==
    \A t \in Txs : stakingTxs[t] # Nil =>
        \E h \in BaseHeight..Len(chain) : \E i \in 1..Len(chain[h]) :
            /\ chain[h][i] = t
            /\ IsStake(t, h)
            /\ stakingTxs[t] = StakingRecord(t, h, stakingTxs[t].overflow)

\* A stored unbonding tx is a valid one.
ValidOK ==
    \A u \in Txs : unbondingTxs[u] # Nil => ValidUnbonding(u, unbondingTxs[u])

SourceOK == StakesOK /\ ValidOK

\* Nothing above height n is stored.
NothingAbove(n) ==
    \A h \in BaseHeight..Len(chain) : \A i \in 1..Len(chain[h]) :
        h > n => /\ stakingTxs[chain[h][i]] = Nil
                 /\ unbondingTxs[chain[h][i]] = Nil

\* The database holds the blocks up to height n, and nothing else.
Settled(n) == AllBefore(n + 1, 1) /\ NothingAbove(n)

\* The record of a stored staking tx is never changed.
LEMMA StoredStays ==
    ASSUME Inv, [Next]_vars, NEW s \in Txs, stakingTxs[s] # Nil
    PROVE  stakingTxs'[s] = stakingTxs[s]
<1>1. stakingTxs \in [Txs -> StakingTransaction \cup {Nil}]
  BY DEF Inv, TypeOK, StoreTypeOK
<1>2. CASE SaveStakingTx
  BY <1>1, <1>2, SaveStakingEffect
<1>3. CASE SaveUnbondingTx
  BY <1>3, SaveUnbondingEffect
<1>4. CASE UNCHANGED <<stakingTxs, unbondingTxs, confirmedTvl>>
  BY <1>4
<1> QED
  BY <1>2, <1>3, <1>4, StoreSteps

\* A staking tx that is stored comes from the current position of the chain.
LEMMA StakesStep ==
    ASSUME Inv, StakesOK, [Next]_vars
    PROVE  StakesOK'
<1>1. chain' = chain
  BY ChainConstant
<1>2. ASSUME NEW t \in Txs, stakingTxs[t] # Nil
      PROVE  \E h \in BaseHeight..Len(chain) : \E i \in 1..Len(chain[h]) :
                /\ chain[h][i] = t
                /\ IsStake(t, h)
                /\ stakingTxs'[t] = StakingRecord(t, h, stakingTxs'[t].overflow)
  <2>1. stakingTxs'[t] = stakingTxs[t]
    BY <1>2, StoredStays
  <2> QED
    BY <1>2, <2>1, Zenon DEF StakesOK
<1>3. ASSUME NEW t \in Txs, stakingTxs[t] = Nil, stakingTxs'[t] # Nil
      PROVE  \E h \in BaseHeight..Len(chain) : \E i \in 1..Len(chain[h]) :
                /\ chain[h][i] = t
                /\ IsStake(t, h)
                /\ stakingTxs'[t] = StakingRecord(t, h, stakingTxs'[t].overflow)
  <2>1. stakingTxs \in [Txs -> StakingTransaction \cup {Nil}]
    BY DEF Inv, TypeOK, StoreTypeOK
  <2>2. SaveStakingTx
    BY <1>3, SaveUnbondingEffect, StoreSteps
  <2>3. /\ stakingTxs[tx] = Nil /\ t = tx
        /\ stakingTxs'[t] = StakingRecord(tx, height, overflow)
    BY <1>3, <2>1, <2>2, SaveStakingEffect
  <2>4. pc = "save_staking" /\ pc \in InTx
    BY <2>2 DEF SaveStakingTx, InTx
  <2>5. height \in BaseHeight..Len(chain) /\ txIdx \in 1..Len(chain[height])
    BY <2>4, InTxPosition DEF Inv
  <2>6. IsStake(tx, height)
    BY <2>3, <2>4 DEF Inv, PendingStaking, IsStake, params
  <2>7. stakingTxs'[t].overflow = overflow
    BY <2>3, RecordFields
  <2>8. chain[height][txIdx] = t
    BY <2>3 DEF tx
  <2> QED
    BY <2>3, <2>5, <2>6, <2>7, <2>8
<1>4. ASSUME NEW t \in Txs, stakingTxs'[t] # Nil
      PROVE  \E h \in BaseHeight..Len(chain') : \E i \in 1..Len(chain'[h]) :
                /\ chain'[h][i] = t
                /\ IsStake(t, h)
                /\ stakingTxs'[t] = StakingRecord(t, h, stakingTxs'[t].overflow)
  BY <1>1, <1>2, <1>3, <1>4
<1> QED
  BY <1>4, Zenon DEF StakesOK, IsStake, ParsesAsStaking, ValidStaking,
     StakingRecord
=============================================================================
