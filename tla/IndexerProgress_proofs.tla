----------------------- MODULE IndexerProgress_proofs -----------------------
(***************************************************************************)
(* How far StakingIndexer has come, for every chain and any number of      *)
(* crashes and replays.                                                    *)
(*                                                                         *)
(* NothingMissed: the transactions before the indexer's position are fully *)
(* processed (ProgressOK), and this stays true of any prefix of the chain, *)
(* because a transaction that is newly stored lies behind the prefix, and  *)
(* the transactions of the prefix spend only what lies before them.        *)
(*                                                                         *)
(* The refinement of StakingLedger: what FullyProcessed says of the        *)
(* database and the queues is Settled of the ledger, so the indexer's      *)
(* position gives every new record its turn; all other steps, replays      *)
(* included, leave the ledger unchanged.                                   *)
(***************************************************************************)
EXTENDS IndexerLedger, StakingIndexer_proofs

\* The part of the chain that has been processed.
ProgressOK ==
    /\ lastProcessedHeight # Nil =>
          /\ lastProcessedHeight \in BaseHeight..Len(chain)
          /\ AllBefore(lastProcessedHeight + 1, 1)
    /\ pc = "block" => AllBefore(height, 1)
    /\ pc \in InBlock => AllBefore(height, txIdx)
    /\ pc = "confirmed_info" => txIdx > Len(chain[height])

\* The part of the current transaction that has been processed.
CurrentOK ==
    /\ pc \in {"tx", "save_staking"} => inIdx = 0
    /\ pc \in {"spend_staking", "save_unbonding", "spend_unbonding"} =>
          StakingDone(tx, height)
    /\ pc = "spend_staking" =>
          \A i \in SpentStakingInputs(tx) : i <= inIdx => SpendDone(tx, i)
    /\ pc = "save_unbonding" =>
          /\ inIdx \in SpentStakingInputs(tx)
          /\ UnlocksUnbonding(tx, TxData[tx].ins[inIdx].tx)
          /\ ValidUnbonding(tx, TxData[tx].ins[inIdx].tx)
          /\ \A i \in SpentStakingInputs(tx) : i < inIdx => SpendDone(tx, i)
    /\ pc = "spend_unbonding" =>
          /\ \A i \in SpentStakingInputs(tx) : SpendDone(tx, i)
          /\ \A i \in SpentUnbondingInputs(tx) : i <= inIdx => WithdrawDone(tx, i)

\* A stored unbonding transaction points to the transaction it spends.
LinkOK ==
    \A t \in Txs : unbondingTxs[t] # Nil =>
        unbondingTxs[t] = TxData[t].ins[1].tx

Progress == LinkOK /\ CurrentOK /\ ProgressOK

----------------------------------------------------------------------------
(* What has been processed stays processed.                                *)

\* The transactions and the queues only grow: what a step must not touch for
\* what is done about a transaction to stay done.
Grows == /\ stakingEvents \subseteq stakingEvents'
         /\ unbondingEvents \subseteq unbondingEvents'
         /\ withdrawEvents \subseteq withdrawEvents'

\* A step that does not write transactions.
LEMMA SameStore ==
    ASSUME UNCHANGED <<stakingTxs, unbondingTxs>>, Grows, NEW t, NEW h
    PROVE  /\ SpentStakingInputs(t)' = SpentStakingInputs(t)
           /\ SpentUnbondingInputs(t)' = SpentUnbondingInputs(t)
           /\ StakingDone(t, h) => StakingDone(t, h)'
           /\ \A i : SpendDone(t, i) => SpendDone(t, i)'
           /\ \A i : WithdrawDone(t, i) => WithdrawDone(t, i)'
           /\ FullyProcessed(t, h) => FullyProcessed(t, h)'
<1>1. SpentStakingInputs(t)' = SpentStakingInputs(t)
  BY DEF SpentStakingInputs, GetStakingTransaction
<1>2. SpentUnbondingInputs(t)' = SpentUnbondingInputs(t)
  BY DEF SpentUnbondingInputs, GetUnbondingTransaction
<1>3. StakingDone(t, h) => StakingDone(t, h)'
  BY DEF StakingDone, Grows, ParsesAsStaking, ValidStaking
<1>4. \A i : SpendDone(t, i) => SpendDone(t, i)'
  BY Zenon
  DEF SpendDone, Grows, UnlocksUnbonding, ValidUnbonding, UnlocksTimelock
<1>5. \A i : WithdrawDone(t, i) => WithdrawDone(t, i)'
  BY DEF WithdrawDone, Grows, UnlocksTimelock
<1> QED
  BY <1>1, <1>2, <1>3, <1>4, <1>5 DEF FullyProcessed

\* A step that stores a staking transaction u which t does not spend.
LEMMA NewStaking ==
    ASSUME StoreTypeOK, Grows, NEW t \in Txs, NEW h, NEW u \in Txs, NEW r,
           stakingTxs' = [stakingTxs EXCEPT ![u] = r],
           unbondingTxs' = unbondingTxs,
           t # u,
           \A i \in 1..Len(TxData[t].ins) : TxData[t].ins[i].tx # u,
           FullyProcessed(t, h)
    PROVE  FullyProcessed(t, h)'
<1>1. \A x \in Txs : x # u => stakingTxs'[x] = stakingTxs[x]
  BY DEF StoreTypeOK
<1>2. StakingDone(t, h)'
  BY Zenon, <1>1
  DEF FullyProcessed, StakingDone, Grows, ParsesAsStaking, ValidStaking
<1>3. \A i \in 1..Len(TxData[t].ins) :
          stakingTxs'[TxData[t].ins[i].tx] = stakingTxs[TxData[t].ins[i].tx]
  BY SMTT(30), <1>1, TxFacts
<1>4. SpentStakingInputs(t)' = SpentStakingInputs(t)
  BY <1>3 DEF SpentStakingInputs, GetStakingTransaction
<1>5. ASSUME NEW i \in SpentStakingInputs(t) PROVE SpendDone(t, i)'
  <2>1. stakingTxs'[TxData[t].ins[i].tx] = stakingTxs[TxData[t].ins[i].tx]
    BY <1>3 DEF SpentStakingInputs, GetStakingTransaction
  <2>2. SpendDone(t, i)
    BY DEF FullyProcessed
  <2> QED
    BY ZenonT(30), <2>1, <2>2
       DEF SpendDone, Grows, UnlocksUnbonding, ValidUnbonding, UnlocksTimelock
<1>6. SpentUnbondingInputs(t)' = SpentUnbondingInputs(t)
  BY Zenon DEF SpentUnbondingInputs, GetUnbondingTransaction
<1>7. ASSUME NEW i \in SpentUnbondingInputs(t) PROVE WithdrawDone(t, i)'
  BY DEF FullyProcessed, WithdrawDone, Grows, UnlocksTimelock
<1> QED
  BY <1>2, <1>4, <1>5, <1>6, <1>7 DEF FullyProcessed

\* A step that stores an unbonding transaction u which t does not spend.
LEMMA NewUnbonding ==
    ASSUME StoreTypeOK, Grows, NEW t \in Txs, NEW h, NEW u \in Txs, NEW s,
           unbondingTxs' = [unbondingTxs EXCEPT ![u] = s],
           stakingTxs' = stakingTxs,
           t # u,
           \A i \in 1..Len(TxData[t].ins) : TxData[t].ins[i].tx # u,
           FullyProcessed(t, h)
    PROVE  FullyProcessed(t, h)'
<1>1. \A x \in Txs : x # u => unbondingTxs'[x] = unbondingTxs[x]
  BY Zenon DEF StoreTypeOK
<1>2. StakingDone(t, h)'
  BY DEF FullyProcessed, StakingDone, Grows, ParsesAsStaking, ValidStaking
<1>3. \A i \in 1..Len(TxData[t].ins) :
          unbondingTxs'[TxData[t].ins[i].tx] = unbondingTxs[TxData[t].ins[i].tx]
  BY <1>1, TxFacts
<1>4. SpentStakingInputs(t)' = SpentStakingInputs(t)
  BY DEF SpentStakingInputs, GetStakingTransaction
<1>5. ASSUME NEW i \in SpentStakingInputs(t) PROVE SpendDone(t, i)'
  <2>1. SpendDone(t, i) /\ unbondingTxs'[t] = unbondingTxs[t]
    BY Zenon, <1>1 DEF FullyProcessed
  <2> QED
    BY Zenon, <2>1
       DEF SpendDone, Grows, UnlocksUnbonding, ValidUnbonding, UnlocksTimelock
<1>6. SpentUnbondingInputs(t)' = SpentUnbondingInputs(t)
  BY Zenon, <1>3 DEF SpentUnbondingInputs, GetUnbondingTransaction
<1>7. ASSUME NEW i \in SpentUnbondingInputs(t) PROVE WithdrawDone(t, i)'
  <2>1. unbondingTxs'[TxData[t].ins[i].tx] = unbondingTxs[TxData[t].ins[i].tx]
    BY <1>3 DEF SpentUnbondingInputs, GetUnbondingTransaction
  <2> QED
    BY Zenon, <2>1 DEF FullyProcessed, WithdrawDone, Grows, UnlocksTimelock
<1> QED
  BY <1>2, <1>4, <1>5, <1>6, <1>7 DEF FullyProcessed

\* A transaction that is newly stored is not among those fully processed.
LEMMA NewIsNotBefore ==
    ASSUME Inv, CurrentOK, NEW g \in Int, NEW j \in Int, AllBefore(g, j),
           \/ SaveStakingTx /\ stakingTxs' # stakingTxs
           \/ SaveUnbondingTx /\ unbondingTxs' # unbondingTxs
    PROVE  ~Before(height, txIdx, g, j)
<1>1. pc \in InTx
  BY DEF SaveStakingTx, SaveUnbondingTx, InTx
<1>2. /\ height \in BaseHeight..Len(chain)
      /\ txIdx \in 1..Len(chain[height])
      /\ tx \in Txs
  BY <1>1, InTxPosition DEF Inv
<1> SUFFICES ASSUME Before(height, txIdx, g, j) PROVE FALSE
  OBVIOUS
<1>3. FullyProcessed(tx, height)
  BY <1>2 DEF AllBefore, tx
<1>4. CASE SaveStakingTx /\ stakingTxs' # stakingTxs
  <2>1. stakingTxs[tx] = Nil
    BY <1>4, SaveStakingEffect
  <2>2. ParsesAsStaking(tx, params) /\ ValidStaking(tx, params)
    BY <1>4, <2>1 DEF SaveStakingTx, Inv, PendingStaking
  <2> QED
    BY <1>3, <2>1, <2>2 DEF FullyProcessed, StakingDone, params
<1>5. CASE SaveUnbondingTx /\ unbondingTxs' # unbondingTxs
  <2>1. /\ unbondingTxs[tx] = Nil
        /\ TxData[tx].ins[inIdx].tx \in Txs
    BY Zenon, <1>5, SaveUnbondingEffect
  <2>2. /\ inIdx \in SpentStakingInputs(tx)
        /\ UnlocksUnbonding(tx, TxData[tx].ins[inIdx].tx)
        /\ ValidUnbonding(tx, TxData[tx].ins[inIdx].tx)
    BY <1>5 DEF SaveUnbondingTx, CurrentOK
  <2>3. unbondingTxs[tx] = TxData[tx].ins[inIdx].tx
    BY Zenon, <1>3, <2>2 DEF FullyProcessed, SpendDone
  <2> QED
    BY <2>1, <2>3, StoreAssumption
<1> QED
  BY <1>4, <1>5

\* Any prefix of the chain that is fully processed stays so.
LEMMA PrefixStable ==
    ASSUME Inv, CurrentOK, [Next]_vars,
           NEW g \in Int, NEW j \in Int, AllBefore(g, j)
    PROVE  AllBefore(g, j)'
<1>1. chain' = chain /\ chain \in Chains
  BY Zenon DEF Inv, ControlOK, Next, HandleBlocks, Start, Crash, ReceiveBlock,
         ProcessStakingTx, SaveStakingTx, HandleSpendingStaking,
         ProcessWithdrawTx, SaveUnbondingTx, SpentStakingDone,
         HandleSpendingUnbonding, SpentUnbondingDone, SaveHeight,
         PushConfirmedInfo, vars
<1>2. Grows
  BY EventsGrow DEF Grows
<1> SUFFICES ASSUME NEW h \in BaseHeight..Len(chain),
                    NEW i \in 1..Len(chain[h]), Before(h, i, g, j)
             PROVE  FullyProcessed(chain[h][i], h)'
  BY <1>1 DEF AllBefore, Before
<1>3. h \in 1..Len(chain)
  BY <1>1, AtPosition
<1> PICK t \in Txs : t = chain[h][i]
  BY <1>1, AtPosition
<1>4. FullyProcessed(t, h)
  BY DEF AllBefore
<1> SUFFICES FullyProcessed(t, h)'
  BY Zenon, <1>1
<1>5. ASSUME \/ SaveStakingTx /\ stakingTxs' # stakingTxs
             \/ SaveUnbondingTx /\ unbondingTxs' # unbondingTxs
      PROVE  /\ t # tx
             /\ \A n \in 1..Len(TxData[t].ins) : TxData[t].ins[n].tx # tx
  <2>1. /\ height \in BaseHeight..Len(chain)
        /\ txIdx \in 1..Len(chain[height])
    BY <1>5, InTxPosition DEF Inv, SaveStakingTx, SaveUnbondingTx, InTx
  <2>2. height \in 1..Len(chain)
    BY Zenon, <1>1, <2>1, AtPosition
  <2>3. ~Before(height, txIdx, g, j)
    BY <1>5, NewIsNotBefore
  <2>4. /\ chain[h][i] # chain[height][txIdx]
        /\ \A n \in 1..Len(TxData[chain[h][i]].ins) :
              TxData[chain[h][i]].ins[n].tx # chain[height][txIdx]
    BY Zenon, <1>1, <1>3, <2>1, <2>2, <2>3, Causality
  <2> QED
    BY <2>4 DEF tx
<1>6. CASE UNCHANGED <<stakingTxs, unbondingTxs>>
  BY <1>2, <1>4, <1>6, SameStore
<1>7. CASE SaveStakingTx /\ stakingTxs' # stakingTxs
  <2>1. /\ tx \in Txs
        /\ stakingTxs' = [stakingTxs EXCEPT ![tx] =
                             StakingRecord(tx, height, overflow)]
        /\ unbondingTxs' = unbondingTxs
    BY <1>7, SaveStakingEffect
  <2> QED
    BY Zenon, <1>2, <1>3, <1>4, <1>5, <1>7, <2>1, NewStaking DEF Inv, TypeOK
<1>8. CASE SaveUnbondingTx /\ unbondingTxs' # unbondingTxs
  <2>1. /\ tx \in Txs
        /\ unbondingTxs' = [unbondingTxs EXCEPT ![tx] =
                               TxData[tx].ins[inIdx].tx]
        /\ stakingTxs' = stakingTxs
    BY <1>8, SaveUnbondingEffect
  <2> QED
    BY Zenon, <1>2, <1>3, <1>4, <1>5, <1>8, <2>1, NewUnbonding DEF Inv, TypeOK
<1> QED
  BY <1>6, <1>7, <1>8, StoreSteps, SaveStakingEffect, SaveUnbondingEffect

----------------------------------------------------------------------------
(* The current transaction.                                                *)

\* A stored unbonding transaction keeps pointing to what it spends.
LEMMA LinkStep == Inv /\ LinkOK /\ CurrentOK /\ [Next]_vars => LinkOK'
<1> SUFFICES ASSUME Inv, LinkOK, CurrentOK, [Next]_vars PROVE LinkOK'
  OBVIOUS
<1>1. CASE unbondingTxs' = unbondingTxs
  BY Zenon, <1>1 DEF LinkOK
<1>2. CASE SaveUnbondingTx /\ unbondingTxs' # unbondingTxs
  <2>1. /\ tx \in Txs
        /\ unbondingTxs' = [unbondingTxs EXCEPT ![tx] =
                               TxData[tx].ins[inIdx].tx]
    BY SMTT(30), <1>2, SaveUnbondingEffect
  <2>2. TxData[tx].ins[inIdx].tx = TxData[tx].ins[1].tx
    BY <1>2 DEF CurrentOK, SaveUnbondingTx, UnlocksUnbonding
  <2> QED
    BY Zenon, <2>1, <2>2 DEF LinkOK, Inv, TypeOK, StoreTypeOK
<1> QED
  BY <1>1, <1>2, StoreSteps, SaveStakingEffect

\* ProcessStakingTx leaves nothing to do about a transaction it does not add.
LEMMA CurrentProcessStaking ==
    ASSUME Inv, CurrentOK, ProcessStakingTx
    PROVE  CurrentOK'
<1>1. /\ UNCHANGED <<stakingTxs, unbondingTxs, chain, height, txIdx>>
      /\ pc' \in {"spend_staking", "save_staking"}
      /\ inIdx' = 0
  BY DEF ProcessStakingTx, storeVars, CurrentOK
<1>2. CASE pc' = "save_staking"
  BY ZenonT(30), <1>1, <1>2 DEF CurrentOK
<1>3. CASE pc' = "spend_staking"
  <2>1. PICK t, h : t = tx /\ h = height
    OBVIOUS
  <2>2. tx' = t /\ height' = h
    BY <1>1, <2>1 DEF tx
  <2>3. ~(ParsesAsStaking(t, ParamsAt[h]) /\ ValidStaking(t, ParamsAt[h]))
    BY Zenon, <1>3, <2>1 DEF ProcessStakingTx, params
  <2>4. StakingDone(t, h)'
    BY Zenon, <2>3 DEF StakingDone, ParsesAsStaking, ValidStaking
  <2>5. \A i \in SpentStakingInputs(t)' : ~(i <= 0)
    BY DEF SpentStakingInputs, GetStakingTransaction
  <2> QED
    BY <1>1, <1>3, <2>2, <2>4, <2>5 DEF CurrentOK
<1> QED
  BY Zenon, <1>1, <1>2, <1>3

\* addStakingTransaction leaves the transaction stored and published.
LEMMA CurrentSaveStaking ==
    ASSUME Inv, StoredIsPublished', CurrentOK, SaveStakingTx
    PROVE  CurrentOK'
<1>1. /\ UNCHANGED <<chain, height, txIdx>>
      /\ pc' = "spend_staking"
      /\ inIdx' = 0
      /\ pc \in InTx
  BY Zenon DEF SaveStakingTx, CurrentOK, InTx
<1>2. PICK t \in Txs : t = tx
  BY <1>1, InTxPosition DEF Inv
<1>3. PICK h : h = height
  OBVIOUS
<1>4. tx' = t /\ height' = h
  BY <1>1, <1>2, <1>3 DEF tx
<1>5. stakingTxs'[t] # Nil
  <2>1. CASE AddStakingError(tx) # "none"
    BY <1>2, <2>1
       DEF SaveStakingTx, AddStakingTransaction, IncrementedTvl,
           AddStakingError, storeVars
  <2>2. CASE AddStakingError(tx) = "none"
    <3>1. stakingTxs' = [stakingTxs EXCEPT ![tx] =
                            StakingRecord(tx, height, overflow)]
      BY <2>2 DEF SaveStakingTx, AddStakingTransaction, IncrementedTvl
    <3>2. StakingRecord(tx, height, overflow) # Nil
      BY RecordType, NilAssumption DEF Inv, SaveStakingTx
    <3> QED
      BY <1>2, <3>1, <3>2 DEF Inv, TypeOK, StoreTypeOK
  <2> QED
    BY <2>1, <2>2
<1>6. StakingDone(t, h)'
  BY Zenon, <1>5 DEF StakingDone, StoredIsPublished
<1>7. \A i \in SpentStakingInputs(t)' : ~(i <= 0)
  BY DEF SpentStakingInputs, GetStakingTransaction
<1> QED
  BY <1>1, <1>4, <1>6, <1>7 DEF CurrentOK

\* Inputs are counted by integers.
LEMMA InputsAreInts ==
    ASSUME NEW t
    PROVE  /\ \A k \in SpentStakingInputs(t) : k \in Int
           /\ \A k \in SpentUnbondingInputs(t) : k \in Int
<1>1. \A k \in 1..Len(TxData[t].ins) : k \in Int
  OBVIOUS
<1> QED
  BY <1>1, Zenon DEF SpentStakingInputs, GetStakingTransaction,
                     SpentUnbondingInputs, GetUnbondingTransaction

\* An input that spends a stored staking transaction: all inputs up to it are
\* dealt with, or it is about to be stored as an unbonding transaction.
LEMMA CurrentSpendingStaking ==
    ASSUME Inv, CurrentOK, Grows, HandleSpendingStaking
    PROVE  CurrentOK'
<1>1. /\ UNCHANGED <<stakingTxs, unbondingTxs, chain, height, txIdx>>
      /\ pc = "spend_staking"
  BY DEF HandleSpendingStaking, ProcessWithdrawTx, storeVars
<1>2. PICK t \in Txs : t = tx
  BY <1>1, InTxPosition DEF Inv, InTx
<1>3. PICK h : h = height
  OBVIOUS
<1>4. tx' = t /\ height' = h
  BY Zenon, <1>1, <1>2, <1>3 DEF tx
<1>5. /\ StakingDone(t, h)'
      /\ SpentStakingInputs(t)' = SpentStakingInputs(t)
      /\ \A i : SpendDone(t, i) => SpendDone(t, i)'
  <2>1. StakingDone(t, h)
    BY Zenon, <1>1, <1>2, <1>3 DEF CurrentOK
  <2> QED
    BY Zenon, <1>1, <2>1, SameStore
<1>6. PICK i \in SpentStakingInputs(t) :
          /\ IsNextInput(i, SpentStakingInputs(t))
          /\ inIdx' = i
          /\ \/ /\ pc' = "save_unbonding"
                /\ UnlocksUnbonding(t, TxData[t].ins[i].tx)
                /\ ValidUnbonding(t, TxData[t].ins[i].tx)
             \/ /\ pc' = "spend_staking"
                /\ UnlocksUnbonding(t, TxData[t].ins[i].tx)
                /\ ~ValidUnbonding(t, TxData[t].ins[i].tx)
             \/ /\ pc' = "spend_staking"
                /\ ~UnlocksUnbonding(t, TxData[t].ins[i].tx)
                /\ UnlocksTimelock(t, i) =>
                       TxData[t].ins[i].tx \in withdrawEvents'
  BY <1>1, <1>2 DEF HandleSpendingStaking, ProcessWithdrawTx
<1>7. inIdx \in Int /\ \A k \in SpentStakingInputs(t) : k \in Int
  BY InputsAreInts DEF Inv, TypeOK
<1>8. \A k \in SpentStakingInputs(t) : k < i => SpendDone(t, k)'
  <2>1. \A k \in SpentStakingInputs(t) : k < i => k <= inIdx
    BY <1>6, <1>7 DEF IsNextInput
  <2> QED
    BY Zenon, <1>1, <1>2, <1>5, <2>1 DEF CurrentOK
<1>9. CASE pc' = "save_unbonding"
  <2>1. /\ UnlocksUnbonding(t, TxData[t].ins[i].tx)'
        /\ ValidUnbonding(t, TxData[t].ins[i].tx)'
    BY Zenon, <1>1, <1>6, <1>9 DEF UnlocksUnbonding, ValidUnbonding
  <2> QED
    BY Zenon, <1>4, <1>5, <1>6, <1>8, <1>9, <2>1 DEF CurrentOK
<1>10. CASE pc' = "spend_staking"
  <2>1. SpendDone(t, i)'
    BY Zenon, <1>1, <1>6, <1>10
       DEF SpendDone, UnlocksUnbonding, ValidUnbonding, UnlocksTimelock
  <2>2. \A k \in SpentStakingInputs(t) : k <= i => SpendDone(t, k)'
    BY <1>7, <1>8, <2>1
  <2> QED
    BY Zenon, <1>4, <1>5, <1>6, <1>10, <2>2 DEF CurrentOK
<1> QED
  BY Zenon, <1>6, <1>9, <1>10

\* ProcessUnbondingTx leaves the transaction stored and published, whether this
\* step or an earlier life of the process has stored it.
LEMMA CurrentSaveUnbonding ==
    ASSUME Inv, StoredIsPublished', LinkOK', CurrentOK, Grows, SaveUnbondingTx
    PROVE  CurrentOK'
<1>1. /\ UNCHANGED <<stakingTxs, chain, height, txIdx, inIdx>>
      /\ pc = "save_unbonding"
      /\ pc' \in {"spend_staking", "fatal"}
  BY Zenon DEF SaveUnbondingTx, AddUnbondingTransaction, storeVars
<1>2. CASE pc' = "fatal"
  BY Zenon, <1>2 DEF CurrentOK
<1>3. CASE pc' = "spend_staking"
  <2>1. PICK t \in Txs : t = tx
    BY <1>1, InTxPosition DEF Inv, InTx
  <2>2. PICK h, i : h = height /\ i = inIdx
    OBVIOUS
  <2>3. tx' = t /\ height' = h /\ inIdx' = i
    BY Zenon, <1>1, <2>1, <2>2 DEF tx
  <2>4. /\ i \in SpentStakingInputs(t)
        /\ UnlocksUnbonding(t, TxData[t].ins[i].tx)
        /\ StakingDone(t, h)
        /\ \A k \in SpentStakingInputs(t) : k < i => SpendDone(t, k)
    BY <1>1, <2>1, <2>2 DEF CurrentOK
  <2> DEFINE s == TxData[t].ins[i].tx
  <2>5. s \in Txs /\ s = TxData[t].ins[1].tx
    BY Zenon, <2>4, TxFacts DEF SpentStakingInputs, GetStakingTransaction,
                         UnlocksUnbonding
  <2>6. unbondingTxs'[t] # Nil
    <3>1. AddUnbondingError(t, s) \in {"none", "ErrDuplicateTransaction"}
      BY Zenon, <1>3, <2>1, <2>2 DEF SaveUnbondingTx
    <3>2. CASE AddUnbondingError(t, s) = "none"
      <4>1. unbondingTxs' = [unbondingTxs EXCEPT ![t] = s]
        BY <2>1, <2>2, <3>2 DEF SaveUnbondingTx, AddUnbondingTransaction
      <4> QED
        <5>1. unbondingTxs \in [Txs -> Txs \cup {Nil}]
          BY Zenon DEF Inv, TypeOK, StoreTypeOK
        <5> QED
          BY Zenon, <2>5, <4>1, <5>1, StoreAssumption
    <3>3. CASE AddUnbondingError(t, s) = "ErrDuplicateTransaction"
      <4>1. unbondingTxs' = unbondingTxs
        BY Zenon, <2>1, <2>2, <3>3
           DEF SaveUnbondingTx, AddUnbondingTransaction, storeVars
      <4>2. unbondingTxs[t] # Nil
        BY Zenon, <3>3 DEF AddUnbondingError, SubtractTvlError
      <4> QED
        BY Zenon, <4>1, <4>2
    <3> QED
      BY Zenon, <3>1, <3>2, <3>3
  <2>7. unbondingTxs'[t] = s
    BY Zenon, <2>5, <2>6 DEF LinkOK
  <2>8. [staking |-> s, unbonding |-> t] \in unbondingEvents'
    BY <2>6, <2>7 DEF StoredIsPublished
  <2>9. ASSUME NEW k \in SpentStakingInputs(t), k <= i
        PROVE  SpendDone(t, k)'
    <3>1. CASE UnlocksUnbonding(t, TxData[t].ins[k].tx)'
      <4>1. TxData[t].ins[k].tx = s
        BY Zenon, <2>5, <3>1 DEF UnlocksUnbonding
      <4> QED
        BY Zenon, <2>7, <2>8, <3>1, <4>1 DEF SpendDone
    <3>2. CASE ~UnlocksUnbonding(t, TxData[t].ins[k].tx)'
      <4>1. ~UnlocksUnbonding(t, TxData[t].ins[k].tx)
        BY <1>1, <3>2 DEF UnlocksUnbonding
      <4>2. k < i
        <5>1. k # i
          BY Zenon, <2>4, <4>1
        <5>2. k \in Int /\ i \in Int
          BY Zenon, <2>4, InputsAreInts
        <5> QED
          BY <2>9, <5>1, <5>2
      <4>3. SpendDone(t, k)
        BY <2>4, <4>2
      <4> QED
        BY Zenon, <3>2, <4>1, <4>3 DEF SpendDone, Grows, UnlocksTimelock
    <3> QED
      BY Zenon, <3>1, <3>2
  <2>10. SpentStakingInputs(t)' = SpentStakingInputs(t)
    BY <1>1 DEF SpentStakingInputs, GetStakingTransaction
  <2>11. StakingDone(t, h)'
    BY Zenon, <1>1, <2>4 DEF StakingDone, Grows, ParsesAsStaking, ValidStaking
  <2> QED
    BY Zenon, <1>3, <2>3, <2>9, <2>10, <2>11 DEF CurrentOK
<1> QED
  BY <1>1, <1>2, <1>3

\* When no spent staking transaction is left, all of them are dealt with.
LEMMA CurrentSpentStakingDone ==
    ASSUME Inv, CurrentOK, Grows, SpentStakingDone
    PROVE  CurrentOK'
<1>1. /\ UNCHANGED <<stakingTxs, unbondingTxs, chain, height, txIdx>>
      /\ pc = "spend_staking" /\ pc' = "spend_unbonding" /\ inIdx' = 0
  BY DEF SpentStakingDone, storeVars
<1>2. PICK t, h : t = tx /\ h = height
  OBVIOUS
<1>3. tx' = t /\ height' = h
  BY Zenon, <1>1, <1>2 DEF tx
<1>4. StakingDone(t, h) /\ \A i \in SpentStakingInputs(t) : SpendDone(t, i)
  BY <1>1, <1>2 DEF CurrentOK, SpentStakingDone
<1>5. /\ StakingDone(t, h)'
      /\ \A i \in SpentStakingInputs(t)' : SpendDone(t, i)'
  BY <1>1, <1>4, SameStore
<1>6. \A i \in SpentUnbondingInputs(t)' : ~(i <= 0)
  BY DEF SpentUnbondingInputs, GetUnbondingTransaction
<1> QED
  BY Zenon, <1>1, <1>3, <1>5, <1>6 DEF CurrentOK

\* An input that spends a stored unbonding transaction.
LEMMA CurrentSpendingUnbonding ==
    ASSUME Inv, CurrentOK, Grows, HandleSpendingUnbonding
    PROVE  CurrentOK'
<1>1. /\ UNCHANGED <<stakingTxs, unbondingTxs, chain, height, txIdx>>
      /\ pc = "spend_unbonding" /\ pc' \in {"fatal", "spend_unbonding"}
  BY DEF HandleSpendingUnbonding, ProcessWithdrawTx, storeVars
<1>2. CASE pc' = "fatal"
  BY Zenon, <1>2 DEF CurrentOK
<1>3. CASE pc' = "spend_unbonding"
  <2>1. PICK t, h : t = tx /\ h = height
    OBVIOUS
  <2>2. tx' = t /\ height' = h
    BY Zenon, <1>1, <2>1 DEF tx
  <2>3. /\ StakingDone(t, h)
        /\ \A i \in SpentStakingInputs(t) : SpendDone(t, i)
        /\ \A i \in SpentUnbondingInputs(t) :
              i <= inIdx => WithdrawDone(t, i)
    BY Zenon, <1>1, <2>1 DEF CurrentOK
  <2>4. /\ StakingDone(t, h)'
        /\ \A i \in SpentStakingInputs(t)' : SpendDone(t, i)'
        /\ SpentUnbondingInputs(t)' = SpentUnbondingInputs(t)
        /\ \A i : WithdrawDone(t, i) => WithdrawDone(t, i)'
    BY <1>1, <2>3, SameStore
  <2>5. PICK i \in SpentUnbondingInputs(t) :
            /\ IsNextInput(i, SpentUnbondingInputs(t))
            /\ inIdx' = i
            /\ UnlocksTimelock(t, i) =>
                  unbondingTxs[TxData[t].ins[i].tx] \in withdrawEvents'
    <3>1. PICK i \in SpentUnbondingInputs(t) :
              LET s == unbondingTxs[TxData[t].ins[i].tx]
              IN  /\ IsNextInput(i, SpentUnbondingInputs(t))
                  /\ inIdx' = i
                  /\ pc' = IF stakingTxs[s] = Nil THEN "fatal" ELSE pc
                  /\ withdrawEvents' =
                        IF stakingTxs[s] # Nil /\ UnlocksTimelock(t, i)
                        THEN withdrawEvents \cup {s} ELSE withdrawEvents
      BY Zenon, <2>1 DEF HandleSpendingUnbonding, ProcessWithdrawTx
    <3> QED
      BY Zenon, <1>3, <3>1
  <2>6. inIdx \in Int /\ \A k \in SpentUnbondingInputs(t) : k \in Int
    BY InputsAreInts DEF Inv, TypeOK
  <2>7. \A k \in SpentUnbondingInputs(t) : k <= i => k <= inIdx \/ k = i
    BY <2>5, <2>6 DEF IsNextInput
  <2>8. WithdrawDone(t, i)'
    BY <1>1, <2>5 DEF WithdrawDone, UnlocksTimelock
  <2>9. \A k \in SpentUnbondingInputs(t) : k <= i => WithdrawDone(t, k)'
    BY <2>3, <2>4, <2>7, <2>8
  <2> QED
    BY Zenon, <1>3, <2>2, <2>4, <2>5, <2>9 DEF CurrentOK
<1> QED
  BY SMTT(30), <1>1, <1>2, <1>3

\* Every step keeps track of the current transaction.
LEMMA CurrentStep ==
    ASSUME Inv, StoredIsPublished', LinkOK', CurrentOK, [Next]_vars
    PROVE  CurrentOK'
<1>1. Grows
  BY EventsGrow DEF Grows
<1>2. CASE UNCHANGED vars
  <2>1. /\ UNCHANGED <<stakingTxs, unbondingTxs, chain, height, txIdx, inIdx>>
        /\ pc' = pc
    BY <1>2 DEF vars, storeVars
  <2>2. PICK t, h, i : t = tx /\ h = height /\ i = inIdx
    OBVIOUS
  <2>3. tx' = t /\ height' = h /\ inIdx' = i
    BY <2>1, <2>2 DEF tx
  <2>4. /\ SpentStakingInputs(t)' = SpentStakingInputs(t)
        /\ SpentUnbondingInputs(t)' = SpentUnbondingInputs(t)
        /\ StakingDone(t, h) => StakingDone(t, h)'
        /\ \A k : SpendDone(t, k) => SpendDone(t, k)'
        /\ \A k : WithdrawDone(t, k) => WithdrawDone(t, k)'
    BY <1>1, <2>1, SameStore
  <2>5. /\ UnlocksUnbonding(t, TxData[t].ins[i].tx) =>
              UnlocksUnbonding(t, TxData[t].ins[i].tx)'
        /\ ValidUnbonding(t, TxData[t].ins[i].tx) =>
              ValidUnbonding(t, TxData[t].ins[i].tx)'
    BY Zenon, <2>1 DEF UnlocksUnbonding, ValidUnbonding
  <2> QED
    BY Zenon, <2>1, <2>2, <2>3, <2>4, <2>5 DEF CurrentOK
<1>3. CASE Start \/ Crash \/ ReceiveBlock \/ SpentUnbondingDone \/ SaveHeight
           \/ PushConfirmedInfo
  BY Zenon, <1>3
  DEF Start, Crash, ReceiveBlock, SpentUnbondingDone, SaveHeight,
              PushConfirmedInfo, CurrentOK
<1> QED
  BY <1>1, <1>2, <1>3, CurrentProcessStaking, CurrentSaveStaking,
     CurrentSpendingStaking, CurrentSaveUnbonding, CurrentSpentStakingDone,
     CurrentSpendingUnbonding
     DEF Next, HandleBlocks

----------------------------------------------------------------------------
(* The processed part of the chain.                                        *)

\* A finished block: everything before the next block is processed.
LEMMA BlockDone ==
    ASSUME NEW g \in Int, NEW j \in Int, AllBefore(g, j), chain \in Chains,
           j > Len(chain[g])
    PROVE  AllBefore(g + 1, 1)
<1> SUFFICES ASSUME NEW h \in BaseHeight..Len(chain),
                    NEW i \in 1..Len(chain[h]), Before(h, i, g + 1, 1)
             PROVE  Before(h, i, g, j)
  BY Zenon DEF AllBefore
<1>1. h \in Int /\ i \in Int /\ i >= 1 /\ i <= Len(chain[h])
  <2>1. chain[h] \in Seq(Txs)
    BY ChainFacts, AtPosition
  <2> QED
    BY <2>1, ConstantFacts, ChainFacts
<1>2. h <= g
  BY <1>1 DEF Before
<1>3. h = g => i < j
  BY <1>1
<1> QED
  BY <1>1, <1>2, <1>3 DEF Before

\* A finished transaction.
LEMMA TxDone ==
    ASSUME NEW g \in Int, NEW j \in Int, AllBefore(g, j),
           chain \in Chains, FullyProcessed(chain[g][j], g)
    PROVE  AllBefore(g, j + 1)
<1> SUFFICES ASSUME NEW h \in BaseHeight..Len(chain),
                    NEW i \in 1..Len(chain[h]), Before(h, i, g, j + 1)
             PROVE  Before(h, i, g, j) \/ (h = g /\ i = j)
  BY DEF AllBefore
<1> QED
  BY DEF Before

\* Every step keeps the processed part of the chain processed, and the position
\* of the indexer right behind it or inside it.
LEMMA ProgressStep ==
    ASSUME Inv, Inv', CurrentOK, ProgressOK, [Next]_vars
    PROVE  ProgressOK'
<1>1. chain' = chain /\ chain \in Chains
  BY Zenon DEF Inv, ControlOK, Next, HandleBlocks, Start, Crash, ReceiveBlock,
         ProcessStakingTx, SaveStakingTx, HandleSpendingStaking,
         ProcessWithdrawTx, SaveUnbondingTx, SpentStakingDone,
         HandleSpendingUnbonding, SpentUnbondingDone, SaveHeight,
         PushConfirmedInfo, vars
<1>2. \A g, j \in Int : AllBefore(g, j) => AllBefore(g, j)'
  BY PrefixStable
<1>3. PICK l, h, i : l = lastProcessedHeight /\ h = height /\ i = txIdx
  OBVIOUS
<1>4. h \in Nat /\ i \in Nat /\ l \in Heights \cup {Nil} /\ Heights \subseteq Nat
  BY <1>3, StoreAssumption DEF Inv, TypeOK, StoreTypeOK
<1>5. l # Nil => l \in BaseHeight..Len(chain) /\ AllBefore(l + 1, 1)'
  BY <1>2, <1>3, <1>4 DEF ProgressOK
<1>6. pc = "block" => AllBefore(h, 1)'
  BY <1>2, <1>3, <1>4 DEF ProgressOK
<1>7. pc \in InBlock => AllBefore(h, i)'
  BY <1>2, <1>3, <1>4 DEF ProgressOK
<1>8. CASE /\ UNCHANGED <<lastProcessedHeight, height, txIdx>>
           /\ pc' = pc \/ (pc \in InBlock /\ pc' \in InTx \cup {"fatal"})
  <2>1. lastProcessedHeight' = l /\ height' = h /\ txIdx' = i
    BY <1>3, <1>8
  <2>2. pc' = "block" => AllBefore(h, 1)'
    BY <1>6, <1>8 DEF InTx
  <2>3. pc' \in InBlock => AllBefore(h, i)'
    BY <1>7, <1>8 DEF InTx, InBlock
  <2>4. pc' = "confirmed_info" => txIdx' > Len(chain'[height'])
    BY <1>1, <1>8 DEF InTx, ProgressOK
  <2> QED
    BY <1>1, <1>5, <2>1, <2>2, <2>3, <2>4 DEF ProgressOK
<1>9. CASE Start
  <2>1. PICK n \in Nat : n = height'
    BY DEF Inv, TypeOK
  <2>2. pc' = "block" /\ lastProcessedHeight' = l /\ ValidStartHeight(n)
    BY <1>3, <1>9, <2>1 DEF Start, storeVars
  <2>3. AllBefore(n, 1)'
    <3>1. CASE l = Nil
      <4>1. n = BaseHeight
        BY <1>3, <2>2, <3>1 DEF ValidStartHeight, GetLastProcessedHeight
      <4> QED
        BY <4>1, ConstantFacts, ChainFacts, <1>1 DEF AllBefore, Before
    <3>2. CASE l # Nil
      <4>1. n <= l + 1
        BY <1>3, <2>2, <3>2 DEF ValidStartHeight, GetLastProcessedHeight
      <4> SUFFICES ASSUME NEW g \in BaseHeight..Len(chain),
                          NEW j \in 1..Len(chain[g]), Before(g, j, n, 1)
                   PROVE  Before(g, j, l + 1, 1)
        BY <1>1, <1>5, <3>2 DEF AllBefore, Before
      <4> QED
        BY <1>4, <3>2, <4>1, ConstantFacts DEF Before
    <3> QED
      BY <3>1, <3>2
  <2> QED
    BY <1>1, <1>5, <2>1, <2>2, <2>3 DEF ProgressOK, InBlock
<1>10. CASE Crash
  <2>1. pc' = "down" /\ lastProcessedHeight' = l
    BY <1>3, <1>10 DEF Crash, storeVars
  <2> QED
    BY <1>1, <1>5, <2>1 DEF ProgressOK, InBlock
<1>11. CASE ReceiveBlock
  <2>1. /\ pc = "block" /\ pc' \in {"tx", "fatal"}
        /\ lastProcessedHeight' = l /\ height' = h /\ txIdx' = 1
    BY <1>3, <1>11 DEF ReceiveBlock, storeVars
  <2> QED
    BY <1>1, <1>5, <1>6, <2>1 DEF ProgressOK, InBlock
<1>12. CASE SpentUnbondingDone
  <2>1. /\ pc = "spend_unbonding" /\ pc' = "tx"
        /\ lastProcessedHeight' = l /\ height' = h /\ txIdx' = i + 1
        /\ \A k \in SpentUnbondingInputs(tx) : k <= inIdx
    BY Zenon, <1>3, <1>12 DEF SpentUnbondingDone, storeVars
  <2>2. FullyProcessed(tx, height)
    BY Zenon, <2>1 DEF CurrentOK, FullyProcessed
  <2>3. AllBefore(h, i) /\ FullyProcessed(chain[h][i], h)
    BY <1>3, <2>1, <2>2 DEF ProgressOK, InBlock, tx
  <2>4. AllBefore(h, i + 1)
    BY <1>1, <1>4, <2>3, TxDone
  <2>5. AllBefore(h, i + 1)'
    BY <1>2, <1>4, <2>4
  <2> QED
    BY <1>1, <1>5, <2>1, <2>5 DEF ProgressOK, InBlock
<1>13. CASE SaveHeight \/ PushConfirmedInfo
  <2>1. pc \in InBlock /\ i > Len(chain[h])
    BY <1>3, <1>13 DEF SaveHeight, PushConfirmedInfo, InBlock, ProgressOK
  <2>2. AllBefore(h, i)
    BY <1>3, <2>1 DEF ProgressOK
  <2>3. AllBefore(h + 1, 1)
    BY <1>1, <1>4, <2>1, <2>2, BlockDone
  <2>4. AllBefore(h + 1, 1)'
    BY <1>2, <1>4, <2>3
  <2>5. h \in BaseHeight..Len(chain)
    BY <1>3, <2>1 DEF Inv, ControlOK
  <2>6. CASE SaveHeight
    <3>1. /\ lastProcessedHeight' = h /\ txIdx' = i
          /\ \/ pc' = "confirmed_info" /\ height' = h
             \/ pc' = "block" /\ height' = h + 1
      BY Zenon, <1>3, <2>6 DEF SaveHeight, SaveLastProcessedHeight
    <3>2. AllBefore(h, i)'
      BY <1>7, <2>1
    <3> QED
      BY <1>1, <2>1, <2>4, <2>5, <3>1, <3>2 DEF ProgressOK, InBlock
  <2>7. CASE PushConfirmedInfo
    <3>1. /\ lastProcessedHeight' = l
          /\ pc' = "block" /\ height' = h + 1
      BY <1>3, <2>7 DEF PushConfirmedInfo, storeVars
    <3> QED
      BY <1>1, <1>5, <2>4, <3>1 DEF ProgressOK, InBlock
  <2> QED
    BY <1>13, <2>6, <2>7
<1> QED
  <2>1. CASE UNCHANGED vars
    BY <1>8, <2>1 DEF vars, storeVars
  <2>2. CASE \/ ProcessStakingTx \/ SaveStakingTx \/ HandleSpendingStaking
             \/ SaveUnbondingTx \/ SpentStakingDone \/ HandleSpendingUnbonding
    BY Zenon, <1>8, <2>2
       DEF ProcessStakingTx, SaveStakingTx, HandleSpendingStaking,
           ProcessWithdrawTx, SaveUnbondingTx, SpentStakingDone,
           HandleSpendingUnbonding, AddStakingTransaction, IncrementedTvl,
           AddUnbondingTransaction, storeVars, InBlock, InTx
  <2> QED
    BY <1>9, <1>10, <1>11, <1>12, <1>13, <2>1, <2>2 DEF Next, HandleBlocks

\* The transactions before the indexer's position are fully processed.
THEOREM IndexerProgress == Spec => []Progress
<1>1. Init => Progress
  BY Zenon
  DEF Init, StoreInit, Progress, LinkOK, CurrentOK, ProgressOK, InBlock
<1>2. /\ Inv /\ Inv' /\ StoredIsPublished /\ StoredIsPublished'
      /\ Progress /\ [Next]_vars
      => Progress'
  BY LinkStep, CurrentStep, ProgressStep DEF Progress
<1> QED
  BY <1>1, <1>2, IndexerInv, IndexerStoredIsPublished, PTL DEF Spec

\* Whatever crashes and start heights came before, a height is saved as
\* processed only when every transaction from the base height up to it has been
\* stored and published (HandleConfirmedBlock, ValidateStartHeight).
THEOREM IndexerNothingMissed == Spec => []NothingMissed
<1>1. Inv /\ Progress => NothingMissed
  <2> SUFFICES ASSUME Inv, Progress, lastProcessedHeight # Nil,
                      NEW h \in BaseHeight..lastProcessedHeight,
                      NEW i \in 1..Len(chain[h])
               PROVE  FullyProcessed(chain[h][i], h)
    BY DEF NothingMissed
  <2>1. /\ lastProcessedHeight \in BaseHeight..Len(chain)
        /\ AllBefore(lastProcessedHeight + 1, 1)
    BY DEF Progress, ProgressOK
  <2>2. h \in BaseHeight..Len(chain) /\ h < lastProcessedHeight + 1
    <3>1. chain \in Seq(Seq(Txs))
      BY DEF Inv, TypeOK
    <3> QED
      BY <2>1, <3>1, ConstantFacts
  <2> QED
    BY <2>1, <2>2 DEF AllBefore, Before
<1> QED
  BY <1>1, IndexerInv, IndexerProgress, PTL

----------------------------------------------------------------------------
(* What is stored stays valid.                                             *)

\* An unbonding tx that is stored is valid, and stays so.
LEMMA ValidStep ==
    ASSUME Inv, UnbondedOK, CurrentOK, ValidOK, [Next]_vars
    PROVE  ValidOK'
<1>1. ASSUME NEW u, NEW s \in Txs, stakingTxs[s] # Nil, ValidUnbonding(u, s)
      PROVE  ValidUnbonding(u, s)'
  <2>1. stakingTxs'[s] = stakingTxs[s]
    BY <1>1, StoredStays
  <2> QED
    BY <1>1, <2>1 DEF ValidUnbonding
<1>2. unbondingTxs \in [Txs -> Txs \cup {Nil}]
  BY DEF Inv, TypeOK, StoreTypeOK
<1>3. ASSUME NEW u \in Txs, unbondingTxs[u] # Nil
      PROVE  /\ unbondingTxs[u] \in Txs /\ stakingTxs[unbondingTxs[u]] # Nil
             /\ ValidUnbonding(u, unbondingTxs[u])
  BY <1>2, <1>3, Zenon DEF UnbondedOK, Unlocks, ValidOK
<1>4. CASE unbondingTxs' = unbondingTxs
  BY <1>1, <1>3, <1>4, Zenon DEF ValidOK
<1>5. CASE unbondingTxs' # unbondingTxs
  <2>1. SaveUnbondingTx
    BY Zenon, <1>5, SaveStakingEffect, StoreSteps
  <2>2. pc = "save_unbonding"
    BY <2>1 DEF SaveUnbondingTx
  <2>3. PICK v \in Txs, s \in Txs :
            /\ v = tx /\ s = TxData[tx].ins[inIdx].tx
            /\ unbondingTxs' = [unbondingTxs EXCEPT ![v] = s]
    <3>1. /\ tx \in Txs /\ TxData[tx].ins[inIdx].tx \in Txs
          /\ unbondingTxs' = [unbondingTxs EXCEPT ![tx] =
                                 TxData[tx].ins[inIdx].tx]
      BY Zenon, <1>5, <2>1, SaveUnbondingEffect
    <3> QED
      BY Zenon, <3>1
  <2>4. stakingTxs[s] # Nil /\ ValidUnbonding(v, s)
    BY Zenon, <2>2, <2>3 DEF UnbondedOK, Unlocks, CurrentOK
  <2>5. ValidUnbonding(v, s)'
    BY Zenon, <1>1, <2>4
  <2>6. ASSUME NEW u \in Txs, unbondingTxs'[u] # Nil, u # v
        PROVE  ValidUnbonding(u, unbondingTxs[u])'
    <3>1. unbondingTxs'[u] = unbondingTxs[u]
      BY <1>2, <2>3, <2>6
    <3> QED
      BY Zenon, <1>1, <1>3, <2>6, <3>1
  <2>7. unbondingTxs'[v] = s
    BY <1>2, <2>3
  <2> QED
    BY <2>5, <2>6, <2>7, Zenon DEF ValidOK
<1> QED
  BY Zenon, <1>4, <1>5

----------------------------------------------------------------------------
(* The refinement of StakingLedger.                                        *)

\* A transaction that is fully processed is settled in the ledger.
LEMMA ProcessedIsSettled ==
    ASSUME StoreTypeOK, NEW t \in Txs, NEW h, FullyProcessed(t, h)
    PROVE  Ledger!Settled(t, h)
<1>1. Ledger!IsStake(t, h) => stakingTxs[t] # Nil
  BY DEF Ledger!IsStake, FullyProcessed, StakingDone, ParsesAsStaking,
         ValidStaking
<1>2. ASSUME NEW s \in Txs, Ledger!Unbonds(t, s)
      PROVE  unbondingTxs[t] = s
  <2>1. 1 \in SpentStakingInputs(t) /\ TxData[t].ins[1].tx = s
    BY Zenon, <1>2 DEF Ledger!Unbonds, Ledger!Spends, SpentStakingInputs,
                GetStakingTransaction
  <2>2. UnlocksUnbonding(t, s) /\ ValidUnbonding(t, s)
    BY Zenon, <1>2
    DEF Ledger!Unbonds, Ledger!Spends, UnlocksUnbonding, ValidUnbonding
  <2> QED
    BY Zenon, <2>1, <2>2 DEF FullyProcessed, SpendDone
<1>3. ASSUME NEW s \in Txs, NEW i \in 1..Len(TxData[t].ins),
             Ledger!Withdraws(t, i, s)
      PROVE  s \in withdrawEvents
  <2>1. UnlocksTimelock(t, i)
    BY <1>3 DEF Ledger!Withdraws, UnlocksTimelock
  <2>2. CASE Ledger!Spends(t, i, s)
    <3>1. i \in SpentStakingInputs(t) /\ TxData[t].ins[i].tx = s
      BY <2>2 DEF Ledger!Spends, SpentStakingInputs, GetStakingTransaction
    <3>2. ASSUME TxData[t].transfer PROVE i = 1
      <4>1. Len(TxData[t].ins) = 1
        BY Zenon, <3>2, IndexerAssumption
      <4> QED
        BY <4>1
    <3>3. ~UnlocksUnbonding(t, s)
      BY Zenon, <2>1, <3>2 DEF UnlocksUnbonding, UnlocksTimelock
    <3> QED
      BY Zenon, <2>1, <3>1, <3>3 DEF FullyProcessed, SpendDone
  <2>3. CASE unbondingTxs[TxData[t].ins[i].tx] = s
    <3>1. i \in SpentUnbondingInputs(t)
      BY Zenon, <2>3, StoreAssumption DEF SpentUnbondingInputs,
                                   GetUnbondingTransaction
    <3> QED
      BY Zenon, <2>1, <2>3, <3>1 DEF FullyProcessed, WithdrawDone
  <2> QED
    BY Zenon, <1>3, <2>2, <2>3 DEF Ledger!Withdraws
<1> QED
  BY Zenon, <1>1, <1>2, <1>3 DEF Ledger!Settled

\* When everything before a position is processed, it is that position's turn.
LEMMA ProcessedGivesTurn ==
    ASSUME Inv, NEW g, NEW j, AllBefore(g, j)
    PROVE  Ledger!Turn(g, j)
<1> SUFFICES ASSUME NEW h \in BaseHeight..Len(chain),
                    NEW i \in 1..Len(chain[h]), Before(h, i, g, j)
             PROVE  Ledger!Settled(chain[h][i], h)
  BY DEF Ledger!Turn, Before
<1>1. chain[h][i] \in Txs
  BY AtPosition DEF Inv, ControlOK
<1>2. FullyProcessed(chain[h][i], h)
  BY DEF AllBefore
<1> QED
  BY <1>1, <1>2, ProcessedIsSettled DEF Inv, TypeOK

\* The turn of the transaction that the indexer is handling.
LEMMA CurrentTurn ==
    ASSUME Inv, Progress, pc \in InTx
    PROVE  /\ Ledger!Turn(height, txIdx)
           /\ height \in BaseHeight..Len(chain)
           /\ txIdx \in 1..Len(chain[height])
           /\ tx \in Txs
<1>1. /\ pc \in InBlock
      /\ height \in BaseHeight..Len(chain)
      /\ txIdx \in 1..Len(chain[height])
      /\ tx \in Txs
  BY Zenon, InTxPosition DEF Inv
<1> QED
  BY <1>1, ProcessedGivesTurn DEF Progress, ProgressOK

\* A position past the staking part of its transaction has recorded its stake.
LEMMA StakeRecorded ==
    ASSUME StakingDone(tx, height)
    PROVE  Ledger!IsStake(tx, height) => stakingTxs[tx] # Nil
BY Zenon DEF Ledger!IsStake, StakingDone, ParsesAsStaking, ValidStaking

----------------------------------------------------------------------------
(* One lemma per action that writes.                                       *)

\* Saving a new staking transaction is the ledger's Stake.
LEMMA StakeStep ==
    ASSUME Inv, Progress, SaveStakingTx
    PROVE  [Ledger!Next]_(Ledger!ledger)
<1>1. pc = "save_staking" /\ pc \in InTx
      /\ UNCHANGED <<chain, withdrawEvents>>
  BY DEF SaveStakingTx, InTx, events
<1>2. CASE UNCHANGED <<stakingTxs, unbondingTxs, confirmedTvl>>
  BY <1>1, <1>2 DEF Ledger!ledger, GetConfirmedTvl
<1>3. CASE /\ stakingTxs[tx] = Nil
           /\ stakingTxs' = [stakingTxs EXCEPT ![tx] =
                                StakingRecord(tx, height, overflow)]
           /\ confirmedTvl' = IF overflow THEN confirmedTvl
                              ELSE GetConfirmedTvl + TxData[tx].staking.value
           /\ unbondingTxs' = unbondingTxs
  <2>1. /\ ParsesAsStaking(tx, params) /\ ValidStaking(tx, params)
        /\ overflow = IsOverflow(height, params)
    BY Zenon, <1>1, <1>3 DEF Inv, PendingStaking
  <2>2. Ledger!IsStake(tx, height)
    BY <2>1 DEF Ledger!IsStake, ParsesAsStaking, ValidStaking, params
  <2>3. overflow = Ledger!CapReached(height)
    BY <2>1 DEF Ledger!CapReached, IsOverflow, params
  <2>4. GetConfirmedTvl' = IF overflow THEN GetConfirmedTvl
                           ELSE GetConfirmedTvl + TxData[tx].staking.value
    <3>1. CASE overflow
      BY <1>3, <3>1 DEF GetConfirmedTvl
    <3>2. CASE ~overflow
      <4>1. confirmedTvl' = GetConfirmedTvl + TxData[tx].staking.value
        BY <1>3, <3>2
      <4>2. TxData[tx].staking.value \in Nat /\ GetConfirmedTvl \in Nat
        BY Zenon, <1>1, <2>1, CurrentTurn, TxFacts, StoreAssumption
           DEF ParsesAsStaking, StakingData, GetConfirmedTvl, Inv, TypeOK,
               StoreTypeOK
      <4>3. confirmedTvl' # Nil
        <5> DEFINE v == TxData[tx].staking.value
        <5>1. v \in Nat /\ confirmedTvl' = GetConfirmedTvl + v
          BY Zenon, <4>1, <4>2
        <5> HIDE DEF v
        <5> QED
          BY <4>2, <5>1, NilAssumption
      <4> QED
        BY Zenon, <3>2, <4>1, <4>3 DEF GetConfirmedTvl
    <3> QED
      BY <3>1, <3>2
  <2>5. Ledger!Stake(height, txIdx)
    BY Zenon, <1>1, <1>3, <2>2, <2>3, <2>4, CurrentTurn
       DEF Ledger!Stake, tx, StakingRecord
  <2> QED
    BY Zenon, <1>1, <2>5, CurrentTurn DEF Ledger!Next
<1> QED
  BY <1>2, <1>3, SaveStakingEffect

\* Saving a new unbonding transaction is the ledger's Unbond.
LEMMA UnbondStep ==
    ASSUME Inv, Inv', Progress, SaveUnbondingTx
    PROVE  [Ledger!Next]_(Ledger!ledger)
<1> DEFINE s == TxData[tx].ins[inIdx].tx
<1>1. pc = "save_unbonding" /\ pc \in InTx
      /\ UNCHANGED <<chain, withdrawEvents>>
  BY Zenon DEF SaveUnbondingTx, InTx, events
<1>2. CASE AddUnbondingError(tx, s) # "none"
  BY Zenon, <1>1, <1>2
     DEF SaveUnbondingTx, AddUnbondingTransaction, storeVars, Ledger!ledger,
         GetConfirmedTvl
<1>3. CASE AddUnbondingError(tx, s) = "none"
  <2>1. /\ inIdx \in SpentStakingInputs(tx)
        /\ UnlocksUnbonding(tx, s) /\ ValidUnbonding(tx, s)
        /\ StakingDone(tx, height)
    <3>1. CurrentOK
      BY Zenon DEF Progress
    <3> QED
      BY Zenon, <1>1, <3>1 DEF CurrentOK
  <2>2. inIdx \in 1..Len(TxData[tx].ins) /\ stakingTxs[s] # Nil
    BY Zenon, <2>1 DEF SpentStakingInputs, GetStakingTransaction
  <2>3. tx \in Txs /\ s \in Txs
    <3>1. tx \in Txs
      BY Zenon, <1>1, CurrentTurn
    <3> QED
      BY Zenon, <2>2, <3>1, TxFacts
  <2>4. Ledger!Unbonds(tx, s)
    <3>1. 1 \in 1..Len(TxData[tx].ins)
      <4> DEFINE n == Len(TxData[tx].ins)
      <4>1. n \in Nat
        BY <2>3, TxFacts
      <4>2. inIdx \in 1..n
        BY Zenon, <2>2
      <4> HIDE DEF n
      <4>3. 1 \in 1..n
        BY <4>1, <4>2
      <4> QED
        BY Zenon, <4>3 DEF n
    <3> QED
      BY Zenon, <2>1, <2>2, <3>1
         DEF Ledger!Unbonds, Ledger!Spends, UnlocksUnbonding, ValidUnbonding
  <2>5. /\ unbondingTxs[tx] = Nil
        /\ unbondingTxs' = [unbondingTxs EXCEPT ![tx] = s]
        /\ stakingTxs' = stakingTxs
        /\ confirmedTvl' = IF stakingTxs[s].overflow THEN confirmedTvl
                           ELSE confirmedTvl - stakingTxs[s].value
        /\ \/ stakingTxs[s].overflow
           \/ confirmedTvl # Nil /\ ~(stakingTxs[s].value > confirmedTvl)
    BY Zenon, <1>3
    DEF SaveUnbondingTx, AddUnbondingTransaction, AddUnbondingError,
                SubtractTvlError
  <2>6. confirmedTvl' \in Nat \cup {Nil}
    BY DEF Inv, TypeOK, StoreTypeOK
  <2>7. GetConfirmedTvl' \in Nat
    BY <2>6 DEF GetConfirmedTvl
  <2>8. GetConfirmedTvl' = IF stakingTxs[s].overflow THEN GetConfirmedTvl
                           ELSE GetConfirmedTvl - stakingTxs[s].value
    <3>1. CASE stakingTxs[s].overflow
      <4>1. confirmedTvl' = confirmedTvl
        BY Zenon, <2>5, <3>1
      <4>2. GetConfirmedTvl' = GetConfirmedTvl
        BY Zenon, <4>1 DEF GetConfirmedTvl
      <4> QED
        BY Zenon, <3>1, <4>2
    <3>2. CASE ~stakingTxs[s].overflow
      <4>1. /\ confirmedTvl # Nil
            /\ ~(stakingTxs[s].value > confirmedTvl)
            /\ confirmedTvl' = confirmedTvl - stakingTxs[s].value
        BY Zenon, <2>5, <3>2
      <4>2. confirmedTvl \in Nat /\ stakingTxs[s].value \in Nat
        BY ZenonT(30), <2>1, <2>3, <4>1, StoreAssumption
           DEF Inv, TypeOK, StoreTypeOK, StakingTransaction,
               SpentStakingInputs, GetStakingTransaction
      <4>3. confirmedTvl' # Nil
        <5> DEFINE v == stakingTxs[s].value
        <5>1. v \in Nat /\ ~(v > confirmedTvl) /\ confirmedTvl' = confirmedTvl - v
          BY Zenon, <4>1, <4>2
        <5> HIDE DEF v
        <5> QED
          BY <4>2, <5>1, NilAssumption
      <4> QED
        BY Zenon, <3>2, <4>1, <4>3 DEF GetConfirmedTvl
    <3> QED
      BY Zenon, <3>1, <3>2
  <2>9. Ledger!IsStake(tx, height) => stakingTxs[tx] # Nil
    BY <2>1, StakeRecorded
  <2>10. GetConfirmedTvl' >= 0
    BY <2>7
  <2>11. Ledger!Unbond(height, txIdx)
    <3>1. chain[height][txIdx] = tx
      BY DEF tx
    <3>2. Ledger!Turn(height, txIdx)
      BY <1>1, CurrentTurn
    <3> HIDE DEF s
    <3> QED
      BY Zenon, <1>1, <2>3, <2>4, <2>5, <2>8, <2>9, <2>10, <3>1, <3>2
         DEF Ledger!Unbond
  <2> QED
    BY Zenon, <1>1, <2>11, CurrentTurn DEF Ledger!Next
<1> QED
  BY <1>2, <1>3

\* A withdrawal from a staking output is the ledger's Withdraw.
LEMMA WithdrawStakingStep ==
    ASSUME Inv, Progress, HandleSpendingStaking
    PROVE  [Ledger!Next]_(Ledger!ledger)
<1>1. /\ pc = "spend_staking" /\ pc \in InTx
      /\ UNCHANGED <<chain, stakingTxs, unbondingTxs, confirmedTvl>>
  BY DEF HandleSpendingStaking, ProcessWithdrawTx, InTx, storeVars
<1>2. GetConfirmedTvl' = GetConfirmedTvl
  BY <1>1 DEF GetConfirmedTvl
<1>3. CASE UNCHANGED withdrawEvents
  BY <1>1, <1>2, <1>3 DEF Ledger!ledger
<1>4. CASE withdrawEvents' # withdrawEvents
  <2>1. PICK i \in SpentStakingInputs(tx) :
            /\ UnlocksTimelock(tx, i)
            /\ withdrawEvents' = withdrawEvents \cup {TxData[tx].ins[i].tx}
    BY Zenon, <1>4 DEF HandleSpendingStaking, ProcessWithdrawTx
  <2>2. PICK s \in Txs : s = TxData[tx].ins[i].tx
    <3>1. tx \in Txs
      BY Zenon, <1>1, CurrentTurn
    <3>2. i \in 1..Len(TxData[tx].ins)
      BY Zenon, <2>1 DEF SpentStakingInputs
    <3> QED
      BY Zenon, <3>1, <3>2, TxFacts
  <2>3. Ledger!Withdraws(tx, i, s) /\ i \in 1..Len(TxData[tx].ins)
    BY Zenon, <2>1, <2>2
       DEF Ledger!Withdraws, Ledger!Spends, SpentStakingInputs,
           GetStakingTransaction, UnlocksTimelock
  <2>4. Ledger!IsStake(tx, height) => stakingTxs[tx] # Nil
    BY <1>1, StakeRecorded DEF Progress, CurrentOK
  <2>5. chain[height][txIdx] = tx
    BY Zenon DEF tx
  <2>6. Ledger!Withdraw(height, txIdx)
    BY Zenon, <1>1, <1>2, <2>1, <2>2, <2>3, <2>4, <2>5, CurrentTurn
       DEF Ledger!Withdraw
  <2> QED
    BY Zenon, <1>1, <2>6, CurrentTurn DEF Ledger!Next
<1> QED
  BY Zenon, <1>3, <1>4

\* A withdrawal from an unbonding output is the ledger's Withdraw.
LEMMA WithdrawUnbondingStep ==
    ASSUME Inv, Progress, HandleSpendingUnbonding
    PROVE  [Ledger!Next]_(Ledger!ledger)
<1>1. /\ pc = "spend_unbonding" /\ pc \in InTx
      /\ UNCHANGED <<chain, stakingTxs, unbondingTxs, confirmedTvl>>
  BY Zenon DEF HandleSpendingUnbonding, ProcessWithdrawTx, InTx, storeVars
<1>2. GetConfirmedTvl' = GetConfirmedTvl
  BY <1>1 DEF GetConfirmedTvl
<1>3. CASE UNCHANGED withdrawEvents
  BY <1>1, <1>2, <1>3 DEF Ledger!ledger
<1>4. CASE withdrawEvents' # withdrawEvents
  <2>1. PICK i \in SpentUnbondingInputs(tx) :
            /\ UnlocksTimelock(tx, i)
            /\ withdrawEvents' = withdrawEvents \cup
                                    {unbondingTxs[TxData[tx].ins[i].tx]}
    BY Zenon, <1>4 DEF HandleSpendingUnbonding, ProcessWithdrawTx
  <2>2. /\ i \in 1..Len(TxData[tx].ins)
        /\ unbondingTxs[TxData[tx].ins[i].tx] # Nil
    BY Zenon, <2>1 DEF SpentUnbondingInputs, GetUnbondingTransaction
  <2>3. TxData[tx].ins[i].tx \in Txs
    <3>1. tx \in Txs
      BY Zenon, <1>1, CurrentTurn
    <3> QED
      BY Zenon, <2>2, <3>1, TxFacts
  <2>4. PICK s \in Txs : s = unbondingTxs[TxData[tx].ins[i].tx]
    <3>1. unbondingTxs \in [Txs -> Txs \cup {Nil}]
      BY Zenon DEF Inv, TypeOK, StoreTypeOK
    <3> QED
      BY Zenon, <2>2, <2>3, <3>1
  <2>5. Ledger!Withdraws(tx, i, s)
    BY Zenon, <2>1, <2>2, <2>4 DEF Ledger!Withdraws, UnlocksTimelock
  <2>6. Ledger!IsStake(tx, height) => stakingTxs[tx] # Nil
    BY <1>1, StakeRecorded DEF Progress, CurrentOK
  <2>7. chain[height][txIdx] = tx
    BY DEF tx
  <2>8. Ledger!Withdraw(height, txIdx)
    BY Zenon, <1>1, <1>2, <2>1, <2>2, <2>4, <2>5, <2>6, <2>7, CurrentTurn
       DEF Ledger!Withdraw
  <2> QED
    BY Zenon, <1>1, <2>8, CurrentTurn DEF Ledger!Next
<1> QED
  BY <1>3, <1>4

\* The other steps leave the ledger as it is.
LEMMA QuietStep ==
    ASSUME \/ Start \/ Crash \/ ReceiveBlock \/ ProcessStakingTx
           \/ SpentStakingDone \/ SpentUnbondingDone \/ SaveHeight
           \/ PushConfirmedInfo \/ UNCHANGED vars
    PROVE  UNCHANGED Ledger!ledger
<1>1. UNCHANGED <<chain, stakingTxs, unbondingTxs, confirmedTvl, withdrawEvents>>
  BY DEF Start, Crash, ReceiveBlock, ProcessStakingTx, SpentStakingDone,
         SpentUnbondingDone, SaveHeight, SaveLastProcessedHeight,
         PushConfirmedInfo, storeVars, events, vars
<1>2. GetConfirmedTvl' = GetConfirmedTvl
  BY Zenon, <1>1 DEF GetConfirmedTvl
<1> QED
  BY Zenon, <1>1, <1>2 DEF Ledger!ledger

\* The indexer implements the ledger: crashes, replays from any valid start
\* height and the separation of pushes and writes are invisible in what has
\* been recorded (HandleConfirmedBlock, ValidateStartHeight).
THEOREM IndexerImplementsLedger == Spec => ImplementsLedger
<1>1. Init => Ledger!Init
  BY DEF Init, StoreInit, Ledger!Init, GetConfirmedTvl
<1>2. Inv /\ Inv' /\ Progress /\ [Next]_vars => [Ledger!Next]_(Ledger!ledger)
  BY Zenon, StakeStep, UnbondStep, WithdrawStakingStep, WithdrawUnbondingStep,
     QuietStep
     DEF Next, HandleBlocks
<1> QED
  BY <1>1, <1>2, IndexerInv, IndexerProgress, PTL
     DEF Spec, ImplementsLedger, Ledger!Spec

----------------------------------------------------------------------------
(* The classification that has been published.                             *)

\* The transaction of an event is at a position before which everything is
\* processed, and the event has the classification of that position now.
AwaitsStore(e, h, i) ==
    /\ chain[h][i] = e.tx
    /\ AllBefore(h, i)
    /\ ParsesAsStaking(e.tx, ParamsAt[h]) /\ ValidStaking(e.tx, ParamsAt[h])
    /\ e.overflow = IsOverflow(h, ParamsAt[h])

\* Every published event agrees with the store or, when the process died
\* before the write, with what the store will be given.
PublishedOK ==
    \A e \in stakingEvents :
        IF stakingTxs[e.tx] # Nil
        THEN e.overflow = stakingTxs[e.tx].overflow
        ELSE \E h \in BaseHeight..Len(chain) : \E i \in 1..Len(chain[h]) :
                AwaitsStore(e, h, i)

\* Two positions are the same, or one of them is before the other.
LEMMA OneOfThree ==
    ASSUME NEW h \in Int, NEW i \in Int, NEW g \in Int, NEW j \in Int,
           ~Before(h, i, g, j), ~Before(g, j, h, i)
    PROVE  h = g /\ i = j
BY DEF Before

\* When the store changes, only the current transaction can be published and
\* not stored: later ones have not been reached, earlier ones are processed.
LEMMA AwaitingIsCurrent ==
    ASSUME Inv, Progress, NEW e \in stakingEvents, stakingTxs[e.tx] = Nil,
           NEW h \in BaseHeight..Len(chain), NEW i \in 1..Len(chain[h]),
           AwaitsStore(e, h, i),
           \/ SaveStakingTx /\ stakingTxs' # stakingTxs
           \/ SaveUnbondingTx /\ unbondingTxs' # unbondingTxs
    PROVE  h = height /\ i = txIdx
<1>1. /\ pc \in InTx
      /\ height \in BaseHeight..Len(chain)
      /\ txIdx \in 1..Len(chain[height])
  BY Zenon, InTxPosition DEF Inv, SaveStakingTx, SaveUnbondingTx, InTx
<1>2. h \in Int /\ i \in Int /\ height \in Int /\ txIdx \in Int
  BY <1>1, ConstantFacts
<1>3. ~Before(height, txIdx, h, i)
  BY Zenon, <1>2, NewIsNotBefore DEF Progress, AwaitsStore
<1>4. ~Before(h, i, height, txIdx)
  <2> SUFFICES ASSUME Before(h, i, height, txIdx) PROVE FALSE
    BY Zenon
  <2>1. AllBefore(height, txIdx)
    BY Zenon, <1>1 DEF Progress, ProgressOK, InTx, InBlock
  <2>2. FullyProcessed(e.tx, h)
    BY Zenon, <2>1 DEF AllBefore, AwaitsStore
  <2> QED
    BY <2>2 DEF FullyProcessed, StakingDone, AwaitsStore
<1> QED
  BY Zenon, <1>2, <1>3, <1>4, OneOfThree

\* A step that does not write to the store: what was published stays right.
LEMMA PublishedSame ==
    ASSUME Inv, Progress, [Next]_vars, NEW e \in stakingEvents, PublishedOK,
           UNCHANGED <<stakingTxs, unbondingTxs, confirmedTvl>>
    PROVE  IF stakingTxs[e.tx] # Nil
           THEN e.overflow = stakingTxs[e.tx].overflow
           ELSE \E h \in BaseHeight..Len(chain) :
                   \E i \in 1..Len(chain[h]) : AwaitsStore(e, h, i)'
<1>1. CASE stakingTxs[e.tx] # Nil
  BY Zenon, <1>1 DEF PublishedOK
<1>2. CASE stakingTxs[e.tx] = Nil
  <2> PICK h \in BaseHeight..Len(chain) :
            \E i \in 1..Len(chain[h]) : AwaitsStore(e, h, i)
    BY Zenon, <1>2 DEF PublishedOK
  <2>1. PICK i \in 1..Len(chain[h]) : AwaitsStore(e, h, i)
    OBVIOUS
  <2>2. h \in Int /\ i \in Int
    BY ConstantFacts
  <2>3. AllBefore(h, i)'
    BY <2>1, <2>2, PrefixStable DEF AwaitsStore, Progress
  <2>4. chain' = chain
    BY Zenon, ChainConstant
  <2>5. IsOverflow(h, ParamsAt[h])' = IsOverflow(h, ParamsAt[h])
    BY DEF IsOverflow, GetConfirmedTvl
  <2>6. AwaitsStore(e, h, i)'
    BY Zenon, <2>1, <2>3, <2>4, <2>5
       DEF AwaitsStore, ParsesAsStaking, ValidStaking
  <2> QED
    BY Zenon, <1>2, <2>6
<1> QED
  BY Zenon, <1>1, <1>2

\* A write that changes anything changes the bucket of its transactions.
LEMMA WriteShows ==
    ASSUME Inv
    PROVE  /\ \/ ~SaveStakingTx
              \/ stakingTxs' # stakingTxs
              \/ UNCHANGED <<stakingTxs, unbondingTxs, confirmedTvl>>
           /\ \/ ~SaveUnbondingTx
              \/ unbondingTxs' # unbondingTxs
              \/ UNCHANGED <<stakingTxs, unbondingTxs, confirmedTvl>>
<1>1. ASSUME SaveStakingTx, stakingTxs' = stakingTxs
      PROVE  UNCHANGED <<stakingTxs, unbondingTxs, confirmedTvl>>
  <2> SUFFICES ASSUME tx \in Txs, stakingTxs[tx] = Nil,
                      stakingTxs' = [stakingTxs EXCEPT ![tx] =
                                        StakingRecord(tx, height, overflow)]
               PROVE  FALSE
    BY <1>1, SaveStakingEffect
  <2>1. StakingRecord(tx, height, overflow) \in StakingTransaction
    BY Zenon, <1>1, RecordType DEF Inv, SaveStakingTx
  <2> QED
    BY Zenon, <1>1, <2>1, NilAssumption DEF Inv, TypeOK, StoreTypeOK
<1>2. ASSUME SaveUnbondingTx, unbondingTxs' = unbondingTxs
      PROVE  UNCHANGED <<stakingTxs, unbondingTxs, confirmedTvl>>
  BY <1>2, SaveUnbondingEffect, StoreAssumption
     DEF Inv, TypeOK, StoreTypeOK
<1> QED
  BY Zenon, <1>1, <1>2

\* A new event agrees with the store, or awaits the write at this position.
LEMMA PublishedProcessStaking ==
    ASSUME Inv, Progress, PublishedOK, ProcessStakingTx
    PROVE  PublishedOK'
<1>1. /\ pc = "tx" /\ txIdx \in Nat /\ txIdx >= 1
      /\ txIdx <= Len(chain[height])
      /\ height \in BaseHeight..Len(chain) /\ AllBefore(height, txIdx)
      /\ UNCHANGED <<chain, stakingTxs, unbondingTxs, confirmedTvl>>
  BY Zenon DEF Inv, TypeOK, ControlOK, Progress, ProgressOK, InBlock,
         ProcessStakingTx, storeVars
<1>2. [Next]_vars
  BY DEF Next, HandleBlocks
<1>3. height \in Int /\ txIdx \in Int /\ chain[height] \in Seq(Txs)
  <2>1. chain \in Seq(Seq(Txs)) /\ height \in 1..Len(chain)
    BY <1>1, ConstantFacts DEF Inv, TypeOK
  <2> QED
    BY <1>1, <2>1
<1>4. txIdx \in 1..Len(chain[height])
  BY <1>1, <1>3
<1>5. AllBefore(height, txIdx)'
  <2>1. PICK h, i : h = height /\ i = txIdx
    OBVIOUS
  <2>2. AllBefore(h, i)'
    BY Zenon, <1>1, <1>2, <1>3, <2>1, PrefixStable DEF Progress
  <2> QED
    BY <2>1, <2>2 DEF ProcessStakingTx
<1> SUFFICES ASSUME NEW e \in stakingEvents'
             PROVE  IF stakingTxs[e.tx] # Nil
                    THEN e.overflow = stakingTxs[e.tx].overflow
                    ELSE \E h \in BaseHeight..Len(chain) :
                            \E i \in 1..Len(chain[h]) : AwaitsStore(e, h, i)'
  BY Zenon, <1>1 DEF PublishedOK
<1>6. CASE e \in stakingEvents
  BY Zenon, <1>1, <1>2, <1>6, PublishedSame
<1>7. CASE e \notin stakingEvents
  <2>1. /\ ParsesAsStaking(tx, params)
        /\ stakingTxs[tx] # Nil \/ ValidStaking(tx, params)
        /\ e = [tx |-> tx, overflow |-> OverflowOf(tx, height, params)]
    BY <1>7 DEF ProcessStakingTx
  <2>2. e.tx = tx /\ e.overflow = OverflowOf(tx, height, params)
    BY <2>1
  <2>3. CASE stakingTxs[tx] # Nil
    BY Zenon, <2>2, <2>3 DEF OverflowOf, GetStakingTransaction
  <2>4. CASE stakingTxs[tx] = Nil
    <3>1. e.overflow = IsOverflow(height, params)
      BY <2>2, <2>4 DEF OverflowOf, GetStakingTransaction
    <3> PICK h, i, t : h = height /\ i = txIdx /\ t = tx
      BY Zenon
    <3>2. IsOverflow(h, ParamsAt[h])' = IsOverflow(h, ParamsAt[h])
      BY Zenon, <1>1 DEF IsOverflow, GetConfirmedTvl
    <3>3. AllBefore(h, i)'
      BY Zenon, <1>5 DEF ProcessStakingTx
    <3>4. AwaitsStore(e, h, i)'
      <4>1. chain'[h][i] = e.tx
        BY Zenon, <1>1, <2>2 DEF tx
      <4>2. ParsesAsStaking(e.tx, ParamsAt[h]) /\ ValidStaking(e.tx, ParamsAt[h])
        BY <2>1, <2>2, <2>4 DEF params
      <4>3. e.overflow = IsOverflow(h, ParamsAt[h])
        BY <3>1 DEF params
      <4> QED
        BY Zenon, <3>2, <3>3, <4>1, <4>2, <4>3
           DEF AwaitsStore, ParsesAsStaking, ValidStaking
    <3> QED
      BY Zenon, <1>1, <1>4, <2>2, <2>4, <3>4
  <2> QED
    BY Zenon, <2>3, <2>4
<1> QED
  BY Zenon, <1>6, <1>7

\* The stake that is written has been published with the same classification.
LEMMA PublishedSaveStaking ==
    ASSUME Inv, Progress, PublishedOK, SaveStakingTx, stakingTxs' # stakingTxs
    PROVE  PublishedOK'
<1>1. /\ pc = "save_staking"
      /\ UNCHANGED <<chain, stakingEvents>>
  BY DEF SaveStakingTx, events
<1>2. /\ tx \in Txs
      /\ stakingTxs[tx] = Nil
      /\ stakingTxs' = [stakingTxs EXCEPT ![tx] =
                           StakingRecord(tx, height, overflow)]
  BY Zenon, SaveStakingEffect
<1>3. overflow = IsOverflow(height, params)
  BY Zenon, <1>1, <1>2 DEF Inv, PendingStaking
<1>4. stakingTxs'[tx] # Nil /\ stakingTxs'[tx].overflow = overflow
  <2>1. StakingRecord(tx, height, overflow) \in StakingTransaction
    BY Zenon, <1>1, <1>2, RecordType DEF Inv
  <2> QED
    BY <1>2, <2>1, NilAssumption, RecordFields DEF Inv, TypeOK, StoreTypeOK
<1> SUFFICES ASSUME NEW e \in stakingEvents
             PROVE  /\ stakingTxs'[e.tx] # Nil
                    /\ e.overflow = stakingTxs'[e.tx].overflow
  BY Zenon, <1>1 DEF PublishedOK
<1>5. CASE stakingTxs[e.tx] # Nil
  <2>1. stakingTxs'[e.tx] = stakingTxs[e.tx]
    BY Zenon, <1>2, <1>5 DEF Inv, TypeOK, StoreTypeOK
  <2> QED
    BY Zenon, <1>5, <2>1 DEF PublishedOK
<1>6. CASE stakingTxs[e.tx] = Nil
  <2> PICK h \in BaseHeight..Len(chain) :
          \E i \in 1..Len(chain[h]) : AwaitsStore(e, h, i)
    BY <1>6 DEF PublishedOK
  <2>1. PICK i \in 1..Len(chain[h]) : AwaitsStore(e, h, i)
    OBVIOUS
  <2>2. h = height /\ i = txIdx
    BY Zenon, <1>6, <2>1, AwaitingIsCurrent
  <2>3. e.tx = tx /\ e.overflow = IsOverflow(height, params)
    BY Zenon, <2>1, <2>2 DEF AwaitsStore, tx, params
  <2> QED
    BY Zenon, <1>3, <1>4, <2>3
<1> QED
  BY <1>5, <1>6

\* When an unbonding is written, every published stake is stored.
LEMMA PublishedSaveUnbonding ==
    ASSUME Inv, Progress, PublishedOK, SaveUnbondingTx,
           unbondingTxs' # unbondingTxs
    PROVE  PublishedOK'
<1>1. /\ pc = "save_unbonding"
      /\ UNCHANGED <<chain, stakingEvents>>
  BY Zenon DEF SaveUnbondingTx, events
<1>2. stakingTxs' = stakingTxs
  BY Zenon, SaveUnbondingEffect
<1> SUFFICES ASSUME NEW e \in stakingEvents
             PROVE  stakingTxs[e.tx] # Nil
  BY Zenon, <1>1, <1>2 DEF PublishedOK
<1> SUFFICES ASSUME stakingTxs[e.tx] = Nil PROVE FALSE
  OBVIOUS
<1> PICK h \in BaseHeight..Len(chain) :
        \E i \in 1..Len(chain[h]) : AwaitsStore(e, h, i)
  BY DEF PublishedOK
<1>3. PICK i \in 1..Len(chain[h]) : AwaitsStore(e, h, i)
  OBVIOUS
<1>4. h = height /\ i = txIdx
  BY Zenon, <1>3, AwaitingIsCurrent
<1>5. StakingDone(tx, height)
  BY Zenon, <1>1 DEF Progress, CurrentOK
<1> QED
  BY Zenon, <1>3, <1>4, <1>5 DEF AwaitsStore, StakingDone, tx

\* A transaction is in one block only.
LEMMA PositionsDiffer ==
    ASSUME NEW c \in Chains, NEW g \in 1..Len(c), NEW h \in 1..Len(c),
           NEW j \in 1..Len(c[g]), NEW i \in 1..Len(c[h]), c[h][i] = c[g][j]
    PROVE  g = h
<1>1. /\ c[g][j] = c[h][i] => g = h /\ j = i
      /\ \A k \in 1..Len(TxData[c[g][j]].ins) :
            TxData[c[g][j]].ins[k].tx = c[h][i] => h < g \/ (h = g /\ i < j)
  BY Zenon, ChainsAssumption
<1> QED
  BY <1>1

\* Events of the same staking transaction never disagree on whether it is
\* overflow, although the event of a crashed attempt and the event of the
\* replay are classified at different times (ProcessStakingTx, isOverflow).
THEOREM IndexerOverflowIsFinal == Spec => []OverflowIsFinal
<1>1. Init => PublishedOK
  BY DEF Init, PublishedOK
<1>2. Inv /\ Progress /\ PublishedOK /\ [Next]_vars => PublishedOK'
  <2> SUFFICES ASSUME Inv, Progress, PublishedOK, [Next]_vars
               PROVE  PublishedOK'
    OBVIOUS
  <2>1. CASE ProcessStakingTx
    BY <2>1, PublishedProcessStaking
  <2>2. CASE SaveStakingTx /\ stakingTxs' # stakingTxs
    BY <2>2, PublishedSaveStaking
  <2>3. CASE SaveUnbondingTx /\ unbondingTxs' # unbondingTxs
    BY Zenon, <2>3, PublishedSaveUnbonding
  <2>4. CASE /\ ~ProcessStakingTx
             /\ UNCHANGED <<stakingTxs, unbondingTxs, confirmedTvl>>
    <3>1. UNCHANGED stakingEvents
      BY Zenon, <2>4
         DEF Next, HandleBlocks, Start, Crash, ReceiveBlock, SaveStakingTx,
             HandleSpendingStaking, ProcessWithdrawTx, SaveUnbondingTx,
             SpentStakingDone, HandleSpendingUnbonding, SpentUnbondingDone,
             SaveHeight, PushConfirmedInfo, events, vars
    <3>2. chain' = chain
      BY ChainConstant
    <3> QED
      BY <2>4, <3>1, <3>2, PublishedSame DEF PublishedOK
  <2> QED
    <3>1. ProcessStakingTx => ~SaveStakingTx /\ ~SaveUnbondingTx
      BY Zenon DEF ProcessStakingTx, SaveStakingTx, SaveUnbondingTx
    <3> QED
      BY <2>1, <2>2, <2>3, <2>4, <3>1, StoreSteps, WriteShows
<1>3. Inv /\ PublishedOK => OverflowIsFinal
  <2> SUFFICES ASSUME Inv, PublishedOK, NEW e \in stakingEvents,
                      NEW f \in stakingEvents, e.tx = f.tx
               PROVE  e.overflow = f.overflow
    BY DEF OverflowIsFinal
  <2>1. CASE stakingTxs[e.tx] # Nil
    BY <2>1 DEF PublishedOK
  <2>2. CASE stakingTxs[e.tx] = Nil
    <3> PICK h \in BaseHeight..Len(chain) :
            \E i \in 1..Len(chain[h]) : AwaitsStore(e, h, i)
      BY Zenon, <2>2 DEF PublishedOK
    <3>1. PICK i \in 1..Len(chain[h]) : AwaitsStore(e, h, i)
      BY Zenon
    <3> PICK g \in BaseHeight..Len(chain) :
            \E j \in 1..Len(chain[g]) : AwaitsStore(f, g, j)
      BY <2>2 DEF PublishedOK
    <3>2. PICK j \in 1..Len(chain[g]) : AwaitsStore(f, g, j)
      BY Zenon
    <3>3. chain \in Chains /\ g \in 1..Len(chain) /\ h \in 1..Len(chain)
      BY Zenon, AtPosition DEF Inv, ControlOK
    <3>4. chain[h][i] = chain[g][j]
      BY Zenon, <3>1, <3>2 DEF AwaitsStore
    <3>5. g = h
      BY Zenon, <3>3, <3>4, PositionsDiffer
    <3> QED
      BY Zenon, <3>1, <3>2, <3>5 DEF AwaitsStore
  <2> QED
    BY <2>1, <2>2
<1> QED
  BY <1>1, <1>2, <1>3, IndexerInv, IndexerProgress, PTL DEF Spec
=============================================================================
