-------------------------- MODULE UnconfirmedInfo ---------------------------
(***************************************************************************)
(* blocksEventLoop as a whole (indexer/indexer.go): a chain update brings  *)
(* confirmed blocks, which StakingIndexer handles one by one, and the      *)
(* unconfirmed blocks above them, from which processUnconfirmedInfo        *)
(* forecasts the TVL and pushes it as a BtcInfoEvent.                      *)
(*                                                                         *)
(* The updates are what the poller sends over a chain that only grows: its *)
(* view of the tip never falls, also across restarts, confirmed blocks     *)
(* carry Depth - 1 unconfirmed ones (BtcScanner, ConfirmedDeepEnough), and *)
(* an update without confirmed blocks comes when none is deep enough.      *)
(***************************************************************************)
EXTENDS StakingIndexer

CONSTANTS
    Depth,       \* the poller's confirmationDepth
    BatchSize    \* ConfirmedBlockBatchSize

ASSUME InfoAssumption ==
    /\ Depth \in Nat /\ Depth >= 2
    /\ BatchSize \in Nat \ {0}
    \* A staking tx has a staking output and an OP_RETURN output.
    /\ \A t \in Txs : TxData[t].transfer => TxData[t].staking = Nil

VARIABLES
    update,         \* the update at hand: heights last (confirmed) and tip
    seenTip,        \* history: the highest tip the poller has seen
    btcInfoEvents   \* history: BtcInfoEvents pushed

infoVars == <<vars, update, seenTip, btcInfoEvents>>

----------------------------------------------------------------------------
(* CalculateTvlInUnconfirmedBlocks.                                        *)

\* getSpentFromStakingTxs: the inputs of t that spend the output of a staking tx
\* in the map staked.
GetSpentFromStakingTxs(t, staked) ==
    {i \in 1..Len(TxData[t].ins) :
        LET in == TxData[t].ins[i]
        IN  staked[in.tx] # Nil /\ staked[in.tx].idx = in.idx}

\* IsValidUnbondingTx for a staking tx s that need not be stored: st is its
\* record.
IsValidUnbondingTx(t, s, st) ==
    LET in == TxData[t].ins[1]
        p  == ParamsAt[st.height]
    IN  /\ TxData[t].transfer
        /\ in.tx = s /\ in.idx = st.idx
        /\ in.path = "unbonding"
        /\ TxData[t].final
        /\ st.value > p.fee
        /\ TxData[t].out.script = p.tag
        /\ TxData[t].out.value = st.value - p.fee

\* What the inputs S of t, which spend staking transactions in the map staked,
\* take from the TVL: nothing unless they unbond, or when what they unbond is
\* overflow.
Unbonded(t, staked, S) ==
    LET spent == [i \in S |-> staked[TxData[t].ins[i].tx]]
    IN  MapThenSumSet(
            LAMBDA i : spent[i].value,
            {i \in S :
                /\ IsValidUnbondingTx(t, TxData[t].ins[i].tx, spent[i])
                /\ ~spent[i].overflow})

\* Mutant: unconfirmed stakes are not remembered.
CountTx_Forgets(acc, t, h) ==
    LET p == ParamsAt[h]
    IN  IF ParsesAsStaking(t, p)
        THEN IF ValidStaking(t, p)
             THEN [acc EXCEPT !.tvl = @ + TxData[t].staking.value] ELSE acc
        ELSE [acc EXCEPT !.tvl = @ - Unbonded(t, stakingTxs,
                                              SpentStakingInputs(t))]

\* Mutant: an unconfirmed stake is remembered but not added to the TVL.
CountTx_NotAdded(acc, t, h) ==
    LET p      == ParamsAt[h]
        stored == SpentStakingInputs(t)
    IN  IF ParsesAsStaking(t, p)
        THEN IF ValidStaking(t, p)
             THEN [acc EXCEPT !.staked[t] = StakingRecord(t, h, FALSE)]
             ELSE acc
        ELSE [acc EXCEPT !.tvl = @ -
                 IF stored # {} THEN Unbonded(t, stakingTxs, stored)
                 ELSE Unbonded(t, acc.staked,
                               GetSpentFromStakingTxs(t, acc.staked))]

\* One transaction of the loop.  acc.tvl is the running sum and acc.staked
\* unconfirmedStakingTxs, whose entries have IsOverflow unset.  A tx that
\* parses as a staking tx is looked at no further.
CountTx(acc, t, h) ==
    LET p      == ParamsAt[h]
        stored == SpentStakingInputs(t)
    IN  IF ParsesAsStaking(t, p)
        THEN IF ValidStaking(t, p)
             THEN [tvl    |-> acc.tvl + TxData[t].staking.value,
                   staked |-> [acc.staked EXCEPT
                                  ![t] = StakingRecord(t, h, FALSE)]]
             ELSE acc
        ELSE [acc EXCEPT !.tvl = @ -
                 IF stored # {} THEN Unbonded(t, stakingTxs, stored)
                 ELSE Unbonded(t, acc.staked,
                               GetSpentFromStakingTxs(t, acc.staked))]

\* The loop over the transactions of the block at height h.
CountBlock(acc, h) ==
    LET counted[i \in 0..Len(chain[h])] ==
            IF i = 0 THEN acc ELSE CountTx(counted[i - 1], chain[h][i], h)
    IN  counted[Len(chain[h])]

\* The loop over the n blocks above height last.
CountBlocks(last, n) ==
    LET counted[k \in 0..n] ==
            IF k = 0 THEN [tvl |-> 0, staked |-> [t \in Txs |-> Nil]]
            ELSE CountBlock(counted[k - 1], last + k)
    IN  counted[n]

\* The TVL that the blocks above height last up to tip add (or take away).
CalculateTvlInUnconfirmedBlocks(last, tip) == CountBlocks(last, tip - last).tvl

UnconfirmedTvl ==
    GetConfirmedTvl + CalculateTvlInUnconfirmedBlocks(update.last, update.tip)

----------------------------------------------------------------------------
(* blocksEventLoop.                                                        *)

InfoInit ==
    /\ Init
    /\ update = Nil
    /\ seenTip = 0
    /\ btcInfoEvents = {}

\* The update that the poller sends at height h when it sees the tip t: a batch,
\* all confirmed blocks when they are fewer, or none when none is deep enough.
UpdateAt(h, t) ==
    IF t - h + 1 < Depth THEN [last |-> h - 1, tip |-> t]
    ELSE LET l == Min({h + BatchSize - 1, t - Depth + 1})
         IN  [last |-> l, tip |-> l + Depth - 1]

\* The loop takes an update from the channel.
ReceiveUpdate ==
    /\ pc = "block"
    /\ update = Nil
    /\ \E t \in seenTip..Len(chain) :
          /\ height <= t
          /\ update' = UpdateAt(height, t)
          /\ seenTip' = t
    /\ UNCHANGED <<vars, btcInfoEvents>>

\* The confirmed blocks of the update are handled.
ConfirmedHandled == pc = "block" /\ update # Nil /\ height > update.last

\* HandleConfirmedBlock for the confirmed blocks of the update.
HandleConfirmed ==
    /\ update # Nil
    /\ ~ConfirmedHandled
    /\ HandleBlocks
    /\ UNCHANGED <<update, seenTip, btcInfoEvents>>

\* processUnconfirmedInfo.  It changes nothing but the queue, and an error (a
\* negative TVL, a failed push) is only logged.
ProcessUnconfirmedInfo ==
    /\ ConfirmedHandled
    /\ \/ /\ UnconfirmedTvl >= 0
          /\ btcInfoEvents' = btcInfoEvents \cup
                {[height |-> update.tip, confirmedTvl |-> GetConfirmedTvl,
                  unconfirmedTvl |-> UnconfirmedTvl]}
       \/ UNCHANGED btcInfoEvents
    /\ update' = Nil
    /\ UNCHANGED <<vars, seenTip>>

\* A crash loses the update at hand.
Restart ==
    /\ Start \/ Crash
    /\ update' = Nil
    /\ UNCHANGED <<seenTip, btcInfoEvents>>

InfoNext ==
    \/ Restart
    \/ ReceiveUpdate
    \/ HandleConfirmed
    \/ ProcessUnconfirmedInfo

InfoSpec == InfoInit /\ [][InfoNext]_infoVars

----------------------------------------------------------------------------
(* Properties.                                                             *)

\* When this step saves the height of a forecast's tip, the confirmed TVL is at
\* most the forecast, and equals it when no stake above the height that was
\* confirmed then has turned out to be overflow.
ForecastTrueNow ==
    \A e \in btcInfoEvents :
        /\ lastProcessedHeight' # lastProcessedHeight
        /\ lastProcessedHeight' = e.height
        =>
            /\ GetConfirmedTvl <= e.unconfirmedTvl
            /\ (\A t \in Txs :
                   stakingTxs[t] # Nil /\ stakingTxs[t].overflow =>
                       stakingTxs[t].height <= e.height - Depth + 1)
                  => GetConfirmedTvl = e.unconfirmedTvl

\* The TVL forecast from the unconfirmed blocks and the memory of one update
\* agrees with what the database says Depth - 1 blocks, several updates and
\* perhaps a crash later; only the overflow of a stake is not foreseen.
ForecastComesTrue == [][ForecastTrueNow]_infoVars

\* processUnconfirmedInfo never fails with "total tvl is negative".
TvlNeverNegative == ConfirmedHandled => UnconfirmedTvl >= 0

\* "Calculating confirmed and unconfirmed TVL (total value locked) based on
\* observed transactions" (README.md): no forecast exceeds the value of all
\* staking txs observed in the chain up to its tip.
\* The code does not keep it (README, "Deviations without a run").
TvlOfObservedStakes ==
    \A e \in btcInfoEvents :
        LET Observed == {t \in Txs :
                \E h \in BaseHeight..e.height : \E i \in 1..Len(chain[h]) :
                    /\ chain[h][i] = t
                    /\ ParsesAsStaking(t, ParamsAt[h])}
        IN  e.unconfirmedTvl <=
                MapThenSumSet(LAMBDA t : TxData[t].staking.value, Observed)
=============================================================================
