--------------------------- MODULE StakingLedger ----------------------------
(***************************************************************************)
(* What the staking indexer promises (doc/staking.md): the stakes of a     *)
(* confirmed chain, their unbondings and withdrawals are recorded in the   *)
(* order of the chain, each exactly once, and a stake is active or         *)
(* overflow by the value locked when its turn comes.  There are no         *)
(* processes, crashes, replays, duplicates or queues here; StakingIndexer  *)
(* is shown to implement this.                                             *)
(***************************************************************************)
EXTENDS Integers, Sequences

CONSTANTS Txs, TxData, ParamsAt, BaseHeight, Chains, Nil

VARIABLES
    chain,        \* the confirmed chain
    stakes,       \* the record of a stake, Nil for other transactions
    unbondings,   \* the stake that a transaction has unbonded, or Nil
    tvl,          \* the value locked: active stakes that are not unbonded
    withdrawn     \* stakes of which an output has been withdrawn

ledger == <<chain, stakes, unbondings, tvl, withdrawn>>

\* Transaction t at height h is a stake under the parameters of that height.
IsStake(t, h) ==
    LET data == TxData[t].staking
        p    == ParamsAt[h]
    IN  /\ data # Nil
        /\ data.tag = p.tag
        /\ p.minAmount <= data.value /\ data.value <= p.maxAmount
        /\ p.minTime <= data.time /\ data.time <= p.maxTime

\* Input i of t spends the staking output of the recorded stake s.
Spends(t, i, s) == /\ i \in 1..Len(TxData[t].ins)
                   /\ stakes[s] # Nil
                   /\ TxData[t].ins[i].tx = s
                   /\ TxData[t].ins[i].idx = stakes[s].idx

\* t unbonds the recorded stake s: its only input unlocks the unbonding path
\* and its only output is the unbonding output, the stake less the fee.
Unbonds(t, s) ==
    LET p == ParamsAt[stakes[s].height]
    IN  /\ Spends(t, 1, s)
        /\ TxData[t].transfer
        /\ TxData[t].ins[1].path = "unbonding"
        /\ TxData[t].final
        /\ stakes[s].value > p.fee
        /\ TxData[t].out.script = p.tag
        /\ TxData[t].out.value = stakes[s].value - p.fee

\* Input i of t unlocks the time lock of the stake s or of its unbonding.
Withdraws(t, i, s) ==
    /\ i \in 1..Len(TxData[t].ins)
    /\ TxData[t].ins[i].path = "timelock"
    /\ Spends(t, i, s) \/ unbondings[TxData[t].ins[i].tx] = s

\* Everything that t, at height h, has to leave in the ledger is there.
Settled(t, h) ==
    /\ IsStake(t, h) => stakes[t] # Nil
    /\ \A s \in Txs : Unbonds(t, s) => unbondings[t] = s
    /\ \A s \in Txs : \A i \in 1..Len(TxData[t].ins) :
          Withdraws(t, i, s) => s \in withdrawn

\* It is the turn of the transaction at position i of block h.
Turn(h, i) ==
    \A g \in BaseHeight..Len(chain) : \A j \in 1..Len(chain[g]) :
        g < h \/ (g = h /\ j < i) => Settled(chain[g][j], g)

\* The cap in force at height h is used up.
CapReached(h) ==
    LET p == ParamsAt[h]
    IN  IF p.capHeight # 0 THEN h > p.capHeight ELSE tvl >= p.cap

Stake(h, i) ==
    LET t    == chain[h][i]
        data == TxData[t].staking
    IN  /\ IsStake(t, h)
        /\ stakes[t] = Nil
        /\ Turn(h, i)
        /\ stakes' = [stakes EXCEPT ![t] =
                         [idx |-> data.idx, height |-> h, value |-> data.value,
                          overflow |-> CapReached(h)]]
        /\ tvl' = IF CapReached(h) THEN tvl ELSE tvl + data.value
        /\ UNCHANGED <<chain, unbondings, withdrawn>>

Unbond(h, i) ==
    LET t == chain[h][i]
    IN  /\ unbondings[t] = Nil
        /\ IsStake(t, h) => stakes[t] # Nil
        /\ \E s \in Txs :
              /\ Unbonds(t, s)
              /\ Turn(h, i)
              /\ unbondings' = [unbondings EXCEPT ![t] = s]
              /\ tvl' = IF stakes[s].overflow THEN tvl
                                              ELSE tvl - stakes[s].value
        /\ tvl' >= 0
        /\ UNCHANGED <<chain, stakes, withdrawn>>

Withdraw(h, i) ==
    LET t == chain[h][i]
    IN  /\ IsStake(t, h) => stakes[t] # Nil
        /\ \E s \in Txs, k \in 1..Len(TxData[t].ins) :
              /\ Withdraws(t, k, s)
              /\ Turn(h, i)
              /\ withdrawn' = withdrawn \cup {s}
        /\ UNCHANGED <<chain, stakes, unbondings, tvl>>

Init ==
    /\ chain \in Chains
    /\ stakes = [t \in Txs |-> Nil]
    /\ unbondings = [t \in Txs |-> Nil]
    /\ tvl = 0
    /\ withdrawn = {}

Next ==
    \E h \in BaseHeight..Len(chain) : \E i \in 1..Len(chain[h]) :
        Stake(h, i) \/ Unbond(h, i) \/ Withdraw(h, i)

Spec == Init /\ [][Next]_ledger
=============================================================================
