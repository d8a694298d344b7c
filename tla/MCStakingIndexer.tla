-------------------------- MODULE MCStakingIndexer --------------------------
(***************************************************************************)
(* StakingIndexer on every confirmed chain that a small set of             *)
(* transactions can form.  Version 1 of the parameters (a staking cap) is  *)
(* in force from height 2, version 2 (a cap height) from height V2Height.  *)
(***************************************************************************)
EXTENDS IndexerLedger, TLC

CONSTANTS
    MaxHeight,   \* bound: length of the confirmed chain
    V2Height     \* activation height of version 2

MCHeights == 1..MaxHeight
MCBaseHeight == 2
MCValues == 1..4
MCOutIdxs == {0, 1}
MCTags == {"v1", "v2"}

MCParamsAt ==
    [h \in MCHeights |->
        IF h < MCBaseHeight THEN Nil
        ELSE IF h < V2Height
        THEN [tag |-> "v1", cap |-> 3, capHeight |-> 0, fee |-> 1,
              minAmount |-> 2, maxAmount |-> 3, minTime |-> 1, maxTime |-> 2]
        ELSE [tag |-> "v2", cap |-> 0, capHeight |-> V2Height, fee |-> 0,
              minAmount |-> 2, maxAmount |-> 4, minTime |-> 2, maxTime |-> 2]]

Stake(tag, value, time, idx) ==
    [tag |-> tag, value |-> value, time |-> time, idx |-> idx]

Spend(t, idx, path) == [tx |-> t, idx |-> idx, path |-> path]

Staking(data, ins) ==
    [staking |-> data, ins |-> ins, transfer |-> FALSE, final |-> TRUE,
     out |-> [script |-> Nil, value |-> 0]]

Unbonding(in, final, script, value) ==
    [staking |-> Nil, ins |-> <<in>>, transfer |-> TRUE, final |-> final,
     out |-> [script |-> script, value |-> value]]

Other(ins) == Staking(Nil, ins)

\* Three stakes of which two exceed the cap (s3 is too small), the unbonding tx
\* of the first, an invalid one and a slashing of the second, a withdrawal that
\* stakes again, two withdrawals of two outputs, and a tx that spends the change
\* output of a stake.
AllTxData ==
    "s1" :> Staking(Stake("v1", 3, 1, 0), <<>>) @@
    "s2" :> Staking(Stake("v1", 2, 1, 1), <<>>) @@
    "s3" :> Staking(Stake("v1", 1, 1, 0), <<>>) @@
    "s4" :> Staking(Stake("v1", 2, 2, 0), <<>>) @@
    "u1" :> Unbonding(Spend("s1", 0, "unbonding"), TRUE, "v1", 2) @@
    "u2" :> Unbonding(Spend("s2", 1, "unbonding"), FALSE, "v1", 1) @@
    "l2" :> Other(<<Spend("s2", 1, "slashing")>>) @@
    "r1" :> Staking(Stake("v2", 2, 2, 0), <<Spend("u1", 0, "timelock")>>) @@
    "w2" :> Other(<<Spend("u1", 0, "timelock"), Spend("s2", 1, "timelock")>>) @@
    "w3" :> Other(<<Spend("s1", 0, "timelock"), Spend("s2", 1, "timelock")>>) @@
    "c1" :> Other(<<Spend("s1", 1, "timelock")>>)

MCTxData == [t \in Txs |-> AllTxData[t]]

----------------------------------------------------------------------------

Outpoints(t) == {<<i.tx, i.idx>> : i \in {MCTxData[t].ins[k] :
                                          k \in 1..Len(MCTxData[t].ins)}}

\* t may follow the transactions of sequence s.
CanFollow(s, t) ==
    LET In == {s[i] : i \in 1..Len(s)}
    IN  /\ t \notin In
        /\ \A o \in Outpoints(t) : /\ o[1] \in In
                                   /\ \A u \in In : o \notin Outpoints(u)

\* The longest valid orders of the transactions.
RECURSIVE Orders(_)
Orders(s) ==
    LET F == {t \in Txs : CanFollow(s, t)}
    IN  IF F = {} THEN {s} ELSE UNION {Orders(Append(s, t)) : t \in F}

\* All ways to cut an order into blocks from the base height on.
Cut(s) ==
    {[h \in MCHeights |->
        IF h < MCBaseHeight THEN <<>> ELSE SubSeq(s, e[h - 1] + 1, e[h])] :
     e \in {f \in [(MCBaseHeight - 1)..MaxHeight -> 0..Len(s)] :
               /\ f[MCBaseHeight - 1] = 0
               /\ f[MaxHeight] = Len(s)
               /\ \A h \in MCBaseHeight..MaxHeight : f[h - 1] <= f[h]}}

MCChains == UNION {Cut(s) : s \in Orders(<<>>)}
=============================================================================
