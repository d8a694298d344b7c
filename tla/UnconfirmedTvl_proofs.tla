----------------------- MODULE UnconfirmedTvl_proofs ------------------------
(***************************************************************************)
(* What CalculateTvlInUnconfirmedBlocks computes (UnconfirmedInfo).  The   *)
(* stakes that a prefix of the chain leaves active are defined from the    *)
(* chain alone (Counted); each transaction of the loop changes them as it  *)
(* changes the running sum; and at a block boundary the confirmed TVL is   *)
(* their value.  So the confirmed TVL and what the loop adds to it are the *)
(* value of the stakes that are active after the unconfirmed blocks        *)
(* (ForecastIs).                                                           *)
(***************************************************************************)
EXTENDS UnconfirmedInfo, IndexerTvl_proofs

----------------------------------------------------------------------------
(* The stakes that a prefix of the chain leaves active.                    *)

\* Transaction u is a valid unbonding tx of the staking tx s at height h.
Unbonds(u, s, h) == IsValidUnbondingTx(u, s, StakingRecord(s, h, FALSE))

\* t unbonds the stake s, wherever s is.
UnbondsStake(t, s) ==
    \E h \in BaseHeight..Len(chain) : \E i \in 1..Len(chain[h]) :
        chain[h][i] = s /\ IsStake(s, h) /\ Unbonds(t, s, h)

\* A transaction before position (g, j) unbonds the staking tx s at height h.
UnbondedBefore(s, h, g, j) ==
    \E k \in BaseHeight..Len(chain) : \E n \in 1..Len(chain[k]) :
        Before(k, n, g, j) /\ Unbonds(chain[k][n], s, h)

\* The stakes before position (g, j) that no transaction before it unbonds.
\* Those up to height last are stored, and the overflow ones are left out.
Counted(last, g, j) ==
    {s \in Txs : \E h \in BaseHeight..Len(chain) : \E i \in 1..Len(chain[h]) :
        /\ chain[h][i] = s
        /\ Before(h, i, g, j)
        /\ IsStake(s, h)
        /\ h <= last => ~stakingTxs[s].overflow
        /\ ~UnbondedBefore(s, h, g, j)}

\* What an unbonding tx spends.
LEMMA UnbondsFacts ==
    ASSUME NEW u \in Txs, NEW s, NEW h, Unbonds(u, s, h)
    PROVE  /\ TxData[u].transfer
           /\ Len(TxData[u].ins) = 1 /\ 1 \in 1..Len(TxData[u].ins)
           /\ TxData[u].ins[1].tx = s
           /\ TxData[u].ins[1].idx = TxData[s].staking.idx
  BY IndexerAssumption DEF Unbonds, IsValidUnbondingTx, StakingRecord

\* An unbonding tx comes after the stake.
LEMMA UnbondsAfter ==
    ASSUME chain \in Chains,
           NEW h \in BaseHeight..Len(chain), NEW i \in 1..Len(chain[h]),
           NEW k \in BaseHeight..Len(chain), NEW n \in 1..Len(chain[k]),
           Unbonds(chain[k][n], chain[h][i], h)
    PROVE  Before(h, i, k, n)
<1>1. h \in 1..Len(chain) /\ k \in 1..Len(chain) /\ chain[k][n] \in Txs
  BY Zenon, AtPosition
<1>2. /\ 1 \in 1..Len(TxData[chain[k][n]].ins)
      /\ TxData[chain[k][n]].ins[1].tx = chain[h][i]
  BY Zenon, <1>1, UnbondsFacts
<1> QED
  BY <1>1, <1>2, ChainsAssumption, Zenon DEF Before

\* A stake has one unbonding tx.
LEMMA UnbondsOnce ==
    ASSUME chain \in Chains, NEW s, NEW h,
           NEW m \in BaseHeight..Len(chain), NEW l \in 1..Len(chain[m]),
           NEW k \in BaseHeight..Len(chain), NEW n \in 1..Len(chain[k]),
           Unbonds(chain[m][l], s, h), Unbonds(chain[k][n], s, h)
    PROVE  m = k /\ l = n
<1>1. /\ m \in 1..Len(chain) /\ chain[m][l] \in Txs
      /\ k \in 1..Len(chain) /\ chain[k][n] \in Txs
  BY Zenon, AtPosition
<1>2. /\ 1 \in 1..Len(TxData[chain[m][l]].ins)
      /\ 1 \in 1..Len(TxData[chain[k][n]].ins)
      /\ SameOutpoint(TxData[chain[m][l]].ins[1], TxData[chain[k][n]].ins[1])
  <2>1. /\ 1 \in 1..Len(TxData[chain[m][l]].ins)
        /\ TxData[chain[m][l]].ins[1].tx = s
        /\ TxData[chain[m][l]].ins[1].idx = TxData[s].staking.idx
    BY Zenon, <1>1, UnbondsFacts
  <2>2. /\ 1 \in 1..Len(TxData[chain[k][n]].ins)
        /\ TxData[chain[k][n]].ins[1].tx = s
        /\ TxData[chain[k][n]].ins[1].idx = TxData[s].staking.idx
    BY Zenon, <1>1, UnbondsFacts
  <2> QED
    BY Zenon, <2>1, <2>2 DEF SameOutpoint
<1>3. \A a \in 1..Len(TxData[chain[m][l]].ins),
         b \in 1..Len(TxData[chain[k][n]].ins) :
         SameOutpoint(TxData[chain[m][l]].ins[a], TxData[chain[k][n]].ins[b])
            => m = k /\ l = n /\ a = b
  BY <1>1, SpentOnceAssumption, Zenon
<1> QED
  BY Zenon, <1>2, <1>3

\* Membership, for a stake whose position is known.
LEMMA CountedIs ==
    ASSUME chain \in Chains,
           NEW h \in BaseHeight..Len(chain), NEW i \in 1..Len(chain[h]),
           IsStake(chain[h][i], h), NEW last, NEW g, NEW j
    PROVE  chain[h][i] \in Counted(last, g, j) <=>
              /\ Before(h, i, g, j)
              /\ h <= last => ~stakingTxs[chain[h][i]].overflow
              /\ ~UnbondedBefore(chain[h][i], h, g, j)
<1>1. chain[h][i] \in Txs
  BY AtPosition
<1> QED
  BY <1>1, SamePosition, Zenon DEF Counted

\* A stake that is counted has a position.
LEMMA CountedAt ==
    ASSUME NEW last, NEW g, NEW j, NEW s \in Counted(last, g, j)
    PROVE  /\ s \in Txs
           /\ \E h \in BaseHeight..Len(chain) : \E i \in 1..Len(chain[h]) :
                 chain[h][i] = s /\ Before(h, i, g, j) /\ IsStake(s, h)
BY Zenon DEF Counted

----------------------------------------------------------------------------
(* How one transaction changes the active stakes.                          *)

\* The positions before the next one.
LEMMA BeforeNext ==
    ASSUME NEW h \in Int, NEW i \in Int, NEW g \in Int, NEW j \in Int
    PROVE  Before(h, i, g, j + 1) <=> Before(h, i, g, j) \/ (h = g /\ i = j)
BY DEF Before

\* What the transaction at (g, j) unbonds is unbonded from then on.
LEMMA UnbondedNext ==
    ASSUME NEW g \in BaseHeight..Len(chain), NEW j \in 1..Len(chain[g]),
           NEW s, NEW h
    PROVE  UnbondedBefore(s, h, g, j + 1) <=>
              UnbondedBefore(s, h, g, j) \/ Unbonds(chain[g][j], s, h)
<1>1. BaseHeight \in Int
  BY ConstantFacts
<1>2. \A k \in BaseHeight..Len(chain) : \A n \in 1..Len(chain[k]) :
         Before(k, n, g, j + 1) <=> Before(k, n, g, j) \/ (k = g /\ n = j)
  BY <1>1 DEF Before
<1>3. ASSUME UnbondedBefore(s, h, g, j)
      PROVE  UnbondedBefore(s, h, g, j + 1)
  BY <1>2, <1>3, Zenon DEF UnbondedBefore
<1>4. ASSUME Unbonds(chain[g][j], s, h)
      PROVE  UnbondedBefore(s, h, g, j + 1)
  BY <1>2, <1>4, Zenon DEF UnbondedBefore
<1>5. ASSUME UnbondedBefore(s, h, g, j + 1), ~Unbonds(chain[g][j], s, h)
      PROVE  UnbondedBefore(s, h, g, j)
  BY <1>2, <1>5, Zenon DEF UnbondedBefore
<1> QED
  BY <1>3, <1>4, <1>5

\* A transaction that is no stake adds nothing, and takes what it unbonds.
LEMMA CountSpend ==
    ASSUME chain \in Chains, NEW last,
           NEW g \in BaseHeight..Len(chain), NEW j \in 1..Len(chain[g]),
           ~IsStake(chain[g][j], g),
           NEW h \in BaseHeight..Len(chain), NEW i \in 1..Len(chain[h]),
           IsStake(chain[h][i], h)
    PROVE  chain[h][i] \in Counted(last, g, j + 1) <=>
              /\ chain[h][i] \in Counted(last, g, j)
              /\ ~Unbonds(chain[g][j], chain[h][i], h)
<1>1. g \in Int /\ j \in Int /\ h \in Int /\ i \in Int
  BY ConstantFacts
<1>2. Before(h, i, g, j + 1) <=> Before(h, i, g, j)
  BY Zenon, <1>1, BeforeNext
<1>3. UnbondedBefore(chain[h][i], h, g, j + 1) <=>
         \/ UnbondedBefore(chain[h][i], h, g, j)
         \/ Unbonds(chain[g][j], chain[h][i], h)
  BY Zenon, UnbondedNext
<1> QED
  BY Zenon, <1>2, <1>3, CountedIs

\* A transaction that unbonds nothing that is counted.
LEMMA CountOther ==
    ASSUME chain \in Chains, NEW last,
           NEW g \in BaseHeight..Len(chain), NEW j \in 1..Len(chain[g]),
           ~IsStake(chain[g][j], g),
           \A h \in BaseHeight..Len(chain) : \A i \in 1..Len(chain[h]) :
              IsStake(chain[h][i], h) /\ chain[h][i] \in Counted(last, g, j)
                 => ~Unbonds(chain[g][j], chain[h][i], h)
    PROVE  Counted(last, g, j + 1) = Counted(last, g, j)
<1>1. ASSUME NEW s \in Counted(last, g, j)
      PROVE  s \in Counted(last, g, j + 1)
  <2>1. PICK h \in BaseHeight..Len(chain) : \E i \in 1..Len(chain[h]) :
                chain[h][i] = s /\ IsStake(s, h)
    BY CountedAt, Zenon
  <2>2. PICK i \in 1..Len(chain[h]) : chain[h][i] = s /\ IsStake(s, h)
    BY <2>1
  <2> QED
    BY Zenon, <1>1, <2>2, CountSpend
<1>2. ASSUME NEW s \in Counted(last, g, j + 1)
      PROVE  s \in Counted(last, g, j)
  <2>1. PICK h \in BaseHeight..Len(chain) : \E i \in 1..Len(chain[h]) :
                chain[h][i] = s /\ IsStake(s, h)
    BY CountedAt, Zenon
  <2>2. PICK i \in 1..Len(chain[h]) : chain[h][i] = s /\ IsStake(s, h)
    BY <2>1
  <2> QED
    BY Zenon, <1>2, <2>2, CountSpend
<1> QED
  BY <1>1, <1>2, Zenon

\* The transaction at position (g, j) takes x, and only x, out of the set.
Drops(last, g, j, x) == Counted(last, g, j + 1) = Counted(last, g, j) \ {x}

\* A transaction that unbonds a stake that is counted: it unbonds no other.
LEMMA CountUnbonding ==
    ASSUME chain \in Chains, NEW last,
           NEW g \in BaseHeight..Len(chain), NEW j \in 1..Len(chain[g]),
           ~IsStake(chain[g][j], g), NEW x, UnbondsStake(chain[g][j], x)
    PROVE  Drops(last, g, j, x)
<1> PICK h \in BaseHeight..Len(chain) : \E i \in 1..Len(chain[h]) :
        chain[h][i] = x /\ IsStake(x, h) /\ Unbonds(chain[g][j], x, h)
  BY Zenon DEF UnbondsStake
<1> PICK i \in 1..Len(chain[h]) :
        chain[h][i] = x /\ IsStake(x, h) /\ Unbonds(chain[g][j], x, h)
  OBVIOUS
<1>1. chain[g][j] \in Txs
  BY Zenon, AtPosition
<1>2. ASSUME NEW s, NEW k, Unbonds(chain[g][j], s, k)
      PROVE  s = x
  BY <1>1, <1>2, UnbondsFacts
<1>3. ASSUME NEW s \in Counted(last, g, j), s # x
      PROVE  s \in Counted(last, g, j + 1)
  <2>1. PICK k \in BaseHeight..Len(chain) : \E n \in 1..Len(chain[k]) :
                chain[k][n] = s /\ IsStake(s, k)
    BY CountedAt, Zenon
  <2>2. PICK n \in 1..Len(chain[k]) : chain[k][n] = s /\ IsStake(s, k)
    BY <2>1
  <2> QED
    BY Zenon, <1>2, <1>3, <2>2, CountSpend
<1>4. ASSUME NEW s \in Counted(last, g, j + 1)
      PROVE  s \in Counted(last, g, j) /\ s # x
  <2>1. PICK k \in BaseHeight..Len(chain) : \E n \in 1..Len(chain[k]) :
                chain[k][n] = s /\ IsStake(s, k)
    BY CountedAt, Zenon
  <2>2. PICK n \in 1..Len(chain[k]) : chain[k][n] = s /\ IsStake(s, k)
    BY <2>1
  <2>3. s \in Counted(last, g, j) /\ ~Unbonds(chain[g][j], s, k)
    BY Zenon, <1>4, <2>2, CountSpend
  <2>4. s = x => h = k
    BY Zenon, <2>2, SamePosition
  <2> QED
    BY <2>3, <2>4
<1> QED
  BY <1>3, <1>4, Zenon DEF Drops

\* A stake above height last is added; it unbonds nothing and is not unbonded.
LEMMA CountStake ==
    ASSUME chain \in Chains, NEW last \in Int,
           NEW g \in BaseHeight..Len(chain), NEW j \in 1..Len(chain[g]),
           g > last, IsStake(chain[g][j], g)
    PROVE  /\ chain[g][j] \notin Counted(last, g, j)
           /\ Counted(last, g, j + 1) = Counted(last, g, j) \cup {chain[g][j]}
<1>1. g \in Int /\ j \in Int /\ chain[g][j] \in Txs
  BY ConstantFacts, AtPosition
<1>2. ASSUME NEW s, NEW k PROVE ~Unbonds(chain[g][j], s, k)
  <2>1. TxData[chain[g][j]].staking # Nil
    BY DEF IsStake, ParsesAsStaking
  <2> QED
    BY <1>1, <2>1, UnbondsFacts, InfoAssumption
<1>3. ASSUME NEW h \in BaseHeight..Len(chain), NEW i \in 1..Len(chain[h]),
             IsStake(chain[h][i], h), chain[h][i] # chain[g][j]
      PROVE  chain[h][i] \in Counted(last, g, j + 1)
                <=> chain[h][i] \in Counted(last, g, j)
  <2>1. h \in Int /\ i \in Int /\ ~(h = g /\ i = j)
    BY <1>3, ConstantFacts
  <2>2. Before(h, i, g, j + 1) <=> Before(h, i, g, j)
    BY Zenon, <1>1, <2>1, BeforeNext
  <2>3. UnbondedBefore(chain[h][i], h, g, j + 1)
           <=> UnbondedBefore(chain[h][i], h, g, j)
    BY Zenon, <1>2, UnbondedNext
  <2> QED
    BY Zenon, <1>3, <2>2, <2>3, CountedIs
<1>4. chain[g][j] \notin Counted(last, g, j)
  BY <1>1, CountedIs DEF Before
<1>5. ~UnbondedBefore(chain[g][j], g, g, j + 1)
  <2> SUFFICES ASSUME NEW k \in BaseHeight..Len(chain),
                      NEW n \in 1..Len(chain[k]), Before(k, n, g, j + 1),
                      Unbonds(chain[k][n], chain[g][j], g)
               PROVE  FALSE
    BY Zenon DEF UnbondedBefore
  <2>1. Before(g, j, k, n)
    BY Zenon, UnbondsAfter
  <2> QED
    BY <1>1, <2>1, ConstantFacts DEF Before
<1>6. chain[g][j] \in Counted(last, g, j + 1)
  BY <1>1, <1>5, CountedIs DEF Before
<1>7. ASSUME NEW s, s # chain[g][j]
      PROVE  s \in Counted(last, g, j + 1) <=> s \in Counted(last, g, j)
  <2>1. ASSUME NEW k, s \in Counted(last, g, k)
        PROVE  s \in Counted(last, g, j + 1) <=> s \in Counted(last, g, j)
    <3>1. PICK h \in BaseHeight..Len(chain) : \E i \in 1..Len(chain[h]) :
                  chain[h][i] = s /\ IsStake(s, h)
      BY <2>1, CountedAt, Zenon
    <3> QED
      BY Zenon, <1>3, <1>7, <3>1
  <2> QED
    BY <2>1
<1> QED
  BY <1>4, <1>6, <1>7

\* At the end of a block, the next one begins.
LEMMA CountEnd ==
    ASSUME chain \in Chains, NEW last, NEW g \in BaseHeight..Len(chain)
    PROVE  Counted(last, g, Len(chain[g]) + 1) = Counted(last, g + 1, 1)
<1>1. g \in Int /\ Len(chain[g]) \in Nat
  BY ConstantFacts, ChainFacts
<1>2. ASSUME NEW h \in BaseHeight..Len(chain), NEW i \in 1..Len(chain[h])
      PROVE  Before(h, i, g, Len(chain[g]) + 1) <=> Before(h, i, g + 1, 1)
  BY <1>1, ConstantFacts DEF Before
<1>3. ASSUME NEW s, NEW h
      PROVE  UnbondedBefore(s, h, g, Len(chain[g]) + 1)
                <=> UnbondedBefore(s, h, g + 1, 1)
  BY <1>2 DEF UnbondedBefore
<1> QED
  BY Zenon, <1>2, <1>3 DEF Counted

\* A stake that the transaction at (g, j) unbonds has been active until then.
LEMMA ActiveUntilUnbonded ==
    ASSUME chain \in Chains, NEW last,
           NEW g \in BaseHeight..Len(chain), NEW j \in 1..Len(chain[g]),
           NEW h \in BaseHeight..Len(chain), NEW i \in 1..Len(chain[h]),
           IsStake(chain[h][i], h),
           h <= last => ~stakingTxs[chain[h][i]].overflow,
           Unbonds(chain[g][j], chain[h][i], h)
    PROVE  chain[h][i] \in Counted(last, g, j)
<1>1. Before(h, i, g, j)
  BY Zenon, UnbondsAfter
<1>2. ~UnbondedBefore(chain[h][i], h, g, j)
  <2> SUFFICES ASSUME NEW k \in BaseHeight..Len(chain),
                      NEW n \in 1..Len(chain[k]), Before(k, n, g, j),
                      Unbonds(chain[k][n], chain[h][i], h)
               PROVE  FALSE
    BY Zenon DEF UnbondedBefore
  <2>1. k = g /\ n = j
    BY Zenon, UnbondsOnce
  <2> QED
    BY <2>1, ConstantFacts DEF Before
<1> QED
  BY Zenon, <1>1, <1>2, CountedIs

----------------------------------------------------------------------------
(* One transaction of the loop.                                            *)

\* What staking transactions lock, by transaction.
Stakings == [t \in Txs |-> TxData[t].staking]

\* What the loop has computed when it comes to position (g, j): with the
\* confirmed TVL it is the value of the active stakes, and its memory holds the
\* stakes above height last.
AccOK(acc, last, g, j) ==
    /\ acc \in [tvl : Int, staked : [Txs -> StakingTransaction \cup {Nil}]]
    /\ IsFiniteSet(Counted(last, g, j))
    /\ GetConfirmedTvl + acc.tvl = Total(Stakings, Counted(last, g, j))
    /\ \A s \in Txs : acc.staked[s] # Nil =>
          \E h \in BaseHeight..Len(chain) : \E i \in 1..Len(chain[h]) :
              /\ chain[h][i] = s /\ h > last
              /\ IsStake(s, h)
              /\ acc.staked[s] = StakingRecord(s, h, FALSE)
    /\ \A h \in BaseHeight..Len(chain) : \A i \in 1..Len(chain[h]) :
          h > last /\ Before(h, i, g, j) /\ IsStake(chain[h][i], h) =>
              acc.staked[chain[h][i]] # Nil

\* The value of a stake, and its record.
LEMMA StakeValue ==
    ASSUME chain \in Chains,
           NEW h \in BaseHeight..Len(chain), NEW i \in 1..Len(chain[h]),
           IsStake(chain[h][i], h)
    PROVE  /\ TxData[chain[h][i]].staking.value \in Nat
           /\ Stakings[chain[h][i]] = TxData[chain[h][i]].staking
           /\ \A o \in BOOLEAN :
                 /\ StakingRecord(chain[h][i], h, o) \in StakingTransaction
                 /\ StakingRecord(chain[h][i], h, o) # Nil
<1>1. h \in Heights /\ chain[h][i] \in Txs
  BY AtPosition, ChainFacts
<1>2. TxData[chain[h][i]].staking \in StakingData
  BY Zenon, <1>1, TxFacts DEF IsStake, ParsesAsStaking
<1>3. /\ TxData[chain[h][i]].staking.value \in Values
      /\ TxData[chain[h][i]].staking.idx \in OutIdxs
  BY Zenon, <1>2 DEF StakingData
<1>4. \A o \in BOOLEAN : StakingRecord(chain[h][i], h, o) \in StakingTransaction
  BY <1>1, <1>3 DEF StakingRecord, StakingTransaction
<1> QED
  BY Zenon, <1>1, <1>3, <1>4, StoreAssumption, NilAssumption DEF Stakings

\* The fields of the record of a stake.
LEMMA StakeRecord ==
    ASSUME NEW t, NEW h, NEW o
    PROVE  /\ StakingRecord(t, h, o).idx = TxData[t].staking.idx
           /\ StakingRecord(t, h, o).value = TxData[t].staking.value
           /\ StakingRecord(t, h, o).height = h
           /\ StakingRecord(t, h, o).overflow = o
BY Zenon DEF StakingRecord

\* The flag does not matter for an unbonding.
LEMMA UnbondsRecord ==
    ASSUME NEW t, NEW s, NEW h, NEW o
    PROVE  IsValidUnbondingTx(t, s, StakingRecord(s, h, o)) <=> Unbonds(t, s, h)
BY Zenon DEF IsValidUnbondingTx, Unbonds, StakingRecord

\* The values of the counted stakes are naturals.
LEMMA CountedValues ==
    ASSUME chain \in Chains, NEW last, NEW g, NEW j, NEW s \in Counted(last, g, j)
    PROVE  /\ Stakings[s].value \in Nat
           /\ Stakings[s].value = TxData[s].staking.value
<1>1. PICK h \in BaseHeight..Len(chain) : \E i \in 1..Len(chain[h]) :
              chain[h][i] = s /\ IsStake(s, h)
  BY CountedAt, Zenon
<1>2. PICK i \in 1..Len(chain[h]) : chain[h][i] = s /\ IsStake(s, h)
  BY <1>1
<1> QED
  BY Zenon, <1>2, StakeValue

\* A stake up to height n is stored with its height, one above it is not.
LEMMA StoredUpTo ==
    ASSUME Inv, SourceOK, NEW n \in Int, Settled(n),
           NEW h \in BaseHeight..Len(chain), NEW i \in 1..Len(chain[h]),
           IsStake(chain[h][i], h)
    PROVE  /\ h <= n =>
                 /\ stakingTxs[chain[h][i]] # Nil
                 /\ stakingTxs[chain[h][i]] = StakingRecord(chain[h][i], h,
                                            stakingTxs[chain[h][i]].overflow)
           /\ h > n => stakingTxs[chain[h][i]] = Nil
<1>1. chain \in Chains
  BY DEF Inv, ControlOK
<1>2. ASSUME h <= n PROVE stakingTxs[chain[h][i]] # Nil
  <2>1. Before(h, i, n + 1, 1)
    BY <1>2, ConstantFacts DEF Before
  <2> QED
    BY <2>1, Zenon DEF Settled, AllBefore, FullyProcessed, StakingDone, IsStake
<1>3. ASSUME stakingTxs[chain[h][i]] # Nil
      PROVE  stakingTxs[chain[h][i]] =
                StakingRecord(chain[h][i], h, stakingTxs[chain[h][i]].overflow)
  <2>1. chain[h][i] \in Txs
    BY Zenon, <1>1, AtPosition
  <2>2. PICK k \in BaseHeight..Len(chain) : \E m \in 1..Len(chain[k]) :
            /\ chain[k][m] = chain[h][i]
            /\ stakingTxs[chain[h][i]] =
                  StakingRecord(chain[h][i], k, stakingTxs[chain[h][i]].overflow)
    BY Zenon, <1>3, <2>1 DEF SourceOK, StakesOK
  <2>3. k = h
    BY Zenon, <1>1, <2>2, SamePosition
  <2> QED
    BY Zenon, <2>2, <2>3
<1> QED
  BY Zenon, <1>2, <1>3 DEF Settled, NothingAbove

\* Input 1 of t unbonds a staking tx of the map staked that is not overflow.
Takes(t, staked, S) ==
    /\ 1 \in S
    /\ IsValidUnbondingTx(t, TxData[t].ins[1].tx, staked[TxData[t].ins[1].tx])
    /\ ~staked[TxData[t].ins[1].tx].overflow

\* What a transaction takes from the TVL: it has at most one input that unbonds.
LEMMA UnbondedIs ==
    ASSUME NEW t \in Txs, NEW staked, NEW S, S \subseteq 1..Len(TxData[t].ins)
    PROVE  /\ ~Takes(t, staked, S) => Unbonded(t, staked, S) = 0
           /\ Takes(t, staked, S) /\ staked[TxData[t].ins[1].tx].value \in Nat =>
                 Unbonded(t, staked, S) = staked[TxData[t].ins[1].tx].value
<1> DEFINE s == TxData[t].ins[1].tx
           spent == [i \in S |-> staked[TxData[t].ins[i].tx]]
           V == {i \in S :
                   /\ IsValidUnbondingTx(t, TxData[t].ins[i].tx, spent[i])
                   /\ ~spent[i].overflow}
<1>1. Unbonded(t, staked, S) = Total(spent, V)
  BY DEF Unbonded, Total
<1>2. ASSUME NEW i \in V PROVE i = 1
  <2>1. TxData[t].transfer
    BY Zenon, <1>2 DEF IsValidUnbondingTx
  <2> QED
    BY <2>1, IndexerAssumption
<1>3. 1 \in S => spent[1] = staked[s]
  OBVIOUS
<1>4. 1 \in V <=> Takes(t, staked, S)
  BY Zenon, <1>3 DEF Takes
<1> HIDE DEF spent, V
<1>5. V = {} \/ V = {1}
  BY <1>2
<1>6. Total(spent, {}) = 0
  BY Zenon, TotalStep, FS_EmptySet
<1>7. ASSUME 1 \in V, staked[s].value \in Nat
      PROVE  Total(spent, V) = staked[s].value
  <2>1. spent[1] = staked[s]
    BY <1>3, <1>4, <1>7 DEF Takes
  <2>2. Total(spent, {1}) = spent[1].value
    BY Zenon, <1>7, <2>1, TotalOne
  <2>3. V = {1}
    BY <1>5, <1>7
  <2> QED
    BY Zenon, <2>1, <2>2, <2>3
<1> QED
  BY Zenon, <1>1, <1>4, <1>5, <1>6, <1>7

\* What CountTx subtracts for a transaction that is no staking tx.
Taken(acc, t) ==
    IF SpentStakingInputs(t) # {}
    THEN Unbonded(t, stakingTxs, SpentStakingInputs(t))
    ELSE Unbonded(t, acc.staked, GetSpentFromStakingTxs(t, acc.staked))

\* What a transaction with one input spends.
LEMMA OneInput ==
    ASSUME NEW t, Len(TxData[t].ins) = 1
    PROVE  LET in == TxData[t].ins[1]
           IN  /\ stakingTxs[in.tx] = Nil => SpentStakingInputs(t) = {}
               /\ stakingTxs[in.tx] # Nil /\ stakingTxs[in.tx].idx = in.idx
                     => SpentStakingInputs(t) = {1}
               /\ \A staked : staked[in.tx] # Nil /\ staked[in.tx].idx = in.idx
                     => GetSpentFromStakingTxs(t, staked) = {1}
<1>1. 1..Len(TxData[t].ins) = {1}
  OBVIOUS
<1> QED
  BY <1>1, Zenon
  DEF SpentStakingInputs, GetSpentFromStakingTxs, GetStakingTransaction

\* An unbonding tx takes the value of the stake, which is in the database or in
\* the memory of the loop.
LEMMA TakenFromStake ==
    ASSUME Inv, SourceOK, NEW last \in Int, Settled(last), NEW acc,
           NEW g \in BaseHeight..Len(chain), NEW j \in 1..Len(chain[g]),
           AccOK(acc, last, g, j),
           NEW x \in Counted(last, g, j), UnbondsStake(chain[g][j], x)
    PROVE  Taken(acc, chain[g][j]) = TxData[x].staking.value
<1> PICK h \in BaseHeight..Len(chain) : \E i \in 1..Len(chain[h]) :
        chain[h][i] = x /\ IsStake(x, h) /\ Unbonds(chain[g][j], x, h)
  BY Zenon DEF UnbondsStake
<1> PICK i \in 1..Len(chain[h]) :
        chain[h][i] = x /\ IsStake(x, h) /\ Unbonds(chain[g][j], x, h)
  OBVIOUS
<1> DEFINE t == chain[g][j]
           s == chain[h][i]
<1>1. chain \in Chains
  BY Zenon DEF Inv, ControlOK
<1>2. t \in Txs /\ s \in Txs
  BY Zenon, <1>1, AtPosition
<1>3. /\ Len(TxData[t].ins) = 1
      /\ TxData[t].ins[1].tx = s
      /\ TxData[t].ins[1].idx = TxData[s].staking.idx
  <2>1. Unbonds(t, s, h)
    BY Zenon
  <2> HIDE DEF t, s
  <2> QED
    BY Zenon, <1>2, <2>1, UnbondsFacts
<1>4. Before(h, i, g, j) /\ (h <= last => ~stakingTxs[s].overflow)
  BY Zenon, <1>1, CountedIs
<1>5. TxData[s].staking.value \in Nat
  BY Zenon, <1>1, StakeValue
<1>6. stakingTxs \in [Txs -> StakingTransaction \cup {Nil}]
  BY DEF Inv, TypeOK, StoreTypeOK
<1> HIDE DEF t, s
<1>7. ASSUME NEW staked, NEW o, staked[s] # Nil,
             staked[s] = StakingRecord(s, h, o), ~o, NEW S, S = {1}
      PROVE  Unbonded(t, staked, S) = TxData[s].staking.value
  <2>1. IsValidUnbondingTx(t, s, staked[s])
    BY Zenon, <1>7, UnbondsRecord DEF t, s
  <2>2. ~staked[s].overflow /\ staked[s].value = TxData[s].staking.value
    BY <1>7, StakeRecord
  <2>3. S \subseteq 1..Len(TxData[t].ins) /\ 1 \in S
    BY <1>3, <1>7
  <2>4. staked[s].value \in Nat
    BY Zenon, <1>5, <2>2
  <2>5. s = TxData[t].ins[1].tx
    BY <1>3
  <2>6. Takes(t, staked, S)
    BY Zenon, <2>1, <2>2, <2>3, <2>5 DEF Takes
  <2>7. staked[TxData[t].ins[1].tx].value \in Nat
    BY <2>4, <2>5
  <2>8. Unbonded(t, staked, S) = staked[TxData[t].ins[1].tx].value
    BY <1>2, <2>3, <2>6, <2>7, UnbondedIs, Zenon
  <2> QED
    BY Zenon, <2>2, <2>5, <2>8
<1>8. CASE h <= last
  <2>1. /\ stakingTxs[s] # Nil
        /\ stakingTxs[s] = StakingRecord(s, h, stakingTxs[s].overflow)
    BY Zenon, <1>8, StoredUpTo DEF s
  <2>2. stakingTxs[s].idx = TxData[s].staking.idx
    BY <2>1, StakeRecord
  <2>3. SpentStakingInputs(t) = {1}
    BY <1>3, <2>1, <2>2, OneInput, Zenon
  <2>4. Unbonded(t, stakingTxs, {1}) = TxData[s].staking.value
    <3>1. ~stakingTxs[s].overflow
      BY Zenon, <1>4, <1>8
    <3> QED
      BY <1>7, <2>1, <3>1
  <2>5. x = s
    BY Zenon DEF s
  <2>6. Taken(acc, t) = TxData[s].staking.value
    BY <2>3, <2>4 DEF Taken
  <2> QED
    BY Zenon, <2>5, <2>6 DEF t
<1>9. CASE h > last
  <2>1. stakingTxs[s] = Nil
    BY Zenon, <1>9, StoredUpTo DEF s
  <2>2. SpentStakingInputs(t) = {}
    BY <1>3, <2>1, OneInput, Zenon
  <2>3. acc.staked[s] # Nil
    BY Zenon, <1>4, <1>9 DEF AccOK, s
  <2>4. PICK k \in BaseHeight..Len(chain) : \E n \in 1..Len(chain[k]) :
            chain[k][n] = s /\ acc.staked[s] = StakingRecord(s, k, FALSE)
    BY <1>2, <2>3, Zenon DEF AccOK
  <2>5. k = h
    BY Zenon, <1>1, <2>4, SamePosition DEF s
  <2>6. acc.staked[s].idx = TxData[s].staking.idx
    <3>1. acc.staked[s] = StakingRecord(s, k, FALSE)
      BY <2>4
    <3> QED
      BY <3>1 DEF StakingRecord
  <2>7. GetSpentFromStakingTxs(t, acc.staked) = {1}
    BY <1>3, <2>3, <2>6, OneInput, Zenon
  <2>8. Unbonded(t, acc.staked, {1}) = TxData[s].staking.value
    BY Zenon, <1>7, <2>3, <2>4, <2>5
  <2> QED
    BY <2>2, <2>7, <2>8 DEF Taken, t, s
<1> QED
  BY <1>8, <1>9, ConstantFacts

\* A transaction that unbonds no active stake takes nothing.
LEMMA TakenFromNone ==
    ASSUME Inv, SourceOK, NEW last \in Int, Settled(last), NEW acc,
           NEW g \in BaseHeight..Len(chain), NEW j \in 1..Len(chain[g]),
           AccOK(acc, last, g, j),
           \A h \in BaseHeight..Len(chain) : \A i \in 1..Len(chain[h]) :
              IsStake(chain[h][i], h) /\ chain[h][i] \in Counted(last, g, j)
                 => ~Unbonds(chain[g][j], chain[h][i], h)
    PROVE  Taken(acc, chain[g][j]) = 0
<1> DEFINE t == chain[g][j]
           s == TxData[t].ins[1].tx
<1>1. chain \in Chains
  BY DEF Inv, ControlOK
<1>2. t \in Txs
  BY Zenon, <1>1, AtPosition
<1>3. ASSUME NEW h \in BaseHeight..Len(chain), NEW i \in 1..Len(chain[h]),
             IsStake(chain[h][i], h),
             h <= last => ~stakingTxs[chain[h][i]].overflow
      PROVE  ~Unbonds(t, chain[h][i], h)
  BY Zenon, <1>1, <1>3, ActiveUntilUnbonded
<1> HIDE DEF t, s
<1>4. CASE SpentStakingInputs(t) # {}
  <2> DEFINE S == SpentStakingInputs(t)
  <2>1. S \subseteq 1..Len(TxData[t].ins)
    BY DEF SpentStakingInputs
  <2>2. ASSUME Takes(t, stakingTxs, S) PROVE FALSE
    <3>1. /\ 1 \in 1..Len(TxData[t].ins) /\ stakingTxs[s] # Nil
          /\ IsValidUnbondingTx(t, s, stakingTxs[s])
          /\ ~stakingTxs[s].overflow
      BY Zenon, <2>2 DEF Takes, SpentStakingInputs, GetStakingTransaction, s
    <3>2. s \in Txs
      BY Zenon, <1>2, <3>1, TxFacts DEF s
    <3>3. PICK h \in BaseHeight..Len(chain) : \E i \in 1..Len(chain[h]) :
              /\ chain[h][i] = s /\ IsStake(s, h)
              /\ stakingTxs[s] = StakingRecord(s, h, stakingTxs[s].overflow)
      BY <3>1, <3>2, Zenon DEF SourceOK, StakesOK
    <3>4. PICK i \in 1..Len(chain[h]) : chain[h][i] = s /\ IsStake(s, h)
      BY Zenon, <3>3
    <3>5. Unbonds(t, s, h)
      BY <3>1, <3>3, UnbondsRecord
    <3> QED
      BY Zenon, <1>3, <3>1, <3>4, <3>5
  <2>3. Unbonded(t, stakingTxs, S) = 0
    BY <1>2, <2>1, <2>2, UnbondedIs, Zenon
  <2> QED
    BY Zenon, <1>4, <2>3 DEF Taken, t
<1>5. CASE SpentStakingInputs(t) = {}
  <2> DEFINE S == GetSpentFromStakingTxs(t, acc.staked)
  <2>1. S \subseteq 1..Len(TxData[t].ins)
    BY Zenon DEF GetSpentFromStakingTxs
  <2>2. ASSUME Takes(t, acc.staked, S) PROVE FALSE
    <3>1. /\ 1 \in 1..Len(TxData[t].ins) /\ acc.staked[s] # Nil
          /\ IsValidUnbondingTx(t, s, acc.staked[s])
      BY Zenon, <2>2 DEF Takes, GetSpentFromStakingTxs, s
    <3>2. s \in Txs
      BY Zenon, <1>2, <3>1, TxFacts DEF s
    <3>3. PICK h \in BaseHeight..Len(chain) : \E i \in 1..Len(chain[h]) :
              /\ chain[h][i] = s /\ h > last /\ IsStake(s, h)
              /\ acc.staked[s] = StakingRecord(s, h, FALSE)
      BY <3>1, <3>2, Zenon DEF AccOK
    <3>4. PICK i \in 1..Len(chain[h]) : chain[h][i] = s /\ IsStake(s, h)
      BY Zenon, <3>3
    <3>5. Unbonds(t, s, h)
      BY <3>1, <3>3, Zenon DEF Unbonds
    <3>6. ~(h <= last)
      BY <3>3, ConstantFacts
    <3> QED
      BY Zenon, <1>3, <3>4, <3>5, <3>6
  <2>3. Unbonded(t, acc.staked, S) = 0
    BY <1>2, <2>1, <2>2, UnbondedIs, Zenon
  <2> QED
    BY <1>5, <2>3 DEF Taken, t
<1> QED
  BY Zenon, <1>4, <1>5

\* The set of counted stakes loses an element, or gains one.
LEMMA TotalWithout ==
    ASSUME NEW C, IsFiniteSet(C), NEW s \in C,
           \A x \in C : /\ Stakings[x].value \in Nat
                       /\ Stakings[x].value = TxData[x].staking.value
    PROVE  /\ IsFiniteSet(C \ {s})
           /\ TxData[s].staking.value \in Nat
           /\ Total(Stakings, C) =
                 TxData[s].staking.value + Total(Stakings, C \ {s})
           /\ Total(Stakings, C \ {s}) \in Nat
<1> DEFINE D == C \ {s}
<1>1. IsFiniteSet(D) /\ \A x \in D : x \in C
  BY Zenon, FS_Subset
<1>2. Total(Stakings, C) = Stakings[s].value + Total(Stakings, D)
  BY TotalRemove
<1> HIDE DEF D
<1>3. Total(Stakings, D) \in Nat
  BY <1>1, TotalNat
<1> QED
  BY Zenon, <1>1, <1>2, <1>3 DEF D

\* A transaction that is no stake leaves the memory of the loop as it is.
LEMMA SpendStep ==
    ASSUME NEW last, NEW acc, NEW v \in Int,
           NEW g \in BaseHeight..Len(chain), NEW j \in 1..Len(chain[g]),
           ~IsStake(chain[g][j], g),
           AccOK(acc, last, g, j),
           IsFiniteSet(Counted(last, g, j + 1)),
           GetConfirmedTvl + (acc.tvl - v) =
              Total(Stakings, Counted(last, g, j + 1))
    PROVE  AccOK([acc EXCEPT !.tvl = @ - v], last, g, j + 1)
<1> DEFINE new == [acc EXCEPT !.tvl = @ - v]
<1>1. acc \in [tvl : Int, staked : [Txs -> StakingTransaction \cup {Nil}]]
  BY DEF AccOK
<1>2. /\ new \in [tvl : Int, staked : [Txs -> StakingTransaction \cup {Nil}]]
      /\ new.tvl = acc.tvl - v /\ new.staked = acc.staked
  BY <1>1
<1> HIDE DEF new
<1>3. ASSUME NEW h \in BaseHeight..Len(chain), NEW i \in 1..Len(chain[h]),
             Before(h, i, g, j + 1), IsStake(chain[h][i], h)
      PROVE  Before(h, i, g, j)
  <2>1. h \in Int /\ i \in Int /\ g \in Int /\ j \in Int
    BY ConstantFacts
  <2>2. Before(h, i, g, j) \/ (h = g /\ i = j)
    BY <1>3, <2>1, BeforeNext, Zenon
  <2> QED
    BY <1>3, <2>2, Zenon
<1>4. \A h \in BaseHeight..Len(chain) : \A i \in 1..Len(chain[h]) :
         h > last /\ Before(h, i, g, j + 1) /\ IsStake(chain[h][i], h) =>
             acc.staked[chain[h][i]] # Nil
  BY Zenon, <1>3 DEF AccOK
<1>5. \A s \in Txs : acc.staked[s] # Nil =>
         \E h \in BaseHeight..Len(chain) : \E i \in 1..Len(chain[h]) :
             /\ chain[h][i] = s /\ h > last
             /\ IsStake(s, h)
             /\ acc.staked[s] = StakingRecord(s, h, FALSE)
  BY Zenon DEF AccOK
<1>6. GetConfirmedTvl + new.tvl = Total(Stakings, Counted(last, g, j + 1))
  BY <1>2
<1>7. AccOK(new, last, g, j + 1)
  <2>1. new.staked = acc.staked
    BY Zenon, <1>2
  <2>2. \A h \in BaseHeight..Len(chain) : \A i \in 1..Len(chain[h]) :
           h > last /\ Before(h, i, g, j + 1) /\ IsStake(chain[h][i], h) =>
               new.staked[chain[h][i]] # Nil
    BY <1>4, <2>1
  <2>3. \A s \in Txs : new.staked[s] # Nil =>
           \E h \in BaseHeight..Len(chain) : \E i \in 1..Len(chain[h]) :
               /\ chain[h][i] = s /\ h > last
               /\ IsStake(s, h)
               /\ new.staked[s] = StakingRecord(s, h, FALSE)
    BY <1>5, <2>1, Zenon
  <2> QED
    BY <1>2, <1>6, <2>2, <2>3, Zenon DEF AccOK
<1> QED
  BY Zenon, <1>7 DEF new

\* A stake is added to the sum and to the memory of the loop.
LEMMA NewStakeStep ==
    ASSUME Inv, NEW last \in Int, NEW acc,
           NEW g \in BaseHeight..Len(chain), NEW j \in 1..Len(chain[g]),
           g > last, IsStake(chain[g][j], g),
           AccOK(acc, last, g, j)
    PROVE  AccOK([tvl    |-> acc.tvl + TxData[chain[g][j]].staking.value,
                  staked |-> [acc.staked EXCEPT
                      ![chain[g][j]] = StakingRecord(chain[g][j], g, FALSE)]],
                 last, g, j + 1)
<1> DEFINE t == chain[g][j]
           C == Counted(last, g, j)
           D == Counted(last, g, j + 1)
           v == TxData[t].staking.value
           r == StakingRecord(t, g, FALSE)
           new == [tvl |-> acc.tvl + v, staked |-> [acc.staked EXCEPT ![t] = r]]
<1>1. chain \in Chains
  BY DEF Inv, ControlOK
<1>2. t \in Txs
  BY <1>1, AtPosition
<1>3. r \in StakingTransaction /\ r # Nil /\ v \in Nat
  BY Zenon, <1>1, StakeValue
<1>4. t \notin C /\ D = C \cup {t}
  BY <1>1, CountStake
<1>5. /\ acc.tvl \in Int
      /\ acc.staked \in [Txs -> StakingTransaction \cup {Nil}]
      /\ IsFiniteSet(C)
      /\ GetConfirmedTvl + acc.tvl = Total(Stakings, C)
  BY DEF AccOK
<1>6. GetConfirmedTvl \in Nat
  BY DEF Inv, TypeOK, StoreTypeOK, GetConfirmedTvl
<1> HIDE DEF t, C, D, v, r
<1>7. /\ new \in [tvl : Int, staked : [Txs -> StakingTransaction \cup {Nil}]]
      /\ new.tvl = acc.tvl + v
      /\ new.staked = [acc.staked EXCEPT ![t] = r]
  BY <1>2, <1>3, <1>5
<1> HIDE DEF new
<1>8. IsFiniteSet(D) /\ D \ {t} = C /\ t \in D
  <2>1. IsFiniteSet(C \cup {t})
    BY Zenon, <1>5, FS_AddElement
  <2> QED
    BY Zenon, <1>4, <2>1
<1>9. /\ Total(Stakings, D) = v + Total(Stakings, C)
      /\ Total(Stakings, C) \in Nat
  <2>1. /\ Total(Stakings, D) = v + Total(Stakings, D \ {t})
        /\ Total(Stakings, D \ {t}) \in Nat
    <3>1. \A x \in D : /\ Stakings[x].value \in Nat
                      /\ Stakings[x].value = TxData[x].staking.value
      BY Zenon, <1>1, CountedValues DEF D
    <3> QED
      BY Zenon, <1>8, <3>1, TotalWithout DEF v
  <2> QED
    BY Zenon, <1>8, <2>1
<1>10. GetConfirmedTvl + new.tvl = Total(Stakings, D)
  <2>1. /\ acc.tvl \in Int /\ new.tvl = acc.tvl + v
        /\ GetConfirmedTvl + acc.tvl = Total(Stakings, C)
        /\ Total(Stakings, D) = v + Total(Stakings, C)
    BY Zenon, <1>5, <1>7, <1>9
  <2> QED
    BY <1>3, <1>6, <2>1
<1>11. ASSUME NEW s \in Txs, new.staked[s] # Nil
       PROVE  \E h \in BaseHeight..Len(chain) : \E i \in 1..Len(chain[h]) :
                 /\ chain[h][i] = s /\ h > last
                 /\ IsStake(s, h)
                 /\ new.staked[s] = StakingRecord(s, h, FALSE)
  <2>1. CASE s = t
    <3>1. new.staked[t] = r
      BY <1>2, <1>5, <1>7
    <3> QED
      BY Zenon, <2>1, <3>1 DEF t, r
  <2>2. CASE s # t
    <3>1. new.staked[s] = acc.staked[s]
      BY Zenon, <1>5, <1>7, <2>2
    <3> QED
      BY <1>11, <3>1, Zenon DEF AccOK
  <2> QED
    BY Zenon, <2>1, <2>2
<1>12. ASSUME NEW h \in BaseHeight..Len(chain), NEW i \in 1..Len(chain[h]),
              h > last, Before(h, i, g, j + 1), IsStake(chain[h][i], h)
       PROVE  new.staked[chain[h][i]] # Nil
  <2>1. chain[h][i] \in Txs
    BY Zenon, <1>1, AtPosition
  <2>2. CASE chain[h][i] = t
    BY Zenon, <1>2, <1>3, <1>5, <1>7, <2>2
  <2>3. CASE chain[h][i] # t
    <3>1. Before(h, i, g, j)
      <4>1. h \in Int /\ i \in Int /\ g \in Int /\ j \in Int
        BY ConstantFacts
      <4>2. ~(h = g /\ i = j)
        BY Zenon, <2>3 DEF t
      <4> QED
        BY Zenon, <1>12, <4>1, <4>2, BeforeNext
    <3>2. acc.staked[chain[h][i]] # Nil
      <4>1. \A k \in BaseHeight..Len(chain) : \A n \in 1..Len(chain[k]) :
               k > last /\ Before(k, n, g, j) /\ IsStake(chain[k][n], k) =>
                   acc.staked[chain[k][n]] # Nil
        BY Zenon DEF AccOK
      <4> QED
        BY Zenon, <1>12, <3>1, <4>1
    <3> QED
      BY Zenon, <1>5, <1>7, <2>1, <2>3, <3>2
  <2> QED
    BY Zenon, <2>2, <2>3
<1>13. AccOK(new, last, g, j + 1)
  BY <1>7, <1>8, <1>10, <1>11, <1>12, Zenon DEF AccOK, D
<1> QED
  BY <1>13 DEF new, t, v, r

\* What is taken from the running sum is taken from the total.
LEMMA Difference ==
    ASSUME NEW acc, NEW v \in Nat, NEW D,
           acc.tvl \in Int, GetConfirmedTvl \in Nat, Total(Stakings, D) \in Nat,
           GetConfirmedTvl + acc.tvl = v + Total(Stakings, D)
    PROVE  GetConfirmedTvl + (acc.tvl - v) = Total(Stakings, D)
OBVIOUS

\* A stake s is taken out of the sum.
LEMMA SumWithout ==
    ASSUME Inv, NEW last, NEW acc,
           NEW g \in BaseHeight..Len(chain), NEW j \in 1..Len(chain[g]),
           ~IsStake(chain[g][j], g), AccOK(acc, last, g, j),
           NEW s \in Counted(last, g, j), Drops(last, g, j, s)
    PROVE  AccOK([acc EXCEPT !.tvl = @ - TxData[s].staking.value],
                 last, g, j + 1)
<1> DEFINE C == Counted(last, g, j)
           D == Counted(last, g, j + 1)
           v == TxData[s].staking.value
<1>1. chain \in Chains
  BY DEF Inv, ControlOK
<1>2. /\ acc.tvl \in Int
      /\ IsFiniteSet(C)
      /\ GetConfirmedTvl + acc.tvl = Total(Stakings, C)
  BY Zenon DEF AccOK
<1>3. /\ IsFiniteSet(D) /\ v \in Nat
      /\ Total(Stakings, C) = v + Total(Stakings, D)
      /\ Total(Stakings, D) \in Nat
  <2>1. /\ IsFiniteSet(C \ {s}) /\ v \in Nat
        /\ Total(Stakings, C) = v + Total(Stakings, C \ {s})
        /\ Total(Stakings, C \ {s}) \in Nat
    <3>1. \A x \in C : /\ Stakings[x].value \in Nat
                      /\ Stakings[x].value = TxData[x].staking.value
      BY Zenon, <1>1, CountedValues
    <3> HIDE DEF C
    <3>2. s \in C
      BY Zenon DEF C
    <3> QED
      BY Zenon, <1>2, <3>1, <3>2, TotalWithout
  <2>2. D = C \ {s}
    BY Zenon DEF Drops
  <2> HIDE DEF C, D, v
  <2> QED
    BY Zenon, <2>1, <2>2
<1>4. GetConfirmedTvl \in Nat
  BY DEF Inv, TypeOK, StoreTypeOK, GetConfirmedTvl
<1>5. GetConfirmedTvl + (acc.tvl - v) = Total(Stakings, D)
  <2> HIDE DEF v, C, D
  <2>1. /\ acc.tvl \in Int /\ GetConfirmedTvl \in Nat
        /\ v \in Nat /\ Total(Stakings, D) \in Nat
        /\ GetConfirmedTvl + acc.tvl = v + Total(Stakings, D)
    BY <1>2, <1>3, <1>4, Zenon
  <2> QED
    BY <2>1, Difference, Zenon
<1>6. v \in Int
  BY <1>3
<1> QED
  BY <1>3, <1>5, <1>6, SpendStep, Zenon

\* An unbonding tx takes a stake out of the sum.
LEMMA UnbondingStep ==
    ASSUME Inv, SourceOK, NEW last \in Int, Settled(last), NEW acc,
           NEW g \in BaseHeight..Len(chain), NEW j \in 1..Len(chain[g]),
           AccOK(acc, last, g, j), ~IsStake(chain[g][j], g),
           NEW s \in Counted(last, g, j), UnbondsStake(chain[g][j], s)
    PROVE  AccOK([acc EXCEPT !.tvl = @ - Taken(acc, chain[g][j])],
                 last, g, j + 1)
<1>1. Taken(acc, chain[g][j]) = TxData[s].staking.value
  BY TakenFromStake
<1>2. chain \in Chains
  BY Zenon DEF Inv, ControlOK
<1>3. Drops(last, g, j, s)
  BY <1>2, CountUnbonding
<1>4. AccOK([acc EXCEPT !.tvl = @ - TxData[s].staking.value], last, g, j + 1)
  BY <1>3, SumWithout, Zenon
<1> QED
  BY Zenon, <1>1, <1>4

\* CountTx keeps the sum and the memory right, whatever the transaction is.
LEMMA CountTxStep ==
    ASSUME Inv, SourceOK, NEW last \in Int, Settled(last), NEW acc,
           NEW g \in BaseHeight..Len(chain), NEW j \in 1..Len(chain[g]),
           g > last, AccOK(acc, last, g, j)
    PROVE  AccOK(CountTx(acc, chain[g][j], g), last, g, j + 1)
<1> DEFINE t == chain[g][j]
           C == Counted(last, g, j)
           D == Counted(last, g, j + 1)
<1>1. chain \in Chains
  BY DEF Inv, ControlOK
<1>2. t \in Txs
  BY Zenon, <1>1, AtPosition
<1>3. /\ acc \in [tvl : Int, staked : [Txs -> StakingTransaction \cup {Nil}]]
      /\ IsFiniteSet(C)
      /\ GetConfirmedTvl + acc.tvl = Total(Stakings, C)
  BY DEF AccOK
<1>4. GetConfirmedTvl \in Nat
  BY DEF Inv, TypeOK, StoreTypeOK, GetConfirmedTvl
<1>5. CASE IsStake(t, g)
  <2>1. CountTx(acc, t, g) =
           [tvl    |-> acc.tvl + TxData[t].staking.value,
            staked |-> [acc.staked EXCEPT ![t] = StakingRecord(t, g, FALSE)]]
    BY <1>5 DEF CountTx, IsStake
  <2> QED
    BY Zenon, <1>5, <2>1, NewStakeStep
<1>6. ASSUME ~IsStake(t, g),
             \A h \in BaseHeight..Len(chain) : \A i \in 1..Len(chain[h]) :
                IsStake(chain[h][i], h) /\ chain[h][i] \in C
                   => ~Unbonds(t, chain[h][i], h)
      PROVE  AccOK([acc EXCEPT !.tvl = @ - 0], last, g, j + 1)
  <2>1. D = C
    BY Zenon, <1>1, <1>6, CountOther
  <2>2. GetConfirmedTvl + (acc.tvl - 0) = Total(Stakings, D)
    <3>1. acc.tvl \in Int
      BY Zenon, <1>3
    <3>2. acc.tvl - 0 = acc.tvl
      BY <3>1
    <3> QED
      BY Zenon, <1>3, <2>1, <3>2
  <2> QED
    BY <1>3, <1>6, <2>1, <2>2, SpendStep
<1>7. CASE ParsesAsStaking(t, ParamsAt[g]) /\ ~IsStake(t, g)
  <2>1. CountTx(acc, t, g) = acc
    BY <1>7 DEF CountTx, IsStake
  <2>2. [acc EXCEPT !.tvl = @ - 0] = acc
    BY <1>3
  <2>3. TxData[t].staking # Nil
    BY Zenon, <1>7 DEF ParsesAsStaking
  <2>4. \A s, h : ~Unbonds(t, s, h)
    BY Zenon, <1>2, <2>3, UnbondsFacts, InfoAssumption
  <2> QED
    BY Zenon, <1>6, <1>7, <2>1, <2>2, <2>4
<1>8. CASE ~ParsesAsStaking(t, ParamsAt[g])
  <2>1. CountTx(acc, t, g) = [acc EXCEPT !.tvl = @ - Taken(acc, t)]
    BY <1>8 DEF CountTx, Taken
  <2>2. ~IsStake(t, g)
    BY <1>8 DEF IsStake
  <2>3. CASE \A h \in BaseHeight..Len(chain) : \A i \in 1..Len(chain[h]) :
                IsStake(chain[h][i], h) /\ chain[h][i] \in C
                   => ~Unbonds(t, chain[h][i], h)
    <3>1. Taken(acc, t) = 0
      BY Zenon, <2>3, TakenFromNone
    <3> QED
      BY Zenon, <1>6, <2>1, <2>2, <2>3, <3>1
  <2>4. ASSUME NEW h \in BaseHeight..Len(chain), NEW i \in 1..Len(chain[h]),
               IsStake(chain[h][i], h), chain[h][i] \in C,
               Unbonds(t, chain[h][i], h)
        PROVE  AccOK([acc EXCEPT !.tvl = @ - Taken(acc, t)], last, g, j + 1)
    <3>1. UnbondsStake(t, chain[h][i])
      BY <2>4, Zenon DEF UnbondsStake
    <3> QED
      BY <2>2, <2>4, <3>1, UnbondingStep, Zenon
  <2> QED
    BY Zenon, <2>1, <2>3, <2>4
<1> QED
  BY <1>5, <1>7, <1>8

----------------------------------------------------------------------------
(* The loops, as recursive functions.                                      *)

\* f is the loop over the first n transactions of the block at height h.
IsBlockLoop(f, acc, h, n) ==
    f = [i \in 0..n |->
            IF i = 0 THEN acc ELSE CountTx(f[i - 1], chain[h][i], h)]

LEMMA BlockLoop ==
    ASSUME NEW acc, NEW h, NEW n \in Nat
    PROVE  \E f : IsBlockLoop(f, acc, h, n)
<1> DEFINE Body(f, i) == IF i = 0 THEN acc ELSE CountTx(f[i - 1], chain[h][i], h)
           Fun(m, f) == f = [i \in 0..m |-> Body(f, i)]
           K == {m \in Nat : ~ \E f : Fun(m, f)}
<1>1. ASSUME K # {} PROVE FALSE
  <2>1. PICK m \in K : \A k \in K : m <= k
    <3>1. K \in SUBSET Nat
      OBVIOUS
    <3> HIDE DEF K
    <3> QED
      BY <1>1, <3>1, Least
  <2>2. CASE m = 0
    <3> DEFINE f == [i \in 0..0 |-> acc]
    <3>1. Fun(0, f)
      OBVIOUS
    <3> QED
      BY <2>2, <3>1, Zenon
  <2>3. CASE m > 0
    <3>1. m \in Nat /\ m - 1 \in Nat /\ m - 1 \notin K
      <4>1. m \in Nat
        BY <2>1, Zenon
      <4> HIDE DEF K
      <4> QED
        BY <2>1, <2>3, <4>1
    <3>2. PICK f : Fun(m - 1, f)
      BY <3>1, Zenon
    <3> DEFINE g == [i \in 0..m |-> IF i = m THEN Body(f, m) ELSE f[i]]
    <3>3. ASSUME NEW i \in 0..m PROVE g[i] = Body(g, i)
      <4>1. CASE i = m
        <5>1. m - 1 \in 0..m /\ m - 1 # m
          BY <3>1
        <5>2. g[m - 1] = f[m - 1] /\ g[m] = Body(f, m)
          BY <3>1, <5>1
        <5> QED
          BY Zenon, <2>3, <4>1, <5>2
      <4>2. CASE i # m /\ i # 0
        <5>1. i \in 0..(m - 1) /\ i - 1 \in 0..m /\ i - 1 # m
          BY <3>1, <4>2
        <5>2. f[i] = Body(f, i)
          BY Zenon, <3>2, <5>1
        <5>3. g[i] = f[i] /\ g[i - 1] = f[i - 1]
          BY Zenon, <4>2, <5>1
        <5> QED
          BY Zenon, <4>2, <5>2, <5>3
      <4>3. CASE i # m /\ i = 0
        <5>1. 0 \in 0..(m - 1)
          BY <3>1
        <5> QED
          BY Zenon, <3>2, <4>3, <5>1
      <4> QED
        BY Zenon, <4>1, <4>2, <4>3
    <3>4. Fun(m, g)
      BY <3>3
    <3> QED
      BY <2>1, <3>4, Zenon
  <2> QED
    BY <2>1, <2>2, <2>3
<1> QED
  BY <1>1, Zenon DEF IsBlockLoop

\* After the last transaction of a block comes the first of the next one.
LEMMA AccEnd ==
    ASSUME chain \in Chains, NEW last, NEW acc,
           NEW g \in BaseHeight..Len(chain),
           AccOK(acc, last, g, Len(chain[g]) + 1)
    PROVE  AccOK(acc, last, g + 1, 1)
<1> DEFINE n == Len(chain[g]) + 1
<1>1. g \in Int /\ Len(chain[g]) \in Nat
  BY ConstantFacts, ChainFacts
<1>2. ASSUME NEW h \in BaseHeight..Len(chain), NEW i \in 1..Len(chain[h])
      PROVE  Before(h, i, g, n) <=> Before(h, i, g + 1, 1)
  BY <1>1, ConstantFacts DEF Before
<1>3. Counted(last, g, n) = Counted(last, g + 1, 1)
  BY CountEnd, Zenon
<1> HIDE DEF n
<1>4. AccOK(acc, last, g, n)
  BY DEF n
<1>5. \A h \in BaseHeight..Len(chain) : \A i \in 1..Len(chain[h]) :
         h > last /\ Before(h, i, g, n) /\ IsStake(chain[h][i], h) =>
             acc.staked[chain[h][i]] # Nil
  BY <1>4, Zenon DEF AccOK
<1>6. \A h \in BaseHeight..Len(chain) : \A i \in 1..Len(chain[h]) :
         h > last /\ Before(h, i, g + 1, 1) /\ IsStake(chain[h][i], h) =>
             acc.staked[chain[h][i]] # Nil
  BY <1>2, <1>5, Zenon
<1>7. /\ IsFiniteSet(Counted(last, g, n))
      /\ GetConfirmedTvl + acc.tvl = Total(Stakings, Counted(last, g, n))
  BY <1>4, Zenon DEF AccOK
<1>8. /\ IsFiniteSet(Counted(last, g + 1, 1))
      /\ GetConfirmedTvl + acc.tvl = Total(Stakings, Counted(last, g + 1, 1))
  BY Zenon, <1>3, <1>7
<1> QED
  BY <1>4, <1>6, <1>8, Zenon DEF AccOK

\* The loop over the transactions of a block.
LEMMA CountBlockStep ==
    ASSUME Inv, SourceOK, NEW last \in Int, Settled(last), NEW acc,
           NEW g \in BaseHeight..Len(chain), g > last, AccOK(acc, last, g, 1)
    PROVE  AccOK(CountBlock(acc, g), last, g + 1, 1)
<1> DEFINE n == Len(chain[g])
           f == CHOOSE f : f = [i \in 0..n |->
                    IF i = 0 THEN acc ELSE CountTx(f[i - 1], chain[g][i], g)]
           K == {i \in Nat : i <= n /\ ~AccOK(f[i], last, g, i + 1)}
<1>1. chain \in Chains
  BY DEF Inv, ControlOK
<1>2. n \in Nat
  BY <1>1, ChainFacts
<1>3. f = [i \in 0..n |->
              IF i = 0 THEN acc ELSE CountTx(f[i - 1], chain[g][i], g)]
  <2> HIDE DEF n
  <2>1. \E x : IsBlockLoop(x, acc, g, n)
    BY <1>2, BlockLoop, Zenon
  <2> QED
    BY <2>1, Zenon DEF IsBlockLoop
<1>4. CountBlock(acc, g) = f[n]
  BY DEF CountBlock
<1> HIDE DEF f
<1>5. ASSUME K # {} PROVE FALSE
  <2>1. PICK m \in K : \A k \in K : m <= k
    <3>1. K \in SUBSET Nat
      OBVIOUS
    <3> HIDE DEF K
    <3> QED
      BY Zenon, <1>5, <3>1, Least
  <2>2. m \in Nat /\ m <= n /\ ~AccOK(f[m], last, g, m + 1)
    BY <2>1
  <2>3. CASE m = 0
    <3>1. f[0] = acc
      BY <1>2, <1>3
    <3>2. 0 + 1 = 1
      OBVIOUS
    <3> QED
      BY Zenon, <2>2, <2>3, <3>1, <3>2
  <2>4. CASE m > 0
    <3>1. m - 1 \in Nat /\ m - 1 <= n /\ m - 1 \notin K
      <4> HIDE DEF n, K
      <4> QED
        BY <1>2, <2>1, <2>2, <2>4
    <3>2. AccOK(f[m - 1], last, g, (m - 1) + 1)
      BY <3>1
    <3>3. m \in 1..n /\ (m - 1) + 1 = m
      BY <1>2, <2>2, <2>4
    <3>4. AccOK(f[m - 1], last, g, m)
      BY <3>2, <3>3
    <3>5. AccOK(CountTx(f[m - 1], chain[g][m], g), last, g, m + 1)
      BY <3>3, <3>4, CountTxStep, Zenon
    <3>6. f[m] = CountTx(f[m - 1], chain[g][m], g)
      <4>1. m \in 0..n /\ m # 0
        BY <1>2, <2>2, <2>4
      <4> HIDE DEF n, K
      <4> QED
        BY <1>3, <4>1, Zenon
    <3> QED
      BY Zenon, <2>2, <3>5, <3>6
  <2> QED
    <3>1. m = 0 \/ m > 0
      BY <2>2
    <3> QED
      BY Zenon, <2>3, <2>4, <3>1
<1>6. AccOK(f[n], last, g, n + 1)
  BY <1>2, <1>5
<1> QED
  BY Zenon, <1>1, <1>4, <1>6, AccEnd

\* The loop over n blocks is a function too.
IsChainLoop(f, last, n) ==
    f = [k \in 0..n |->
            IF k = 0 THEN [tvl |-> 0, staked |-> [t \in Txs |-> Nil]]
            ELSE CountBlock(f[k - 1], last + k)]

LEMMA ChainLoop ==
    ASSUME NEW last, NEW n \in Nat
    PROVE  \E f : IsChainLoop(f, last, n)
<1>1. PICK acc : acc = [tvl |-> 0, staked |-> [t \in Txs |-> Nil]]
  BY Zenon
<1> DEFINE Body(f, i) == IF i = 0 THEN acc ELSE CountBlock(f[i - 1], last + i)
           Fun(m, f) == f = [i \in 0..m |-> Body(f, i)]
           K == {m \in Nat : ~ \E f : Fun(m, f)}
<1>2. ASSUME K # {} PROVE FALSE
  <2>1. PICK m \in K : \A k \in K : m <= k
    <3>1. K \in SUBSET Nat
      OBVIOUS
    <3> HIDE DEF K
    <3> QED
      BY <1>2, <3>1, Least
  <2>2. CASE m = 0
    <3> DEFINE f == [i \in 0..0 |-> acc]
    <3>1. Fun(0, f)
      OBVIOUS
    <3> QED
      BY <2>2, <3>1, Zenon
  <2>3. CASE m > 0
    <3>1. m \in Nat /\ m - 1 \in Nat /\ m - 1 \notin K
      <4>1. m \in Nat
        BY <2>1, Zenon
      <4> HIDE DEF K
      <4> QED
        BY <2>1, <2>3, <4>1
    <3>2. PICK f : Fun(m - 1, f)
      BY <3>1, Zenon
    <3> DEFINE g == [i \in 0..m |-> IF i = m THEN Body(f, m) ELSE f[i]]
    <3>3. ASSUME NEW i \in 0..m PROVE g[i] = Body(g, i)
      <4>1. CASE i = m
        <5>1. m - 1 \in 0..m /\ m - 1 # m
          BY <3>1
        <5>2. g[m - 1] = f[m - 1] /\ g[m] = Body(f, m)
          BY <3>1, <5>1
        <5> QED
          BY Zenon, <2>3, <4>1, <5>2
      <4>2. CASE i # m /\ i # 0
        <5>1. i \in 0..(m - 1) /\ i - 1 \in 0..m /\ i - 1 # m
          BY <3>1, <4>2
        <5>2. f[i] = Body(f, i)
          BY Zenon, <3>2, <5>1
        <5>3. g[i] = f[i] /\ g[i - 1] = f[i - 1]
          BY Zenon, <4>2, <5>1
        <5> QED
          BY Zenon, <4>2, <5>2, <5>3
      <4>3. CASE i # m /\ i = 0
        <5>1. 0 \in 0..(m - 1)
          BY <3>1
        <5> QED
          BY Zenon, <3>2, <4>3, <5>1
      <4> QED
        BY Zenon, <4>1, <4>2, <4>3
    <3>4. Fun(m, g)
      BY <3>3
    <3> QED
      BY <2>1, <3>4, Zenon
  <2> QED
    BY <2>1, <2>2, <2>3
<1>3. \E f : Fun(n, f)
  BY <1>2, Zenon
<1> QED
  BY Zenon, <1>1, <1>3 DEF IsChainLoop

\* Before its first block the loop has counted nothing.
LEMMA AccStart ==
    ASSUME Inv, NEW last \in Int, IsFiniteSet(Counted(last, last + 1, 1)),
           GetConfirmedTvl = Total(Stakings, Counted(last, last + 1, 1))
    PROVE  AccOK([tvl |-> 0, staked |-> [t \in Txs |-> Nil]],
                 last, last + 1, 1)
<1>1. PICK acc : acc = [tvl |-> 0, staked |-> [t \in Txs |-> Nil]]
  BY Zenon
<1>2. /\ acc \in [tvl : Int, staked : [Txs -> StakingTransaction \cup {Nil}]]
      /\ acc.tvl = 0
  BY <1>1
<1>3. ASSUME NEW s \in Txs PROVE acc.staked[s] = Nil
  BY Zenon, <1>1
<1>4. ASSUME NEW h \in BaseHeight..Len(chain), NEW i \in 1..Len(chain[h])
      PROVE  ~(h > last /\ Before(h, i, last + 1, 1))
  BY ConstantFacts DEF Before
<1>5. GetConfirmedTvl \in Nat
  BY DEF Inv, TypeOK, StoreTypeOK, GetConfirmedTvl
<1>6. GetConfirmedTvl + acc.tvl = GetConfirmedTvl
  BY <1>2, <1>5
<1>7. AccOK(acc, last, last + 1, 1)
  BY <1>2, <1>3, <1>4, <1>6, Zenon DEF AccOK
<1> QED
  BY <1>1, <1>7

\* The loop over n blocks counts the stakes up to height last + n.
LEMMA CountBlocksStep ==
    ASSUME Inv, SourceOK, NEW last \in Int, last + 1 >= BaseHeight,
           Settled(last), NEW n \in Nat, last + n <= Len(chain),
           IsFiniteSet(Counted(last, last + 1, 1)),
           GetConfirmedTvl = Total(Stakings, Counted(last, last + 1, 1))
    PROVE  AccOK(CountBlocks(last, n), last, last + n + 1, 1)
<1>1. PICK acc : /\ acc = [tvl |-> 0, staked |-> [t \in Txs |-> Nil]]
                 /\ AccOK(acc, last, last + 1, 1)
  BY AccStart, Zenon
<1> DEFINE f == CHOOSE f : f = [k \in 0..n |->
                    IF k = 0 THEN [tvl |-> 0, staked |-> [t \in Txs |-> Nil]]
                    ELSE CountBlock(f[k - 1], last + k)]
           OK(k) == AccOK(f[k], last, last + k + 1, 1)
           K == {k \in Nat : k <= n /\ ~OK(k)}
<1>2. f = [k \in 0..n |->
              IF k = 0 THEN acc ELSE CountBlock(f[k - 1], last + k)]
  <2>1. \E x : IsChainLoop(x, last, n)
    BY ChainLoop, Zenon
  <2>2. IsChainLoop(f, last, n)
    BY <2>1, Zenon DEF IsChainLoop
  <2> HIDE DEF f
  <2> QED
    BY <1>1, <2>2, Zenon DEF IsChainLoop
<1>3. CountBlocks(last, n) = f[n]
  BY Zenon DEF CountBlocks
<1> HIDE DEF f
<1>4. ASSUME K # {} PROVE FALSE
  <2>1. PICK m \in K : \A k \in K : m <= k
    <3>1. K \in SUBSET Nat
      BY Zenon
    <3> HIDE DEF K
    <3> QED
      BY Zenon, <1>4, <3>1, Least
  <2>2. m \in Nat /\ m <= n /\ ~OK(m)
    BY <2>1, Zenon
  <2>3. CASE m = 0
    <3>1. f[0] = acc
      BY <1>2
    <3>2. last + 0 + 1 = last + 1
      OBVIOUS
    <3> QED
      BY Zenon, <1>1, <2>2, <2>3, <3>1, <3>2
  <2>4. CASE m > 0
    <3>1. m - 1 \in Nat /\ m - 1 <= n /\ m - 1 \notin K
      <4> HIDE DEF K
      <4> QED
        BY <2>1, <2>2, <2>4
    <3>2. OK(m - 1)
      BY <3>1, Zenon
    <3>3. /\ last + (m - 1) + 1 = last + m
          /\ last + m \in BaseHeight..Len(chain) /\ last + m > last
      BY <2>2, <2>4, ConstantFacts
    <3>4. AccOK(f[m - 1], last, last + m, 1)
      BY <3>2, <3>3
    <3>5. AccOK(CountBlock(f[m - 1], last + m), last, (last + m) + 1, 1)
      BY <3>3, <3>4, CountBlockStep, Zenon
    <3>6. f[m] = CountBlock(f[m - 1], last + m)
      <4>1. m \in 0..n /\ m # 0
        BY <2>2, <2>4
      <4> HIDE DEF K
      <4> QED
        BY <1>2, <4>1, Zenon
    <3> QED
      BY Zenon, <2>2, <3>5, <3>6
  <2> QED
    BY <2>2, <2>3, <2>4
<1>5. OK(n)
  BY <1>4
<1> QED
  BY <1>3, <1>5

----------------------------------------------------------------------------
(* The database at a block boundary.                                       *)

\* Both halves of IsValidUnbondingTx, for a staking tx that is stored.
LEMMA StoredUnbonds ==
    ASSUME NEW u, NEW s, NEW h, NEW o, stakingTxs[s] = StakingRecord(s, h, o)
    PROVE  Unbonds(u, s, h) <=> UnlocksUnbonding(u, s) /\ ValidUnbonding(u, s)
<1>1. /\ stakingTxs[s].idx = TxData[s].staking.idx
      /\ stakingTxs[s].value = TxData[s].staking.value
      /\ stakingTxs[s].height = h
  BY StakeRecord
<1>2. /\ StakingRecord(s, h, FALSE).idx = TxData[s].staking.idx
      /\ StakingRecord(s, h, FALSE).value = TxData[s].staking.value
      /\ StakingRecord(s, h, FALSE).height = h
  BY DEF StakingRecord
<1> QED
  BY <1>1, <1>2, Zenon DEF Unbonds, IsValidUnbondingTx, UnlocksUnbonding,
                           ValidUnbonding

\* An unbonding tx that has been processed is stored.
LEMMA UnbondingStored ==
    ASSUME chain \in Chains, NEW l \in Int, AllBefore(l + 1, 1),
           NEW s, NEW h, NEW o,
           stakingTxs[s] # Nil, stakingTxs[s] = StakingRecord(s, h, o),
           NEW k \in BaseHeight..Len(chain), NEW n \in 1..Len(chain[k]),
           Before(k, n, l + 1, 1), Unbonds(chain[k][n], s, h)
    PROVE  unbondingTxs[chain[k][n]] = s
<1>1. PICK u \in Txs : u = chain[k][n]
  BY AtPosition
<1>2. /\ 1 \in 1..Len(TxData[u].ins)
      /\ TxData[u].ins[1].tx = s
      /\ TxData[u].ins[1].idx = TxData[s].staking.idx
  <2>1. /\ Len(TxData[u].ins) = 1
        /\ TxData[u].ins[1].tx = s
        /\ TxData[u].ins[1].idx = TxData[s].staking.idx
    BY <1>1, UnbondsFacts, Zenon
  <2>2. 1 \in 1..1
    OBVIOUS
  <2> QED
    BY <2>1, <2>2, Zenon
<1>3. stakingTxs[s].idx = TxData[s].staking.idx
  BY StakeRecord
<1>4. 1 \in SpentStakingInputs(u)
  BY Zenon, <1>2, <1>3 DEF SpentStakingInputs, GetStakingTransaction
<1>5. FullyProcessed(u, k)
  BY <1>1, Zenon DEF AllBefore
<1>6. SpendDone(u, 1)
  BY <1>4, <1>5, Zenon DEF FullyProcessed
<1>7. UnlocksUnbonding(u, s) /\ ValidUnbonding(u, s)
  BY <1>1, StoredUnbonds, Zenon
<1> QED
  BY <1>1, <1>2, <1>6, <1>7, Zenon DEF SpendDone

\* A transaction spends outputs of transactions before it.
LEMMA SpendsEarlier ==
    ASSUME chain \in Chains,
           NEW h \in 1..Len(chain), NEW i \in 1..Len(chain[h]),
           NEW k \in 1..Len(chain), NEW n \in 1..Len(chain[k]),
           NEW u, chain[k][n] = u, NEW s, chain[h][i] = s,
           1 \in 1..Len(TxData[u].ins), TxData[u].ins[1].tx = s
    PROVE  h < k \/ (h = k /\ i < n)
<1>1. \A m \in 1..Len(TxData[chain[k][n]].ins) :
         TxData[chain[k][n]].ins[m].tx = chain[h][i] =>
             h < k \/ (h = k /\ i < n)
  BY ChainsAssumption, Zenon
<1> QED
  BY <1>1

\* An unbonding tx that is stored is one of the chain.
LEMMA UnbondingOfChain ==
    ASSUME Inv, UnbondedOK, ValidOK, NEW l \in Int, NothingAbove(l),
           NEW h \in BaseHeight..Len(chain), NEW i \in 1..Len(chain[h]),
           NEW o, stakingTxs[chain[h][i]] = StakingRecord(chain[h][i], h, o),
           NEW u \in Txs, unbondingTxs[u] = chain[h][i]
    PROVE  UnbondedBefore(chain[h][i], h, l + 1, 1)
<1>1. chain \in Chains
  BY Zenon DEF Inv, ControlOK
<1>2. PICK s \in Txs : s = chain[h][i]
  BY Zenon, <1>1, AtPosition
<1>3. unbondingTxs[u] # Nil /\ unbondingTxs[u] = s
  BY <1>2, StoreAssumption
<1>4. OfChain(u) /\ UnlocksUnbonding(u, s) /\ ValidUnbonding(u, s)
  BY <1>3, Zenon DEF UnbondedOK, Unlocks, ValidOK
<1>5. Unbonds(u, s, h)
  BY <1>2, <1>4, StoredUnbonds, Zenon
<1>6. PICK k \in 1..Len(chain) : \E n \in 1..Len(chain[k]) : chain[k][n] = u
  BY <1>4, Zenon DEF OfChain
<1>7. PICK n \in 1..Len(chain[k]) : chain[k][n] = u
  BY Zenon, <1>6
<1>8. /\ 1 \in 1..Len(TxData[u].ins) /\ TxData[u].ins[1].tx = s
      /\ h \in 1..Len(chain)
  BY Zenon, <1>1, <1>5, UnbondsFacts, AtPosition
<1>9. h <= k
  <2>1. h < k \/ (h = k /\ i < n)
    BY <1>1, <1>2, <1>7, <1>8, SpendsEarlier, Zenon
  <2> QED
    BY <2>1
<1>10. k \in BaseHeight..Len(chain) /\ k \in Int /\ n \in Int
  BY <1>9, ConstantFacts
<1>11. ~(k > l)
  BY <1>3, <1>7, <1>10, Zenon DEF NothingAbove
<1>12. Before(k, n, l + 1, 1)
  BY <1>10, <1>11 DEF Before
<1> QED
  BY <1>2, <1>5, <1>7, <1>10, <1>12, Zenon DEF UnbondedBefore

\* A stake up to height l, counted at the end of the blocks up to it.
LEMMA CountedBelow ==
    ASSUME chain \in Chains, NEW l \in Int,
           NEW h \in BaseHeight..Len(chain), NEW i \in 1..Len(chain[h]),
           IsStake(chain[h][i], h), h <= l
    PROVE  chain[h][i] \in Counted(l, l + 1, 1) <=>
              /\ ~stakingTxs[chain[h][i]].overflow
              /\ ~UnbondedBefore(chain[h][i], h, l + 1, 1)
<1>1. Before(h, i, l + 1, 1)
  BY ConstantFacts DEF Before
<1> QED
  BY <1>1, CountedIs, Zenon

\* At a block boundary the active stakes in the database are the ones that the
\* chain says are active.
LEMMA ActiveIsCounted ==
    ASSUME Inv, UnbondedOK, SourceOK, NEW l \in Int, Settled(l)
    PROVE  Active = Counted(l, l + 1, 1)
<1>1. chain \in Chains
  BY DEF Inv, ControlOK
<1>2. StakesOK /\ ValidOK /\ AllBefore(l + 1, 1) /\ NothingAbove(l)
  BY Zenon DEF SourceOK, Settled
<1>3. ASSUME NEW s \in Txs, stakingTxs[s] # Nil
      PROVE  \E h \in BaseHeight..Len(chain) : \E i \in 1..Len(chain[h]) :
                /\ chain[h][i] = s /\ IsStake(s, h) /\ h <= l
                /\ stakingTxs[s] = StakingRecord(s, h, stakingTxs[s].overflow)
  <2>1. PICK h \in BaseHeight..Len(chain) : \E i \in 1..Len(chain[h]) :
            /\ chain[h][i] = s /\ IsStake(s, h)
            /\ stakingTxs[s] = StakingRecord(s, h, stakingTxs[s].overflow)
    BY <1>2, <1>3, Zenon DEF StakesOK
  <2>2. PICK i \in 1..Len(chain[h]) :
            /\ chain[h][i] = s /\ IsStake(s, h)
            /\ stakingTxs[s] = StakingRecord(s, h, stakingTxs[s].overflow)
    BY <2>1
  <2>3. ~(h > l)
    BY <1>2, <1>3, <2>2, Zenon DEF NothingAbove
  <2>4. h <= l
    BY <2>3, ConstantFacts
  <2> QED
    BY <2>2, <2>4
<1>4. ASSUME NEW s \in Active PROVE s \in Counted(l, l + 1, 1)
  <2>1. /\ s \in Txs /\ stakingTxs[s] # Nil /\ ~stakingTxs[s].overflow
        /\ \A u \in Txs : unbondingTxs[u] # s
    BY <1>4, Zenon DEF Active
  <2>2. PICK h \in BaseHeight..Len(chain) : \E i \in 1..Len(chain[h]) :
                /\ chain[h][i] = s /\ IsStake(s, h) /\ h <= l
                /\ stakingTxs[s] = StakingRecord(s, h, stakingTxs[s].overflow)
    BY <1>3, <2>1, Zenon
  <2>3. PICK i \in 1..Len(chain[h]) :
                /\ chain[h][i] = s /\ IsStake(s, h) /\ h <= l
                /\ stakingTxs[s] = StakingRecord(s, h, stakingTxs[s].overflow)
    BY Zenon, <2>2
  <2>4. ASSUME NEW k \in BaseHeight..Len(chain), NEW n \in 1..Len(chain[k]),
               Before(k, n, l + 1, 1), Unbonds(chain[k][n], s, h)
        PROVE  FALSE
    <3>1. unbondingTxs[chain[k][n]] = s
      BY <1>1, <1>2, <2>1, <2>3, <2>4, UnbondingStored
    <3>2. chain[k][n] \in Txs
      BY <1>1, AtPosition
    <3> QED
      BY Zenon, <2>1, <3>1, <3>2
  <2>5. ~UnbondedBefore(s, h, l + 1, 1)
    BY <2>4, Zenon DEF UnbondedBefore
  <2> QED
    BY Zenon, <1>1, <2>1, <2>3, <2>5, CountedBelow
<1>5. ASSUME NEW s \in Counted(l, l + 1, 1) PROVE s \in Active
  <2>1. PICK h \in BaseHeight..Len(chain) : \E i \in 1..Len(chain[h]) :
            chain[h][i] = s /\ Before(h, i, l + 1, 1) /\ IsStake(s, h)
    <3> DEFINE g == l + 1
    <3>1. s \in Counted(l, g, 1)
      BY Zenon, <1>5
    <3> HIDE DEF g
    <3>2. \E h \in BaseHeight..Len(chain) : \E i \in 1..Len(chain[h]) :
             chain[h][i] = s /\ Before(h, i, g, 1) /\ IsStake(s, h)
      BY Zenon, <3>1, CountedAt
    <3> QED
      BY Zenon, <3>2 DEF g
  <2>2. PICK i \in 1..Len(chain[h]) :
            chain[h][i] = s /\ Before(h, i, l + 1, 1) /\ IsStake(s, h)
    BY <2>1, Zenon
  <2>3. h <= l
    BY <2>2, ConstantFacts DEF Before
  <2>4. /\ stakingTxs[s] # Nil
        /\ stakingTxs[s] = StakingRecord(s, h, stakingTxs[s].overflow)
    BY <2>2, <2>3, StoredUpTo
  <2>5. ~stakingTxs[s].overflow /\ ~UnbondedBefore(s, h, l + 1, 1)
    BY Zenon, <1>1, <1>5, <2>2, <2>3, CountedBelow
  <2>6. ASSUME NEW u \in Txs, unbondingTxs[u] = s PROVE FALSE
    BY Zenon, <1>2, <2>2, <2>4, <2>5, <2>6, UnbondingOfChain
  <2>7. s \in Txs
    BY <1>5, CountedAt, Zenon
  <2> QED
    BY <2>4, <2>5, <2>6, <2>7, Zenon DEF Active
<1> QED
  BY <1>4, <1>5, Zenon

\* The confirmed TVL is the value of the active stakes, as the chain gives it.
LEMMA ConfirmedIsCounted ==
    ASSUME Inv, UnbondedOK, SourceOK, TvlOK, NEW l \in Int, Settled(l)
    PROVE  /\ IsFiniteSet(Counted(l, l + 1, 1))
           /\ GetConfirmedTvl = Total(Stakings, Counted(l, l + 1, 1))
<1>1. chain \in Chains
  BY DEF Inv, ControlOK
<1>2. Active = Counted(l, l + 1, 1)
  BY ActiveIsCounted, Zenon
<1>3. /\ IsFiniteSet(Active)
      /\ GetConfirmedTvl = Total(stakingTxs, Active)
  <2>1. IsFiniteSet(Stored) /\ GetConfirmedTvl = ActiveStake
    BY Zenon DEF TvlOK, TvlIsActiveStake
  <2> QED
    BY <2>1, ActiveStakeTotal
<1>4. ASSUME NEW s \in Active
      PROVE  stakingTxs[s].value = Stakings[s].value
             /\ stakingTxs[s].value \in Nat
  <2>1. s \in Txs /\ stakingTxs[s] # Nil
    BY <1>4, Zenon DEF Active
  <2>2. PICK h : stakingTxs[s] = StakingRecord(s, h, stakingTxs[s].overflow)
    BY <2>1, Zenon DEF SourceOK, StakesOK
  <2>3. stakingTxs[s].value = TxData[s].staking.value
    BY <2>2, StakeRecord
  <2>4. s \in Counted(l, l + 1, 1)
    BY <1>2, <1>4, Zenon
  <2>5. Stakings[s].value \in Nat /\ Stakings[s].value = TxData[s].staking.value
    BY <1>1, <2>4, CountedValues
  <2> QED
    BY <2>3, <2>5
<1>5. Total(stakingTxs, Active) = Total(Stakings, Active)
  BY <1>3, <1>4, TotalSame
<1> QED
  BY Zenon, <1>2, <1>3, <1>5

\* What processUnconfirmedInfo computes is the value of the stakes that are
\* active after the unconfirmed blocks.
LEMMA ForecastIs ==
    ASSUME Inv, UnbondedOK, SourceOK, TvlOK,
           NEW l \in Int, l + 1 >= BaseHeight, Settled(l),
           NEW tip \in Int, l <= tip, tip <= Len(chain)
    PROVE  /\ IsFiniteSet(Counted(l, tip + 1, 1))
           /\ GetConfirmedTvl + CalculateTvlInUnconfirmedBlocks(l, tip) =
                 Total(Stakings, Counted(l, tip + 1, 1))
           /\ Total(Stakings, Counted(l, tip + 1, 1)) \in Nat
<1>1. chain \in Chains
  BY DEF Inv, ControlOK
<1>2. PICK n \in Nat : n = tip - l /\ l + n <= Len(chain) /\ l + n + 1 = tip + 1
  <2>1. tip - l \in Nat /\ l + (tip - l) = tip
    OBVIOUS
  <2> QED
    BY <2>1
<1>3. AccOK(CountBlocks(l, n), l, l + n + 1, 1)
  BY Zenon, <1>2, ConfirmedIsCounted, CountBlocksStep
<1>4. AccOK(CountBlocks(l, tip - l), l, tip + 1, 1)
  BY <1>2, <1>3
<1>5. /\ IsFiniteSet(Counted(l, tip + 1, 1))
      /\ GetConfirmedTvl + CountBlocks(l, tip - l).tvl =
            Total(Stakings, Counted(l, tip + 1, 1))
  BY <1>4, Zenon DEF AccOK
<1>6. \A s \in Counted(l, tip + 1, 1) : Stakings[s].value \in Nat
  BY <1>1, CountedValues, Zenon
<1>7. Total(Stakings, Counted(l, tip + 1, 1)) \in Nat
  BY Zenon, <1>5, <1>6, TotalNat
<1> QED
  BY <1>5, <1>7, Zenon DEF CalculateTvlInUnconfirmedBlocks

----------------------------------------------------------------------------
(* The stakes that are active, later on.                                   *)

\* What is counted does not change once the blocks up to l are processed.
LEMMA CountedStays ==
    ASSUME Inv, [Next]_vars, NEW l \in Int, AllBefore(l + 1, 1), NEW g, NEW j
    PROVE  Counted(l, g, j)' = Counted(l, g, j)
<1>1. chain' = chain /\ chain \in Chains
  BY Zenon, ChainConstant DEF Inv, ControlOK
<1>2. ASSUME NEW h \in BaseHeight..Len(chain), NEW i \in 1..Len(chain[h]),
             IsStake(chain[h][i], h), h <= l
      PROVE  stakingTxs'[chain[h][i]] = stakingTxs[chain[h][i]]
  <2>1. Before(h, i, l + 1, 1)
    BY <1>2, ConstantFacts DEF Before
  <2>2. stakingTxs[chain[h][i]] # Nil
    BY <1>2, <2>1, Zenon DEF AllBefore, FullyProcessed, StakingDone, IsStake
  <2>3. chain[h][i] \in Txs
    BY Zenon, <1>1, AtPosition
  <2> QED
    BY Zenon, <2>2, <2>3, StoredStays
<1>3. \A s, h : UnbondedBefore(s, h, g, j)' <=> UnbondedBefore(s, h, g, j)
  BY <1>1 DEF UnbondedBefore, Before
<1>4. \A s, h : IsStake(s, h)' <=> IsStake(s, h)
  BY Zenon DEF IsStake, ParsesAsStaking, ValidStaking
<1>5. ASSUME NEW s \in Counted(l, g, j)' PROVE s \in Counted(l, g, j)
  <2>1. s \in Txs /\ \E h \in BaseHeight..Len(chain) :
                        \E i \in 1..Len(chain[h]) :
            /\ chain[h][i] = s /\ Before(h, i, g, j) /\ IsStake(s, h)
            /\ h <= l => ~stakingTxs'[s].overflow
            /\ ~UnbondedBefore(s, h, g, j)
    BY Zenon, <1>1, <1>3, <1>4 DEF Counted, Before
  <2>2. PICK h \in BaseHeight..Len(chain) : \E i \in 1..Len(chain[h]) :
            /\ chain[h][i] = s /\ Before(h, i, g, j) /\ IsStake(s, h)
            /\ h <= l => ~stakingTxs'[s].overflow
            /\ ~UnbondedBefore(s, h, g, j)
    BY Zenon, <2>1
  <2>3. h <= l => ~stakingTxs[s].overflow
    BY Zenon, <1>2, <2>2
  <2> QED
    BY Zenon, <2>1, <2>2, <2>3 DEF Counted
<1>6. ASSUME NEW s \in Counted(l, g, j) PROVE s \in Counted(l, g, j)'
  <2>1. s \in Txs /\ \E h \in BaseHeight..Len(chain) :
                        \E i \in 1..Len(chain[h]) :
            /\ chain[h][i] = s /\ Before(h, i, g, j) /\ IsStake(s, h)
            /\ h <= l => ~stakingTxs[s].overflow
            /\ ~UnbondedBefore(s, h, g, j)
    BY Zenon DEF Counted
  <2>2. PICK h \in BaseHeight..Len(chain) : \E i \in 1..Len(chain[h]) :
            /\ chain[h][i] = s /\ Before(h, i, g, j) /\ IsStake(s, h)
            /\ h <= l => ~stakingTxs[s].overflow
            /\ ~UnbondedBefore(s, h, g, j)
    BY Zenon, <2>1
  <2>3. h <= l => ~stakingTxs'[s].overflow
    BY Zenon, <1>2, <2>2
  <2>4. PICK k \in BaseHeight..Len(chain), t \in Txs : k = h /\ t = s
    BY Zenon, <2>1
  <2>5. IsStake(t, k)' /\ ~UnbondedBefore(t, k, g, j)'
    BY Zenon, <1>3, <1>4, <2>2, <2>4
  <2> QED
    BY Zenon, <1>1, <2>2, <2>3, <2>4, <2>5 DEF Counted, Before
<1> QED
  BY Zenon, <1>5, <1>6

\* The stakes that are active at height n, of those that are active when the
\* ones above l do not overflow.
LEMMA CountedSubset ==
    ASSUME NEW l \in Int, NEW n \in Int, l <= n
    PROVE  Counted(n, n + 1, 1) \subseteq Counted(l, n + 1, 1)
<1>1. \A h \in BaseHeight..Len(chain) : h <= l => h <= n
  BY ConstantFacts
<1> QED
  BY <1>1, Zenon DEF Counted

LEMMA CountedSame ==
    ASSUME Inv, SourceOK, NEW l \in Int, NEW n \in Int, l <= n, Settled(n),
           \A t \in Txs : stakingTxs[t] # Nil /\ stakingTxs[t].overflow =>
               stakingTxs[t].height <= l
    PROVE  Counted(n, n + 1, 1) = Counted(l, n + 1, 1)
<1>1. chain \in Chains
  BY DEF Inv, ControlOK
<1>2. ASSUME NEW s \in Counted(l, n + 1, 1) PROVE s \in Counted(n, n + 1, 1)
  <2>1. PICK h \in BaseHeight..Len(chain) : \E i \in 1..Len(chain[h]) :
            /\ chain[h][i] = s /\ Before(h, i, n + 1, 1) /\ IsStake(s, h)
            /\ h <= l => ~stakingTxs[s].overflow
            /\ ~UnbondedBefore(s, h, n + 1, 1)
    BY <1>2, Zenon DEF Counted
  <2>2. PICK i \in 1..Len(chain[h]) :
            /\ chain[h][i] = s /\ Before(h, i, n + 1, 1) /\ IsStake(s, h)
            /\ h <= l => ~stakingTxs[s].overflow
            /\ ~UnbondedBefore(s, h, n + 1, 1)
    BY Zenon, <2>1
  <2>3. h <= n
    BY <2>2, ConstantFacts DEF Before
  <2>4. /\ stakingTxs[s] # Nil
        /\ stakingTxs[s] = StakingRecord(s, h, stakingTxs[s].overflow)
    BY Zenon, <2>2, <2>3, StoredUpTo
  <2>5. stakingTxs[s].height = h
    BY <2>4, StakeRecord
  <2>6. s \in Txs
    BY <1>2, CountedAt, Zenon
  <2>7. ~stakingTxs[s].overflow
    BY <2>2, <2>4, <2>5, <2>6, Zenon
  <2> QED
    BY <1>1, <2>2, <2>3, <2>7, CountedBelow, Zenon
<1> QED
  BY <1>2, CountedSubset, Zenon
=============================================================================
