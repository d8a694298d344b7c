----------------------- MODULE UnconfirmedInfo_proofs -----------------------
(***************************************************************************)
(* blocksEventLoop (UnconfirmedInfo), for every chain, every depth and     *)
(* batch size and any number of crashes, when no operator asks for a       *)
(* replay.                                                                 *)
(*                                                                         *)
(* The block at hand is the first one that is not saved (HeightOK), and    *)
(* when the confirmed blocks of an update are handled the database holds   *)
(* them and nothing above them (UpdateOK, Handled).  A crash may leave a   *)
(* part of a block that was not saved; the poller's tip never falls, so    *)
(* that block is a confirmed one of the next update (DirtyOK).             *)
(* UnconfirmedTvl_proofs gives the value of the forecast then, and of the  *)
(* confirmed TVL when the tip itself is saved.                             *)
(***************************************************************************)
EXTENDS IndexerProgress_proofs, UnconfirmedTvl_proofs

----------------------------------------------------------------------------
(* Where the indexer is, when it never replays.                            *)

\* The indexer is in a block whose height is not yet saved.
Working == InBlock \ {"confirmed_info"}

\* What a step does to the control and to the database.
Moves ==
    \/ /\ pc = "down" /\ pc' = "block"
       /\ \E h \in StartHeightFlags \cup {GetStartHeight} : height' = h
       /\ UNCHANGED <<lastProcessedHeight, stakingTxs, unbondingTxs>>
    \/ /\ pc' = "down"
       /\ UNCHANGED <<lastProcessedHeight, stakingTxs, unbondingTxs>>
    \/ /\ pc = "block" /\ pc' \in {"tx", "fatal"}
       /\ UNCHANGED <<height, lastProcessedHeight, stakingTxs, unbondingTxs>>
    \/ /\ pc \in Working /\ pc' \in Working \cup {"fatal"}
       /\ UNCHANGED <<height, lastProcessedHeight>>
    \/ /\ pc = "tx" /\ lastProcessedHeight' = height
       /\ \/ pc' = "confirmed_info" /\ height' = height
          \/ pc' = "block" /\ height' = height + 1
       /\ UNCHANGED <<stakingTxs, unbondingTxs>>
    \/ /\ pc = "confirmed_info" /\ pc' = "block" /\ height' = height + 1
       /\ UNCHANGED <<lastProcessedHeight, stakingTxs, unbondingTxs>>
    \/ UNCHANGED <<pc, height, lastProcessedHeight, stakingTxs, unbondingTxs>>

LEMMA EveryStepMoves == ASSUME [Next]_vars PROVE Moves
<1>1. CASE Start
  BY Zenon, <1>1 DEF Start, storeVars, Moves
<1>2. CASE Crash
  BY <1>2 DEF Crash, storeVars, Moves
<1>3. CASE ReceiveBlock
  BY Zenon, <1>3 DEF ReceiveBlock, storeVars, Moves
<1>4. CASE SaveHeight
  BY Zenon, <1>4 DEF SaveHeight, SaveLastProcessedHeight, Moves
<1>5. CASE PushConfirmedInfo
  BY Zenon, <1>5 DEF PushConfirmedInfo, storeVars, Moves
<1>6. CASE UNCHANGED vars
  BY Zenon, <1>6 DEF vars, storeVars, Moves
<1>7. ASSUME \/ ProcessStakingTx \/ SaveStakingTx \/ HandleSpendingStaking
             \/ SaveUnbondingTx \/ SpentStakingDone \/ HandleSpendingUnbonding
             \/ SpentUnbondingDone
      PROVE  /\ pc \in Working /\ pc' \in Working \cup {"fatal"}
             /\ UNCHANGED <<height, lastProcessedHeight>>
  <2>1. CASE ProcessStakingTx
    BY Zenon, <2>1 DEF ProcessStakingTx, storeVars, Working, InBlock
  <2>2. CASE SaveStakingTx
    BY Zenon, <2>2
    DEF SaveStakingTx, AddStakingTransaction, IncrementedTvl, storeVars,
                Working, InBlock
  <2>3. CASE HandleSpendingStaking
    BY Zenon, <2>3 DEF HandleSpendingStaking, storeVars, Working, InBlock
  <2>4. CASE SaveUnbondingTx
    BY Zenon, <2>4
    DEF SaveUnbondingTx, AddUnbondingTransaction, storeVars, Working,
                InBlock
  <2>5. CASE SpentStakingDone
    BY <2>5 DEF SpentStakingDone, storeVars, Working, InBlock
  <2>6. CASE HandleSpendingUnbonding
    BY <2>6 DEF HandleSpendingUnbonding, storeVars, Working, InBlock
  <2>7. CASE SpentUnbondingDone
    BY Zenon, <2>7 DEF SpentUnbondingDone, storeVars, Working, InBlock
  <2> QED
    BY <1>7, <2>1, <2>2, <2>3, <2>4, <2>5, <2>6, <2>7
<1> QED
  BY <1>1, <1>2, <1>3, <1>4, <1>5, <1>6, <1>7, Zenon
  DEF Next, HandleBlocks, Moves

\* Only the block at hand can be written to.
LEMMA StoreChange ==
    ASSUME Inv, [Next]_vars, NEW h \in BaseHeight..Len(chain),
           NEW i \in 1..Len(chain[h]), pc \in Working => h # height
    PROVE  /\ stakingTxs'[chain[h][i]] = stakingTxs[chain[h][i]]
           /\ unbondingTxs'[chain[h][i]] = unbondingTxs[chain[h][i]]
<1>1. chain \in Chains
  BY Zenon DEF Inv, ControlOK
<1>2. /\ stakingTxs \in [Txs -> StakingTransaction \cup {Nil}]
      /\ unbondingTxs \in [Txs -> Txs \cup {Nil}]
  BY DEF Inv, TypeOK, StoreTypeOK
<1>3. PICK t \in Txs : t = chain[h][i]
  BY Zenon, <1>1, AtPosition
<1>4. ASSUME pc \in InTx PROVE t # tx
  <2>1. height \in BaseHeight..Len(chain) /\ txIdx \in 1..Len(chain[height])
    BY Zenon, <1>4, InTxPosition DEF Inv
  <2>2. h # height
    BY Zenon, <1>4 DEF InTx, Working, InBlock
  <2> QED
    BY Zenon, <1>1, <1>3, <2>1, <2>2, SamePosition DEF tx
<1>5. CASE SaveStakingTx
  <2>1. t # tx
    BY Zenon, <1>4, <1>5 DEF SaveStakingTx, InTx
  <2> QED
    BY Zenon, <1>2, <1>3, <1>5, <2>1, SaveStakingEffect
<1>6. CASE SaveUnbondingTx
  <2>1. t # tx
    BY Zenon, <1>4, <1>6 DEF SaveUnbondingTx, InTx
  <2> QED
    BY <1>2, <1>3, <1>6, <2>1, SaveUnbondingEffect
<1> QED
  BY Zenon, <1>5, <1>6, StoreSteps

\* Without replays the block at hand is the first that is not yet saved.
HeightOK ==
    /\ (pc = "block" \/ pc \in Working) => height = GetStartHeight
    /\ pc = "confirmed_info" => height + 1 = GetStartHeight

LEMMA HeightStep ==
    ASSUME StartHeightFlags = {}, Inv, HeightOK, [Next]_vars
    PROVE  HeightOK'
<1>1. height \in Nat
  BY DEF Inv, TypeOK
<1>2. Moves
  BY EveryStepMoves
<1>3. CASE UNCHANGED lastProcessedHeight
  <2>1. PICK g : g = GetStartHeight /\ GetStartHeight' = g
    BY <1>3, Zenon DEF GetStartHeight, GetLastProcessedHeight
  <2>2. /\ "block" \notin Working /\ "confirmed_info" \notin Working
        /\ "down" \notin Working /\ "fatal" \notin Working /\ "tx" \in Working
    BY DEF Working, InBlock
  <2>3. /\ (pc = "block" \/ pc \in Working) => height = g
        /\ pc = "confirmed_info" => height + 1 = g
    BY <2>1, Zenon DEF HeightOK
  <2>4. \/ pc' \in {"down", "fatal"}
        \/ pc' = "block" /\ height' = g
        \/ pc' \in Working /\ height' = g
        \/ pc' = pc /\ height' = height
    <3> HIDE DEF Working
    <3>1. \/ /\ pc' = "block"
             /\ \E h \in {} \cup {g} : height' = h
          \/ pc' = "down"
          \/ pc = "block" /\ pc' \in {"tx", "fatal"} /\ height' = height
          \/ pc \in Working /\ pc' \in Working \cup {"fatal"} /\ height' = height
          \/ pc = "tx" /\ pc' = "confirmed_info" /\ height' = height
             /\ lastProcessedHeight' = height
          \/ pc = "tx" /\ pc' = "block" /\ height' = height + 1
             /\ lastProcessedHeight' = height
          \/ pc = "confirmed_info" /\ pc' = "block" /\ height' = height + 1
          \/ pc' = pc /\ height' = height
      BY Zenon, <1>2, <2>1 DEF Moves
    <3>2. lastProcessedHeight' = height /\ pc = "tx" => FALSE
      <4>1. lastProcessedHeight' = height => g = height + 1
        BY Zenon, <1>1, <2>1, NilAssumption
        DEF GetStartHeight, GetLastProcessedHeight
      <4> QED
        BY <1>1, <2>2, <2>3, <4>1
    <3> QED
      BY Zenon, <2>2, <2>3, <3>1, <3>2
  <2>5. /\ (pc' = "block" \/ pc' \in Working) => height' = g
        /\ pc' = "confirmed_info" => height' + 1 = g
    <3> HIDE DEF Working
    <3> QED
      BY Zenon, <2>2, <2>3, <2>4
  <2> QED
    BY <2>1, <2>5, Zenon DEF HeightOK, Working
<1>4. CASE ~UNCHANGED lastProcessedHeight
  <2>1. /\ lastProcessedHeight' = height
        /\ \/ pc' = "confirmed_info" /\ height' = height
           \/ pc' = "block" /\ height' = height + 1
    BY Zenon, <1>2, <1>4 DEF Moves
  <2>2. GetStartHeight' = height + 1
    BY Zenon, <1>1, <2>1, NilAssumption
    DEF GetStartHeight, GetLastProcessedHeight
  <2>3. "confirmed_info" \notin Working
    BY DEF Working, InBlock
  <2> HIDE DEF Working
  <2> QED
    BY Zenon, <2>1, <2>2, <2>3 DEF HeightOK
<1> QED
  BY Zenon, <1>3, <1>4

\* What is not above height n is all that is written, so long as the block at
\* hand is not above it.
LEMMA NothingAboveStep ==
    ASSUME Inv, [Next]_vars, NEW n \in Int, NothingAbove(n),
           pc \in Working => height <= n
    PROVE  NothingAbove(n)'
<1>1. chain' = chain
  BY ChainConstant
<1>2. height \in Nat
  BY DEF Inv, TypeOK
<1>3. ASSUME NEW h \in BaseHeight..Len(chain), NEW i \in 1..Len(chain[h]), h > n
      PROVE  stakingTxs'[chain[h][i]] = Nil /\ unbondingTxs'[chain[h][i]] = Nil
  <2>1. pc \in Working => h # height
    BY <1>2, <1>3, ConstantFacts
  <2>2. /\ stakingTxs'[chain[h][i]] = stakingTxs[chain[h][i]]
        /\ unbondingTxs'[chain[h][i]] = unbondingTxs[chain[h][i]]
    BY <2>1, StoreChange
  <2> QED
    BY <1>3, <2>2, Zenon DEF NothingAbove
<1> QED
  BY <1>1, <1>3, Zenon DEF NothingAbove

LEMMA NothingAboveMono ==
    ASSUME NEW m \in Int, NEW n \in Int, m <= n, NothingAbove(m)
    PROVE  NothingAbove(n)
<1> SUFFICES ASSUME NEW h \in BaseHeight..Len(chain),
                    NEW i \in 1..Len(chain[h]), h > n
             PROVE  stakingTxs[chain[h][i]] = Nil /\ unbondingTxs[chain[h][i]] = Nil
  BY Zenon DEF NothingAbove
<1>1. h > m
  BY ConstantFacts
<1> QED
  BY <1>1, Zenon DEF NothingAbove

LEMMA NothingAboveSame ==
    ASSUME chain' = chain, UNCHANGED <<stakingTxs, unbondingTxs>>, NEW n,
           NothingAbove(n)
    PROVE  NothingAbove(n)'
BY Zenon DEF NothingAbove

\* The first height that is not yet saved is a height.
LEMMA StartIsNat ==
    ASSUME Inv
    PROVE  GetStartHeight \in Nat
<1>1. lastProcessedHeight = Nil \/ lastProcessedHeight \in Nat
  BY StoreAssumption DEF Inv, TypeOK, StoreTypeOK
<1> QED
  BY <1>1, ConstantFacts DEF GetStartHeight, GetLastProcessedHeight

----------------------------------------------------------------------------
(* The chain update at hand.                                               *)

\* At most the block at hand is in the database besides the saved ones.  When
\* it is, a part of it was written before a crash, and the poller has seen a tip
\* that makes it confirmed.
DirtyOK ==
    /\ NothingAbove(GetStartHeight)
    /\ \/ NothingAbove(GetStartHeight - 1)
       \/ seenTip >= GetStartHeight + Depth - 1
    /\ pc = "confirmed_info" => NothingAbove(height)

\* The update at hand: its tip is on the chain and at most Depth - 1 above its
\* last confirmed block, and when the confirmed blocks are handled nothing above
\* them is in the database.
UpdateOK ==
    update # Nil =>
        /\ pc = "block" \/ pc \in InBlock
        /\ update \in [last : Nat, tip : Nat]
        /\ update.last < update.tip /\ update.tip <= Len(chain)
        /\ update.tip - Depth + 1 <= update.last
        /\ height <= update.last + 1
        /\ pc \in InBlock => height <= update.last
        /\ height <= update.last => seenTip >= update.last + Depth - 1
        /\ (pc = "block" /\ height = update.last + 1)
              => NothingAbove(update.last)

\* The poller's tip is on the chain.
TipOK == seenTip \in Nat /\ seenTip <= Len(chain)

\* The loop does to the database what StakingIndexer does.
LEMMA InfoIsNext ==
    ASSUME [InfoNext]_infoVars
    PROVE  [Next]_vars
BY Zenon DEF InfoNext, Restart, ReceiveUpdate, HandleConfirmed,
   ProcessUnconfirmedInfo, Next, infoVars

\* The poller's tip never falls.
LEMMA TipStep ==
    ASSUME TipOK, [InfoNext]_infoVars
    PROVE  TipOK' /\ seenTip <= seenTip'
<1>1. chain' = chain
  BY Zenon, InfoIsNext, ChainConstant
<1>2. CASE ReceiveUpdate
  <2>1. PICK t \in seenTip..Len(chain) : seenTip' = t
    BY Zenon, <1>2 DEF ReceiveUpdate
  <2> QED
    BY <1>1, <2>1 DEF TipOK
<1>3. CASE UNCHANGED seenTip
  BY <1>1, <1>3 DEF TipOK
<1> QED
  BY <1>2, <1>3, Zenon DEF InfoNext, Restart, HandleConfirmed,
     ProcessUnconfirmedInfo, infoVars

\* A block that is being handled is one of the update at hand.
LEMMA WritesOfUpdate ==
    ASSUME [InfoNext]_infoVars, pc \in Working
    PROVE  \/ update # Nil
           \/ UNCHANGED <<stakingTxs, unbondingTxs>>
<1>1. pc # "block"
  BY DEF Working, InBlock
<1> QED
  BY <1>1, Zenon DEF InfoNext, Restart, Start, Crash, ReceiveUpdate,
     HandleConfirmed, ProcessUnconfirmedInfo, ConfirmedHandled, infoVars, vars,
     storeVars

LEMMA DirtyStep ==
    ASSUME Inv, HeightOK, TipOK, DirtyOK, UpdateOK, [InfoNext]_infoVars
    PROVE  DirtyOK'
<1>1. PICK g \in Nat : g = GetStartHeight
  BY StartIsNat
<1>2. /\ [Next]_vars /\ Moves /\ chain' = chain
      /\ seenTip \in Nat /\ seenTip' \in Nat /\ seenTip <= seenTip'
  BY Zenon, InfoIsNext, EveryStepMoves, ChainConstant, TipStep DEF TipOK
<1>3. /\ NothingAbove(g)
      /\ NothingAbove(g - 1) \/ seenTip >= g + Depth - 1
      /\ pc = "confirmed_info" => NothingAbove(height)
      /\ pc \in Working => height = g
  BY <1>1, Zenon DEF DirtyOK, HeightOK
<1>4. height \in Nat /\ Depth \in Nat
  BY Zenon, InfoAssumption DEF Inv, TypeOK
<1>5. CASE /\ pc = "tx" /\ lastProcessedHeight' = height
           /\ pc' = "confirmed_info" => height' = height
           /\ UNCHANGED <<stakingTxs, unbondingTxs>>
  <2>1. height = g
    BY Zenon, <1>3, <1>5 DEF Working, InBlock
  <2>2. GetStartHeight' = g + 1
    BY Zenon, <1>4, <1>5, <2>1, NilAssumption
    DEF GetStartHeight, GetLastProcessedHeight
  <2>3. NothingAbove(g)' /\ g + 1 \in Int /\ (g + 1) - 1 = g
    BY <1>2, <1>3, <1>5, NothingAboveSame
  <2>4. NothingAbove(g + 1)'
    <3>1. NothingAbove(g + 1)
      BY <1>3, <2>3, NothingAboveMono
    <3> QED
      BY Zenon, <1>2, <1>5, <3>1, NothingAboveSame
  <2>5. pc' = "confirmed_info" => height' = g
    BY Zenon, <1>5, <2>1
  <2>6. PICK k : k = GetStartHeight' /\ k = g + 1 /\ k - 1 = g
    BY Zenon, <2>2, <2>3
  <2>7. NothingAbove(k)' /\ NothingAbove(k - 1)'
    BY Zenon, <2>3, <2>4, <2>6
  <2>8. pc' = "confirmed_info" => NothingAbove(height)'
    BY Zenon, <2>3, <2>5 DEF NothingAbove
  <2> QED
    BY Zenon, <2>6, <2>7, <2>8 DEF DirtyOK
<1>6. CASE /\ UNCHANGED lastProcessedHeight
           /\ pc' = "confirmed_info" =>
                 UNCHANGED <<pc, height, stakingTxs, unbondingTxs>>
  <2>1. GetStartHeight' = g
    BY <1>1, <1>6, Zenon DEF GetStartHeight, GetLastProcessedHeight
  <2>2. NothingAbove(g)'
    BY <1>2, <1>3, <1>4, NothingAboveStep
  <2>3. NothingAbove(g - 1)' \/ seenTip' >= g + Depth - 1
    <3>1. CASE seenTip >= g + Depth - 1
      BY <1>2, <1>4, <3>1
    <3>2. CASE NothingAbove(g - 1) /\ pc \notin Working
      BY <1>2, <3>2, NothingAboveStep
    <3>3. CASE pc \in Working /\ update # Nil
      <4>1. /\ height <= update.last
            /\ seenTip >= update.last + Depth - 1
            /\ update \in [last : Nat, tip : Nat]
        BY <3>3 DEF UpdateOK, Working
      <4>2. update.last \in Nat /\ height = g
        BY Zenon, <1>3, <3>3, <4>1
      <4> QED
        BY <1>2, <1>4, <4>1, <4>2
    <3>4. CASE NothingAbove(g - 1) /\ pc \in Working /\ update = Nil
      BY <1>2, <3>4, WritesOfUpdate, NothingAboveSame, Zenon
    <3> QED
      BY Zenon, <1>3, <3>1, <3>2, <3>3, <3>4
  <2>4. pc' = "confirmed_info" => NothingAbove(height)'
    <3> SUFFICES ASSUME pc' = "confirmed_info" PROVE NothingAbove(height)'
      OBVIOUS
    <3>1. height' = height /\ NothingAbove(height)
      BY Zenon, <1>3, <1>6
    <3>2. PICK k : k = height /\ height' = k /\ NothingAbove(k)
      BY <3>1
    <3>3. NothingAbove(k)'
      BY Zenon, <1>2, <1>6, <3>2, NothingAboveSame
    <3> QED
      BY Zenon, <3>2, <3>3 DEF NothingAbove
  <2> QED
    BY Zenon, <2>1, <2>2, <2>3, <2>4 DEF DirtyOK
<1>7. "confirmed_info" \notin Working
  BY DEF Working
<1> HIDE DEF Working
<1> QED
  BY Zenon, <1>2, <1>5, <1>6, <1>7 DEF Moves

LEMMA LeastOfTwo ==
    ASSUME NEW a \in Int, NEW b \in Int
    PROVE  Min({a, b}) \in Int /\ Min({a, b}) <= a /\ Min({a, b}) <= b
           /\ (Min({a, b}) = a \/ Min({a, b}) = b)
<1>1. \E x \in {a, b} : \A y \in {a, b} : x <= y
  OBVIOUS
<1>2. /\ Min({a, b}) \in {a, b}
      /\ \A y \in {a, b} : Min({a, b}) <= y
  BY <1>1, Zenon DEF Min
<1> QED
  BY <1>2

\* What the poller sends.
LEMMA UpdateAtIs ==
    ASSUME NEW h \in Nat \ {0}, NEW t \in Nat, h <= t,
           NEW u, u = UpdateAt(h, t)
    PROVE  /\ u \in [last : Nat, tip : Nat]
           /\ u.last < u.tip /\ u.tip <= t
           /\ u.tip - Depth + 1 <= u.last
           /\ h <= u.last + 1
           /\ h <= u.last => t >= u.last + Depth - 1
           /\ h = u.last + 1 => t < h + Depth - 1
<1>1. Depth \in Nat /\ Depth >= 2 /\ BatchSize \in Nat /\ BatchSize >= 1
  BY InfoAssumption
<1>2. CASE t - h + 1 < Depth
  <2>1. u = [last |-> h - 1, tip |-> t]
    BY Zenon, <1>2 DEF UpdateAt
  <2>2. h - 1 \in Nat /\ u.last = h - 1 /\ u.tip = t
    BY <2>1
  <2> QED
    BY <1>1, <1>2, <2>1, <2>2
<1>3. CASE ~(t - h + 1 < Depth)
  <2>1. PICK l : l = Min({h + BatchSize - 1, t - Depth + 1})
    OBVIOUS
  <2>2. /\ l \in Int /\ l <= t - Depth + 1
        /\ l = h + BatchSize - 1 \/ l = t - Depth + 1
    <3>1. h + BatchSize - 1 \in Int /\ t - Depth + 1 \in Int
      BY <1>1
    <3> QED
      BY <2>1, <3>1, LeastOfTwo, Zenon
  <2>3. l >= h
    BY <1>1, <1>3, <2>2
  <2>4. u = [last |-> l, tip |-> l + Depth - 1]
    BY Zenon, <1>3, <2>1 DEF UpdateAt
  <2>5. u.last = l /\ u.tip = l + Depth - 1
    BY <2>4
  <2> QED
    BY <1>1, <2>2, <2>3, <2>4, <2>5
<1> QED
  BY Zenon, <1>2, <1>3

LEMMA ReceiveUpdateOK ==
    ASSUME Inv, HeightOK, TipOK, DirtyOK, ReceiveUpdate
    PROVE  UpdateOK'
<1>1. /\ pc = "block" /\ pc' = pc /\ height' = height /\ chain' = chain
      /\ UNCHANGED <<stakingTxs, unbondingTxs>>
  BY DEF ReceiveUpdate, vars, storeVars
<1>2. PICK t \in seenTip..Len(chain) :
          height <= t /\ update' = UpdateAt(height, t) /\ seenTip' = t
  BY Zenon DEF ReceiveUpdate
<1>3. /\ height \in Nat \ {0} /\ t \in Nat /\ t >= seenTip /\ t <= Len(chain)
      /\ seenTip \in Nat /\ Depth \in Nat
  BY <1>1, <1>2, ConstantFacts, InfoAssumption
  DEF Inv, TypeOK, ControlOK, TipOK
<1>4. PICK u : u = update' /\ u = UpdateAt(height, t)
  BY <1>2
<1>5. /\ u \in [last : Nat, tip : Nat]
      /\ u.last < u.tip /\ u.tip <= t
      /\ u.tip - Depth + 1 <= u.last
      /\ height <= u.last + 1
      /\ height <= u.last => t >= u.last + Depth - 1
      /\ height = u.last + 1 => t < height + Depth - 1
  BY <1>2, <1>3, <1>4, UpdateAtIs, Zenon
<1>6. height = u.last + 1 => NothingAbove(u.last)'
  <2> SUFFICES ASSUME height = u.last + 1 PROVE NothingAbove(u.last)'
    OBVIOUS
  <2>1. /\ height = GetStartHeight
        /\ NothingAbove(GetStartHeight - 1) \/ seenTip >= GetStartHeight + Depth - 1
    BY <1>1, Zenon DEF HeightOK, DirtyOK
  <2>2. ~(seenTip >= height + Depth - 1)
    BY <1>3, <1>5
  <2>3. height - 1 = u.last
    BY <1>5
  <2>4. NothingAbove(u.last)
    BY Zenon, <2>1, <2>2, <2>3
  <2> QED
    BY Zenon, <1>1, <2>4, NothingAboveSame
<1>7. u.tip <= Len(chain)
  BY <1>3, <1>5
<1>8. pc \notin InBlock
  BY Zenon, <1>1 DEF InBlock
<1>9. /\ update' = u /\ seenTip' = t /\ pc' = "block" /\ height' = height
      /\ chain' = chain
  BY Zenon, <1>1, <1>2, <1>4
<1>10. /\ height' <= u.last + 1 /\ pc' \notin InBlock /\ u.tip <= Len(chain')
       /\ height' <= u.last => seenTip' >= u.last + Depth - 1
       /\ height' = u.last + 1 => NothingAbove(u.last)'
  BY <1>1, <1>5, <1>6, <1>7, <1>8, <1>9
<1> QED
  BY <1>4, <1>5, <1>9, <1>10 DEF UpdateOK, NothingAbove

\* The update at hand while the confirmed blocks are handled.
LEMMA HandleConfirmedOK ==
    ASSUME Inv, Inv', NoFatalError', HeightOK, TipOK, DirtyOK, UpdateOK,
           HandleConfirmed
    PROVE  UpdateOK'
<1>1. /\ update # Nil /\ update' = update /\ seenTip' = seenTip
      /\ ~(pc = "block" /\ height > update.last)
      /\ pc # "down" /\ pc' # "down"
  BY Zenon DEF HandleConfirmed, ConfirmedHandled, HandleBlocks, ReceiveBlock,
     ProcessStakingTx, SaveStakingTx, HandleSpendingStaking, SaveUnbondingTx,
     SpentStakingDone, HandleSpendingUnbonding, SpentUnbondingDone, SaveHeight,
     PushConfirmedInfo
<1>2. PICK u : u = update /\ u = update'
  BY Zenon, <1>1
<1>3. /\ [Next]_vars /\ Moves /\ chain' = chain
  BY Zenon, EveryStepMoves, ChainConstant DEF HandleConfirmed, Next
<1>4. /\ pc = "block" \/ pc \in InBlock
      /\ u \in [last : Nat, tip : Nat]
      /\ u.last < u.tip /\ u.tip <= Len(chain)
      /\ u.tip - Depth + 1 <= u.last
      /\ height <= u.last + 1
      /\ pc \in InBlock => height <= u.last
      /\ height <= u.last => seenTip >= u.last + Depth - 1
  BY <1>1, <1>2, Zenon DEF UpdateOK
<1>5. height \in Nat /\ u.last \in Nat
  BY <1>4 DEF Inv, TypeOK
<1>6. height <= u.last
  BY <1>1, <1>2, <1>4, <1>5
<1>7. pc' # "fatal"
  BY DEF NoFatalError
<1>8. /\ pc \in Working => height = GetStartHeight
      /\ NothingAbove(GetStartHeight)
      /\ pc = "confirmed_info" => NothingAbove(height)
  BY Zenon DEF HeightOK, DirtyOK
<1>9. \/ pc' \in InBlock /\ height' = height
      \/ pc' = "block" /\ height' = height
      \/ /\ pc' = "block" /\ height' = height + 1 /\ NothingAbove(height)
         /\ UNCHANGED <<stakingTxs, unbondingTxs>>
  <2>1. /\ "tx" \in InBlock /\ "confirmed_info" \in InBlock
        /\ "tx" \in Working /\ \A x \in Working : x \in InBlock
    BY Zenon DEF Working, InBlock
  <2> HIDE DEF Working, InBlock
  <2>2. \/ pc' \in InBlock /\ height' = height
        \/ pc' = "block" /\ height' = height
        \/ /\ pc \in {"tx", "confirmed_info"} /\ pc' = "block"
           /\ height' = height + 1
           /\ UNCHANGED <<stakingTxs, unbondingTxs>>
    BY Zenon, <1>1, <1>3, <1>4, <1>7, <2>1 DEF Moves
  <2>3. pc \in {"tx", "confirmed_info"} => NothingAbove(height)
    BY Zenon, <1>8, <2>1
  <2> QED
    BY Zenon, <2>2, <2>3
<1>10. /\ pc' = "block" \/ pc' \in InBlock
       /\ height' <= u.last + 1
       /\ pc' \in InBlock => height' <= u.last
       /\ seenTip' >= u.last + Depth - 1
  <2>1. "block" \notin InBlock
    BY DEF InBlock
  <2> HIDE DEF InBlock
  <2> QED
    BY <1>1, <1>4, <1>5, <1>6, <1>9, <2>1
<1>11. (pc' = "block" /\ height' = u.last + 1) => NothingAbove(u.last)'
  <2> SUFFICES ASSUME pc' = "block", height' = u.last + 1
               PROVE  NothingAbove(u.last)'
    OBVIOUS
  <2>1. /\ height' = height + 1 /\ NothingAbove(height)
        /\ UNCHANGED <<stakingTxs, unbondingTxs>>
    <3>1. height' # height /\ pc' \notin InBlock
      BY <1>5, <1>6 DEF InBlock
    <3> QED
      BY Zenon, <1>9, <3>1
  <2>2. height = u.last
    BY <1>5, <2>1
  <2> QED
    BY Zenon, <1>3, <2>1, <2>2, NothingAboveSame
<1>12. u.tip <= Len(chain')
  BY <1>3, <1>4
<1> QED
  BY <1>2, <1>4, <1>10, <1>11, <1>12 DEF UpdateOK, NothingAbove

LEMMA UpdateStep ==
    ASSUME Inv, Inv', NoFatalError', HeightOK, TipOK, DirtyOK, UpdateOK,
           [InfoNext]_infoVars
    PROVE  UpdateOK'
<1>1. CASE ReceiveUpdate
  BY Zenon, <1>1, ReceiveUpdateOK
<1>2. CASE HandleConfirmed
  BY <1>2, HandleConfirmedOK
<1>3. CASE update' = Nil
  BY <1>3 DEF UpdateOK
<1>4. CASE UNCHANGED infoVars
  BY <1>4, Zenon DEF infoVars, vars, storeVars, UpdateOK, NothingAbove
<1> QED
  BY <1>1, <1>2, <1>3, <1>4, Zenon
  DEF InfoNext, Restart, ProcessUnconfirmedInfo

----------------------------------------------------------------------------
(* The forecasts.                                                          *)

\* When the confirmed blocks of the update are handled, the database holds them
\* and nothing else.
LEMMA Handled ==
    ASSUME Inv, ProgressOK, UpdateOK, ConfirmedHandled
    PROVE  \E l \in Int, tip \in Int :
              /\ update.last = l /\ update.tip = tip
              /\ l + 1 >= BaseHeight /\ Settled(l)
              /\ tip \in Nat /\ tip <= Len(chain)
              /\ l < tip /\ tip - Depth + 1 <= l
<1>1. PICK u : u = update
  OBVIOUS
<1>2. /\ pc = "block" /\ u # Nil /\ height > u.last
      /\ height >= BaseHeight /\ AllBefore(height, 1)
  BY <1>1, Zenon DEF ConfirmedHandled, Inv, ControlOK, ProgressOK
<1>3. /\ u \in [last : Nat, tip : Nat]
      /\ u.last < u.tip /\ u.tip <= Len(chain)
      /\ u.tip - Depth + 1 <= u.last
      /\ height <= u.last + 1
      /\ height = u.last + 1 => NothingAbove(u.last)
  BY <1>1, <1>2, Zenon DEF UpdateOK
<1>4. u.last \in Nat /\ u.tip \in Nat /\ height \in Nat
  BY <1>3 DEF Inv, TypeOK
<1>5. height = u.last + 1
  BY <1>2, <1>3, <1>4
<1>6. Settled(u.last)
  BY <1>2, <1>3, <1>5 DEF Settled
<1>7. u.last \in Int /\ u.tip \in Int /\ u.last + 1 >= BaseHeight
  BY <1>2, <1>4, <1>5
<1> QED
  BY <1>1, <1>3, <1>4, <1>6, <1>7, Zenon

\* A forecast is a natural number: that of the stakes active at its tip.
LEMMA HandledForecast ==
    ASSUME TvlInv, SourceOK, ProgressOK, UpdateOK, ConfirmedHandled
    PROVE  \E l \in Int, tip \in Nat :
              /\ update.tip = tip /\ tip <= Len(chain)
              /\ tip - Depth + 1 <= l /\ l < tip /\ l + 1 >= BaseHeight
              /\ AllBefore(l + 1, 1)
              /\ IsFiniteSet(Counted(l, tip + 1, 1))
              /\ UnconfirmedTvl = Total(Stakings, Counted(l, tip + 1, 1))
              /\ UnconfirmedTvl \in Nat
<1>1. Inv /\ UnbondedOK /\ TvlOK
  BY DEF TvlInv
<1>2. PICK l \in Int, tip \in Int :
              /\ update.last = l /\ update.tip = tip
              /\ l + 1 >= BaseHeight /\ Settled(l)
              /\ tip \in Nat /\ tip <= Len(chain)
              /\ l < tip /\ tip - Depth + 1 <= l
  BY <1>1, Handled, Zenon
<1>3. l <= tip
  BY <1>2
<1>4. /\ IsFiniteSet(Counted(l, tip + 1, 1))
      /\ GetConfirmedTvl + CalculateTvlInUnconfirmedBlocks(l, tip) =
                 Total(Stakings, Counted(l, tip + 1, 1))
      /\ Total(Stakings, Counted(l, tip + 1, 1)) \in Nat
  BY <1>1, <1>2, <1>3, ForecastIs, Zenon
<1>5. UnconfirmedTvl = Total(Stakings, Counted(l, tip + 1, 1))
  BY <1>2, <1>4, Zenon DEF UnconfirmedTvl
<1>6. AllBefore(l + 1, 1)
  BY <1>2, Zenon DEF Settled
<1> QED
  BY <1>2, <1>4, <1>5, <1>6, Zenon

\* What is known of a forecast: the height l that was confirmed then, and the
\* stakes that are active at the tip when those above l do not overflow.
Foreseen(e, l) ==
    /\ e.height - Depth + 1 <= l /\ l < e.height /\ l + 1 >= BaseHeight
    /\ AllBefore(l + 1, 1)
    /\ IsFiniteSet(Counted(l, e.height + 1, 1))
    /\ e.unconfirmedTvl = Total(Stakings, Counted(l, e.height + 1, 1))

ForecastOK ==
    \A e \in btcInfoEvents :
        /\ e.height \in Nat /\ e.height <= Len(chain)
        /\ \E l \in Int : Foreseen(e, l)

LEMMA ForeseenStays ==
    ASSUME Inv, CurrentOK, [Next]_vars, NEW e, NEW l \in Int, Foreseen(e, l)
    PROVE  Foreseen(e, l)'
<1>1. l + 1 \in Int /\ 1 \in Int
  OBVIOUS
<1>2. AllBefore(l + 1, 1)'
  BY <1>1, PrefixStable, Zenon DEF Foreseen
<1>3. Counted(l, e.height + 1, 1)' = Counted(l, e.height + 1, 1)
  BY CountedStays, Zenon DEF Foreseen
<1> QED
  BY Zenon, <1>2, <1>3 DEF Foreseen

\* A forecast is made when the confirmed blocks are handled, and what is known
\* of it stays.
LEMMA ForecastStep ==
    ASSUME TvlInv, SourceOK, Progress, UpdateOK, ForecastOK,
           [InfoNext]_infoVars
    PROVE  ForecastOK'
<1>1. /\ Inv /\ CurrentOK /\ ProgressOK /\ [Next]_vars /\ chain' = chain
  BY Zenon, InfoIsNext, ChainConstant DEF TvlInv, Progress
<1>2. ASSUME NEW e \in btcInfoEvents
      PROVE  /\ e.height \in Nat /\ e.height <= Len(chain)
             /\ \E l \in Int : Foreseen(e, l)'
  BY <1>1, <1>2, ForeseenStays, Zenon DEF ForecastOK
<1>3. ASSUME NEW e \in btcInfoEvents', e \notin btcInfoEvents
      PROVE  /\ e.height \in Nat /\ e.height <= Len(chain)
             /\ \E l \in Int : Foreseen(e, l)'
  <2>1. /\ ConfirmedHandled
        /\ e.height = update.tip /\ e.unconfirmedTvl = UnconfirmedTvl
    <3>1. /\ ConfirmedHandled
          /\ e = [height |-> update.tip, confirmedTvl |-> GetConfirmedTvl,
                  unconfirmedTvl |-> UnconfirmedTvl]
      BY <1>3, Zenon DEF InfoNext, Restart, ReceiveUpdate, HandleConfirmed,
         ProcessUnconfirmedInfo, infoVars
    <3> QED
      BY <3>1
  <2>2. PICK l \in Int, tip \in Nat :
              /\ update.tip = tip /\ tip <= Len(chain)
              /\ tip - Depth + 1 <= l /\ l < tip /\ l + 1 >= BaseHeight
              /\ AllBefore(l + 1, 1)
              /\ IsFiniteSet(Counted(l, tip + 1, 1))
              /\ UnconfirmedTvl = Total(Stakings, Counted(l, tip + 1, 1))
    BY <1>1, <2>1, HandledForecast, Zenon
  <2>3. Foreseen(e, l)
    BY <2>1, <2>2, Zenon DEF Foreseen
  <2>4. Foreseen(e, l)'
    BY Zenon, <1>1, <2>3, ForeseenStays
  <2> QED
    BY <2>1, <2>2, <2>4, Zenon
<1> QED
  BY <1>1, <1>2, <1>3, Zenon DEF ForecastOK

\* The confirmed TVL when the height of a forecast's tip is about to be saved.
LEMMA ForecastAtTip ==
    ASSUME Inv, UnbondedOK, SourceOK, TvlOK, NEW e, NEW l \in Int,
           e.height \in Nat, Foreseen(e, l), Settled(e.height)
    PROVE  /\ GetConfirmedTvl <= e.unconfirmedTvl
           /\ (\A t \in Txs :
                  stakingTxs[t] # Nil /\ stakingTxs[t].overflow =>
                      stakingTxs[t].height <= e.height - Depth + 1)
                 => GetConfirmedTvl = e.unconfirmedTvl
<1>1. chain \in Chains /\ stakingTxs \in [Txs -> StakingTransaction \cup {Nil}]
  BY DEF Inv, ControlOK, TypeOK, StoreTypeOK
<1>2. PICK n \in Int : n = e.height /\ Settled(n)
  OBVIOUS
<1>3. /\ n - Depth + 1 <= l /\ l < n
      /\ IsFiniteSet(Counted(l, n + 1, 1))
      /\ e.unconfirmedTvl = Total(Stakings, Counted(l, n + 1, 1))
  BY <1>2, Zenon DEF Foreseen
<1>4. l <= n
  BY <1>3
<1>5. GetConfirmedTvl = Total(Stakings, Counted(n, n + 1, 1))
  BY Zenon, <1>2, ConfirmedIsCounted
<1>6. Total(Stakings, Counted(n, n + 1, 1)) <= Total(Stakings, Counted(l, n + 1, 1))
  <2>1. \A s \in Counted(l, n + 1, 1) : Stakings[s].value \in Nat
    BY <1>1, CountedValues, Zenon
  <2>2. Counted(n, n + 1, 1) \in SUBSET Counted(l, n + 1, 1)
    BY <1>4, CountedSubset, Zenon
  <2> QED
    BY <1>3, <2>1, <2>2, TotalMono, Zenon
<1>7. ASSUME \A t \in Txs :
                 stakingTxs[t] # Nil /\ stakingTxs[t].overflow =>
                     stakingTxs[t].height <= e.height - Depth + 1
      PROVE  Counted(n, n + 1, 1) = Counted(l, n + 1, 1)
  <2>1. ASSUME NEW t \in Txs, stakingTxs[t] # Nil, stakingTxs[t].overflow
        PROVE  stakingTxs[t].height <= l
    <3>1. stakingTxs[t].height \in Int
      <4>1. stakingTxs[t] \in StakingTransaction
        BY <1>1, <2>1, Zenon
      <4>2. stakingTxs[t].height \in Heights
        BY Zenon, <4>1 DEF StakingTransaction
      <4>3. \A h \in Heights : h \in Int
        BY StoreAssumption
      <4> QED
        BY <4>2, <4>3, Zenon
    <3>2. stakingTxs[t].height <= n - Depth + 1
      BY <1>2, <1>7, <2>1, Zenon
    <3>3. Depth \in Int
      BY InfoAssumption
    <3> QED
      BY <1>3, <3>1, <3>2, <3>3
  <2> QED
    BY <1>2, <1>4, <2>1, CountedSame, Zenon
<1> QED
  BY <1>3, <1>5, <1>6, <1>7, Zenon

\* When a height is saved, the database holds the blocks up to it and nothing
\* else.
LEMMA SavedSettled ==
    ASSUME Inv, Progress, HeightOK, DirtyOK, [Next]_vars,
           lastProcessedHeight' # lastProcessedHeight
    PROVE  /\ lastProcessedHeight' = height /\ height \in Nat
           /\ Settled(height)
<1>1. /\ pc = "tx" /\ lastProcessedHeight' = height
  BY EveryStepMoves DEF Moves
<1>2. txIdx > Len(chain[height])
  BY <1>1, Zenon DEF Next, HandleBlocks, Start, Crash, ReceiveBlock,
     ProcessStakingTx, SaveStakingTx, HandleSpendingStaking, SaveUnbondingTx,
     SpentStakingDone, HandleSpendingUnbonding, SpentUnbondingDone, SaveHeight,
     PushConfirmedInfo, storeVars, vars
<1>3. /\ chain \in Chains /\ height \in Nat /\ txIdx \in Nat
      /\ pc \in InBlock /\ pc \in Working
  BY Zenon, <1>1 DEF Inv, ControlOK, TypeOK, InBlock, Working
<1>4. AllBefore(height + 1, 1)
  BY <1>2, <1>3, BlockDone DEF Progress, ProgressOK
<1>5. NothingAbove(height)
  BY <1>3, Zenon DEF HeightOK, DirtyOK
<1> QED
  BY Zenon, <1>1, <1>3, <1>4, <1>5 DEF Settled

LEMMA ForecastHolds ==
    ASSUME TvlInv, SourceOK, Progress, HeightOK, DirtyOK, ForecastOK,
           [Next]_vars
    PROVE  ForecastTrueNow
<1> SUFFICES ASSUME NEW e \in btcInfoEvents,
                    lastProcessedHeight' # lastProcessedHeight,
                    lastProcessedHeight' = e.height
             PROVE  /\ GetConfirmedTvl <= e.unconfirmedTvl
                    /\ (\A t \in Txs :
                           stakingTxs[t] # Nil /\ stakingTxs[t].overflow =>
                               stakingTxs[t].height <= e.height - Depth + 1)
                          => GetConfirmedTvl = e.unconfirmedTvl
  BY Zenon DEF ForecastTrueNow
<1>1. Inv /\ UnbondedOK /\ TvlOK
  BY DEF TvlInv
<1>2. Settled(e.height)
  BY Zenon, <1>1, SavedSettled
<1>3. PICK l \in Int : e.height \in Nat /\ Foreseen(e, l)
  BY Zenon DEF ForecastOK
<1> QED
  BY <1>1, <1>2, <1>3, ForecastAtTip, Zenon

----------------------------------------------------------------------------
(* The theorems.                                                           *)

\* blocksEventLoop, with its chain updates and forecasts, does to the database
\* and to the queues of the indexer what StakingIndexer allows: the forecasts
\* never touch them.  All that is proved of the indexer holds of the loop.
THEOREM InfoImplementsIndexer == InfoSpec => Spec
<1>1. InfoInit => Init
  BY DEF InfoInit
<1>2. [InfoNext]_infoVars => [Next]_vars
  BY Zenon, InfoIsNext
<1> QED
  BY <1>1, <1>2, PTL DEF InfoSpec, Spec

\* The inductive invariant, on top of the ones of the indexer.
InfoInv ==
    SourceOK /\ HeightOK /\ TipOK /\ DirtyOK /\ UpdateOK /\ ForecastOK

LEMMA InfoInitInv ==
    ASSUME InfoInit
    PROVE  InfoInv
<1>1. /\ \A t \in Txs : stakingTxs[t] = Nil /\ unbondingTxs[t] = Nil
      /\ pc = "down" /\ chain \in Chains
      /\ update = Nil /\ seenTip = 0 /\ btcInfoEvents = {}
  BY DEF InfoInit, Init, StoreInit
<1>2. SourceOK
  BY <1>1, Zenon DEF SourceOK, StakesOK, ValidOK
<1>3. HeightOK
  BY Zenon, <1>1 DEF HeightOK, Working, InBlock
<1>4. TipOK
  BY <1>1, ChainFacts DEF TipOK
<1>5. \A n : NothingAbove(n)
  BY <1>1, AtPosition, Zenon DEF NothingAbove
<1>6. DirtyOK
  BY <1>5, Zenon DEF DirtyOK
<1>7. UpdateOK /\ ForecastOK
  BY <1>1, Zenon DEF UpdateOK, ForecastOK
<1> QED
  BY Zenon, <1>2, <1>3, <1>4, <1>6, <1>7 DEF InfoInv

LEMMA InfoNextInv ==
    ASSUME StartHeightFlags = {}, TvlInv, TvlInv', Progress, InfoInv,
           [InfoNext]_infoVars
    PROVE  InfoInv'
<1>1. /\ Inv /\ UnbondedOK /\ CurrentOK /\ Inv' /\ NoFatalError'
      /\ [Next]_vars
  BY Zenon, InfoIsNext DEF TvlInv, Progress
<1>2. /\ SourceOK /\ StakesOK /\ ValidOK /\ HeightOK /\ TipOK /\ DirtyOK
      /\ UpdateOK /\ ForecastOK
  BY DEF InfoInv, SourceOK
<1>3. StakesOK' /\ ValidOK'
  BY <1>1, <1>2, StakesStep, ValidStep, Zenon
<1>4. HeightOK' /\ TipOK' /\ DirtyOK' /\ UpdateOK'
  BY <1>1, <1>2, HeightStep, TipStep, DirtyStep, UpdateStep
<1>5. ForecastOK'
  BY Zenon, <1>2, ForecastStep
<1> QED
  BY Zenon, <1>3, <1>4, <1>5 DEF InfoInv, SourceOK

THEOREM InfoInvariant ==
    ASSUME StartHeightFlags = {}
    PROVE  InfoSpec => []InfoInv
<1>1. InfoInit => InfoInv
  BY Zenon, InfoInitInv
<1>2. TvlInv /\ TvlInv' /\ Progress /\ InfoInv /\ [InfoNext]_infoVars => InfoInv'
  BY InfoNextInv
<1> QED
  BY <1>1, <1>2, InfoImplementsIndexer, IndexerTvlInv, IndexerProgress, PTL
  DEF InfoSpec

\* For every chain, every depth and batch size and any number of crashes, when
\* the operator gives no start height: processUnconfirmedInfo never fails with
\* "total tvl is negative".
THEOREM InfoTvlNeverNegative ==
    ASSUME StartHeightFlags = {}
    PROVE  InfoSpec => []TvlNeverNegative
<1>1. TvlInv /\ Progress /\ InfoInv => TvlNeverNegative
  <2> SUFFICES ASSUME TvlInv, Progress, InfoInv, ConfirmedHandled
               PROVE  UnconfirmedTvl >= 0
    BY DEF TvlNeverNegative
  <2>1. UnconfirmedTvl \in Nat
    BY HandledForecast, Zenon DEF InfoInv, Progress
  <2> QED
    BY <2>1
<1> QED
  BY <1>1, InfoInvariant, InfoImplementsIndexer, IndexerTvlInv, IndexerProgress,
     PTL

\* For every such chain: when the tip of a forecast is confirmed and saved, the
\* confirmed TVL is at most the forecast, and equals it when no stake above the
\* height that was confirmed then overflows, whatever crashes lie in between.
THEOREM InfoForecastComesTrue ==
    ASSUME StartHeightFlags = {}
    PROVE  InfoSpec => ForecastComesTrue
<1>1. TvlInv /\ Progress /\ InfoInv /\ [InfoNext]_infoVars
         => [ForecastTrueNow]_infoVars
  BY Zenon, InfoIsNext, ForecastHolds DEF InfoInv
<1> QED
  BY <1>1, InfoInvariant, InfoImplementsIndexer, IndexerTvlInv, IndexerProgress,
     PTL DEF InfoSpec, ForecastComesTrue
=============================================================================
