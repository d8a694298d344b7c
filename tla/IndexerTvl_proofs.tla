------------------------- MODULE IndexerTvl_proofs -------------------------
(***************************************************************************)
(* The confirmed TVL of StakingIndexer, for every chain and any number of  *)
(* crashes and replays.  The TVL is a sum over a finite set of             *)
(* transactions, so MapThenSumSet is first unfolded by induction over the  *)
(* set.  Then: a stake enters the sum when it is stored, and leaves it     *)
(* when its unbonding tx is stored, which happens once because an output   *)
(* is spent once; hence no unbonding tx finds the TVL too small.           *)
(***************************************************************************)
EXTENDS StakingIndexer_proofs, FiniteSetTheorems, WellFoundedInduction

----------------------------------------------------------------------------
(* The stored unbonding transactions (UnbondedOK).                         *)

\* The steps that neither end in an error nor go to the write of an unbonding tx.
LEMMA PlainSteps ==
    ASSUME Next, ~ReceiveBlock, ~HandleSpendingStaking, ~SaveUnbondingTx,
           ~HandleSpendingUnbonding
    PROVE  pc' \notin {"fatal", "save_unbonding"}
<1>1. ASSUME Start \/ Crash PROVE pc' \in {"block", "down"}
  BY <1>1 DEF Start, Crash
<1>2. ASSUME ProcessStakingTx PROVE pc' \in {"spend_staking", "save_staking"}
  BY Zenon, <1>2 DEF ProcessStakingTx
<1>3. ASSUME SaveStakingTx PROVE pc' = "spend_staking"
  BY Zenon, <1>3 DEF SaveStakingTx
<1>4. ASSUME SpentStakingDone PROVE pc' = "spend_unbonding"
  BY Zenon, <1>4 DEF SpentStakingDone
<1>5. ASSUME SpentUnbondingDone PROVE pc' = "tx"
  BY Zenon, <1>5 DEF SpentUnbondingDone
<1>6. ASSUME SaveHeight PROVE pc' \in {"confirmed_info", "block"}
  BY <1>6 DEF SaveHeight
<1>7. ASSUME PushConfirmedInfo PROVE pc' = "block"
  BY Zenon, <1>7 DEF PushConfirmedInfo
<1> QED
  BY <1>1, <1>2, <1>3, <1>4, <1>5, <1>6, <1>7 DEF Next, HandleBlocks

\* Every step keeps the stored unbonding transactions right.
LEMMA UnbondedStep ==
    ASSUME Inv, UnbondedOK, [Next]_vars
    PROVE  UnbondedOK'
<1>1. chain' = chain
  BY ChainConstant
<1>2. ASSUME NEW t \in Txs, unbondingTxs'[t] # Nil
      PROVE  OfChain(t)' /\ Unlocks(t, unbondingTxs[t])'
  <2> DEFINE s == unbondingTxs'[t]
  <2>1. s \in Txs /\ OfChain(t) /\ Unlocks(t, s)
    <3>1. CASE unbondingTxs'[t] = unbondingTxs[t]
      BY <1>2, <3>1 DEF UnbondedOK, Inv, TypeOK, StoreTypeOK
    <3>2. CASE unbondingTxs'[t] # unbondingTxs[t]
      <4>1. SaveUnbondingTx /\ unbondingTxs' # unbondingTxs
        BY <3>2, StoreSteps, SaveStakingEffect
      <4>2. /\ tx \in Txs
            /\ TxData[tx].ins[inIdx].tx \in Txs
            /\ unbondingTxs' = [unbondingTxs EXCEPT ![tx] =
                                   TxData[tx].ins[inIdx].tx]
        BY <4>1, SaveUnbondingEffect
      <4>3. t = tx /\ s = TxData[tx].ins[inIdx].tx
        BY <3>2, <4>2 DEF Inv, TypeOK, StoreTypeOK
      <4>4. pc = "save_unbonding"
        BY <4>1 DEF SaveUnbondingTx
      <4>5. OfChain(tx)
        <5>1. /\ height \in BaseHeight..Len(chain)
              /\ txIdx \in 1..Len(chain[height])
          BY <4>4, InTxPosition DEF Inv, InTx
        <5>2. height \in 1..Len(chain)
          BY <5>1, ConstantFacts
        <5> QED
          BY <5>1, <5>2 DEF OfChain, tx
      <4> QED
        BY <4>2, <4>3, <4>4, <4>5 DEF UnbondedOK
    <3> QED
      BY <3>1, <3>2
  <2>2. OfChain(t)'
    BY <1>1, <2>1 DEF OfChain
  <2> QED
    BY <2>1, <2>2, UnlocksStays
<1>3. ASSUME pc' = "save_unbonding"
      PROVE  Unlocks(tx, TxData[tx].ins[inIdx].tx)'
  <2>1. CASE UNCHANGED vars
    <3>1. UNCHANGED <<pc, chain, height, txIdx, inIdx, stakingTxs>>
      BY <2>1 DEF vars, storeVars
    <3>2. Unlocks(tx, TxData[tx].ins[inIdx].tx)
      BY <1>3, <3>1 DEF UnbondedOK
    <3> QED
      BY Zenon, <3>1, <3>2 DEF Unlocks, UnlocksUnbonding, tx
  <2>2. CASE HandleSpendingStaking
    <3>1. PICK i \in SpentStakingInputs(tx) :
              /\ inIdx' = i
              /\ \/ UnlocksUnbonding(tx, TxData[tx].ins[i].tx)
                 \/ pc' = pc
      BY <2>2 DEF HandleSpendingStaking
    <3>2. pc = "spend_staking" /\ UNCHANGED <<height, txIdx>>
      BY <2>2 DEF HandleSpendingStaking
    <3>3. tx' = tx
      BY <1>1, <3>2 DEF tx
    <3>4. Unlocks(tx, TxData[tx].ins[i].tx)
      BY <1>3, <3>1, <3>2
         DEF SpentStakingInputs, Unlocks, GetStakingTransaction
    <3>5. stakingTxs' = stakingTxs
      BY <2>2 DEF HandleSpendingStaking, storeVars
    <3> QED
      BY Zenon, <3>1, <3>3, <3>4, <3>5 DEF Unlocks, UnlocksUnbonding
  <2>3. ~ReceiveBlock
    BY <1>3 DEF ReceiveBlock
  <2>4. ~SaveUnbondingTx
    BY <1>3 DEF SaveUnbondingTx
  <2>5. ~HandleSpendingUnbonding
    BY <1>3 DEF HandleSpendingUnbonding
  <2> QED
    BY <1>3, <2>1, <2>2, <2>3, <2>4, <2>5, PlainSteps
<1> QED
  BY <1>2, <1>3 DEF UnbondedOK

\* Only the write of an unbonding tx could still end in an error.
LEMMA OtherNoFatal ==
    ASSUME Inv, UnbondedOK, NoFatalError, [Next]_vars, ~SaveUnbondingTx
    PROVE  NoFatalError'
<1>1. CASE HandleSpendingUnbonding
  <2>1. PICK i \in SpentUnbondingInputs(tx) :
            pc' = IF stakingTxs[unbondingTxs[TxData[tx].ins[i].tx]] = Nil
                  THEN "fatal" ELSE pc
    BY ZenonT(30), <1>1 DEF HandleSpendingUnbonding
  <2>2. pc = "spend_unbonding"
    BY <1>1 DEF HandleSpendingUnbonding
  <2>3. /\ TxData[tx].ins[i].tx \in Txs
        /\ unbondingTxs[TxData[tx].ins[i].tx] # Nil
    BY <2>1, <2>2, InTxPosition, TxFacts
       DEF SpentUnbondingInputs, GetUnbondingTransaction, Inv, InTx
  <2>4. stakingTxs[unbondingTxs[TxData[tx].ins[i].tx]] # Nil
    BY <2>3 DEF UnbondedOK, Unlocks
  <2> QED
    BY <2>1, <2>2, <2>4 DEF NoFatalError
<1>2. CASE ReceiveBlock
  <2>1. height \in 1..Len(chain) /\ height >= BaseHeight
    BY <1>2, ConstantFacts DEF ReceiveBlock, Inv, ControlOK, TypeOK
  <2>2. params # Nil
    BY <2>1, ChainFacts, ParamsFacts DEF params, Inv, ControlOK
  <2> QED
    BY <1>2, <2>2 DEF ReceiveBlock, NoFatalError
<1>3. CASE UNCHANGED vars
  BY <1>3 DEF vars, NoFatalError
<1>4. CASE HandleSpendingStaking
  <2>1. pc' # "fatal"
    BY ZenonT(30), <1>4 DEF HandleSpendingStaking
  <2> QED
    BY <2>1 DEF NoFatalError
<1> QED
  BY <1>1, <1>2, <1>3, <1>4, PlainSteps DEF NoFatalError

----------------------------------------------------------------------------
(* Sums over finite sets.                                                  *)

\* The sum of the values of m over S.
Total(m, S) == MapThenSumSet(LAMBDA t : m[t].value, S)

\* g sums the values of m over every subset of S, as MapThenSumSet does.
IsTotal(g, m, S) ==
    g = [s \in SUBSET S |->
            IF s = {} THEN 0
            ELSE LET x == CHOOSE x \in s : TRUE IN m[x].value + g[s \ {x}]]

\* A nonempty set of finite sets has a minimal element: induction over finite
\* sets.
LEMMA Minimal ==
    ASSUME NEW U, NEW K \in SUBSET FiniteSubsetsOf(U), K # {}
    PROVE  \E A \in K : \A B \in K : ~(B \subseteq A /\ B # A)
<1>1. PICK A \in K : \A B \in K : <<B, A>> \notin StrictSubsetOrdering(U)
  BY WFMin, FS_StrictSubsetOrderingWellFounded, Zenon
<1>2. \A B \in K : B \in SUBSET U
  BY DEF FiniteSubsetsOf
<1> QED
  BY Zenon, <1>1, <1>2 DEF StrictSubsetOrdering

\* The sum over a set, one element apart.
LEMMA TotalUnfold ==
    ASSUME NEW g, NEW m, NEW S, IsTotal(g, m, S), NEW A \in SUBSET S
    PROVE  /\ A = {} => g[A] = 0
           /\ A # {} => LET x == CHOOSE x \in A : TRUE
                        IN  /\ x \in A /\ A \ {x} \in SUBSET S
                            /\ g[A] = m[x].value + g[A \ {x}]
<1>1. g[A] = IF A = {} THEN 0
             ELSE LET x == CHOOSE x \in A : TRUE IN m[x].value + g[A \ {x}]
  BY Zenon DEF IsTotal
<1>2. A # {} => (CHOOSE x \in A : TRUE) \in A
  OBVIOUS
<1> QED
  BY <1>1, <1>2, Zenon

\* Two functions that sum agree where both are defined.
LEMMA TotalUnique ==
    ASSUME NEW m, NEW S, NEW T, NEW g, NEW h,
           IsTotal(g, m, S), IsTotal(h, m, T),
           NEW A, A \subseteq S, A \subseteq T, IsFiniteSet(A)
    PROVE  g[A] = h[A]
<1> SUFFICES ASSUME g[A] # h[A] PROVE FALSE
  OBVIOUS
<1> DEFINE K == {B \in FiniteSubsetsOf(A) : g[B] # h[B]}
<1>1. A \in K
  BY DEF FiniteSubsetsOf
<1>2. PICK B \in K : \A C \in K : ~(C \subseteq B /\ C # B)
  <2> HIDE DEF K
  <2>1. K \in SUBSET FiniteSubsetsOf(A)
    BY DEF K
  <2> QED
    BY <1>1, <2>1, Minimal
<1>3. /\ B \in SUBSET S /\ B \in SUBSET T /\ B \subseteq A
      /\ g[B] # h[B] /\ IsFiniteSet(B)
  BY <1>2 DEF FiniteSubsetsOf
<1>4. B # {}
  BY <1>3, TotalUnfold
<1> DEFINE x == CHOOSE x \in B : TRUE
<1>5. /\ x \in B
      /\ g[B] = m[x].value + g[B \ {x}]
      /\ h[B] = m[x].value + h[B \ {x}]
  <2> HIDE DEF K
  <2>1. B \in SUBSET S /\ B \in SUBSET T
    BY <1>3
  <2>2. x \in B
    BY <1>4
  <2>4. g[B] = m[x].value + g[B \ {x}]
    BY <2>1, <1>4, TotalUnfold
  <2>3. h[B] = m[x].value + h[B \ {x}]
    BY <2>1, <1>4, TotalUnfold
  <2> QED
    BY <2>2, <2>3, <2>4
<1>6. B \ {x} \in FiniteSubsetsOf(A) /\ B \ {x} \subseteq B /\ B \ {x} # B
  <2>1. IsFiniteSet(B \ {x})
    BY <1>3, FS_Subset
  <2> QED
    BY <1>3, <1>5, <2>1 DEF FiniteSubsetsOf
<1>7. g[B \ {x}] = h[B \ {x}]
  BY <1>2, <1>6
<1> QED
  BY <1>3, <1>5, <1>7

\* There is a function that sums.
LEMMA TotalExists ==
    ASSUME NEW m, NEW S, IsFiniteSet(S)
    PROVE  \E g : IsTotal(g, m, S)
<1> SUFFICES ASSUME ~\E g : IsTotal(g, m, S) PROVE FALSE
  OBVIOUS
<1> DEFINE K == {B \in FiniteSubsetsOf(S) : ~\E g : IsTotal(g, m, B)}
<1>1. S \in K
  BY DEF FiniteSubsetsOf
<1>2. PICK B \in K : \A C \in K : ~(C \subseteq B /\ C # B)
  <2> HIDE DEF K
  <2>1. K \in SUBSET FiniteSubsetsOf(S)
    BY DEF K
  <2> QED
    BY <1>1, <2>1, Minimal
<1>3. B \subseteq S /\ IsFiniteSet(B) /\ ~\E g : IsTotal(g, m, B)
  BY <1>2 DEF FiniteSubsetsOf
<1> DEFINE G(C) == CHOOSE g : IsTotal(g, m, C)
           H == [s \in SUBSET B |->
                   IF s = {} THEN 0
                   ELSE LET x == CHOOSE x \in s : TRUE
                        IN  m[x].value + G(s \ {x})[s \ {x}]]
<1>4. \A C \in SUBSET B : C # B => IsTotal(G(C), m, C) /\ IsFiniteSet(C)
  <2> SUFFICES ASSUME NEW C \in SUBSET B, C # B
               PROVE  (\E g : IsTotal(g, m, C)) /\ IsFiniteSet(C)
    BY Zenon
  <2>1. IsFiniteSet(C)
    BY <1>3, FS_Subset
  <2>2. C \in FiniteSubsetsOf(S)
    BY <1>3, <2>1 DEF FiniteSubsetsOf
  <2> QED
    BY <1>2, <2>1, <2>2
<1>5. \A C \in SUBSET B : C # B => H[C] = G(C)[C]
  <2> SUFFICES ASSUME NEW C \in SUBSET B, C # B PROVE H[C] = G(C)[C]
    BY Zenon
  <2>1. IsTotal(G(C), m, C) /\ IsFiniteSet(C)
    BY <1>4, Zenon
  <2>2. CASE C = {}
    <3>1. H[C] = 0
      BY <2>2
    <3> HIDE DEF H, G
    <3>2. C \in SUBSET C
      OBVIOUS
    <3>3. G(C)[C] = 0
      BY <2>1, <2>2, <3>2, TotalUnfold, Zenon
    <3> QED
      BY <3>1, <3>3
  <2>3. CASE C # {}
    <3> DEFINE y == CHOOSE y \in C : TRUE
    <3>1. y \in C
      BY <2>3
    <3>2. H[C] = m[y].value + G(C \ {y})[C \ {y}]
      BY <2>3, Zenon
    <3>3. C \ {y} \in SUBSET B /\ C \ {y} # B /\ C \ {y} \subseteq C
      BY <3>1
    <3>4. IsTotal(G(C \ {y}), m, C \ {y}) /\ IsFiniteSet(C \ {y})
      BY <1>4, <3>3, Zenon
    <3>5. G(C)[C] = m[y].value + G(C)[C \ {y}]
      BY ZenonT(30), <2>1, <2>3, TotalUnfold
    <3>6. G(C)[C \ {y}] = G(C \ {y})[C \ {y}]
      <4> HIDE DEF G, y
      <4> QED
        BY <2>1, <3>3, <3>4, TotalUnique
    <3> HIDE DEF H, G, y
    <3> QED
      BY <3>2, <3>5, <3>6
  <2> QED
    BY <2>2, <2>3
<1>6. IsTotal(H, m, B)
  <2>1. ASSUME NEW s \in SUBSET B, s # {}
        PROVE  LET x == CHOOSE x \in s : TRUE
               IN  G(s \ {x})[s \ {x}] = H[s \ {x}]
    <3> DEFINE x == CHOOSE x \in s : TRUE
    <3>1. x \in s
      BY <2>1
    <3>2. s \ {x} \in SUBSET B /\ s \ {x} # B
      BY <3>1
    <3> HIDE DEF G, H
    <3> QED
      BY <1>5, <3>2
  <2>2. H = [s \in SUBSET B |->
               IF s = {} THEN 0
               ELSE LET x == CHOOSE x \in s : TRUE IN m[x].value + H[s \ {x}]]
    <3> HIDE DEF G
    <3>1. ASSUME NEW s \in SUBSET B
          PROVE  (IF s = {} THEN 0
                  ELSE LET x == CHOOSE x \in s : TRUE
                       IN  m[x].value + G(s \ {x})[s \ {x}])
                 = (IF s = {} THEN 0
                    ELSE LET x == CHOOSE x \in s : TRUE
                         IN  m[x].value + H[s \ {x}])
      <4>1. CASE s = {}
        BY <4>1, Zenon
      <4>2. CASE s # {}
        <5> HIDE DEF H
        <5>1. LET x == CHOOSE x \in s : TRUE
              IN  G(s \ {x})[s \ {x}] = H[s \ {x}]
          BY <2>1, <4>2, Zenon
        <5> QED
          BY <4>2, <5>1, Zenon
      <4> QED
        BY <4>1, <4>2, Zenon
    <3> QED
      BY <3>1, Zenon
  <2> HIDE DEF H
  <2> QED
    BY <2>2, Zenon DEF IsTotal
<1> QED
  BY <1>3, <1>6, Zenon

\* MapThenSumSet is such a sum.
LEMMA TotalIs ==
    ASSUME NEW m, NEW S, IsFiniteSet(S)
    PROVE  LET g == CHOOSE g : IsTotal(g, m, S)
           IN  IsTotal(g, m, S) /\ Total(m, S) = g[S]
<1>1. Total(m, S) = (CHOOSE g : IsTotal(g, m, S))[S]
  BY DEF Total, MapThenSumSet, MapThenFoldSet, IsTotal
<1> QED
  BY <1>1, TotalExists, Zenon

\* The sum over a set is a value plus the sum over the rest.
LEMMA TotalStep ==
    ASSUME NEW m, NEW S, IsFiniteSet(S)
    PROVE  /\ S = {} => Total(m, S) = 0
           /\ S # {} => \E x \in S :
                           Total(m, S) = m[x].value + Total(m, S \ {x})
<1>1. PICK g : IsTotal(g, m, S) /\ Total(m, S) = g[S]
  BY TotalIs, Zenon
<1>2. CASE S = {}
  BY <1>1, <1>2, TotalUnfold
<1>3. CASE S # {}
  <2> DEFINE x == CHOOSE x \in S : TRUE
  <2>1. x \in S /\ g[S] = m[x].value + g[S \ {x}]
    BY <1>1, <1>3, TotalUnfold
  <2>2. IsFiniteSet(S \ {x})
    BY FS_Subset
  <2>3. PICK h : IsTotal(h, m, S \ {x}) /\ Total(m, S \ {x}) = h[S \ {x}]
    BY <2>2, TotalIs, Zenon
  <2> HIDE DEF x
  <2>4. g[S \ {x}] = h[S \ {x}]
    BY SMTT(30), <1>1, <2>2, <2>3, TotalUnique
  <2> QED
    BY Zenon, <1>1, <1>3, <2>1, <2>3, <2>4
<1> QED
  BY <1>2, <1>3

\* A sum of naturals is a natural.
LEMMA TotalNat ==
    ASSUME NEW m, NEW S, IsFiniteSet(S), \A x \in S : m[x].value \in Nat
    PROVE  Total(m, S) \in Nat
<1> SUFFICES ASSUME Total(m, S) \notin Nat PROVE FALSE
  OBVIOUS
<1> DEFINE K == {A \in FiniteSubsetsOf(S) : Total(m, A) \notin Nat}
<1>1. S \in K
  BY DEF FiniteSubsetsOf
<1>2. PICK A \in K : \A B \in K : ~(B \subseteq A /\ B # A)
  <2>1. K \in SUBSET FiniteSubsetsOf(S)
    BY DEF K
  <2> HIDE DEF K
  <2> QED
    BY <1>1, <2>1, Minimal
<1>3. A \subseteq S /\ IsFiniteSet(A) /\ Total(m, A) \notin Nat
  BY <1>2 DEF FiniteSubsetsOf
<1>4. A # {}
  BY <1>3, TotalStep
<1>5. PICK x \in A : Total(m, A) = m[x].value + Total(m, A \ {x})
  BY <1>3, <1>4, TotalStep
<1>6. A \ {x} \in FiniteSubsetsOf(S) /\ A \ {x} \subseteq A /\ A \ {x} # A
  <2>1. IsFiniteSet(A \ {x})
    BY <1>3, FS_Subset
  <2> QED
    BY <1>3, <2>1 DEF FiniteSubsetsOf
<1>7. Total(m, A \ {x}) \in Nat
  BY <1>2, <1>6
<1> QED
  BY <1>3, <1>5, <1>7

\* The order in which MapThenSumSet takes the elements does not matter.
LEMMA TotalRemove ==
    ASSUME NEW m, NEW S, IsFiniteSet(S), \A x \in S : m[x].value \in Nat,
           NEW y \in S
    PROVE  Total(m, S) = m[y].value + Total(m, S \ {y})
<1> SUFFICES ASSUME Total(m, S) # m[y].value + Total(m, S \ {y}) PROVE FALSE
  OBVIOUS
<1> DEFINE K == {A \in FiniteSubsetsOf(S) :
                   \E z \in A : Total(m, A) # m[z].value + Total(m, A \ {z})}
<1>1. S \in K
  BY Zenon DEF FiniteSubsetsOf
<1>2. PICK A \in K : \A B \in K : ~(B \subseteq A /\ B # A)
  <2>1. K \in SUBSET FiniteSubsetsOf(S)
    BY DEF K
  <2> HIDE DEF K
  <2> QED
    BY <1>1, <2>1, Minimal
<1>3. A \subseteq S /\ IsFiniteSet(A)
  BY <1>2 DEF FiniteSubsetsOf
<1>4. PICK z \in A : Total(m, A) # m[z].value + Total(m, A \ {z})
  BY <1>2
<1>5. PICK x \in A : Total(m, A) = m[x].value + Total(m, A \ {x})
  BY <1>3, <1>4, TotalStep
<1>6. x # z
  BY Zenon, <1>4, <1>5
<1>7. \A w \in A : /\ IsFiniteSet(A \ {w})
                   /\ A \ {w} \in FiniteSubsetsOf(S)
                   /\ A \ {w} \subseteq A /\ A \ {w} # A
  <2>1. \A w \in A : IsFiniteSet(A \ {w})
    BY <1>3, FS_Subset
  <2> QED
    BY <1>3, <2>1 DEF FiniteSubsetsOf
<1>8. \A w \in A : \A v \in A \ {w} :
         Total(m, A \ {w}) = m[v].value + Total(m, (A \ {w}) \ {v})
  BY Zenon, <1>2, <1>7
<1>9. (A \ {x}) \ {z} = (A \ {z}) \ {x}
  OBVIOUS
<1>10. /\ Total(m, A \ {x}) = m[z].value + Total(m, (A \ {x}) \ {z})
       /\ Total(m, A \ {z}) = m[x].value + Total(m, (A \ {x}) \ {z})
  BY SMTT(30), <1>6, <1>8, <1>9
<1>11. /\ m[x].value \in Nat /\ m[z].value \in Nat
       /\ Total(m, (A \ {x}) \ {z}) \in Nat
  <2>1. IsFiniteSet((A \ {x}) \ {z})
    BY <1>3, FS_Subset
  <2> QED
    BY <1>3, <2>1, TotalNat
<1> QED
  BY <1>4, <1>5, <1>10, <1>11

\* The sum depends on the values in the set only.
LEMMA TotalSame ==
    ASSUME NEW m, NEW n, NEW S, IsFiniteSet(S),
           \A x \in S : m[x].value = n[x].value /\ m[x].value \in Nat
    PROVE  Total(m, S) = Total(n, S)
<1> SUFFICES ASSUME Total(m, S) # Total(n, S) PROVE FALSE
  OBVIOUS
<1> DEFINE K == {A \in FiniteSubsetsOf(S) : Total(m, A) # Total(n, A)}
<1>1. S \in K
  BY DEF FiniteSubsetsOf
<1>2. PICK A \in K : \A B \in K : ~(B \subseteq A /\ B # A)
  <2>1. K \in SUBSET FiniteSubsetsOf(S)
    BY DEF K
  <2> HIDE DEF K
  <2> QED
    BY <1>1, <2>1, Minimal
<1>3. A \subseteq S /\ IsFiniteSet(A) /\ Total(m, A) # Total(n, A)
  BY <1>2 DEF FiniteSubsetsOf
<1>4. A # {}
  BY <1>3, TotalStep
<1>5. PICK x \in A : Total(m, A) = m[x].value + Total(m, A \ {x})
  BY <1>3, <1>4, TotalStep
<1>6. Total(n, A) = n[x].value + Total(n, A \ {x})
  BY <1>3, TotalRemove
<1>7. A \ {x} \in FiniteSubsetsOf(S) /\ A \ {x} \subseteq A /\ A \ {x} # A
  <2>1. IsFiniteSet(A \ {x})
    BY <1>3, FS_Subset
  <2> QED
    BY <1>3, <2>1 DEF FiniteSubsetsOf
<1>8. Total(m, A \ {x}) = Total(n, A \ {x})
  BY <1>2, <1>7
<1> QED
  BY <1>3, <1>5, <1>6, <1>8

\* The sum over one element.
LEMMA TotalOne ==
    ASSUME NEW m, NEW x, m[x].value \in Nat
    PROVE  Total(m, {x}) = m[x].value /\ Total(m, {}) = 0
<1>1. IsFiniteSet({x}) /\ IsFiniteSet({})
  BY FS_Singleton, FS_EmptySet
<1>2. Total(m, {}) = 0
  BY <1>1, TotalStep
<1>3. Total(m, {x}) = m[x].value + Total(m, {x} \ {x})
  BY <1>1, TotalRemove
<1>4. {x} \ {x} = {}
  OBVIOUS
<1> QED
  BY <1>2, <1>3, <1>4

\* A larger set has a larger sum.
LEMMA TotalMono ==
    ASSUME NEW m, NEW S, IsFiniteSet(S), \A x \in S : m[x].value \in Nat,
           NEW T \in SUBSET S
    PROVE  Total(m, T) <= Total(m, S)
<1> SUFFICES ASSUME ~(Total(m, T) <= Total(m, S)) PROVE FALSE
  OBVIOUS
<1> DEFINE K == {A \in FiniteSubsetsOf(S) :
                   T \subseteq A /\ ~(Total(m, T) <= Total(m, A))}
<1>1. S \in K
  BY Zenon DEF FiniteSubsetsOf
<1>2. PICK A \in K : \A B \in K : ~(B \subseteq A /\ B # A)
  <2>1. K \in SUBSET FiniteSubsetsOf(S) /\ K # {}
    BY <1>1, Zenon
  <2> HIDE DEF K
  <2> QED
    BY <2>1, Minimal
<1>3. /\ A \subseteq S /\ IsFiniteSet(A) /\ T \subseteq A
      /\ ~(Total(m, T) <= Total(m, A))
  BY Zenon DEF FiniteSubsetsOf
<1>4. \A x \in A : m[x].value \in Nat
  BY <1>3
<1>5. T # A
  <2>1. Total(m, A) \in Nat
    BY <1>3, <1>4, TotalNat
  <2> QED
    BY <1>3, <2>1
<1>6. PICK y \in A : y \notin T
  BY <1>3, <1>5, Zenon
<1>7. PICK B : B = A \ {y}
  BY Zenon
<1>8. /\ B \subseteq A /\ B # A /\ T \subseteq B /\ B \subseteq S
  BY <1>3, <1>6, <1>7, Zenon
<1>9. IsFiniteSet(B) /\ \A x \in B : m[x].value \in Nat
  BY <1>3, <1>4, <1>8, FS_Subset
<1>10. Total(m, A) = m[y].value + Total(m, B)
  BY <1>3, <1>4, <1>7, TotalRemove
<1>11. Total(m, T) <= Total(m, B)
  BY <1>2, <1>8, <1>9, Zenon DEF FiniteSubsetsOf
<1>12. /\ Total(m, B) \in Nat /\ m[y].value \in Nat
  BY <1>4, <1>9, TotalNat
<1>13. Total(m, T) \in Nat
  <2>1. IsFiniteSet(T) /\ \A x \in T : m[x].value \in Nat
    BY <1>8, <1>9, FS_Subset
  <2> QED
    BY <2>1, TotalNat
<1> HIDE DEF K
<1> QED
  BY <1>3, <1>10, <1>11, <1>12, <1>13

\* A nonempty set of naturals has a least element: induction over naturals.
LEMMA Least ==
    ASSUME NEW K \in SUBSET Nat, K # {}
    PROVE  \E m \in K : \A k \in K : m <= k
<1> DEFINE L == {1..k : k \in K}
<1>1. L \in SUBSET FiniteSubsetsOf(Nat) /\ L # {}
  <2>1. ASSUME NEW k \in K PROVE 1..k \in FiniteSubsetsOf(Nat)
    <3>1. IsFiniteSet(1..k)
      BY FS_Interval
    <3> QED
      BY <3>1 DEF FiniteSubsetsOf
  <2> QED
    BY <2>1
<1>2. PICK A \in L : \A B \in L : ~(B \subseteq A /\ B # A)
  <2> HIDE DEF L
  <2> QED
    BY <1>1, Minimal
<1>3. PICK m \in K : A = 1..m
  OBVIOUS
<1>4. ASSUME NEW k \in K, k < m PROVE FALSE
  <2>1. 1..k \subseteq 1..m /\ m \in 1..m /\ m \notin 1..k
    BY <1>4
  <2> QED
    BY <1>2, <1>3, <2>1
<1> QED
  BY <1>4

----------------------------------------------------------------------------
(* The confirmed TVL.                                                      *)

\* The staking transactions in the store.
Stored == {t \in Txs : stakingTxs[t] # Nil}

\* Those whose value ActiveStake counts.
Active == {t \in Txs \ {unbondingTxs[u] : u \in Txs} :
              stakingTxs[t] # Nil /\ ~stakingTxs[t].overflow}

\* The TVL is the value of the active stakes; without a TVL there are none.
TvlOK ==
    /\ IsFiniteSet(Stored)
    /\ confirmedTvl = Nil => \A t \in Stored : stakingTxs[t].overflow
    /\ TvlIsActiveStake

\* The inductive invariant of this part.
TvlInv == Inv /\ UnbondedOK /\ TvlOK /\ NoFatalError

\* ActiveStake is the total of the active transactions.
LEMMA ActiveStakeIs == ActiveStake = Total(stakingTxs, Active)
BY DEF ActiveStake, Total, Active

\* ActiveStake sums finitely many naturals.
LEMMA ActiveStakeTotal ==
    ASSUME Inv, IsFiniteSet(Stored)
    PROVE  /\ ActiveStake = Total(stakingTxs, Active)
           /\ IsFiniteSet(Active)
           /\ Active \subseteq Stored
           /\ \A t \in Stored : stakingTxs[t].value \in Nat
<1>1. ActiveStake = Total(stakingTxs, Active)
  BY ActiveStakeIs
<1>2. Active \subseteq Stored
  BY DEF Active, Stored
<1>3. IsFiniteSet(Active)
  BY <1>2, FS_Subset
<1>4. \A t \in Stored : stakingTxs[t] \in StakingTransaction
  BY DEF Inv, TypeOK, StoreTypeOK, Stored
<1>5. \A t \in Stored : stakingTxs[t].value \in Nat
  BY <1>4, StoreAssumption, Zenon DEF StakingTransaction
<1> QED
  BY <1>1, <1>2, <1>3, <1>5

\* A step that writes neither transactions nor the TVL.
LEMMA StoreUnchanged ==
    ASSUME TvlOK, UNCHANGED <<stakingTxs, unbondingTxs, confirmedTvl>>
    PROVE  TvlOK'
<1>1. /\ Stored' = Stored /\ Active' = Active
      /\ GetConfirmedTvl' = GetConfirmedTvl
  BY DEF Stored, Active, GetConfirmedTvl
<1>2. ActiveStake = Total(stakingTxs, Active)
  BY ActiveStakeIs
<1>3. (ActiveStake = Total(stakingTxs, Active))'
  BY ActiveStakeIs, PTL
<1> QED
  BY <1>1, <1>2, <1>3 DEF TvlOK, TvlIsActiveStake

\* AddStakingTransaction adds the value of a stake that is not overflow.
LEMMA SaveStakingTvl ==
    ASSUME TvlInv, SaveStakingTx
    PROVE  TvlOK'
<1>2. CASE UNCHANGED <<stakingTxs, unbondingTxs, confirmedTvl>>
  BY <1>2, StoreUnchanged DEF TvlInv
<1>3. CASE ~UNCHANGED <<stakingTxs, unbondingTxs, confirmedTvl>>
  <2> DEFINE st == StakingRecord(tx, height, overflow)
  <2>1. /\ tx \in Txs
        /\ stakingTxs[tx] = Nil
        /\ stakingTxs' = [stakingTxs EXCEPT ![tx] = st]
        /\ confirmedTvl' = IF overflow THEN confirmedTvl
                           ELSE GetConfirmedTvl + st.value
        /\ unbondingTxs' = unbondingTxs
    <3>1. st.value = TxData[tx].staking.value
      BY DEF StakingRecord
    <3> QED
      BY <1>3, <3>1, SaveStakingEffect, Zenon DEF TvlInv
  <2>2. st \in StakingTransaction /\ st # Nil /\ st.overflow = overflow
    BY RecordType, NilAssumption, RecordFields DEF TvlInv, Inv, SaveStakingTx
  <2>3. st.value \in Nat
    BY <2>2, StoreAssumption, Zenon DEF StakingTransaction
  <2> HIDE DEF st
  <2>4. /\ stakingTxs'[tx] = st
        /\ \A t \in Txs : t # tx => stakingTxs'[t] = stakingTxs[t]
    BY <2>1 DEF TvlInv, Inv, TypeOK, StoreTypeOK
  <2>5. \A t \in Txs : unbondingTxs[t] # tx
    BY <2>1, StoreAssumption DEF TvlInv, UnbondedOK, Unlocks
  <2>7. Stored' = Stored \cup {tx} /\ tx \notin Stored
    BY <2>1, <2>2, <2>4 DEF Stored
  <2>8. IsFiniteSet(Stored')
    BY <2>7, FS_AddElement DEF TvlInv, TvlOK
  <2>9. confirmedTvl' = Nil => \A t \in Stored' : stakingTxs'[t].overflow
    <3> SUFFICES ASSUME confirmedTvl' = Nil, NEW t \in Stored'
                 PROVE  stakingTxs'[t].overflow
      OBVIOUS
    <3>1. GetConfirmedTvl \in Nat
      BY DEF TvlInv, Inv, TypeOK, StoreTypeOK, GetConfirmedTvl
    <3>2. overflow /\ confirmedTvl = Nil
      BY <2>1, <2>3, <3>1, NilAssumption
    <3> QED
      BY Zenon, <2>1, <2>2, <2>4, <2>7, <3>2 DEF TvlInv, TvlOK, Stored
  <2>10. Inv'
    BY SaveStakingTxInv DEF TvlInv
  <2>11. /\ ActiveStake = Total(stakingTxs, Active)
         /\ ActiveStake' = Total(stakingTxs', Active')
         /\ IsFiniteSet(Active) /\ IsFiniteSet(Active')
         /\ Active \subseteq Stored
         /\ \A t \in Stored : stakingTxs[t].value \in Nat
         /\ \A t \in Stored' : stakingTxs'[t].value \in Nat
         /\ Active' \subseteq Stored'
    <3>1. /\ ActiveStake = Total(stakingTxs, Active)
          /\ IsFiniteSet(Active)
          /\ Active \subseteq Stored
          /\ \A t \in Stored : stakingTxs[t].value \in Nat
      BY ActiveStakeTotal DEF TvlInv, TvlOK
    <3>2. (Inv /\ IsFiniteSet(Stored) =>
                  /\ ActiveStake = Total(stakingTxs, Active)
                  /\ IsFiniteSet(Active)
                  /\ Active \subseteq Stored
                  /\ \A t \in Stored : stakingTxs[t].value \in Nat)'
      BY ActiveStakeTotal, PTL
    <3> QED
      BY SMTT(30), <2>8, <2>10, <3>1, <3>2
  <2>12. Total(stakingTxs', Active) = Total(stakingTxs, Active)
         /\ Total(stakingTxs, Active) \in Nat
    <3>1. \A t \in Active : t \in Txs /\ t # tx
      BY <2>7, <2>11 DEF Stored
    <3>2. \A t \in Active : /\ stakingTxs[t].value = stakingTxs'[t].value
                            /\ stakingTxs[t].value \in Nat
      BY SMTT(30), <2>4, <2>11, <3>1
    <3> QED
      BY SMTT(30), <2>11, <3>2, TotalSame, TotalNat
  <2>13. GetConfirmedTvl = Total(stakingTxs, Active)
    BY <2>11 DEF TvlInv, TvlOK, TvlIsActiveStake
  <2>14. CASE overflow
    <3>1. Active' = Active
      BY Zenon, <2>1, <2>2, <2>4, <2>14 DEF Active
    <3>2. GetConfirmedTvl' = GetConfirmedTvl
      BY <2>1, <2>14 DEF GetConfirmedTvl
    <3> QED
      BY SMTT(30), <2>8, <2>9, <2>11, <2>12, <2>13, <3>1, <3>2
         DEF TvlOK, TvlIsActiveStake
  <2>15. CASE ~overflow
    <3>1. Active' = Active \cup {tx} /\ tx \notin Active /\ tx \in Active'
      BY SMTT(30), <2>1, <2>2, <2>4, <2>5, <2>15 DEF Active
    <3>2. Active' \ {tx} = Active
      BY <3>1
    <3>3. Total(stakingTxs', Active') = stakingTxs'[tx].value
                                          + Total(stakingTxs', Active)
      BY SMTT(30), <2>11, <3>1, <3>2, TotalRemove
    <3>4. confirmedTvl' = GetConfirmedTvl + st.value
      BY <2>1, <2>15
    <3>5. GetConfirmedTvl' = GetConfirmedTvl + st.value
      BY SMTT(30), <2>3, <2>12, <2>13, <3>4, NilAssumption DEF GetConfirmedTvl
    <3>6. GetConfirmedTvl' = ActiveStake'
      BY SMTT(30), <2>3, <2>4, <2>11, <2>12, <2>13, <3>3, <3>5
    <3> QED
      BY SMTT(30), <2>8, <2>9, <3>6 DEF TvlOK, TvlIsActiveStake
  <2> QED
    BY <2>14, <2>15
<1> QED
  BY <1>2, <1>3

\* AddUnbondingTransaction: its staking tx is active and not yet unbonded, so
\* its value is part of the TVL.
LEMMA SaveUnbondingTvl ==
    ASSUME TvlInv, SaveUnbondingTx
    PROVE  TvlOK' /\ NoFatalError'
<1> DEFINE s == TxData[tx].ins[inIdx].tx
<1>1. /\ tx \in Txs /\ s \in Txs
      /\ chain' = chain
      /\ pc = "save_unbonding"
      /\ pc' \in {"spend_staking", "fatal"}
  BY InTxPosition, TxFacts DEF TvlInv, Inv, ControlOK, SaveUnbondingTx, InTx
<1>2. OfChain(tx)
  <2>1. /\ height \in BaseHeight..Len(chain)
        /\ txIdx \in 1..Len(chain[height])
    BY <1>1, InTxPosition DEF TvlInv, Inv, InTx
  <2>2. height \in 1..Len(chain)
    BY <2>1, ConstantFacts
  <2> QED
    BY SMTT(30), <2>1, <2>2 DEF OfChain, tx
<1>3. Unlocks(tx, s)
  BY SMTT(30), <1>1 DEF TvlInv, UnbondedOK
<1>4. stakingTxs[s] # Nil /\ stakingTxs[s] \in StakingTransaction
  BY <1>1, <1>3 DEF Unlocks, TvlInv, Inv, TypeOK, StoreTypeOK
<1> HIDE DEF s
<1>5. CASE unbondingTxs[tx] # Nil
  <2>1. AddUnbondingError(tx, s) = "ErrDuplicateTransaction"
    BY SMTT(30), <1>4, <1>5 DEF AddUnbondingError
  <2>2. /\ UNCHANGED <<stakingTxs, unbondingTxs, confirmedTvl>>
        /\ pc' = "spend_staking"
    BY <2>1 DEF SaveUnbondingTx, AddUnbondingTransaction, storeVars, s
  <2> QED
    BY <2>2, StoreUnchanged DEF TvlInv, NoFatalError
<1>6. CASE unbondingTxs[tx] = Nil
  <2>1. \A u \in Txs : unbondingTxs[u] # s
    <3> SUFFICES ASSUME NEW u \in Txs, unbondingTxs[u] = s PROVE FALSE
      OBVIOUS
    <3>1. OfChain(u) /\ Unlocks(u, s)
      BY <1>1, StoreAssumption DEF TvlInv, UnbondedOK
    <3>2. u = tx
      BY SMTT(30), <1>1, <1>2, <1>3, <3>1, UnbondedOnce DEF TvlInv
    <3> QED
      BY <1>1, <1>6, <3>2, StoreAssumption
  <2>2. /\ ActiveStake = Total(stakingTxs, Active)
        /\ IsFiniteSet(Active)
        /\ Active \subseteq Stored
        /\ \A t \in Stored : stakingTxs[t].value \in Nat
    BY ActiveStakeTotal DEF TvlInv, TvlOK
  <2>3. (ActiveStake = Total(stakingTxs, Active))'
    BY ActiveStakeIs, PTL
  <2>4. GetConfirmedTvl = Total(stakingTxs, Active)
    BY <2>2 DEF TvlInv, TvlOK, TvlIsActiveStake
  <2>5. s \in Stored
    BY <1>1, <1>4 DEF Stored
  <2>6. ~stakingTxs[s].overflow =>
            /\ s \in Active
            /\ confirmedTvl # Nil /\ confirmedTvl \in Nat
            /\ confirmedTvl = stakingTxs[s].value
                                 + Total(stakingTxs, Active \ {s})
            /\ stakingTxs[s].value \in Nat
            /\ Total(stakingTxs, Active \ {s}) \in Nat
    <3> SUFFICES ASSUME ~stakingTxs[s].overflow
                 PROVE  /\ s \in Active
                        /\ confirmedTvl # Nil /\ confirmedTvl \in Nat
                        /\ confirmedTvl = stakingTxs[s].value
                                            + Total(stakingTxs, Active \ {s})
                        /\ stakingTxs[s].value \in Nat
                        /\ Total(stakingTxs, Active \ {s}) \in Nat
      OBVIOUS
    <3>1. s \in Active
      BY <1>1, <1>4, <2>1 DEF Active
    <3>2. confirmedTvl # Nil /\ confirmedTvl \in Nat
      BY <2>5 DEF TvlInv, TvlOK, Inv, TypeOK, StoreTypeOK
    <3>3. Total(stakingTxs, Active)
             = stakingTxs[s].value + Total(stakingTxs, Active \ {s})
      BY <2>2, <3>1, TotalRemove
    <3>4. Total(stakingTxs, Active \ {s}) \in Nat
      <4>1. IsFiniteSet(Active \ {s})
        BY <2>2, FS_Subset
      <4> QED
        BY SMTT(30), <2>2, <4>1, TotalNat
    <3> QED
      BY SMTT(30), <2>2, <2>4, <2>5, <3>1, <3>2, <3>3, <3>4 DEF GetConfirmedTvl
  <2>7. AddUnbondingError(tx, s) = "none"
    <3>1. CASE stakingTxs[s].overflow
      BY <1>4, <1>6, <3>1 DEF AddUnbondingError
    <3>2. CASE ~stakingTxs[s].overflow
      <4>1. SubtractTvlError(stakingTxs[s].value) = "none"
        BY <2>6, <3>2 DEF SubtractTvlError
      <4> QED
        BY SMTT(30), <1>4, <1>6, <3>2, <4>1 DEF AddUnbondingError
    <3> QED
      BY <3>1, <3>2
  <2>8. /\ unbondingTxs' = [unbondingTxs EXCEPT ![tx] = s]
        /\ confirmedTvl' = IF stakingTxs[s].overflow THEN confirmedTvl
                           ELSE confirmedTvl - stakingTxs[s].value
        /\ stakingTxs' = stakingTxs
        /\ pc' = "spend_staking"
    BY <2>7, Zenon DEF SaveUnbondingTx, AddUnbondingTransaction, s
  <2>9. /\ unbondingTxs'[tx] = s
        /\ \A t \in Txs : t # tx => unbondingTxs'[t] = unbondingTxs[t]
    BY SMTT(30), <1>1, <2>8 DEF TvlInv, Inv, TypeOK, StoreTypeOK
  <2>11. Stored' = Stored
    BY <2>8 DEF Stored
  <2>12. {unbondingTxs'[u] : u \in Txs} \cap Txs
            = ({unbondingTxs[u] : u \in Txs} \cap Txs) \cup {s}
    BY SMTT(30), <1>1, <1>6, <2>9, StoreAssumption
  <2>13. Active' = Active \ {s}
    BY SMTT(30), <2>8, <2>12 DEF Active
  <2>14. CASE stakingTxs[s].overflow
    <3>1. Active' = Active
      BY <2>13, <2>14 DEF Active
    <3>2. confirmedTvl' = confirmedTvl
      BY SMTT(30), <2>8, <2>14
    <3> QED
      BY SMTT(30), <2>2, <2>3, <2>8, <2>11, <3>1, <3>2
         DEF TvlInv, TvlOK, TvlIsActiveStake, GetConfirmedTvl, NoFatalError
  <2>15. CASE ~stakingTxs[s].overflow
    <3>1. confirmedTvl' = confirmedTvl - stakingTxs[s].value
      BY <2>8, <2>15
    <3>2. /\ confirmedTvl' = Total(stakingTxs, Active \ {s})
          /\ confirmedTvl' # Nil
      BY SMTT(30), <2>6, <2>15, <3>1, NilAssumption
    <3>3. GetConfirmedTvl' = ActiveStake'
      BY <2>3, <2>8, <2>13, <3>2 DEF GetConfirmedTvl
    <3> QED
      BY SMTT(30), <2>8, <2>11, <3>2, <3>3
         DEF TvlInv, TvlOK, TvlIsActiveStake, NoFatalError
  <2> QED
    BY <2>14, <2>15
<1> QED
  BY SMTT(30), <1>5, <1>6

\* The confirmed TVL and the stored transactions agree in every state, also
\* where a crash has interrupted a block and while the block is replayed.
THEOREM IndexerTvlInv == Spec => []TvlInv
<1>1. Init => TvlInv
  <2> SUFFICES ASSUME Init PROVE TvlInv
    OBVIOUS
  <2>1. Stored = {} /\ Active = {}
    BY DEF Init, StoreInit, Stored, Active
  <2>2. IsFiniteSet(Stored)
    BY SMTT(30), <2>1, FS_EmptySet
  <2>3. ActiveStake = 0
    <3>1. ActiveStake = Total(stakingTxs, Active)
      BY ActiveStakeIs
    <3> QED
      BY <2>1, <3>1, FS_EmptySet, TotalStep
  <2>4. TvlOK
    BY <2>1, <2>2, <2>3
       DEF Init, StoreInit, TvlOK, TvlIsActiveStake, GetConfirmedTvl
  <2> QED
    BY Zenon, <2>4, InitInv
    DEF Init, StoreInit, TvlInv, UnbondedOK, NoFatalError
<1>2. TvlInv /\ [Next]_vars => TvlInv'
  <2> SUFFICES ASSUME TvlInv, [Next]_vars PROVE TvlInv'
    OBVIOUS
  <2>1. Inv'
    BY NextInv DEF TvlInv
  <2>2. UnbondedOK'
    BY UnbondedStep DEF TvlInv
  <2>3. CASE SaveUnbondingTx
    BY <2>1, <2>2, <2>3, SaveUnbondingTvl DEF TvlInv
  <2>4. CASE ~SaveUnbondingTx
    <3>1. NoFatalError'
      BY <2>4, OtherNoFatal DEF TvlInv
    <3>2. TvlOK'
      BY <2>4, StoreSteps, StoreUnchanged, SaveStakingTvl DEF TvlInv
    <3> QED
      BY <2>1, <2>2, <3>1, <3>2 DEF TvlInv
  <2> QED
    BY <2>3, <2>4
<1> QED
  BY <1>1, <1>2, PTL DEF Spec

\* For every chain that spends no output twice, all parameters and any number
\* of crashes and replays: the confirmed TVL in the database is the sum of the
\* values of the stored staking transactions that are neither overflow nor
\* unbonded (AddStakingTransaction, AddUnbondingTransaction).
THEOREM IndexerTvlIsActiveStake == Spec => []TvlIsActiveStake
<1>1. TvlInv => TvlIsActiveStake
  BY DEF TvlInv, TvlOK
<1> QED
  BY <1>1, IndexerTvlInv, PTL

\* For every such chain and any number of crashes and replays:
\* HandleConfirmedBlock never ends in an error that kills the process.  The
\* parameters of every height from the start height on exist, the staking tx of
\* an unbonding tx is stored, and the TVL never falls short of what an
\* unbonding tx takes from it.
THEOREM IndexerNoFatalError == Spec => []NoFatalError
<1>1. TvlInv => NoFatalError
  BY DEF TvlInv
<1> QED
  BY <1>1, IndexerTvlInv, PTL
=============================================================================
