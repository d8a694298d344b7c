------------------------ MODULE IndexerSystem_proofs ------------------------
(***************************************************************************)
(* Theorems about the poller over a node that reorganizes (BtcScanner) and *)
(* about the poller with the indexer's database, crashes and restarts      *)
(* (IndexerSystem), for every tree of blocks, depth, batch size and any    *)
(* number of reorgs, failed RPCs and crashes.                              *)
(*                                                                         *)
(* What the poller hands over is final while no reorg is as deep as the    *)
(* confirmation depth: a chain that holds the last block of the cache      *)
(* holds the whole cache, so a block that leaves the cache is              *)
(* ConfirmationDepth - 1 blocks below one on the node's best chain, and a  *)
(* shallower reorg does not reach it.  The same holds of the last          *)
(* confirmed block, so the check against it does not panic.  The           *)
(* invariants hold in every life of the process; what has been settled     *)
(* when it was handed over stays so, and the database has no gap.          *)
(***************************************************************************)
EXTENDS IndexerSystem, BtcScanner_proofs

\* Block b is on chain c.
OnChain(b, c) == HeightOf(b) <= Len(c) /\ c[HeightOf(b)] = b

\* The heights of the blocks of s go up by one, and a chain that holds the last
\* block holds all of them.
Branch(s) ==
    \A i \in 1..Len(s) :
        /\ HeightOf(s[i]) + (Len(s) - i) = HeightOf(s[Len(s)])
        /\ \A c \in Chains : OnChain(s[Len(s)], c) => OnChain(s[i], c)

\* The blocks of s are on the best chain with ConfirmationDepth confirmations.
Settled(s) ==
    \A i \in 1..Len(s) :
        /\ HeightOf(s[i]) + (ConfirmationDepth - 1) <= Len(main)
        /\ OnChain(s[i], main)

\* What has been or is about to be handed over, or is collected for it.
HandedOver ==
    /\ Settled(delivered)
    /\ pc = "send" => Settled(update.confirmed)
    /\ Fetching => Settled(boot.confirmed)

FinalInv ==
    /\ Branch(cache)
    /\ Fetching /\ cache # <<>> => boot.next >= 2
    /\ deepestReorg < ConfirmationDepth => HandedOver

----------------------------------------------------------------------------
(* Branches and settled blocks.                                            *)

\* The height of a block is a positive number.
LEMMA HeightFacts ==
    ASSUME NEW b \in Blocks
    PROVE  HeightOf(b) \in Nat /\ HeightOf(b) >= 1
BY BlocksAssumption

\* A block on top of a branch makes a longer branch.
LEMMA BranchAppend ==
    ASSUME NEW s \in Seq(Blocks), NEW b \in Blocks, Branch(s),
           s # <<>> => /\ Prev(b) = s[Len(s)]
                       /\ HeightOf(b) = HeightOf(s[Len(s)]) + 1
    PROVE  Branch(Append(s, b))
<1> DEFINE t == Append(s, b)
<1>1. /\ t \in Seq(Blocks) /\ Len(t) = Len(s) + 1 /\ t[Len(t)] = b
      /\ \A i \in 1..Len(s) : t[i] = s[i]
  OBVIOUS
<1> HIDE DEF t
<1>2. SUFFICES ASSUME NEW i \in 1..Len(t)
               PROVE  /\ HeightOf(t[i]) + (Len(t) - i) = HeightOf(t[Len(t)])
                      /\ \A c \in Chains :
                            OnChain(t[Len(t)], c) => OnChain(t[i], c)
  BY DEF Branch, t
<1>3. CASE i = Len(t)
  BY <1>1, <1>3, HeightFacts
<1>4. CASE i # Len(t)
  <2>1. i \in 1..Len(s) /\ s # <<>> /\ t[i] = s[i]
    BY <1>1, <1>4
  <2>2. /\ s[Len(s)] \in Blocks /\ s[i] \in Blocks
        /\ HeightOf(s[Len(s)]) \in Nat /\ HeightOf(s[Len(s)]) >= 1
        /\ HeightOf(s[i]) \in Nat
    <3>1. s[Len(s)] \in Blocks /\ s[i] \in Blocks
      BY <2>1
    <3> QED
      BY <3>1, HeightFacts
  <2>3. HeightOf(s[i]) + (Len(s) - i) = HeightOf(s[Len(s)])
    BY <2>1 DEF Branch
  <2>4. HeightOf(t[i]) + (Len(t) - i) = HeightOf(t[Len(t)])
    <3>1. HeightOf(s[i]) + ((Len(s) + 1) - i) = HeightOf(s[Len(s)]) + 1
      BY <2>1, <2>2, <2>3
    <3> QED
      BY <1>1, <2>1, <3>1
  <2>5. ASSUME NEW c \in Chains, OnChain(b, c)
        PROVE  OnChain(s[i], c)
    <3>1. HeightOf(b) \in 2..Len(c)
      BY <2>1, <2>2, <2>5, HeightFacts, ChainFacts DEF OnChain
    <3>2. Prev(c[HeightOf(b)]) = c[HeightOf(b) - 1]
      BY <3>1, ChainsAssumption
    <3>3. OnChain(s[Len(s)], c)
      <4>1. HeightOf(s[Len(s)]) = HeightOf(b) - 1
        BY <2>1, <2>2
      <4>2. c[HeightOf(b)] = b
        BY <2>5 DEF OnChain
      <4> QED
        BY <2>1, <3>1, <3>2, <4>1, <4>2, ChainFacts DEF OnChain
    <3> QED
      BY <2>1, <3>3 DEF Branch
  <2> QED
    BY <1>1, <2>1, <2>4, <2>5
<1> QED
  BY <1>3, <1>4

\* What TrimConfirmedBlocks leaves of a branch is a branch.
LEMMA BranchKept ==
    ASSUME NEW s \in Seq(Blocks), NEW k \in Nat, Branch(s)
    PROVE  Branch(KeptBlocks(s, k))
<1>1. CASE Len(s) <= k
  BY <1>1 DEF KeptBlocks
<1>2. CASE Len(s) > k
  <2> DEFINE t == SubSeq(s, Len(s) - k + 1, Len(s))
  <2>1. KeptBlocks(s, k) = t
    BY <1>2 DEF KeptBlocks
  <2>2. Len(t) = k /\ \A i \in 1..k : t[i] = s[Len(s) - k + i]
    BY <1>2
  <2> HIDE DEF t
  <2>3. SUFFICES ASSUME NEW i \in 1..Len(t)
                 PROVE  /\ HeightOf(t[i]) + (Len(t) - i) = HeightOf(t[Len(t)])
                        /\ \A c \in Chains :
                              OnChain(t[Len(t)], c) => OnChain(t[i], c)
    BY <2>1 DEF Branch
  <2>4. Len(s) - k + i \in 1..Len(s) /\ k \in 1..k /\ i \in 1..k
    BY <1>2, <2>2
  <2>5. t[Len(t)] = s[Len(s)] /\ t[i] = s[Len(s) - k + i]
    BY <2>2, <2>4
  <2>6. /\ HeightOf(s[Len(s) - k + i]) + (Len(s) - (Len(s) - k + i))
              = HeightOf(s[Len(s)])
        /\ \A c \in Chains :
              OnChain(s[Len(s)], c) => OnChain(s[Len(s) - k + i], c)
    BY <2>4 DEF Branch
  <2>7. Len(s) - (Len(s) - k + i) = Len(t) - i
    BY <2>2
  <2> QED
    BY <2>5, <2>6, <2>7
<1> QED
  BY <1>1, <1>2

\* What TrimConfirmedBlocks takes out of a branch whose last block is on the
\* best chain is settled.
LEMMA SettledTrimmed ==
    ASSUME main \in Chains,
           NEW s \in Seq(Blocks), Branch(s), s # <<>>,
           Len(s) <= ConfirmationDepth, OnChain(s[Len(s)], main)
    PROVE  Settled(TrimmedBlocks(s, Unconfirmed))
<1>1. CASE Len(s) <= Unconfirmed
  BY <1>1 DEF TrimmedBlocks, Settled
<1>2. CASE Len(s) > Unconfirmed
  <2>1. Len(s) = ConfirmationDepth /\ Len(s) - Unconfirmed = 1
    BY <1>2, DepthFacts
  <2>2. TrimmedBlocks(s, Unconfirmed) = SubSeq(s, 1, 1)
    BY <1>2, <2>1, DepthFacts DEF TrimmedBlocks
  <2>3. Len(SubSeq(s, 1, 1)) = 1 /\ SubSeq(s, 1, 1)[1] = s[1]
    BY <2>1, DepthFacts
  <2>4. 1 \in 1..Len(s)
    BY <2>1, DepthFacts
  <2>5. /\ HeightOf(s[1]) + (Len(s) - 1) = HeightOf(s[Len(s)])
        /\ OnChain(s[1], main)
    BY <2>4 DEF Branch
  <2>6. HeightOf(s[1]) + (ConfirmationDepth - 1) <= Len(main)
    BY <2>1, <2>5 DEF OnChain
  <2> QED
    BY <2>2, <2>3, <2>5, <2>6 DEF Settled
<1> QED
  BY <1>1, <1>2, DepthFacts

\* Two settled parts make a settled whole.
LEMMA SettledConcat ==
    ASSUME NEW s \in Seq(Blocks), NEW t \in Seq(Blocks), Settled(s), Settled(t)
    PROVE  Settled(s \o t)
<1> SUFFICES ASSUME NEW i \in 1..Len(s \o t)
             PROVE  /\ HeightOf((s \o t)[i]) + (ConfirmationDepth - 1) <= Len(main)
                    /\ OnChain((s \o t)[i], main)
  BY DEF Settled
<1>1. CASE i <= Len(s)
  <2>1. i \in 1..Len(s) /\ (s \o t)[i] = s[i]
    BY <1>1
  <2> QED
    BY <2>1 DEF Settled
<1>2. CASE i > Len(s)
  <2>1. i - Len(s) \in 1..Len(t) /\ (s \o t)[i] = t[i - Len(s)]
    BY <1>2
  <2> QED
    BY <2>1 DEF Settled
<1> QED
  BY <1>1, <1>2

\* Nothing is settled from the start.
LEMMA SettledEmpty == Settled(<<>>)
BY DEF Settled

\* A reorg shallower than the confirmation depth keeps settled blocks settled.
LEMMA SettledStays ==
    ASSUME main \in Chains, NEW c \in Chains, NEW f \in 0..Len(main),
           IsFork(f, main, c), main' = c, Len(c) > Len(main),
           Len(main) - f < ConfirmationDepth,
           NEW s \in Seq(Blocks), Settled(s)
    PROVE  Settled(s)'
<1>1. SUFFICES ASSUME NEW i \in 1..Len(s)
               PROVE  /\ HeightOf(s[i]) + (ConfirmationDepth - 1) <= Len(c)
                      /\ HeightOf(s[i]) <= Len(c) /\ c[HeightOf(s[i])] = s[i]
  BY DEF Settled, OnChain
<1>2. /\ HeightOf(s[i]) + (ConfirmationDepth - 1) <= Len(main)
      /\ HeightOf(s[i]) <= Len(main) /\ main[HeightOf(s[i])] = s[i]
  BY DEF Settled, OnChain
<1>3. HeightOf(s[i]) \in Nat /\ HeightOf(s[i]) >= 1
  BY HeightFacts
<1>4. Len(main) \in Nat /\ Len(c) \in Nat
  BY ChainFacts
<1>5. HeightOf(s[i]) \in 1..f
  BY <1>2, <1>3, <1>4, DepthFacts
<1>6. main[HeightOf(s[i])] = c[HeightOf(s[i])]
  BY <1>5 DEF IsFork
<1> QED
  BY <1>2, <1>3, <1>4, <1>6, DepthFacts

\* Add and TrimConfirmedBlocks for a block of the best chain on top of the cache.
LEMMA AddFinal ==
    ASSUME main \in Chains, NEW s \in Seq(Blocks), NEW b \in Blocks,
           Len(s) < ConfirmationDepth, Branch(s), OnChain(b, main),
           s # <<>> => /\ Prev(b) = s[Len(s)]
                       /\ HeightOf(b) = HeightOf(s[Len(s)]) + 1
    PROVE  /\ Branch(KeptBlocks(Add(s, b), Unconfirmed))
           /\ Settled(TrimmedBlocks(Add(s, b), Unconfirmed))
           /\ TrimmedBlocks(Add(s, b), Unconfirmed) \in Seq(Blocks)
<1> DEFINE t == Append(s, b)
<1>1. Add(s, b) = t
  BY AddAppends
<1>2. /\ t \in Seq(Blocks) /\ Len(t) = Len(s) + 1 /\ t[Len(t)] = b
      /\ t # <<>>
  <2>1. t \in Seq(Blocks) /\ Len(t) = Len(s) + 1 /\ t[Len(t)] = b
    OBVIOUS
  <2>2. Len(t) >= 1
    BY <2>1
  <2> HIDE DEF t
  <2> QED
    BY <2>1, <2>2, EmptySeq
<1>3. Branch(t)
  BY BranchAppend
<1> HIDE DEF t
<1>4. Branch(KeptBlocks(t, Unconfirmed))
  BY <1>2, <1>3, DepthFacts, BranchKept
<1>5. Settled(TrimmedBlocks(t, Unconfirmed))
  <2>1. Len(t) <= ConfirmationDepth
    BY <1>2, DepthFacts
  <2> QED
    BY <1>2, <1>3, <2>1, SettledTrimmed
<1>6. TrimmedBlocks(t, Unconfirmed) \in Seq(Blocks)
  BY <1>2, DepthFacts, TrimSplits
<1> QED
  BY <1>1, <1>4, <1>5, <1>6

----------------------------------------------------------------------------
(* The steps.                                                              *)

\* A change of the node's best chain.
LEMMA NodeFinal ==
    ASSUME Inv, FinalInv, MineBlock \/ Reorg
    PROVE  FinalInv'
<1>1. /\ main \in Chains /\ main \in Seq(Blocks) /\ deepestReorg \in Nat
      /\ delivered \in Seq(Blocks)
      /\ update.confirmed \in Seq(Blocks) /\ boot.confirmed \in Seq(Blocks)
  BY ChainFacts DEF Inv, TypeOK
<1>2. PICK c \in Chains, f \in 0..Len(main) :
          /\ Len(c) > Len(main) /\ SwitchTo(c, f)
          /\ deepestReorg' < ConfirmationDepth =>
                deepestReorg < ConfirmationDepth
                /\ Len(main) - f < ConfirmationDepth
  <2>1. CASE MineBlock
    BY <1>1, <2>1, DepthFacts DEF MineBlock
  <2>2. CASE Reorg
    BY <1>1, <2>2, DepthFacts DEF Reorg
  <2> QED
    BY <2>1, <2>2
<1>3. /\ main' = c /\ IsFork(f, main, c)
      /\ UNCHANGED <<pc, cache, boot, update, resume, delivered>>
  BY <1>2 DEF SwitchTo, history
<1>4. Branch(cache)' /\ (Fetching /\ cache # <<>> => boot.next >= 2)'
  BY <1>3 DEF FinalInv, Branch, OnChain, Fetching
<1>5. ASSUME deepestReorg' < ConfirmationDepth
      PROVE  HandedOver'
  <2>1. HandedOver /\ Len(main) - f < ConfirmationDepth
    BY <1>2, <1>5 DEF FinalInv
  <2>2. ASSUME NEW s \in Seq(Blocks), Settled(s)
        PROVE  Settled(s)'
    BY <1>1, <1>2, <1>3, <2>1, <2>2, SettledStays
  <2>3. Settled(delivered)'
    <3>1. Settled(delivered)
      BY <2>1 DEF HandedOver
    <3> QED
      BY SMTT(30), <1>1, <1>3, <2>2, <3>1 DEF Settled, OnChain
  <2>4. pc' = "send" => Settled(update.confirmed)'
    <3>1. pc = "send" => Settled(update.confirmed)
      BY <2>1 DEF HandedOver
    <3> QED
      BY Zenon, <1>1, <1>3, <2>2, <3>1 DEF Settled, OnChain
  <2>5. Fetching' => Settled(boot.confirmed)'
    <3>1. Fetching => Settled(boot.confirmed)
      BY SMTT(30), <2>1 DEF HandedOver
    <3> QED
      BY Zenon, <1>1, <1>3, <2>2, <3>1 DEF Settled, OnChain, Fetching
  <2> QED
    BY <2>3, <2>4, <2>5 DEF HandedOver
<1> QED
  BY <1>4, <1>5 DEF FinalInv

\* A step that leaves chain, blocks and the update alone.
LEMMA QuietFinal ==
    ASSUME FinalInv, Fetching' => Fetching,
           pc' = "send" => pc = "send" /\ UNCHANGED update,
           UNCHANGED <<main, deepestReorg, cache, boot, delivered>>
    PROVE  FinalInv'
BY SMTT(30) DEF FinalInv, HandedOver, Branch, Settled, OnChain

\* What commitChainUpdate sends.
LEMMA CommitSends ==
    ASSUME NEW confirmed, NEW blocks, NEW next,
           CommitChainUpdate(confirmed, blocks, next)
    PROVE  /\ pc' \in {"panicked", "send"}
           /\ pc' = "send" => update'.confirmed = confirmed /\ resume' = next
BY DEF CommitChainUpdate

\* Bootstrap begins with an empty cache and nothing collected.
LEMMA BootstrapBeginFinal ==
    ASSUME Inv, FinalInv, BootstrapBegin
    PROVE  FinalInv'
<1>1. /\ cache' = <<>> /\ UNCHANGED <<main, deepestReorg, delivered>>
      /\ \/ pc' \in {"idle", "failed"}
         \/ pc' = "fetch" /\ boot'.confirmed = <<>>
  BY DEF BootstrapBegin, AfterBootstrapError, node, history
<1>2. Branch(cache)'
  BY <1>1 DEF Branch
<1>3. HandedOver => HandedOver'
  BY <1>1 DEF HandedOver, Settled, OnChain, Fetching
<1> QED
  BY <1>1, <1>2, <1>3 DEF FinalInv

\* The end of Bootstrap commits what has been collected.
LEMMA BootstrapEndFinal ==
    ASSUME Inv, FinalInv, BootstrapEnd
    PROVE  FinalInv'
<1>1. /\ pc = "fetch" /\ UNCHANGED <<main, deepestReorg, cache, delivered>>
      /\ \/ pc' = "idle"
         \/ CommitChainUpdate(boot.confirmed, cache, "idle")
  BY DEF BootstrapEnd, node, history
<1>2. /\ ~Fetching'
      /\ pc' = "send" => update'.confirmed = boot.confirmed
  BY <1>1, CommitSends DEF Fetching
<1>3. Branch(cache)'
  BY <1>1 DEF FinalInv, Branch, OnChain
<1>4. HandedOver => HandedOver'
  BY <1>1, <1>2 DEF HandedOver, Settled, OnChain, Fetching
<1> QED
  BY <1>1, <1>2, <1>3, <1>4 DEF FinalInv

\* Bootstrap adds the next block of the best chain to the cache: what is trimmed
\* is settled, and the rest still a branch.
LEMMA FetchSettles ==
    ASSUME Inv, FinalInv, pc = "fetch", boot.next <= boot.tip,
           ~Disconnected(main[boot.next])
    PROVE  LET added == Add(cache, main[boot.next])
               trim  == TrimmedBlocks(added, Unconfirmed)
           IN  /\ Branch(KeptBlocks(added, Unconfirmed))
               /\ Settled(trim) /\ trim \in Seq(Blocks)
<1> DEFINE ib == main[boot.next]
<1>1. /\ main \in Chains /\ main \in Seq(Blocks)
      /\ boot.next \in 1..Len(main) /\ ib \in Blocks
      /\ cache \in Seq(Blocks) /\ Len(cache) < ConfirmationDepth
  <2>1. /\ main \in Chains /\ main \in Seq(Blocks)
        /\ boot \in [next : Nat, tip : Nat, confirmed : Seq(Blocks)]
        /\ boot.next >= 1 /\ boot.tip <= Len(main)
        /\ cache \in Seq(Blocks) /\ Len(cache) < ConfirmationDepth
    BY ChainFacts DEF Inv, TypeOK, BootOK, Fetching
  <2> QED
    BY <2>1
<1>2. HeightOf(ib) = boot.next /\ OnChain(ib, main)
  <2>1. HeightOf(main[boot.next]) = boot.next
    BY <1>1, ChainsAssumption
  <2> QED
    BY <1>1, <2>1 DEF OnChain
<1>3. ASSUME cache # <<>>
      PROVE  /\ Prev(ib) = cache[Len(cache)]
             /\ HeightOf(ib) = HeightOf(cache[Len(cache)]) + 1
  <2>1. Prev(ib) = cache[Len(cache)]
    BY <1>3 DEF Disconnected, Tip
  <2>2. boot.next \in 2..Len(main)
    BY <1>1, <1>3 DEF FinalInv, Fetching
  <2>3. Prev(main[boot.next]) = main[boot.next - 1]
    BY <1>1, <2>2, ChainsAssumption
  <2>4. HeightOf(main[boot.next - 1]) = boot.next - 1
    <3>1. boot.next - 1 \in 1..Len(main)
      BY <1>1, <2>2
    <3> QED
      BY <1>1, <3>1, ChainsAssumption
  <2> QED
    BY <1>2, <2>1, <2>2, <2>3, <2>4
<1>4. Branch(cache)
  BY DEF FinalInv
<1> HIDE DEF ib
<1>5. /\ Branch(KeptBlocks(Add(cache, ib), Unconfirmed))
      /\ Settled(TrimmedBlocks(Add(cache, ib), Unconfirmed))
      /\ TrimmedBlocks(Add(cache, ib), Unconfirmed) \in Seq(Blocks)
  BY <1>1, <1>2, <1>3, <1>4, AddFinal
<1> QED
  BY <1>5 DEF ib

\* One iteration of Bootstrap's loop.
LEMMA FetchBlockFinal ==
    ASSUME Inv, FinalInv, FetchBlock
    PROVE  FinalInv'
<1> DEFINE ib   == main[boot.next]
           kept == KeptBlocks(Add(cache, ib), Unconfirmed)
           trim == TrimmedBlocks(Add(cache, ib), Unconfirmed)
           out  == boot.confirmed \o trim
<1>1. /\ pc = "fetch" /\ boot.next <= boot.tip
      /\ UNCHANGED <<main, deepestReorg, delivered>>
  BY DEF FetchBlock, node, history
<1>2. /\ main \in Chains /\ main \in Seq(Blocks)
      /\ boot.next \in 1..Len(main) /\ ib \in Blocks
      /\ cache \in Seq(Blocks) /\ Len(cache) < ConfirmationDepth
      /\ boot.confirmed \in Seq(Blocks)
      /\ boot \in [next : Nat, tip : Nat, confirmed : Seq(Blocks)]
  <2>1. /\ main \in Chains /\ main \in Seq(Blocks)
        /\ boot \in [next : Nat, tip : Nat, confirmed : Seq(Blocks)]
        /\ boot.next >= 1 /\ boot.tip <= Len(main)
        /\ cache \in Seq(Blocks) /\ Len(cache) < ConfirmationDepth
    BY <1>1, ChainFacts DEF Inv, TypeOK, BootOK, Fetching
  <2> QED
    BY <1>1, <2>1
<1>3. CASE /\ pc' = AfterBootstrapError /\ UNCHANGED <<cache, boot, update>>
  <2>1. pc' \in {"idle", "failed"}
    BY <1>3 DEF AfterBootstrapError
  <2> QED
    BY <1>1, <1>3, <2>1, QuietFinal DEF Fetching
<1>4. ASSUME ~Disconnected(ib), cache' = kept, NEW rest \in Seq(Blocks),
             boot' = [boot EXCEPT !.next = @ + 1, !.confirmed = rest],
             \/ rest = out /\ UNCHANGED <<pc, update, resume>>
             \/ rest = <<>> /\ CommitChainUpdate(out, kept, "fetch")
      PROVE  FinalInv'
  <2>1. Branch(kept) /\ Settled(trim) /\ trim \in Seq(Blocks)
    BY <1>1, <1>4, FetchSettles
  <2>2. boot'.next >= 2 /\ boot'.confirmed = rest
    <3>1. boot' = [boot EXCEPT !.next = boot.next + 1, !.confirmed = rest]
      BY <1>4
    <3>2. boot' = [next |-> boot.next + 1, tip |-> boot.tip, confirmed |-> rest]
      BY Zenon, <1>2, <3>1
    <3> QED
      BY <1>2, <3>2
  <2> HIDE DEF kept, trim
  <2>3. Branch(cache)'
    BY <1>1, <1>4, <2>1 DEF Branch, OnChain
  <2>4. ASSUME HandedOver
        PROVE  HandedOver'
    <3>1. Settled(boot.confirmed) /\ Settled(delivered)
      BY <1>1, <2>4 DEF HandedOver, Fetching
    <3>2. Settled(out)
      BY <1>2, <2>1, <3>1, SettledConcat
    <3> HIDE DEF out
    <3>3. CASE rest = out /\ UNCHANGED <<pc, update, resume>>
      BY SMTT(30), <1>1, <2>2, <3>1, <3>2, <3>3
      DEF HandedOver, Settled, OnChain, Fetching
    <3>4. CASE rest = <<>> /\ CommitChainUpdate(out, kept, "fetch")
      <4>1. /\ pc' = "send" => update'.confirmed = out
            /\ Settled(<<>>)
        BY <3>4, CommitSends, SettledEmpty
      <4> QED
        BY <1>1, <2>2, <3>1, <3>2, <3>4, <4>1
        DEF HandedOver, Settled, OnChain
    <3> QED
      BY <1>4, <3>3, <3>4
  <2> QED
    BY <1>1, <2>2, <2>3, <2>4 DEF FinalInv
<1>5. out \in Seq(Blocks) \/ Disconnected(ib)
  <2>1. /\ Linked(boot.confirmed \o cache)
        /\ boot.confirmed # <<>> => Len(cache) = ConfirmationDepth - 1
    BY <1>1 DEF Inv, BranchOK, Fetching
  <2> HIDE DEF ib
  <2> QED
    BY <1>2, <2>1, AddFacts DEF Disconnected
<1>6. CASE /\ ~Disconnected(ib) /\ cache' = kept
           /\ boot' = [boot EXCEPT !.next = @ + 1, !.confirmed = out]
           /\ UNCHANGED <<pc, update, resume>>
  <2> HIDE DEF ib, kept, out
  <2> QED
    BY Zenon, <1>4, <1>5, <1>6
<1>7. CASE /\ ~Disconnected(ib) /\ cache' = kept
           /\ boot' = [boot EXCEPT !.next = @ + 1, !.confirmed = <<>>]
           /\ CommitChainUpdate(out, kept, "fetch")
  <2>1. <<>> \in Seq(Blocks)
    OBVIOUS
  <2> HIDE DEF ib, kept, out
  <2> QED
    BY Zenon, <1>4, <1>7, <2>1
<1> QED
  BY Zenon, <1>3, <1>6, <1>7 DEF FetchBlock

\* blockEventLoop takes an epoch.
LEMMA HandleNewBlockFinal ==
    ASSUME Inv, FinalInv, HandleNewBlock
    PROVE  FinalInv'
<1> DEFINE e    == Head(epochs)
           kept == KeptBlocks(Add(cache, e), Unconfirmed)
           trim == TrimmedBlocks(Add(cache, e), Unconfirmed)
<1>1. /\ pc = "idle" /\ epochs # <<>>
      /\ UNCHANGED <<main, deepestReorg, boot, delivered>>
  BY DEF HandleNewBlock, node, history
<1>2. CASE pc' \in {"idle", "bootstrap"} /\ UNCHANGED <<cache, update>>
  BY <1>1, <1>2, QuietFinal DEF Fetching
<1>3. CASE /\ NextBlock(e) /\ StillBest(e) /\ cache' = kept
           /\ CommitChainUpdate(trim, kept, "idle")
  <2>1. /\ main \in Chains /\ e \in Blocks
        /\ cache \in Seq(Blocks) /\ Len(cache) < ConfirmationDepth
        /\ Branch(cache)
    BY <1>1 DEF Inv, TypeOK, FinalInv
  <2>2. /\ OnChain(e, main)
        /\ Prev(e) = cache[Len(cache)]
        /\ HeightOf(e) = HeightOf(cache[Len(cache)]) + 1
    BY <1>3 DEF StillBest, OnChain, NextBlock, Tip
  <2>3. Branch(kept) /\ Settled(trim)
    <3> HIDE DEF e
    <3> QED
      BY <2>1, <2>2, AddFinal
  <2> HIDE DEF e, kept, trim
  <2>4. /\ ~Fetching'
        /\ pc' = "send" => update'.confirmed = trim
    BY <1>3, CommitSends DEF Fetching
  <2>5. Branch(cache)'
    BY <1>1, <1>3, <2>3 DEF Branch, OnChain
  <2>6. HandedOver => HandedOver'
    BY <1>1, <2>3, <2>4 DEF HandedOver, Settled, OnChain
  <2> QED
    BY <1>1, <2>4, <2>5, <2>6 DEF FinalInv
<1> QED
  BY <1>1, <1>2, <1>3 DEF HandleNewBlock

\* The send, and the quit case beside it.
LEMMA SendFinal ==
    ASSUME Inv, FinalInv, Receive \/ SendQuit
    PROVE  FinalInv'
<1>1. /\ pc = "send" /\ pc' = resume /\ resume \in {"fetch", "idle"}
      /\ UNCHANGED <<main, deepestReorg, cache, boot, resume>>
      /\ \/ delivered' = delivered \o update.confirmed
         \/ delivered' = delivered
  BY SMTT(30) DEF Receive, SendQuit, node, history, Inv, TypeOK
<1>2. Branch(cache)'
  BY <1>1 DEF FinalInv, Branch, OnChain
<1>3. ASSUME HandedOver
      PROVE  HandedOver'
  <2>1. delivered \in Seq(Blocks) /\ update.confirmed \in Seq(Blocks)
    BY DEF Inv, TypeOK
  <2>2. Settled(delivered) /\ Settled(delivered \o update.confirmed)
    BY <1>1, <1>3, <2>1, SettledConcat DEF HandedOver
  <2>3. Settled(delivered)'
    BY <1>1, <2>2 DEF Settled, OnChain
  <2>4. pc' # "send" /\ (Fetching' => Fetching)
    BY <1>1 DEF Fetching
  <2>5. Fetching' => Settled(boot.confirmed)'
    BY <1>1, <1>3, <2>4 DEF HandedOver, Settled, OnChain
  <2> QED
    BY <2>3, <2>4, <2>5 DEF HandedOver
<1> QED
  BY <1>1, <1>2, <1>3 DEF FinalInv, Fetching

----------------------------------------------------------------------------
(* Delivered blocks are final.                                             *)

\* Every step preserves the invariant.
LEMMA NextFinal == Inv /\ FinalInv /\ [Next]_vars => FinalInv'
<1> SUFFICES ASSUME Inv, FinalInv, [Next]_vars PROVE FinalInv'
  OBVIOUS
<1>1. CASE MineBlock \/ Reorg
  BY <1>1, NodeFinal
<1>2. CASE WaitUntilActivation \/ EpochsClosed \/ LoopQuit \/ Stop \/ Register
           \/ UNCHANGED vars
  <2>1. /\ UNCHANGED <<main, deepestReorg, cache, boot, update, delivered>>
        /\ pc' = "send" => pc = "send"
        /\ Fetching' => Fetching
    BY <1>2 DEF WaitUntilActivation, EpochsClosed, LoopQuit, Stop, Register,
                node, history, vars, Fetching
  <2> QED
    BY <2>1, QuietFinal
<1>3. CASE BootstrapBegin
  BY <1>3, BootstrapBeginFinal
<1>4. CASE FetchBlock
  BY SMTT(30), <1>4, FetchBlockFinal
<1>5. CASE BootstrapEnd
  BY <1>5, BootstrapEndFinal
<1>6. CASE Receive \/ SendQuit
  BY <1>6, SendFinal
<1>7. CASE HandleNewBlock
  BY <1>7, HandleNewBlockFinal
<1> QED
  BY <1>1, <1>2, <1>3, <1>4, <1>5, <1>6, <1>7 DEF Next, Poller

\* Nothing is cached or handed over at the start.
LEMMA InitFinal == Init => FinalInv
<1> SUFFICES ASSUME Init PROVE FinalInv
  OBVIOUS
<1>1. cache = <<>> /\ delivered = <<>> /\ pc = "waiting"
  BY DEF Init
<1> QED
  BY <1>1 DEF FinalInv, HandedOver, Branch, Settled, Fetching

\* What is handed over is settled while no reorg is deep.
LEMMA ScannerFinalInv == Spec => []FinalInv
BY InitFinal, NextFinal, ScannerInv, PTL DEF Spec

\* For every block tree, depth, batch size, number of reorgs and failed RPCs:
\* while no reorg is as deep as the confirmation depth, every confirmed block
\* the indexer has received (commitChainUpdate) is on the node's best chain.
THEOREM ScannerDeliveredFinal == Spec => []DeliveredFinal
<1>1. Inv /\ FinalInv => DeliveredFinal
  BY DEF FinalInv, HandedOver, Settled, OnChain, DeliveredFinal
<1> QED
  BY <1>1, ScannerFinalInv, ScannerInv, PTL

----------------------------------------------------------------------------
(* No false alarm.                                                         *)

\* confirmedTipBlock, when there is one, is settled.
TipSettled ==
    deepestReorg < ConfirmationDepth /\ confirmedTip # NoBlock =>
        Settled(<<confirmedTip>>)

\* No panic without a deep reorg, and what rules it out.
AlarmInv == TipSettled /\ NoFalseAlarm

\* commitChainUpdate does not panic over settled blocks that follow the last
\* confirmed one.
LEMMA CommitQuiet ==
    ASSUME TypeOK, TipSettled, deepestReorg < ConfirmationDepth,
           NEW confirmed \in Seq(Blocks), NEW blocks, NEW next,
           Rising(confirmed, BootstrapHeight), Settled(confirmed),
           CommitChainUpdate(confirmed, blocks, next),
           UNCHANGED <<main, deepestReorg>>
    PROVE  pc' = "send" /\ TipSettled'
<1>1. main \in Chains /\ main \in Seq(Blocks)
      /\ confirmedTip \in Blocks \cup {NoBlock}
  BY ChainFacts DEF TypeOK
<1>2. ~MajorReorg(confirmed)
  <2> SUFFICES ASSUME confirmed # <<>>, confirmedTip # NoBlock
               PROVE  Prev(Head(confirmed)) = confirmedTip
    BY DEF MajorReorg
  <2> DEFINE b == confirmed[1]
             h == HeightOf(confirmedTip)
  <2>1. Head(confirmed) = b /\ 1 \in 1..Len(confirmed)
    OBVIOUS
  <2>2. HeightOf(b) = (h + 1) + (1 - 1)
    BY <2>1 DEF Rising, BootstrapHeight
  <2>3. h \in Nat /\ h >= 1
    BY <1>1, HeightFacts
  <2>4. main[h] = confirmedTip
    BY DEF TipSettled, Settled, OnChain
  <2>5. h + 1 <= Len(main) /\ main[h + 1] = b
    BY <2>1, <2>2, <2>3 DEF Settled, OnChain
  <2>6. h + 1 \in 2..Len(main) /\ (h + 1) - 1 = h
    BY <1>1, <2>3, <2>5
  <2> HIDE DEF h
  <2>7. Prev(main[h + 1]) = main[h]
    BY <1>1, <2>6, ChainsAssumption
  <2> QED
    BY <2>1, <2>4, <2>5, <2>7
<1>3. /\ pc' = "send"
      /\ confirmedTip' = IF confirmed = <<>> THEN confirmedTip
                                             ELSE Tip(confirmed)
  BY <1>2 DEF CommitChainUpdate
<1>4. CASE confirmed = <<>>
  BY <1>3, <1>4 DEF TipSettled, Settled, OnChain
<1>5. CASE confirmed # <<>>
  <2>1. Len(confirmed) \in 1..Len(confirmed)
        /\ confirmedTip' = confirmed[Len(confirmed)]
    BY <1>3, <1>5 DEF Tip
  <2> QED
    BY <1>3, <2>1 DEF TipSettled, Settled, OnChain
<1> QED
  BY <1>3, <1>4, <1>5

\* A step that leaves the chain and confirmedTipBlock alone.
LEMMA QuietAlarm ==
    ASSUME AlarmInv, UNCHANGED <<main, deepestReorg, confirmedTip>>,
           pc' = "panicked" => pc = "panicked"
    PROVE  AlarmInv'
BY DEF AlarmInv, TipSettled, NoFalseAlarm, Settled, OnChain

\* commitChainUpdate, for blocks that are settled unless a deep reorg happened.
LEMMA CommitAlarm ==
    ASSUME TypeOK, AlarmInv,
           NEW confirmed \in Seq(Blocks), NEW blocks, NEW next,
           Rising(confirmed, BootstrapHeight),
           deepestReorg < ConfirmationDepth => Settled(confirmed),
           CommitChainUpdate(confirmed, blocks, next),
           UNCHANGED <<main, deepestReorg>>
    PROVE  AlarmInv'
<1>1. CASE deepestReorg < ConfirmationDepth
  <2>1. pc' = "send" /\ TipSettled'
    BY <1>1, CommitQuiet DEF AlarmInv
  <2> QED
    BY <2>1 DEF AlarmInv, NoFalseAlarm
<1>2. CASE ~(deepestReorg < ConfirmationDepth)
  <2>1. deepestReorg \in Nat /\ ConfirmationDepth \in Nat
    BY DepthFacts DEF TypeOK
  <2> QED
    BY <1>2, <2>1 DEF AlarmInv, TipSettled, NoFalseAlarm
<1> QED
  BY <1>1, <1>2

\* A change of the node's best chain.
LEMMA NodeAlarm ==
    ASSUME Inv, AlarmInv, MineBlock \/ Reorg
    PROVE  AlarmInv'
<1>1. /\ main \in Chains /\ main \in Seq(Blocks) /\ deepestReorg \in Nat
      /\ confirmedTip \in Blocks \cup {NoBlock}
  BY ChainFacts DEF Inv, TypeOK
<1>2. PICK c \in Chains, f \in 0..Len(main) :
          /\ Len(c) > Len(main) /\ SwitchTo(c, f)
          /\ deepestReorg' \in Nat /\ deepestReorg' >= deepestReorg
          /\ deepestReorg' < ConfirmationDepth =>
                Len(main) - f < ConfirmationDepth
  <2>1. CASE MineBlock
    BY <1>1, <2>1, DepthFacts DEF MineBlock
  <2>2. CASE Reorg
    BY <1>1, <2>2, DepthFacts DEF Reorg
  <2> QED
    BY <2>1, <2>2
<1>3. main' = c /\ IsFork(f, main, c) /\ UNCHANGED <<pc, confirmedTip>>
  BY <1>2 DEF SwitchTo
<1>4. NoFalseAlarm'
  BY <1>1, <1>2, <1>3, DepthFacts DEF AlarmInv, NoFalseAlarm
<1>5. TipSettled'
  <2> SUFFICES ASSUME deepestReorg' < ConfirmationDepth, confirmedTip # NoBlock
               PROVE  Settled(<<confirmedTip>>)'
    BY <1>3 DEF TipSettled
  <2>1. /\ Settled(<<confirmedTip>>) /\ Len(main) - f < ConfirmationDepth
        /\ <<confirmedTip>> \in Seq(Blocks)
    BY <1>1, <1>2, DepthFacts DEF AlarmInv, TipSettled
  <2>2. ASSUME NEW s \in Seq(Blocks), Settled(s)
        PROVE  Settled(s)'
    BY <1>1, <1>2, <1>3, <2>1, <2>2, SettledStays
  <2> QED
    BY Zenon, <1>3, <2>1, <2>2 DEF Settled, OnChain
<1> QED
  BY <1>4, <1>5 DEF AlarmInv

\* One iteration of Bootstrap's loop.
LEMMA FetchBlockAlarm ==
    ASSUME Inv, FinalInv, GapInv, AlarmInv, FetchBlock
    PROVE  AlarmInv'
<1> DEFINE ib    == main[boot.next]
           added == Add(cache, ib)
           kept  == KeptBlocks(added, Unconfirmed)
           trim  == TrimmedBlocks(added, Unconfirmed)
           out   == boot.confirmed \o trim
<1>1. /\ pc = "fetch" /\ boot.next <= boot.tip
      /\ UNCHANGED <<main, deepestReorg>>
      /\ \/ pc' \in {"idle", "failed", "fetch"} /\ UNCHANGED confirmedTip
         \/ /\ ~Disconnected(ib)
            /\ CommitChainUpdate(out, kept, "fetch")
  BY Zenon DEF FetchBlock, AfterBootstrapError, node
<1>2. CASE pc' \in {"idle", "failed", "fetch"} /\ UNCHANGED confirmedTip
  BY <1>1, <1>2, QuietAlarm
<1>3. CASE ~Disconnected(ib) /\ CommitChainUpdate(out, kept, "fetch")
  <2>1. trim \in Seq(Blocks) /\ Settled(trim)
    BY <1>1, <1>3, FetchSettles
  <2>2. /\ TypeOK /\ main \in Chains /\ main \in Seq(Blocks)
        /\ boot.next \in 1..Len(main)
        /\ boot.confirmed \in Seq(Blocks)
        /\ cache \in Seq(Blocks) /\ Len(cache) < ConfirmationDepth
        /\ Rising(boot.confirmed \o cache, BootstrapHeight)
        /\ boot.next = BootstrapHeight + Len(boot.confirmed \o cache)
    <3>1. /\ TypeOK /\ main \in Chains /\ main \in Seq(Blocks)
          /\ boot \in [next : Nat, tip : Nat, confirmed : Seq(Blocks)]
          /\ boot.next >= 1 /\ boot.tip <= Len(main)
          /\ cache \in Seq(Blocks) /\ Len(cache) < ConfirmationDepth
          /\ Rising(boot.confirmed \o cache, BootstrapHeight)
          /\ boot.next = BootstrapHeight + Len(boot.confirmed \o cache)
      BY <1>1, ChainFacts
      DEF Inv, GapInv, TypeOK, BootOK, CacheRises, Fetching
    <3> QED
      BY SMTT(30), <1>1, <3>1
  <2>3. ib \in Blocks /\ HeightOf(ib) = boot.next
    BY <2>2, ChainsAssumption
  <2>4. BootstrapHeight \in Nat
    BY <2>2, BootstrapHeightFacts
  <2> HIDE DEF ib
  <2>5. kept \in Seq(Blocks) /\ out \in Seq(Blocks)
        /\ Rising(out \o kept, BootstrapHeight)
    BY Zenon, <2>2, <2>3, <2>4, AddRises
  <2> HIDE DEF kept, trim
  <2>6. deepestReorg < ConfirmationDepth => Settled(out)
    BY <1>1, <2>1, <2>2, SettledConcat DEF FinalInv, HandedOver, Fetching
  <2> HIDE DEF out
  <2>7. Rising(out, BootstrapHeight)
    BY <2>4, <2>5, RisingConcat
  <2> QED
    BY SMTT(30), <1>1, <1>3, <2>2, <2>5, <2>6, <2>7, CommitAlarm
<1> QED
  BY <1>1, <1>2, <1>3

\* The end of Bootstrap commits what has been collected.
LEMMA BootstrapEndAlarm ==
    ASSUME Inv, FinalInv, GapInv, AlarmInv, BootstrapEnd
    PROVE  AlarmInv'
<1>1. /\ pc = "fetch" /\ UNCHANGED <<main, deepestReorg>>
      /\ \/ pc' = "idle" /\ UNCHANGED confirmedTip
         \/ CommitChainUpdate(boot.confirmed, cache, "idle")
  BY DEF BootstrapEnd, node
<1>2. CASE pc' = "idle" /\ UNCHANGED confirmedTip
  BY <1>1, <1>2, QuietAlarm
<1>3. CASE CommitChainUpdate(boot.confirmed, cache, "idle")
  <2>1. /\ TypeOK /\ boot.confirmed \in Seq(Blocks) /\ cache \in Seq(Blocks)
        /\ Rising(boot.confirmed \o cache, BootstrapHeight)
    BY <1>1 DEF Inv, TypeOK, GapInv, CacheRises, Fetching
  <2>2. Rising(boot.confirmed, BootstrapHeight)
    BY <2>1, BootstrapHeightFacts, RisingConcat
  <2>3. deepestReorg < ConfirmationDepth => Settled(boot.confirmed)
    BY <1>1 DEF FinalInv, HandedOver, Fetching
  <2> QED
    BY SMTT(30), <1>1, <1>3, <2>1, <2>2, <2>3, CommitAlarm
<1> QED
  BY <1>1, <1>2, <1>3

\* blockEventLoop takes an epoch.
LEMMA HandleNewBlockAlarm ==
    ASSUME Inv, FinalInv, GapInv, AlarmInv, HandleNewBlock
    PROVE  AlarmInv'
<1> DEFINE e    == Head(epochs)
           kept == KeptBlocks(Add(cache, e), Unconfirmed)
           trim == TrimmedBlocks(Add(cache, e), Unconfirmed)
<1>1. /\ pc = "idle" /\ epochs # <<>> /\ UNCHANGED <<main, deepestReorg>>
      /\ \/ pc' \in {"idle", "bootstrap"} /\ UNCHANGED confirmedTip
         \/ NextBlock(e) /\ StillBest(e) /\ CommitChainUpdate(trim, kept, "idle")
  BY Zenon DEF HandleNewBlock, node
<1>2. CASE pc' \in {"idle", "bootstrap"} /\ UNCHANGED confirmedTip
  BY <1>1, <1>2, QuietAlarm
<1>3. CASE NextBlock(e) /\ StillBest(e) /\ CommitChainUpdate(trim, kept, "idle")
  <2>1. /\ TypeOK /\ main \in Chains /\ e \in Blocks
        /\ cache \in Seq(Blocks) /\ Len(cache) < ConfirmationDepth
        /\ Branch(cache) /\ Rising(cache, BootstrapHeight)
    BY <1>1 DEF Inv, TypeOK, FinalInv, GapInv, CacheRises, Fetching
  <2>2. /\ OnChain(e, main) /\ cache # <<>>
        /\ Prev(e) = cache[Len(cache)]
        /\ HeightOf(e) = HeightOf(cache[Len(cache)]) + 1
    BY <1>3 DEF StillBest, OnChain, NextBlock, Tip
  <2>3. BootstrapHeight \in Nat
    BY <2>1, BootstrapHeightFacts
  <2>4. HeightOf(e) = BootstrapHeight + Len(cache)
    <3>1. Len(cache) \in 1..Len(cache)
      BY <2>1, <2>2
    <3>2. HeightOf(cache[Len(cache)]) = BootstrapHeight + (Len(cache) - 1)
      BY <2>1, <3>1 DEF Rising
    <3> QED
      BY <2>2, <2>3, <3>1, <3>2
  <2>5. <<>> \in Seq(Blocks) /\ <<>> \o cache = cache
    BY <2>1, ConcatEmptySeq
  <2> HIDE DEF e
  <2>6. trim \in Seq(Blocks) /\ Settled(trim)
    BY <2>1, <2>2, AddFinal
  <2>7. kept \in Seq(Blocks) /\ Rising((<<>> \o trim) \o kept, BootstrapHeight)
    BY Zenon, <2>1, <2>3, <2>4, <2>5, AddRises
  <2> HIDE DEF kept, trim
  <2>8. <<>> \o trim = trim
    BY <2>6, ConcatEmptySeq
  <2>9. Rising(trim, BootstrapHeight)
    BY <2>3, <2>6, <2>7, <2>8, RisingConcat
  <2> QED
    BY SMTT(30), <1>1, <1>3, <2>1, <2>6, <2>9, CommitAlarm
<1> QED
  BY <1>1, <1>2, <1>3

\* Every step preserves the invariant, from a state without a gap.
LEMMA NextAlarm ==
    Inv /\ FinalInv /\ GapInv /\ AlarmInv /\ [Next]_vars => AlarmInv'
<1> SUFFICES ASSUME Inv, FinalInv, GapInv, AlarmInv, [Next]_vars PROVE AlarmInv'
  OBVIOUS
<1>1. CASE MineBlock \/ Reorg
  BY <1>1, NodeAlarm
<1>2. CASE \/ WaitUntilActivation \/ EpochsClosed \/ LoopQuit \/ Stop \/ Register
           \/ BootstrapBegin \/ Receive \/ SendQuit \/ UNCHANGED vars
  <2>1. /\ UNCHANGED <<main, deepestReorg, confirmedTip>>
        /\ pc' = "panicked" => pc = "panicked" \/ pc' = resume
    BY Zenon, <1>2 DEF WaitUntilActivation, EpochsClosed, LoopQuit, Stop, Register,
                BootstrapBegin, AfterBootstrapError, Receive, SendQuit, node, vars
  <2>2. resume # "panicked"
    BY DEF Inv, TypeOK
  <2> QED
    BY <2>1, <2>2, QuietAlarm
<1>3. CASE FetchBlock
  BY <1>3, FetchBlockAlarm
<1>4. CASE BootstrapEnd
  BY <1>4, BootstrapEndAlarm
<1>5. CASE HandleNewBlock
  BY <1>5, HandleNewBlockAlarm
<1> QED
  BY <1>1, <1>2, <1>3, <1>4, <1>5 DEF Next, Poller

\* For every block tree, depth, batch size and any number of reorgs and failed
\* RPCs: as long as no batch is dropped, commitChainUpdate reports a "major reorg"
\* and panics only after a reorg at least as deep as the confirmation depth.
THEOREM ScannerNoFalseAlarm == Spec /\ NoBatchDropped => []NoFalseAlarm
<1>1. Init => AlarmInv
  BY DEF Init, AlarmInv, TipSettled, NoFalseAlarm
<1>2. AlarmInv => NoFalseAlarm
  BY DEF AlarmInv
<1> QED
  BY <1>1, <1>2, NextAlarm, ScannerFinalInv, ScannerGapInv, ScannerInv, PTL
  DEF Spec

----------------------------------------------------------------------------
(* The database holds blocks of the best chain.                            *)

\* Blocks of the database are settled, each at its height.
StoredSettled ==
    \A h \in DOMAIN stored :
        /\ stored[h] \in Blocks /\ HeightOf(stored[h]) = h
        /\ h + (ConfirmationDepth - 1) <= Len(main)
        /\ OnChain(stored[h], main)

SystemInv ==
    /\ Inv /\ FinalInv
    /\ pending \in Seq(Blocks)
    /\ lastProcessedHeight = 0
       \/ \E b \in Blocks : lastProcessedHeight = HeightOf(b)
    /\ deepestReorg < ConfirmationDepth => Settled(pending) /\ StoredSettled

\* A process is only started at a height of StartHeights.
LEMMA StartHeightFacts ==
    ASSUME NEW last, last = 0 \/ \E b \in Blocks : last = HeightOf(b),
           NewProcess(last)
    PROVE  startHeight' \in StartHeights
<1>1. GetStartHeight(last) \in StartHeights
  <2>1. CASE last = 0
    BY <2>1, StartHeightsAssumption DEF GetStartHeight
  <2>2. CASE last # 0
    <3>1. PICK b \in Blocks : last = HeightOf(b)
      BY <2>2
    <3> QED
      BY <2>2, <3>1, StartHeightsAssumption DEF GetStartHeight
  <2> QED
    BY <2>1, <2>2
<1> QED
  BY <1>1, StartHeightsAssumption DEF NewProcess

\* A new process satisfies the poller's invariants.
LEMMA NewProcessInv ==
    ASSUME Inv, NEW last, last = 0 \/ \E b \in Blocks : last = HeightOf(b),
           NewProcess(last)
    PROVE  Inv' /\ FinalInv' /\ UNCHANGED <<main, deepestReorg>>
<1>1. /\ UNCHANGED <<main, reorgs, deepestReorg, rpcFailures>>
      /\ pc' = "waiting" /\ registered' = FALSE /\ epochs' = <<>>
      /\ cache' = <<>> /\ confirmedTip' = NoBlock /\ boot' = NoBoot
      /\ update' = NoUpdate /\ resume' = "idle" /\ quit' = FALSE
      /\ delivered' = <<>> /\ latest' = <<>>
  BY DEF NewProcess, node
<1>2. TypeOK'
  <2>1. <<>> \in Seq(Blocks) /\ Len(<<>>) < ConfirmationDepth
    BY DepthFacts
  <2>2. /\ NoBoot \in [next : Nat, tip : Nat, confirmed : Seq(Blocks)]
        /\ NoUpdate \in [confirmed : Seq(Blocks), unconfirmed : Seq(Blocks)]
    BY <2>1 DEF NoBoot, NoUpdate
  <2>3. startHeight' \in StartHeights
    BY StartHeightFacts
  <2> QED
    BY Zenon, <1>1, <2>1, <2>2, <2>3 DEF Inv, TypeOK
<1>3. BootOK'
  <2>1. Len(main) \in Nat
    BY ChainFacts DEF Inv, TypeOK
  <2> QED
    BY <1>1, <2>1 DEF Inv, BootOK, Fetching, NoBoot
<1>4. BranchOK' /\ ConfirmedDeepEnough' /\ DeliveryOK'
  BY SMTT(30), <1>1
  DEF BranchOK, ConfirmedDeepEnough, DeliveryOK, Fetching, Linked, LastOf
<1>5. FinalInv'
  BY <1>1 DEF FinalInv, HandedOver, Branch, Settled, Fetching
<1> QED
  BY <1>1, <1>2, <1>3, <1>4, <1>5 DEF Inv

\* A step of the poller preserves its invariants.
LEMMA ScannerStep ==
    ASSUME Inv, FinalInv, Next
    PROVE  Inv' /\ FinalInv'
BY NextInv, NextFinal

\* A change of the node's best chain: what is settled stays so.
LEMMA NodeSystem ==
    ASSUME SystemInv, Node
    PROVE  SystemInv'
<1>1. /\ Inv /\ FinalInv /\ main \in Chains /\ main \in Seq(Blocks)
      /\ deepestReorg \in Nat /\ pending \in Seq(Blocks)
  BY Zenon, ChainFacts DEF SystemInv, Inv, TypeOK
<1>2. /\ MineBlock \/ Reorg
      /\ UNCHANGED <<pending, stored, lastProcessedHeight>>
  BY DEF Node, indexer
<1>3. PICK c \in Chains, f \in 0..Len(main) :
          /\ Len(c) > Len(main) /\ SwitchTo(c, f)
          /\ deepestReorg' < ConfirmationDepth =>
                deepestReorg < ConfirmationDepth
                /\ Len(main) - f < ConfirmationDepth
  <2>1. CASE MineBlock
    BY <1>1, <2>1, DepthFacts DEF MineBlock
  <2>2. CASE Reorg
    BY <1>1, <2>2, DepthFacts DEF Reorg
  <2> QED
    BY <1>2, <2>1, <2>2
<1>4. main' = c /\ IsFork(f, main, c)
  BY <1>3 DEF SwitchTo
<1>5. Inv' /\ FinalInv'
  BY <1>1, <1>2, ScannerStep DEF Next
<1>6. ASSUME deepestReorg' < ConfirmationDepth
      PROVE  Settled(pending)' /\ StoredSettled'
  <2>1. /\ Settled(pending) /\ StoredSettled
        /\ Len(main) - f < ConfirmationDepth
    BY SMTT(30), <1>3, <1>6 DEF SystemInv
  <2>2. Settled(pending)'
    <3>1. ASSUME NEW s \in Seq(Blocks), Settled(s)
          PROVE  Settled(s)'
      BY <1>1, <1>3, <1>4, <2>1, <3>1, SettledStays
    <3> QED
      BY Zenon, <1>1, <1>2, <2>1, <3>1 DEF Settled, OnChain
  <2>3. StoredSettled'
    <3>1. SUFFICES ASSUME NEW h \in DOMAIN stored
                   PROVE  /\ stored[h] \in Blocks /\ HeightOf(stored[h]) = h
                          /\ h + (ConfirmationDepth - 1) <= Len(c)
                          /\ h <= Len(c) /\ c[h] = stored[h]
      BY SMTT(30), <1>2, <1>4 DEF StoredSettled, OnChain
    <3>2. /\ stored[h] \in Blocks /\ HeightOf(stored[h]) = h
          /\ h + (ConfirmationDepth - 1) <= Len(main)
          /\ main[h] = stored[h]
      BY SMTT(30), <2>1 DEF StoredSettled, OnChain
    <3>3. h \in Nat /\ h >= 1
      BY <3>2, HeightFacts
    <3>4. Len(main) \in Nat /\ Len(c) \in Nat
      BY ChainFacts, <1>1
    <3>5. h \in 1..f
      BY SMTT(30), <2>1, <3>2, <3>3, <3>4, DepthFacts
    <3>6. main[h] = c[h]
      BY <1>4, <3>5 DEF IsFork
    <3> QED
      BY <1>3, <3>2, <3>3, <3>4, <3>6, DepthFacts
  <2> QED
    BY <2>2, <2>3
<1> QED
  BY <1>1, <1>2, <1>5, <1>6 DEF SystemInv

\* The poller and the hand-over of an update.
LEMMA PollerSystem ==
    ASSUME SystemInv, PollerStep \/ ReceiveUpdate
    PROVE  SystemInv'
<1>1. /\ Inv /\ FinalInv /\ pending \in Seq(Blocks)
      /\ update.confirmed \in Seq(Blocks)
  BY SMTT(30) DEF SystemInv, Inv, TypeOK
<1>2. /\ Poller \/ Receive
      /\ UNCHANGED <<stored, lastProcessedHeight>>
      /\ \/ pending' = pending
         \/ pc = "send" /\ pending' = update.confirmed
  BY DEF PollerStep, ReceiveUpdate, Receive, indexer
<1>3. Inv' /\ FinalInv'
  BY <1>1, <1>2, ScannerStep DEF Next
<1>4. UNCHANGED <<main, deepestReorg>>
  BY Zenon, <1>2 DEF Poller, WaitUntilActivation, BootstrapBegin, FetchBlock,
              BootstrapEnd, SendQuit, Register, HandleNewBlock, LoopQuit,
              Receive, node
<1>5. pending' \in Seq(Blocks)
  BY <1>1, <1>2
<1>6. ASSUME deepestReorg < ConfirmationDepth
      PROVE  Settled(pending)' /\ StoredSettled'
  <2>1. /\ Settled(pending) /\ StoredSettled
        /\ pc = "send" => Settled(update.confirmed)
    BY SMTT(30), <1>6 DEF SystemInv, FinalInv, HandedOver
  <2>2. Settled(pending)'
    BY SMTT(30), <1>2, <1>4, <2>1 DEF Settled, OnChain
  <2>3. StoredSettled'
    BY SMTT(30), <1>2, <1>4, <2>1 DEF StoredSettled, OnChain
  <2> QED
    BY <2>2, <2>3
<1> QED
  BY SMTT(30), <1>2, <1>3, <1>4, <1>5, <1>6 DEF SystemInv

\* The block at hand is stored at its height.
LEMMA HandleSystem ==
    ASSUME SystemInv, HandleConfirmedBlock
    PROVE  SystemInv'
<1> DEFINE ib == Head(pending)
<1>1. /\ Inv /\ FinalInv /\ pending \in Seq(Blocks) /\ pending # <<>>
      /\ UNCHANGED vars
      /\ pending' = Tail(pending) /\ lastProcessedHeight' = HeightOf(ib)
      /\ stored' = [h \in DOMAIN stored \cup {HeightOf(ib)} |->
                       IF h = HeightOf(ib) THEN ib ELSE stored[h]]
  BY DEF SystemInv, HandleConfirmedBlock
<1>2. /\ ib \in Blocks /\ ib = pending[1] /\ pending' \in Seq(Blocks)
      /\ 1 \in 1..Len(pending)
      /\ \A i \in 1..Len(pending') :
            pending'[i] = pending[i + 1] /\ i + 1 \in 1..Len(pending)
  BY <1>1
<1>3. UNCHANGED <<main, deepestReorg>>
  BY <1>1 DEF vars
<1>4. Inv' /\ FinalInv'
  <2>1. [Next]_vars
    BY <1>1
  <2> QED
    BY <1>1, <2>1, NextInv, NextFinal
<1>5. ASSUME deepestReorg < ConfirmationDepth
      PROVE  Settled(pending)' /\ StoredSettled'
  <2>1. Settled(pending) /\ StoredSettled
    BY SMTT(30), <1>5 DEF SystemInv
  <2>2. Settled(pending)'
    BY SMTT(30), <1>2, <1>3, <2>1 DEF Settled, OnChain
  <2>3. /\ HeightOf(ib) + (ConfirmationDepth - 1) <= Len(main)
        /\ OnChain(ib, main)
    BY <1>2, <2>1 DEF Settled
  <2>4. StoredSettled'
    <3> HIDE DEF ib
    <3>1. SUFFICES ASSUME NEW h \in DOMAIN stored \cup {HeightOf(ib)}
                   PROVE  /\ stored'[h] \in Blocks /\ HeightOf(stored'[h]) = h
                          /\ h + (ConfirmationDepth - 1) <= Len(main)
                          /\ OnChain(stored'[h], main)
      BY Zenon, <1>1, <1>3 DEF StoredSettled, OnChain
    <3>2. CASE h = HeightOf(ib)
      BY <1>1, <1>2, <2>3, <3>2
    <3>3. CASE h # HeightOf(ib)
      BY <1>1, <2>1, <3>3 DEF StoredSettled
    <3> QED
      BY <3>2, <3>3
  <2> QED
    BY <2>2, <2>4
<1> QED
  BY SMTT(30), <1>1, <1>2, <1>3, <1>4, <1>5 DEF SystemInv

\* A new process, on the old database or on a clean one.
LEMMA RestartSystem ==
    ASSUME SystemInv, Restart \/ StartFromCleanDb
    PROVE  SystemInv'
<1>1. PICK last :
          /\ last = 0 \/ \E b \in Blocks : last = HeightOf(b)
          /\ NewProcess(last) /\ lastProcessedHeight' = last
          /\ stored' = stored \/ stored' = <<>>
  <2>1. CASE Restart
    BY <2>1 DEF Restart, SystemInv
  <2>2. CASE StartFromCleanDb
    BY <2>2 DEF StartFromCleanDb
  <2> QED
    BY <2>1, <2>2
<1>2. Inv' /\ FinalInv' /\ UNCHANGED <<main, deepestReorg>>
  BY <1>1, NewProcessInv DEF SystemInv
<1>3. pending' = <<>>
  BY <1>1 DEF NewProcess
<1>4. StoredSettled => StoredSettled'
  BY <1>1, <1>2 DEF StoredSettled, OnChain
<1>5. Settled(pending)' /\ pending' \in Seq(Blocks)
  BY <1>3 DEF Settled
<1> QED
  BY <1>1, <1>2, <1>4, <1>5 DEF SystemInv

\* The invariant holds over every life of the process.
LEMMA SystemInvariant == SystemSpec => []SystemInv
<1>1. SystemInit => SystemInv
  <2> SUFFICES ASSUME SystemInit PROVE SystemInv
    OBVIOUS
  <2>1. Inv
    BY InitInv DEF SystemInit
  <2>2. FinalInv
    BY InitFinal DEF SystemInit
  <2> QED
    BY <2>1, <2>2 DEF SystemInit, SystemInv, Settled, StoredSettled
<1>2. SystemInv /\ [SystemNext]_systemVars => SystemInv'
  <2> SUFFICES ASSUME SystemInv, [SystemNext]_systemVars PROVE SystemInv'
    OBVIOUS
  <2>1. CASE Node
    BY <2>1, NodeSystem
  <2>2. CASE PollerStep \/ ReceiveUpdate
    BY <2>2, PollerSystem
  <2>3. CASE HandleConfirmedBlock
    BY <2>3, HandleSystem
  <2>4. CASE Restart \/ StartFromCleanDb
    BY SMTT(30), <2>4, RestartSystem
  <2>5. CASE UNCHANGED systemVars
    <3>1. UNCHANGED vars /\ UNCHANGED <<pending, stored, lastProcessedHeight>>
      BY <2>5 DEF systemVars, indexer
    <3>2. Inv' /\ FinalInv'
      <4>1. [Next]_vars
        BY <3>1
      <4> QED
        BY <4>1, NextInv, NextFinal DEF SystemInv
    <3>3. UNCHANGED <<main, deepestReorg>>
      BY <3>1 DEF vars
    <3> QED
      BY <3>1, <3>2, <3>3 DEF SystemInv, Settled, StoredSettled, OnChain
  <2> QED
    BY <2>1, <2>2, <2>3, <2>4, <2>5 DEF SystemNext
<1> QED
  BY <1>1, <1>2, PTL DEF SystemSpec

\* Over every life of the process, for every block tree, depth, batch size and
\* number of crashes and reorgs: while no reorg is as deep as the confirmation
\* depth, the blocks that HandleConfirmedBlock has put in the database are on
\* the node's best chain.
THEOREM SystemStoredFinal == SystemSpec => []StoredFinal
<1>1. SystemInv => StoredFinal
  BY DEF SystemInv, StoredSettled, OnChain, StoredFinal
<1> QED
  BY <1>1, SystemInvariant, PTL

----------------------------------------------------------------------------
(* The database has no gap.                                                *)

\* The height of the next confirmed block that the indexer handles.
NextHeight == startHeight + (Len(delivered) - Len(pending))

\* The confirmed blocks at hand rise from NextHeight, and the database holds every
\* height from the activation height to the last processed one and to below
\* NextHeight.  Nothing of a process that is told to quit is modelled here.
GaplessInv ==
    /\ ~quit
    /\ Len(pending) <= Len(delivered)
    /\ Rising(pending, NextHeight)
    /\ \A h \in DOMAIN stored :
          /\ h \in Nat /\ h >= ActivationHeight
          /\ \A g \in ActivationHeight..h : g \in DOMAIN stored
    /\ lastProcessedHeight # 0 => lastProcessedHeight \in DOMAIN stored
    /\ NextHeight >= ActivationHeight
    /\ NextHeight > ActivationHeight => NextHeight - 1 \in DOMAIN stored

\* The poller and the node leave the indexer alone.
LEMMA PollerGapless ==
    ASSUME SystemInv, GapInv, GaplessInv, PollerStep \/ Node
    PROVE  GaplessInv'
<1>1. /\ UNCHANGED <<pending, stored, lastProcessedHeight>>
      /\ Poller \/ MineBlock \/ Reorg
  BY DEF PollerStep, Node, indexer
<1>2. UNCHANGED <<startHeight, delivered, quit>>
  <2>1. ~SendQuit
    BY SMTT(30) DEF SendQuit, GaplessInv
  <2> QED
    BY Zenon, <1>1, <2>1 DEF Poller, WaitUntilActivation, BootstrapBegin,
       FetchBlock, BootstrapEnd, Register, HandleNewBlock, LoopQuit,
       MineBlock, Reorg, SwitchTo, history
<1> QED
  BY <1>1, <1>2 DEF GaplessInv, NextHeight, Rising

\* The hand-over of an update.
LEMMA ReceiveGapless ==
    ASSUME SystemInv, GapInv, GaplessInv, ReceiveUpdate
    PROVE  GaplessInv'
<1>1. /\ pc = "send" /\ ~quit /\ pending = <<>> /\ pending' = update.confirmed
      /\ delivered' = delivered \o update.confirmed
      /\ UNCHANGED <<startHeight, quit, stored, lastProcessedHeight>>
  BY SMTT(30) DEF ReceiveUpdate, Receive
<1>2. /\ TypeOK /\ delivered \in Seq(Blocks) /\ update.confirmed \in Seq(Blocks)
      /\ Rising(delivered \o update.confirmed, startHeight)
  BY <1>1 DEF SystemInv, Inv, TypeOK, GapInv, DeliveredRises
<1>3. startHeight \in Nat
  BY <1>2, BootstrapHeightFacts
<1>4. Rising(update.confirmed, startHeight + Len(delivered))
  BY <1>2, <1>3, RisingConcat
<1>5. /\ Len(delivered') = Len(delivered) + Len(pending')
      /\ Len(delivered) \in Nat /\ Len(pending') \in Nat /\ Len(pending) = 0
  BY <1>1, <1>2
<1>6. NextHeight' = startHeight + Len(delivered) /\ NextHeight' = NextHeight
  BY <1>1, <1>3, <1>5 DEF NextHeight
<1>7. Len(pending') <= Len(delivered')
  BY <1>5
<1> QED
  BY <1>1, <1>4, <1>6, <1>7 DEF GaplessInv

\* The block at hand is stored at the next height.
LEMMA HandleGapless ==
    ASSUME SystemInv, GapInv, GaplessInv, HandleConfirmedBlock
    PROVE  GaplessInv'
<1> DEFINE H == HeightOf(Head(pending))
<1>1. /\ pending \in Seq(Blocks) /\ pending # <<>> /\ UNCHANGED vars
      /\ pending' = Tail(pending) /\ lastProcessedHeight' = H
      /\ stored' = [h \in DOMAIN stored \cup {H} |->
                       IF h = H THEN Head(pending) ELSE stored[h]]
  BY DEF SystemInv, HandleConfirmedBlock
<1>2. UNCHANGED <<startHeight, delivered, quit>>
  BY SMTT(30), <1>1 DEF vars
<1>3. /\ startHeight \in Nat /\ delivered \in Seq(Blocks)
      /\ ActivationHeight \in Nat
  BY BootstrapHeightFacts, ScannerBoundsAssumption DEF SystemInv, Inv, TypeOK
<1>4. /\ Len(pending) \in Nat /\ Len(pending) >= 1
      /\ Len(pending') = Len(pending) - 1 /\ Len(delivered) \in Nat
      /\ Head(pending) = pending[1] /\ 1 \in 1..Len(pending)
      /\ \A i \in 1..Len(pending') :
            pending'[i] = pending[i + 1] /\ i + 1 \in 1..Len(pending)
  BY <1>1, <1>3
<1>5. /\ NextHeight \in Nat /\ NextHeight' = NextHeight + 1
  BY SMTT(30), <1>2, <1>3, <1>4 DEF NextHeight, GaplessInv
<1>6. H = NextHeight
  BY <1>4, <1>5 DEF GaplessInv, Rising
<1>7. Rising(pending', NextHeight')
  <2> SUFFICES ASSUME NEW i \in 1..Len(pending')
               PROVE  HeightOf(pending'[i]) = NextHeight' + (i - 1)
    BY DEF Rising
  <2>1. HeightOf(pending[i + 1]) = NextHeight + ((i + 1) - 1)
    BY <1>4 DEF GaplessInv, Rising
  <2> QED
    BY <1>4, <1>5, <2>1
<1> HIDE DEF H
<1>8. DOMAIN stored' = DOMAIN stored \cup {H}
  BY <1>1
<1>9. ASSUME NEW h \in DOMAIN stored'
      PROVE  /\ h \in Nat /\ h >= ActivationHeight
             /\ \A g \in ActivationHeight..h : g \in DOMAIN stored'
  <2>1. CASE h \in DOMAIN stored
    BY <1>8, <2>1 DEF GaplessInv
  <2>2. CASE h = H
    <3>1. h = NextHeight /\ h \in Nat /\ h >= ActivationHeight
      BY <1>5, <1>6, <2>2 DEF GaplessInv
    <3>2. ASSUME NEW g \in ActivationHeight..h
          PROVE  g \in DOMAIN stored'
      <4>1. CASE g = h
        BY <1>8, <2>2, <4>1
      <4>2. CASE g # h
        <5>1. g \in ActivationHeight..(h - 1) /\ h > ActivationHeight
          BY <1>3, <3>1, <4>2
        <5>2. h - 1 \in DOMAIN stored
          BY <3>1, <5>1 DEF GaplessInv
        <5> QED
          BY <1>8, <5>1, <5>2 DEF GaplessInv
      <4> QED
        BY <4>1, <4>2
    <3> QED
      BY <3>1, <3>2
  <2> QED
    BY <1>8, <2>1, <2>2
<1>10. NextHeight' - 1 = H /\ NextHeight' >= ActivationHeight
  BY <1>3, <1>5, <1>6 DEF GaplessInv
<1>11. Len(pending') <= Len(delivered') /\ ~quit'
  BY SMTT(30), <1>2, <1>4 DEF GaplessInv
<1> QED
  BY <1>1, <1>7, <1>8, <1>9, <1>10, <1>11 DEF GaplessInv

\* A new process starts at most one above the last processed height.
LEMMA RestartGapless ==
    ASSUME SystemInv, GaplessInv, Restart \/ StartFromCleanDb
    PROVE  GaplessInv' /\ GapInv' /\ AlarmInv'
<1>1. PICK last :
          /\ last = 0 \/ \E b \in Blocks : last = HeightOf(b)
          /\ NewProcess(last) /\ lastProcessedHeight' = last
          /\ \/ stored' = stored /\ last = lastProcessedHeight
             \/ stored' = <<>> /\ last = 0
  <2>1. CASE Restart
    BY <2>1 DEF Restart, SystemInv
  <2>2. CASE StartFromCleanDb
    BY <2>2 DEF StartFromCleanDb
  <2> QED
    BY <2>1, <2>2
<1>2. /\ pc' = "waiting" /\ cache' = <<>> /\ confirmedTip' = NoBlock
      /\ quit' = FALSE /\ delivered' = <<>> /\ pending' = <<>>
  BY SMTT(30), <1>1 DEF NewProcess
<1>3. GapInv' /\ AlarmInv'
  BY <1>2 DEF GapInv, CacheRises, DeliveredRises, Rising, Fetching,
              AlarmInv, TipSettled, NoFalseAlarm
<1>4. ActivationHeight \in Nat /\ last \in Nat
  BY <1>1, HeightFacts, ScannerBoundsAssumption
<1>5. last # 0 => last \in DOMAIN stored' /\ last >= ActivationHeight
  BY <1>1 DEF GaplessInv
<1>6. /\ startHeight' \in Nat /\ startHeight' >= ActivationHeight
      /\ startHeight' > ActivationHeight => last # 0 /\ startHeight' <= last + 1
  <2>1. \/ startHeight' = GetStartHeight(last)
        \/ startHeight' \in {h \in StartHeightFlags : ValidStartHeight(h, last)}
    BY <1>1 DEF NewProcess
  <2>2. CASE startHeight' \in {h \in StartHeightFlags : ValidStartHeight(h, last)}
    <3>1. startHeight' \in Nat /\ ValidStartHeight(startHeight', last)
      BY <2>2, SystemAssumption
    <3> QED
      BY <1>4, <3>1 DEF ValidStartHeight
  <2>3. CASE startHeight' = GetStartHeight(last)
    BY <1>4, <1>5, <2>3 DEF GetStartHeight
  <2> QED
    BY <2>1, <2>2, <2>3
<1>7. \A h \in DOMAIN stored' :
          /\ h \in Nat /\ h >= ActivationHeight
          /\ \A g \in ActivationHeight..h : g \in DOMAIN stored'
  BY <1>1 DEF GaplessInv
<1>8. NextHeight' = startHeight'
  <2>1. Len(delivered') - Len(pending') = 0
    BY <1>2
  <2>2. \A n \in Nat : n + 0 = n
    OBVIOUS
  <2> QED
    BY Zenon, <1>6, <2>1, <2>2 DEF NextHeight
<1>9. ASSUME startHeight' > ActivationHeight
      PROVE  startHeight' - 1 \in DOMAIN stored'
  <2>1. last # 0 /\ startHeight' <= last + 1
    BY <1>6, <1>9
  <2>2. startHeight' - 1 \in ActivationHeight..last
    <3>1. \A a, l, n \in Nat : n > a /\ n <= l + 1 => n - 1 \in a..l
      OBVIOUS
    <3> QED
      BY Zenon, <1>4, <1>6, <1>9, <2>1, <3>1
  <2> QED
    BY <1>5, <1>7, <2>1, <2>2
<1>10. Rising(<<>>, NextHeight') /\ Len(<<>>) <= Len(<<>>)
  BY RisingEmpty
<1> QED
  BY SMTT(30), <1>1, <1>2, <1>3, <1>5, <1>6, <1>7, <1>8, <1>9, <1>10
  DEF GaplessInv

\* Every step that drops no batch preserves the invariants.
LEMMA SystemGap ==
    ASSUME SystemInv, GapInv, AlarmInv, GaplessInv, [SystemNext]_systemVars,
           ~DropsBatch
    PROVE  GapInv' /\ AlarmInv' /\ GaplessInv'
<1>1. Inv /\ FinalInv
  BY DEF SystemInv
<1>2. ASSUME [Next]_vars PROVE GapInv' /\ AlarmInv'
  BY <1>1, <1>2, NextGap, NextAlarm
<1>3. CASE PollerStep \/ Node
  <2>1. Next
    BY <1>3 DEF PollerStep, Node, Next
  <2> QED
    BY <1>2, <1>3, <2>1, PollerGapless
<1>4. CASE ReceiveUpdate
  <2>1. Next
    BY <1>4 DEF ReceiveUpdate, Next
  <2> QED
    BY <1>2, <1>4, <2>1, ReceiveGapless
<1>5. CASE HandleConfirmedBlock
  <2>1. UNCHANGED vars
    BY <1>5 DEF HandleConfirmedBlock
  <2> QED
    BY <1>2, <1>5, <2>1, HandleGapless
<1>6. CASE Restart \/ StartFromCleanDb
  BY <1>6, RestartGapless
<1>7. CASE UNCHANGED systemVars
  <2>1. UNCHANGED vars /\ UNCHANGED <<pending, stored, lastProcessedHeight>>
    BY <1>7 DEF systemVars, indexer
  <2>2. UNCHANGED <<startHeight, delivered, quit>>
    BY SMTT(30), <2>1 DEF vars
  <2>3. GaplessInv'
    BY <2>1, <2>2 DEF GaplessInv, NextHeight, Rising
  <2> QED
    BY <1>2, <2>1, <2>3
<1> QED
  BY <1>3, <1>4, <1>5, <1>6, <1>7 DEF SystemNext

\* The heights stay without a gap over every life of the process.
LEMMA SystemGapInv ==
    SystemSpec /\ NoBatchDropped => [](GapInv /\ AlarmInv /\ GaplessInv)
<1>1. SystemInit => GapInv /\ AlarmInv /\ GaplessInv
  <2> SUFFICES ASSUME SystemInit PROVE GapInv /\ AlarmInv /\ GaplessInv
    OBVIOUS
  <2>1. GapInv
    BY InitGap DEF SystemInit
  <2>2. AlarmInv
    BY DEF SystemInit, Init, AlarmInv, TipSettled, NoFalseAlarm
  <2>3. /\ startHeight = ActivationHeight /\ startHeight \in Nat
        /\ delivered = <<>> /\ pending = <<>> /\ stored = <<>> /\ quit = FALSE
        /\ lastProcessedHeight = 0
    BY ScannerBoundsAssumption DEF SystemInit, Init, GetStartHeight
  <2>4. NextHeight = startHeight
    <3>1. Len(delivered) = 0 /\ Len(pending) = 0
      BY <2>3
    <3> QED
      BY <2>3, <3>1 DEF NextHeight
  <2>5. GaplessInv
    BY <2>3, <2>4 DEF GaplessInv, Rising
  <2> QED
    BY <2>1, <2>2, <2>5
<1>2. SystemInv /\ (GapInv /\ AlarmInv /\ GaplessInv)
      /\ [SystemNext]_systemVars /\ [~DropsBatch]_vars
      => (GapInv /\ AlarmInv /\ GaplessInv)'
  <2>1. UNCHANGED vars => ~DropsBatch
    BY DEF vars, DropsBatch
  <2> QED
    BY SMTT(30), <2>1, SystemGap
<1> QED
  BY <1>1, <1>2, SystemInvariant, PTL DEF SystemSpec, NoBatchDropped

\* Over every life of the process, with any number of crashes, restarts at any
\* valid start height and reorgs of any depth: as long as no batch is dropped,
\* the database never holds a block above a height that is missing.
THEOREM SystemStoredGapless == SystemSpec /\ NoBatchDropped => []StoredGapless
<1>1. GaplessInv => StoredGapless
  <2> SUFFICES ASSUME GaplessInv, NEW h \in DOMAIN stored, h > ActivationHeight
               PROVE  h - 1 \in DOMAIN stored
    BY DEF StoredGapless
  <2>1. h \in Nat /\ h - 1 \in ActivationHeight..h
    BY ScannerBoundsAssumption DEF GaplessInv
  <2> QED
    BY <2>1 DEF GaplessInv
<1> QED
  BY <1>1, SystemGapInv, PTL

\* Over every life of the process, as long as no batch is dropped: what the
\* indexer receives begins at its start height, and the poller panics only after
\* a reorg as deep as the confirmation depth.
THEOREM SystemNoGap ==
    SystemSpec /\ NoBatchDropped => [](NoGapAtStart /\ NoFalseAlarm)
<1>1. SystemInv /\ GapInv /\ AlarmInv => NoGapAtStart /\ NoFalseAlarm
  BY GapStart DEF SystemInv, AlarmInv
<1> QED
  BY <1>1, SystemGapInv, SystemInvariant, PTL
=============================================================================
