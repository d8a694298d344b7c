------------------------- MODULE BtcScanner_proofs -------------------------
(***************************************************************************)
(* Theorems about BtcScanner, for every tree of blocks, confirmation       *)
(* depth, batch size and any number of reorgs of any depth and of failed   *)
(* RPCs.                                                                   *)
(*                                                                         *)
(* The second half is about heights.  What is delivered, collected by      *)
(* Bootstrap and cached has consecutive heights from startHeight on, until *)
(* a Bootstrap that fails drops the blocks it has collected: they are out  *)
(* of the cache and in no update, and blockEventLoop goes on above them.   *)
(***************************************************************************)
EXTENDS BtcScanner, SequenceTheorems, TLAPS

\* A Bootstrap is running, or waits for one of its batches to be received.
Fetching == pc = "fetch" \/ (pc = "send" /\ resume = "fetch")

\* The heights Bootstrap asks for exist.
BootOK == /\ Len(main) >= 1
          /\ boot.tip <= Len(main)
          /\ Fetching => boot.next >= 1

\* The cache is one branch, and continues the confirmed blocks that Bootstrap
\* has collected and not committed; these exist only below a full cache.
BranchOK ==
    /\ Linked(cache)
    /\ Fetching => /\ Linked(boot.confirmed \o cache)
                   /\ boot.confirmed # <<>> => Len(cache) = ConfirmationDepth - 1

LastOf(s) == IF s = <<>> THEN NoBlock ELSE s[Len(s)]

\* Until Stop, confirmedTipBlock is the last confirmed block that the indexer
\* has received or is about to receive, and those blocks are linked.
DeliveryOK ==
    /\ Linked(delivered)
    /\ ~quit /\ pc # "send" => confirmedTip = LastOf(delivered)
    /\ ~quit /\ pc = "send" =>
          /\ Linked(delivered \o update.confirmed)
          /\ confirmedTip = LastOf(delivered \o update.confirmed)

Inv == TypeOK /\ BootOK /\ BranchOK /\ ConfirmedDeepEnough /\ DeliveryOK

----------------------------------------------------------------------------
(* Sequences of blocks.                                                    *)

\* Two linked parts that fit together are linked.
LEMMA LinkedConcat ==
    ASSUME NEW s \in Seq(Blocks), NEW t \in Seq(Blocks),
           Linked(s), Linked(t),
           (s # <<>> /\ t # <<>>) => Prev(t[1]) = s[Len(s)]
    PROVE  Linked(s \o t)
<1> SUFFICES ASSUME NEW i \in 1..(Len(s \o t) - 1)
             PROVE  Prev((s \o t)[i + 1]) = (s \o t)[i]
  BY DEF Linked
<1>1. CASE i < Len(s)
  BY <1>1 DEF Linked
<1>2. CASE i = Len(s)
  BY <1>2
<1>3. CASE i > Len(s)
  <2>1. i - Len(s) \in 1..(Len(t) - 1)
    BY <1>3
  <2>2. Prev(t[(i - Len(s)) + 1]) = t[i - Len(s)]
    BY <2>1 DEF Linked
  <2>3. (s \o t)[i + 1] = t[(i - Len(s)) + 1] /\ (s \o t)[i] = t[i - Len(s)]
    BY <1>3, <2>1
  <2> QED
    BY <2>2, <2>3
<1> QED
  BY <1>1, <1>2, <1>3

\* Both parts of a linked sequence are linked.
LEMMA LinkedParts ==
    ASSUME NEW s \in Seq(Blocks), NEW t \in Seq(Blocks), Linked(s \o t)
    PROVE  Linked(s) /\ Linked(t)
<1>1. Linked(s)
  <2> SUFFICES ASSUME NEW i \in 1..(Len(s) - 1) PROVE Prev(s[i + 1]) = s[i]
    BY DEF Linked
  <2>1. Prev((s \o t)[i + 1]) = (s \o t)[i]
    BY DEF Linked
  <2> QED
    BY <2>1
<1>2. Linked(t)
  <2> SUFFICES ASSUME NEW i \in 1..(Len(t) - 1) PROVE Prev(t[i + 1]) = t[i]
    BY DEF Linked
  <2>1. Len(s) + i \in 1..(Len(s \o t) - 1)
    OBVIOUS
  <2>2. Prev((s \o t)[(Len(s) + i) + 1]) = (s \o t)[Len(s) + i]
    BY Zenon, <2>1 DEF Linked
  <2>3. (s \o t)[(Len(s) + i) + 1] = t[i + 1] /\ (s \o t)[Len(s) + i] = t[i]
    OBVIOUS
  <2> QED
    BY <2>2, <2>3
<1> QED
  BY <1>1, <1>2

\* A child on top of a branch continues it.
LEMMA LinkedAppend ==
    ASSUME NEW s \in Seq(Blocks), NEW b \in Blocks, Linked(s),
           s # <<>> => Prev(b) = s[Len(s)]
    PROVE  Linked(Append(s, b))
BY DEF Linked

\* Concatenation of sequences of blocks is associative.
LEMMA ConcatBlocks ==
    ASSUME NEW s \in Seq(Blocks), NEW t \in Seq(Blocks), NEW u \in Seq(Blocks)
    PROVE  (s \o t) \o u = s \o (t \o u)
<1> DEFINE l == (s \o t) \o u
           r == s \o (t \o u)
<1>1. /\ l \in Seq(Blocks) /\ r \in Seq(Blocks)
      /\ Len(l) = Len(s) + Len(t) + Len(u) /\ Len(r) = Len(l)
  OBVIOUS
<1>2. ASSUME NEW i \in 1..Len(l) PROVE l[i] = r[i]
  <2>1. CASE i <= Len(s)
    BY <1>1, <2>1
  <2>2. CASE Len(s) < i /\ i <= Len(s) + Len(t)
    BY <1>1, <2>2
  <2>3. CASE Len(s) + Len(t) < i
    BY SMTT(30), <1>1, <2>3
  <2> QED
    BY <1>1, <2>1, <2>2, <2>3
<1> HIDE DEF l, r
<1>3. l = r
  BY <1>1, <1>2, SeqEqual
<1> QED
  BY <1>3 DEF l, r

\* TrimConfirmedBlocks splits the cache in two.
LEMMA TrimSplits ==
    ASSUME NEW s \in Seq(Blocks), NEW k \in Nat
    PROVE  /\ TrimmedBlocks(s, k) \in Seq(Blocks)
           /\ KeptBlocks(s, k) \in Seq(Blocks)
           /\ TrimmedBlocks(s, k) \o KeptBlocks(s, k) = s
           /\ Len(KeptBlocks(s, k)) <= k
           /\ Len(KeptBlocks(s, k)) <= Len(s)
           /\ TrimmedBlocks(s, k) # <<>> <=> Len(s) > k
           /\ Len(s) > k => Len(KeptBlocks(s, k)) = k
<1>1. CASE Len(s) <= k
  BY <1>1 DEF TrimmedBlocks, KeptBlocks
<1>2. CASE Len(s) > k
  <2> DEFINE T == SubSeq(s, 1, Len(s) - k)
             K == SubSeq(s, Len(s) - k + 1, Len(s))
  <2>1. TrimmedBlocks(s, k) = T /\ KeptBlocks(s, k) = K
    BY <1>2 DEF TrimmedBlocks, KeptBlocks
  <2>2. T \in Seq(Blocks) /\ K \in Seq(Blocks)
    BY <1>2
  <2>3. Len(T) = Len(s) - k /\ Len(K) = k
    BY <1>2
  <2>4. T \o K = s
    <3>1. /\ 1 \in 1..(Len(s) + 1)
          /\ Len(s) - k \in (1 - 1)..Len(s)
          /\ Len(s) \in (Len(s) - k)..Len(s)
      BY <1>2
    <3>2. T \o K = SubSeq(s, 1, Len(s))
      BY <3>1, ConcatAdjacentSubSeq, Zenon
    <3> QED
      BY Zenon, <3>2, SubSeqFull
  <2> HIDE DEF T, K
  <2>5. T # <<>>
    BY <1>2, <2>2, <2>3
  <2> QED
    BY <1>2, <2>1, <2>2, <2>3, <2>4, <2>5
<1> QED
  BY <1>1, <1>2

----------------------------------------------------------------------------
(* The cache and commitChainUpdate.                                        *)

\* Facts about the confirmation depth.
LEMMA DepthFacts ==
    /\ ConfirmationDepth \in Nat /\ Unconfirmed \in Nat
    /\ Unconfirmed = ConfirmationDepth - 1 /\ Unconfirmed >= 1
    /\ MaxEntries \in Nat /\ ConfirmationDepth <= MaxEntries
BY DepthAssumption, MaxEntriesAssumption DEF Unconfirmed

\* The cache of the poller never drops a block: it is trimmed before it is full.
LEMMA AddAppends ==
    ASSUME NEW s \in Seq(Blocks), NEW b, Len(s) < ConfirmationDepth
    PROVE  Add(s, b) = Append(s, b)
BY DepthFacts DEF Add

\* The blocks of a chain of the node.
LEMMA ChainFacts ==
    ASSUME NEW c \in Chains
    PROVE  /\ c \in Seq(Blocks)
           /\ \A h \in 1..Len(c) : c[h] \in Blocks
BY ChainsAssumption

\* commitChainUpdate, given a branch of confirmed blocks below unconfirmed ones:
\* it panics, or what it is about to send continues what has been delivered.
LEMMA CommitFacts ==
    ASSUME TypeOK, DeliveryOK, pc # "send",
           NEW confirmed \in Seq(Blocks), NEW blocks \in Seq(Blocks),
           NEW next \in {"fetch", "idle"},
           Linked(confirmed \o blocks), Len(blocks) <= Unconfirmed,
           confirmed # <<>> => Len(blocks) = Unconfirmed,
           CommitChainUpdate(confirmed, blocks, next),
           UNCHANGED <<delivered, quit>>
    PROVE  /\ confirmedTip' \in Blocks \cup {NoBlock}
           /\ update' \in [confirmed : Seq(Blocks), unconfirmed : Seq(Blocks)]
           /\ resume' \in {"fetch", "idle"}
           /\ pc' = "panicked" \/ (pc' = "send" /\ resume' = next)
           /\ ConfirmedDeepEnough'
           /\ DeliveryOK'
<1>1. CASE MajorReorg(confirmed) /\ pc' = "panicked"
           /\ UNCHANGED <<confirmedTip, update, resume>>
  BY <1>1 DEF TypeOK, ConfirmedDeepEnough, DeliveryOK
<1>2. CASE /\ ~MajorReorg(confirmed)
           /\ pc' = "send"
           /\ resume' = next
           /\ confirmedTip' = IF confirmed = <<>> THEN confirmedTip
                                                  ELSE Tip(confirmed)
           /\ update' = [confirmed |-> confirmed,
                         unconfirmed |-> GetLastBlocks(blocks, Unconfirmed)]
  <2>1. GetLastBlocks(blocks, Unconfirmed) = blocks
    BY DEF GetLastBlocks
  <2>2. /\ update' = [confirmed |-> confirmed, unconfirmed |-> blocks]
        /\ update'.confirmed = confirmed /\ update'.unconfirmed = blocks
    BY <1>2, <2>1
  <2>3. update' \in [confirmed : Seq(Blocks), unconfirmed : Seq(Blocks)]
    BY <2>2
  <2>4. confirmed # <<>> => Tip(confirmed) \in Blocks
                            /\ Tip(confirmed) = confirmed[Len(confirmed)]
    BY DEF Tip
  <2>5. confirmedTip' \in Blocks \cup {NoBlock}
    BY <1>2, <2>4 DEF TypeOK
  <2>6. ConfirmedDeepEnough'
    BY <2>2, DepthFacts DEF ConfirmedDeepEnough
  <2>7. DeliveryOK'
    <3>1. delivered \in Seq(Blocks) /\ Linked(delivered) /\ Linked(confirmed)
      BY LinkedParts DEF DeliveryOK, TypeOK
    <3> SUFFICES ASSUME ~quit
                 PROVE  /\ Linked(delivered \o confirmed)
                        /\ confirmedTip' = LastOf(delivered \o confirmed)
      BY <1>2, <2>2, <3>1 DEF DeliveryOK
    <3>2. confirmedTip = LastOf(delivered)
      BY DEF DeliveryOK
    <3>3. CASE confirmed = <<>>
      BY <1>2, <3>1, <3>2, <3>3, ConcatEmptySeq
    <3>4. CASE confirmed # <<>>
      <4>1. delivered # <<>> => Prev(confirmed[1]) = delivered[Len(delivered)]
        <5>1. ASSUME delivered # <<>>
              PROVE  Prev(confirmed[1]) = delivered[Len(delivered)]
          <6>1. confirmedTip = delivered[Len(delivered)]
            BY <3>2, <5>1 DEF LastOf
          <6>2. delivered[Len(delivered)] \in Blocks
            BY <3>1, <5>1
          <6>3. confirmedTip # NoBlock
            BY <6>1, <6>2, BlocksAssumption
          <6>4. Head(confirmed) = confirmed[1]
            BY <3>4
          <6> QED
            BY <1>2, <3>4, <6>1, <6>3, <6>4 DEF MajorReorg
        <5> QED
          BY <5>1
      <4>2. Linked(delivered \o confirmed)
        BY <3>1, <4>1, LinkedConcat
      <4>3. LastOf(delivered \o confirmed) = confirmed[Len(confirmed)]
        BY <3>1, <3>4 DEF LastOf
      <4> QED
        BY <1>2, <2>4, <3>4, <4>2, <4>3
    <3> QED
      BY <3>3, <3>4
  <2> QED
    BY <1>2, <2>3, <2>5, <2>6, <2>7
<1> QED
  BY <1>1, <1>2 DEF CommitChainUpdate

\* Adding a block to a branch: what TrimConfirmedBlocks takes out goes on top of
\* the confirmed blocks, what it leaves continues them.
LEMMA AddFacts ==
    ASSUME NEW confirmed \in Seq(Blocks), NEW blocks \in Seq(Blocks),
           NEW b \in Blocks,
           Linked(confirmed \o blocks), Len(blocks) < ConfirmationDepth,
           confirmed # <<>> => Len(blocks) = ConfirmationDepth - 1,
           blocks # <<>> => Prev(b) = Tip(blocks)
    PROVE  LET added == Add(blocks, b)
               kept  == KeptBlocks(added, Unconfirmed)
               out   == confirmed \o TrimmedBlocks(added, Unconfirmed)
           IN  /\ kept \in Seq(Blocks) /\ out \in Seq(Blocks)
               /\ Len(kept) <= Unconfirmed
               /\ out # <<>> => Len(kept) = Unconfirmed
               /\ Linked(out \o kept) /\ Linked(kept)
<1> DEFINE added == Append(blocks, b)
           kept  == KeptBlocks(added, Unconfirmed)
           trim  == TrimmedBlocks(added, Unconfirmed)
<1>1. Add(blocks, b) = added
  BY AddAppends
<1>2. added \in Seq(Blocks) /\ Len(added) = Len(blocks) + 1
  OBVIOUS
<1>3. Linked(Append(confirmed \o blocks, b))
  <2>1. (confirmed \o blocks # <<>>) =>
            Prev(b) = (confirmed \o blocks)[Len(confirmed \o blocks)]
    <3> SUFFICES ASSUME confirmed \o blocks # <<>>
                 PROVE  Prev(b) = (confirmed \o blocks)[Len(confirmed \o blocks)]
      OBVIOUS
    <3>1. blocks # <<>>
      BY DepthFacts, ConcatEmptySeq
    <3> QED
      BY <3>1 DEF Tip
  <2>2. confirmed \o blocks \in Seq(Blocks)
    OBVIOUS
  <2> QED
    BY <2>1, <2>2, LinkedAppend, Zenon
<1>4. Append(confirmed \o blocks, b) = confirmed \o added
  OBVIOUS
<1> HIDE DEF added
<1>5. /\ trim \in Seq(Blocks) /\ kept \in Seq(Blocks)
      /\ trim \o kept = added
      /\ Len(kept) <= Unconfirmed
      /\ trim # <<>> <=> Len(added) > Unconfirmed
      /\ Len(added) > Unconfirmed => Len(kept) = Unconfirmed
  BY Zenon, <1>2, DepthFacts, TrimSplits
<1> HIDE DEF trim, kept
<1>6. (confirmed \o trim) \o kept = confirmed \o added
  <2>1. trim \in Seq(Blocks) /\ kept \in Seq(Blocks)
    BY <1>5
  <2>2. (confirmed \o trim) \o kept = confirmed \o (trim \o kept)
    BY Zenon, <2>1, ConcatBlocks
  <2> QED
    BY <1>5, <2>2
<1>7. Linked((confirmed \o trim) \o kept)
  BY <1>3, <1>4, <1>6
<1>8. confirmed \o trim \in Seq(Blocks)
  BY <1>5
<1>9. Linked(kept)
  BY Zenon, <1>5, <1>7, <1>8, LinkedParts
<1>10. confirmed \o trim # <<>> => Len(kept) = Unconfirmed
  <2>1. confirmed \o trim # <<>> => confirmed # <<>> \/ trim # <<>>
    BY ConcatEmptySeq
  <2> QED
    BY <1>2, <1>5, <2>1, DepthFacts
<1> QED
  BY <1>1, <1>5, <1>7, <1>8, <1>9, <1>10 DEF kept, trim

----------------------------------------------------------------------------
(* The steps of the node.                                                  *)

\* The node's chain and the queue of epochs stay well formed.
LEMMA SwitchFacts ==
    ASSUME TypeOK, NEW c \in Chains, NEW f \in 0..Len(main), SwitchTo(c, f)
    PROVE  main' \in Chains /\ epochs' \in Seq(Blocks)
<1>1. c \in Seq(Blocks) /\ f <= Len(c) /\ f \in Nat
  BY ChainFacts DEF SwitchTo, IsFork
<1>2. SubSeq(c, f + 1, Len(c)) \in Seq(Blocks)
  BY <1>1
<1> QED
  BY <1>2 DEF SwitchTo, EpochsAbove, TypeOK

\* A change of the node's best chain leaves the poller's state alone.
LEMMA NodeInv ==
    ASSUME Inv, MineBlock \/ Reorg
    PROVE  Inv'
<1>1. PICK c \in Chains, f \in 0..Len(main) :
          Len(c) > Len(main) /\ SwitchTo(c, f)
  <2>1. main \in Seq(Blocks)
    BY ChainFacts DEF Inv, TypeOK
  <2>2. CASE MineBlock
    BY <2>1, <2>2 DEF MineBlock
  <2>3. CASE Reorg
    BY <2>3 DEF Reorg
  <2> QED
    BY <2>2, <2>3
<1>2. main' \in Chains /\ epochs' \in Seq(Blocks)
  BY <1>1, SwitchFacts DEF Inv
<1>3. UNCHANGED <<pc, registered, startHeight, cache, confirmedTip, boot,
                  update, resume, quit, delivered, latest, rpcFailures>>
  BY <1>1 DEF SwitchTo, history
<1>4. reorgs' \in 0..MaxReorgs /\ deepestReorg' \in Nat
  <2>1. CASE MineBlock
    BY <2>1 DEF MineBlock, Inv, TypeOK
  <2>2. CASE Reorg
    <3>1. main \in Seq(Blocks)
      BY ChainFacts DEF Inv, TypeOK
    <3> QED
      BY <2>2, <3>1, ScannerBoundsAssumption DEF Reorg, Inv, TypeOK
  <2> QED
    BY <2>1, <2>2
<1>5. TypeOK'
  BY <1>2, <1>3, <1>4 DEF Inv, TypeOK
<1>6. BootOK'
  <2>1. main' = c /\ main \in Seq(Blocks) /\ c \in Seq(Blocks)
    BY <1>1, ChainFacts DEF SwitchTo, Inv, TypeOK
  <2> QED
    BY SMTT(30), <1>1, <1>3, <2>1 DEF Inv, TypeOK, BootOK, Fetching
<1>7. BranchOK' /\ ConfirmedDeepEnough' /\ DeliveryOK'
  BY <1>3 DEF Inv, BranchOK, ConfirmedDeepEnough, DeliveryOK, Fetching
<1> QED
  BY <1>5, <1>6, <1>7 DEF Inv

----------------------------------------------------------------------------
(* The steps of the poller and of its channel.                             *)

\* A step that leaves blocks and channel alone, outside Bootstrap's loop.
LEMMA QuietStep ==
    ASSUME Inv, pc # "send", pc' \notin {"fetch", "send"},
           UNCHANGED <<main, cache, confirmedTip, boot, update, quit, delivered>>
    PROVE  BootOK' /\ BranchOK' /\ ConfirmedDeepEnough' /\ DeliveryOK'
BY DEF Inv, BootOK, BranchOK, ConfirmedDeepEnough, DeliveryOK, Fetching

\* A failed RPC stays within the bound.
LEMMA RpcFailsType ==
    ASSUME TypeOK, RpcFails \/ UNCHANGED rpcFailures
    PROVE  rpcFailures' \in 0..MaxRpcFailures
BY SMTT(30), ScannerBoundsAssumption DEF TypeOK, RpcFails

\* waitUntilActivation, the closed channel and the quit case.
LEMMA ControlInv ==
    ASSUME Inv, WaitUntilActivation \/ EpochsClosed \/ LoopQuit
    PROVE  Inv'
<1>1. /\ pc # "send" /\ pc' \in {"bootstrap", "failed", "loopexit", "stopped"}
      /\ RpcFails \/ UNCHANGED rpcFailures
      /\ UNCHANGED <<main, reorgs, deepestReorg, epochs, registered, startHeight,
                     cache, confirmedTip, boot, update, resume, quit, delivered,
                     latest>>
  BY DEF WaitUntilActivation, EpochsClosed, LoopQuit, node, history
<1>2. TypeOK'
  BY <1>1, RpcFailsType DEF Inv, TypeOK
<1> QED
  BY <1>1, <1>2, QuietStep DEF Inv

\* Stop closes the quit channel.
LEMMA StopInv ==
    ASSUME Inv, Stop
    PROVE  Inv'
<1>1. /\ quit' = TRUE
      /\ UNCHANGED <<main, reorgs, deepestReorg, epochs, pc, registered,
                     startHeight, cache, confirmedTip, boot, update, resume,
                     delivered, latest, rpcFailures>>
  BY DEF Stop, node, history
<1>2. TypeOK'
  BY <1>1 DEF Inv, TypeOK
<1> QED
  BY <1>1, <1>2
  DEF Inv, BootOK, BranchOK, ConfirmedDeepEnough, DeliveryOK, Fetching

\* The send, and the quit case beside it.
LEMMA SendInv ==
    ASSUME Inv, Receive \/ SendQuit
    PROVE  Inv'
<1>1. /\ pc = "send" /\ pc' = resume
      /\ update' = NoUpdate
      /\ UNCHANGED <<main, reorgs, deepestReorg, epochs, registered, startHeight,
                     cache, confirmedTip, boot, resume, quit, rpcFailures>>
  BY DEF Receive, SendQuit, node
<1>2. \/ ~quit /\ delivered' = delivered \o update.confirmed
         /\ latest' = update.unconfirmed
      \/ quit /\ UNCHANGED <<delivered, latest>>
  BY DEF Receive, SendQuit, history
<1>3. TypeOK'
  <2>1. delivered' \in Seq(Blocks) /\ latest' \in Seq(Blocks)
    <3>1. /\ delivered \in Seq(Blocks) /\ latest \in Seq(Blocks)
          /\ update.confirmed \in Seq(Blocks)
          /\ update.unconfirmed \in Seq(Blocks)
      BY DEF Inv, TypeOK
    <3>2. delivered \o update.confirmed \in Seq(Blocks)
      BY <3>1
    <3> QED
      BY Zenon, <1>2, <3>1, <3>2
  <2>2. update' \in [confirmed : Seq(Blocks), unconfirmed : Seq(Blocks)]
    BY <1>1 DEF NoUpdate
  <2> QED
    BY <1>1, <2>1, <2>2 DEF Inv, TypeOK
<1>4. resume # "send"
  BY DEF Inv, TypeOK
<1>5. BootOK' /\ BranchOK' /\ ConfirmedDeepEnough'
  BY <1>1, <1>4 DEF Inv, BootOK, BranchOK, ConfirmedDeepEnough, Fetching
<1>6. DeliveryOK'
  BY Zenon, <1>1, <1>2, <1>4 DEF Inv, DeliveryOK
<1> QED
  BY <1>3, <1>5, <1>6 DEF Inv

\* Registering queues blocks of the best chain.
LEMMA RegisterInv ==
    ASSUME Inv, Register
    PROVE  Inv'
<1>1. /\ pc = "idle" /\ registered' = TRUE
      /\ UNCHANGED <<main, reorgs, deepestReorg, pc, startHeight, cache,
                     confirmedTip, boot, update, resume, quit, delivered,
                     latest, rpcFailures>>
  BY DEF Register, node, history
<1>2. epochs' \in Seq(Blocks)
  <2>1. main \in Seq(Blocks) /\ Len(main) >= 1
    BY ChainFacts DEF Inv, TypeOK, BootOK
  <2>2. PICK f \in 0..Len(main) : epochs' = EpochsAbove(main, f)
    BY <2>1 DEF Register
  <2>3. SubSeq(main, f + 1, Len(main)) \in Seq(Blocks)
    BY <2>1
  <2> QED
    BY <2>2, <2>3 DEF EpochsAbove
<1>3. TypeOK'
  BY <1>1, <1>2 DEF Inv, TypeOK
<1> QED
  BY <1>1, <1>3, QuietStep DEF Inv

\* Bootstrap starts above the confirmed blocks with an empty cache.
LEMMA BootstrapBeginInv ==
    ASSUME Inv, BootstrapBegin
    PROVE  Inv'
<1>1. /\ pc = "bootstrap" /\ cache' = <<>>
      /\ RpcFails \/ UNCHANGED rpcFailures
      /\ UNCHANGED <<main, reorgs, deepestReorg, epochs, registered, startHeight,
                     confirmedTip, update, resume, quit, delivered, latest>>
  BY DEF BootstrapBegin, node, history
<1>2. main \in Seq(Blocks)
  BY ChainFacts DEF Inv, TypeOK
<1>3. BootstrapHeight \in Nat /\ BootstrapHeight >= 1
  BY BlocksAssumption, ScannerBoundsAssumption DEF Inv, TypeOK, BootstrapHeight
<1>4. \/ pc' \in {"idle", "failed"} /\ UNCHANGED boot
      \/ /\ pc' = "fetch"
         /\ boot' = [next |-> BootstrapHeight, tip |-> Len(main),
                     confirmed |-> <<>>]
  BY DEF BootstrapBegin, AfterBootstrapError
<1>5. /\ boot' \in [next : Nat, tip : Nat, confirmed : Seq(Blocks)]
      /\ boot'.tip <= Len(main)
      /\ pc' = "fetch" => boot'.next >= 1 /\ boot'.confirmed = <<>>
  <2>1. Len(main) \in Nat /\ <<>> \in Seq(Blocks)
    BY <1>2
  <2>2. CASE pc' \in {"idle", "failed"} /\ UNCHANGED boot
    BY <2>2 DEF Inv, TypeOK, BootOK
  <2>3. CASE /\ pc' = "fetch"
             /\ boot' = [next |-> BootstrapHeight, tip |-> Len(main),
                         confirmed |-> <<>>]
    BY <1>3, <2>1, <2>3
  <2> QED
    BY <1>4, <2>2, <2>3
<1>6. <<>> \in Seq(Blocks) /\ Len(<<>>) = 0 /\ Linked(<<>>)
  BY DEF Linked
<1>7. TypeOK'
  BY SMTT(30), <1>1, <1>4, <1>5, <1>6, RpcFailsType, DepthFacts DEF Inv, TypeOK
<1>8. BootOK'
  BY <1>1, <1>4, <1>5 DEF Inv, BootOK, Fetching
<1>9. BranchOK'
  <2>1. Linked(<<>> \o <<>>)
    BY <1>6 DEF Linked
  <2> QED
    BY <1>1, <1>4, <1>5, <1>6, <2>1 DEF BranchOK, Fetching
<1>10. ConfirmedDeepEnough' /\ DeliveryOK'
  BY <1>1, <1>4 DEF Inv, ConfirmedDeepEnough, DeliveryOK
<1> QED
  BY <1>7, <1>8, <1>9, <1>10 DEF Inv

\* The end of Bootstrap commits what is left.
LEMMA BootstrapEndInv ==
    ASSUME Inv, BootstrapEnd
    PROVE  Inv'
<1>1. /\ pc = "fetch" /\ boot' = NoBoot
      /\ UNCHANGED <<main, reorgs, deepestReorg, epochs, registered, startHeight,
                     cache, quit, delivered, latest, rpcFailures>>
  BY DEF BootstrapEnd, node, history
<1>2. /\ boot' \in [next : Nat, tip : Nat, confirmed : Seq(Blocks)]
      /\ boot'.tip = 0 /\ boot'.confirmed = <<>>
  BY <1>1 DEF NoBoot
<1>3. main \in Seq(Blocks)
  BY ChainFacts DEF Inv, TypeOK
<1>4. /\ confirmedTip' \in Blocks \cup {NoBlock}
      /\ update' \in [confirmed : Seq(Blocks), unconfirmed : Seq(Blocks)]
      /\ resume' \in {"fetch", "idle"}
      /\ pc' \in {"idle", "panicked"} \/ (pc' = "send" /\ resume' = "idle")
      /\ ConfirmedDeepEnough' /\ DeliveryOK'
  <2>1. CASE CommitChainUpdate(boot.confirmed, cache, "idle")
    <3>1. /\ boot.confirmed \in Seq(Blocks) /\ cache \in Seq(Blocks)
          /\ Linked(boot.confirmed \o cache)
          /\ Len(cache) <= Unconfirmed
          /\ boot.confirmed # <<>> => Len(cache) = Unconfirmed
      BY <1>1, DepthFacts DEF Inv, TypeOK, BranchOK, Fetching
    <3>2. TypeOK /\ DeliveryOK /\ pc # "send" /\ UNCHANGED <<delivered, quit>>
      BY <1>1 DEF Inv
    <3> QED
      BY <2>1, <3>1, <3>2, CommitFacts
  <2>2. CASE pc' = "idle" /\ UNCHANGED <<confirmedTip, update, resume>>
    BY <1>1, <2>2 DEF Inv, TypeOK, ConfirmedDeepEnough, DeliveryOK
  <2> QED
    BY <2>1, <2>2 DEF BootstrapEnd
<1>5. TypeOK'
  BY <1>1, <1>2, <1>4 DEF Inv, TypeOK
<1>6. BootOK' /\ BranchOK'
  BY <1>1, <1>2, <1>3, <1>4 DEF Inv, BootOK, BranchOK, Fetching
<1> QED
  BY <1>4, <1>5, <1>6 DEF Inv

\* One iteration of Bootstrap's loop.
LEMMA FetchBlockInv ==
    ASSUME Inv, FetchBlock
    PROVE  Inv'
<1> DEFINE ib    == main[boot.next]
           added == Add(cache, ib)
           kept  == KeptBlocks(added, Unconfirmed)
           out   == boot.confirmed \o TrimmedBlocks(added, Unconfirmed)
<1>1. /\ pc = "fetch" /\ boot.next <= boot.tip
      /\ UNCHANGED <<main, reorgs, deepestReorg, epochs, registered, startHeight,
                     quit, delivered, latest>>
  BY DEF FetchBlock, node, history
<1>2. /\ main \in Seq(Blocks) /\ ib \in Blocks
      /\ boot.next \in Nat /\ boot.next >= 1
      /\ boot.tip \in Nat /\ boot.tip <= Len(main)
  <2>1. /\ main \in Seq(Blocks) /\ boot.next \in Nat /\ boot.tip \in Nat
        /\ boot.next >= 1 /\ boot.tip <= Len(main)
    BY <1>1, ChainFacts DEF Inv, TypeOK, BootOK, Fetching
  <2> QED
    BY <1>1, <2>1
<1>3. /\ boot.confirmed \in Seq(Blocks) /\ cache \in Seq(Blocks)
      /\ Linked(boot.confirmed \o cache) /\ Len(cache) < ConfirmationDepth
      /\ boot.confirmed # <<>> => Len(cache) = ConfirmationDepth - 1
  BY <1>1 DEF Inv, TypeOK, BranchOK, Fetching
<1>4. CASE /\ RpcFails \/ UNCHANGED rpcFailures
           /\ pc' = AfterBootstrapError
           /\ UNCHANGED <<cache, boot, confirmedTip, update, resume>>
  <2>1. pc' \in {"idle", "failed"}
    BY <1>4 DEF AfterBootstrapError
  <2>2. TypeOK'
    BY <1>1, <1>4, <2>1, RpcFailsType DEF Inv, TypeOK
  <2> QED
    BY <1>1, <1>4, <2>1, <2>2, QuietStep DEF Inv
<1>5. ASSUME ~Disconnected(ib), cache' = kept, UNCHANGED rpcFailures,
             NEW rest \in Seq(Blocks),
             boot' = [boot EXCEPT !.next = @ + 1, !.confirmed = rest],
             \/ /\ rest = out
                /\ UNCHANGED <<pc, confirmedTip, update, resume>>
             \/ /\ rest = <<>>
                /\ CommitChainUpdate(out, kept, "fetch")
      PROVE  Inv'
  <2>1. cache # <<>> => Prev(ib) = Tip(cache)
    BY SMTT(30), <1>5 DEF Disconnected
  <2>2. /\ kept \in Seq(Blocks) /\ out \in Seq(Blocks)
        /\ Len(kept) <= Unconfirmed
        /\ out # <<>> => Len(kept) = Unconfirmed
        /\ Linked(out \o kept) /\ Linked(kept)
    <3> HIDE DEF ib
    <3> QED
      BY <1>2, <1>3, <2>1, AddFacts
  <2> HIDE DEF kept, out
  <2>3. /\ boot' \in [next : Nat, tip : Nat, confirmed : Seq(Blocks)]
        /\ boot'.next >= 1 /\ boot'.tip = boot.tip /\ boot'.confirmed = rest
    <3>1. boot \in [next : Nat, tip : Nat, confirmed : Seq(Blocks)]
      BY DEF Inv, TypeOK
    <3>2. boot' = [boot EXCEPT !.next = boot.next + 1, !.confirmed = rest]
      BY <1>5
    <3>3. boot' = [next |-> boot.next + 1, tip |-> boot.tip, confirmed |-> rest]
      BY Zenon, <3>1, <3>2
    <3> QED
      BY <1>2, <3>1, <3>3
  <2>4. Len(kept) < ConfirmationDepth
    BY <2>2, DepthFacts
  <2>5. CASE rest = out /\ UNCHANGED <<pc, confirmedTip, update, resume>>
    <3>1. TypeOK'
      BY <1>1, <1>5, <2>2, <2>3, <2>4, <2>5 DEF Inv, TypeOK
    <3>2. BootOK' /\ BranchOK'
      BY <1>1, <1>2, <1>5, <2>2, <2>3, <2>5, DepthFacts
      DEF Inv, BootOK, BranchOK, Fetching
    <3>3. ConfirmedDeepEnough' /\ DeliveryOK'
      BY <1>1, <2>5 DEF Inv, ConfirmedDeepEnough, DeliveryOK
    <3> QED
      BY <3>1, <3>2, <3>3 DEF Inv
  <2>6. CASE rest = <<>> /\ CommitChainUpdate(out, kept, "fetch")
    <3>1. TypeOK /\ DeliveryOK /\ pc # "send" /\ UNCHANGED <<delivered, quit>>
      BY <1>1 DEF Inv
    <3>2. /\ confirmedTip' \in Blocks \cup {NoBlock}
          /\ update' \in [confirmed : Seq(Blocks), unconfirmed : Seq(Blocks)]
          /\ resume' \in {"fetch", "idle"}
          /\ pc' \in {"panicked", "send"}
          /\ ConfirmedDeepEnough' /\ DeliveryOK'
      BY <2>2, <2>6, <3>1, CommitFacts
    <3>3. TypeOK'
      BY <1>1, <1>5, <2>2, <2>3, <2>4, <3>2 DEF Inv, TypeOK
    <3>4. Linked(<<>> \o kept)
      BY <2>2, ConcatEmptySeq
    <3>5. BootOK' /\ BranchOK'
      BY <1>1, <1>2, <1>5, <2>2, <2>3, <2>6, <3>2, <3>4
      DEF Inv, BootOK, BranchOK, Fetching
    <3> QED
      BY <3>2, <3>3, <3>5 DEF Inv
  <2> QED
    BY <1>5, <2>5, <2>6
<1>6. out \in Seq(Blocks) \/ Disconnected(ib)
  <2> HIDE DEF ib
  <2> QED
    BY <1>2, <1>3, AddFacts DEF Disconnected
<1>7. CASE /\ ~Disconnected(ib) /\ cache' = kept /\ UNCHANGED rpcFailures
           /\ boot' = [boot EXCEPT !.next = @ + 1, !.confirmed = out]
           /\ UNCHANGED <<pc, confirmedTip, update, resume>>
  <2> HIDE DEF ib, kept, out
  <2> QED
    BY Zenon, <1>5, <1>6, <1>7
<1>8. CASE /\ ~Disconnected(ib) /\ cache' = kept /\ UNCHANGED rpcFailures
           /\ boot' = [boot EXCEPT !.next = @ + 1, !.confirmed = <<>>]
           /\ CommitChainUpdate(out, kept, "fetch")
  <2>1. <<>> \in Seq(Blocks)
    OBVIOUS
  <2> HIDE DEF ib, kept, out
  <2> QED
    BY Zenon, <1>5, <1>8, <2>1
<1> QED
  BY Zenon, <1>4, <1>7, <1>8 DEF FetchBlock

\* blockEventLoop takes an epoch.
LEMMA HandleNewBlockInv ==
    ASSUME Inv, HandleNewBlock
    PROVE  Inv'
<1> DEFINE e     == Head(epochs)
           added == Add(cache, e)
           kept  == KeptBlocks(added, Unconfirmed)
           out   == TrimmedBlocks(added, Unconfirmed)
<1>1. /\ pc = "idle" /\ epochs # <<>> /\ epochs' = Tail(epochs)
      /\ UNCHANGED <<main, reorgs, deepestReorg, registered, startHeight, boot,
                     quit, delivered, latest>>
  BY DEF HandleNewBlock, node, history
<1>2. e \in Blocks /\ epochs' \in Seq(Blocks)
  BY SMTT(30), <1>1 DEF Inv, TypeOK
<1>3. CASE /\ RpcFails \/ UNCHANGED rpcFailures
           /\ pc' \in {"idle", "bootstrap"}
           /\ UNCHANGED <<cache, confirmedTip, update, resume>>
  <2>1. TypeOK'
    BY <1>1, <1>2, <1>3, RpcFailsType DEF Inv, TypeOK
  <2> QED
    BY <1>1, <1>3, <2>1, QuietStep DEF Inv
<1>4. CASE /\ NextBlock(e) /\ cache' = kept /\ UNCHANGED rpcFailures
           /\ CommitChainUpdate(out, kept, "idle")
  <2>1. /\ cache \in Seq(Blocks) /\ Len(cache) < ConfirmationDepth
        /\ Linked(cache) /\ Prev(e) = Tip(cache)
    BY <1>4 DEF Inv, TypeOK, BranchOK, NextBlock
  <2>2. <<>> \in Seq(Blocks) /\ Linked(<<>> \o cache)
    BY <2>1, ConcatEmptySeq
  <2>3. /\ kept \in Seq(Blocks) /\ <<>> \o out \in Seq(Blocks)
        /\ Len(kept) <= Unconfirmed
        /\ <<>> \o out # <<>> => Len(kept) = Unconfirmed
        /\ Linked((<<>> \o out) \o kept) /\ Linked(kept)
    <3> HIDE DEF e
    <3> QED
      BY Zenon, <1>2, <2>1, <2>2, AddFacts
  <2>4. out \in Seq(Blocks) /\ <<>> \o out = out
    <3>1. added \in Seq(Blocks)
      BY SMTT(30), <1>2, <2>1, AddAppends
    <3>2. out \in Seq(Blocks)
      <4> HIDE DEF added
      <4> QED
        BY <3>1, TrimSplits, DepthFacts
    <3> HIDE DEF out
    <3> QED
      BY <3>2, ConcatEmptySeq
  <2> HIDE DEF kept, out
  <2>5. TypeOK /\ DeliveryOK /\ pc # "send" /\ UNCHANGED <<delivered, quit>>
    BY <1>1 DEF Inv
  <2>6. /\ confirmedTip' \in Blocks \cup {NoBlock}
        /\ update' \in [confirmed : Seq(Blocks), unconfirmed : Seq(Blocks)]
        /\ resume' \in {"fetch", "idle"}
        /\ pc' = "panicked" \/ (pc' = "send" /\ resume' = "idle")
        /\ ConfirmedDeepEnough' /\ DeliveryOK'
    BY <1>4, <2>3, <2>4, <2>5, CommitFacts
  <2>7. TypeOK'
    <3>1. cache' \in Seq(Blocks) /\ Len(cache') < ConfirmationDepth
      BY SMTT(30), <1>4, <2>3, DepthFacts
    <3> HIDE DEF e
    <3> QED
      BY <1>1, <1>2, <1>4, <2>6, <3>1 DEF Inv, TypeOK
  <2>8. BootOK' /\ BranchOK'
    BY <1>1, <1>4, <2>3, <2>6 DEF Inv, BootOK, BranchOK, Fetching
  <2> QED
    BY <2>6, <2>7, <2>8 DEF Inv
<1> QED
  BY <1>1, <1>3, <1>4 DEF HandleNewBlock

----------------------------------------------------------------------------
(* The theorems.                                                           *)

\* A poller that has not started satisfies the invariant.
LEMMA InitInv == Init => Inv
<1> SUFFICES ASSUME Init PROVE Inv
  OBVIOUS
<1>1. TypeOK
  <2>1. <<>> \in Seq(Blocks) /\ Len(<<>>) < ConfirmationDepth
    BY DepthFacts
  <2>2. /\ NoBoot \in [next : Nat, tip : Nat, confirmed : Seq(Blocks)]
        /\ NoUpdate \in [confirmed : Seq(Blocks), unconfirmed : Seq(Blocks)]
    BY <2>1 DEF NoBoot, NoUpdate
  <2>3. 0 \in 0..MaxRpcFailures /\ 0 \in 0..MaxReorgs /\ 0 \in Nat
    BY ScannerBoundsAssumption
  <2> QED
    BY Zenon, <2>1, <2>2, <2>3 DEF Init, TypeOK
<1>2. BootOK
  BY DEF Init, BootOK, Fetching, NoBoot
<1>3. BranchOK /\ ConfirmedDeepEnough /\ DeliveryOK
  BY
  DEF Init, BranchOK, ConfirmedDeepEnough, DeliveryOK, Fetching, Linked, LastOf
<1> QED
  BY <1>1, <1>2, <1>3 DEF Inv

\* Every step preserves the invariant.
LEMMA NextInv == Inv /\ [Next]_vars => Inv'
<1> SUFFICES ASSUME Inv, [Next]_vars PROVE Inv'
  OBVIOUS
<1>1. CASE MineBlock \/ Reorg
  BY <1>1, NodeInv
<1>2. CASE WaitUntilActivation \/ EpochsClosed \/ LoopQuit
  BY <1>2, ControlInv
<1>3. CASE BootstrapBegin
  BY <1>3, BootstrapBeginInv
<1>4. CASE FetchBlock
  BY <1>4, FetchBlockInv
<1>5. CASE BootstrapEnd
  BY <1>5, BootstrapEndInv
<1>6. CASE Receive \/ SendQuit
  BY <1>6, SendInv
<1>7. CASE Register
  BY <1>7, RegisterInv
<1>8. CASE HandleNewBlock
  BY <1>8, HandleNewBlockInv
<1>9. CASE Stop
  BY <1>9, StopInv
<1>10. CASE UNCHANGED vars
  <2>1. UNCHANGED <<main, epochs, pc, registered, startHeight, cache,
                    confirmedTip, boot, update, resume, quit, delivered, latest,
                    rpcFailures, reorgs, deepestReorg>>
    BY <1>10 DEF vars
  <2>2. TypeOK'
    BY <2>1 DEF Inv, TypeOK
  <2>3. BootOK' /\ BranchOK'
    BY SMTT(30), <2>1 DEF Inv, BootOK, BranchOK, Fetching
  <2>4. ConfirmedDeepEnough' /\ DeliveryOK'
    BY <2>1 DEF Inv, ConfirmedDeepEnough, DeliveryOK
  <2> QED
    BY <2>2, <2>3, <2>4 DEF Inv
<1> QED
  BY <1>1, <1>2, <1>3, <1>4, <1>5, <1>6, <1>7, <1>8, <1>9, <1>10
  DEF Next, Poller

\* The poller keeps its invariant: cache, collected batch and delivered blocks
\* are branches that fit together.
THEOREM ScannerInv == Spec => []Inv
BY InitInv, NextInv, PTL DEF Spec

\* Every variable of the poller keeps its type, and the cache never holds
\* ConfirmationDepth blocks between two handlers.
THEOREM ScannerTypeOK == Spec => []TypeOK
<1>1. Inv => TypeOK
  BY DEF Inv
<1> QED
  BY <1>1, ScannerInv, PTL

\* For every block tree, depth, batch size, number and depth of reorgs and RPC
\* failures: a block is sent as confirmed only below ConfirmationDepth - 1
\* unconfirmed blocks of the same branch (commitChainUpdate).
THEOREM ScannerConfirmedDeepEnough == Spec => []ConfirmedDeepEnough
<1>1. Inv => ConfirmedDeepEnough
  BY DEF Inv
<1> QED
  BY <1>1, ScannerInv, PTL

\* The confirmed blocks the indexer receives are one chain, whatever the node
\* does: the check of commitChainUpdate against confirmedTipBlock is enough.
THEOREM ScannerDeliveredConnected == Spec => []DeliveredConnected
<1>1. Inv => DeliveredConnected
  BY DEF Inv, DeliveryOK, DeliveredConnected
<1> QED
  BY <1>1, ScannerInv, PTL

----------------------------------------------------------------------------
(* Heights: what is delivered, collected and cached has no gap.            *)

\* The blocks of s have the heights h, h + 1, ...
Rising(s, h) == \A i \in 1..Len(s) : HeightOf(s[i]) = h + (i - 1)

\* What is collected and cached has the heights from the one that follows the
\* last confirmed block, and Bootstrap fetches the next one.
CacheRises ==
    /\ Fetching =>
          /\ Rising(boot.confirmed \o cache, BootstrapHeight)
          /\ boot.next = BootstrapHeight + Len(boot.confirmed \o cache)
    /\ pc \in {"idle", "send"} /\ ~Fetching => Rising(cache, BootstrapHeight)

\* What is delivered, or about to be, has the heights from startHeight on.
DeliveredRises ==
    /\ Rising(delivered, startHeight)
    /\ ~quit /\ pc = "send" => Rising(delivered \o update.confirmed, startHeight)

GapInv == CacheRises /\ DeliveredRises

\* Two parts rise from h exactly when the second goes on where the first ends.
LEMMA RisingConcat ==
    ASSUME NEW s \in Seq(Blocks), NEW t \in Seq(Blocks), NEW h \in Nat
    PROVE  Rising(s \o t, h) <=> Rising(s, h) /\ Rising(t, h + Len(s))
<1>1. ASSUME Rising(s \o t, h) PROVE Rising(s, h)
  <2> SUFFICES ASSUME NEW i \in 1..Len(s) PROVE HeightOf(s[i]) = h + (i - 1)
    BY DEF Rising
  <2>1. i \in 1..Len(s \o t) /\ (s \o t)[i] = s[i]
    OBVIOUS
  <2> QED
    BY <1>1, <2>1 DEF Rising
<1>2. ASSUME Rising(s \o t, h) PROVE Rising(t, h + Len(s))
  <2> SUFFICES ASSUME NEW i \in 1..Len(t)
               PROVE  HeightOf(t[i]) = (h + Len(s)) + (i - 1)
    BY DEF Rising
  <2>1. Len(s) + i \in 1..Len(s \o t) /\ (s \o t)[Len(s) + i] = t[i]
    OBVIOUS
  <2>2. HeightOf((s \o t)[Len(s) + i]) = h + ((Len(s) + i) - 1)
    BY SMTT(30), <1>2, <2>1 DEF Rising
  <2> QED
    BY <2>1, <2>2
<1>3. ASSUME Rising(s, h), Rising(t, h + Len(s)) PROVE Rising(s \o t, h)
  <2> SUFFICES ASSUME NEW i \in 1..Len(s \o t)
               PROVE  HeightOf((s \o t)[i]) = h + (i - 1)
    BY DEF Rising
  <2>1. CASE i <= Len(s)
    <3>1. i \in 1..Len(s) /\ (s \o t)[i] = s[i]
      BY <2>1
    <3> QED
      BY <1>3, <3>1 DEF Rising
  <2>2. CASE i > Len(s)
    <3>1. i - Len(s) \in 1..Len(t) /\ (s \o t)[i] = t[i - Len(s)]
      BY <2>2
    <3>2. HeightOf(t[i - Len(s)]) = (h + Len(s)) + ((i - Len(s)) - 1)
      BY <1>3, <3>1 DEF Rising
    <3> QED
      BY <3>1, <3>2
  <2> QED
    BY <2>1, <2>2
<1> QED
  BY <1>1, <1>2, <1>3

\* A block of the next height on top.
LEMMA RisingAppend ==
    ASSUME NEW s \in Seq(Blocks), NEW b \in Blocks, NEW h \in Nat,
           Rising(s, h), HeightOf(b) = h + Len(s)
    PROVE  Rising(Append(s, b), h)
<1> SUFFICES ASSUME NEW i \in 1..Len(Append(s, b))
             PROVE  HeightOf(Append(s, b)[i]) = h + (i - 1)
  BY DEF Rising
<1>1. CASE i = Len(s) + 1
  BY <1>1
<1>2. CASE i # Len(s) + 1
  <2>1. i \in 1..Len(s) /\ Append(s, b)[i] = s[i]
    BY <1>2
  <2> QED
    BY <2>1 DEF Rising
<1> QED
  BY <1>1, <1>2

\* No blocks rise from any height.
LEMMA RisingEmpty == \A h : Rising(<<>>, h)
BY DEF Rising

\* The next block to be confirmed has a positive height.
LEMMA BootstrapHeightFacts ==
    ASSUME TypeOK
    PROVE  BootstrapHeight \in Nat /\ BootstrapHeight >= 1
           /\ startHeight \in Nat /\ startHeight >= 1
BY SMTT(30), BlocksAssumption, ScannerBoundsAssumption
DEF TypeOK, BootstrapHeight

\* Add and TrimConfirmedBlocks move blocks from the cache to the confirmed ones
\* and lose none.
LEMMA AddRises ==
    ASSUME NEW confirmed \in Seq(Blocks), NEW blocks \in Seq(Blocks),
           NEW b \in Blocks, NEW h \in Nat,
           Len(blocks) < ConfirmationDepth,
           Rising(confirmed \o blocks, h),
           HeightOf(b) = h + Len(confirmed \o blocks)
    PROVE  LET added == Add(blocks, b)
               kept  == KeptBlocks(added, Unconfirmed)
               out   == confirmed \o TrimmedBlocks(added, Unconfirmed)
           IN  /\ kept \in Seq(Blocks) /\ out \in Seq(Blocks)
               /\ Rising(out \o kept, h)
               /\ Len(out \o kept) = Len(confirmed \o blocks) + 1
<1> DEFINE added == Append(blocks, b)
           kept  == KeptBlocks(added, Unconfirmed)
           trim  == TrimmedBlocks(added, Unconfirmed)
<1>1. Add(blocks, b) = added
  BY AddAppends
<1>2. added \in Seq(Blocks) /\ confirmed \o blocks \in Seq(Blocks)
  OBVIOUS
<1>3. Rising(Append(confirmed \o blocks, b), h)
  BY Zenon, <1>2, RisingAppend
<1>4. /\ Append(confirmed \o blocks, b) = confirmed \o added
      /\ Len(confirmed \o added) = Len(confirmed \o blocks) + 1
  OBVIOUS
<1> HIDE DEF added
<1>5. trim \in Seq(Blocks) /\ kept \in Seq(Blocks) /\ trim \o kept = added
  BY Zenon, <1>2, DepthFacts, TrimSplits
<1> HIDE DEF trim, kept
<1>6. (confirmed \o trim) \o kept = confirmed \o added
  <2>1. (confirmed \o trim) \o kept = confirmed \o (trim \o kept)
    BY Zenon, <1>5, ConcatBlocks
  <2> QED
    BY <1>5, <2>1
<1>7. confirmed \o trim \in Seq(Blocks)
  BY <1>5
<1> QED
  BY <1>1, <1>3, <1>4, <1>5, <1>6, <1>7 DEF kept, trim

\* What commitChainUpdate sends goes on where the delivered blocks end.
LEMMA CommitRises ==
    ASSUME TypeOK, DeliveryOK, DeliveredRises, pc # "send",
           NEW confirmed \in Seq(Blocks), NEW blocks \in Seq(Blocks), NEW next,
           Rising(confirmed \o blocks, BootstrapHeight),
           CommitChainUpdate(confirmed, blocks, next),
           UNCHANGED <<delivered, quit, startHeight>>
    PROVE  /\ DeliveredRises'
           /\ pc' = "send" =>
                 /\ Rising(blocks, BootstrapHeight')
                 /\ BootstrapHeight' = BootstrapHeight + Len(confirmed)
<1>1. BootstrapHeight \in Nat /\ startHeight \in Nat
  BY BootstrapHeightFacts
<1>2. Rising(confirmed, BootstrapHeight)
      /\ Rising(blocks, BootstrapHeight + Len(confirmed))
  BY <1>1, RisingConcat
<1>3. delivered \in Seq(Blocks) /\ Rising(delivered, startHeight)
  BY DEF TypeOK, DeliveredRises
<1>4. CASE pc' # "send"
  BY <1>3, <1>4 DEF DeliveredRises
<1>5. CASE pc' = "send"
  <2>1. /\ confirmedTip' = IF confirmed = <<>> THEN confirmedTip
                                               ELSE Tip(confirmed)
        /\ update'.confirmed = confirmed
    BY <1>5 DEF CommitChainUpdate
  <2>2. BootstrapHeight' = BootstrapHeight + Len(confirmed)
    <3>1. CASE confirmed = <<>>
      BY <1>1, <2>1, <3>1 DEF BootstrapHeight
    <3>2. CASE confirmed # <<>>
      <4>1. /\ Len(confirmed) \in 1..Len(confirmed)
            /\ confirmed[Len(confirmed)] \in Blocks
        BY <3>2
      <4>2. HeightOf(confirmed[Len(confirmed)]) =
                BootstrapHeight + (Len(confirmed) - 1)
        BY <1>2, <4>1 DEF Rising
      <4>3. confirmedTip' = confirmed[Len(confirmed)] /\ confirmedTip' # NoBlock
        BY <2>1, <3>2, <4>1, BlocksAssumption DEF Tip
      <4>4. BootstrapHeight' = HeightOf(confirmedTip') + 1
        BY <4>3 DEF BootstrapHeight
      <4> QED
        BY <1>1, <4>1, <4>2, <4>3, <4>4
    <3> QED
      BY SMTT(30), <3>1, <3>2
  <2>3. ASSUME ~quit
        PROVE  Rising(delivered \o confirmed, startHeight)
    <3>1. confirmedTip = LastOf(delivered)
      BY <2>3 DEF DeliveryOK
    <3>2. BootstrapHeight = startHeight + Len(delivered)
      <4>1. CASE delivered = <<>>
        BY <1>1, <3>1, <4>1 DEF LastOf, BootstrapHeight
      <4>2. CASE delivered # <<>>
        <5>1. /\ Len(delivered) \in 1..Len(delivered)
              /\ delivered[Len(delivered)] \in Blocks
          BY <1>3, <4>2
        <5>2. HeightOf(delivered[Len(delivered)]) =
                  startHeight + (Len(delivered) - 1)
          BY Zenon, <1>3, <5>1 DEF Rising
        <5>3. confirmedTip = delivered[Len(delivered)] /\ confirmedTip # NoBlock
          BY <3>1, <4>2, <5>1, BlocksAssumption DEF LastOf
        <5>4. BootstrapHeight = HeightOf(confirmedTip) + 1
          BY SMTT(30), <5>3 DEF BootstrapHeight
        <5> QED
          BY <1>1, <5>1, <5>2, <5>3, <5>4
      <4> QED
        BY <4>1, <4>2
    <3> QED
      BY <1>1, <1>2, <1>3, <3>2, RisingConcat
  <2> QED
    BY <1>2, <1>3, <2>1, <2>2, <2>3 DEF DeliveredRises
<1> QED
  BY <1>4, <1>5

----------------------------------------------------------------------------
(* Heights: the steps.                                                     *)

\* A step that leaves the blocks alone and starts no Bootstrap loop.
LEMMA QuietGap ==
    ASSUME GapInv, pc' \notin {"fetch", "send"} \/ (pc' = pc /\ UNCHANGED resume),
           pc' = "idle" => pc = "idle",
           quit => quit',
           UNCHANGED <<cache, confirmedTip, boot, update, delivered, startHeight>>
    PROVE  GapInv'
BY DEF GapInv, CacheRises, DeliveredRises, Rising, Fetching, BootstrapHeight

\* Bootstrap begins with an empty cache at BootstrapHeight.
LEMMA BootstrapBeginGap ==
    ASSUME Inv, GapInv, BootstrapBegin
    PROVE  GapInv'
<1>1. /\ cache' = <<>>
      /\ UNCHANGED <<confirmedTip, startHeight, delivered, resume>>
      /\ \/ pc' \in {"idle", "failed"}
         \/ /\ pc' = "fetch"
            /\ boot'.next = BootstrapHeight /\ boot'.confirmed = <<>>
  BY DEF BootstrapBegin, AfterBootstrapError, node, history
<1>2. BootstrapHeight' = BootstrapHeight /\ BootstrapHeight \in Nat
  BY <1>1, BootstrapHeightFacts DEF BootstrapHeight, Inv
<1>3. DeliveredRises'
  BY <1>1 DEF GapInv, DeliveredRises, Rising
<1>4. CacheRises'
  <2>1. Rising(<<>>, BootstrapHeight)
    BY RisingEmpty
  <2>2. <<>> \o <<>> = <<>> /\ Len(<<>>) = 0
    OBVIOUS
  <2> QED
    BY <1>1, <1>2, <2>1, <2>2 DEF CacheRises, Fetching
<1> QED
  BY <1>3, <1>4 DEF GapInv

\* The end of Bootstrap commits what has been collected.
LEMMA BootstrapEndGap ==
    ASSUME Inv, GapInv, BootstrapEnd, ~DropsBatch
    PROVE  GapInv'
<1>1. /\ pc = "fetch" /\ UNCHANGED <<cache, startHeight, quit, delivered>>
      /\ \/ CommitChainUpdate(boot.confirmed, cache, "idle")
         \/ /\ boot.confirmed = <<>> /\ pc' = "idle"
            /\ UNCHANGED <<confirmedTip, update, resume>>
  BY SMTT(30) DEF BootstrapEnd, node, history
<1>2. /\ TypeOK /\ DeliveryOK /\ DeliveredRises
      /\ boot.confirmed \in Seq(Blocks) /\ cache \in Seq(Blocks)
      /\ Rising(boot.confirmed \o cache, BootstrapHeight)
  BY <1>1 DEF Inv, GapInv, TypeOK, CacheRises, Fetching
<1>3. CASE CommitChainUpdate(boot.confirmed, cache, "idle")
  <2>1. /\ DeliveredRises'
        /\ pc' = "send" => Rising(cache, BootstrapHeight')
    BY <1>1, <1>2, <1>3, CommitRises
  <2>2. pc' \in {"panicked", "send"} /\ (pc' = "send" => resume' = "idle")
    BY SMTT(30), <1>3 DEF CommitChainUpdate
  <2> QED
    BY <1>1, <2>1, <2>2 DEF GapInv, CacheRises, Fetching
<1>4. CASE /\ boot.confirmed = <<>> /\ pc' = "idle"
           /\ UNCHANGED <<confirmedTip, update, resume>>
  <2>1. Rising(cache, BootstrapHeight)
    BY <1>2, <1>4, ConcatEmptySeq
  <2>2. BootstrapHeight' = BootstrapHeight
    BY <1>1, <1>4 DEF BootstrapHeight
  <2> QED
    BY <1>1, <1>2, <1>4, <2>1, <2>2
    DEF GapInv, CacheRises, DeliveredRises, Fetching
<1> QED
  BY <1>1, <1>3, <1>4

\* One iteration of Bootstrap's loop that does not drop a batch.
LEMMA FetchBlockGap ==
    ASSUME Inv, GapInv, FetchBlock, ~DropsBatch
    PROVE  GapInv'
<1> DEFINE ib   == main[boot.next]
           kept == KeptBlocks(Add(cache, ib), Unconfirmed)
           out  == boot.confirmed \o TrimmedBlocks(Add(cache, ib), Unconfirmed)
<1>1. /\ pc = "fetch" /\ boot.next <= boot.tip
      /\ UNCHANGED <<startHeight, quit, delivered>>
  BY SMTT(30) DEF FetchBlock, node, history
<1>2. /\ TypeOK /\ DeliveryOK /\ DeliveredRises
      /\ main \in Chains /\ main \in Seq(Blocks)
      /\ boot \in [next : Nat, tip : Nat, confirmed : Seq(Blocks)]
      /\ boot.next >= 1 /\ boot.tip <= Len(main)
      /\ cache \in Seq(Blocks) /\ Len(cache) < ConfirmationDepth
      /\ Rising(boot.confirmed \o cache, BootstrapHeight)
      /\ boot.next = BootstrapHeight + Len(boot.confirmed \o cache)
  BY <1>1, ChainFacts
  DEF Inv, GapInv, TypeOK, BootOK, CacheRises, Fetching
<1>3. BootstrapHeight \in Nat
  BY <1>2, BootstrapHeightFacts
<1>4. CASE /\ pc' = AfterBootstrapError
           /\ UNCHANGED <<cache, boot, confirmedTip, update, resume>>
  <2>1. pc' = "failed" \/ (pc' = "idle" /\ boot.confirmed = <<>>)
    BY <1>1, <1>4 DEF AfterBootstrapError, DropsBatch
  <2>2. pc' = "idle" => Rising(cache, BootstrapHeight)
    BY Zenon, <1>2, <2>1, ConcatEmptySeq
  <2>3. BootstrapHeight' = BootstrapHeight
    BY <1>1, <1>4 DEF BootstrapHeight
  <2> QED
    BY <1>1, <1>2, <1>4, <2>1, <2>2, <2>3
    DEF GapInv, CacheRises, DeliveredRises, Fetching
<1>5. /\ kept \in Seq(Blocks) /\ out \in Seq(Blocks)
      /\ Rising(out \o kept, BootstrapHeight)
      /\ Len(out \o kept) = Len(boot.confirmed \o cache) + 1
  <2>1. boot.next \in 1..Len(main)
    BY <1>1, <1>2
  <2>2. ib \in Blocks /\ HeightOf(ib) = boot.next
    BY <1>2, <2>1, ChainsAssumption
  <2>3. boot.confirmed \in Seq(Blocks)
    BY <1>2
  <2> HIDE DEF ib
  <2> QED
    BY <1>2, <1>3, <2>2, <2>3, AddRises
<1> HIDE DEF ib, kept, out
<1>6. /\ Len(out \o kept) = Len(out) + Len(kept)
      /\ Len(out) \in Nat /\ Len(kept) \in Nat
  BY <1>5
<1>7. ASSUME cache' = kept, NEW rest,
             boot' = [boot EXCEPT !.next = @ + 1, !.confirmed = rest]
      PROVE  boot'.next = boot.next + 1 /\ boot'.confirmed = rest
  <2>1. boot' = [boot EXCEPT !.next = boot.next + 1, !.confirmed = rest]
    BY <1>7
  <2>2. boot' = [next |-> boot.next + 1, tip |-> boot.tip, confirmed |-> rest]
    BY Zenon, <1>2, <2>1
  <2> QED
    BY <2>2
<1>8. CASE /\ cache' = kept
           /\ boot' = [boot EXCEPT !.next = @ + 1, !.confirmed = out]
           /\ UNCHANGED <<pc, confirmedTip, update, resume>>
  <2>1. boot'.next = boot.next + 1 /\ boot'.confirmed = out
    BY Zenon, <1>7, <1>8
  <2>2. BootstrapHeight' = BootstrapHeight
    BY <1>1, <1>8 DEF BootstrapHeight
  <2>3. boot'.next = BootstrapHeight' + Len(boot'.confirmed \o cache')
    BY <1>2, <1>3, <1>5, <1>8, <2>1, <2>2
  <2>4. CacheRises'
    BY <1>1, <1>5, <1>8, <2>1, <2>2, <2>3 DEF CacheRises, Fetching
  <2>5. DeliveredRises'
    BY <1>1, <1>2, <1>8 DEF DeliveredRises
  <2> QED
    BY <2>4, <2>5 DEF GapInv
<1>9. CASE /\ cache' = kept
           /\ boot' = [boot EXCEPT !.next = @ + 1, !.confirmed = <<>>]
           /\ CommitChainUpdate(out, kept, "fetch")
  <2>1. boot'.next = boot.next + 1 /\ boot'.confirmed = <<>>
    BY Zenon, <1>7, <1>9
  <2>2. /\ DeliveredRises'
        /\ pc' = "send" => /\ Rising(kept, BootstrapHeight')
                           /\ BootstrapHeight' = BootstrapHeight + Len(out)
    BY <1>1, <1>2, <1>5, <1>9, CommitRises
  <2>3. pc' \in {"panicked", "send"} /\ (pc' = "send" => resume' = "fetch")
    BY <1>9 DEF CommitChainUpdate
  <2>4. <<>> \o kept = kept
    BY <1>5, ConcatEmptySeq
  <2>5. ASSUME pc' = "send"
        PROVE  boot'.next = BootstrapHeight' + Len(boot'.confirmed \o cache')
    BY SMTT(30), <1>2, <1>3, <1>5, <1>6, <1>9, <2>1, <2>2, <2>4, <2>5
  <2>6. CacheRises'
    BY <1>9, <2>1, <2>2, <2>3, <2>4, <2>5 DEF CacheRises, Fetching
  <2> QED
    BY <2>2, <2>6 DEF GapInv
<1> QED
  BY Zenon, <1>4, <1>8, <1>9 DEF FetchBlock, ib, kept, out

\* blockEventLoop takes an epoch.
LEMMA HandleNewBlockGap ==
    ASSUME Inv, GapInv, HandleNewBlock
    PROVE  GapInv'
<1> DEFINE e    == Head(epochs)
           kept == KeptBlocks(Add(cache, e), Unconfirmed)
           trim == TrimmedBlocks(Add(cache, e), Unconfirmed)
<1>1. /\ pc = "idle" /\ epochs # <<>>
      /\ UNCHANGED <<boot, startHeight, quit, delivered>>
  BY DEF HandleNewBlock, node, history
<1>2. CASE /\ pc' \in {"idle", "bootstrap"}
           /\ UNCHANGED <<cache, confirmedTip, update, resume>>
  BY <1>1, <1>2, QuietGap
<1>3. CASE /\ NextBlock(e) /\ cache' = kept
           /\ CommitChainUpdate(trim, kept, "idle")
  <2>1. /\ TypeOK /\ DeliveryOK /\ DeliveredRises /\ e \in Blocks
        /\ cache \in Seq(Blocks) /\ Len(cache) < ConfirmationDepth
        /\ Rising(cache, BootstrapHeight)
    BY <1>1 DEF Inv, TypeOK, GapInv, CacheRises, Fetching
  <2>2. BootstrapHeight \in Nat
    BY <2>1, BootstrapHeightFacts
  <2>3. HeightOf(e) = BootstrapHeight + Len(cache)
    <3>1. cache # <<>> /\ HeightOf(e) = HeightOf(cache[Len(cache)]) + 1
      BY <1>3 DEF NextBlock, Tip
    <3>2. Len(cache) \in 1..Len(cache)
      BY <2>1, <3>1
    <3>3. HeightOf(cache[Len(cache)]) = BootstrapHeight + (Len(cache) - 1)
      BY <2>1, <3>2 DEF Rising
    <3> QED
      BY <2>2, <3>1, <3>2, <3>3
  <2>4. <<>> \in Seq(Blocks) /\ <<>> \o cache = cache
    BY <2>1, ConcatEmptySeq
  <2>5. kept \in Seq(Blocks) /\ Rising((<<>> \o trim) \o kept, BootstrapHeight)
    <3> HIDE DEF e
    <3> QED
      BY Zenon, <2>1, <2>2, <2>3, <2>4, AddRises
  <2>6. trim \in Seq(Blocks)
    <3>1. Add(cache, e) \in Seq(Blocks)
      BY SMTT(30), <2>1, AddAppends
    <3> QED
      BY <3>1, TrimSplits, DepthFacts
  <2> HIDE DEF e, kept, trim
  <2>7. Rising(trim \o kept, BootstrapHeight)
    BY <2>5, <2>6, ConcatEmptySeq
  <2>8. /\ DeliveredRises'
        /\ pc' = "send" => Rising(kept, BootstrapHeight')
    BY <1>1, <1>3, <2>1, <2>5, <2>6, <2>7, CommitRises
  <2>9. pc' \in {"panicked", "send"} /\ (pc' = "send" => resume' = "idle")
    BY <1>3 DEF CommitChainUpdate
  <2> QED
    BY SMTT(30), <1>3, <2>8, <2>9 DEF GapInv, CacheRises, Fetching
<1> QED
  BY SMTT(30), <1>1, <1>2, <1>3 DEF HandleNewBlock

\* The send, and the quit case beside it.
LEMMA SendGap ==
    ASSUME Inv, GapInv, Receive \/ SendQuit
    PROVE  GapInv'
<1>1. /\ pc = "send" /\ pc' = resume /\ resume \in {"fetch", "idle"}
      /\ UNCHANGED <<startHeight, cache, confirmedTip, boot, resume, quit>>
      /\ \/ ~quit /\ delivered' = delivered \o update.confirmed
         \/ quit /\ delivered' = delivered
  BY SMTT(30) DEF Receive, SendQuit, node, history, Inv, TypeOK
<1>2. BootstrapHeight' = BootstrapHeight
  BY <1>1 DEF BootstrapHeight
<1>3. CacheRises'
  BY <1>1, <1>2 DEF GapInv, CacheRises, Fetching
<1>4. /\ Rising(delivered', startHeight) /\ startHeight' = startHeight
      /\ pc' # "send"
  BY Zenon, <1>1 DEF GapInv, DeliveredRises
<1> QED
  BY <1>3, <1>4 DEF GapInv, DeliveredRises

\* Every step that drops no batch preserves the invariant.
LEMMA NextGap == Inv /\ GapInv /\ [Next]_vars /\ ~DropsBatch => GapInv'
<1> SUFFICES ASSUME Inv, GapInv, [Next]_vars, ~DropsBatch PROVE GapInv'
  OBVIOUS
<1>1. CASE MineBlock \/ Reorg \/ Stop \/ Register \/ UNCHANGED vars
  <2>1. UNCHANGED <<pc, resume, cache, confirmedTip, boot, update, delivered,
                    startHeight>>
    BY Zenon, <1>1 DEF MineBlock, Reorg, SwitchTo, Stop, Register, node, history, vars
  <2>2. quit => quit'
    BY Zenon, <1>1 DEF MineBlock, Reorg, SwitchTo, Stop, Register, vars
  <2> QED
    BY <2>1, <2>2, QuietGap
<1>2. CASE WaitUntilActivation \/ EpochsClosed \/ LoopQuit
  <2>1. /\ UNCHANGED <<quit, cache, confirmedTip, boot, update, delivered,
                       startHeight>>
        /\ pc' \in {"bootstrap", "failed", "loopexit", "stopped"}
    BY <1>2 DEF WaitUntilActivation, EpochsClosed, LoopQuit, node, history
  <2> QED
    BY <2>1, QuietGap
<1>3. CASE BootstrapBegin
  BY <1>3, BootstrapBeginGap
<1>4. CASE FetchBlock
  BY <1>4, FetchBlockGap
<1>5. CASE BootstrapEnd
  BY <1>5, BootstrapEndGap
<1>6. CASE Receive \/ SendQuit
  BY <1>6, SendGap
<1>7. CASE HandleNewBlock
  BY <1>7, HandleNewBlockGap
<1> QED
  BY <1>1, <1>2, <1>3, <1>4, <1>5, <1>6, <1>7 DEF Next, Poller

\* The invariant holds at the start.
LEMMA InitGap == Init => GapInv
BY DEF Init, GapInv, CacheRises, DeliveredRises, Rising, Fetching

\* The heights stay without a gap as long as no batch is dropped.
LEMMA ScannerGapInv == Spec /\ NoBatchDropped => []GapInv
<1>1. Inv /\ GapInv /\ [Next]_vars /\ [~DropsBatch]_vars => GapInv'
  <2>1. UNCHANGED vars => ~DropsBatch
    BY Zenon DEF vars, DropsBatch
  <2> QED
    BY <2>1, NextGap
<1> QED
  BY <1>1, InitGap, ScannerInv, PTL DEF Spec, NoBatchDropped

\* The first delivered block is the one at startHeight.
LEMMA GapStart == Inv /\ GapInv => NoGapAtStart
<1> SUFFICES ASSUME Inv, GapInv, delivered # <<>>
             PROVE  HeightOf(delivered[1]) = startHeight
  BY DEF NoGapAtStart
<1>1. 1 \in 1..Len(delivered) /\ startHeight \in Nat
  BY BootstrapHeightFacts DEF Inv, TypeOK
<1>2. HeightOf(delivered[1]) = startHeight + (1 - 1)
  BY <1>1 DEF GapInv, DeliveredRises, Rising
<1> QED
  BY <1>1, <1>2

\* For every block tree, depth, batch size and any number of reorgs of any depth
\* and of failed RPCs: as long as no Bootstrap that fails drops blocks that it
\* has taken out of the cache and not committed, the first block that the indexer
\* receives is the one at the start height.  The run scanner_gap shows that the
\* condition cannot be dropped.
THEOREM ScannerNoGapAtStart == Spec /\ NoBatchDropped => []NoGapAtStart
BY GapStart, ScannerGapInv, ScannerInv, PTL

\* With a batch size of 1 Bootstrap commits every block as soon as it has left
\* the cache, so it has nothing to drop, whatever fails.
THEOREM SmallBatchesAreNotDropped == BatchSize = 1 /\ Spec => NoBatchDropped
<1> DEFINE Nothing == boot.confirmed = <<>>
<1> SUFFICES ASSUME BatchSize = 1 PROVE Spec => NoBatchDropped
  OBVIOUS
<1>1. Init => Nothing
  BY DEF Init, NoBoot
<1>2. Inv /\ Nothing /\ [Next]_vars => Nothing'
  <2> SUFFICES ASSUME Inv, Nothing, [Next]_vars PROVE Nothing'
    OBVIOUS
  <2>1. CASE FetchBlock
    <3> DEFINE out == boot.confirmed \o
                         TrimmedBlocks(Add(cache, main[boot.next]), Unconfirmed)
    <3>1. boot \in [next : Nat, tip : Nat, confirmed : Seq(Blocks)]
      BY DEF Inv, TypeOK
    <3>2. \/ UNCHANGED boot
          \/ /\ Len(out) < BatchSize
             /\ boot' = [boot EXCEPT !.next = @ + 1, !.confirmed = out]
          \/ boot' = [boot EXCEPT !.next = @ + 1, !.confirmed = <<>>]
      BY Zenon, <2>1 DEF FetchBlock
    <3>3. out \in Seq(Blocks) \/ UNCHANGED boot
      <4>1. /\ boot.confirmed \in Seq(Blocks) /\ cache \in Seq(Blocks)
            /\ Len(cache) < ConfirmationDepth
            /\ main[boot.next] \in Blocks
        <5>1. /\ main \in Seq(Blocks) /\ boot.next \in Nat /\ boot.tip \in Nat
              /\ boot.next >= 1 /\ boot.tip <= Len(main) /\ boot.next <= boot.tip
          BY <2>1, ChainFacts DEF FetchBlock, Inv, TypeOK, BootOK, Fetching
        <5> QED
          BY <5>1 DEF Inv, TypeOK
      <4>2. Add(cache, main[boot.next]) \in Seq(Blocks)
        BY SMTT(30), <4>1, AddAppends
      <4>3. TrimmedBlocks(Add(cache, main[boot.next]), Unconfirmed) \in Seq(Blocks)
        BY <4>2, TrimSplits, DepthFacts
      <4> QED
        BY <4>1, <4>3
    <3> HIDE DEF out
    <3>4. Len(out) < BatchSize => out = <<>> \/ UNCHANGED boot
      BY <3>3
    <3> QED
      BY Zenon, <3>1, <3>2, <3>4
  <2>2. CASE BootstrapBegin \/ BootstrapEnd
    BY <2>2 DEF BootstrapBegin, BootstrapEnd, NoBoot
  <2>3. CASE UNCHANGED boot
    BY <2>3
  <2> QED
    BY Zenon, <2>1, <2>2, <2>3
    DEF Next, Poller, MineBlock, Reorg, SwitchTo, WaitUntilActivation, SendQuit,
        Register, HandleNewBlock, LoopQuit, Receive, EpochsClosed, Stop, vars
<1>3. Nothing => ~DropsBatch
  BY DEF DropsBatch
<1> QED
  BY <1>1, <1>2, <1>3, ScannerInv, PTL DEF Spec, NoBatchDropped

----------------------------------------------------------------------------
(* Heights: when no batch is dropped.                                      *)

\* The last block that Bootstrap has fetched is on the node's best chain.
FetchedOK ==
    Fetching /\ cache # <<>> =>
        /\ boot.next - 1 \in 1..Len(main)
        /\ Tip(cache) = main[boot.next - 1]

\* The last block of the cache stays in it.
LEMMA KeptTip ==
    ASSUME NEW s \in Seq(Blocks), NEW b \in Blocks, Len(s) < ConfirmationDepth
    PROVE  LET kept == KeptBlocks(Add(s, b), Unconfirmed)
           IN  kept # <<>> /\ Tip(kept) = b
<1> DEFINE t == Append(s, b)
<1>1. Add(s, b) = t
  BY AddAppends
<1>2. t \in Seq(Blocks) /\ Len(t) = Len(s) + 1 /\ t[Len(t)] = b
  OBVIOUS
<1> HIDE DEF t
<1>3. CASE Len(t) <= Unconfirmed
  <2>1. KeptBlocks(t, Unconfirmed) = t /\ t # <<>>
    BY <1>2, <1>3 DEF KeptBlocks
  <2> QED
    BY <1>1, <1>2, <2>1 DEF Tip
<1>4. CASE Len(t) > Unconfirmed
  <2> DEFINE k == SubSeq(t, Len(t) - Unconfirmed + 1, Len(t))
  <2>1. KeptBlocks(t, Unconfirmed) = k
    BY <1>4, DepthFacts DEF KeptBlocks
  <2>2. Len(k) = Unconfirmed /\ k[Unconfirmed] = t[Len(t)]
    BY <1>2, <1>4, DepthFacts
  <2> HIDE DEF k
  <2>3. k # <<>>
    BY <2>2, DepthFacts
  <2> QED
    BY <1>1, <1>2, <2>1, <2>2, <2>3 DEF Tip
<1> QED
  BY <1>2, <1>3, <1>4, DepthFacts

\* One iteration of Bootstrap's loop.
LEMMA FetchBlockFetched ==
    ASSUME Inv, FetchBlock
    PROVE  FetchedOK'
<1> DEFINE ib   == main[boot.next]
           kept == KeptBlocks(Add(cache, ib), Unconfirmed)
<1>1. /\ pc = "fetch" /\ boot.next <= boot.tip /\ UNCHANGED main
  BY DEF FetchBlock, node
<1>2. /\ main \in Seq(Blocks) /\ boot.next \in 1..Len(main) /\ ib \in Blocks
      /\ boot \in [next : Nat, tip : Nat, confirmed : Seq(Blocks)]
      /\ cache \in Seq(Blocks) /\ Len(cache) < ConfirmationDepth
  <2>1. /\ main \in Seq(Blocks)
        /\ boot \in [next : Nat, tip : Nat, confirmed : Seq(Blocks)]
        /\ boot.next >= 1 /\ boot.tip <= Len(main)
        /\ cache \in Seq(Blocks) /\ Len(cache) < ConfirmationDepth
    BY <1>1, ChainFacts DEF Inv, TypeOK, BootOK, Fetching
  <2> QED
    BY <1>1, <2>1
<1>3. \/ pc' \in {"idle", "failed"}
      \/ /\ cache' = kept
         /\ \E rest : boot' = [boot EXCEPT !.next = @ + 1, !.confirmed = rest]
  BY Zenon DEF FetchBlock, AfterBootstrapError
<1>4. CASE pc' \in {"idle", "failed"}
  BY <1>4 DEF FetchedOK, Fetching
<1>5. CASE /\ cache' = kept
           /\ \E rest : boot' = [boot EXCEPT !.next = @ + 1, !.confirmed = rest]
  <2>1. Tip(kept) = ib
    <3> HIDE DEF ib
    <3> QED
      BY <1>2, KeptTip
  <2>2. boot'.next - 1 = boot.next
    <3>1. PICK rest : boot' = [boot EXCEPT !.next = boot.next + 1,
                                           !.confirmed = rest]
      BY Zenon, <1>5
    <3>2. boot'.next = boot.next + 1
      BY SMTT(30), <1>2, <3>1
    <3> QED
      BY <1>2, <3>2
  <2> QED
    BY <1>1, <1>2, <1>5, <2>1, <2>2 DEF FetchedOK
<1> QED
  BY Zenon, <1>3, <1>4, <1>5

\* The best chain grows.
LEMMA MineBlockFetched ==
    ASSUME Inv, FetchedOK, MineBlock
    PROVE  FetchedOK'
<1>1. main \in Seq(Blocks)
  BY ChainFacts DEF Inv, TypeOK
<1>2. PICK c \in Chains : Len(c) = Len(main) + 1 /\ SwitchTo(c, Len(main))
  BY DEF MineBlock
<1>3. /\ main' = c /\ \A i \in 1..Len(main) : main[i] = c[i]
      /\ UNCHANGED <<pc, resume, cache, boot>>
  BY <1>2 DEF SwitchTo, IsFork
<1>4. 1..Len(main) \subseteq 1..Len(c)
  BY <1>1, <1>2
<1> QED
  BY <1>3, <1>4 DEF FetchedOK, Fetching

\* Without reorgs and failed RPCs no batch is dropped, whatever its size: the
\* block that Bootstrap fetches always follows the cache's tip.
THEOREM NoFaultsNoDrop ==
    MaxReorgs = 0 /\ MaxRpcFailures = 0 /\ Spec => NoBatchDropped
<1> SUFFICES ASSUME MaxReorgs = 0, MaxRpcFailures = 0
             PROVE  Spec => NoBatchDropped
  OBVIOUS
<1>1. Init => FetchedOK
  BY DEF Init, FetchedOK, Fetching
<1>2. Inv => ~Reorg /\ ~RpcFails
  BY DEF Inv, TypeOK, Reorg, RpcFails
<1>3. Inv /\ FetchedOK /\ [Next]_vars => FetchedOK'
  <2> SUFFICES ASSUME Inv, FetchedOK, [Next]_vars PROVE FetchedOK'
    OBVIOUS
  <2>1. CASE MineBlock
    BY <2>1, MineBlockFetched
  <2>2. CASE FetchBlock
    BY SMTT(30), <2>2, FetchBlockFetched
  <2>3. CASE BootstrapBegin
    BY <2>3 DEF BootstrapBegin, FetchedOK
  <2>4. CASE BootstrapEnd \/ HandleNewBlock
    <3>1. ~Fetching'
      BY Zenon, <2>4 DEF BootstrapEnd, HandleNewBlock, CommitChainUpdate, Fetching
    <3> QED
      BY <3>1 DEF FetchedOK
  <2>5. CASE Receive \/ SendQuit
    BY <2>5 DEF Receive, SendQuit, node, FetchedOK, Fetching
  <2>6. CASE \/ WaitUntilActivation \/ EpochsClosed \/ LoopQuit \/ Register
             \/ Stop \/ UNCHANGED vars
    <3>1. UNCHANGED <<main, cache, boot>> /\ (Fetching' => Fetching)
      BY Zenon, <2>6 DEF WaitUntilActivation, EpochsClosed, LoopQuit, Register, Stop,
                  node, vars, Fetching
    <3> QED
      BY <3>1 DEF FetchedOK
  <2> QED
    BY <1>2, <2>1, <2>2, <2>3, <2>4, <2>5, <2>6 DEF Next, Poller
<1>4. Inv /\ FetchedOK /\ [Next]_vars => ~DropsBatch
  <2> SUFFICES ASSUME Inv, FetchedOK, [Next]_vars, pc = "fetch", pc' = "idle"
               PROVE  boot.confirmed = <<>>
    BY DEF DropsBatch
  <2>1. CASE FetchBlock
    <3>1. Disconnected(main[boot.next])
      BY <1>2, <2>1 DEF FetchBlock, CommitChainUpdate
    <3>2. /\ main \in Chains /\ main \in Seq(Blocks)
          /\ boot.next - 1 \in 1..Len(main) /\ boot.next <= Len(main)
          /\ Tip(cache) = main[boot.next - 1] /\ boot.next \in Nat
      <4>1. /\ main \in Chains /\ main \in Seq(Blocks)
            /\ boot.next \in Nat /\ boot.tip \in Nat
            /\ boot.tip <= Len(main) /\ boot.next <= boot.tip
        BY <2>1, ChainFacts DEF FetchBlock, Inv, TypeOK, BootOK
      <4>2. cache # <<>>
        BY <3>1 DEF Disconnected
      <4> QED
        BY <4>1, <4>2 DEF FetchedOK, Fetching
    <3>3. boot.next \in 2..Len(main)
      BY <3>2
    <3>4. Prev(main[boot.next]) = main[boot.next - 1]
      BY <3>2, <3>3, ChainsAssumption
    <3> QED
      BY Zenon, <3>1, <3>2, <3>4 DEF Disconnected
  <2>2. CASE BootstrapEnd
    BY Zenon, <2>2 DEF BootstrapEnd, CommitChainUpdate
  <2>3. ~UNCHANGED vars
    BY DEF vars
  <2>4. ~Receive /\ ~SendQuit /\ ~MineBlock /\ ~Stop
    BY DEF Receive, SendQuit, MineBlock, SwitchTo, Stop
  <2>5. ~(WaitUntilActivation \/ EpochsClosed \/ LoopQuit \/ Register
             \/ BootstrapBegin \/ HandleNewBlock)
    BY Zenon DEF WaitUntilActivation, EpochsClosed, LoopQuit, Register,
           BootstrapBegin, HandleNewBlock
  <2> QED
    BY <1>2, <2>1, <2>2, <2>3, <2>4, <2>5 DEF Next, Poller
<1> QED
  BY <1>1, <1>3, <1>4, ScannerInv, PTL DEF Spec, NoBatchDropped
=============================================================================
