---------------------------- MODULE MCBtcScanner ----------------------------
(***************************************************************************)
(* BtcScanner on a small tree of blocks.  A block is the sequence of the   *)
(* branch numbers of its ancestors and itself, as a block's hash commits   *)
(* to its history: its height is its length and its parent all but its     *)
(* last element.  Branch numbers never decrease along a branch, which      *)
(* gives a fork at every height without mirror images.                     *)
(***************************************************************************)
EXTENDS BtcScanner

CONSTANTS
    MaxHeight,   \* bound: height of the highest block
    MaxBranch    \* bound: branch numbers are 0..MaxBranch

MCBlocks ==
    {b \in UNION {[1..n -> 0..MaxBranch] : n \in 1..MaxHeight} :
        /\ b[1] = 0
        /\ \A i \in 1..(Len(b) - 1) : b[i] <= b[i + 1]}

MCPrev(b) == SubSeq(b, 1, Len(b) - 1)

MCHeightOf(b) == Len(b)

MCChains == {[h \in 1..Len(b) |-> SubSeq(b, 1, h)] : b \in MCBlocks}

\* Two branches that part above height 4: few enough chains for three reorgs.
MCTwoBranches ==
    {c \in MCChains :
        LET b == c[Len(c)] IN \A i \in 2..Len(b) : i # 5 => b[i] = b[i - 1]}
=============================================================================
