----------------------------- MODULE MCBtcClient ----------------------------
(***************************************************************************)
(* BtcClient on the chains of a small tree of blocks, built as in          *)
(* MCBtcScanner.                                                           *)
(***************************************************************************)
EXTENDS BtcClient

CONSTANTS
    MaxHeight,   \* bound: height of the highest block
    MaxBranch    \* bound: branch numbers are 0..MaxBranch

MCPrev(b) == SubSeq(b, 1, Len(b) - 1)

MCChains ==
    {[h \in 1..Len(b) |-> SubSeq(b, 1, h)] :
        b \in {c \in UNION {[1..n -> 0..MaxBranch] : n \in 1..MaxHeight} :
                  c[1] = 0 /\ \A i \in 1..(Len(c) - 1) : c[i] <= c[i + 1]}}

MCRanges == (1..MaxHeight) \X (1..MaxHeight)
=============================================================================
