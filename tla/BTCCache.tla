------------------------------ MODULE BTCCache ------------------------------
(***************************************************************************)
(* The cache of unconfirmed blocks of the BTC poller                       *)
(* (btcscanner/btc_cache.go).  A cache is a sequence of blocks, oldest     *)
(* first.  Every operation of the Go type runs under its lock, so each is  *)
(* one operator on sequences here.                                         *)
(***************************************************************************)
EXTENDS Integers, Sequences

CONSTANT MaxEntries   \* maxEntries, 100 in the program (defaultMaxEntries)

ASSUME MaxEntriesAssumption == MaxEntries \in Nat \ {0}

\* Add: a full cache drops its oldest block to make room.
Add(blocks, ib) ==
    IF Len(blocks) = MaxEntries THEN Append(Tail(blocks), ib)
                                ELSE Append(blocks, ib)

\* Tip, for a cache that is not empty.
Tip(blocks) == blocks[Len(blocks)]

\* GetLastBlocks: (a copy of) the last k blocks, or all when there are fewer.
GetLastBlocks(blocks, k) ==
    IF Len(blocks) <= k THEN blocks
                        ELSE SubSeq(blocks, Len(blocks) - k + 1, Len(blocks))

\* TrimConfirmedBlocks(k) returns everything but the last k blocks ...
TrimmedBlocks(blocks, k) ==
    IF Len(blocks) <= k THEN <<>> ELSE SubSeq(blocks, 1, Len(blocks) - k)

\* Mutant: one block too many stays in the cache.
KeptBlocks_OneMore(blocks, k) ==
    IF Len(blocks) <= k + 1 THEN blocks
    ELSE SubSeq(blocks, Len(blocks) - k, Len(blocks))

\* ... and leaves the last k blocks in the cache.
KeptBlocks(blocks, k) ==
    IF Len(blocks) <= k THEN blocks
                        ELSE SubSeq(blocks, Len(blocks) - k + 1, Len(blocks))
=============================================================================
