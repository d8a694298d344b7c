--------------------------- MODULE MCIndexerSystem --------------------------
(***************************************************************************)
(* IndexerSystem on the tree of blocks of MCBtcScanner.                    *)
(***************************************************************************)
EXTENDS IndexerSystem, MCBtcScanner
=============================================================================
