------------------------- MODULE MCUnconfirmedInfo --------------------------
(* UnconfirmedInfo on the chains and transactions of MCStakingIndexer.     *)
EXTENDS UnconfirmedInfo, MCStakingIndexer
=============================================================================
