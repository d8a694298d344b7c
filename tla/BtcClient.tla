------------------------------ MODULE BtcClient -----------------------------
(***************************************************************************)
(* The RPC client of the Bitcoin node (btcclient/client.go) and the        *)
(* btc-headers command that reads a range of headers through it            *)
(* (cmd/sid/cli/btc_headers.go).                                           *)
(*                                                                         *)
(* Reading a block or a header by height takes two RPCs, the hash of the   *)
(* height and then the block of the hash, each repeated by                 *)
(* clientCallWithRetry; the node may switch chains between any two.  The   *)
(* node is external: it knows the blocks of branches it has left, and      *)
(* answers with an error for a height above its tip.                       *)
(***************************************************************************)
EXTENDS Integers, Sequences

CONSTANTS
    Chains,          \* the chains the node may follow; c[h] is at height h
    Prev(_),         \* Header.PrevBlock, as the block it names
    NoBlock,         \* no block
    MaxRetryTimes,   \* cfg.MaxRetryTimes
    MaxReorgs,       \* bound: reorgs of the node's chain
    Ranges           \* the <<from, to>> that the command may be given

\* retry.Attempts(0) would retry forever; BTCConfig.Validate rejects it.
ASSUME ClientAssumption ==
    /\ MaxRetryTimes \in Nat \ {0}
    /\ MaxReorgs \in Nat
    /\ Ranges \subseteq (Nat \ {0}) \X Nat
    /\ \A c \in Chains : c \in Seq({c[h] : h \in DOMAIN c})

VARIABLES
    best,      \* the node's best chain (external)
    reorgs,    \* history: reorgs
    rpc,       \* the RPC being tried: "none", "hash" or "header"
    attempts,  \* its failed attempts so far
    hash,      \* blockHash, as the block it names
    range,     \* fromBlock and toBlock
    withHeight,\* the --with-height flag
    next,      \* blkHeight
    headers,   \* btcHeaders
    command    \* "begin", "list", "written" or "failed"

node   == <<best, reorgs>>
client == <<rpc, attempts, hash>>
cli    == <<range, withHeight, next, headers, command>>
headersVars ==  <<node, client, cli>>

----------------------------------------------------------------------------
(* The node.                                                               *)

\* The node's chain grows or, in a reorg, gives way to a longer one.
SwitchTo ==
    \E c \in Chains :
        /\ Len(c) > Len(best)
        /\ LET extends == SubSeq(c, 1, Len(best)) = best
           IN  /\ extends \/ reorgs < MaxReorgs
               /\ reorgs' = IF extends THEN reorgs ELSE reorgs + 1
        /\ best' = c
        /\ UNCHANGED <<client, cli>>

----------------------------------------------------------------------------
(* The client.                                                             *)

\* GetBlockHeaderByHeight is called for the height next.
GetBlockHeaderByHeight ==
    /\ command = "list" /\ rpc = "none"
    /\ next <= range[2]
    /\ rpc' = "hash"
    /\ attempts' = 0
    /\ hash' = NoBlock
    /\ UNCHANGED <<node, cli>>

\* Mutant: the hash is that of the height above.
HashAt_OffByOne(h) == IF h < Len(best) THEN best[h + 1] ELSE NoBlock

\* getblockhash: an error when the height is above the tip.
HashAt(h) == IF h <= Len(best) THEN best[h] ELSE NoBlock

\* GetBlockHashByHeight succeeds.
GetBlockHashByHeight ==
    /\ rpc = "hash"
    /\ HashAt(next) # NoBlock
    /\ hash' = HashAt(next)
    /\ rpc' = "header"
    /\ attempts' = 0
    /\ UNCHANGED <<node, cli>>

\* Mutant: a call that fails is repeated without end.
CallFails_Forever ==
    /\ rpc # "none"
    /\ UNCHANGED headersVars

\* An attempt fails: clientCallWithRetry tries again or returns the error,
\* which ends the command.
CallFails ==
    /\ rpc # "none"
    /\ IF attempts + 1 = MaxRetryTimes
       THEN rpc' = "none" /\ attempts' = 0 /\ command' = "failed"
       ELSE attempts' = attempts + 1 /\ UNCHANGED <<rpc, command>>
    /\ UNCHANGED <<node, hash, range, withHeight, next, headers>>

\* The header arrives; BtcHeaderInfoList appends it.
AppendHeader ==
    /\ rpc = "header"
    /\ headers' = Append(headers, [block  |-> hash,
                                  height |-> IF withHeight THEN next ELSE 0])
    /\ next' = next + 1
    /\ rpc' = "none"
    /\ UNCHANGED <<node, attempts, hash, range, withHeight, command>>

----------------------------------------------------------------------------
(* The command.                                                            *)

\* btcHeaders: the range is checked, the configuration, the log and the client
\* are opened; any of it may fail.
BtcHeaders ==
    /\ command = "begin"
    /\ \/ command' = "list" /\ range[1] <= range[2]
       \/ command' = "failed"
    /\ UNCHANGED <<node, client, range, withHeight, next, headers>>

\* The list is complete and written to the file, or the write fails.
WriteFile ==
    /\ command = "list" /\ rpc = "none"
    /\ next > range[2]
    /\ command' \in {"written", "failed"}
    /\ UNCHANGED <<node, client, range, withHeight, next, headers>>

HeadersInit ==
    /\ best \in Chains /\ reorgs = 0
    /\ rpc = "none" /\ attempts = 0 /\ hash = NoBlock
    /\ range \in Ranges /\ withHeight \in BOOLEAN
    /\ next = range[1]
    /\ headers = <<>>
    /\ command = "begin"

Command == \/ BtcHeaders \/ GetBlockHeaderByHeight \/ GetBlockHashByHeight
           \/ CallFails \/ AppendHeader \/ WriteFile

HeadersNext == SwitchTo \/ Command

\* Every RPC is answered, well or with an error.
HeadersSpec == HeadersInit /\ [][HeadersNext]_headersVars /\ WF_headersVars(Command)

----------------------------------------------------------------------------
(* Properties.                                                             *)

\* Without a reorg the file holds exactly the best chain between the two
\* heights, although the chain grows and attempts fail meanwhile.
FileIsBestChain ==
    command = "written" /\ reorgs = 0 =>
        headers = [i \in 1..(range[2] - range[1] + 1) |->
                      LET h == range[1] + i - 1
                      IN  [block  |-> best[h],
                           height |-> IF withHeight THEN h ELSE 0]]

\* The command ends, also when it waits for a block that is never mined.
CommandEnds == <>(command \in {"written", "failed"})

\* "Output a range of BTC headers into a JSON file": each header of the range
\* follows the one before it.
\* The code does not keep it (README, "Deviations without a run").
FileIsRange ==
    command = "written" =>
        \A i \in 2..Len(headers) :
            Prev(headers[i].block) = headers[i - 1].block
=============================================================================
