------------------------ MODULE SidCommands_proofs ------------------------
(***************************************************************************)
(* The commands of sid.                                                    *)
(*                                                                         *)
(* btc-headers (BtcClient): its file holds the best chain, for every       *)
(* chain, range and number of attempts, as long as the chain only grows:   *)
(* what has been read is at its height on the best chain, and so is the    *)
(* hash that the header is about to be read for.                           *)
(*                                                                         *)
(* sid init (SidHome): a sid.conf that the operator has not touched is a   *)
(* prefix of the defaults, however often the command was interrupted and   *)
(* repeated, and the configuration that start accepts has all but the last *)
(* of them.                                                                *)
(*                                                                         *)
(* sid start (Lifecycle): no goroutine uses a service that                 *)
(* RunUntilShutdown has stopped, for any number of updates and blocks.     *)
(* The stack of deferred calls determines what may have been stopped: a    *)
(* service is stopped only while main returns and only when its deferred   *)
(* call is off the stack, and on the way of a successful start the         *)
(* indexer's call comes off first.                                         *)
(***************************************************************************)
EXTENDS BtcClient, SidHome, Lifecycle, TLAPS

----------------------------------------------------------------------------
(* btc-headers: what has been read.                                        *)

ChainBlocks == UNION {{c[h] : h \in DOMAIN c} : c \in Chains}

AllBlocks == ChainBlocks \cup {NoBlock}

Header == [block : AllBlocks, height : Nat]

\* The entry of the list for a height.
HeaderAt(h) == [block |-> best[h], height |-> IF withHeight THEN h ELSE 0]

ReadTypeOK ==
    /\ best \in Chains /\ reorgs \in Nat
    /\ range[1] \in Nat \ {0} /\ range[2] \in Nat
    /\ hash \in AllBlocks
    /\ headers \in Seq(Header)
    /\ next = range[1] + Len(headers)

\* How far the command has come.
ProgressOK ==
    /\ command = "begin" => next = range[1]
    /\ rpc # "none" => command = "list" /\ next <= range[2]
    /\ command = "list" => next <= range[2] + 1
    /\ command = "written" => next = range[2] + 1

\* What has been read, as long as the chain has only grown.
BestChainOK ==
    reorgs = 0 =>
        /\ \A i \in 1..Len(headers) :
              /\ range[1] + i - 1 <= Len(best)
              /\ headers[i] = HeaderAt(range[1] + i - 1)
        /\ rpc = "header" => next <= Len(best) /\ hash = best[next]

ReadInv == ReadTypeOK /\ ProgressOK /\ BestChainOK

----------------------------------------------------------------------------

\* A chain holds blocks.
LEMMA ChainFacts ==
    ASSUME NEW c \in Chains
    PROVE  Len(c) \in Nat /\ \A h \in 1..Len(c) : c[h] \in AllBlocks
<1> DEFINE S == {c[h] : h \in DOMAIN c}
<1>1. c \in Seq(S)
  BY ClientAssumption
<1>2. S \subseteq AllBlocks
  BY DEF AllBlocks, ChainBlocks
<1> HIDE DEF S
<1>3. Len(c) \in Nat /\ \A h \in 1..Len(c) : c[h] \in S
  BY <1>1
<1> QED
  BY <1>2, <1>3

\* The hash at hand may name no block.
LEMMA NoBlockFact == NoBlock \in AllBlocks
BY DEF AllBlocks

\* The chain grows: what was at a height is still there.
LEMMA SwitchInv == ReadInv /\ SwitchTo => ReadInv'
<1> SUFFICES ASSUME ReadInv, SwitchTo PROVE ReadInv'
  OBVIOUS
<1>1. PICK c \in Chains :
          /\ Len(c) > Len(best) /\ best' = c
          /\ reorgs' = IF SubSeq(c, 1, Len(best)) = best
                       THEN reorgs ELSE reorgs + 1
          /\ UNCHANGED <<rpc, hash, range, withHeight, next, headers, command>>
  BY DEF SwitchTo, client, cli
<1>2. best \in Chains /\ reorgs \in Nat
  BY DEF ReadInv, ReadTypeOK
<1>3. reorgs' \in Nat
  BY <1>1, <1>2
<1>4. ReadTypeOK'
  BY <1>1, <1>3 DEF ReadInv, ReadTypeOK
<1>5. ProgressOK'
  BY <1>1 DEF ReadInv, ProgressOK
<1>6. BestChainOK'
  <2> SUFFICES ASSUME reorgs' = 0 PROVE BestChainOK'
    BY DEF BestChainOK
  <2>1. reorgs = 0 /\ SubSeq(c, 1, Len(best)) = best
    BY <1>1, <1>2
  <2>2. Len(best) \in Nat /\ Len(c) \in Nat
    BY <1>2, ChainFacts
  <2>3. \A h \in 1..Len(best) : c[h] = best[h]
    <3> DEFINE S == {c[h] : h \in DOMAIN c}
    <3>1. c \in Seq(S)
      BY ClientAssumption
    <3> HIDE DEF S
    <3>2. \A h \in 1..Len(best) : SubSeq(c, 1, Len(best))[h] = c[h]
      BY <1>1, <2>2, <3>1
    <3> QED
      BY <2>1, <3>2
  <2>4. ASSUME NEW i \in 1..Len(headers)
        PROVE  /\ range[1] + i - 1 <= Len(c)
               /\ headers[i] = [block  |-> c[range[1] + i - 1],
                                height |-> IF withHeight THEN range[1] + i - 1
                                                         ELSE 0]
    <3>1. /\ range[1] + i - 1 <= Len(best)
          /\ headers[i] = HeaderAt(range[1] + i - 1)
      BY <2>1 DEF ReadInv, BestChainOK
    <3>2. range[1] + i - 1 \in 1..Len(best)
      BY <2>2, <3>1 DEF ReadInv, ReadTypeOK
    <3> QED
      BY <1>1, <2>2, <2>3, <3>1, <3>2 DEF HeaderAt
  <2>5. ASSUME rpc = "header"
        PROVE  next <= Len(c) /\ hash = c[next]
    <3>1. next <= Len(best) /\ hash = best[next]
      BY <2>1, <2>5 DEF ReadInv, BestChainOK
    <3>2. next \in 1..Len(best)
      BY <2>2, <3>1 DEF ReadInv, ReadTypeOK
    <3> QED
      BY <1>1, <2>2, <2>3, <3>1, <3>2
  <2> QED
    BY <1>1, <2>4, <2>5 DEF BestChainOK, HeaderAt
<1> QED
  BY <1>4, <1>5, <1>6 DEF ReadInv

\* The steps that leave the list alone.
LEMMA CallInv ==
    ASSUME ReadInv,
           \/ BtcHeaders \/ GetBlockHeaderByHeight \/ GetBlockHashByHeight
           \/ CallFails \/ WriteFile \/ UNCHANGED headersVars
    PROVE  ReadInv'
<1>1. UNCHANGED <<best, reorgs, range, withHeight, next, headers>>
  BY DEF BtcHeaders, GetBlockHeaderByHeight, GetBlockHashByHeight, CallFails,
         WriteFile, headersVars, node, client, cli
<1>2. /\ best \in Chains /\ next \in Nat \ {0} /\ Len(best) \in Nat
      /\ range[1] \in Nat \ {0} /\ range[2] \in Nat
  BY ChainFacts DEF ReadInv, ReadTypeOK
<1>3. /\ hash' \in AllBlocks
      /\ rpc' = "header" => \/ rpc = "header" /\ hash' = hash
                            \/ next <= Len(best) /\ hash' = best[next]
  <2>1. CASE GetBlockHashByHeight
    <3>1. next <= Len(best) /\ hash' = best[next]
      BY <2>1 DEF GetBlockHashByHeight, HashAt
    <3> QED
      BY <1>2, <3>1, ChainFacts
  <2>2. CASE GetBlockHeaderByHeight
    BY <2>2, NoBlockFact DEF GetBlockHeaderByHeight
  <2>3. CASE BtcHeaders \/ CallFails \/ WriteFile \/ UNCHANGED headersVars
    <3>1. hash' = hash /\ rpc' \in {rpc, "none"}
      BY <2>3 DEF BtcHeaders, CallFails, WriteFile, headersVars, client
    <3> QED
      BY <3>1 DEF ReadInv, ReadTypeOK
  <2> QED
    BY <2>1, <2>2, <2>3
<1>4. ReadTypeOK'
  BY <1>1, <1>3 DEF ReadInv, ReadTypeOK
<1>5. ProgressOK'
  <2>1. CASE BtcHeaders
    <3>1. /\ command = "begin" /\ rpc' = rpc /\ rpc = "none"
          /\ next = range[1]
          /\ \/ command' = "list" /\ range[1] <= range[2]
             \/ command' = "failed"
      BY <2>1 DEF BtcHeaders, client, ReadInv, ProgressOK
    <3> QED
      BY <1>1, <1>2, <3>1 DEF ProgressOK
  <2>2. CASE GetBlockHeaderByHeight
    BY <2>2 DEF GetBlockHeaderByHeight, cli, ReadInv, ProgressOK
  <2>3. CASE GetBlockHashByHeight
    BY <2>3 DEF GetBlockHashByHeight, cli, ReadInv, ProgressOK
  <2>4. CASE CallFails
    BY <2>4 DEF CallFails, ReadInv, ProgressOK
  <2>5. CASE WriteFile
    BY <1>2, <2>5 DEF WriteFile, client, ReadInv, ProgressOK
  <2>6. CASE UNCHANGED headersVars
    BY <2>6 DEF headersVars, client, cli, ReadInv, ProgressOK
  <2> QED
    BY <2>1, <2>2, <2>3, <2>4, <2>5, <2>6
<1>6. BestChainOK'
  BY <1>1, <1>3 DEF ReadInv, BestChainOK, HeaderAt
<1> QED
  BY <1>4, <1>5, <1>6 DEF ReadInv

\* A header is appended.
LEMMA AppendInv == ReadInv /\ AppendHeader => ReadInv'
<1> SUFFICES ASSUME ReadInv, AppendHeader PROVE ReadInv'
  OBVIOUS
<1> DEFINE hd == [block |-> hash, height |-> IF withHeight THEN next ELSE 0]
<1>1. /\ rpc = "header" /\ rpc' = "none" /\ next' = next + 1
      /\ headers' = Append(headers, hd)
      /\ UNCHANGED <<best, reorgs, hash, range, withHeight, command>>
  BY DEF AppendHeader, node
<1>2. /\ headers \in Seq(Header) /\ next = range[1] + Len(headers)
      /\ range[1] \in Nat \ {0} /\ range[2] \in Nat /\ hash \in AllBlocks
  BY DEF ReadInv, ReadTypeOK
<1>3. hd \in Header
  BY <1>2 DEF Header
<1> HIDE DEF hd
<1>4. /\ headers' \in Seq(Header) /\ Len(headers') = Len(headers) + 1
      /\ \A i \in 1..Len(headers) : headers'[i] = headers[i]
      /\ headers'[Len(headers) + 1] = hd
  BY <1>1, <1>2, <1>3
<1>5. ReadTypeOK'
  <2>1. next' = range[1] + Len(headers')
    <3>1. Len(headers) \in Nat
      BY <1>2
    <3> QED
      BY <1>1, <1>2, <1>4, <3>1
  <2> QED
    BY <1>1, <1>4, <2>1 DEF ReadInv, ReadTypeOK
<1>6. ProgressOK'
  BY <1>1, <1>2 DEF ReadInv, ProgressOK
<1>7. BestChainOK'
  <2> SUFFICES ASSUME reorgs = 0, NEW i \in 1..Len(headers')
               PROVE  /\ range[1] + i - 1 <= Len(best)
                      /\ headers'[i] = HeaderAt(range[1] + i - 1)
    BY <1>1 DEF BestChainOK, HeaderAt
  <2>1. CASE i \in 1..Len(headers)
    BY <1>4, <2>1 DEF ReadInv, BestChainOK
  <2>2. CASE i = Len(headers) + 1
    <3>1. range[1] + i - 1 = next
      BY <1>2, <2>2
    <3>2. next <= Len(best) /\ hash = best[next]
      BY <1>1 DEF ReadInv, BestChainOK
    <3> QED
      BY <1>4, <2>2, <3>1, <3>2 DEF HeaderAt, hd
  <2> QED
    BY <1>2, <1>4, <2>1, <2>2
<1> QED
  BY <1>5, <1>6, <1>7 DEF ReadInv

\* For every set of chains, range, number of attempts and of failures: the file
\* that btc-headers writes is the best chain between the two heights when no
\* reorg happened since the command began.
THEOREM FileIsBestChainHolds == HeadersSpec => []FileIsBestChain
<1>1. HeadersInit => ReadInv
  <2> SUFFICES ASSUME HeadersInit PROVE ReadInv
    OBVIOUS
  <2>1. range[1] \in Nat \ {0} /\ range[2] \in Nat
    BY ClientAssumption DEF HeadersInit
  <2> QED
    <3>1. ReadTypeOK
      BY <2>1, NoBlockFact DEF HeadersInit, ReadTypeOK
    <3>2. ProgressOK /\ BestChainOK
      BY DEF HeadersInit, ProgressOK, BestChainOK
    <3> QED
      BY <3>1, <3>2 DEF ReadInv
<1>2. ReadInv /\ [HeadersNext]_headersVars => ReadInv'
  BY SwitchInv, CallInv, AppendInv DEF HeadersNext, Command
<1>3. ReadInv => FileIsBestChain
  <2> SUFFICES ASSUME ReadInv, command = "written", reorgs = 0
               PROVE  headers = [i \in 1..(range[2] - range[1] + 1) |->
                                    HeaderAt(range[1] + i - 1)]
    BY DEF FileIsBestChain, HeaderAt
  <2>1. /\ headers \in Seq(Header) /\ range[1] \in Nat /\ range[2] \in Nat
        /\ Len(headers) = range[2] - range[1] + 1
    BY DEF ReadInv, ReadTypeOK, ProgressOK
  <2>2. \A i \in 1..Len(headers) : headers[i] = HeaderAt(range[1] + i - 1)
    BY DEF ReadInv, BestChainOK
  <2>3. headers = [i \in 1..Len(headers) |-> headers[i]]
    BY <2>1
  <2> QED
    BY <2>1, <2>2, <2>3
<1> QED
  BY <1>1, <1>2, <1>3, PTL DEF HeadersSpec

----------------------------------------------------------------------------
(* The options, in the order in which they are written.                    *)

\* The options before the metrics section, which is the last.
Earlier == << "loglevel", "bitcoinnetwork", "extraeventenabled" >>
               \o BTCOptions \o DBOptions \o QueueOptions

\* The names of the options, as a set.
Names ==
    {"loglevel", "bitcoinnetwork", "extraeventenabled",
     "rpchost", "rpcuser", "rpcpass", "pruned-node-max-peers",
     "blockpollinginterval", "txpollinginterval", "block-cache-size",
     "max-retry-times", "retry-interval",
     "dbpath", "dbfilename", "nofreelistsync", "autocompact",
     "autocompactminage", "dbtimeout",
     "queue.user", "queue.password", "queue.url", "processingtimeout",
     "msgmaxretryattempts", "requeuedelaytime", "queuetype",
     "metrics.host", "metrics.port"}

\* The options of the sections: their number, and where the metrics options are.
LEMMA SectionFacts ==
    /\ BTCOptions \in Seq(Names) /\ Len(BTCOptions) = 9
    /\ \A i \in 1..9 : BTCOptions[i] \notin {"metrics.host", "metrics.port"}
    /\ DBOptions \in Seq(Names) /\ Len(DBOptions) = 6
    /\ \A i \in 1..6 : DBOptions[i] \notin {"metrics.host", "metrics.port"}
    /\ QueueOptions \in Seq(Names) /\ Len(QueueOptions) = 7
    /\ \A i \in 1..7 : QueueOptions[i] \notin {"metrics.host", "metrics.port"}
    /\ MetricsOptions \in Seq(Names) /\ Len(MetricsOptions) = 2
    /\ MetricsOptions[1] = "metrics.host" /\ MetricsOptions[2] = "metrics.port"
<1>1. BTCOptions \in Seq(Names) /\ Len(BTCOptions) = 9
  BY DEF BTCOptions, Names
<1>2. \A i \in 1..9 : BTCOptions[i] \notin {"metrics.host", "metrics.port"}
  BY DEF BTCOptions
<1>3. DBOptions \in Seq(Names) /\ Len(DBOptions) = 6
  BY DEF DBOptions, Names
<1>4. \A i \in 1..6 : DBOptions[i] \notin {"metrics.host", "metrics.port"}
  BY DEF DBOptions
<1>5. QueueOptions \in Seq(Names) /\ Len(QueueOptions) = 7
  BY DEF QueueOptions, Names
<1>6. \A i \in 1..7 : QueueOptions[i] \notin {"metrics.host", "metrics.port"}
  BY DEF QueueOptions
<1>7. /\ MetricsOptions \in Seq(Names) /\ Len(MetricsOptions) = 2
      /\ MetricsOptions[1] = "metrics.host" /\ MetricsOptions[2] = "metrics.port"
  BY DEF MetricsOptions, Names
<1> QED
  BY <1>1, <1>2, <1>3, <1>4, <1>5, <1>6, <1>7

\* The elements of a concatenation.
LEMMA ConcatParts ==
    ASSUME NEW s \in Seq(Names), NEW t \in Seq(Names)
    PROVE  /\ s \o t \in Seq(Names) /\ Len(s \o t) = Len(s) + Len(t)
           /\ \A i \in 1..Len(s) : (s \o t)[i] = s[i]
           /\ \A i \in 1..Len(t) : (s \o t)[Len(s) + i] = t[i]
OBVIOUS

\* What is in neither part is not in a concatenation.
LEMMA ConcatWithout ==
    ASSUME NEW s \in Seq(Names), NEW t \in Seq(Names), NEW S,
           \A i \in 1..Len(s) : s[i] \notin S,
           \A i \in 1..Len(t) : t[i] \notin S
    PROVE  /\ s \o t \in Seq(Names) /\ Len(s \o t) = Len(s) + Len(t)
           /\ \A i \in 1..Len(s \o t) : (s \o t)[i] \notin S
<1>1. s \o t \in Seq(Names) /\ Len(s \o t) = Len(s) + Len(t)
  OBVIOUS
<1>2. ASSUME NEW i \in 1..Len(s \o t) PROVE (s \o t)[i] \notin S
  <2>1. CASE i <= Len(s)
    BY <2>1
  <2>2. CASE i > Len(s)
    <3>1. i - Len(s) \in 1..Len(t) /\ (s \o t)[i] = t[i - Len(s)]
      BY <2>2
    <3> QED
      BY <3>1
  <2> QED
    BY <2>1, <2>2
<1> QED
  BY <1>1, <1>2

\* metrics.host is the last option but one, metrics.port the last.
LEMMA OptionFacts ==
    /\ OptionList \in Seq(Names) /\ Len(OptionList) = 27
    /\ \A i \in 1..27 : OptionList[i] = "metrics.host" => i = 26
    /\ OptionList[27] = "metrics.port"
    /\ "metrics.host" \in Options
    /\ \A o \in Options : \E i \in 1..27 : OptionList[i] = o
    /\ \A i \in 1..27 : OptionList[i] \in Options
<1> DEFINE M  == {"metrics.host", "metrics.port"}
           g  == << "loglevel", "bitcoinnetwork", "extraeventenabled" >>
           e1 == g \o BTCOptions
           e2 == e1 \o DBOptions
<1>1. g \in Seq(Names) /\ Len(g) = 3 /\ \A i \in 1..3 : g[i] \notin M
  BY DEF Names
<1> HIDE DEF g, M
<1>2. e1 \in Seq(Names) /\ Len(e1) = 12 /\ \A i \in 1..12 : e1[i] \notin M
  <2>1. \A i \in 1..Len(BTCOptions) : BTCOptions[i] \notin M
    BY Zenon, SectionFacts DEF M
  <2>2. e1 \in Seq(Names) /\ Len(e1) = Len(g) + Len(BTCOptions)
        /\ \A i \in 1..Len(e1) : e1[i] \notin M
    BY Zenon, <1>1, <2>1, SectionFacts, ConcatWithout
  <2> HIDE DEF e1
  <2> QED
    BY <1>1, <2>2, SectionFacts
<1> HIDE DEF e1
<1>3. e2 \in Seq(Names) /\ Len(e2) = 18 /\ \A i \in 1..18 : e2[i] \notin M
  <2>1. \A i \in 1..Len(DBOptions) : DBOptions[i] \notin M
    BY Zenon, SectionFacts DEF M
  <2>2. e2 \in Seq(Names) /\ Len(e2) = Len(e1) + Len(DBOptions)
        /\ \A i \in 1..Len(e2) : e2[i] \notin M
    BY Zenon, <1>2, <2>1, SectionFacts, ConcatWithout
  <2> HIDE DEF e2
  <2> QED
    BY <1>2, <2>2, SectionFacts
<1> HIDE DEF e2
<1>4. /\ Earlier \in Seq(Names) /\ Len(Earlier) = 25
      /\ \A i \in 1..25 : Earlier[i] \notin M
  <2>1. \A i \in 1..Len(QueueOptions) : QueueOptions[i] \notin M
    BY Zenon, SectionFacts DEF M
  <2>2. Earlier = e2 \o QueueOptions
    BY DEF Earlier, e2, e1, g
  <2>3. Earlier \in Seq(Names) /\ Len(Earlier) = Len(e2) + Len(QueueOptions)
        /\ \A i \in 1..Len(Earlier) : Earlier[i] \notin M
    BY Zenon, <1>3, <2>1, <2>2, SectionFacts, ConcatWithout
  <2> QED
    BY <1>3, <2>3, SectionFacts
<1>5. OptionList = Earlier \o MetricsOptions
  BY DEF OptionList, Earlier
<1>6. /\ OptionList \in Seq(Names) /\ Len(OptionList) = 27
      /\ OptionList[26] = "metrics.host" /\ OptionList[27] = "metrics.port"
      /\ \A i \in 1..25 : OptionList[i] = Earlier[i]
  <2>1. /\ OptionList \in Seq(Names) /\ Len(OptionList) = 25 + 2
        /\ \A i \in 1..25 : OptionList[i] = Earlier[i]
        /\ \A i \in 1..2 : OptionList[25 + i] = MetricsOptions[i]
    <3>1. /\ MetricsOptions \in Seq(Names) /\ Len(MetricsOptions) = 2
      BY Zenon, SectionFacts
    <3>2. /\ OptionList \in Seq(Names)
          /\ Len(OptionList) = Len(Earlier) + Len(MetricsOptions)
          /\ \A i \in 1..Len(Earlier) : OptionList[i] = Earlier[i]
          /\ \A i \in 1..Len(MetricsOptions) :
                OptionList[Len(Earlier) + i] = MetricsOptions[i]
      <4> DEFINE c == Earlier \o MetricsOptions
      <4>1. /\ c \in Seq(Names) /\ Len(c) = Len(Earlier) + Len(MetricsOptions)
            /\ \A i \in 1..Len(Earlier) : c[i] = Earlier[i]
            /\ \A i \in 1..Len(MetricsOptions) :
                  c[Len(Earlier) + i] = MetricsOptions[i]
        <5>1. Earlier \in Seq(Names)
          BY Zenon, <1>4
        <5> QED
          BY Zenon, <3>1, <5>1, ConcatParts
      <4>2. OptionList = c
        BY Zenon, <1>5
      <4> HIDE DEF c
      <4> QED
        BY Zenon, <4>1, <4>2
    <3>3. Len(Earlier) = 25
      BY <1>4
    <3> QED
      BY Zenon, <3>1, <3>2, <3>3
  <2>2. 1 \in 1..2 /\ 2 \in 1..2 /\ 25 + 1 = 26 /\ 25 + 2 = 27
    OBVIOUS
  <2>3. OptionList[26] = MetricsOptions[1] /\ OptionList[27] = MetricsOptions[2]
    BY <2>1, <2>2
  <2> QED
    BY <2>1, <2>2, <2>3, SectionFacts
<1>7. \A i \in 1..27 : OptionList[i] = "metrics.host" => i = 26
  <2> SUFFICES ASSUME NEW i \in 1..27, OptionList[i] = "metrics.host", i # 26
               PROVE  FALSE
    OBVIOUS
  <2>1. CASE i \in 1..25
    BY Zenon, <1>4, <1>6, <2>1 DEF M
  <2>2. CASE i = 27
    BY <1>6, <2>2
  <2> QED
    BY <2>1, <2>2
<1>8. DOMAIN OptionList = 1..27 /\ Options = {OptionList[i] : i \in 1..27}
  <2>1. DOMAIN OptionList = 1..27
    BY <1>6
  <2>2. Options = {OptionList[i] : i \in DOMAIN OptionList}
    BY Zenon DEF Options, Range
  <2> QED
    BY Zenon, <2>1, <2>2
<1> QED
  BY <1>6, <1>7, <1>8

----------------------------------------------------------------------------

\* sid.conf after the first n options are written.
Prefix(n) ==
    [o \in Options |-> IF \E i \in 1..n : OptionList[i] = o
                       THEN DefaultConfig[o] ELSE Missing]

\* A file that the operator has not touched is a prefix of the defaults.
HomeInv ==
    /\ written \in 0..27
    /\ step = "write" => written < 27 /\ file # NoFile
    /\ edits \in Nat
    /\ edits = 0 /\ file # NoFile => file = Prefix(written)
    /\ StartsOnDefaults

\* What a prefix of the options holds, and how the next option extends it.
LEMMA PrefixFacts ==
    /\ Prefix(0) = Empty
    /\ \A n \in 0..26 :
          Prefix(n + 1) = [Prefix(n) EXCEPT ![OptionList[n + 1]] =
                                               DefaultConfig[OptionList[n + 1]]]
    /\ \A n \in 0..27 : Prefix(n) # NoFile
<1>1. Prefix(0) = Empty
  BY DEF Prefix, Empty
<1>2. ASSUME NEW n \in 0..26
      PROVE  Prefix(n + 1) = [Prefix(n) EXCEPT ![OptionList[n + 1]] =
                                               DefaultConfig[OptionList[n + 1]]]
  <2> DEFINE f == Prefix(n + 1)
             g == [Prefix(n) EXCEPT ![OptionList[n + 1]] =
                                               DefaultConfig[OptionList[n + 1]]]
  <2>1. OptionList[n + 1] \in Options
    <3>1. n + 1 \in 1..27
      OBVIOUS
    <3> QED
      BY Zenon, <3>1, OptionFacts
  <2>2. ASSUME NEW o \in Options PROVE f[o] = g[o]
    <3>1. (\E i \in 1..(n + 1) : OptionList[i] = o)
             <=> (\E i \in 1..n : OptionList[i] = o) \/ OptionList[n + 1] = o
      <4>1. \A i : i \in 1..(n + 1) <=> i \in 1..n \/ i = n + 1
        OBVIOUS
      <4> QED
        BY Zenon, <4>1
    <3>2. CASE o = OptionList[n + 1]
      BY <2>1, <3>1, <3>2 DEF Prefix
    <3>3. CASE o # OptionList[n + 1]
      BY <2>1, <3>1, <3>3 DEF Prefix
    <3> QED
      BY <3>2, <3>3
  <2>3. f = [o \in Options |-> f[o]] /\ g = [o \in Options |-> g[o]]
    BY Zenon, <2>1 DEF Prefix
  <2> HIDE DEF f, g
  <2>4. f = g
    BY <2>2, <2>3
  <2> QED
    BY <2>4 DEF f, g
<1>3. ASSUME NEW n \in 0..27 PROVE Prefix(n) # NoFile
  <2>1. "metrics.host" \in Options
    BY OptionFacts
  <2>2. Prefix(n)["metrics.host"] \in {"zero", "set", Missing}
    BY <2>1 DEF Prefix, DefaultConfig
  <2>3. NoFile["metrics.host"] = "no file"
    BY <2>1 DEF NoFile
  <2> QED
    BY Zenon, <2>2, <2>3 DEF Missing
<1> QED
  BY <1>1, <1>2, <1>3

\* A prefix that Validate accepts lacks at most the metrics port.
LEMMA AcceptedPrefix ==
    ASSUME NEW n \in 0..27, Validate(Parsed(Prefix(n))),
           NEW o \in Options \ {"metrics.port"}
    PROVE  Parsed(Prefix(n))[o] = DefaultConfig[o]
<1>1. Prefix(n)["metrics.host"] # Missing
  <2>1. "metrics.host" \in Options
    BY OptionFacts
  <2>2. Parsed(Prefix(n))["metrics.host"] # "zero"
    BY DEF Validate, ValidMetrics, NoneZero
  <2> QED
    BY <2>1, <2>2 DEF Parsed
<1>2. PICK i \in 1..n : OptionList[i] = "metrics.host"
  BY <1>1, OptionFacts DEF Prefix
<1>3. n >= 26
  <2>1. i \in 1..27
    BY <1>2
  <2>2. i = 26
    BY Zenon, <1>2, <2>1, OptionFacts
  <2> QED
    BY <2>2
<1>4. PICK j \in 1..27 : OptionList[j] = o
  BY OptionFacts
<1>5. j \in 1..n
  <2>1. j # 27
    BY <1>4, OptionFacts
  <2> QED
    BY <1>3, <2>1
<1>6. Prefix(n)[o] = DefaultConfig[o]
  BY <1>4, <1>5 DEF Prefix
<1>7. DefaultConfig[o] # Missing
  BY DEF DefaultConfig, Missing
<1> QED
  BY <1>6, <1>7 DEF Parsed

\* Every step keeps the invariant.
LEMMA NextHome == HomeInv /\ [HomeNext]_homeVars => HomeInv'
<1> SUFFICES ASSUME HomeInv, [HomeNext]_homeVars PROVE HomeInv'
  OBVIOUS
<1>1. CASE UNCHANGED homeVars
  BY <1>1 DEF homeVars, HomeInv, StartsOnDefaults
<1>2. ASSUME NEW force \in BOOLEAN, InitHome(force) PROVE HomeInv'
  BY Zenon, <1>2 DEF InitHome, HomeInv, StartsOnDefaults, Idle
<1>3. CASE MakeDirectory
  <2>1. step' # "write"
    BY <1>3 DEF MakeDirectory, After
  <2> QED
    BY <1>3, <2>1 DEF MakeDirectory, HomeInv, StartsOnDefaults
<1>4. CASE CreateFile
  <2>1. file' = Prefix(0) /\ Prefix(0) # NoFile /\ written' = 0
    BY <1>4, PrefixFacts DEF CreateFile
  <2> QED
    BY SMTT(30), <1>4, <2>1 DEF CreateFile, HomeInv, StartsOnDefaults
<1>5. CASE WriteOption
  <2> DEFINE o == OptionList[written + 1]
  <2>1. /\ step = "write" /\ written \in 0..26 /\ written' = written + 1
        /\ file' = [file EXCEPT ![o] = DefaultConfig[o]]
        /\ UNCHANGED <<running, edits>>
        /\ \/ step' = "none" /\ result' = "initialized" /\ written' = 27
           \/ UNCHANGED <<step, result>> /\ written' # 27
    <3>1. Len(OptionList) = 27
      BY OptionFacts
    <3>2. step = "write" /\ written \in 0..26
      BY <1>5 DEF WriteOption, HomeInv
    <3> QED
      BY Zenon, <1>5, <3>1, <3>2 DEF WriteOption
  <2>2. edits = 0 => file' = Prefix(written + 1)
    BY Zenon, <2>1, PrefixFacts DEF HomeInv
  <2>3. file' # NoFile
    <3>1. o \in Options
      <4>1. written + 1 \in 1..27
        BY <2>1
      <4> QED
        BY Zenon, <4>1, OptionFacts
    <3>2. CASE DOMAIN file = Options
      <4>1. file'[o] \in {"zero", "set"}
        BY <2>1, <3>1, <3>2 DEF DefaultConfig
      <4>2. NoFile[o] = "no file"
        BY Zenon, <3>1 DEF NoFile
      <4> QED
        BY Zenon, <4>1, <4>2
    <3>3. CASE DOMAIN file # Options
      BY Zenon, <2>1, <3>3 DEF NoFile
    <3> QED
      BY <3>2, <3>3
  <2>4. StartsOnDefaults'
    BY <2>1 DEF HomeInv, StartsOnDefaults
  <2>5. written' \in 0..27 /\ (step' = "write" => written' < 27)
    BY <2>1
  <2> QED
    BY Zenon, <2>1, <2>2, <2>3, <2>4, <2>5 DEF HomeInv
<1>6. CASE Crash
  BY <1>6 DEF Crash, HomeInv, StartsOnDefaults
<1>7. ASSUME NEW o \in Options, NEW v, Edit(o, v) PROVE HomeInv'
  <2>1. edits' # 0 /\ edits' \in Nat /\ step' = "none" /\ UNCHANGED written
    BY <1>7 DEF Edit, HomeInv, Idle
  <2> QED
    BY <2>1 DEF HomeInv, StartsOnDefaults
<1>8. CASE Start
  <2>1. step = "none" /\ UNCHANGED <<file, step, written, edits>>
    BY Zenon, <1>8 DEF Start, Idle
  <2>2. StartsOnDefaults'
    <3> SUFFICES ASSUME result' = "started", edits = 0,
                        NEW o \in Options \ {"metrics.port"}
                 PROVE  running'[o] = DefaultConfig[o]
      BY <2>1 DEF StartsOnDefaults
    <3>1. LoadConfig(file) = "loaded" /\ running' = Parsed(file)
      BY <1>8 DEF Start, LoadConfig
    <3>2. file # NoFile /\ Validate(Parsed(file))
      BY <3>1 DEF LoadConfig
    <3>3. file = Prefix(written) /\ written \in 0..27
      BY <3>2 DEF HomeInv
    <3> QED
      BY Zenon, <3>1, <3>2, <3>3, AcceptedPrefix
  <2> QED
    BY <2>1, <2>2 DEF HomeInv
<1> QED
  BY Zenon, <1>1, <1>2, <1>3, <1>4, <1>5, <1>6, <1>7, <1>8 DEF HomeNext

\* For any number of runs, interruptions and edits: a start on a sid.conf that
\* the operator has not touched (initHome alone wrote it, in part or in full)
\* runs with the defaults but for the metrics port, the last line of the file.
THEOREM HomeStartsOnDefaults == HomeSpec => []StartsOnDefaults
<1>1. HomeInit => HomeInv
  BY DEF HomeInit, HomeInv, StartsOnDefaults
<1>2. HomeInv => StartsOnDefaults
  BY DEF HomeInv
<1> QED
  BY <1>1, <1>2, NextHome, PTL DEF HomeSpec

----------------------------------------------------------------------------
(* sid start: the deferred calls and the goroutines.                       *)

\* The calls that RunUntilShutdown defers, in its order.
Stack == <<"db", "prometheus", "notifier", "queue", "indexer">>

\* How many are deferred when main starts the indexer, and when it has.
StackOK ==
    /\ Len(defers) \in 0..5
    /\ \A i \in 1..Len(defers) : defers[i] = Stack[i]
    /\ main = "start" => Len(defers) = 0 /\ built < Len(Components)
    /\ \A i \in 1..4 : main = Stack[i] => Len(defers) = i - 1
    /\ main \in {"indexer", "activation", "bootstrap", "bootstrap_send"} =>
          Len(defers) = 4
    /\ main \in {"wait", "indexer_wait", "poller_wait"} => Len(defers) = 5

\* What has been stopped is off the stack.
StoppedOK ==
    \A i \in 1..4 :
        service[Stack[i]] = "stopped" => main = "return" /\ i > Len(defers)

\* The goroutines: the poller's loop exists between the end of the start and
\* si.Stop, and the event loop has ended when the poller is stopped.
GoroutinesOK ==
    /\ loop # "handle" => blocks = 0
    /\ main \in {"start", "indexer"} \cup Range(Services) => loop = "none"
    /\ failed => main = "return" /\ Len(defers) < 5 /\ poller = "none"
    /\ main \notin {"wait", "indexer_wait", "poller_wait", "return"} =>
          poller = "none"
    /\ main = "poller_wait" => loop = "done"
    /\ main = "return" /\ Len(defers) < 5 /\ ~failed =>
          loop = "done" /\ poller = "done"

LifeInv == TypeOK /\ StackOK /\ StoppedOK /\ GoroutinesOK

----------------------------------------------------------------------------

LEMMA StackFacts ==
    /\ Stack[1] = "db" /\ Stack[2] = "prometheus" /\ Stack[3] = "notifier"
    /\ Stack[4] = "queue" /\ Stack[5] = "indexer"
    /\ \A i \in 1..5 : Stack[i] = "indexer" <=> i = 5
    /\ Len(Services) = 4
    /\ \A i \in 1..4 : Services[i] = Stack[i]
    /\ Range(Services) = {"db", "prometheus", "notifier", "queue"}
    /\ Len(Components) = 11
<1>1. /\ Stack[1] = "db" /\ Stack[2] = "prometheus" /\ Stack[3] = "notifier"
      /\ Stack[4] = "queue" /\ Stack[5] = "indexer"
  BY DEF Stack
<1>2. /\ Len(Services) = 4
      /\ Services[1] = "db" /\ Services[2] = "prometheus"
      /\ Services[3] = "notifier" /\ Services[4] = "queue"
  BY DEF Services
<1>3. \A i \in 1..4 : i = 1 \/ i = 2 \/ i = 3 \/ i = 4
  OBVIOUS
<1>4. \A i \in 1..4 : Services[i] = Stack[i]
  BY <1>1, <1>2, <1>3
<1>5. Range(Services) = {Services[i] : i \in 1..4}
  BY <1>2 DEF Range, Services
<1>6. Range(Services) = {"db", "prometheus", "notifier", "queue"}
  BY <1>2, <1>3, <1>5
<1>7. Len(Components) = 11
  BY DEF Components
<1>8. \A i \in 1..5 : Stack[i] = "indexer" <=> i = 5
  <2>1. \A i \in 1..5 : i = 1 \/ i = 2 \/ i = 3 \/ i = 4 \/ i = 5
    OBVIOUS
  <2> QED
    BY <1>1, <2>1
<1> QED
  BY <1>1, <1>2, <1>4, <1>6, <1>7, <1>8

\* The deferred call that comes off next.
LEMMA PopFacts ==
    ASSUME TypeOK, StackOK, defers # <<>>
    PROVE  /\ Len(defers) \in 1..5
           /\ Deferred = Stack[Len(defers)]
           /\ SubSeq(defers, 1, Len(defers) - 1) \in Seq(Range(Services) \cup {"indexer"})
           /\ Len(SubSeq(defers, 1, Len(defers) - 1)) = Len(defers) - 1
           /\ \A i \in 1..(Len(defers) - 1) : SubSeq(defers, 1, Len(defers) - 1)[i] = Stack[i]
<1> DEFINE S == Range(Services) \cup {"indexer"}
<1>1. defers \in Seq(S)
  BY DEF TypeOK
<1> HIDE DEF S
<1>2. Len(defers) \in 1..5
  BY <1>1 DEF StackOK
<1>3. Deferred = Stack[Len(defers)]
  BY <1>2 DEF Deferred, StackOK
<1>4. /\ SubSeq(defers, 1, Len(defers) - 1) \in Seq(S) /\ Len(SubSeq(defers, 1, Len(defers) - 1)) = Len(defers) - 1
      /\ \A i \in 1..(Len(defers) - 1) : SubSeq(defers, 1, Len(defers) - 1)[i] = defers[i]
  BY <1>1, <1>2
<1>5. \A i \in 1..(Len(defers) - 1) : SubSeq(defers, 1, Len(defers) - 1)[i] = Stack[i]
  BY <1>2, <1>4 DEF StackOK
<1> QED
  BY Zenon, <1>2, <1>3, <1>4, <1>5 DEF S

\* The state of the services and of the stack is not touched, and main is not
\* moved.
LEMMA Untouched ==
    ASSUME LifeInv, UNCHANGED <<main, built, defers, service>>
    PROVE  StackOK' /\ StoppedOK'
BY DEF LifeInv, StackOK, StoppedOK

----------------------------------------------------------------------------
(* One lemma per group of actions.                                         *)

LEMMA ConstructInv == LifeInv /\ Construct => LifeInv'
<1> SUFFICES ASSUME LifeInv, Construct PROVE LifeInv'
  OBVIOUS
<1>1. TypeOK'
  <2>1. built' \in 0..Len(Components)
    BY StackFacts DEF LifeInv, TypeOK, StackOK, Construct
  <2>2. main' \in {"start"} \cup Range(Services)
    BY StackFacts DEF Construct
  <2> QED
    BY <2>1, <2>2 DEF LifeInv, TypeOK, Construct, goroutines, quits, env
<1>2. /\ main' \in {"start", "db"} /\ Len(defers) = 0
      /\ main' = "start" => built' # Len(Components)
      /\ UNCHANGED <<defers, service>>
  BY StackFacts DEF LifeInv, StackOK, Construct
<1>3. StackOK'
  BY <1>1, <1>2, StackFacts DEF LifeInv, StackOK, TypeOK
<1>4. StoppedOK' /\ GoroutinesOK'
  BY <1>2, StackFacts
  DEF LifeInv, StoppedOK, GoroutinesOK, Construct, goroutines
<1> QED
  BY <1>1, <1>3, <1>4 DEF LifeInv

LEMMA StartServiceInv == LifeInv /\ StartService => LifeInv'
<1> SUFFICES ASSUME LifeInv, StartService PROVE LifeInv'
  OBVIOUS
<1>1. PICK i \in 1..4 :
          /\ Running /\ main = Stack[i]
          /\ service' = [service EXCEPT ![main] = "started"]
          /\ defers' = Append(defers, main)
          /\ main' = IF i < 4 THEN Stack[i + 1] ELSE "indexer"
          /\ UNCHANGED <<built, failed, goroutines, quits, env, exit>>
  BY StackFacts DEF StartService
<1>2. main \in Range(Services) /\ main' \in Range(Services) \cup {"indexer"}
  BY <1>1, StackFacts
<1>3. TypeOK'
  <2>1. defers' \in Seq(Range(Services) \cup {"indexer"})
    BY <1>1, <1>2 DEF LifeInv, TypeOK
  <2>2. service' \in [Range(Services) -> {"new", "started", "stopped"}]
    BY <1>1, <1>2 DEF LifeInv, TypeOK
  <2> QED
    BY <1>1, <1>2, <2>1, <2>2 DEF LifeInv, TypeOK, goroutines, quits, env
<1>4. Len(defers) = i - 1
  BY <1>1 DEF LifeInv, StackOK
<1>5. /\ Len(defers') = i
      /\ \A j \in 1..i : defers'[j] = Stack[j]
  <2>1. defers \in Seq(Range(Services) \cup {"indexer"})
    BY DEF LifeInv, TypeOK
  <2>2. \A j \in 1..(i - 1) : defers[j] = Stack[j]
    BY <1>4 DEF LifeInv, StackOK
  <2> QED
    BY SMTT(30), <1>1, <1>2, <1>4, <2>1, <2>2
<1>6. StackOK'
  BY <1>1, <1>5, StackFacts DEF StackOK
<1>7. StoppedOK'
  <2>1. \A j \in 1..4 : service[Stack[j]] # "stopped"
    BY <1>1, StackFacts DEF LifeInv, StoppedOK
  <2>2. \A j \in 1..4 : service'[Stack[j]] # "stopped"
    BY <1>1, <1>2, <2>1, StackFacts DEF LifeInv, TypeOK
  <2> QED
    BY <2>2 DEF StoppedOK
<1>8. GoroutinesOK'
  BY <1>1, StackFacts DEF LifeInv, GoroutinesOK, goroutines
<1> QED
  BY <1>3, <1>6, <1>7, <1>8 DEF LifeInv

\* The steps of main inside StakingIndexer.Start.
LEMMA StartIndexerInv ==
    LifeInv /\ (StartIndexer \/ AwaitActivation \/ BootstrapCommits) => LifeInv'
<1> SUFFICES ASSUME LifeInv, StartIndexer \/ AwaitActivation \/ BootstrapCommits
             PROVE  LifeInv'
  OBVIOUS
<1>1. /\ main \in {"indexer", "activation", "bootstrap"}
      /\ main' \in {"activation", "bootstrap", "bootstrap_send"}
      /\ UNCHANGED <<built, defers, failed, service, blocks, poller, siQuit,
                     bsQuit, signal, active, exit>>
      /\ loop' = loop \/ (main = "indexer" /\ loop' = "select")
      /\ updates' = updates \/ (updates < MaxUpdates /\ updates' = updates + 1)
  <2>1. CASE StartIndexer
    BY <2>1 DEF StartIndexer, server, quits, env
  <2>2. CASE AwaitActivation
    BY <2>2 DEF AwaitActivation, server, goroutines, quits, env
  <2>3. CASE BootstrapCommits
    BY <2>3 DEF BootstrapCommits, server, quits, env
  <2> QED
    BY <2>1, <2>2, <2>3
<1>2. TypeOK'
  BY <1>1, LifecycleAssumption
  DEF LifeInv, TypeOK
<1>3. StackOK'
  BY <1>1, StackFacts DEF LifeInv, StackOK
<1>4. StoppedOK'
  BY <1>1 DEF LifeInv, StoppedOK
<1>5. GoroutinesOK'
  BY <1>1, StackFacts DEF LifeInv, GoroutinesOK
<1> QED
  BY Zenon, <1>2, <1>3, <1>4, <1>5 DEF LifeInv

\* Bootstrap ends: the indexer's call goes on the stack.
LEMMA BootstrapEndsInv == LifeInv /\ BootstrapEnds => LifeInv'
<1> SUFFICES ASSUME LifeInv, BootstrapEnds PROVE LifeInv'
  OBVIOUS
<1>1. /\ main = "bootstrap" /\ main' = "wait" /\ poller' = "register"
      /\ defers' = Append(defers, "indexer")
      /\ UNCHANGED <<built, failed, service, loop, blocks, updates, siQuit,
                    bsQuit, signal, active, exit>>
  BY DEF BootstrapEnds, quits, env
<1>2. defers \in Seq(Range(Services) \cup {"indexer"})
  BY DEF LifeInv, TypeOK
<1>3. /\ Len(defers) = 4
      /\ \A i \in 1..4 : defers[i] = Stack[i]
  BY <1>1 DEF LifeInv, StackOK
<1>4. /\ Len(defers') = 5 /\ \A i \in 1..5 : defers'[i] = Stack[i]
      /\ defers' \in Seq(Range(Services) \cup {"indexer"})
  <2> DEFINE S == Range(Services) \cup {"indexer"}
  <2>1. "indexer" \in S /\ defers \in Seq(S)
    BY <1>2
  <2> HIDE DEF S
  <2>2. /\ defers' \in Seq(S) /\ Len(defers') = 5
        /\ \A i \in 1..4 : defers'[i] = defers[i]
        /\ defers'[5] = "indexer"
    <3>1. /\ defers' \in Seq(S) /\ Len(defers') = Len(defers) + 1
          /\ \A i \in 1..Len(defers) : defers'[i] = defers[i]
          /\ defers'[Len(defers) + 1] = "indexer"
      BY <1>1, <2>1
    <3> QED
      BY <1>3, <3>1
  <2>3. \A i \in 1..5 : i \in 1..4 \/ i = 5
    OBVIOUS
  <2>4. \A i \in 1..5 : defers'[i] = Stack[i]
    BY <1>3, <2>2, <2>3, StackFacts
  <2> QED
    BY <2>2, <2>4 DEF S
<1>5. TypeOK'
  BY <1>1, <1>4 DEF LifeInv, TypeOK
<1>6. StackOK'
  BY SMTT(30), <1>1, <1>4, StackFacts DEF StackOK
<1>7. StoppedOK'
  BY <1>1 DEF LifeInv, StoppedOK
<1>8. GoroutinesOK'
  BY <1>1, StackFacts DEF LifeInv, GoroutinesOK
<1> QED
  BY <1>5, <1>6, <1>7, <1>8 DEF LifeInv

\* RunUntilShutdown begins to return, on an error or on a signal.
LEMMA ReturnInv == LifeInv /\ (StartFails \/ Shutdown) => LifeInv'
<1> SUFFICES ASSUME LifeInv, StartFails \/ Shutdown PROVE LifeInv'
  OBVIOUS
<1>1. /\ main' = "return"
      /\ UNCHANGED <<built, defers, service, goroutines, quits, env, exit>>
      /\ \/ /\ main \in {"prometheus", "notifier", "queue", "activation",
                         "bootstrap"}
            /\ failed' = TRUE
         \/ main = "wait" /\ failed' = failed
  BY DEF StartFails, Shutdown, server
<1>2. TypeOK'
  BY Zenon, <1>1 DEF LifeInv, TypeOK, goroutines, quits, env
<1>3. StackOK'
  BY <1>1, StackFacts DEF LifeInv, StackOK
<1>4. StoppedOK'
  BY <1>1 DEF LifeInv, StoppedOK
<1>5. GoroutinesOK'
  <2>1. CASE main = "wait" /\ failed' = failed
    <3>1. Len(defers') = 5 /\ ~failed' /\ UNCHANGED <<loop, blocks>>
      BY <1>1, <2>1 DEF LifeInv, StackOK, GoroutinesOK, goroutines
    <3> QED
      BY <1>1, <3>1, StackFacts DEF LifeInv, GoroutinesOK
  <2>2. CASE main # "wait"
    <3>1. Len(defers) < 5
      <4>1. CASE main \in {"activation", "bootstrap"}
        BY <4>1 DEF LifeInv, StackOK
      <4>2. CASE main \in {Stack[2], Stack[3], Stack[4]}
        BY <4>2 DEF LifeInv, StackOK
      <4> QED
        BY <1>1, <2>2, <4>1, <4>2, StackFacts
    <3> QED
      BY Zenon, <1>1, <2>2, <3>1, StackFacts
      DEF LifeInv, GoroutinesOK, goroutines
  <2> QED
    BY Zenon, <1>1, <2>1, <2>2
<1> QED
  BY Zenon, <1>2, <1>3, <1>4, <1>5 DEF LifeInv

\* si.Stop: quit is closed, the event loop and then the poller's are awaited.
LEMMA StopIndexerInv ==
    LifeInv /\ (StopIndexer \/ StopPoller) => LifeInv'
<1> SUFFICES ASSUME LifeInv, StopIndexer \/ StopPoller PROVE LifeInv'
  OBVIOUS
<1>1. /\ UNCHANGED <<built, defers, failed, service, loop, blocks, poller,
                    updates, signal, active, exit>>
      /\ siQuit' \in BOOLEAN /\ bsQuit' \in BOOLEAN
      /\ \/ main = "return" /\ Deferred = "indexer" /\ main' = "indexer_wait"
         \/ main = "indexer_wait" /\ loop = "done" /\ main' = "poller_wait"
  BY Zenon DEF LifeInv, TypeOK, StopIndexer, StopPoller, LoopEnded, server,
         goroutines, env
<1>2. Len(defers) = 5
  <2>1. CASE main = "return" /\ Deferred = "indexer"
    <3>1. defers # <<>>
      BY <2>1 DEF Deferred
    <3>2. Len(defers) \in 1..5 /\ Stack[Len(defers)] = "indexer"
      BY Zenon, <2>1, <3>1, PopFacts DEF LifeInv
    <3> QED
      BY Zenon, <3>2, StackFacts
  <2>2. CASE main = "indexer_wait"
    BY Zenon, <2>2 DEF LifeInv, StackOK
  <2> QED
    BY <1>1, <2>1, <2>2
<1>3. TypeOK'
  BY <1>1 DEF LifeInv, TypeOK
<1>4. StackOK'
  BY <1>1, <1>2, StackFacts DEF LifeInv, StackOK
<1>5. StoppedOK'
  BY <1>1, <1>2 DEF LifeInv, StoppedOK
<1>6. GoroutinesOK'
  BY SMTT(30), <1>1, <1>2, StackFacts DEF LifeInv, GoroutinesOK
<1> QED
  BY <1>3, <1>4, <1>5, <1>6 DEF LifeInv

\* A deferred call ends: it comes off the stack.
LEMMA PopInv == LifeInv /\ (PollerStopped \/ StopService) => LifeInv'
<1> SUFFICES ASSUME LifeInv, PollerStopped \/ StopService PROVE LifeInv'
  OBVIOUS
<1>1. /\ main' = "return" /\ defers' = SubSeq(defers, 1, Len(defers) - 1)
      /\ UNCHANGED <<built, failed, loop, blocks, poller, updates, siQuit,
                    bsQuit, signal, active, exit>>
      /\ \/ /\ main = "poller_wait" /\ poller = "done" /\ service' = service
         \/ /\ main = "return" /\ Deferred \in Range(Services)
            /\ service' = [service EXCEPT ![Deferred] = "stopped"]
  BY DEF PollerStopped, StopService, goroutines, quits, env
<1>2. defers # <<>>
  <2>1. CASE main = "poller_wait"
    BY <2>1 DEF LifeInv, StackOK
  <2>2. CASE Deferred \in Range(Services)
    BY <2>2, StackFacts DEF Deferred
  <2> QED
    BY <1>1, <2>1, <2>2
<1> DEFINE n == Len(defers)
<1>3. /\ n \in 1..5 /\ Deferred = Stack[n]
      /\ defers' \in Seq(Range(Services) \cup {"indexer"})
      /\ Len(defers') = n - 1
      /\ \A i \in 1..(n - 1) : defers'[i] = Stack[i]
  BY <1>1, <1>2, PopFacts DEF LifeInv
<1>4. \/ n = 5 /\ main = "poller_wait" /\ poller = "done" /\ service' = service
      \/ /\ n \in 1..4 /\ main = "return"
         /\ service' = [service EXCEPT ![Stack[n]] = "stopped"]
  <2>1. CASE main = "poller_wait"
    BY Zenon, <1>1, <2>1 DEF LifeInv, StackOK
  <2>2. CASE main = "return"
    <3>1. Deferred # "indexer"
      BY <1>1, <2>2, StackFacts
    <3>2. n \in 1..4
      <4> HIDE DEF n
      <4>1. n \in 1..5 /\ Stack[n] # "indexer"
        BY <1>3, <3>1
      <4>2. n # 5
        BY <4>1, StackFacts
      <4> QED
        BY <4>1, <4>2
    <3> QED
      BY Zenon, <1>1, <1>3, <2>2, <3>2
  <2> QED
    BY <1>1, <2>1, <2>2
<1> HIDE DEF n
<1>5. TypeOK'
  <2>1. service' \in [Range(Services) -> {"new", "started", "stopped"}]
    BY Zenon, <1>4 DEF LifeInv, TypeOK
  <2> QED
    BY <1>1, <1>3, <2>1 DEF LifeInv, TypeOK
<1>6. StackOK'
  BY <1>1, <1>3, StackFacts DEF LifeInv, StackOK
<1>7. StoppedOK'
  <2>1. SUFFICES ASSUME NEW i \in 1..4, service'[Stack[i]] = "stopped"
                 PROVE  i > n - 1
    BY <1>1, <1>3 DEF StoppedOK
  <2>2. CASE service' = service
    BY <1>3, <2>1, <2>2 DEF LifeInv, StoppedOK, n
  <2>3. CASE n \in 1..4 /\ service' = [service EXCEPT ![Stack[n]] = "stopped"]
    <3>1. CASE i = n
      BY <1>3, <3>1
    <3>2. CASE i # n
      <4>1. Stack[i] # Stack[n]
        BY <2>3, <3>2, StackFacts
      <4>2. service[Stack[i]] = "stopped"
        BY SMTT(30), <2>1, <2>3, <4>1, StackFacts DEF LifeInv, TypeOK
      <4> QED
        BY <1>3, <4>2 DEF LifeInv, StoppedOK, n
    <3> QED
      BY <3>1, <3>2
  <2> QED
    BY <1>4, <2>2, <2>3
<1>8. GoroutinesOK'
  BY <1>1, <1>3, <1>4, StackFacts DEF LifeInv, GoroutinesOK, n
<1> QED
  BY <1>5, <1>6, <1>7, <1>8 DEF LifeInv

\* The event loop and the poller.
LEMMA GoroutineInv ==
    LifeInv /\ (Loop \/ Poller \/ PollerCommits) => LifeInv'
<1> SUFFICES ASSUME LifeInv, Loop \/ Poller \/ PollerCommits PROVE LifeInv'
  OBVIOUS
<1> USE DEF server, goroutines, quits, env
<1>1. CASE Receive
  <2>1. /\ UNCHANGED <<built, defers, failed, service, updates, siQuit, bsQuit,
                      signal, active, exit>>
        /\ loop = "select" /\ loop' = "handle" /\ blocks' \in 0..MaxBlocks
        /\ \/ main = "bootstrap_send" /\ main' = "bootstrap" /\ poller' = poller
           \/ poller = "send" /\ poller' = "idle" /\ main' = main
    BY Zenon, <1>1 DEF Receive
  <2>2. TypeOK'
    BY <2>1 DEF LifeInv, TypeOK
  <2>3. StackOK'
    BY <2>1, StackFacts DEF LifeInv, StackOK
  <2>4. StoppedOK'
    BY <2>1 DEF LifeInv, StoppedOK
  <2>5. GoroutinesOK'
    BY <2>1, StackFacts DEF LifeInv, GoroutinesOK
  <2> QED
    BY <2>2, <2>3, <2>4, <2>5 DEF LifeInv
<1>2. CASE HandleConfirmedBlock
  <2>1. /\ UNCHANGED <<main, built, defers, failed, service, loop, poller,
                      updates, siQuit, bsQuit, signal, active>>
        /\ loop = "handle" /\ blocks > 0
        /\ \/ blocks' = blocks - 1 /\ exit' = exit
           \/ blocks' = blocks /\ exit' = "block_failed"
    BY Zenon, <1>2 DEF HandleConfirmedBlock, BlocksLeft
  <2>2. TypeOK'
    BY <2>1, LifecycleAssumption DEF LifeInv, TypeOK
  <2>3. GoroutinesOK'
    BY <2>1 DEF LifeInv, GoroutinesOK
  <2> QED
    BY <2>1, <2>2, <2>3, Untouched DEF LifeInv
<1>3. CASE ProcessUnconfirmedInfo \/ LoopQuits
  <2>1. /\ UNCHANGED <<main, built, defers, failed, service, blocks, poller,
                      updates, siQuit, bsQuit, signal, active, exit>>
        /\ \/ loop = "handle" /\ ~(blocks > 0) /\ loop' = "select"
           \/ loop = "select" /\ loop' = "done"
    BY <1>3 DEF ProcessUnconfirmedInfo, LoopQuits, BlocksLeft
  <2>2. TypeOK'
    BY <2>1 DEF LifeInv, TypeOK
  <2>3. blocks \in 0..MaxBlocks
    BY DEF LifeInv, TypeOK
  <2>4. GoroutinesOK'
    BY SMTT(30), <2>1, <2>3, LifecycleAssumption, StackFacts
    DEF LifeInv, GoroutinesOK
  <2> QED
    BY SMTT(30), <2>1, <2>2, <2>4, Untouched DEF LifeInv
<1>4. CASE Poller \/ PollerCommits
  <2>1. /\ UNCHANGED <<main, built, defers, failed, service, loop, blocks,
                      siQuit, bsQuit, signal, active, exit>>
        /\ poller \in {"register", "idle", "send"}
        /\ poller' \in {"idle", "send", "done"}
        /\ updates' = updates \/ (updates < MaxUpdates /\ updates' = updates + 1)
    BY Zenon, <1>4 DEF Poller, PollerCommits, Register, DropUpdate, SendGivenUp,
                PollerQuits
  <2>2. TypeOK'
    <3>1. updates \in 0..MaxUpdates /\ TypeOK
      BY Zenon DEF LifeInv, TypeOK
    <3>2. updates' \in 0..MaxUpdates
      BY <2>1, <3>1, LifecycleAssumption
    <3>3. poller' \in {"none", "register", "idle", "send", "done"}
      BY <2>1
    <3> QED
      BY Zenon, <2>1, <3>1, <3>2, <3>3 DEF TypeOK
  <2>3. GoroutinesOK'
    BY <2>1, StackFacts DEF LifeInv, GoroutinesOK
  <2> QED
    BY Zenon, <2>1, <2>2, <2>3, Untouched DEF LifeInv
<1> QED
  BY <1>1, <1>2, <1>3, <1>4 DEF Loop

\* The end of the process and its environment.
LEMMA EnvironmentInv ==
    ASSUME LifeInv,
           \/ ConstructFails \/ RegisterFails \/ ListenFails \/ Return
           \/ Signal \/ Activate \/ UNCHANGED vars
    PROVE  LifeInv'
<1>1. /\ UNCHANGED <<main, built, defers, failed, service, loop, blocks, poller,
                    updates, siQuit, bsQuit>>
      /\ signal' = signal \/ signal' = TRUE
      /\ active' = active \/ active' = TRUE
      /\ exit' = exit \/ exit' \in {"ok", "error", "fatal", "panic"}
  BY Zenon
  DEF ConstructFails, RegisterFails, ListenFails, Return, Signal, Activate,
         vars, server, goroutines, quits, env
<1>2. TypeOK'
  <2>1. {siQuit', bsQuit', signal', active'} \subseteq BOOLEAN
    BY Zenon, <1>1 DEF LifeInv, TypeOK
  <2>2. exit' \in {"no", "ok", "error", "fatal", "panic", "block_failed"}
    BY <1>1 DEF LifeInv, TypeOK
  <2> QED
    BY <1>1, <2>1, <2>2 DEF LifeInv, TypeOK
<1>3. GoroutinesOK'
  BY <1>1 DEF LifeInv, GoroutinesOK
<1> QED
  BY Zenon, <1>1, <1>2, <1>3, Untouched DEF LifeInv

\* The invariant holds in every state.
LEMMA LifeInvariant == Spec => []LifeInv
<1>1. Init => LifeInv
  <2> SUFFICES ASSUME Init PROVE LifeInv
    OBVIOUS
  <2>1. TypeOK
    <3>1. /\ built \in 0..Len(Components)
          /\ blocks \in 0..MaxBlocks /\ updates \in 0..MaxUpdates
      BY StackFacts, LifecycleAssumption DEF Init
    <3>2. defers \in Seq(Range(Services) \cup {"indexer"})
      BY DEF Init
    <3>3. service \in [Range(Services) -> {"new", "started", "stopped"}]
      BY DEF Init
    <3>4. {siQuit, bsQuit, signal, active} \subseteq BOOLEAN
      BY Zenon DEF Init
    <3> QED
      BY Zenon, <3>1, <3>2, <3>3, <3>4 DEF Init, TypeOK
  <2>2. StackOK /\ StoppedOK
    BY StackFacts DEF Init, StackOK, StoppedOK
  <2>3. GoroutinesOK
    BY DEF Init, GoroutinesOK
  <2> QED
    BY <2>1, <2>2, <2>3 DEF LifeInv
<1>2. LifeInv /\ [Next]_vars => LifeInv'
  BY Zenon, ConstructInv, StartServiceInv, StartIndexerInv,
     BootstrapEndsInv,
     ReturnInv, StopIndexerInv, PopInv, GoroutineInv, EnvironmentInv
  DEF Next, Main, Failures, Ended
<1> QED
  BY <1>1, <1>2, PTL DEF Spec

\* For any number of updates and of blocks in them: the process is in one of the
\* states of its control flow (main, the event loop and the poller's loop), and
\* its deferred calls are those of services and of the indexer.
THEOREM LifecycleTypeOK == Spec => []TypeOK
<1>1. LifeInv => TypeOK
  BY DEF LifeInv
<1> QED
  BY <1>1, LifeInvariant, PTL

\* For any number of updates and of blocks in them: while the process shuts
\* down after a successful start, the event loop has ended, between two
\* updates, before the queues stop and the database closes, and the poller's
\* loop before the notifier stops (the order of RunUntilShutdown's deferred
\* calls and the waits of StakingIndexer.Stop and BtcPoller.Stop).
THEOREM NothingUsedAfterStopHolds == Spec => []NothingUsedAfterStop
<1>1. LifeInv => NothingUsedAfterStop
  <2> SUFFICES ASSUME LifeInv PROVE NothingUsedAfterStop
    OBVIOUS
  <2>1. ASSUME ~failed, "stopped" \in {service["queue"], service["db"]}
        PROVE  loop = "done" /\ blocks = 0
    BY <2>1, StackFacts DEF LifeInv, StackOK, StoppedOK, GoroutinesOK
  <2>2. ASSUME service["notifier"] = "stopped"
        PROVE  poller \in {"none", "done"}
    BY <2>2, StackFacts DEF LifeInv, StackOK, StoppedOK, GoroutinesOK
  <2> QED
    BY <2>1, <2>2 DEF NothingUsedAfterStop
<1> QED
  BY <1>1, LifeInvariant, PTL
=============================================================================
