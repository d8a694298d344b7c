----------------------------- MODULE Lifecycle ------------------------------
(***************************************************************************)
(* The life of the sid process: `sid start` builds the components          *)
(* (cmd/sid/cli/start.go), Server.RunUntilShutdown starts them, waits for  *)
(* a shutdown signal and stops them through its deferred calls             *)
(* (server/server.go, server/prometheus.go).  Four goroutines run: main,   *)
(* the Prometheus server, the indexer's blocksEventLoop and the poller's   *)
(* blockEventLoop.  Bootstrap runs first in main, inside si.Start, and     *)
(* later in blockEventLoop; both send updates over one unbuffered channel. *)
(*                                                                         *)
(* Of the blocks only their number matters here.  The database, the event  *)
(* queues, the notifier and the HTTP server are external: what is called   *)
(* after their Stop or Close fails.                                        *)
(***************************************************************************)
EXTENDS Integers, Sequences, Functions

CONSTANTS
    MaxUpdates,  \* bound: updates the poller sends
    MaxBlocks    \* bound: confirmed blocks in one update

ASSUME LifecycleAssumption == MaxUpdates \in Nat /\ MaxBlocks \in Nat

\* What start builds, in its order.
Components == <<"config", "logger", "client", "notifier", "db", "params",
                "scanner", "queue_config", "queue", "indexer", "interceptor">>

\* What RunUntilShutdown starts before the indexer, in its order, and defers
\* the stop of.  The database needs no start; the Prometheus server is also
\* created here.
Services == <<"db", "prometheus", "notifier", "queue">>

VARIABLES
    main,     \* where the main goroutine is: also the service it starts next
    built,    \* how many of the Components exist
    defers,   \* the deferred calls of RunUntilShutdown, last one on top
    failed,   \* RunUntilShutdown returns an error
    service,  \* the state of each of the Services
    loop,     \* blocksEventLoop
    blocks,   \* confirmed blocks of its update still to be handled
    poller,   \* blockEventLoop
    updates,  \* history: updates that the poller has produced
    siQuit,   \* StakingIndexer.quit is closed
    bsQuit,   \* BtcPoller.quit is closed
    signal,   \* a shutdown signal has arrived
    active,   \* the tip of the chain has reached the activation height
    exit      \* how the process ended, "no" while it runs

server     == <<built, defers, failed, service>>
goroutines == <<loop, blocks, poller, updates>>
quits      == <<siQuit, bsQuit>>
env        == <<signal, active>>
vars       == <<main, server, goroutines, quits, env, exit>>

Running == exit = "no"

----------------------------------------------------------------------------
(* The main goroutine.                                                     *)

\* start: the next constructor succeeds.
Construct ==
    /\ Running /\ main = "start"
    /\ built' = built + 1
    /\ main' = IF built' = Len(Components) THEN Services[1] ELSE main
    /\ UNCHANGED <<defers, failed, service, goroutines, quits, env, exit>>

\* A constructor fails: start returns its error.
ConstructFails ==
    /\ Running /\ main = "start"
    /\ exit' = "error"
    /\ UNCHANGED <<main, server, goroutines, quits, env>>

\* RunUntilShutdown starts a service and defers its stop.
StartService ==
    \E i \in 1..Len(Services) :
        /\ Running /\ main = Services[i]
        /\ service' = [service EXCEPT ![main] = "started"]
        /\ defers' = Append(defers, main)
        /\ main' = IF i < Len(Services) THEN Services[i + 1] ELSE "indexer"
        /\ UNCHANGED <<built, failed, goroutines, quits, env, exit>>

\* StakingIndexer.Start spawns blocksEventLoop before anything else.
StartIndexer ==
    /\ Running /\ main = "indexer"
    /\ loop' = "select"
    /\ main' = "activation"
    /\ UNCHANGED <<server, blocks, poller, updates, quits, env, exit>>

\* ValidateStartHeight accepts the height and waitUntilActivation, which polls
\* the tip whatever the signals, sees it reach the activation height.
AwaitActivation ==
    /\ Running /\ main = "activation" /\ active
    /\ main' = "bootstrap"
    /\ UNCHANGED <<server, goroutines, quits, env, exit>>

\* Bootstrap commits an update.
BootstrapCommits ==
    /\ Running /\ main = "bootstrap" /\ updates < MaxUpdates
    /\ main' = "bootstrap_send"
    /\ updates' = updates + 1
    /\ UNCHANGED <<server, loop, blocks, poller, quits, env, exit>>

\* Bootstrap ends: blockEventLoop is spawned, Start returns and si.Stop is
\* deferred.
BootstrapEnds ==
    /\ Running /\ main = "bootstrap"
    /\ main' = "wait"
    /\ poller' = "register"
    /\ defers' = Append(defers, "indexer")
    /\ UNCHANGED <<built, failed, service, loop, blocks, updates, quits, env,
                   exit>>

\* A step of RunUntilShutdown or of StakingIndexer.Start returns an error: an
\* invalid address, start height or chain, a service that does not start, an
\* RPC that fails.  The deferred calls run; si.Stop is not among them.
StartFails ==
    /\ Running
    /\ main \in {"prometheus", "notifier", "queue", "activation", "bootstrap"}
    /\ main' = "return"
    /\ failed' = TRUE
    /\ UNCHANGED <<built, defers, service, goroutines, quits, env, exit>>

\* The shutdown channel is closed: RunUntilShutdown returns.
Shutdown ==
    /\ Running /\ main = "wait" /\ signal
    /\ main' = "return"
    /\ UNCHANGED <<server, goroutines, quits, env, exit>>

\* The deferred call that runs next.
Deferred == IF defers = <<>> THEN "none" ELSE defers[Len(defers)]

\* StakingIndexer.Stop closes quit.
StopIndexer ==
    /\ Running /\ main = "return" /\ Deferred = "indexer"
    /\ siQuit' = TRUE
    /\ main' = "indexer_wait"
    /\ UNCHANGED <<server, goroutines, bsQuit, env, exit>>

\* Mutant: Stop does not wait for the goroutine.
LoopEnded_NoWait == TRUE

\* si.wg.Wait
LoopEnded == loop = "done"

\* Then it calls BtcPoller.Stop, which closes the poller's quit.
StopPoller ==
    /\ Running /\ main = "indexer_wait" /\ LoopEnded
    /\ bsQuit' = TRUE
    /\ main' = "poller_wait"
    /\ UNCHANGED <<server, goroutines, siQuit, env, exit>>

\* bs.wg.Wait
PollerStopped ==
    /\ Running /\ main = "poller_wait" /\ poller = "done"
    /\ defers' = SubSeq(defers, 1, Len(defers) - 1)
    /\ main' = "return"
    /\ UNCHANGED <<built, failed, service, goroutines, quits, env, exit>>

\* The deferred call stops or closes a service.
StopService ==
    /\ Running /\ main = "return" /\ Deferred \in Range(Services)
    /\ service' = [service EXCEPT ![Deferred] = "stopped"]
    /\ defers' = SubSeq(defers, 1, Len(defers) - 1)
    /\ UNCHANGED <<main, built, failed, goroutines, quits, env, exit>>

\* RunUntilShutdown and start return: the process ends with its goroutines.
Return ==
    /\ Running /\ main = "return" /\ Deferred = "none"
    /\ exit' = IF failed THEN "error" ELSE "ok"
    /\ UNCHANGED <<main, server, goroutines, quits, env>>

----------------------------------------------------------------------------
(* The other goroutines.                                                   *)

\* ListenAndServe fails other than by Stop: logger.Fatal.
ListenFails ==
    /\ Running /\ service["prometheus"] = "started"
    /\ exit' = "fatal"
    /\ UNCHANGED <<main, server, goroutines, quits, env>>

\* blocksEventLoop receives the update that main or the poller is sending.
Receive ==
    /\ Running /\ loop = "select"
    /\ \/ main = "bootstrap_send" /\ main' = "bootstrap" /\ UNCHANGED poller
       \/ poller = "send" /\ poller' = "idle" /\ UNCHANGED main
    /\ loop' = "handle"
    /\ blocks' \in 0..MaxBlocks
    /\ UNCHANGED <<server, updates, quits, env, exit>>

\* Mutant: the loop over the blocks goes one too far.
BlocksLeft_OffByOne == blocks >= 0

BlocksLeft == blocks > 0

\* HandleConfirmedBlock reads and writes the database and, for a block with
\* staking transactions, pushes events; an error of either is fatal.
HandleConfirmedBlock ==
    /\ Running /\ loop = "handle" /\ BlocksLeft
    /\ \E pushes \in BOOLEAN :
          IF /\ service["db"] = "started"
             /\ pushes => service["queue"] = "started"
          THEN blocks' = blocks - 1 /\ UNCHANGED exit
          ELSE exit' = "block_failed" /\ UNCHANGED blocks
    /\ UNCHANGED <<main, server, loop, poller, updates, quits, env>>

\* processUnconfirmedInfo: its errors are only logged.
ProcessUnconfirmedInfo ==
    /\ Running /\ loop = "handle" /\ ~BlocksLeft
    /\ loop' = "select"
    /\ UNCHANGED <<main, server, blocks, poller, updates, quits, env, exit>>

LoopQuits ==
    /\ Running /\ loop = "select" /\ siQuit
    /\ loop' = "done"
    /\ UNCHANGED <<main, server, blocks, poller, updates, quits, env, exit>>

\* blockEventLoop registers with the notifier.
Register ==
    /\ Running /\ poller = "register" /\ service["notifier"] = "started"
    /\ poller' = "idle"
    /\ UNCHANGED <<main, server, loop, blocks, updates, quits, env, exit>>

\* The registration fails: panic.
RegisterFails ==
    /\ Running /\ poller = "register"
    /\ exit' = "panic"
    /\ UNCHANGED <<main, server, goroutines, quits, env>>

\* An epoch arrives: HandleNewBlock or Bootstrap commits an update.
PollerCommits ==
    /\ Running /\ poller = "idle" /\ updates < MaxUpdates
    /\ poller' = "send"
    /\ updates' = updates + 1
    /\ UNCHANGED <<main, server, loop, blocks, quits, env, exit>>

\* Mutant: the send does not watch the quit channel.
SendGivenUp_Never == FALSE

\* commitChainUpdate selects between the send and quit.
SendGivenUp == poller = "send" /\ bsQuit

DropUpdate ==
    /\ Running /\ SendGivenUp
    /\ poller' = "idle"
    /\ UNCHANGED <<main, server, loop, blocks, updates, quits, env, exit>>

\* blockEventLoop ends on quit, or when the notifier has closed its channel.
PollerQuits ==
    /\ Running /\ poller = "idle"
    /\ bsQuit \/ service["notifier"] = "stopped"
    /\ poller' = "done"
    /\ UNCHANGED <<main, server, loop, blocks, updates, quits, env, exit>>

----------------------------------------------------------------------------
(* The environment and the specification.                                  *)

\* A shutdown signal, once the interceptor is hooked.
Signal ==
    /\ Running /\ built = Len(Components) /\ ~signal
    /\ signal' = TRUE
    /\ UNCHANGED <<main, server, goroutines, quits, active, exit>>

\* The chain reaches the activation height.
Activate ==
    /\ Running /\ ~active
    /\ active' = TRUE
    /\ UNCHANGED <<main, server, goroutines, quits, signal, exit>>

\* Nothing happens after the end.
Ended == ~Running /\ UNCHANGED vars

Init ==
    /\ main = "start" /\ built = 0 /\ defers = <<>> /\ failed = FALSE
    /\ service = [s \in Range(Services) |-> "new"]
    /\ loop = "none" /\ blocks = 0 /\ poller = "none" /\ updates = 0
    /\ siQuit = FALSE /\ bsQuit = FALSE
    /\ signal = FALSE /\ active \in BOOLEAN
    /\ exit = "no"

\* The steps of the main goroutine that go well.
Main ==
    \/ Construct \/ StartService \/ StartIndexer
    \/ AwaitActivation \/ BootstrapCommits \/ BootstrapEnds \/ Shutdown
    \/ StopIndexer \/ StopPoller \/ PollerStopped \/ StopService \/ Return

Loop == Receive \/ HandleConfirmedBlock \/ ProcessUnconfirmedInfo \/ LoopQuits

Poller == Register \/ DropUpdate \/ PollerQuits

Failures == ConstructFails \/ StartFails \/ RegisterFails \/ ListenFails

Next == \/ Main \/ Loop \/ Poller \/ Failures
        \/ PollerCommits \/ Signal \/ Activate \/ Ended

\* A goroutine that can run does run; nothing makes a block, a signal or a
\* failure happen.  The number of updates is bounded, so a select that has an
\* update ready cannot starve its quit case.
Spec == /\ Init /\ [][Next]_vars
        /\ WF_vars(Main) /\ WF_vars(Loop) /\ WF_vars(Poller)

----------------------------------------------------------------------------
(* Properties.                                                             *)

TypeOK ==
    /\ main \in {"start", "indexer", "activation", "bootstrap", "wait",
                 "bootstrap_send", "return", "indexer_wait", "poller_wait"}
                \cup Range(Services)
    /\ built \in 0..Len(Components) /\ failed \in BOOLEAN
    /\ defers \in Seq(Range(Services) \cup {"indexer"})
    /\ service \in [Range(Services) -> {"new", "started", "stopped"}]
    /\ loop \in {"none", "select", "handle", "done"}
    /\ poller \in {"none", "register", "idle", "send", "done"}
    /\ blocks \in 0..MaxBlocks /\ updates \in 0..MaxUpdates
    /\ {siQuit, bsQuit, signal, active} \subseteq BOOLEAN
    /\ exit \in {"no", "ok", "error", "fatal", "panic", "block_failed"}

\* While the process shuts down after a successful start, no goroutine is left
\* that could use what has been stopped: the event loop ends, between two
\* updates, before the queues stop and the database closes, and the poller's
\* loop before the notifier stops.
NothingUsedAfterStop ==
    /\ ~failed /\ "stopped" \in {service["queue"], service["db"]} =>
          loop = "done" /\ blocks = 0
    /\ service["notifier"] = "stopped" => poller \in {"none", "done"}

\* A process whose chain has reached the activation height ends after a signal,
\* whatever its goroutines are doing: main may be in the middle of starting,
\* the poller may be sending an update that nobody will receive.
ShutdownCompletes == (signal /\ active) ~> ~Running

\* "RunUntilShutdown runs the main EOTS manager server loop until a signal is
\* received to shut down the process": a signal ends the process.
SignalEndsProcess == signal ~> ~Running

\* A block that cannot be handled, which is fatal, "indicates systematic
\* failure": here the database and the queues never fail while they are
\* running, so no block may fail.
\* The code does not keep it (README, "Deviations without a run").
BlockFailureIsSystematic == exit # "block_failed"
=============================================================================
