------------------------------- MODULE SidHome ------------------------------
(***************************************************************************)
(* The home directory of sid: "sid init" (cmd/sid/cli/init.go) creates its *)
(* directories and sid.conf, the operator edits sid.conf, and "sid start"  *)
(* loads and validates it (config/) and opens the log (log/log.go).        *)
(*                                                                         *)
(* The option file is written line by line by go-flags (external): a crash *)
(* leaves a prefix of it.  Of the value of an option the model keeps which *)
(* of these it is:                                                         *)
(*   "set"   accepted by the parser and by Validate, and not zero;         *)
(*   "zero"  the zero value of the Go type ("", 0 or false);               *)
(*   "bad"   refused by the parser (type, choice) or by Validate;          *)
(*   "trace" (loglevel only) the choice of that name.                      *)
(***************************************************************************)
EXTENDS Integers, Sequences, Functions

CONSTANTS
    MaxEdits,    \* bound: edits of sid.conf by the operator
    MaxCrashes,  \* bound: crashes of sid init
    MaxRuns      \* bound: runs of sid init and sid start

ASSUME HomeAssumption == {MaxEdits, MaxCrashes, MaxRuns} \subseteq Nat

\* The options of each section, in the order in which they are declared and
\* written.
BTCOptions ==
    << "rpchost", "rpcuser", "rpcpass", "pruned-node-max-peers",
       "blockpollinginterval", "txpollinginterval", "block-cache-size",
       "max-retry-times", "retry-interval" >>
DBOptions ==
    << "dbpath", "dbfilename", "nofreelistsync", "autocompact",
       "autocompactminage", "dbtimeout" >>
QueueOptions ==
    << "queue.user", "queue.password", "queue.url", "processingtimeout",
       "msgmaxretryattempts", "requeuedelaytime", "queuetype" >>
MetricsOptions == << "metrics.host", "metrics.port" >>
OptionList ==
    << "loglevel", "bitcoinnetwork", "extraeventenabled" >>
        \o BTCOptions \o DBOptions \o QueueOptions \o MetricsOptions
Options == Range(OptionList)

\* DefaultConfigWithHome
DefaultConfig ==
    [o \in Options |->
        IF o \in {"extraeventenabled", "pruned-node-max-peers", "autocompact"}
        THEN "zero" ELSE "set"]

Missing == "missing"
NoFile  == [o \in Options |-> "no file"]
Empty   == [o \in Options |-> Missing]

VARIABLES
    dirs,      \* the directories that exist
    file,      \* sid.conf
    step,      \* where sid init is; "none" when it does not run
    written,   \* options of sid.conf that sid init has written
    running,   \* the configuration of the last start that succeeded
    result,    \* how the last command ended
    edits, crashes, runs
homeVars == <<dirs, file, step, written, running, result, edits, crashes, runs>>

----------------------------------------------------------------------------
(* Loading.                                                                *)

\* var cfg Config, overwritten by the options in the file.
Parsed(f) == [o \in Options |-> IF f[o] = Missing THEN "zero" ELSE f[o]]

\* None of the options in S has its zero value.
NoneZero(cfg, S) == \A o \in S : cfg[o] # "zero"

\* The Validate methods of the sections, for values that are not "bad".
ValidBTC(cfg) == NoneZero(cfg, Range(BTCOptions) \ {"pruned-node-max-peers"})
ValidDB(cfg) == NoneZero(cfg, {"dbpath", "dbfilename"})
ValidQueue(cfg) == NoneZero(cfg, Range(QueueOptions))

\* Mutant: the host is not checked.
ValidMetrics_NoHost(cfg) == TRUE

\* Port 0 is in range.
ValidMetrics(cfg) == NoneZero(cfg, {"metrics.host"})

\* Validate
Validate(cfg) ==
    /\ \A o \in Options : cfg[o] # "bad"
    /\ NoneZero(cfg, {"bitcoinnetwork"})
    /\ ValidDB(cfg) /\ ValidMetrics(cfg) /\ ValidQueue(cfg) /\ ValidBTC(cfg)

\* LoadConfig
LoadConfig(f) ==
    IF f = NoFile THEN "no config"
    ELSE IF ~Validate(Parsed(f)) THEN "bad config" ELSE "loaded"

\* NewRootLogger: the levels it knows; "" and "trace" are not among them.
SupportedLevel(level) == level = "set"

----------------------------------------------------------------------------
(* sid init.                                                               *)

Idle == step = "none"

\* A home that exists is refused unless --force is given.
InitHome(force) ==
    /\ Idle /\ runs < MaxRuns
    /\ runs' = runs + 1
    /\ IF "home" \in dirs /\ ~force
       THEN result' = "home exists" /\ step' = step
       ELSE result' = "running" /\ step' = "home"
    /\ UNCHANGED <<dirs, file, written, running, edits, crashes>>

\* The steps of initHome.
After == [home |-> "logs", logs |-> "data", data |-> "create"]

MakeDirectory ==
    /\ step \in DOMAIN After
    /\ dirs' = dirs \cup {step}
    /\ step' = After[step]
    /\ UNCHANGED <<file, written, running, result, edits, crashes, runs>>

\* DefaultConfigWithHome validates the defaults; WriteFile first truncates the
\* file.
CreateFile ==
    /\ step = "create" /\ Validate(DefaultConfig)
    /\ file' = Empty
    /\ written' = 0
    /\ step' = "write"
    /\ UNCHANGED <<dirs, running, result, edits, crashes, runs>>

\* The next option is written; the last one ends sid init.
WriteOption ==
    /\ step = "write"
    /\ LET o == OptionList[written + 1]
       IN  file' = [file EXCEPT ![o] = DefaultConfig[o]]
    /\ written' = written + 1
    /\ IF written' = Len(OptionList) THEN step' = "none" /\ result' = "initialized"
                                     ELSE UNCHANGED <<step, result>>
    /\ UNCHANGED <<dirs, running, edits, crashes, runs>>

\* sid init dies, or a step of it returns an error.
Crash ==
    /\ ~Idle /\ crashes < MaxCrashes
    /\ step' = "none"
    /\ result' = "crashed"
    /\ crashes' = crashes + 1
    /\ UNCHANGED <<dirs, file, written, running, edits, runs>>

----------------------------------------------------------------------------

\* The options that are free text: the parser and Validate refuse no value of
\* theirs but the empty one.
Texts == {"rpchost", "rpcuser", "rpcpass", "dbpath", "dbfilename",
          "queue.user", "queue.password", "queue.url"}

\* The operator sets or removes an option.  The empty string is none of the
\* choices of loglevel.
Edit(o, v) ==
    /\ Idle /\ file # NoFile /\ edits < MaxEdits
    /\ v = "trace" => o = "loglevel"
    /\ v = "zero" => o # "loglevel"
    /\ v = "bad" => o \notin Texts
    /\ file' = [file EXCEPT ![o] = v]
    /\ edits' = edits + 1
    /\ UNCHANGED <<dirs, step, written, running, result, crashes, runs>>

\* start, as far as the logger: NewRootLoggerWithFile also makes its directory.
Start ==
    /\ Idle /\ runs < MaxRuns
    /\ runs' = runs + 1
    /\ IF LoadConfig(file) # "loaded"
       THEN result' = LoadConfig(file) /\ UNCHANGED <<dirs, running>>
       ELSE /\ dirs' = dirs \cup {"logs"}
            /\ IF SupportedLevel(Parsed(file)["loglevel"])
               THEN result' = "started" /\ running' = Parsed(file)
               ELSE result' = "unsupported log level" /\ running' = running
    /\ UNCHANGED <<file, step, written, edits, crashes>>

HomeInit ==
    /\ dirs = {} /\ file = NoFile /\ step = "none" /\ written = 0
    /\ running = NoFile /\ result = "none"
    /\ edits = 0 /\ crashes = 0 /\ runs = 0

HomeNext ==
    \/ \E force \in BOOLEAN : InitHome(force)
    \/ MakeDirectory \/ CreateFile \/ WriteOption \/ Crash
    \/ \E o \in Options, v \in {"set", "zero", "bad", "trace", Missing} :
           Edit(o, v)
    \/ Start

HomeSpec == HomeInit /\ [][HomeNext]_homeVars

----------------------------------------------------------------------------
(* Properties.                                                             *)

\* Whatever sid init was interrupted at and however it was repeated, a start
\* on a file the operator has not touched runs with the defaults: every option
\* that a truncated file loses is refused as zero, but for the last line, the
\* metrics port, whose zero passes.
StartsOnDefaults ==
    result = "started" /\ edits = 0 =>
        \A o \in Options \ {"metrics.port"} : running[o] = DefaultConfig[o]

\* LoadConfig: "Start with a default config with sane settings ... Load
\* configuration file overwriting defaults with any specified options".
\* The code does not keep it (README, "Deviations without a run").
MissingIsDefault ==
    result = "started" =>
        \A o \in Options : file[o] = Missing => running[o] = DefaultConfig[o]

\* The choice "trace" of the loglevel option is a level that can be chosen.
\* The code does not keep it (README, "Deviations without a run").
OfferedLevelStarts ==
    result = "unsupported log level" => file["loglevel"] # "trace"
=============================================================================
