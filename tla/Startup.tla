------------------------------- MODULE Startup -------------------------------
(***************************************************************************)
(* From the configuration files to an order: an operator edits             *)
(* strategy.yaml, the broker's yaml and .env or the shell's environment,   *)
(* asks for a safety report, and starts the bot, one process at a time, by *)
(* a subcommand of cli.py or by one of scripts/run_*_demo.py.  What the    *)
(* bot does once it runs is the other modules' subject: here an iteration  *)
(* only sends an order, or raises.                                         *)
(*                                                                         *)
(* A file's values that some validator refuses are named rules; a process  *)
(* keeps what it loaded, whatever happens to the files afterwards.         *)
(***************************************************************************)
EXTENDS Naturals, FiniteSets

CONSTANTS
  Unset, None,
  Rules,              \* what _forbid_dangerous_config checks of strategy.yaml
  Limits,             \* what _forbid_invalid_config checks of the broker yaml
  MaxErrors,          \* MAX_CONSECUTIVE_ITERATION_ERRORS
  MaxEdits            \* bound: settings the operator changes

ASSUME StartupAssumption == MaxErrors \in Nat \ {0} /\ MaxEdits \in Nat

VARIABLES
  strategy,   \* strategy.yaml: [broken : SUBSET Rules, dry_run]
  broker,     \* mt5.yaml or binance.yaml: [broken, allow_live_trading, testnet]
  dotenv, shell,   \* [EnvKeys -> EnvValues]: .env, and the process environment
  edited,     \* history: the settings that were ever changed
  edits,      \* history: how many changes there were
  report,     \* what safety-report printed last: [backend, live, at] or None
  process,    \* the bot's process, or None
  sent        \* history: venues this process has sent real orders to

files == <<strategy, broker, dotenv, shell, edited, edits>>
vars  == <<files, report, process, sent>>

Backends == {"mt5", "binance"}
Programs == {"cli", "script"}
EnvKeys == {"BINANCE_TESTNET", "DRY_RUN"}
Yaml == {TRUE, FALSE, Unset}
(* "" stands for every value that is not one of 1, true, yes and on. *)
EnvValues == {"true", "", Unset}

Settings ==
  {"rules", "dry_run", "limits", "allow_live_trading", "testnet"} \cup EnvKeys

Process ==
  [program : Programs, backend : Backends,
   live : BOOLEAN, testnet : BOOLEAN, dryRun : BOOLEAN,
   reported : BOOLEAN \cup {None}, settings : SUBSET Settings,
   at : 0 .. MaxEdits, confirmed : BOOLEAN, connected : BOOLEAN,
   stopping : BOOLEAN, errors : 0 .. MaxErrors - 1,
   pc : {"prompt", "connect", "loop", "exited", "killed"}]

ASSUME NoneAssumption == None \notin Process

Get(value, default) == IF value = Unset THEN default ELSE value

(* load_dotenv(override=False): what the shell exports comes first. *)
GetEnv(key) == Get(shell[key], dotenv[key])

ParseBoolEnv(value, default) == Get(value, IF default THEN "true" ELSE "") = "true"

YamlAlone ==                                    \* fault: one side decides
  Get(broker.testnet, TRUE)

(* The yaml's testnet OR the environment's, both true by default. *)
Testnet ==
  Get(broker.testnet, TRUE) \/ ParseBoolEnv(GetEnv("BINANCE_TESTNET"), TRUE)

AllowLiveTrading == Get(broker.allow_live_trading, FALSE)

(* AppConfig.dry_run, as the README describes DRY_RUN.  Neither cli.py nor *)
(* the scripts ask for it.                                                 *)
DryRun == Get(strategy.dry_run, TRUE) \/ ParseBoolEnv(GetEnv("DRY_RUN"), TRUE)

Validated == strategy.broken = {} /\ broker.broken = {}

Venue(p) == IF p.backend = "mt5" THEN "account"
            ELSE IF p.testnet THEN "testnet" ELSE "mainnet"

-----------------------------------------------------------------------------
(* The repository's own files: nothing exported, every flag at its safer   *)
(* value, and .env copied from .env.example.                               *)
Init ==
  /\ strategy = [broken |-> {}, dry_run |-> TRUE]
  /\ broker = [broken |-> {}, allow_live_trading |-> FALSE, testnet |-> TRUE]
  /\ dotenv = [key \in EnvKeys |-> "true"] /\ shell = [key \in EnvKeys |-> Unset]
  /\ edited = {} /\ edits = 0
  /\ report = None /\ process = None /\ sent = {}

Edit(setting) ==
  /\ edits < MaxEdits /\ edits' = edits + 1 /\ edited' = edited \cup {setting}
  /\ UNCHANGED <<report, process, sent>>

EditStrategy ==
  \/ /\ Edit("rules") /\ \E broken \in SUBSET Rules :
          strategy' = [strategy EXCEPT !.broken = broken]
     /\ UNCHANGED <<broker, dotenv, shell>>
  \/ /\ Edit("dry_run") /\ \E value \in Yaml :
          strategy' = [strategy EXCEPT !.dry_run = value]
     /\ UNCHANGED <<broker, dotenv, shell>>

EditBroker ==
  \/ /\ Edit("limits") /\ \E broken \in SUBSET Limits :
          broker' = [broker EXCEPT !.broken = broken]
     /\ UNCHANGED <<strategy, dotenv, shell>>
  \/ /\ \E value \in Yaml, setting \in {"allow_live_trading", "testnet"} :
          Edit(setting) /\ broker' = [broker EXCEPT ![setting] = value]
     /\ UNCHANGED <<strategy, dotenv, shell>>

EditEnvironment ==
  \E key \in EnvKeys, value \in EnvValues :
    /\ Edit(key)
    /\ \/ dotenv' = [dotenv EXCEPT ![key] = value] /\ UNCHANGED shell
       \/ shell' = [shell EXCEPT ![key] = value] /\ UNCHANGED dotenv
    /\ UNCHANGED <<strategy, broker>>

ReportsDefault(backend) == FALSE                \* fault: file not loaded
ReportedLive(backend) == AllowLiveTrading

(* safety-report --backend mt5 | binance, from another terminal perhaps. *)
SafetyReport ==
  /\ Validated
  /\ \E backend \in Backends :
       report' = [backend |-> backend, live |-> ReportedLive(backend),
                  at |-> edits]
  /\ UNCHANGED <<files, process, sent>>

-----------------------------------------------------------------------------
(* The bot's process.                                                      *)

At(pc) == process # None /\ process.pc = pc
GoTo(pc) == process' = [process EXCEPT !.pc = pc]

(* Load and validate everything, then print the report; the scripts leave  *)
(* allow_live_trading out of theirs.  Refused settings end the program.    *)
Load ==
  /\ process = None /\ Validated /\ sent' = {}
  /\ \E program \in Programs, backend \in Backends :
       process' =
         [program |-> program, backend |-> backend,
          live |-> AllowLiveTrading, testnet |-> Testnet, dryRun |-> DryRun,
          reported |-> IF program = "cli" THEN ReportedLive(backend) ELSE None,
          settings |-> edited, at |-> edits, confirmed |-> FALSE,
          connected |-> FALSE, stopping |-> FALSE, errors |-> 0,
          pc |-> IF AllowLiveTrading THEN "prompt" ELSE "connect"]
  /\ UNCHANGED <<files, report>>

(* "Press Enter to continue, or Ctrl+C to abort" *)
PressEnter ==
  /\ At("prompt")
  /\ process' = [process EXCEPT !.pc = "connect", !.confirmed = TRUE]
  /\ UNCHANGED <<files, report, sent>>

Abort ==
  /\ At("prompt") /\ GoTo("exited")
  /\ UNCHANGED <<files, report, sent>>

(* connect() before the try: when it raises there is nothing to release. *)
Connect ==
  /\ At("connect")
  /\ \/ process' = [process EXCEPT !.pc = "loop", !.connected = TRUE]
     \/ GoTo("exited")
  /\ UNCHANGED <<files, report, sent>>

(* `while not shutdown.requested` *)
Iterates == At("loop") /\ ~process.stopping

SendsAlways ==                                  \* fault: simulated mode ignored
  sent' = sent \cup {Venue(process)}

(* An order is simulated unless allow_live_trading is set. *)
SendOrder ==
  sent' = IF process.live THEN sent \cup {Venue(process)} ELSE sent

RunIteration ==
  /\ Iterates
  /\ SendOrder \/ UNCHANGED sent
  /\ process' = [process EXCEPT !.errors = 0]
  /\ UNCHANGED <<files, report>>

DiesConnected ==                                \* fault: not in the finally
  process' = [process EXCEPT !.pc = "exited"]

(* finally: broker.disconnect() *)
Disconnect ==
  process' = [process EXCEPT !.pc = "exited", !.connected = FALSE]

(* cli.py carries on until the errors are too many; a script never does. *)
IterationRaises ==
  /\ Iterates
  /\ IF process.program = "cli" /\ process.errors + 1 < MaxErrors
       THEN process' = [process EXCEPT !.errors = @ + 1]
       ELSE Disconnect
  /\ UNCHANGED <<files, report, sent>>

(* The iterations asked for are done, or a shutdown was. *)
Leave ==
  /\ At("loop") /\ Disconnect
  /\ UNCHANGED <<files, report, sent>>

(* cli.py's handlers set a flag, from just before connect() on. *)
RequestShutdown ==
  /\ process # None /\ process.program = "cli" /\ process.pc \in {"connect", "loop"}
  /\ process' = [process EXCEPT !.stopping = TRUE]
  /\ UNCHANGED <<files, report, sent>>

(* Ctrl+C where no handler is installed: only a script's loop expects it.  *)
KeyboardInterrupt ==
  /\ \/ At("connect") /\ GoTo("exited")
     \/ At("loop") /\ process.program = "script" /\ Disconnect
  /\ UNCHANGED <<files, report, sent>>

(* SIGTERM where no handler is installed. *)
Terminate ==
  /\ \/ At("connect")
     \/ At("loop") /\ process.program = "script"
  /\ GoTo("killed")
  /\ UNCHANGED <<files, report, sent>>

Exit ==
  /\ At("exited") \/ At("killed")
  /\ process' = None /\ sent' = {}
  /\ UNCHANGED <<files, report>>

Next ==
  \/ EditStrategy \/ EditBroker \/ EditEnvironment \/ SafetyReport
  \/ Load \/ PressEnter \/ Abort \/ Connect \/ RunIteration \/ IterationRaises
  \/ Leave \/ RequestShutdown \/ KeyboardInterrupt \/ Terminate \/ Exit

Spec == Init /\ [][Next]_vars

-----------------------------------------------------------------------------
(* Properties.                                                             *)

(* Types of the files, the report and the process. *)
TypeOK ==
  /\ strategy \in [broken : SUBSET Rules, dry_run : Yaml]
  /\ broker \in [broken : SUBSET Limits, allow_live_trading : Yaml, testnet : Yaml]
  /\ {dotenv, shell} \subseteq [EnvKeys -> EnvValues]
  /\ edited \subseteq Settings /\ edits \in 0 .. MaxEdits
  /\ report \in [backend : Backends, live : BOOLEAN, at : 0 .. edits] \cup {None}
  /\ process \in Process \cup {None}
  /\ sent \subseteq {"account", "testnet", "mainnet"}

(* Going to mainnet is never a one-sided accident: whichever way the       *)
(* files, .env and the shell are combined, an order there means that       *)
(* somebody had changed three settings in two places before the process    *)
(* started, and then confirmed.                                            *)
MainnetNeedsThreeChanges ==
  "mainnet" \in sent =>
    /\ {"allow_live_trading", "testnet", "BINANCE_TESTNET"} \subseteq process.settings
    /\ process.confirmed

(* No process sends a real order unless allow_live_trading was set before  *)
(* it started and its operator pressed Enter at its own prompt.            *)
OrdersAreConfirmed ==
  sent # {} => /\ process.confirmed
               /\ "allow_live_trading" \in process.settings

(* An operator cannot misjudge the live status: cli.py's report states the *)
(* flag its process runs with, though the files may change underneath, and *)
(* safety-report states the flag of a process started from the same files. *)
ReportIsTrue ==
  process # None =>
    /\ process.reported # None => process.reported = process.live
    /\ report # None /\ report.at = process.at => report.live = process.live

(* A program that ends by itself, by errors or on request has released its *)
(* connection; only a signal to a script leaves one behind.                *)
ReleasedOnExit ==
  /\ At("exited") => ~process.connected
  /\ At("killed") /\ process.connected => process.program = "script"

(* README.md on DRY_RUN: "Global safety flag; `strategy.yaml`'s own        *)
(* `dry_run` is honored if either says true".                              *)
DryRunSendsNothing == process # None /\ process.dryRun => sent = {}
=============================================================================
