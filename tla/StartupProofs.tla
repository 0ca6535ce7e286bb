---------------------------- MODULE StartupProofs ----------------------------
(***************************************************************************)
(* Proofs about the way from the configuration files to an order, for any  *)
(* number of edits, any error limit and any sets of validator rules.       *)
(***************************************************************************)
EXTENDS Startup, TLAPS

-----------------------------------------------------------------------------
(* The inductive invariant.                                                *)

(* What nobody has edited is still at its safer value. *)
EditedInv ==
  /\ "allow_live_trading" \notin edited => broker.allow_live_trading = FALSE
  /\ "testnet" \notin edited => broker.testnet = TRUE
  /\ "BINANCE_TESTNET" \notin edited =>
       dotenv["BINANCE_TESTNET"] = "true" /\ shell["BINANCE_TESTNET"] = Unset

(* What was read since the last edit is what the files say. *)
ReadInv ==
  /\ report # None /\ report.at = edits => report.live = AllowLiveTrading
  /\ process # None /\ process.at = edits => process.live = AllowLiveTrading
  /\ process # None => process.at <= edits

(* What a process remembers of the settings it was started with. *)
LoadedInv ==
  process # None =>
    /\ process.live => "allow_live_trading" \in process.settings
    /\ ~process.testnet => {"testnet", "BINANCE_TESTNET"} \subseteq process.settings

(* How far it got, and what it must have passed on the way. *)
PassedInv ==
  process # None =>
    /\ process.live /\ process.pc \in {"connect", "loop"} => process.confirmed
    /\ process.connected => process.pc \in {"loop", "killed"}
    /\ process.connected /\ process.pc = "killed" => process.program = "script"

(* What it sent. *)
SentInv ==
  /\ process = None => sent = {}
  /\ sent # {} => process.live /\ process.confirmed
  /\ "mainnet" \in sent => ~process.testnet

StartupInv ==
  /\ TypeOK
  /\ EditedInv /\ ReadInv /\ ReportIsTrue /\ LoadedInv /\ PassedInv /\ SentInv

-----------------------------------------------------------------------------
(* The flags a process loads are truth values, and a dangerous one needs   *)
(* the edits that make it so.                                              *)
LEMMA FlagsAreBoolean ==
  ASSUME TypeOK
  PROVE  AllowLiveTrading \in BOOLEAN /\ Testnet \in BOOLEAN /\ DryRun \in BOOLEAN
<1>1. broker.allow_live_trading \in {TRUE, FALSE, Unset}
  BY DEF TypeOK, Yaml
<1> QED
  BY <1>1 DEF AllowLiveTrading, Testnet, DryRun, Get

LEMMA LiveNeedsEdit ==
  ASSUME EditedInv, AllowLiveTrading
  PROVE  "allow_live_trading" \in edited
BY DEF EditedInv, AllowLiveTrading, Get

LEMMA MainnetNeedsEdits ==
  ASSUME EditedInv, ~Testnet
  PROVE  {"testnet", "BINANCE_TESTNET"} \subseteq edited
<1>1. "testnet" \in edited
  BY DEF EditedInv, Testnet, Get
<1>2. "BINANCE_TESTNET" \in edited
  BY DEF EditedInv, Testnet, Get, GetEnv, ParseBoolEnv
<1> QED
  BY <1>1, <1>2

(* A step of a living process changes nothing of what it loaded.           *)
Runs ==
  /\ process \in Process /\ process' \in Process
  /\ UNCHANGED <<files, report>>
  /\ process'.program = process.program /\ process'.live = process.live
  /\ process'.testnet = process.testnet /\ process'.reported = process.reported
  /\ process'.settings = process.settings /\ process'.at = process.at

LEMMA RunningKeeps ==
  ASSUME StartupInv, Runs, sent' \subseteq {"account", "testnet", "mainnet"}
  PROVE  /\ TypeOK' /\ EditedInv' /\ ReadInv' /\ ReportIsTrue' /\ LoadedInv'
<1> USE DEF StartupInv, Runs, files
<1>0. process # None /\ process' # None
  BY NoneAssumption
<1>1. TypeOK'
  BY DEF TypeOK
<1>2. EditedInv'
  BY DEF EditedInv
<1>3. AllowLiveTrading' = AllowLiveTrading
  BY DEF AllowLiveTrading
<1>4. ReadInv'
  BY <1>0, <1>3 DEF ReadInv
<1>5. ReportIsTrue'
  BY <1>0 DEF ReportIsTrue
<1>6. LoadedInv'
  BY <1>0 DEF LoadedInv
<1> QED
  BY <1>1, <1>2, <1>4, <1>5, <1>6

(* One lemma for each kind of step.                                        *)

LEMMA InitInv == Init => StartupInv
<1> SUFFICES ASSUME Init PROVE StartupInv
  OBVIOUS
<1>1. TypeOK
  BY StartupAssumption DEF Init, TypeOK, Yaml, EnvKeys, EnvValues
<1>2. EditedInv
  BY DEF Init, EditedInv, EnvKeys
<1> QED
  BY <1>1, <1>2 DEF Init, StartupInv, ReadInv, ReportIsTrue, LoadedInv,
                    PassedInv, SentInv

LEMMA EditKeeps ==
  ASSUME StartupInv, EditStrategy \/ EditBroker \/ EditEnvironment
  PROVE  StartupInv'
<1>1. PICK setting \in Settings : Edit(setting)
  BY DEF EditStrategy, EditBroker, EditEnvironment, Settings
<1>2. TypeOK'
  <2>1. /\ edits' \in 0 .. MaxEdits /\ edited' \subseteq Settings
        /\ edits' = edits + 1
    BY <1>1, StartupAssumption DEF Edit, StartupInv, TypeOK
  <2>2. /\ strategy' \in [broken : SUBSET Rules, dry_run : Yaml]
        /\ broker' \in [broken : SUBSET Limits,
                        allow_live_trading : Yaml, testnet : Yaml]
    BY DEF EditStrategy, EditBroker, EditEnvironment, StartupInv, TypeOK
  <2>3. dotenv' \in [EnvKeys -> EnvValues] /\ shell' \in [EnvKeys -> EnvValues]
    BY DEF EditStrategy, EditBroker, EditEnvironment, StartupInv, TypeOK
  <2>4. report' \in [backend : Backends, live : BOOLEAN, at : 0 .. edits'] \cup {None}
    BY <1>1, <2>1 DEF Edit, StartupInv, TypeOK
  <2> QED
    BY <1>1, <2>1, <2>2, <2>3, <2>4 DEF Edit, StartupInv, TypeOK
<1>3. EditedInv'
  <2>1. CASE EditStrategy
    BY <2>1 DEF EditStrategy, Edit, EditedInv, StartupInv
  <2>2. CASE EditBroker
    <3>1. broker \in [broken : SUBSET Limits,
                     allow_live_trading : Yaml, testnet : Yaml]
      BY DEF StartupInv, TypeOK
    <3> QED
      BY <2>2, <3>1 DEF EditBroker, Edit, EditedInv, StartupInv
  <2>3. CASE EditEnvironment
    <3>1. dotenv \in [EnvKeys -> EnvValues] /\ shell \in [EnvKeys -> EnvValues]
      BY DEF StartupInv, TypeOK
    <3> QED
      BY <2>3, <3>1 DEF EditEnvironment, Edit, EditedInv, StartupInv, EnvKeys
  <2> QED
    BY <2>1, <2>2, <2>3
<1>4. edits' = edits + 1 /\ edits \in Nat /\ UNCHANGED <<report, process, sent>>
  BY <1>1 DEF Edit, StartupInv, TypeOK
<1>5. report # None => report.at \in 0 .. edits
  BY DEF StartupInv, TypeOK
<1>6. process # None => process.at \in Nat
  BY DEF StartupInv, TypeOK, Process
<1>7. ReadInv'
  BY <1>4, <1>5, <1>6 DEF StartupInv, ReadInv
<1>8. ReportIsTrue' /\ LoadedInv' /\ PassedInv' /\ SentInv'
  BY <1>4 DEF StartupInv, ReportIsTrue, LoadedInv, PassedInv, SentInv
<1> QED
  BY <1>2, <1>3, <1>7, <1>8 DEF StartupInv

LEMMA SafetyReportKeeps ==
  ASSUME StartupInv, SafetyReport
  PROVE  StartupInv'
<1>1. PICK backend \in Backends :
        report' = [backend |-> backend, live |-> AllowLiveTrading, at |-> edits]
  BY DEF SafetyReport, ReportedLive
<1>2. UNCHANGED <<files, process, sent>> /\ AllowLiveTrading' = AllowLiveTrading
  BY DEF SafetyReport, files, AllowLiveTrading
<1>3. TypeOK'
  BY <1>1, <1>2, FlagsAreBoolean DEF StartupInv, TypeOK, files
<1>4. ReadInv' /\ ReportIsTrue'
  BY <1>1, <1>2 DEF StartupInv, ReadInv, ReportIsTrue, files
<1>5. EditedInv' /\ LoadedInv' /\ PassedInv' /\ SentInv'
  BY <1>2 DEF StartupInv, EditedInv, LoadedInv, PassedInv, SentInv, files
<1> QED
  BY <1>3, <1>4, <1>5 DEF StartupInv

LEMMA LoadKeeps ==
  ASSUME StartupInv, Load
  PROVE  StartupInv'
<1>1. PICK program \in Programs, backend \in Backends :
        process' =
          [program |-> program, backend |-> backend,
           live |-> AllowLiveTrading, testnet |-> Testnet, dryRun |-> DryRun,
           reported |-> IF program = "cli" THEN AllowLiveTrading ELSE None,
           settings |-> edited, at |-> edits, confirmed |-> FALSE,
           connected |-> FALSE, stopping |-> FALSE, errors |-> 0,
           pc |-> IF AllowLiveTrading THEN "prompt" ELSE "connect"]
  BY DEF Load, ReportedLive
<1>2. /\ sent' = {} /\ UNCHANGED <<files, report>>
      /\ AllowLiveTrading' = AllowLiveTrading
  BY DEF Load, files, AllowLiveTrading
<1>3. edits \in 0 .. MaxEdits /\ edited \subseteq Settings
  BY DEF StartupInv, TypeOK
<1>4. process' \in Process
  BY <1>1, <1>3, FlagsAreBoolean, StartupAssumption
     DEF StartupInv, Process, Programs, Backends
<1>5. TypeOK'
  BY <1>2, <1>4 DEF StartupInv, TypeOK, files
<1>6. ReadInv' /\ ReportIsTrue'
  BY <1>1, <1>2, <1>3 DEF StartupInv, ReadInv, ReportIsTrue, files
<1>7. LoadedInv'
  BY <1>1, LiveNeedsEdit, MainnetNeedsEdits DEF StartupInv, LoadedInv
<1>8. PassedInv' /\ SentInv'
  BY <1>1, <1>2 DEF PassedInv, SentInv
<1>9. EditedInv'
  BY <1>2 DEF StartupInv, EditedInv, files
<1> QED
  BY <1>5, <1>6, <1>7, <1>8, <1>9 DEF StartupInv

(* The steps that neither begin nor end a process.                         *)
Step ==
  \/ PressEnter \/ Abort \/ Connect \/ RunIteration \/ IterationRaises
  \/ Leave \/ RequestShutdown \/ KeyboardInterrupt \/ Terminate

LEMMA StepRuns ==
  ASSUME StartupInv, Step
  PROVE  Runs
<1> USE DEF At, GoTo, Iterates, Disconnect
<1>1. process # None /\ process \in Process
  BY DEF StartupInv, TypeOK, Step, PressEnter, Abort, Connect, RunIteration,
         IterationRaises, Leave, RequestShutdown, KeyboardInterrupt, Terminate
<1>2. process.errors \in 0 .. MaxErrors - 1
  BY <1>1 DEF Process
<1>3. CASE RunIteration
  BY <1>3, <1>1, StartupAssumption DEF RunIteration, Process, Runs
<1>4. CASE IterationRaises
  <2>1. CASE process.program = "cli" /\ process.errors + 1 < MaxErrors
    <3>1. process' = [process EXCEPT !.errors = process.errors + 1]
      BY <1>4, <2>1 DEF IterationRaises
    <3>2. process.errors + 1 \in 0 .. MaxErrors - 1
      BY <1>2, <2>1, StartupAssumption
    <3> QED
      BY <1>4, <1>1, <3>1, <3>2 DEF IterationRaises, Process, Runs
  <2>2. CASE ~(process.program = "cli" /\ process.errors + 1 < MaxErrors)
    <3>1. process' = [process EXCEPT !.pc = "exited", !.connected = FALSE]
      BY <1>4, <2>2 DEF IterationRaises
    <3> QED
      BY <1>4, <1>1, <3>1 DEF IterationRaises, Process, Runs
  <2> QED
    BY <2>1, <2>2
<1>5. CASE PressEnter \/ Abort \/ Connect
  BY <1>5, <1>1 DEF PressEnter, Abort, Connect, Process, Runs
<1>6. CASE Leave \/ RequestShutdown \/ KeyboardInterrupt \/ Terminate
  BY <1>6, <1>1
     DEF Leave, RequestShutdown, KeyboardInterrupt, Terminate, Process, Runs
<1> QED
  BY <1>3, <1>4, <1>5, <1>6 DEF Step

(* A step sends nothing, unless it is an iteration's order of a process    *)
(* whose flag is set, which then has been confirmed.                       *)
LEMMA StepSends ==
  ASSUME StartupInv, Step
  PROVE  /\ sent' \subseteq {"account", "testnet", "mainnet"} /\ SentInv'
<1>1. Runs /\ process # None /\ process' # None
  BY StepRuns, NoneAssumption DEF Runs
<1>2. process.confirmed => process'.confirmed
  BY <1>1 DEF Step, PressEnter, Abort, Connect, RunIteration, IterationRaises,
         Leave, RequestShutdown, KeyboardInterrupt, Terminate, At, GoTo,
         Iterates, Disconnect, Runs, Process
<1>3. CASE UNCHANGED sent
  BY <1>1, <1>2, <1>3 DEF StartupInv, TypeOK, SentInv, Runs
<1>4. CASE RunIteration /\ SendOrder
  <2>1. process.live => process.confirmed
    BY <1>4 DEF RunIteration, Iterates, At, StartupInv, PassedInv
  <2>2. sent' = IF process.live THEN sent \cup {Venue(process)} ELSE sent
    BY <1>4 DEF SendOrder
  <2>3. /\ Venue(process) \in {"account", "testnet", "mainnet"}
        /\ Venue(process) = "mainnet" => ~process.testnet
    BY DEF Venue
  <2> QED
    BY <1>1, <1>2, <2>1, <2>2, <2>3 DEF StartupInv, TypeOK, SentInv, Runs
<1> QED
  BY <1>3, <1>4
     DEF Step, PressEnter, Abort, Connect, RunIteration, IterationRaises,
         Leave, RequestShutdown, KeyboardInterrupt, Terminate

LEMMA StepKeeps ==
  ASSUME StartupInv, Step
  PROVE  StartupInv'
<1>1. Runs /\ process # None
  BY StepRuns, NoneAssumption DEF Runs
<1>2. PassedInv'
  <2>1. PassedInv /\ process \in Process
    BY <1>1 DEF StartupInv, Runs
  <2> USE <1>1, <2>1 DEF PassedInv, Process, At, GoTo, Iterates, Disconnect
  <2>2. CASE PressEnter
    BY <2>2 DEF PressEnter
  <2>3. CASE Abort
    BY <2>3 DEF Abort
  <2>4. CASE Connect
    BY <2>4 DEF Connect
  <2>5. CASE RunIteration
    BY <2>5 DEF RunIteration
  <2>6. CASE IterationRaises
    BY <2>6 DEF IterationRaises
  <2>7. CASE Leave
    BY <2>7 DEF Leave
  <2>8. CASE RequestShutdown
    BY <2>8 DEF RequestShutdown
  <2>9. CASE KeyboardInterrupt
    BY <2>9 DEF KeyboardInterrupt
  <2>10. CASE Terminate
    BY <2>10 DEF Terminate
  <2> QED
    BY <2>2, <2>3, <2>4, <2>5, <2>6, <2>7, <2>8, <2>9, <2>10 DEF Step
<1> QED
  BY <1>1, <1>2, StepSends, RunningKeeps DEF StartupInv

LEMMA ExitKeeps ==
  ASSUME StartupInv, Exit
  PROVE  StartupInv'
<1>1. process' = None /\ sent' = {} /\ UNCHANGED <<files, report>>
  BY DEF Exit
<1>2. AllowLiveTrading' = AllowLiveTrading
  BY <1>1 DEF files, AllowLiveTrading
<1> QED
  BY <1>1, <1>2 DEF StartupInv, TypeOK, EditedInv, ReadInv, ReportIsTrue,
                    LoadedInv, PassedInv, SentInv, files

LEMMA StutterKeeps ==
  ASSUME StartupInv, UNCHANGED vars
  PROVE  StartupInv'
<1>1. UNCHANGED <<strategy, broker, dotenv, shell, edited, edits, report,
                  process, sent>>
  BY DEF vars, files
<1>2. TypeOK' /\ EditedInv' /\ LoadedInv' /\ PassedInv' /\ SentInv'
  BY <1>1 DEF StartupInv, TypeOK, EditedInv, LoadedInv, PassedInv, SentInv
<1>3. AllowLiveTrading' = AllowLiveTrading
  BY <1>1 DEF AllowLiveTrading
<1>4. ReadInv' /\ ReportIsTrue'
  BY <1>1, <1>3 DEF StartupInv, ReadInv, ReportIsTrue
<1> QED
  BY <1>2, <1>4 DEF StartupInv

(* The invariant holds of the specification. *)
THEOREM StartupInvariant == Spec => []StartupInv
<1>1. StartupInv /\ [Next]_vars => StartupInv'
  BY EditKeeps, SafetyReportKeeps, LoadKeeps, StepKeeps, ExitKeeps, StutterKeeps
     DEF Next, Step
<1> QED
  BY InitInv, <1>1, PTL DEF Spec

-----------------------------------------------------------------------------
(* What follows from it.                                                   *)

(* Every reachable state of files, reports and processes is well typed. *)
THEOREM StartupTypes == Spec => []TypeOK
BY StartupInvariant, PTL DEF StartupInv

(* Whatever is edited, however often and in whatever order, an order goes  *)
(* to mainnet only after three settings in two places were changed and the *)
(* operator confirmed.                                                     *)
THEOREM MainnetIsDeliberate == Spec => []MainnetNeedsThreeChanges
<1>1. StartupInv => MainnetNeedsThreeChanges
  BY DEF StartupInv, SentInv, LoadedInv, MainnetNeedsThreeChanges
<1> QED
  BY StartupInvariant, <1>1, PTL

(* No process sends an order its operator has not enabled and confirmed. *)
THEOREM OrdersNeedConsent == Spec => []OrdersAreConfirmed
<1>1. StartupInv => OrdersAreConfirmed
  BY DEF StartupInv, SentInv, LoadedInv, OrdersAreConfirmed
<1> QED
  BY StartupInvariant, <1>1, PTL

(* The reports state the flag the process runs with. *)
THEOREM ReportsAreTrue == Spec => []ReportIsTrue
BY StartupInvariant, PTL DEF StartupInv

(* No program ends by itself with its connection open. *)
THEOREM ConnectionsReleased == Spec => []ReleasedOnExit
<1>1. StartupInv => ReleasedOnExit
  BY DEF StartupInv, PassedInv, ReleasedOnExit, At
<1> QED
  BY StartupInvariant, <1>1, PTL
=============================================================================
