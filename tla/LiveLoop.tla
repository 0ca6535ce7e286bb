------------------------------ MODULE LiveLoop ------------------------------
(***************************************************************************)
(* The continuous loop of mt5-demo and binance-demo: run_iteration()       *)
(* against a live exchange that acts between any two of its broker calls,  *)
(* the error counter around it, the saved daily counters, and restarts.    *)
(*                                                                         *)
(* One action per broker call, since that is where the exchange, a fault   *)
(* or a signal can get in between.  pc names the call that is due next.    *)
(*                                                                         *)
(* Abstractions.  Prices are left out: a stop loses one cash unit before   *)
(* it is moved and earns the lock after; a take-profit earns the target.   *)
(* What the market looks like when the bot asks is an arbitrary choice.    *)
(* The exchange is external: it keeps the open positions, fires their      *)
(* stops, and reports the P&L realized on its current date.                *)
(***************************************************************************)
EXTENDS TradeRules, FiniteSets

CONSTANTS
  None,        \* Python's None
  Corrupt,     \* a state file that does not parse
  Faults,      \* the calls that may raise: a subset of Calls
  Swallowed,   \* the calls whose failure reads as an answer, see below
  LostReplies, \* may an order be executed although its call raises?
  StopAnytime, \* may a stop fire between two calls of an iteration?
  MaxErrors,   \* MAX_CONSECUTIVE_ITERATION_ERRORS
  \* bounds of an instance
  MaxPositions, MaxDay, MaxMinute, MaxFaults, MaxStops

Calls == {"bars", "pnl", "positions", "mark", "close", "modify", "cost",
          "open", "journal"}

Ids  == 1 .. MaxPositions
Days == 0 .. MaxDay

ASSUME LiveAssumption ==
  /\ Faults \subseteq Calls
  /\ Swallowed \subseteq {"bars", "pnl", "positions", "open"}
  /\ {LostReplies, StopAnytime} \subseteq BOOLEAN
  /\ MaxErrors \in Nat \ {0}
  /\ {MaxPositions, MaxDay, MaxMinute, MaxFaults, MaxStops} \subseteq Nat
  /\ BeLock >= 0
  /\ {None, Corrupt} \cap (Ids \cup DailyStats(Days)) = {}
  /\ None # Corrupt

VARIABLES
  \* the process
  pc,        \* the call due next; "save", or "down" when not running
  stats, cooldown, lastKnown,
  context,   \* None, or whether breakeven was applied
  prev,      \* previous_realized_pnl_cash of this iteration
  noBars,    \* did get_bars() return an empty frame in it?
  errors,    \* consecutive_errors
  shutdown,  \* set by SIGINT or SIGTERM
  file,      \* the state file: DailyStats, Corrupt, or None
  \* the exchange and the clocks
  open,      \* ids of the open positions
  moved,     \* those whose stop was moved to breakeven
  day,       \* date of the exchange, and so of the latest bar
  hostDay,   \* date of the host's local clock
  minute,    \* index of the current M1 bar
  dayPnl,    \* P&L realized on the exchange's date
  \* history: each position's fate (status, the date it was opened, its
  \* P&L) and how it was recorded (times, P&L, reason, minute)
  trade,
  faults, stops   \* faults and process ends so far

locals  == <<prev, noBars>>
process == <<stats, cooldown, lastKnown, context, locals, errors>>
world   == <<open, moved, day, hostDay, minute, dayPnl>>
vars    == <<pc, process, shutdown, file, world, trade, faults, stops>>

NewTrade == [status |-> "none", opened |-> 0, pnl |-> 0,
             times |-> 0, recorded |-> 0, reason |-> None, minute |-> 0]

Used == {i \in Ids : trade[i].status # "none"}
HasFreshId == Cardinality(Used) < MaxPositions
FreshId == Cardinality(Used) + 1

StopPnl(id) == IF id \in moved THEN BeLock ELSE -1

-----------------------------------------------------------------------------
(* The exchange.                                                           *)

(* id leaves the book at a P&L. *)
Settle(id, pnl) ==
  /\ open' = open \ {id}
  /\ dayPnl' = dayPnl + pnl
  /\ trade' = [trade EXCEPT ![id].status = "closed", ![id].pnl = pnl]
  /\ UNCHANGED <<moved, day, hostDay, minute>>

(* A position's stop order fires. *)
StopFires ==
  /\ StopAnytime \/ pc \in {"bars", "down"}
  /\ \E id \in open : Settle(id, StopPnl(id))
  /\ UNCHANGED <<pc, process, shutdown, file, faults, stops>>

(* The date of the latest bar, which resets the counters, and the date the *)
(* P&L query asks about: two clocks in the code, which turn together here. *)
DayTurns ==
  /\ StopAnytime \/ pc \in {"bars", "down"}
  /\ day < MaxDay /\ day <= hostDay
  /\ day' = day + 1 /\ dayPnl' = 0
  /\ UNCHANGED <<pc, process, shutdown, file, open, moved, hostDay, minute,
                 trade, faults, stops>>

(* The host's date leads or trails the exchange's by less than a day. *)
HostDayTurns ==
  /\ hostDay < MaxDay /\ hostDay <= day
  /\ hostDay' = hostDay + 1
  /\ UNCHANGED <<pc, process, shutdown, file, open, moved, day, minute,
                 dayPnl, trade, faults, stops>>

MinuteTurns ==
  /\ minute < MaxMinute
  /\ minute' = minute + 1
  /\ UNCHANGED <<pc, process, shutdown, file, open, moved, day, hostDay,
                 dayPnl, trade, faults, stops>>

Exchange == StopFires \/ DayTurns \/ HostDayTurns \/ MinuteTurns

-----------------------------------------------------------------------------
(* How an iteration ends.                                                  *)

(* The MT5 adapter takes a query that failed for one that found nothing:   *)
(* no bars, no deals today, no position.  (A mark of zero and a position   *)
(* that cannot be looked up are among the outcomes of Mark and CallRaises; *)
(* "open" is the look-up an entry begins with.)                            *)
Swallows(call) ==
  call \in Swallowed /\ faults < MaxFaults /\ faults' = faults + 1

Returned == errors' = 0 /\ pc' = "save"

(* An exception leaves run_iteration; the state changed so far stays. *)
Raised ==
  /\ errors' = errors + 1
  /\ pc' = IF errors + 1 >= MaxErrors THEN "down" ELSE "save"
  /\ stops' = IF errors + 1 >= MaxErrors THEN stops + 1 ELSE stops

(* The call that is due fails, by a fault of the network or the disk. *)
Fault(call) ==
  /\ call \in Faults /\ faults < MaxFaults /\ faults' = faults + 1
  /\ Raised

CallRaises ==
  \E call \in Calls \ {"journal"} :
    /\ pc = call /\ Fault(call)
    /\ UNCHANGED <<stats, cooldown, lastKnown, context, locals, shutdown, file,
                   world, trade>>

-----------------------------------------------------------------------------
(* run_iteration(), call by call.                                          *)

(* get_bars(): the latest bar dates the statistics. *)
GetBars ==
  /\ pc = "bars" /\ ~shutdown /\ pc' = "pnl"
  /\ stats' = MaybeResetDailyStats(stats, day)
  /\ prev' = stats'.realized /\ noBars' = FALSE
  /\ UNCHANGED <<cooldown, lastKnown, context, errors, shutdown, file, world,
                 trade, faults, stops>>

(* An empty frame dates nothing. *)
GetNoBars ==
  /\ pc = "bars" /\ ~shutdown /\ pc' = "pnl"
  /\ Swallows("bars")
  /\ prev' = stats.realized /\ noBars' = TRUE
  /\ UNCHANGED <<stats, cooldown, lastKnown, context, errors, shutdown, file,
                 world, trade, stops>>

PnlNotRead ==                                   \* fault: stale total
  /\ pc = "pnl" /\ pc' = "positions"
  /\ UNCHANGED <<process, shutdown, file, world, trade, faults, stops>>

GetTodayRealizedPnl ==
  /\ pc = "pnl" /\ pc' = "positions"
  /\ \/ stats' = [stats EXCEPT !.realized = dayPnl] /\ UNCHANGED faults
     \/ stats' = [stats EXCEPT !.realized = 0] /\ Swallows("pnl")
  /\ UNCHANGED <<cooldown, lastKnown, context, locals, errors, shutdown, file,
                 world, trade, stops>>

NoneReported ==
  \/ open = {} /\ UNCHANGED faults
  \/ open # {} /\ Swallows("positions")

RecordClose(id, pnl, reason) ==
  /\ stats' = RecordClosedTrade(stats, pnl)
  /\ cooldown' = StartCooldown(CooldownBarsForReason(reason))
  /\ trade' = [trade EXCEPT ![id].times = @ + 1, ![id].recorded = pnl,
                            ![id].minute = minute, ![id].reason = reason]

(* get_open_position() reports none, one was tracked: the close is counted *)
(* before its journal row is written.                                      *)
NoticeVanished ==
  /\ pc = "positions" /\ NoneReported /\ lastKnown # None
  /\ RecordClose(lastKnown, stats.realized - prev,
       IF context # None /\ context THEN "BREAKEVEN_SL" ELSE "HARD_SL")
  /\ pc' = "journal"
  /\ UNCHANGED <<lastKnown, context, locals, errors, shutdown, file, world,
                 stops>>

NoticeUntracked ==                              \* fault: managed, not tracked
  /\ pc = "positions" /\ pc' = "mark" /\ open # {}
  /\ UNCHANGED <<process, shutdown, file, world, trade, faults, stops>>

(* It reports one, which is managed and nothing else. *)
NoticeOpen ==
  /\ pc = "positions" /\ pc' = "mark"
  /\ lastKnown' \in open
  /\ UNCHANGED <<stats, cooldown, context, locals, errors, shutdown, file,
                 world, trade, faults, stops>>

(* It reports none and none was tracked: the guard, then the cooldown. *)
Gate ==
  /\ pc = "positions" /\ NoneReported /\ lastKnown = None
  /\ IF ~TradingAllowed(stats)
       THEN Returned /\ UNCHANGED cooldown
       ELSE /\ cooldown' = Tick(cooldown)
            /\ IF IsActive(cooldown') THEN Returned
                                      ELSE pc' = "cost" /\ UNCHANGED errors
  /\ UNCHANGED <<stats, lastKnown, context, locals, shutdown, file, world,
                 trade, stops>>

(* get_unrealized_pnl() and the decision; a position that just vanished is *)
(* marked at zero.                                                         *)
Mark ==
  /\ pc = "mark"
  /\ \/ Returned
     \/ lastKnown \in open /\ pc' \in {"close", "modify"} /\ UNCHANGED errors
  /\ UNCHANGED <<stats, cooldown, lastKnown, context, locals, shutdown, file,
                 world, trade, faults, stops>>

(* close_position() at the take-profit, recorded before it is journalled.  *)
Close ==
  /\ pc = "close" /\ lastKnown \in open
  /\ open' = open \ {lastKnown} /\ dayPnl' = dayPnl + TpCash
  /\ stats' = RecordClosedTrade(stats, TpCash)
  /\ cooldown' = StartCooldown(CooldownBarsForReason("TP_CASH"))
  /\ trade' = [trade EXCEPT
       ![lastKnown].status = "closed", ![lastKnown].pnl = TpCash,
       ![lastKnown].times = @ + 1, ![lastKnown].recorded = TpCash,
       ![lastKnown].minute = minute, ![lastKnown].reason = "TP_CASH"]
  /\ pc' = "journal"
  /\ UNCHANGED <<lastKnown, context, locals, errors, shutdown, file, moved, day,
                 hostDay, minute, faults, stops>>

ModifyThenScan ==                               \* fault: missing return
  /\ pc = "modify" /\ lastKnown \in open
  /\ moved' = moved \cup {lastKnown}
  /\ context' = IF context = None THEN None ELSE TRUE
  /\ pc' = "cost"
  /\ UNCHANGED <<stats, cooldown, lastKnown, locals, errors, shutdown, file,
                 open, day, hostDay, minute, dayPnl, trade, faults, stops>>

(* modify_stop_loss() to breakeven. *)
Modify ==
  /\ pc = "modify" /\ lastKnown \in open
  /\ moved' = moved \cup {lastKnown}
  /\ context' = IF context = None THEN None ELSE TRUE
  /\ Returned
  /\ UNCHANGED <<stats, cooldown, lastKnown, locals, shutdown, file, open, day,
                 hostDay, minute, dayPnl, trade, faults, stops>>

GoneIsForgotten ==                              \* fault: dropped on error
  /\ pc \in {"close", "modify"} /\ lastKnown \notin open
  /\ Raised /\ lastKnown' = None
  /\ UNCHANGED <<stats, cooldown, context, locals, shutdown, file, world, trade,
                 faults>>

(* Every order call looks the positions up first, and raises if the one to *)
(* change is gone or one is open already.                                  *)
OrderRefused ==
  /\ pc \in {"close", "modify", "open"}
  /\ IF pc = "open" THEN open # {} ELSE lastKnown \notin open
  /\ Raised
  /\ UNCHANGED <<stats, cooldown, lastKnown, context, locals, shutdown, file,
                 world, trade, faults>>

(* The trade-cost gate, the trends and the trigger; an instance runs out   *)
(* of positions to open at MaxPositions.                                   *)
LookForEntry ==
  /\ pc = "cost"
  /\ \/ Returned
     \/ HasFreshId /\ ~noBars /\ pc' = "open" /\ UNCHANGED errors
  /\ UNCHANGED <<stats, cooldown, lastKnown, context, locals, shutdown, file,
                 world, trade, faults, stops>>

(* The exchange opens a position with its stop attached. *)
Filled ==
  /\ HasFreshId
  /\ open' = open \cup {FreshId}
  /\ trade' = [trade EXCEPT ![FreshId] =
                 [NewTrade EXCEPT !.status = "open", !.opened = day]]
  /\ UNCHANGED <<moved, day, hostDay, minute, dayPnl>>

(* The check every open_market_order() begins with. *)
NoneFound ==
  \/ open = {} /\ UNCHANGED faults
  \/ open # {} /\ Swallows("open")

OpenUntracked ==                                \* fault: tracked once observed
  /\ pc = "open" /\ NoneFound
  /\ Filled
  /\ context' = FALSE
  /\ Returned
  /\ UNCHANGED <<stats, cooldown, lastKnown, locals, shutdown, file, stops>>

OpenMarketOrder ==
  /\ pc = "open" /\ NoneFound
  /\ Filled
  /\ lastKnown' = FreshId /\ context' = FALSE
  /\ Returned
  /\ UNCHANGED <<stats, cooldown, locals, shutdown, file, stops>>

(* An order reaches the exchange but its call raises: the reply is lost,   *)
(* or the position can no longer be found by the time it is looked up.     *)
ReplyLost ==
  /\ LostReplies
  /\ \/ /\ pc = "open" /\ open = {} /\ Fault("open")
        /\ Filled
     \/ /\ pc = "close" /\ lastKnown \in open /\ Fault("close")
        /\ Settle(lastKnown, TpCash)
     \/ /\ pc = "modify" /\ lastKnown \in open /\ Fault("modify")
        /\ moved' = moved \cup {lastKnown}
        /\ UNCHANGED <<open, day, hostDay, minute, dayPnl, trade>>
  /\ UNCHANGED <<stats, cooldown, lastKnown, context, locals, shutdown, file>>

JournalKeepsTracking ==                         \* fault: not forgotten
  /\ pc = "journal"
  /\ Returned
  /\ UNCHANGED <<stats, cooldown, lastKnown, context, locals, shutdown, file,
                 world, trade, faults, stops>>

(* The journal row of a recorded close, and only then is it forgotten. *)
WriteJournalRow ==
  /\ pc = "journal"
  /\ lastKnown' = None /\ context' = None
  /\ Returned
  /\ UNCHANGED <<stats, cooldown, locals, shutdown, file, world, trade, faults,
                 stops>>

(* contract_size(), get_trading_cost(), get_today_realized_pnl() or the    *)
(* file append raises while the row is written.                            *)
JournalRaises ==
  /\ pc = "journal" /\ Fault("journal")
  /\ UNCHANGED <<stats, cooldown, lastKnown, context, locals, shutdown, file,
                 world, trade>>

-----------------------------------------------------------------------------
(* The loop around it.                                                     *)

SaveOnExit ==                                   \* fault: saved at the end
  /\ pc = "save"
  /\ file' = IF shutdown THEN stats ELSE file
  /\ pc' = "bars"
  /\ UNCHANGED <<process, shutdown, world, trade, faults, stops>>

SaveDailyStats ==
  /\ pc = "save"
  /\ file' = stats
  /\ pc' = "bars"
  /\ UNCHANGED <<process, shutdown, world, trade, faults, stops>>

(* while not shutdown.requested *)
Leave ==
  /\ pc = "bars" /\ shutdown
  /\ pc' = "down" /\ stops' = stops + 1
  /\ UNCHANGED <<process, shutdown, file, world, trade, faults>>

Interrupt ==
  /\ pc # "down" /\ ~shutdown /\ stops < MaxStops
  /\ shutdown' = TRUE
  /\ UNCHANGED <<pc, process, file, world, trade, faults, stops>>

(* The process is killed; a save under way is done, not begun, or torn. *)
Crash ==
  /\ pc # "down" /\ stops < MaxStops
  /\ pc' = "down" /\ stops' = stops + 1
  /\ IF pc = "save"
       THEN file' \in {file, stats, Corrupt}
       ELSE UNCHANGED file
  /\ UNCHANGED <<process, shutdown, world, trade, faults>>

(* load_daily_stats(): only a readable file of the same date counts. *)
LoadDailyStats ==
  IF file # None /\ file # Corrupt /\ file.trading_day = hostDay
    THEN file ELSE FreshStats(hostDay)

(* A new process: counters from the file, everything else afresh. *)
Start ==
  /\ pc = "down" /\ stops <= MaxStops
  /\ pc' = "bars" /\ shutdown' = FALSE
  /\ stats' = LoadDailyStats
  /\ cooldown' = 0 /\ lastKnown' = None /\ context' = None
  /\ prev' = 0 /\ noBars' = FALSE /\ errors' = 0
  /\ UNCHANGED <<file, world, trade, faults, stops>>

Iterate ==
  \/ GetBars \/ GetNoBars \/ GetTodayRealizedPnl
  \/ NoticeVanished \/ NoticeOpen \/ Gate
  \/ Mark \/ Close \/ Modify \/ OrderRefused \/ LookForEntry
  \/ OpenMarketOrder \/ WriteJournalRow \/ SaveDailyStats \/ Leave
  \/ CallRaises \/ JournalRaises \/ ReplyLost

Environment == Exchange \/ Interrupt \/ Crash \/ Start

Next == Iterate \/ Environment

Init ==
  /\ pc = "down" /\ stats = FreshStats(0) /\ cooldown = 0
  /\ lastKnown = None /\ context = None
  /\ prev = 0 /\ noBars = FALSE /\ errors = 0
  /\ shutdown = FALSE /\ file = None
  /\ open = {} /\ moved = {} /\ day = 0 /\ hostDay = 0 /\ minute = 0
  /\ dayPnl = 0 /\ trade = [i \in Ids |-> NewTrade]
  /\ faults = 0 /\ stops = 0

(* The loop runs on as long as its process lives; nothing else is forced.  *)
Spec == Init /\ [][Next]_vars /\ WF_vars(Iterate)

-----------------------------------------------------------------------------
(* Properties.                                                             *)

(* Type correctness of the process, the exchange and the history. *)
TypeOK ==
  /\ pc \in Calls \cup {"save", "down"}
  /\ stats \in DailyStats(Days) /\ cooldown \in Nat
  /\ lastKnown \in Ids \cup {None} /\ context \in BOOLEAN \cup {None}
  /\ prev \in Int /\ noBars \in BOOLEAN /\ errors \in 0 .. MaxErrors /\ shutdown \in BOOLEAN
  /\ file \in DailyStats(Days) \cup {None, Corrupt}
  /\ open \subseteq Ids /\ moved \subseteq Ids
  /\ day \in Days /\ hostDay \in Days /\ minute \in 0 .. MaxMinute
  /\ dayPnl \in Int
  /\ trade \in [Ids -> [status : {"none", "open", "closed"}, opened : Days,
                        pnl : Int, times : Nat, recorded : Int,
                        reason : CloseReasons \cup {None},
                        minute : 0 .. MaxMinute]]
  /\ faults \in 0 .. MaxFaults /\ stops \in Nat

(* No entry is looked for while a position is open, whatever call raises,  *)
(* whichever reply is lost and whenever the process restarts, as long as   *)
(* the positions are reported truly: the broker's own one-position check   *)
(* is never what prevents a second position.                               *)
NeverScansWithPosition == pc \in {"cost", "open"} => open = {}

(* No close is counted twice by the daily guard. *)
RecordedAtMostOnce == \A i \in Ids : trade[i].times <= 1

(* A trade that is over is recorded, or still tracked so that a later      *)
(* iteration can notice that it is gone, even if its stop fired before it  *)
(* was ever seen open.                                                     *)
ClosedIsRecordedOrTracked ==
  \A i \in Ids :
    trade[i].status = "closed" /\ trade[i].times = 0 /\ pc # "down"
      => lastKnown = i

(* So no close is recorded twice and none is lost sight of before it is.   *)
RecordedOnceOrTracked == RecordedAtMostOnce /\ ClosedIsRecordedOrTracked

(* No calendar day of the exchange sees more entries than                  *)
(* max_trades_per_day, wherever in an iteration midnight falls.            *)
EntriesWithinDailyLimit ==
  Cardinality({i \in Used : trade[i].opened = day}) <= MaxTrades

(* No order is filled while the exchange's own P&L of the day is at or     *)
(* past a limit of the guard, although the guard's figure was read several *)
(* calls earlier and a stop may have fired since.                          *)
EntryWithinLossLimit ==
  [][\A i \in Ids :
       i \in open' \ open /\ day = stats.trading_day
         => dayPnl > MaxLoss /\ dayPnl < ProfitTarget]_vars

(* While its process lives the bot stops tracking a position only once it  *)
(* has recorded it, and never replaces it by another, through any sequence *)
(* of failing calls.                                                       *)
TrackedUntilRecorded ==
  [][pc # "down" /\ lastKnown # None /\ lastKnown' # lastKnown
       => lastKnown' = None /\ trade[lastKnown].times >= 1]_vars

(* A trade that is over is eventually recorded, unless the process ends. *)
EveryCloseRecorded ==
  \A i \in Ids :
    trade[i].status = "closed" ~> trade[i].times >= 1 \/ pc = "down"

(* A position the bot does not know of (its reply was lost, or the process *)
(* restarted) is eventually managed, unless it closes or the process ends. *)
OpenIsEventuallyTracked ==
  \A i \in Ids : i \in open ~> lastKnown = i \/ i \notin open \/ pc = "down"

(* A restart on the same date forgets at most the one close whose          *)
(* iteration had not been saved yet, unless the file was torn by a kill    *)
(* while it was being written.                                             *)
RestartForgetsAtMostOne ==
  [][pc = "down" /\ pc' = "bars" /\ stats.trading_day = hostDay
       /\ file # Corrupt
       => stats'.trade_count >= stats.trade_count - 1]_vars

Desk == INSTANCE TradeDesk WITH
          Dates <- Days,
          date <- stats.trading_day, settled <- stats.trade_count,
          streak <- stats.losses,
          tracked <- lastKnown # None /\ pc # "journal"

(* The live loop keeps the same promises to its bookkeeping as the replay. *)
ImplementsDesk == Desk!DeskSpec

(* What the repository says and the code does not do.                      *)

(* A losing trade counts as a loss, and only a losing one. *)
LossesCountAsLosses ==
  \A i \in Ids :
    trade[i].times = 1 => (trade[i].recorded < 0) = (trade[i].pnl < 0)

(* A position is only recorded as closed once it is closed. *)
RecordedIsClosed ==
  \A i \in Ids : trade[i].times >= 1 => trade[i].status = "closed"

(* Counters that were saved, and are of the exchange's current date,    *)
(* survive a restart.                                                      *)
RestartKeepsCounters ==
  [][pc = "down" /\ pc' = "bars" /\ file = stats /\ stats.trading_day = day
       => stats'.trade_count = stats.trade_count]_vars

(* After a recorded stop-out no position is opened for                     *)
(* cooldown_after_sl_bars M1 bars.                                         *)
CooldownInMinuteBars ==
  [][\A i, j \in Ids :
       i \in open' \ open /\ trade[j].reason = "HARD_SL"
         => minute - trade[j].minute >= CooldownSl]_vars
=============================================================================
