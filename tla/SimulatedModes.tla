--------------------------- MODULE SimulatedModes ---------------------------
(***************************************************************************)
(* The loop against a broker that simulates its orders in memory: the mock *)
(* of the dry run, and the MT5 and Binance adapters while                  *)
(* allow_live_trading is false.  No stop fires here and nothing else acts  *)
(* on the book between two calls, so run_iteration() is one atomic step.   *)
(* But the two adapters read the market again at every call: price may     *)
(* drift between the reads of one iteration (Drift = 0 is the mock), and   *)
(* any of the reads, or the journal, may raise and leave an iteration half *)
(* done.  The loop around it goes on after a raise; that of the dry run    *)
(* does not, which is a session that takes no further step.  The book and  *)
(* the loop's memory die with the process, while the journal and the saved *)
(* counters survive it.                                                    *)
(***************************************************************************)
EXTENDS TradeRules, Lists, Sequences, FiniteSetsExt

CONSTANTS
  None,
  Prices, Cost,       \* mid prices, get_trading_cost()
  Drift,              \* how far price moves within an iteration
  OldJournals,        \* what the journal file may hold at first
  MaxDay, MaxRestarts, MaxFaults      \* bounds

Rows == [pnl : Int, reason : CloseReasons]

ASSUME SimulatedAssumption ==
  /\ {Drift, Cost, MaxDay, MaxRestarts, MaxFaults} \subseteq Nat
  /\ Prices \subseteq Int
  /\ OldJournals \subseteq Seq(Rows)
  /\ None \notin [side : Sides, entry : Int, stop : Int] \cup Int

VARIABLES
  pc,         \* "iterate", "save", "down", "done"
  day,        \* date of the latest M1 bar
  position,   \* _simulated_position: [side, entry, stop] or None
  trades,     \* P&Ls of _simulated_closed_trades
  cache,      \* _stop_loss_by_symbol of the Binance adapter
  stats, cooldown,
  tracked,    \* last_known_position is not None
  breakeven_applied,  \* of open_trade_context, FALSE without one
  file,       \* daily_stats_*.json
  journal,    \* rows [pnl, reason]
  \* history: the date this process started, its first row of the journal,
  \* restarts and rows lost so far, of today this process's P&L, every
  \* process's entries, and the restarts; and those trades of this session
  \* whose row could not be written when they were closed
  started, firstRow, restarts, faults, today, unwritten

broker == <<position, trades, cache>>
loop   == <<stats, cooldown, tracked, breakeven_applied>>
past   == <<started, firstRow, restarts>>
written == <<journal, faults, unwritten>>
vars   == <<pc, day, broker, loop, file, past, written, today>>

Days == 0 .. MaxDay
NothingToday == [pnl |-> 0, entries |-> 0, restarts |-> 0]

Drifted(price) == {p \in Prices : p - price \in -Drift .. Drift}

-----------------------------------------------------------------------------
(* The report printed when a session ends.  Its averages and ratios are    *)
(* quotients of these figures.                                             *)

StreakGoesOn(pnls) ==                           \* fault: never broken
  Len(Kept(pnls, {pnl \in ToSet(pnls) : pnl < 0}))

MaxConsecutiveLosses(pnls) ==
  LET Streak[n \in 0 .. Len(pnls)] ==
        IF n = 0 THEN 0 ELSE StreakAfter(Streak[n - 1], pnls[n])
  IN  Max({Streak[n] : n \in 0 .. Len(pnls)})

CalculateMetrics(rows) ==
  LET pnls == [i \in DOMAIN rows |-> rows[i].pnl]
      breakeven == Len(Kept(rows,
                     {r \in ToSet(rows) : r.reason = "BREAKEVEN_SL"}))
      wins == Len(Kept(rows,
                {r \in ToSet(rows) : r.reason # "BREAKEVEN_SL" /\ r.pnl > 0}))
  IN  [wins |-> wins, breakeven |-> breakeven,
       losses |-> Len(rows) - wins - breakeven,
       grossProfit |-> Sum(Kept(pnls, {pnl \in ToSet(pnls) : pnl > 0})),
       grossLoss |-> -Sum(Kept(pnls, {pnl \in ToSet(pnls) : pnl < 0})),
       netPnl |-> Sum(pnls),
       maxConsecutiveLosses |-> MaxConsecutiveLosses(pnls)]

-----------------------------------------------------------------------------
Init ==
  /\ pc = "iterate" /\ day = 0
  /\ position = None /\ trades = <<>> /\ cache = None
  /\ stats = FreshStats(0) /\ cooldown = 0
  /\ tracked = FALSE /\ breakeven_applied = FALSE
  /\ file = FreshStats(0) /\ journal \in OldJournals
  /\ started = 0 /\ firstRow = Len(journal) + 1
  /\ restarts = 0 /\ faults = 0 /\ today = NothingToday /\ unwritten = {}

TotalOfTheDay == today.pnl                      \* fault: kept by date

(* get_today_realized_pnl() *)
TodayRealizedPnl == Sum(trades)

Refreshed ==
  [MaybeResetDailyStats(stats, day) EXCEPT !.realized = TodayRealizedPnl]

Iteration == pc = "iterate" /\ pc' = "save" /\ UNCHANGED <<day, file, past>>

ForgetStop == cache' = None

(* The position and its context. *)
Forget == tracked' = FALSE /\ breakeven_applied' = FALSE

ForgetsFirst(row) ==                            \* fault: before the row
  Forget /\ \/ journal' = Append(journal, row) /\ UNCHANGED faults
            \/ faults < MaxFaults /\ faults' = faults + 1 /\ UNCHANGED journal

(* The row comes last, after a close is booked and counted.  Its contract  *)
(* size, its cost or the file itself may raise: then there is no row, and  *)
(* the loop still believes in the position.                                *)
WriteTradeJournalRow(row) ==
  \/ journal' = Append(journal, row) /\ Forget /\ UNCHANGED faults
  \/ faults < MaxFaults /\ faults' = faults + 1
     /\ UNCHANGED <<journal, tracked, breakeven_applied>>

RealizedPnl(price) == Pnl(position, price)

(* The broker books pnl; the loop counts and journals its own mark. *)
CloseAt(mark, pnl) ==
  /\ trades' = Append(trades, pnl)
  /\ position' = None /\ ForgetStop
  /\ stats' = RecordClosedTrade(Refreshed, mark)
  /\ cooldown' = StartCooldown(CooldownBarsForReason("TP_CASH"))
  /\ WriteTradeJournalRow([pnl |-> mark, reason |-> "TP_CASH"])
  /\ unwritten' = IF tracked' THEN unwritten \cup {Len(trades')} ELSE unwritten

(* A cash take-profit, the only way a position is ever closed. *)
ManageClose ==
  /\ Iteration /\ position # None
  /\ \E price \in Prices : \E settled \in Drifted(price) :
       LET pnl == RealizedPnl(settled) IN
       /\ ManagePosition(position, Pnl(position, price), Cost) = "CLOSE"
       /\ CloseAt(Pnl(position, price), pnl)
       /\ today' = [today EXCEPT !.pnl = @ + pnl]

ManageModify ==
  /\ Iteration /\ position # None
  /\ \E price \in Prices :
       ManagePosition(position, Pnl(position, price), Cost) = "MODIFY_SL"
  /\ position' = [position EXCEPT !.stop = BreakevenStop(position, Cost)]
  /\ cache' = position'.stop
  /\ stats' = Refreshed /\ tracked' = TRUE /\ breakeven_applied' = TRUE
  /\ UNCHANGED <<trades, cooldown, written, today>>

ManageNone ==
  /\ Iteration /\ position # None
  /\ \E price \in Prices :
       ManagePosition(position, Pnl(position, price), Cost) = "NONE"
  /\ stats' = Refreshed /\ tracked' = TRUE
  /\ UNCHANGED <<broker, cooldown, breakeven_applied, written, today>>

(* The price, the cost or the contract size of a managed position, or the  *)
(* price it would be closed at, cannot be had: nothing is booked.          *)
CallRaises ==
  /\ Iteration /\ position # None
  /\ stats' = Refreshed /\ tracked' = TRUE
  /\ UNCHANGED <<broker, cooldown, breakeven_applied, written, today>>

(* The first reads of an iteration are the bars. *)
GetBarsRaises == Iteration /\ UNCHANGED <<broker, loop, written, today>>

(* A tracked position is gone.  No stop of a simulated position ever       *)
(* fires: this is a close of the loop's own whose row could not be         *)
(* written, taken for a stop-out and counted a second time.                *)
VanishedReason == IF breakeven_applied THEN "BREAKEVEN_SL" ELSE "HARD_SL"
VanishedPnl == TodayRealizedPnl - MaybeResetDailyStats(stats, day).realized

RecordVanished ==
  /\ Iteration /\ position = None /\ tracked
  /\ stats' = RecordClosedTrade(Refreshed, VanishedPnl)
  /\ cooldown' = StartCooldown(CooldownBarsForReason(VanishedReason))
  /\ WriteTradeJournalRow([pnl |-> VanishedPnl, reason |-> VanishedReason])
  /\ UNCHANGED <<broker, today, unwritten>>

(* No position, and none is tracked. *)
Scanning ==
  Iteration /\ position = None /\ ~tracked /\ stats' = Refreshed

GuardBlocks ==
  /\ Scanning /\ ~TradingAllowed(Refreshed)
  /\ UNCHANGED <<broker, cooldown, tracked, breakeven_applied, written, today>>

(* The cooldown, the cost or the signal stands in the way, or the cost or  *)
(* the price of the entry cannot be had.                                   *)
NoEntry ==
  /\ Scanning /\ TradingAllowed(Refreshed)
  /\ cooldown' = Tick(cooldown)
  /\ UNCHANGED <<broker, tracked, breakeven_applied, written, today>>

(* Filled at the price of this moment; the stop is the caller's. *)
Enter ==
  /\ Scanning /\ TradingAllowed(Refreshed)
  /\ cooldown' = Tick(cooldown) /\ ~IsActive(Tick(cooldown))
  /\ Cost * Quantity < TpCash
  /\ \E side \in Sides, entry, stop \in Prices :
       /\ IF side = "BUY" THEN stop < entry ELSE stop > entry
       /\ position' = [side |-> side, entry |-> entry, stop |-> stop]
  /\ cache' = position'.stop /\ tracked' = TRUE /\ breakeven_applied' = FALSE
  /\ today' = [today EXCEPT !.entries = @ + 1]
  /\ UNCHANGED <<trades, written>>

RunIteration ==
  \/ ManageClose \/ ManageModify \/ ManageNone \/ RecordVanished
  \/ GuardBlocks \/ NoEntry \/ Enter
  \/ GetBarsRaises \/ CallRaises

-----------------------------------------------------------------------------
(* The continuous loop around it, as far as memory and files go.           *)

SaveNothing ==                                  \* fault: saved on exit only
  /\ pc = "save" /\ pc' = "iterate"
  /\ UNCHANGED <<day, broker, loop, past, written, today, file>>

SaveDailyStats ==
  /\ pc = "save" /\ pc' = "iterate" /\ file' = stats
  /\ UNCHANGED <<day, broker, loop, past, written, today>>

(* The last iteration asked for, or a signal: the report is printed. *)
Leave ==
  /\ pc = "save" /\ pc' = "done" /\ file' = stats
  /\ UNCHANGED <<day, broker, loop, past, written, today>>

DayTurns ==
  /\ pc = "iterate" /\ day < MaxDay
  /\ day' = day + 1 /\ today' = NothingToday
  /\ UNCHANGED <<pc, broker, loop, file, past, written>>

(* A new process: an empty book and a fresh LoopState, but for the         *)
(* counters saved under today's date.  The old one may have gone at any    *)
(* moment, or given up after an error without saving.                      *)
Restart ==
  /\ restarts < MaxRestarts
  /\ pc' = "iterate" /\ restarts' = restarts + 1
  /\ position' = None /\ trades' = <<>> /\ cache' = None
  /\ stats' = MaybeResetDailyStats(file, day)
  /\ cooldown' = 0 /\ Forget
  /\ started' = day /\ firstRow' = Len(journal) + 1 /\ unwritten' = {}
  /\ today' = [today EXCEPT !.pnl = 0, !.restarts = @ + 1]
  /\ UNCHANGED <<day, file, journal, faults>>

Next == RunIteration \/ SaveDailyStats \/ Leave \/ DayTurns \/ Restart
Spec == Init /\ [][Next]_vars

-----------------------------------------------------------------------------
(* Properties.                                                             *)

(* Types of the book, the loop's memory and the files. *)
TypeOK ==
  /\ pc \in {"iterate", "save", "done"} /\ day \in Days /\ started \in Days
  /\ position \in [side : Sides, entry : Int, stop : Int] \cup {None}
  /\ trades \in Seq(Int) /\ cache \in Int \cup {None}
  /\ stats \in DailyStats(Days) /\ file \in DailyStats(Days)
  /\ cooldown \in Nat /\ tracked \in BOOLEAN /\ breakeven_applied \in BOOLEAN
  /\ journal \in Seq(Rows) /\ firstRow \in 1 .. Len(journal) + 1
  /\ restarts \in 0 .. MaxRestarts /\ faults \in 0 .. MaxFaults
  /\ unwritten \in SUBSET (1 .. Len(trades))
  /\ today \in [pnl : Int, entries : Nat, restarts : Nat]

(* The loop tracks every position the broker has, and believes in one that *)
(* is gone only while the close of the last trade still waits for its row. *)
RowPending == tracked /\ position = None
NothingVanishes ==
  /\ position # None => tracked
  /\ RowPending => Len(trades) \in unwritten

(* The session's rows and the broker's book tell the same story: one row   *)
(* per trade, in their order, but for the row still pending.  A row        *)
(* written at the close is within the drift of what the daily guard will   *)
(* sum.  One written later takes the difference of two totals: the trade's *)
(* own P&L, unless midnight passed (the session's P&L) or the total was    *)
(* refreshed by an attempt that failed too (nothing).                      *)
JournalWithinDrift ==
  LET rows == SubSeq(journal, firstRow, Len(journal)) IN
  /\ Len(trades) = Len(rows) + IF RowPending THEN 1 ELSE 0
  /\ \A i \in DOMAIN rows :
       IF i \in unwritten
         THEN rows[i].pnl \in {trades[i], 0, Sum(SubSeq(trades, 1, i))}
         ELSE rows[i].pnl - trades[i] \in -Drift * Quantity .. Drift * Quantity

(* The simulated "today" is the whole session.  It is the day's P&L on the *)
(* date the process started, and counts earlier dates from then on.        *)
TotalIsTodaysOnFirstDate ==
  day = started => TodayRealizedPnl = today.pnl

(* A session that made its profit target is over for good, not for the     *)
(* day: until the process restarts no entry follows on any later date.     *)
TargetEndsSession ==
  [][started' = started /\ restarts' = restarts /\ position = None
       /\ Sum(trades) >= ProfitTarget => position' = None]_vars

(* What the total of a session is, and what follows from it.               *)
TotalIsTheSessions == []TotalIsTodaysOnFirstDate /\ TargetEndsSession

(* A restart forgets at most one close, since the counters are saved after *)
(* every iteration, or the open simulated position, which was never        *)
(* counted: so a date sees at most one entry beyond the limit per restart. *)
EntriesWithinLimit ==
  today.entries <= MaxTrades + today.restarts

(* The Binance adapter's record of the stop is the position's own, through *)
(* entries, moves, closes and restarts.                                    *)
CacheMatchesPosition ==
  cache = IF position = None THEN None ELSE position.stop

(* Everything that mirrors the simulated book agrees with it.              *)
BookIsMirrored == NothingVanishes /\ JournalWithinDrift /\ CacheMatchesPosition

(* A simulated session books nothing but take-profits.  A row written at   *)
(* the close says so, with at least tp_cash, whatever price did to the     *)
(* position in between; a stop-out or a breakeven stop is journaled for    *)
(* those closes alone whose own row could not be written.  And as long as  *)
(* price drifts by no more than a take-profit within an iteration, not     *)
(* even such a row is a loss, and the losing streak never grows.           *)
SimulationNeverLoses ==
  LET session == firstRow .. Len(journal) IN
  /\ \A i \in session :
       IF i - firstRow + 1 \in unwritten THEN journal[i].reason # "TP_CASH"
       ELSE journal[i].reason = "TP_CASH" /\ journal[i].pnl >= TpCash
  /\ Drift * Quantity <= TpCash =>
       /\ \A i \in session : journal[i].pnl >= 0
       /\ stats.losses = 0

(* The report's figures are those of the journal, rows of earlier sessions *)
(* included: every row is a win, a loss or a breakeven, the net is what    *)
(* the gross figures leave, and the streak is the longest run of losses.   *)
MetricsMatchJournal ==
  LET m == CalculateMetrics(journal)
      rows == DOMAIN journal
      runs == {r \in rows \X rows :
                 \A i \in r[1] .. r[2] : journal[i].pnl < 0}
  IN  /\ m.losses = Cardinality({i \in rows :
            journal[i].reason # "BREAKEVEN_SL" /\ journal[i].pnl <= 0})
      /\ m.netPnl = m.grossProfit - m.grossLoss
      /\ m.grossProfit >= 0 /\ m.grossLoss >= 0
      /\ m.maxConsecutiveLosses = Max({0} \cup {r[2] - r[1] + 1 : r \in runs})
=============================================================================
