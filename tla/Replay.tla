------------------------------- MODULE Replay -------------------------------
(***************************************************************************)
(* The backtest: run_replay() advances a SimulatedBroker one M1 row at a   *)
(* time, lets the broker fire the stop-loss of the open position on its    *)
(* own, and then runs exactly one run_iteration() against it.              *)
(*                                                                         *)
(* A row is handled in two steps, NextBar (the broker's) and one of the    *)
(* outcomes of run_iteration (the bot's); pc says which of the two is due. *)
(*                                                                         *)
(* Abstractions.                                                           *)
(*  - Market data is an arbitrary row of Bars.  The open of the following  *)
(*    row is chosen when a fill first reads it, and the next row must then *)
(*    have that open.                                                      *)
(*  - The trend, confirmation and M1 trigger are an arbitrary choice of a  *)
(*    side among those whose candle the trigger accepts, with an arbitrary *)
(*    stop on the losing side of the row, as calculate_stop_loss returns.  *)
(*  - The list of closed trades is kept as what the program reads of it:   *)
(*    the totals of the current date, the number of trades, the last one.  *)
(***************************************************************************)
EXTENDS TradeRules

CONSTANTS
  Prices,        \* the price grid
  Bars,          \* M1 rows: [open, low, high, close]
  Stops,         \* bound: the stop prices calculate_stop_loss may return
  HalfSpread,    \* spread_points_or_price / 2
  Slippage,      \* slippage_points_or_price
  FeeOf,         \* FeeOf[close] = 2 * fee_rate * close, in price ticks
  NumBars,       \* rows in the CSV after filtering
  MaxDay,        \* bound: the last calendar day of the data
  None           \* Python's None

Positions == [id : Nat, side : Sides, entry : Int, stop : Int]
Contexts == [breakeven : BOOLEAN]
ClosedTrades == [id : Nat, pnl : Int, bar : Nat]
JournalRows == [id : Nat, pnl : Int, reason : CloseReasons]
Days == 0 .. MaxDay

ASSUME ReplayAssumption ==
  /\ Prices \subseteq Int /\ Stops \subseteq Int
  /\ Bars \subseteq [open : Prices, low : Prices, high : Prices,
                     close : Prices]
  /\ \A b \in Bars : /\ b.low <= b.open /\ b.open <= b.high
                     /\ b.low <= b.close /\ b.close <= b.high
  /\ HalfSpread \in Nat /\ Slippage \in Nat
  /\ FeeOf \in [Prices -> Nat]
  /\ NumBars \in Nat \ {0} /\ MaxDay \in Nat
  /\ None \notin Bars \cup Int \cup Positions \cup Contexts
                  \cup ClosedTrades \cup JournalRows

VARIABLES
  pc,         \* "bar": the broker's step is due; "iterate": the bot's is
  bar,        \* rows handed to the broker so far (_current_index + 1)
  day,        \* calendar date of the current row
  cur,        \* the current row while its iteration is due, else None
  nextOpen,   \* open of the following row if a fill has read it, else None
  \* SimulatedBroker
  position,   \* [id, side, entry, stop] or None
  counter,    \* _position_counter
  today,      \* trades dated today: [pnl, closes, streak, opens]
  trades,     \* len(_closed_trades)
  lastTrade,  \* the last closed trade: [id, pnl, bar], or None
  \* LoopState
  stats, cooldown, lastKnown,
  context,    \* [breakeven : BOOLEAN] or None (open_trade_context)
  journal     \* [rows, last]: rows written, the last one [id, pnl, reason]

clock   == <<pc, bar, day, cur, nextOpen>>
broker  == <<position, counter, today, trades, lastTrade>>
loop    == <<stats, cooldown, lastKnown, context>>
vars    == <<clock, broker, loop, journal>>

NoTradesToday == [pnl |-> 0, closes |-> 0, streak |-> 0, opens |-> 0]

-----------------------------------------------------------------------------
(* SimulatedBroker's pricing.                                              *)

FillPrice(side, base) ==
  IF side = "BUY" THEN base + HalfSpread + Slippage
                  ELSE base - HalfSpread - Slippage

TradingCost == 2 * HalfSpread + FeeOf[cur.close]

UnrealizedPnl == Pnl(position, cur.close)

StopHit(b) ==
  /\ position # None
  /\ \/ position.side = "BUY" /\ b.low <= position.stop
     \/ position.side = "SELL" /\ b.high >= position.stop

(* Append a ClosedTrade dated d, of the open position, and drop it.        *)
BookClose(todays, index, pnl) ==
  /\ today' = [todays EXCEPT !.pnl = @ + pnl, !.closes = @ + 1,
                             !.streak = StreakAfter(@, pnl)]
  /\ trades' = trades + 1
  /\ lastTrade' = [id |-> position.id, pnl |-> pnl, bar |-> index]
  /\ position' = None
  /\ UNCHANGED counter

-----------------------------------------------------------------------------
Init ==
  /\ pc = "bar" /\ bar = 0 /\ day = 0 /\ cur = None /\ nextOpen = None
  /\ position = None /\ counter = 0 /\ today = NoTradesToday
  /\ trades = 0 /\ lastTrade = None
  /\ stats = FreshStats(0) /\ cooldown = 0
  /\ lastKnown = None /\ context = None
  /\ journal = [rows |-> 0, last |-> None]

(* set_current_bar(i) and check_and_apply_stop_loss(): the clock moves to  *)
(* the next row, perhaps on a later date, and a breached stop is filled    *)
(* exactly at its price.                                                   *)
NextBar ==
  /\ pc = "bar" /\ bar < NumBars
  /\ \E b \in Bars, d \in {day, day + 1} \cap Days :
       LET todays == IF d = day THEN today ELSE NoTradesToday IN
       /\ nextOpen \in {None, b.open}
       /\ day' = d /\ cur' = b
       /\ IF StopHit(b)
            THEN BookClose(todays, bar + 1, Pnl(position, position.stop))
            ELSE /\ today' = todays
                 /\ UNCHANGED <<position, counter, trades, lastTrade>>
  /\ bar' = bar + 1 /\ pc' = "iterate" /\ nextOpen' = None
  /\ UNCHANGED <<loop, journal>>

-----------------------------------------------------------------------------
(* One run_iteration(): the prologue every outcome shares, then one action *)
(* per way it returns.                                                     *)

StaleStats == MaybeResetDailyStats(stats, day)  \* fault: P&L not read

(* daily_stats once the date is checked and the broker's P&L is read.      *)
Refreshed ==
  [MaybeResetDailyStats(stats, day) EXCEPT !.realized = today.pnl]

EndIteration ==
  /\ pc = "iterate" /\ pc' = "bar" /\ cur' = None
  /\ UNCHANGED <<bar, day>>

WriteJournalRow(id, pnl, reason) ==
  journal' = [rows |-> journal.rows + 1,
              last |-> [id |-> id, pnl |-> pnl, reason |-> reason]]

RecordKeepsTracking(pnl, reason) ==             \* fault: not forgotten
  /\ stats' = RecordClosedTrade(Refreshed, pnl)
  /\ cooldown' = StartCooldown(CooldownBarsForReason(reason))
  /\ context' = None /\ UNCHANGED lastKnown

RecordClose(pnl, reason) ==
  /\ stats' = RecordClosedTrade(Refreshed, pnl)
  /\ cooldown' = StartCooldown(CooldownBarsForReason(reason))
  /\ lastKnown' = None /\ context' = None

(* The broker reports no position though one was being tracked: its stop   *)
(* fired, and the trade's P&L is what today's total moved by.              *)
RecordVanished ==
  /\ EndIteration
  /\ position = None /\ lastKnown # None
  /\ LET pnl == today.pnl - MaybeResetDailyStats(stats, day).realized
         reason == IF context # None /\ context.breakeven
                     THEN "BREAKEVEN_SL" ELSE "HARD_SL"
     IN RecordClose(pnl, reason) /\ WriteJournalRow(lastKnown.id, pnl, reason)
  /\ UNCHANGED <<nextOpen, broker>>

(* Cash take-profit: the broker closes at the row's close less spread and  *)
(* slippage, the bot records the mark it decided on.                       *)
ManageClose ==
  /\ EndIteration
  /\ position # None
  /\ ManagePosition(position, UnrealizedPnl, TradingCost) = "CLOSE"
  /\ BookClose(today, bar,
       Pnl(position, FillPrice(Opposite(position.side), cur.close)))
  /\ RecordClose(UnrealizedPnl, "TP_CASH")
  /\ WriteJournalRow(position.id, UnrealizedPnl, "TP_CASH")
  /\ UNCHANGED nextOpen

(* Breakeven lock.  last_known_position is the broker's own object here.   *)
ManageModify ==
  /\ EndIteration
  /\ position # None
  /\ ManagePosition(position, UnrealizedPnl, TradingCost) = "MODIFY_SL"
  /\ position' = [position EXCEPT !.stop = BreakevenStop(position, TradingCost)]
  /\ lastKnown' = position'
  /\ context' = IF context = None THEN None ELSE [breakeven |-> TRUE]
  /\ stats' = Refreshed
  /\ UNCHANGED <<nextOpen, counter, today, trades, lastTrade, cooldown, journal>>

ManageNone ==
  /\ EndIteration
  /\ position # None
  /\ ManagePosition(position, UnrealizedPnl, TradingCost) = "NONE"
  /\ lastKnown' = position /\ stats' = Refreshed
  /\ UNCHANGED <<nextOpen, broker, cooldown, context, journal>>

(* No position and none tracked: the bot may look for an entry.            *)
Scanning == EndIteration /\ position = None /\ lastKnown = None

GuardBlocks ==
  /\ Scanning /\ ~TradingAllowed(Refreshed)
  /\ stats' = Refreshed
  /\ UNCHANGED <<nextOpen, broker, cooldown, lastKnown, context, journal>>

(* Past the guard the cooldown ticks, whatever is decided afterwards.      *)
Ticked ==
  /\ Scanning /\ TradingAllowed(Refreshed)
  /\ stats' = Refreshed /\ cooldown' = Tick(cooldown)

CoolingDown ==
  /\ Ticked /\ IsActive(Tick(cooldown))
  /\ UNCHANGED <<nextOpen, broker, lastKnown, context, journal>>

CostTooHigh == TradingCost * Quantity >= TpCash

(* Entries the M1 trigger can ask for on row b: with the candle's          *)
(* direction, and a stop beyond the row's own extreme.                     *)
EntrySignals(b) ==
  [side : {"BUY"}, stop : {s \in Stops : b.close > b.open /\ s <= b.low}]
  \cup
  [side : {"SELL"}, stop : {s \in Stops : b.close < b.open /\ s >= b.high}]

(* Cost too high, trends that disagree, no trigger, or no computable stop. *)
NoEntry ==
  /\ Ticked /\ ~IsActive(Tick(cooldown))
  /\ UNCHANGED <<nextOpen, broker, lastKnown, context, journal>>

(* open_market_order(): filled at the open of the next row, or at this     *)
(* row's close when there is none.                                         *)
Enter ==
  /\ Ticked /\ ~IsActive(Tick(cooldown)) /\ ~CostTooHigh
  /\ \E signal \in EntrySignals(cur),
        o \in IF bar < NumBars THEN {b.open : b \in Bars} ELSE {cur.close} :
       /\ nextOpen' = IF bar < NumBars THEN o ELSE None
       /\ position' = [id |-> counter + 1, side |-> signal.side,
                       entry |-> FillPrice(signal.side, o),
                       stop |-> signal.stop]
  /\ counter' = counter + 1
  /\ today' = [today EXCEPT !.opens = @ + 1]
  /\ lastKnown' = position' /\ context' = [breakeven |-> FALSE]
  /\ UNCHANGED <<trades, lastTrade, journal>>

RunIteration ==
  \/ RecordVanished \/ ManageClose \/ ManageModify \/ ManageNone
  \/ GuardBlocks \/ CoolingDown \/ NoEntry \/ Enter

Next == NextBar \/ RunIteration

Spec == Init /\ [][Next]_vars

-----------------------------------------------------------------------------
(* Properties.                                                             *)

(* Type correctness of the broker's and the loop's state. *)
TypeOK ==
  /\ pc \in {"bar", "iterate"} /\ bar \in 0 .. NumBars /\ day \in Days
  /\ cur \in Bars \cup {None} /\ (pc = "iterate") = (cur # None)
  /\ nextOpen \in Prices \cup {None}
  /\ position \in Positions \cup {None}
  /\ counter \in Nat /\ trades \in Nat
  /\ today \in [pnl : Int, closes : Nat, streak : Nat, opens : Nat]
  /\ lastTrade \in ClosedTrades \cup {None}
  /\ stats \in DailyStats(Days) /\ cooldown \in Nat
  /\ lastKnown \in Positions \cup {None}
  /\ context \in Contexts \cup {None}
  /\ journal \in [rows : Nat, last : JournalRows \cup {None}]

(* Every trade the broker closed, whether the bot asked for it or its stop *)
(* fired, is counted exactly once, on the date it closed, and journalled   *)
(* once, by the end of the same row's iteration.                           *)
EveryCloseCountedOnce ==
  pc = "bar" => /\ stats.trade_count = today.closes
                /\ journal.rows = trades

(* An exit at the take-profit mark cannot turn into a loss at the fill.    *)
CheapExit == (HalfSpread + Slippage) * Quantity <= TpCash

(* The losing streak the guard reads is the streak of today's trades as    *)
(* the broker settled them, not merely as the bot marked them.             *)
StreakIsBrokers == pc = "bar" => stats.losses = today.streak

(* No calendar day sees more entries than max_trades_per_day, although the *)
(* guard counts closes and a position may be carried over midnight.        *)
EntriesWithinDailyLimit == today.opens <= MaxTrades

(* The P&L of a close the bot did not order, computed as a difference of   *)
(* two daily totals read one row apart, is that trade's own P&L, and the   *)
(* row is about that trade.                                                *)
VanishedPnlIsTrades ==
  pc = "bar" /\ journal.last # None =>
    /\ journal.last.id = lastTrade.id
    /\ journal.last.reason # "TP_CASH" => journal.last.pnl = lastTrade.pnl

(* A close labelled BREAKEVEN_SL made at least the locked profit.          *)
BreakevenLocksProfit ==
  journal.last # None /\ journal.last.reason = "BREAKEVEN_SL" =>
    journal.last.pnl >= BeLock

(* No step enters the market on a day whose settled trades already breach  *)
(* a limit of the daily guard.                                             *)
NoEntryPastGuard ==
  [][position = None /\ position' # None =>
       /\ today.pnl < ProfitTarget /\ today.pnl > MaxLoss
       /\ today.streak < MaxConsecLosses
       /\ today.closes < MaxTrades]_vars

(* Between a close and the next entry at least the cooldown of the         *)
(* recorded close reason passes, counted in rows.                          *)
CooldownHonoured ==
  [][position = None /\ position' # None /\ journal.last # None =>
       /\ bar > lastTrade.bar
       /\ bar - lastTrade.bar >= CooldownBarsForReason(journal.last.reason)]_vars

(* While a position lives its stop only ever moves towards more profit.    *)
StopNeverRegresses ==
  [][position # None /\ position' # None =>
       /\ position'.id = position.id /\ position'.entry = position.entry
       /\ IF position.side = "BUY" THEN position'.stop >= position.stop
                                   ELSE position'.stop <= position.stop]_vars

Desk == INSTANCE TradeDesk WITH
          Dates <- Days,
          date <- stats.trading_day, settled <- stats.trade_count,
          streak <- stats.losses, tracked <- lastKnown # None

(* The loop state's counters and its tracked position behave as a trading  *)
(* desk that settles each tracked trade exactly once and never enters past *)
(* a limit.                                                                *)
ImplementsDesk == Desk!DeskSpec
=============================================================================
