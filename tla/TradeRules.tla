----------------------------- MODULE TradeRules -----------------------------
(***************************************************************************)
(* The pure decision rules every driver of the bot shares: the bar-counted *)
(* cooldown, the daily guard, the bookkeeping of a closed trade, the       *)
(* calendar-day reset, and the management of the one open position.        *)
(*                                                                         *)
(* Cash is an integer number of cash units, prices are integer ticks.      *)
(* A definition marked "fault" is a plausible mistake in the one after it; *)
(* no specification uses it except to show that a property would notice.   *)
(***************************************************************************)
EXTENDS Integers

CONSTANTS
  TpCash,             \* tp_cash: profit at which the bot closes a position
  BeTrigger,          \* breakeven_trigger_cash: profit at which the stop moves
  BeLock,             \* breakeven_lock_cash: profit the moved stop locks in
  ProfitTarget,       \* daily_profit_target
  MaxLoss,            \* daily_max_loss, a negative amount
  MaxConsecLosses,    \* max_consecutive_losses
  MaxTrades,          \* max_trades_per_day
  CooldownTp, CooldownBe, CooldownSl,   \* cooldown_after_{tp,be,sl}_bars
  Quantity            \* default_quantity * contract_size: cash per price tick

(* What StrategyConfig's validator accepts, and the exact division the     *)
(* integer price grid needs.  daily_profit_target and                      *)
(* max_consecutive_losses are not validated by the program.                *)
ASSUME ConfigAssumption ==
  /\ TpCash \in Nat \ {0}
  /\ BeTrigger \in Nat \ {0}
  /\ BeLock \in Int
  /\ ProfitTarget \in Int
  /\ MaxLoss \in Int /\ MaxLoss < 0
  /\ MaxConsecLosses \in Int
  /\ MaxTrades \in Nat \ {0}
  /\ CooldownTp \in Int /\ CooldownBe \in Int /\ CooldownSl \in Int
  /\ Quantity \in Nat \ {0}
  /\ (BeLock \div Quantity) * Quantity = BeLock

Sides == {"BUY", "SELL"}
Opposite(side) == IF side = "BUY" THEN "SELL" ELSE "BUY"
CloseReasons == {"TP_CASH", "BREAKEVEN_SL", "HARD_SL"}

-----------------------------------------------------------------------------
(* Cooldown: a counter started by a close and ticked down to zero.         *)

CooldownBarsForReason(reason) ==
  CASE reason = "TP_CASH" -> CooldownTp
    [] reason = "BREAKEVEN_SL" -> CooldownBe
    [] reason = "HARD_SL" -> CooldownSl
    [] OTHER -> 0

AtLeastZero(n) == IF n < 0 THEN 0 ELSE n

ShortCooldown(bars) == AtLeastZero(bars - 1)    \* fault: loses a bar
StartCooldown(bars) == AtLeastZero(bars)

UnclampedTick(cooldown) == cooldown - 1         \* fault: no floor
Tick(cooldown) == AtLeastZero(cooldown - 1)
IsActive(cooldown) == cooldown > 0

-----------------------------------------------------------------------------
(* Daily statistics and the guard over them.                               *)

DailyStats(D) == [trading_day : D, realized : Int, trade_count : Nat,
                  losses : Nat]

FreshStats(day) == [trading_day |-> day, realized |-> 0, trade_count |-> 0,
                    losses |-> 0]

LenientGuard(stats) ==                          \* fault: off by one
  /\ stats.realized < ProfitTarget
  /\ stats.realized > MaxLoss
  /\ stats.losses < MaxConsecLosses
  /\ stats.trade_count <= MaxTrades

(* The list of blocked reasons is empty. *)
TradingAllowed(stats) ==
  /\ stats.realized < ProfitTarget
  /\ stats.realized > MaxLoss
  /\ stats.losses < MaxConsecLosses
  /\ stats.trade_count < MaxTrades

ResetKeepsStreak(stats, day) ==                 \* fault: partial reset
  IF stats.trading_day = day THEN stats
  ELSE [FreshStats(day) EXCEPT !.losses = stats.losses]

ResetKeepsRealized(stats, day) ==               \* fault: partial reset
  IF stats.trading_day = day THEN stats
  ELSE [FreshStats(day) EXCEPT !.realized = stats.realized]

MaybeResetDailyStats(stats, day) ==
  IF stats.trading_day = day THEN stats ELSE FreshStats(day)

(* A losing streak after one more close that made pnl. *)
StreakAfter(streak, pnl) == IF pnl < 0 THEN streak + 1 ELSE 0

RecordClosedTrade(stats, pnl) ==
  [stats EXCEPT !.trade_count = @ + 1, !.losses = StreakAfter(@, pnl)]

-----------------------------------------------------------------------------
(* The open position.                                                      *)

Pnl(position, price) ==
  (IF position.side = "BUY" THEN price - position.entry
                            ELSE position.entry - price) * Quantity

CashToPriceDistance(cash) == cash \div Quantity

ImprovesAlways(side, current, candidate) == current # candidate   \* fault

ImprovesStopLoss(side, current, candidate) ==
  IF side = "BUY" THEN candidate > current ELSE candidate < current

LockOnLosingSide(position, cost) ==             \* fault: sign slip
  IF position.side = "BUY"
    THEN position.entry - CashToPriceDistance(BeLock)
    ELSE position.entry + CashToPriceDistance(BeLock)

BreakevenStop(position, cost) ==
  IF position.side = "BUY"
    THEN position.entry + CashToPriceDistance(BeLock) + cost
    ELSE position.entry - CashToPriceDistance(BeLock) - cost

TakesProfitEarly(position, unrealized, cost) == \* fault: wrong threshold
  IF unrealized >= BeTrigger THEN "CLOSE" ELSE "NONE"

(* manage_position(): take profit first, then the breakeven lock.          *)
ManagePosition(position, unrealized, cost) ==
  CASE unrealized >= TpCash -> "CLOSE"
    [] /\ unrealized < TpCash
       /\ unrealized >= BeTrigger
       /\ ImprovesStopLoss(position.side, position.stop,
                           BreakevenStop(position, cost)) -> "MODIFY_SL"
    [] OTHER -> "NONE"
=============================================================================
