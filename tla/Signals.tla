------------------------------ MODULE Signals -------------------------------
(***************************************************************************)
(* From bars to a decision: the indicators, the M15 trend, the M5          *)
(* confirmation, the M1 trigger and the stop-loss, as operators on         *)
(* sequences of bars [time, open, high, low, close, volume], oldest first. *)
(*                                                                         *)
(* Only the last value of an indicator is ever read.  Prices are integers; *)
(* an instance scales them so that the divisions below are exact, since    *)
(* the program's floating point rounding is not represented.  A VWAP is a  *)
(* fraction [num, den] and is compared by cross-multiplication.            *)
(***************************************************************************)
EXTENDS Lists, Sequences, FiniteSetsExt

CONSTANTS
  NaN,                  \* an indicator that is still warming up
  EmaFast, EmaSlow,     \* ema_fast, ema_slow
  MacdFast, MacdSlow, MacdSignal,
  AtrPeriod,
  \* multiples of ATR, in quarters
  PullbackTolerance, AbnormalMultiple, SlAtrBuffer,
  MinAtrSpread,         \* min_atr_spread_multiple
  SwingLookback,
  DayLength             \* minutes of a calendar date

(* NaN is none of the values it stands in for; the averages refuse a span  *)
(* below one, and validation a swing window.                               *)
ASSUME SignalsAssumption ==
  /\ {EmaFast, EmaSlow, MacdFast, MacdSlow, MacdSignal, AtrPeriod, SwingLookback}
       \subseteq Nat \ {0}
  /\ {PullbackTolerance, AbnormalMultiple, MinAtrSpread} \subseteq Int
  /\ SlAtrBuffer \in Nat
  /\ NaN \notin Int \union {"BUY", "SELL"} \union [num : Int, den : Int]
                  \union [side : {"BUY", "SELL"}, stop : Int]

Abs(n) == IF n < 0 THEN -n ELSE n
Date(bar) == bar.time \div DayLength
Closes(bars) == [i \in DOMAIN bars |-> bars[i].close]
Quarters(n, x) == (n * x) \div 4
LastBars(bars, n) == SubSeq(bars, Max({1, Len(bars) - n + 1}), Len(bars))

-----------------------------------------------------------------------------
(* Indicators.                                                             *)

(* ewm(adjust=False).mean() with alpha = a / b. *)
Ewm(xs, a, b) ==
  LET f[i \in DOMAIN xs] ==
        IF i = 1 THEN xs[1] ELSE ((b - a) * f[i - 1] + a * xs[i]) \div b
  IN  f

(* Its last value, given min_periods. *)
LastEwm(xs, a, b, minPeriods) ==
  IF Len(xs) < minPeriods THEN NaN ELSE Ewm(xs, a, b)[Len(xs)]

Ema(xs, span) == LastEwm(xs, 2, span + 1, span)

(* The MACD line is NaN before both averages are ready; the signal line    *)
(* averages what is left of it.                                            *)
MacdLine(xs) ==
  LET skip == Max({MacdFast, MacdSlow}) - 1
      fast == Ewm(xs, 2, MacdFast + 1)
      slow == Ewm(xs, 2, MacdSlow + 1)
  IN  [i \in 1 .. Len(xs) - skip |-> fast[i + skip] - slow[i + skip]]

MacdHist(xs) ==
  LET line == MacdLine(xs)
      signal == Ema(line, MacdSignal)
  IN  IF signal = NaN THEN NaN ELSE line[Len(line)] - signal

(* Wilder's average of the true range. *)
TrueRanges(bars) ==
  [i \in DOMAIN bars |->
     LET b == bars[i] IN
     IF i = 1 THEN b.high - b.low
     ELSE Max({b.high - b.low, Abs(b.high - bars[i - 1].close),
               Abs(b.low - bars[i - 1].close)})]
Atr(bars) == LastEwm(TrueRanges(bars), 1, AtrPeriod, AtrPeriod)

(* Volume-weighted typical price of the last bar's date, as far as the     *)
(* bars reach back.                                                        *)
Vwap(bars) ==
  LET session == Kept(bars, {b \in ToSet(bars) : Date(b) = Date(Last(bars))})
      volume == Sum([i \in DOMAIN session |-> session[i].volume])
  IN  IF volume = 0 THEN NaN
      ELSE [num |-> Sum([i \in DOMAIN session |->
                           LET b == session[i] IN
                           (b.high + b.low + b.close) * b.volume]),
            den |-> 3 * volume]

-----------------------------------------------------------------------------
(* Decisions.                                                              *)

Direction(up, down) ==
  IF up THEN "UP" ELSE IF down THEN "DOWN" ELSE "NONE"

DetectTrend(bars) ==
  LET close == Last(bars).close
      fast == Ema(Closes(bars), EmaFast)
      slow == Ema(Closes(bars), EmaSlow)
      hist == MacdHist(Closes(bars))
  IN  IF bars = <<>> \/ NaN \in {fast, slow, hist} THEN "NONE"
      ELSE Direction(close > slow /\ fast > slow /\ hist > 0,
                     close < slow /\ fast < slow /\ hist < 0)

(* The same structure, and the close on that side of the VWAP. *)
ConfirmTrend(bars) ==
  LET vwap == Vwap(bars)
      close == Last(bars).close * vwap.den
      trend == DetectTrend(bars)
  IN  IF trend = "NONE" \/ vwap = NaN THEN "NONE"
      ELSE Direction(trend = "UP" /\ close > vwap.num,
                     trend = "DOWN" /\ close < vwap.num)

(* [num, den] prices, at most distance apart. *)
Near(a, b, distance) ==
  Abs(a.num * b.den - b.num * a.den) <= distance * a.den * b.den

Whole(price) == [num |-> price, den |-> 1]

LooseShortSide(bars, trend, cost) ==            \* fault: a side forgotten
  LET row == Last(bars) IN
  CASE trend = "UP" /\ row.close > row.open -> "BUY"
    [] trend = "DOWN" -> "SELL"
    [] OTHER -> NaN

(* The M1 trigger for a trend both timeframes agree on. *)
DetectEntrySignal(bars, trend, cost) ==
  LET row == Last(bars)
      ema == Ema(Closes(bars), EmaFast)
      vwap == Vwap(bars)
      atr == Atr(bars)
      touches(price) ==
        \E line \in {Whole(ema), vwap} :
          Near(Whole(price), line, Quarters(PullbackTolerance, atr))
  IN  IF \/ trend = "NONE" \/ bars = <<>> \/ NaN \in {ema, vwap, atr}
         \/ row.high - row.low > Quarters(AbnormalMultiple, atr)
         \/ atr < MinAtrSpread * cost
        THEN NaN
      ELSE CASE trend = "UP" /\ touches(row.low)
                  /\ row.close > row.open /\ row.close > ema -> "BUY"
             [] trend = "DOWN" /\ touches(row.high)
                  /\ row.close < row.open /\ row.close < ema -> "SELL"
             [] OTHER -> NaN

StopAtOldestBar(bars, side) ==                  \* fault: not the extreme
  LET bar == Head(LastBars(bars, SwingLookback)) IN
  IF side = "BUY" THEN bar.low ELSE bar.high

(* Beyond the extreme of the last swing_lookback bars, by an ATR buffer. *)
CalculateStopLoss(bars, side) ==
  LET window == LastBars(bars, SwingLookback)
      buffer == Quarters(SlAtrBuffer, Atr(bars))
  IN  IF side = "BUY"
        THEN Min({window[i].low : i \in DOMAIN window}) - buffer
        ELSE Max({window[i].high : i \in DOMAIN window}) + buffer

(* run_iteration() from the trends to the stop: a side and a stop, or NaN. *)
Decide(m15, m5, m1, cost) ==
  LET trend == IF DetectTrend(m15) = ConfirmTrend(m5)
                 THEN DetectTrend(m15) ELSE "NONE"
      side == DetectEntrySignal(m1, trend, cost)
  IN  IF side = NaN THEN NaN
      ELSE [side |-> side, stop |-> CalculateStopLoss(m1, side)]
=============================================================================
