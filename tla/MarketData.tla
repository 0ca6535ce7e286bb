----------------------------- MODULE MarketData -----------------------------
(***************************************************************************)
(* The data side of a backtest: a CSV of M1 rows is loaded, cut to a date  *)
(* range and resampled once into M5 and M15 bars; run_replay() then moves  *)
(* the broker's clock over the rows, and at every row the bot loop fetches *)
(* three frames of bars and decides.  What happens to an open position is  *)
(* module Replay's; here an iteration is what it sees and would decide.    *)
(***************************************************************************)
EXTENDS Signals

CONSTANTS
  M5Length, M15Length,     \* minutes of a bucket
  BarLookback,             \* bar_lookback
  VwapBarLookback,         \* VWAP_BAR_LOOKBACK
  StartDate, EndDate,      \* start_date, end_date
  Cost,                    \* get_trading_cost()
  NumRows,                 \* bound: rows of the CSV
  LeadIn,                  \* bound: minutes before StartDate the rows begin
  Steps,                   \* bound: minutes from one row to the next
  Candles                  \* bound: [open, high, low, close, volume]

(* Days are cut into whole buckets, and the lookback the program reserves  *)
(* for the M5 VWAP spans one day.                                          *)
ASSUME MarketAssumption ==
  /\ {M5Length, M15Length, DayLength, NumRows, BarLookback, VwapBarLookback}
       \subseteq Nat \ {0}
  /\ {StartDate, EndDate, LeadIn, Cost} \subseteq Int
  /\ Steps \subseteq Nat
  /\ Candles \subseteq [open : Int, high : Int, low : Int, close : Int,
                        volume : Int]
  /\ M15Length % M5Length = 0 /\ DayLength % M15Length = 0
  /\ VwapBarLookback * M5Length = DayLength

VARIABLES
  file,        \* the rows of the CSV in order of time, as load_ohlcv_csv sorts
  m1, m5, m15, \* the simulated broker's bars
  index        \* its current row

vars == <<file, m1, m5, m15, index>>

Bar(time, candle) ==
  [time |-> time, open |-> candle.open, high |-> candle.high,
   low |-> candle.low, close |-> candle.close, volume |-> candle.volume]

LoadOhlcvCsv(steps, candles) ==
  [i \in 1 .. NumRows |->
     Bar(StartDate * DayLength - LeadIn + Sum(SubSeq(steps, 1, i)), candles[i])]

FilterDateRange(rows) ==
  Kept(rows, {r \in ToSet(rows) : /\ r.time >= StartDate * DayLength
                                  /\ r.time <= EndDate * DayLength + DayLength})

ClosedOnTheRight(time, length) ==               \* fault: closed="right"
  ((time - 1) \div length) * length

(* label="left", closed="left" *)
BucketStart(time, length) == (time \div length) * length

(* first, max, min, last and sum *)
Merged(bar, row) ==
  [bar EXCEPT !.high = Max({@, row.high}), !.low = Min({@, row.low}),
              !.close = row.close, !.volume = @ + row.volume]

(* One more row for the bucket that starts at start. *)
AddRow(bars, row, start) ==
  LET n == Len(bars) IN
  IF n = 0 \/ bars[n].time # start
    THEN Append(bars, [row EXCEPT !.time = start])
    ELSE [bars EXCEPT ![n] = Merged(@, row)]

(* Buckets without a row are dropped. *)
ResampleOhlcv(rows, length) ==
  FoldLeft(LAMBDA bars, row : AddRow(bars, row, BucketStart(row.time, length)),
           <<>>, rows)

Length(timeframe) == IF timeframe = "M5" THEN M5Length ELSE M15Length
Now == m1[index].time

ShowsFormingBucket(timeframe, limit) ==         \* fault: bucket still open
  LET rows == SubSeq(m1, 1, index) IN
  LastBars(IF timeframe = "M1" THEN rows
           ELSE ResampleOhlcv(rows, Length(timeframe)), limit)

ShowsStartedBuckets(timeframe, limit) ==        \* fault: looks ahead
  LET started(bars) == Kept(bars, {b \in ToSet(bars) : b.time <= Now}) IN
  LastBars(CASE timeframe = "M1" -> SubSeq(m1, 1, index)
             [] timeframe = "M5" -> started(m5)
             [] OTHER -> started(m15), limit)

(* The buckets that have ended. *)
Closed(bars, length) ==
  Kept(bars, {b \in ToSet(bars) : b.time + length <= Now})

GetBars(timeframe, limit) ==
  LastBars(CASE timeframe = "M1" -> SubSeq(m1, 1, index)
             [] timeframe = "M5" -> Closed(m5, M5Length)
             [] OTHER -> Closed(m15, M15Length), limit)

SameLookbackForAll(timeframe) ==                \* fault: M5 VWAP cut short
  GetBars(timeframe, BarLookback)

Limit(timeframe) ==
  IF timeframe = "M5" THEN Max({BarLookback, VwapBarLookback}) ELSE BarLookback

(* The frames of one iteration. *)
Frame(timeframe) == GetBars(timeframe, Limit(timeframe))

Decision == Decide(Frame("M15"), Frame("M5"), Frame("M1"), Cost)

(* run_replay() up to its loop; it raises when no row is in the range. *)
Init ==
  /\ \E steps \in [1 .. NumRows -> Steps], candles \in [1 .. NumRows -> Candles] :
       file = LoadOhlcvCsv(steps, candles)
  /\ m1 = FilterDateRange(file)
  /\ m1 # <<>>
  /\ m5 = ResampleOhlcv(m1, M5Length)
  /\ m15 = ResampleOhlcv(m1, M15Length)
  /\ index = 1

SetCurrentBar ==
  /\ index < Len(m1)
  /\ index' = index + 1
  /\ UNCHANGED <<file, m1, m5, m15>>

Next == SetCurrentBar
Spec == Init /\ [][Next]_vars

-----------------------------------------------------------------------------
(* Properties.                                                             *)

Seen == SubSeq(m1, 1, index)
Coarse == {"M5", "M15"}

(* SimulatedBroker.get_bars: an M5 or M15 bar the loop is shown summarises *)
(* rows it has already read, all of them, and none that comes later.       *)
NoLookahead ==
  \A timeframe \in Coarse : \A bar \in ToSet(Frame(timeframe)) :
    LET rows == Kept(Seen, {r \in ToSet(Seen) : r.time \in
                              bar.time .. bar.time + Length(timeframe) - 1})
    IN  /\ bar.open = Head(rows).open /\ bar.close = Last(rows).close
        /\ bar.high = Max({r.high : r \in ToSet(rows)})
        /\ bar.low = Min({r.low : r \in ToSet(rows)})
        /\ bar.volume = Sum([i \in DOMAIN rows |-> rows[i].volume])

(* The new frame is the end of the old one, unchanged, and bars that start *)
(* at least apart after all of it; of the old one only what the limit      *)
(* pushes out is missing.                                                  *)
Continues(old, new, limit, apart) ==
  \E kept \in 0 .. Len(old) :
    /\ kept <= Len(new) /\ (kept < Len(old) => Len(new) = limit)
    /\ SubSeq(new, 1, kept) = SubSeq(old, Len(old) - kept + 1, Len(old))
    /\ \A i \in kept + 1 .. Len(new) : \A bar \in ToSet(old) :
         bar.time + apart <= new[i].time

(* A file may have a minute twice, a resampled series no bucket.           *)
Apart(timeframe) == IF timeframe = "M1" THEN 0 ELSE Length(timeframe)

(* A bar that has been shown is final: the next frame of every timeframe   *)
(* repeats it unchanged, in its place, unless as many newer bars as that   *)
(* timeframe is limited to pushed it out.                                  *)
ShownBarsAreFinal ==
  [][\A timeframe \in Coarse \union {"M1"} :
       Continues(Frame(timeframe), Frame(timeframe)', Limit(timeframe),
                 Apart(timeframe))]_vars

(* filter_date_range is inclusive: it loses no row of the chosen days, and *)
(* keeps of the others at most the one stamped at the midnight that ends   *)
(* the last day.                                                           *)
RangeInclusive ==
  LET chosen == {r \in ToSet(file) : Date(r) \in StartDate .. EndDate} IN
  /\ chosen \subseteq ToSet(m1)
  /\ \A r \in ToSet(m1) \ chosen : r.time = (EndDate + 1) * DayLength

(* The two resampled series agree: resampling the M5 bars gives the M15    *)
(* bars, gaps and missing first minutes included.                          *)
ResamplingComposes == ResampleOhlcv(m5, M15Length) = m15

(* The series the backtest runs on are those of the chosen days.           *)
BarsMatchFile == RangeInclusive /\ ResamplingComposes

(* What the loop calls the session VWAP is one: on M5 always, since        *)
(* VWAP_BAR_LOOKBACK spans a day; on M1 only while the day so far fits in  *)
(* bar_lookback, after which it is the VWAP of the last bars alone.        *)
VwapIsSession ==
  /\ Frame("M5") # <<>> => Vwap(Frame("M5")) = Vwap(GetBars("M5", Len(m5)))
  /\ Len(Kept(Seen, {r \in ToSet(Seen) : Date(r) = Date(m1[index])})) <= BarLookback
       => Vwap(Frame("M1")) = Vwap(Seen)

Mirrored(bars) ==
  [i \in DOMAIN bars |->
     [bars[i] EXCEPT !.open = -@, !.close = -@,
                     !.high = -bars[i].low, !.low = -bars[i].high]]

(* The averages of the frames are not rounded: on such a frame the model's *)
(* integers are the program's numbers.                                     *)
Exact(xs, span) ==
  \A i \in 2 .. Len(xs) :
    ((span - 1) * Ewm(xs, 2, span + 1)[i - 1] + 2 * xs[i]) % (span + 1) = 0
ExactAverages(xs) ==
  /\ \A span \in {EmaFast, EmaSlow, MacdFast, MacdSlow} : Exact(xs, span)
  /\ Exact(MacdLine(xs), MacdSignal)
DivisionsExact ==
  \A timeframe \in Coarse \union {"M1"} : ExactAverages(Closes(Frame(timeframe)))

MirroredDecision(decision) ==
  IF decision = NaN THEN NaN
  ELSE [side |-> IF decision.side = "BUY" THEN "SELL" ELSE "BUY",
        stop |-> -decision.stop]

(* The strategy has no preferred side: on the mirror image of the market   *)
(* it takes the opposite side, with the mirror image of the stop, and it   *)
(* stays out of the one whenever it stays out of the other.                *)
MirrorImage ==
  Decide(Mirrored(Frame("M15")), Mirrored(Frame("M5")), Mirrored(Frame("M1")), Cost)
    = MirroredDecision(Decision)

(* What data and settings must be for a stop to be behind the price:       *)
(* load_ohlcv_csv does not compare the columns of a row with each other,   *)
(* and a buffer that is rounded to nothing leaves the stop at the extreme. *)
ProperCandles == \A c \in Candles : c.low <= c.close /\ c.close <= c.high
BufferCounts == SlAtrBuffer * (MinAtrSpread * Cost) >= 4

IsBehind(decision) ==
  \A bar \in ToSet(LastBars(Frame("M1"), SwingLookback)) :
    IF decision.side = "BUY"
      THEN decision.stop < bar.low /\ decision.stop < m1[index].close
      ELSE decision.stop > bar.high /\ decision.stop > m1[index].close

(* The stop is on the losing side of the price the signal fired at, and    *)
(* beyond every price of the swing window, for either side.                *)
StopBehindSignal == Decision # NaN => IsBehind(Decision)

Power(b, k) ==
  LET p[i \in Nat] == IF i = 0 THEN 1 ELSE b * p[i - 1]
  IN  p[k]

(* The exponentially weighted sum with alpha = a / b, times b ^ (n - 1).   *)
Weighted(xs, a, b) ==
  LET n == Len(xs) IN
  Power(b - a, n - 1) * xs[1]
    + Sum([k \in 1 .. n - 1 |->
             a * Power(b - a, n - 1 - k) * Power(b, k - 1) * xs[k + 1]])

(* The recursive average, with denominators cleared, is the exponentially  *)
(* weighted sum; the true range is the range stretched to the last close.  *)
AveragesMatch ==
  LET xs == Closes(Frame("M1"))
      n == Len(xs)
      ranges == TrueRanges(Frame("M1"))
  IN  /\ \A span \in {EmaFast, EmaSlow} :
           Ewm(xs, 2, span + 1)[n] * Power(span + 1, n - 1)
             = Weighted(xs, 2, span + 1)
      /\ \A i \in 2 .. n :
           LET bar == Frame("M1")[i] IN
           ranges[i] = Max({bar.high, xs[i - 1]}) - Min({bar.low, xs[i - 1]})

(* The indicators are what their names say, on whatever frame the loop is  *)
(* given.                                                                  *)
IndicatorsMatchReference == AveragesMatch /\ VwapIsSession
=============================================================================
