---------------------------- MODULE ReplayProofs ----------------------------
(***************************************************************************)
(* Proofs about the backtest for every market data set, price grid, number *)
(* of rows and strategy configuration the program accepts.                 *)
(***************************************************************************)
EXTENDS Replay, TLAPS

USE DEF Days

-----------------------------------------------------------------------------
(* Facts about the rules: what they return.                                *)

(* The P&L of a position at a price is an integer amount. *)
LEMMA PnlIsInt ==
  ASSUME NEW p \in Positions, NEW x \in Int
  PROVE  Pnl(p, x) \in Int
<1>1. Quantity \in Int
  BY ConfigAssumption
<1>2. x - p.entry \in Int /\ p.entry - x \in Int
  BY DEF Positions
<1> QED
  BY <1>1, <1>2 DEF Pnl

(* The calendar-day reset and the refresh keep the statistics well typed. *)
LEMMA StatsType ==
  ASSUME stats \in DailyStats(Days), day \in Days, today.pnl \in Int
  PROVE  /\ MaybeResetDailyStats(stats, day) \in DailyStats(Days)
         /\ Refreshed \in DailyStats(Days)
BY DEF MaybeResetDailyStats, Refreshed, FreshStats, DailyStats

(* Recording a close keeps the statistics well typed. *)
LEMMA RecordType ==
  ASSUME NEW s \in DailyStats(Days), NEW pnl \in Int
  PROVE  RecordClosedTrade(s, pnl) \in DailyStats(Days)
<1>1. s.trade_count + 1 \in Nat /\ s.losses \in Nat
  BY DEF DailyStats
<1>2. StreakAfter(s.losses, pnl) \in Nat
  BY <1>1 DEF StreakAfter
<1> QED
  BY <1>1, <1>2 DEF RecordClosedTrade, DailyStats

(* A cooldown never goes below zero. *)
LEMMA CooldownType ==
  /\ \A n \in Nat : Tick(n) \in Nat
  /\ \A r \in CloseReasons : StartCooldown(CooldownBarsForReason(r)) \in Nat
<1>1. \A n \in Int : AtLeastZero(n) \in Nat
  BY DEF AtLeastZero
<1>2. \A r \in CloseReasons : CooldownBarsForReason(r) \in Int
  BY ConfigAssumption DEF CloseReasons, CooldownBarsForReason
<1> QED
  BY <1>1, <1>2 DEF Tick, StartCooldown

(* The prices the broker computes are integers. *)
LEMMA PriceType ==
  ASSUME NEW b \in Bars, cur = b
  PROVE  /\ b.open \in Prices /\ b.close \in Prices
         /\ b.open \in Int /\ b.close \in Int
         /\ TradingCost \in Nat
         /\ \A s \in Sides, x \in Int : FillPrice(s, x) \in Int
         /\ \A p \in Positions : BreakevenStop(p, TradingCost) \in Int
<1>1. b.open \in Prices /\ b.close \in Prices
  BY ReplayAssumption
<1>2. FeeOf[b.close] \in Nat /\ Prices \subseteq Int
  BY <1>1, ReplayAssumption
<1>3. TradingCost \in Nat
  BY <1>2, ReplayAssumption DEF TradingCost
<1>4. ASSUME NEW s \in Sides, NEW x \in Int
      PROVE  FillPrice(s, x) \in Int
  BY ReplayAssumption DEF FillPrice
<1>5. CashToPriceDistance(BeLock) \in Int
  BY ConfigAssumption DEF CashToPriceDistance
<1>6. ASSUME NEW p \in Positions
      PROVE  BreakevenStop(p, TradingCost) \in Int
  BY <1>3, <1>5 DEF BreakevenStop, Positions
<1> QED
  BY <1>1, <1>2, <1>3, <1>4, <1>6

-----------------------------------------------------------------------------
(* Type correctness.                                                       *)

(* Booking a close at an integer P&L keeps the broker's state well typed.  *)
LEMMA BookCloseType ==
  ASSUME TypeOK, position # None,
         NEW todays \in [pnl : Int, closes : Nat, streak : Nat, opens : Nat],
         NEW index \in Nat, NEW pnl \in Int,
         BookClose(todays, index, pnl)
  PROVE  /\ position' = None /\ counter' \in Nat /\ trades' \in Nat
         /\ today' \in [pnl : Int, closes : Nat, streak : Nat, opens : Nat]
         /\ lastTrade' \in ClosedTrades
<1>1. todays.pnl + pnl \in Int /\ todays.closes + 1 \in Nat
  OBVIOUS
<1>2. StreakAfter(todays.streak, pnl) \in Nat
  BY DEF StreakAfter
<1>3. position.id \in Nat
  BY DEF TypeOK, Positions
<1>4. today' \in [pnl : Int, closes : Nat, streak : Nat, opens : Nat]
  BY <1>1, <1>2 DEF BookClose
<1>5. lastTrade' \in ClosedTrades
  BY <1>3 DEF BookClose, ClosedTrades
<1> QED
  BY <1>4, <1>5, SMTT(40) DEF BookClose, TypeOK

(* What a bot step leaves alone, and that it ends the iteration.           *)
LEMMA EndIterationType ==
  ASSUME TypeOK, EndIteration
  PROVE  /\ pc' \in {"bar", "iterate"} /\ bar' \in 0 .. NumBars /\ day' \in Days
         /\ cur' \in Bars \cup {None} /\ (pc' = "iterate") = (cur' # None)
         /\ cur \in Bars /\ bar \in Nat /\ day \in Days
         /\ Refreshed \in DailyStats(Days)
         /\ MaybeResetDailyStats(stats, day) \in DailyStats(Days)
<1>1. today.pnl \in Int /\ stats \in DailyStats(Days) /\ day \in Days
  BY DEF TypeOK
<1>2. cur \in Bars
  BY DEF TypeOK, EndIteration
<1> QED
  BY <1>1, <1>2, StatsType, ReplayAssumption DEF TypeOK, EndIteration

(* Recording and journalling a close keeps the loop state well typed.      *)
LEMMA RecordCloseType ==
  ASSUME TypeOK, Refreshed \in DailyStats(Days),
         NEW pnl \in Int, NEW reason \in CloseReasons, NEW id \in Nat,
         RecordClose(pnl, reason), WriteJournalRow(id, pnl, reason)
  PROVE  /\ stats' \in DailyStats(Days) /\ cooldown' \in Nat
         /\ lastKnown' = None /\ context' = None
         /\ journal' \in [rows : Nat, last : JournalRows \cup {None}]
         /\ journal'.last = [id |-> id, pnl |-> pnl, reason |-> reason]
<1>1. journal.rows + 1 \in Nat
  BY DEF TypeOK
<1>2. [id |-> id, pnl |-> pnl, reason |-> reason] \in JournalRows
  BY DEF JournalRows
<1>3. stats' \in DailyStats(Days)
  BY RecordType DEF RecordClose
<1>4. cooldown' \in Nat
  BY CooldownType DEF RecordClose
<1> QED
  BY <1>1, <1>2, <1>3, <1>4 DEF RecordClose, WriteJournalRow

(* An entry leaves a well-typed position. *)
LEMMA EnterPosition ==
  ASSUME TypeOK, Enter
  PROVE  position' \in Positions
<1>1. cur \in Bars /\ counter + 1 \in Nat
  BY EndIterationType DEF Enter, Ticked, Scanning, TypeOK
<1> PICK signal \in EntrySignals(cur),
         o \in IF bar < NumBars THEN {b.open : b \in Bars} ELSE {cur.close} :
           position' = [id |-> counter + 1, side |-> signal.side,
                        entry |-> FillPrice(signal.side, o),
                        stop |-> signal.stop]
  BY DEF Enter
<1>2. o \in Int
  <2>1. \A b \in Bars : b.open \in Prices /\ b.close \in Prices
    BY ReplayAssumption
  <2>2. o \in Prices
    BY <1>1, <2>1
  <2> QED
    BY <2>2, ReplayAssumption
<1>3. signal.side \in Sides /\ signal.stop \in Int
  BY ReplayAssumption DEF EntrySignals, Sides
<1> QED
  BY <1>1, <1>2, <1>3, PriceType DEF Positions

(* So does a moved stop. *)
LEMMA ModifyPosition ==
  ASSUME TypeOK, ManageModify
  PROVE  position' \in Positions
<1>1. cur \in Bars /\ position \in Positions
  BY DEF ManageModify, EndIteration, TypeOK
<1>2. BreakevenStop(position, TradingCost) \in Int
  BY <1>1, PriceType
<1> QED
  BY <1>1, <1>2 DEF ManageModify, Positions

(* The initial state is well typed.                                        *)
LEMMA TypeInit == Init => TypeOK
BY ReplayAssumption
   DEF Init, TypeOK, NoTradesToday, FreshStats, DailyStats

(* Every step of the backtest keeps the state well typed. *)
LEMMA TypeStep == TypeOK /\ [Next]_vars => TypeOK'
<1> SUFFICES ASSUME TypeOK, [Next]_vars
             PROVE  TypeOK'
  OBVIOUS
<1>1. CASE NextBar
  <2> PICK b \in Bars, d \in {day, day + 1} \cap Days :
        LET todays == IF d = day THEN today ELSE NoTradesToday IN
        /\ day' = d /\ cur' = b
        /\ IF StopHit(b)
             THEN BookClose(todays, bar + 1, Pnl(position, position.stop))
             ELSE /\ today' = todays
                  /\ UNCHANGED <<position, counter, trades, lastTrade>>
    BY <1>1 DEF NextBar
  <2> DEFINE todays == IF d = day THEN today ELSE NoTradesToday
  <2>1. todays \in [pnl : Int, closes : Nat, streak : Nat, opens : Nat]
    BY DEF TypeOK, NoTradesToday
  <2>2. /\ pc' = "iterate" /\ bar' \in 0 .. NumBars /\ nextOpen' = None
        /\ bar + 1 \in Nat /\ day' \in Days /\ cur' \in Bars /\ cur' # None
    BY <1>1, ReplayAssumption DEF NextBar, TypeOK
  <2>3. UNCHANGED <<loop, journal>>
    BY <1>1 DEF NextBar
  <2>4. CASE StopHit(b)
    <3>1. position # None /\ position \in Positions
      BY <2>4 DEF StopHit, TypeOK
    <3>2. Pnl(position, position.stop) \in Int
      BY <3>1, PnlIsInt DEF Positions
    <3>3. BookClose(todays, bar + 1, Pnl(position, position.stop))
      BY <2>4
    <3> HIDE DEF todays
    <3> QED
      BY <2>1, <2>2, <2>3, <3>1, <3>2, <3>3, BookCloseType DEF TypeOK, loop
  <2>5. CASE ~StopHit(b)
    BY <2>1, <2>2, <2>3, <2>5 DEF TypeOK, loop
  <2> QED
    BY <2>4, <2>5
<1>2. CASE RecordVanished
  <2> DEFINE pnl == today.pnl - MaybeResetDailyStats(stats, day).realized
             reason == IF context # None /\ context.breakeven
                         THEN "BREAKEVEN_SL" ELSE "HARD_SL"
  <2>1. pnl \in Int /\ reason \in CloseReasons /\ lastKnown.id \in Nat
    BY <1>2, EndIterationType
       DEF RecordVanished, TypeOK, DailyStats, CloseReasons, Positions
  <2>2. /\ EndIteration /\ UNCHANGED <<nextOpen, broker>>
        /\ RecordClose(pnl, reason) /\ WriteJournalRow(lastKnown.id, pnl, reason)
    BY <1>2 DEF RecordVanished
  <2> HIDE DEF pnl, reason
  <2> QED
    BY <2>1, <2>2, EndIterationType, RecordCloseType DEF TypeOK, broker
<1>3. CASE ManageClose
  <2> DEFINE exit == FillPrice(Opposite(position.side), cur.close)
  <2>1. EndIteration /\ position \in Positions /\ position # None
    BY <1>3 DEF ManageClose, TypeOK
  <2>2. /\ cur.close \in Int /\ Opposite(position.side) \in Sides
        /\ position.id \in Nat
    BY <2>1, EndIterationType, PriceType DEF Opposite, Sides, Positions
  <2>3. exit \in Int
    BY <2>1, <2>2, EndIterationType, PriceType
  <2>4. UnrealizedPnl \in Int /\ Pnl(position, exit) \in Int
    BY <2>1, <2>2, <2>3, PnlIsInt DEF UnrealizedPnl
  <2>5. /\ BookClose(today, bar, Pnl(position, exit))
        /\ RecordClose(UnrealizedPnl, "TP_CASH")
        /\ WriteJournalRow(position.id, UnrealizedPnl, "TP_CASH")
        /\ UNCHANGED nextOpen
    BY <1>3 DEF ManageClose
  <2>6. "TP_CASH" \in CloseReasons /\ today \in
          [pnl : Int, closes : Nat, streak : Nat, opens : Nat]
    BY DEF CloseReasons, TypeOK
  <2> HIDE DEF exit
  <2>7. /\ stats' \in DailyStats(Days) /\ cooldown' \in Nat
        /\ lastKnown' = None /\ context' = None
        /\ journal' \in [rows : Nat, last : JournalRows \cup {None}]
    BY <2>1, <2>2, <2>4, <2>5, <2>6, EndIterationType, RecordCloseType
  <2>8. /\ position' = None /\ counter' \in Nat /\ trades' \in Nat
        /\ today' \in [pnl : Int, closes : Nat, streak : Nat, opens : Nat]
        /\ lastTrade' \in ClosedTrades
    BY <2>1, <2>4, <2>5, <2>6, EndIterationType, BookCloseType
  <2> QED
    BY <2>1, <2>5, <2>7, <2>8, EndIterationType DEF TypeOK
<1>4. CASE ManageModify
  BY <1>4, ModifyPosition, EndIterationType DEF ManageModify, TypeOK, Contexts
<1>5. CASE ManageNone
  BY <1>5, EndIterationType DEF ManageNone, TypeOK, broker
<1>6. CASE GuardBlocks
  BY <1>6, EndIterationType DEF GuardBlocks, Scanning, TypeOK, broker
<1>7. CASE CoolingDown
  BY <1>7, EndIterationType, CooldownType
     DEF CoolingDown, Ticked, Scanning, TypeOK, broker
<1>8. CASE NoEntry
  BY <1>8, EndIterationType, CooldownType
     DEF NoEntry, Ticked, Scanning, TypeOK, broker
<1>9. CASE Enter
  <2>1. position' \in Positions
    BY <1>9, EnterPosition
  <2>2. today' \in [pnl : Int, closes : Nat, streak : Nat, opens : Nat]
    BY <1>9 DEF Enter, TypeOK
  <2>3. nextOpen' \in Prices \cup {None}
    <3>1. \A b \in Bars : b.open \in Prices
      BY ReplayAssumption
    <3> QED
      BY <1>9, <3>1 DEF Enter
  <2> QED
    BY <1>9, <2>1, <2>2, <2>3, EndIterationType, CooldownType
       DEF Enter, Ticked, Scanning, TypeOK, Contexts
<1>10. CASE UNCHANGED vars
  BY <1>10 DEF vars, clock, broker, loop, TypeOK
<1> QED
  BY <1>1, <1>2, <1>3, <1>4, <1>5, <1>6, <1>7, <1>8, <1>9, <1>10
     DEF Next, RunIteration

(* The broker's and the loop's state are well typed in every reachable     *)
(* state of the backtest.                                                  *)
THEOREM TypeCorrect == Spec => []TypeOK
BY TypeInit, TypeStep, PTL DEF Spec

-----------------------------------------------------------------------------
(* The inductive invariant.  Between the broker's step and the bot's a     *)
(* stopped-out trade is pending: booked by the broker, still tracked by    *)
(* the bot.  Every total of the bot is behind the broker's by exactly that *)
(* trade, and by nothing when none is pending.                             *)

Pending == position = None /\ lastKnown # None

(* The statistics as the next iteration will first see them. *)
Base == MaybeResetDailyStats(stats, day)

DateInv == pc = "bar" => stats.trading_day = day

TrackInv == /\ Pending => pc = "iterate" /\ lastTrade # None
                          /\ lastTrade.id = lastKnown.id
            /\ ~Pending => lastKnown = position

CountInv ==
  /\ today.closes = Base.trade_count + (IF Pending THEN 1 ELSE 0)
  /\ trades = journal.rows + (IF Pending THEN 1 ELSE 0)

PnlInv ==
  /\ Pending => today.pnl = Base.realized + lastTrade.pnl
  /\ position # None => today.pnl = Base.realized

RowInv ==
  ~Pending /\ journal.last # None =>
    /\ lastTrade # None /\ journal.last.id = lastTrade.id
    /\ journal.last.reason # "TP_CASH" => journal.last.pnl = lastTrade.pnl

OpensInv ==
  /\ today.opens <= today.closes + (IF position # None THEN 1 ELSE 0)
  /\ today.opens <= MaxTrades

(* Rows whose iteration is over. *)
RowsDone == IF pc = "bar" THEN bar ELSE bar - 1

CooldownInv ==
  /\ Pending => lastTrade.bar = bar
  /\ ~Pending /\ journal.last # None =>
       /\ lastTrade # None /\ lastTrade.bar <= RowsDone
       /\ cooldown + RowsDone
            >= lastTrade.bar + CooldownBarsForReason(journal.last.reason)

LedgerInv == /\ TypeOK /\ DateInv /\ TrackInv /\ CountInv
             /\ PnlInv /\ RowInv /\ OpensInv /\ CooldownInv

(* With an exit no dearer than the target, the streaks agree as well. *)
StreakInv ==
  today.streak = IF Pending THEN StreakAfter(Base.losses, lastTrade.pnl)
                            ELSE Base.losses

(* What the refreshed statistics hold. *)
LEMMA RefreshedFields ==
  ASSUME TypeOK
  PROVE  /\ Refreshed.trading_day = day
         /\ Refreshed.trade_count = Base.trade_count
         /\ Refreshed.losses = Base.losses
         /\ Refreshed.realized = today.pnl
         /\ Base \in DailyStats(Days) /\ Refreshed \in DailyStats(Days)
<1>1. stats \in DailyStats(Days) /\ day \in Days /\ today.pnl \in Int
  BY DEF TypeOK
<1>2. Base \in DailyStats(Days) /\ Refreshed \in DailyStats(Days)
  BY <1>1, StatsType DEF Base
<1>3. Base.trading_day = day
  BY DEF Base, MaybeResetDailyStats, FreshStats
<1> QED
  BY <1>2, <1>3 DEF Refreshed, Base, DailyStats

(* Statistics already dated today are what the next iteration starts from. *)
LEMMA BaseOfToday ==
  ASSUME stats'.trading_day = day, day' = day
  PROVE  Base' = stats'
BY DEF Base, MaybeResetDailyStats

(* The statistics after a close is recorded. *)
LEMMA RecordedFields ==
  ASSUME TypeOK, NEW pnl \in Int, stats' = RecordClosedTrade(Refreshed, pnl),
         day' = day
  PROVE  /\ stats'.trading_day = day /\ Base' = stats'
         /\ Base'.trade_count = Base.trade_count + 1
         /\ Base'.losses = StreakAfter(Base.losses, pnl)
         /\ Base'.realized = today.pnl
<1>1. /\ stats'.trading_day = day
      /\ stats'.trade_count = Base.trade_count + 1
      /\ stats'.losses = StreakAfter(Base.losses, pnl)
      /\ stats'.realized = today.pnl
  BY RefreshedFields DEF RecordClosedTrade, DailyStats
<1> QED
  BY <1>1, BaseOfToday

(* A cooldown counter covers at least the bars it was started with, and a  *)
(* tick takes one off.                                                     *)
LEMMA CooldownBounds ==
  /\ \A r \in CloseReasons :
        /\ CooldownBarsForReason(r) \in Int
        /\ StartCooldown(CooldownBarsForReason(r)) >= CooldownBarsForReason(r)
  /\ \A n \in Nat : Tick(n) >= n - 1
<1>1. \A r \in CloseReasons : CooldownBarsForReason(r) \in Int
  BY ConfigAssumption DEF CloseReasons, CooldownBarsForReason
<1>2. \A n \in Int : AtLeastZero(n) >= n
  BY DEF AtLeastZero
<1> QED
  BY <1>1, <1>2 DEF StartCooldown, Tick

(* An iteration that neither trades nor moves a stop: it refreshes the     *)
(* statistics and at most ticks the cooldown.                              *)
Quiet ==
  /\ EndIteration /\ ~Pending /\ stats' = Refreshed
  /\ cooldown' \in {cooldown, Tick(cooldown)}
  /\ lastKnown' = position
  /\ UNCHANGED <<nextOpen, broker, context, journal>>

(* The iterations that close nothing and enter nothing leave the ledger    *)
(* alone, and refresh the statistics from it.                              *)
LEMMA QuietActions ==
  ASSUME ManageNone \/ GuardBlocks \/ CoolingDown \/ NoEntry
  PROVE  Quiet
BY DEF ManageNone, GuardBlocks, CoolingDown, NoEntry, Ticked, Scanning,
       Quiet, Pending

(* A quiet iteration keeps the two books equal. *)
LEMMA QuietStep ==
  ASSUME LedgerInv, TypeOK', Quiet
  PROVE  LedgerInv'
<1>1. /\ pc = "iterate" /\ pc' = "bar" /\ bar' = bar /\ day' = day
      /\ ~Pending /\ lastKnown = position /\ ~Pending'
      /\ UNCHANGED <<position, lastKnown, today, trades, lastTrade, journal>>
  BY DEF LedgerInv, TrackInv, Quiet, EndIteration, broker, Pending
<1>2. /\ stats'.trading_day = day /\ Base'.trade_count = Base.trade_count
      /\ Base'.realized = today.pnl
  BY <1>1, RefreshedFields, BaseOfToday DEF Quiet, LedgerInv
<1>3. DateInv' /\ TrackInv' /\ PnlInv' /\ RowInv'
  BY <1>1, <1>2 DEF LedgerInv, DateInv, TrackInv, PnlInv, RowInv
<1>4. CountInv' /\ OpensInv'
  BY <1>1, <1>2 DEF LedgerInv, CountInv, OpensInv
<1>5. CooldownInv'
  <2> SUFFICES ASSUME journal.last # None
               PROVE  /\ lastTrade # None /\ lastTrade.bar <= bar
                      /\ cooldown' + bar
                           >= lastTrade.bar
                                + CooldownBarsForReason(journal.last.reason)
    BY <1>1 DEF CooldownInv, RowsDone
  <2>1. /\ lastTrade # None /\ lastTrade.bar <= bar - 1
        /\ cooldown + (bar - 1)
             >= lastTrade.bar + CooldownBarsForReason(journal.last.reason)
    BY <1>1 DEF LedgerInv, CooldownInv, RowsDone
  <2>2. /\ bar \in Nat /\ cooldown \in Nat /\ lastTrade.bar \in Nat
        /\ journal.last.reason \in CloseReasons
    BY <2>1, ReplayAssumption
       DEF LedgerInv, TypeOK, ClosedTrades, JournalRows
  <2>3. cooldown' \in Nat /\ cooldown' >= cooldown - 1
    BY <2>2, CooldownBounds DEF Quiet, TypeOK
  <2>4. CooldownBarsForReason(journal.last.reason) \in Int
    BY <2>2, CooldownBounds
  <2> QED
    BY <2>1, <2>2, <2>3, <2>4
<1> QED
  BY <1>3, <1>4, <1>5 DEF LedgerInv

(* The broker's step on row b of date d, without the LET. *)
TodayOn(d) == IF d = day THEN today ELSE NoTradesToday

BarStep(b, d) ==
  /\ pc = "bar" /\ pc' = "iterate" /\ bar' = bar + 1
  /\ b \in Bars /\ d \in Days /\ day' = d /\ cur' = b
  /\ IF StopHit(b)
       THEN BookClose(TodayOn(d), bar', Pnl(position, position.stop))
       ELSE /\ today' = TodayOn(d)
            /\ UNCHANGED <<position, counter, trades, lastTrade>>
  /\ UNCHANGED <<loop, journal>>

(* set_current_bar() and the stop check change the ledger the way BarStep  *)
(* says: the date moves on, and at most one stopped trade is booked.       *)
LEMMA NextBarIsBarStep ==
  ASSUME NextBar
  PROVE  \E b \in Bars, d \in Days : BarStep(b, d)
BY DEF NextBar, BarStep, TodayOn

(* A change of date resets both books alike. *)
LEMMA BarStepFields ==
  ASSUME LedgerInv, NEW b \in Bars, NEW d \in Days, BarStep(b, d)
  PROVE  /\ ~Pending /\ lastKnown = position
         /\ TodayOn(d).closes = Base'.trade_count
         /\ position # None => TodayOn(d).pnl = Base'.realized
         /\ TodayOn(d).opens <= TodayOn(d).closes + (IF position # None THEN 1 ELSE 0)
         /\ TodayOn(d).opens <= MaxTrades
         /\ TodayOn(d) \in [pnl : Int, closes : Nat, streak : Nat, opens : Nat]
         /\ Base' \in DailyStats(Days)
<1>1. ~Pending /\ lastKnown = position /\ stats.trading_day = day
  BY DEF LedgerInv, TrackInv, DateInv, BarStep
<1>2. Base' = IF d = day THEN stats ELSE FreshStats(d)
  BY <1>1 DEF BarStep, Base, MaybeResetDailyStats, loop
<1>3. Base = stats /\ stats \in DailyStats(Days)
  BY <1>1 DEF Base, MaybeResetDailyStats, LedgerInv, TypeOK
<1>4. CASE d = day
  <2>1. TodayOn(d) = today /\ Base' = Base
    BY <1>2, <1>3, <1>4 DEF TodayOn
  <2>2. /\ today.closes = Base.trade_count
        /\ position # None => today.pnl = Base.realized
        /\ today.opens <= today.closes + (IF position # None THEN 1 ELSE 0)
        /\ today.opens <= MaxTrades
    BY <1>1, <1>3 DEF LedgerInv, CountInv, PnlInv, OpensInv, DailyStats
  <2> QED
    BY <1>1, <1>3, <2>1, <2>2 DEF LedgerInv, TypeOK
<1>5. CASE d # day
  BY <1>1, <1>2, <1>5, ConfigAssumption
     DEF TodayOn, FreshStats, NoTradesToday, DailyStats
<1> QED
  BY <1>4, <1>5

(* The broker's step either leaves the books equal or makes the stopped    *)
(* trade pending.                                                          *)
LEMMA BarStepKeeps ==
  ASSUME LedgerInv, TypeOK', NEW b \in Bars, NEW d \in Days, BarStep(b, d)
  PROVE  LedgerInv'
<1>0. /\ ~Pending /\ lastKnown = position
      /\ TodayOn(d).closes = Base'.trade_count
      /\ position # None => TodayOn(d).pnl = Base'.realized
      /\ TodayOn(d).opens <= TodayOn(d).closes + (IF position # None THEN 1 ELSE 0)
      /\ TodayOn(d).opens <= MaxTrades
      /\ TodayOn(d) \in [pnl : Int, closes : Nat, streak : Nat, opens : Nat]
      /\ Base' \in DailyStats(Days)
  BY BarStepFields
<1>1. /\ pc = "bar" /\ pc' = "iterate" /\ bar \in Nat /\ bar' = bar + 1
      /\ UNCHANGED <<stats, cooldown, lastKnown, journal>>
  BY ReplayAssumption DEF BarStep, loop, LedgerInv, TypeOK
<1>2. DateInv'
  BY <1>1 DEF DateInv
<1>3. CASE StopHit(b)
  <2>1. /\ position # None /\ position \in Positions /\ position' = None
        /\ BookClose(TodayOn(d), bar', Pnl(position, position.stop))
    BY <1>3 DEF StopHit, BarStep, BookClose, LedgerInv, TypeOK
  <2>2. Pnl(position, position.stop) \in Int
    BY <2>1, PnlIsInt DEF Positions
  <2>3. /\ today'.pnl = TodayOn(d).pnl + lastTrade'.pnl
        /\ today'.closes = TodayOn(d).closes + 1
        /\ today'.opens = TodayOn(d).opens
        /\ trades' = trades + 1 /\ lastTrade' # None
        /\ lastTrade'.id = position.id /\ lastTrade'.bar = bar'
    <3> DEFINE row == [id |-> position.id, bar |-> bar',
                       pnl |-> Pnl(position, position.stop)]
    <3>1. lastTrade' = row
      BY <2>1 DEF BookClose
    <3>2. row \in ClosedTrades /\ row # None
      BY <2>1, <2>2, <1>1, ReplayAssumption DEF ClosedTrades, Positions
    <3> QED
      BY <2>1, <3>1, <3>2, <1>0 DEF BookClose
  <2>4. Pending' /\ TrackInv'
    BY <2>1, <2>3, <1>0, <1>1 DEF Pending, TrackInv
  <2>5. CountInv'
    <3>1. trades = journal.rows /\ journal.rows \in Nat
      BY <1>0 DEF LedgerInv, CountInv, TypeOK
    <3> QED
      BY <2>3, <2>4, <3>1, <1>0, <1>1 DEF CountInv
  <2>6. PnlInv'
    BY <2>1, <2>3, <1>0 DEF PnlInv
  <2>7. OpensInv'
    BY <2>1, <2>3, <1>0 DEF OpensInv
  <2>8. RowInv' /\ CooldownInv'
    BY <2>3, <2>4 DEF RowInv, CooldownInv
  <2> QED
    BY <1>2, <2>4, <2>5, <2>6, <2>7, <2>8 DEF LedgerInv
<1>4. CASE ~StopHit(b)
  <2>1. /\ today' = TodayOn(d) /\ ~Pending' /\ RowsDone' = RowsDone
        /\ UNCHANGED <<position, trades, lastTrade>>
    BY <1>0, <1>1, <1>4 DEF BarStep, Pending, RowsDone
  <2>2. TrackInv' /\ RowInv'
    BY <1>0, <1>1, <2>1 DEF TrackInv, RowInv, LedgerInv
  <2>3. CountInv' /\ PnlInv' /\ OpensInv'
    BY <1>0, <1>1, <2>1 DEF CountInv, PnlInv, OpensInv, LedgerInv
  <2>4. CooldownInv'
    BY <1>0, <1>1, <2>1 DEF CooldownInv, LedgerInv
  <2> QED
    BY <1>2, <2>2, <2>3, <2>4 DEF LedgerInv
<1> QED
  BY <1>3, <1>4

(* Recording a close whose trade the broker books at pnl brings the books  *)
(* together again.                                                         *)
LEMMA RecordVanishedKeeps ==
  ASSUME LedgerInv, TypeOK', RecordVanished
  PROVE  LedgerInv'
<1> DEFINE pnl == today.pnl - Base.realized
           reason == IF context # None /\ context.breakeven
                       THEN "BREAKEVEN_SL" ELSE "HARD_SL"
<1>1. /\ Pending /\ pc = "iterate" /\ pc' = "bar" /\ bar' = bar /\ day' = day
      /\ RecordClose(pnl, reason) /\ WriteJournalRow(lastKnown.id, pnl, reason)
      /\ UNCHANGED <<position, today, trades, lastTrade>>
  BY DEF RecordVanished, EndIteration, Pending, broker, Base
<1>2. TypeOK /\ lastTrade # None /\ lastTrade.bar = bar /\ lastTrade.id = lastKnown.id
  BY <1>1 DEF LedgerInv, TrackInv, CooldownInv
<1>3. lastTrade.pnl \in Int /\ Base \in DailyStats(Days)
  BY <1>2, RefreshedFields DEF TypeOK, ClosedTrades
<1>4. pnl = lastTrade.pnl /\ pnl \in Int
  BY <1>1, <1>3 DEF LedgerInv, PnlInv, DailyStats
<1>5. reason \in {"BREAKEVEN_SL", "HARD_SL"} /\ reason \in CloseReasons
  BY DEF CloseReasons
<1> HIDE DEF pnl, reason
<1>6. /\ stats'.trading_day = day /\ Base' = stats'
      /\ Base'.trade_count = Base.trade_count + 1
  BY <1>1, <1>2, <1>4, RecordedFields DEF RecordClose
<1>7. /\ position' = None /\ lastKnown' = None /\ ~Pending'
      /\ journal'.rows = journal.rows + 1
      /\ journal'.last = [id |-> lastKnown.id, pnl |-> pnl, reason |-> reason]
      /\ cooldown' = StartCooldown(CooldownBarsForReason(reason))
  BY <1>1 DEF RecordClose, WriteJournalRow, Pending
<1>8. DateInv' /\ TrackInv' /\ PnlInv' /\ RowInv'
  BY <1>1, <1>2, <1>4, <1>5, <1>6, <1>7
     DEF DateInv, TrackInv, PnlInv, RowInv, Pending
<1>9. CountInv' /\ OpensInv'
  BY <1>1, <1>3, <1>6, <1>7
     DEF LedgerInv, CountInv, OpensInv, DailyStats, TypeOK
<1>10. CooldownInv'
  <2>1. bar \in Nat /\ lastTrade'.bar = bar /\ RowsDone' = bar
    BY <1>1, <1>2, ReplayAssumption DEF TypeOK, RowsDone
  <2>2. /\ CooldownBarsForReason(reason) \in Int
        /\ cooldown' >= CooldownBarsForReason(reason)
    BY <1>5, <1>7, CooldownBounds
  <2>3. cooldown' \in Nat /\ journal'.last.reason = reason
    BY <1>7 DEF TypeOK
  <2> QED
    BY <1>1, <1>2, <1>7, <2>1, <2>2, <2>3 DEF CooldownInv
<1> QED
  BY <1>8, <1>9, <1>10 DEF LedgerInv

(* The bot's own close books and records the same trade in one step. *)
LEMMA ManageCloseKeeps ==
  ASSUME LedgerInv, TypeOK', ManageClose
  PROVE  LedgerInv'
<1> DEFINE paid == Pnl(position, FillPrice(Opposite(position.side), cur.close))
<1>1. /\ position # None /\ pc = "iterate" /\ pc' = "bar" /\ bar' = bar
      /\ day' = day /\ ~Pending /\ lastKnown = position /\ TypeOK
      /\ BookClose(today, bar, paid)
      /\ RecordClose(UnrealizedPnl, "TP_CASH")
      /\ WriteJournalRow(position.id, UnrealizedPnl, "TP_CASH")
  BY DEF ManageClose, EndIteration, Pending, LedgerInv, TrackInv
<1>2. cur \in Bars /\ position \in Positions /\ position.side \in Sides
  BY <1>1 DEF TypeOK, Positions
<1>3. UnrealizedPnl \in Int /\ paid \in Int
  <2>1. Opposite(position.side) \in Sides /\ cur.close \in Int
    BY <1>2, PriceType DEF Opposite, Sides
  <2> QED
    BY <1>2, <2>1, PriceType, PnlIsInt DEF UnrealizedPnl
<1> HIDE DEF paid
<1>4. /\ stats'.trading_day = day /\ Base' = stats'
      /\ Base'.trade_count = Base.trade_count + 1
  BY <1>1, <1>3, RecordedFields DEF RecordClose
<1>5. /\ position' = None /\ lastKnown' = None /\ ~Pending' /\ trades' = trades + 1
      /\ lastTrade' = [id |-> position.id, pnl |-> paid, bar |-> bar]
      /\ journal'.rows = journal.rows + 1
      /\ journal'.last = [id |-> position.id, pnl |-> UnrealizedPnl,
                          reason |-> "TP_CASH"]
      /\ cooldown' = StartCooldown(CooldownBarsForReason("TP_CASH"))
  BY <1>1 DEF BookClose, RecordClose, WriteJournalRow, Pending
<1>6. /\ today'.closes = today.closes + 1 /\ today'.opens = today.opens
      /\ journal.rows \in Nat /\ trades \in Nat /\ Base.trade_count \in Nat
  BY <1>1, RefreshedFields DEF BookClose, TypeOK, DailyStats
<1>7. lastTrade' # None
  <2>1. bar \in Nat /\ position.id \in Nat
    BY <1>1, <1>2, ReplayAssumption DEF TypeOK, Positions
  <2>2. lastTrade' \in ClosedTrades
    BY <1>3, <1>5, <2>1 DEF ClosedTrades
  <2> QED
    BY <2>2, ReplayAssumption
<1>8. DateInv' /\ TrackInv' /\ PnlInv' /\ RowInv'
  BY <1>1, <1>4, <1>5, <1>7 DEF DateInv, TrackInv, PnlInv, RowInv, Pending
<1>9. CountInv' /\ OpensInv'
  BY <1>1, <1>4, <1>5, <1>6, SMTT(40) DEF LedgerInv, CountInv, OpensInv, TypeOK
<1>10. CooldownInv'
  <2>1. bar \in Nat /\ lastTrade'.bar = bar /\ RowsDone' = bar
    BY <1>1, <1>5, ReplayAssumption DEF TypeOK, RowsDone
  <2>2. /\ CooldownBarsForReason("TP_CASH") \in Int
        /\ cooldown' >= CooldownBarsForReason("TP_CASH")
    BY <1>5, CooldownBounds DEF CloseReasons
  <2>3. cooldown' \in Nat /\ journal'.last.reason = "TP_CASH"
    BY <1>5 DEF TypeOK
  <2> QED
    BY <1>5, <1>7, <2>1, <2>2, <2>3 DEF CooldownInv
<1> QED
  BY <1>8, <1>9, <1>10 DEF LedgerInv

(* Moving the stop touches neither book. *)
LEMMA ManageModifyKeeps ==
  ASSUME LedgerInv, TypeOK', ManageModify
  PROVE  LedgerInv'
<1>1. /\ position # None /\ pc = "iterate" /\ pc' = "bar" /\ bar' = bar
      /\ day' = day /\ ~Pending /\ TypeOK
      /\ stats' = Refreshed /\ lastKnown' = position'
      /\ UNCHANGED <<today, trades, lastTrade, cooldown, journal>>
  BY DEF ManageModify, EndIteration, Pending, LedgerInv
<1>2. position' # None
  BY <1>1, ModifyPosition, ReplayAssumption
<1>3. /\ stats'.trading_day = day /\ Base'.trade_count = Base.trade_count
      /\ Base'.realized = today.pnl
  BY <1>1, RefreshedFields, BaseOfToday
<1>4. DateInv' /\ TrackInv' /\ PnlInv' /\ RowInv'
  BY <1>1, <1>2, <1>3 DEF LedgerInv, DateInv, TrackInv, PnlInv, RowInv, Pending
<1>5. CountInv' /\ OpensInv'
  BY <1>1, <1>2, <1>3 DEF LedgerInv, CountInv, OpensInv, Pending
<1>6. CooldownInv'
  <2>1. /\ ~Pending' /\ RowsDone = bar - 1 /\ RowsDone' = bar
    BY <1>1, <1>2 DEF Pending, RowsDone
  <2>2. \A r \in CloseReasons : CooldownBarsForReason(r) \in Int
    BY CooldownBounds
  <2>3. /\ bar \in Nat /\ cooldown \in Nat
        /\ lastTrade # None => lastTrade.bar \in Nat
        /\ journal.last # None => journal.last.reason \in CloseReasons
    BY <1>1, ReplayAssumption DEF TypeOK, ClosedTrades, JournalRows
  <2> QED
    BY <1>1, <2>1, <2>2, <2>3 DEF LedgerInv, CooldownInv
<1> QED
  BY <1>4, <1>5, <1>6 DEF LedgerInv

(* An entry happens with the books equal and the count below its limit. *)
LEMMA EnterKeeps ==
  ASSUME LedgerInv, TypeOK', Enter
  PROVE  LedgerInv'
<1>1. /\ position = None /\ lastKnown = None /\ pc = "iterate" /\ pc' = "bar"
      /\ bar' = bar /\ day' = day /\ ~Pending /\ TypeOK
      /\ stats' = Refreshed /\ lastKnown' = position'
      /\ TradingAllowed(Refreshed) /\ cooldown' = Tick(cooldown)
      /\ today' = [today EXCEPT !.opens = @ + 1]
      /\ UNCHANGED <<trades, lastTrade, journal>>
  BY DEF Enter, Ticked, Scanning, EndIteration, Pending, LedgerInv
<1>2. position' # None /\ ~Pending'
  BY <1>1, EnterPosition, ReplayAssumption DEF Pending
<1>3. /\ stats'.trading_day = day /\ Base'.trade_count = Base.trade_count
      /\ Base'.realized = today.pnl /\ Base.trade_count < MaxTrades
  BY <1>1, RefreshedFields, BaseOfToday DEF TradingAllowed
<1>4. /\ today'.closes = today.closes /\ today'.pnl = today.pnl
      /\ today'.opens = today.opens + 1 /\ today.opens \in Nat
      /\ today.closes \in Nat
  BY <1>1 DEF TypeOK
<1>5. DateInv' /\ TrackInv' /\ PnlInv' /\ RowInv'
  BY <1>1, <1>2, <1>3, <1>4 DEF LedgerInv, DateInv, TrackInv, PnlInv, RowInv
<1>6. CountInv'
  BY <1>1, <1>2, <1>3, <1>4 DEF LedgerInv, CountInv
<1>7. OpensInv'
  <2>1. today.opens <= today.closes + 0 /\ today.closes = Base.trade_count + 0
    BY <1>1 DEF LedgerInv, OpensInv, CountInv
  <2>2. MaxTrades \in Nat /\ Base.trade_count \in Nat
    BY <1>1, RefreshedFields, ConfigAssumption DEF DailyStats
  <2> QED
    BY <1>2, <1>3, <1>4, <2>1, <2>2 DEF OpensInv
<1>8. CooldownInv'
  <2> SUFFICES ASSUME journal.last # None
               PROVE  /\ lastTrade # None /\ lastTrade.bar <= bar
                      /\ cooldown' + bar
                           >= lastTrade.bar
                                + CooldownBarsForReason(journal.last.reason)
    BY <1>1, <1>2 DEF CooldownInv, RowsDone
  <2>1. /\ lastTrade # None /\ lastTrade.bar <= bar - 1
        /\ cooldown + (bar - 1)
             >= lastTrade.bar + CooldownBarsForReason(journal.last.reason)
    BY <1>1 DEF LedgerInv, CooldownInv, RowsDone
  <2>2. /\ bar \in Nat /\ cooldown \in Nat /\ lastTrade.bar \in Nat
        /\ journal.last.reason \in CloseReasons
    BY <1>1, <2>1, ReplayAssumption DEF TypeOK, ClosedTrades, JournalRows
  <2>3. /\ cooldown' \in Nat /\ cooldown' >= cooldown - 1
        /\ CooldownBarsForReason(journal.last.reason) \in Int
    BY <1>1, <2>2, CooldownBounds DEF TypeOK
  <2> QED
    BY <2>1, <2>2, <2>3
<1> QED
  BY <1>5, <1>6, <1>7, <1>8 DEF LedgerInv

(* The ledger invariant holds before the first row.                        *)
LEMMA LedgerInit == Init => LedgerInv
<1> SUFFICES ASSUME Init
             PROVE  LedgerInv
  OBVIOUS
<1>1. TypeOK /\ ~Pending
  BY TypeInit DEF Init, Pending
<1> QED
  BY <1>1, ConfigAssumption
     DEF Init, LedgerInv, DateInv, TrackInv, CountInv, PnlInv, RowInv,
         OpensInv, CooldownInv, Base, MaybeResetDailyStats, FreshStats,
         NoTradesToday

(* The two books stay equal, up to a pending trade, in every step. *)
LEMMA LedgerStep == LedgerInv /\ [Next]_vars => LedgerInv'
<1> SUFFICES ASSUME LedgerInv, [Next]_vars
             PROVE  LedgerInv'
  OBVIOUS
<1>1. TypeOK'
  BY TypeStep DEF LedgerInv
<1>2. CASE NextBar
  BY <1>1, <1>2, NextBarIsBarStep, BarStepKeeps
<1>3. CASE RecordVanished
  BY <1>1, <1>3, RecordVanishedKeeps
<1>4. CASE ManageClose
  BY <1>1, <1>4, ManageCloseKeeps
<1>5. CASE ManageModify
  BY <1>1, <1>5, ManageModifyKeeps
<1>6. CASE ManageNone \/ GuardBlocks \/ CoolingDown \/ NoEntry
  <2>1. Quiet
    BY <1>6, QuietActions DEF LedgerInv, TrackInv
  <2> QED
    BY <1>1, <2>1, QuietStep
<1>7. CASE Enter
  BY <1>1, <1>7, EnterKeeps
<1>8. CASE UNCHANGED vars
  BY <1>8 DEF vars, clock, broker, loop, LedgerInv, TypeOK, DateInv, TrackInv,
              CountInv, PnlInv, RowInv, OpensInv, CooldownInv, RowsDone,
              Pending, Base
<1> QED
  BY <1>2, <1>3, <1>4, <1>5, <1>6, <1>7, <1>8 DEF Next, RunIteration

(* The ledger invariant is inductive, so it holds in every reachable state *)
(* of the replay.                                                          *)
LEMMA LedgerAlways == Spec => []LedgerInv
BY LedgerInit, LedgerStep, PTL DEF Spec

-----------------------------------------------------------------------------
(* What follows from the invariant.                                        *)

(* Every close, ordered by the bot or fired by the stop, is counted once,  *)
(* on its own date, and journalled once.                                   *)
THEOREM ClosesCountedOnce == Spec => []EveryCloseCountedOnce
<1>1. LedgerInv => EveryCloseCountedOnce
  <2> SUFFICES ASSUME LedgerInv, pc = "bar"
               PROVE  stats.trade_count = today.closes /\ journal.rows = trades
    BY DEF EveryCloseCountedOnce
  <2>1. ~Pending /\ Base = stats
    BY DEF LedgerInv, TrackInv, DateInv, Base, MaybeResetDailyStats
  <2>2. stats.trade_count \in Nat /\ journal.rows \in Nat
    BY DEF LedgerInv, TypeOK, DailyStats
  <2> QED
    BY <2>1, <2>2 DEF LedgerInv, CountInv
<1> QED
  BY <1>1, LedgerAlways, PTL

(* No date sees more entries than max_trades_per_day.                      *)
THEOREM EntriesBounded == Spec => []EntriesWithinDailyLimit
<1>1. LedgerInv => EntriesWithinDailyLimit
  BY DEF LedgerInv, OpensInv, EntriesWithinDailyLimit
<1> QED
  BY <1>1, LedgerAlways, PTL

(* The P&L recorded for a stopped-out trade is that trade's own.           *)
THEOREM VanishedPnlExact == Spec => []VanishedPnlIsTrades
<1>1. LedgerInv => VanishedPnlIsTrades
  BY DEF LedgerInv, TrackInv, RowInv, VanishedPnlIsTrades
<1> QED
  BY <1>1, LedgerAlways, PTL

(* The cooldown of the recorded reason passes, in rows, before an entry.   *)
THEOREM CooldownKept == Spec => CooldownHonoured
<1>1. LedgerInv /\ [Next]_vars =>
        [position = None /\ position' # None /\ journal.last # None =>
           /\ bar > lastTrade.bar
           /\ bar - lastTrade.bar
                >= CooldownBarsForReason(journal.last.reason)]_vars
  <2> SUFFICES ASSUME LedgerInv, Next, position = None, position' # None,
                      journal.last # None
               PROVE  /\ bar > lastTrade.bar
                      /\ bar - lastTrade.bar
                           >= CooldownBarsForReason(journal.last.reason)
    OBVIOUS
  <2>1. Enter
    BY DEF Next, RunIteration, NextBar, StopHit, RecordVanished, ManageClose,
           ManageModify, ManageNone, GuardBlocks, CoolingDown, NoEntry,
           broker
  <2>2. ~Pending /\ pc = "iterate" /\ Tick(cooldown) <= 0 /\ TypeOK
    BY <2>1 DEF Enter, Ticked, Scanning, EndIteration, Pending, IsActive,
                LedgerInv, TypeOK, Tick, AtLeastZero
  <2>3. /\ lastTrade # None /\ lastTrade.bar <= bar - 1
        /\ cooldown + (bar - 1)
             >= lastTrade.bar + CooldownBarsForReason(journal.last.reason)
    BY <2>2 DEF LedgerInv, CooldownInv, RowsDone
  <2>4. /\ bar \in Nat /\ cooldown \in Nat /\ lastTrade.bar \in Nat
        /\ journal.last.reason \in CloseReasons
    BY <2>2, <2>3, ReplayAssumption DEF TypeOK, ClosedTrades, JournalRows
  <2>5. cooldown <= 1 /\ CooldownBarsForReason(journal.last.reason) \in Int
    BY <2>2, <2>4, CooldownBounds DEF Tick, AtLeastZero
  <2> QED
    BY <2>3, <2>4, <2>5
<1> QED
  BY <1>1, LedgerAlways, PTL DEF Spec, CooldownHonoured

-----------------------------------------------------------------------------
(* The losing streak.  The bot judges its own close by the mark it decided *)
(* on, the broker by the fill, which is lower by half the spread and the   *)
(* slippage; CheapExit is what makes the two judgements agree.             *)

(* A take-profit fill is worth the mark less half the spread and the       *)
(* slippage, so under CheapExit it is not a loss.                          *)
LEMMA FillBelowMark ==
  ASSUME NEW p \in Positions, NEW close \in Int, CheapExit,
         Pnl(p, close) >= TpCash
  PROVE  Pnl(p, FillPrice(Opposite(p.side), close)) >= 0
<1> DEFINE drop == HalfSpread + Slippage
           move == IF p.side = "BUY" THEN close - p.entry ELSE p.entry - close
<1>1. /\ drop \in Nat /\ Quantity \in Nat /\ move \in Int /\ p.entry \in Int
      /\ TpCash \in Nat
  BY ConfigAssumption, ReplayAssumption DEF Positions
<1>2. Pnl(p, close) = move * Quantity
  BY DEF Pnl
<1>3. Pnl(p, FillPrice(Opposite(p.side), close)) = (move - drop) * Quantity
  <2>1. CASE p.side = "BUY"
    <3>1. close - HalfSpread - Slippage - p.entry = move - drop
      BY <1>1, <2>1, ReplayAssumption
    <3> QED
      BY <2>1, <3>1 DEF Pnl, FillPrice, Opposite
  <2>2. CASE p.side # "BUY"
    <3>1. p.entry - (close + HalfSpread + Slippage) = move - drop
      BY <1>1, <2>2, ReplayAssumption
    <3> QED
      BY <2>2, <3>1 DEF Pnl, FillPrice, Opposite
  <2> QED
    BY <2>1, <2>2
<1>4. drop * Quantity <= move * Quantity
  <2>1. drop * Quantity <= TpCash /\ TpCash <= move * Quantity
    BY <1>2 DEF CheapExit
  <2>2. drop * Quantity \in Int /\ move * Quantity \in Int
    BY <1>1
  <2> HIDE DEF drop, move
  <2> QED
    BY <1>1, <2>1, <2>2
<1> HIDE DEF drop, move
<1>5. (move - drop) * Quantity = move * Quantity - drop * Quantity
  BY <1>1
<1>6. move * Quantity \in Int /\ drop * Quantity \in Int
  BY <1>1
<1> QED
  BY <1>3, <1>4, <1>5, <1>6

(* With cheap exits every step keeps the bot's losing streak equal to the  *)
(* broker's, up to a stop the bot has yet to notice.                       *)
LEMMA StreakStep ==
  ASSUME CheapExit, LedgerInv, LedgerInv', StreakInv, [Next]_vars
  PROVE  StreakInv'
<1>0. TypeOK /\ today.streak \in Nat /\ Base.losses \in Nat
  BY RefreshedFields DEF LedgerInv, TypeOK, DailyStats
<1>1. CASE NextBar
  <2> PICK b \in Bars, d \in Days : BarStep(b, d)
    BY <1>1, NextBarIsBarStep
  <2>1. ~Pending /\ lastKnown = position /\ UNCHANGED <<stats, lastKnown>>
    BY BarStepFields DEF BarStep, loop
  <2>2. Base'.losses = TodayOn(d).streak
    <3>1. stats.trading_day = day /\ Base = stats /\ today.streak = Base.losses
      BY <2>1 DEF BarStep, LedgerInv, DateInv, Base, MaybeResetDailyStats, StreakInv
    <3>2. Base' = IF d = day THEN stats ELSE FreshStats(d)
      BY <2>1, <3>1 DEF BarStep, Base, MaybeResetDailyStats
    <3> QED
      BY <3>1, <3>2 DEF TodayOn, FreshStats, NoTradesToday
  <2>3. CASE StopHit(b)
    <3>1. /\ position # None /\ position' = None
          /\ lastTrade'.pnl = Pnl(position, position.stop)
          /\ today'.streak = StreakAfter(TodayOn(d).streak,
                                         Pnl(position, position.stop))
      <4>1. TodayOn(d) \in [pnl : Int, closes : Nat, streak : Nat, opens : Nat]
        BY BarStepFields
      <4>2. BookClose(TodayOn(d), bar', Pnl(position, position.stop))
        BY <2>3 DEF BarStep
      <4>3. position # None
        BY <2>3 DEF StopHit
      <4> QED
        BY <4>1, <4>2, <4>3 DEF BookClose
    <3>2. Pending'
      BY <2>1, <3>1 DEF Pending
    <3> QED
      BY <2>2, <3>1, <3>2 DEF StreakInv
  <2>4. CASE ~StopHit(b)
    BY <2>1, <2>2, <2>4 DEF BarStep, StreakInv, Pending
  <2> QED
    BY <2>3, <2>4
<1>2. CASE RecordVanished
  <2> DEFINE pnl == today.pnl - Base.realized
  <2>1. /\ Pending /\ ~Pending' /\ day' = day /\ UNCHANGED today
        /\ stats' = RecordClosedTrade(Refreshed, pnl)
    BY <1>2 DEF RecordVanished, RecordClose, EndIteration, Pending, broker, Base
  <2>2. pnl = lastTrade.pnl /\ pnl \in Int
    <3>1. lastTrade.pnl \in Int /\ Base.realized \in Int
      BY <1>0, <2>1, RefreshedFields
         DEF LedgerInv, TrackInv, TypeOK, ClosedTrades, DailyStats
    <3> QED
      BY <2>1, <3>1 DEF LedgerInv, PnlInv
  <2> HIDE DEF pnl
  <2>3. Base'.losses = StreakAfter(Base.losses, pnl)
    BY <1>0, <2>1, <2>2, RecordedFields
  <2> QED
    BY <2>1, <2>2, <2>3 DEF StreakInv
<1>3. CASE ManageClose
  <2> DEFINE paid == Pnl(position, FillPrice(Opposite(position.side), cur.close))
  <2>1. /\ position \in Positions /\ cur \in Bars /\ day' = day
        /\ ~Pending /\ ~Pending' /\ UnrealizedPnl >= TpCash
        /\ BookClose(today, bar, paid)
        /\ stats' = RecordClosedTrade(Refreshed, UnrealizedPnl)
    BY <1>0, <1>3 DEF ManageClose, EndIteration, RecordClose, ManagePosition,
                      Pending, TypeOK
  <2>2. UnrealizedPnl \in Int /\ cur.close \in Int
    BY <2>1, PriceType, PnlIsInt DEF UnrealizedPnl
  <2>3. paid >= 0
    BY <2>1, <2>2, FillBelowMark DEF UnrealizedPnl
  <2>4. paid \in Int
    <3>1. Opposite(position.side) \in Sides
      BY DEF Opposite, Sides
    <3> QED
      BY <2>1, <2>2, <3>1, PriceType, PnlIsInt
  <2> HIDE DEF paid
  <2>5. Base'.losses = StreakAfter(Base.losses, UnrealizedPnl)
    BY <1>0, <2>1, <2>2, RecordedFields
  <2>6. today'.streak = StreakAfter(today.streak, paid)
    BY <1>0, <2>1 DEF BookClose, TypeOK
  <2>7. TpCash >= 0 /\ TpCash \in Int
    BY ConfigAssumption
  <2> QED
    BY <2>1, <2>2, <2>3, <2>4, <2>5, <2>6, <2>7 DEF StreakInv, StreakAfter
<1>4. CASE ManageModify \/ Enter \/ ManageNone \/ GuardBlocks \/ CoolingDown \/ NoEntry
  <2>1. /\ ~Pending /\ stats' = Refreshed /\ day' = day
        /\ today'.streak = today.streak
    <3>1. CASE ManageModify
      BY <3>1 DEF ManageModify, EndIteration, Pending
    <3>2. CASE Enter
      BY <1>0, <3>2 DEF Enter, Ticked, Scanning, EndIteration, Pending, TypeOK
    <3>3. CASE ManageNone \/ GuardBlocks \/ CoolingDown \/ NoEntry
      BY <3>3, QuietActions DEF Quiet, EndIteration, broker
    <3> QED
      BY <1>4, <3>1, <3>2, <3>3
  <2>2. ~Pending'
    <3>1. pc' = "bar"
      BY <1>4 DEF ManageModify, Enter, ManageNone, GuardBlocks, CoolingDown,
                  NoEntry, Ticked, Scanning, EndIteration
    <3> QED
      BY <3>1 DEF LedgerInv, TrackInv
  <2>3. Base'.losses = Base.losses
    BY <1>0, <2>1, RefreshedFields, BaseOfToday
  <2> QED
    BY <2>1, <2>2, <2>3 DEF StreakInv
<1>5. CASE UNCHANGED vars
  BY <1>5 DEF vars, clock, broker, loop, StreakInv, Pending, Base
<1> QED
  BY <1>1, <1>2, <1>3, <1>4, <1>5 DEF Next, RunIteration

(* With cheap exits the streak invariant holds in every reachable state.   *)
LEMMA StreakAlways == CheapExit => (Spec => []StreakInv)
<1> SUFFICES ASSUME CheapExit
             PROVE  Spec => []StreakInv
  OBVIOUS
<1>1. Init => StreakInv
  BY DEF Init, StreakInv, Pending, Base, MaybeResetDailyStats, FreshStats,
         NoTradesToday
<1>2. LedgerInv /\ LedgerInv' /\ StreakInv /\ [Next]_vars => StreakInv'
  BY StreakStep
<1> QED
  BY <1>1, <1>2, LedgerAlways, PTL DEF Spec

(* When leaving costs no more than the target earns, the streak the guard  *)
(* reads is the streak of the settled trades.                              *)
THEOREM StreakExact == CheapExit => (Spec => []StreakIsBrokers)
<1> SUFFICES ASSUME CheapExit
             PROVE  Spec => []StreakIsBrokers
  OBVIOUS
<1>1. LedgerInv /\ StreakInv => StreakIsBrokers
  BY DEF LedgerInv, TrackInv, DateInv, StreakInv, StreakIsBrokers, Base,
         MaybeResetDailyStats
<1> QED
  BY <1>1, LedgerAlways, StreakAlways, PTL

(* Only Enter takes the broker from no position to one. *)
LEMMA OnlyEnterOpens ==
  ASSUME Next, position = None, position' # None
  PROVE  Enter
BY DEF Next, RunIteration, NextBar, StopHit, RecordVanished, ManageClose,
       ManageModify, ManageNone, GuardBlocks, CoolingDown, NoEntry, broker

(* No entry on a day whose settled trades already breach a guard limit. *)
THEOREM EntriesWithinGuard == CheapExit => (Spec => NoEntryPastGuard)
<1> SUFFICES ASSUME CheapExit
             PROVE  Spec => NoEntryPastGuard
  OBVIOUS
<1>1. LedgerInv /\ StreakInv /\ [Next]_vars =>
        [position = None /\ position' # None =>
           /\ today.pnl < ProfitTarget /\ today.pnl > MaxLoss
           /\ today.streak < MaxConsecLosses
           /\ today.closes < MaxTrades]_vars
  <2> SUFFICES ASSUME LedgerInv, StreakInv, Next, position = None, position' # None
               PROVE  /\ today.pnl < ProfitTarget /\ today.pnl > MaxLoss
                      /\ today.streak < MaxConsecLosses
                      /\ today.closes < MaxTrades
    OBVIOUS
  <2>1. TradingAllowed(Refreshed) /\ ~Pending /\ TypeOK
    BY OnlyEnterOpens DEF Enter, Ticked, Scanning, Pending, LedgerInv
  <2>2. today.streak = Base.losses /\ today.closes = Base.trade_count
    BY <2>1, RefreshedFields DEF StreakInv, LedgerInv, CountInv, DailyStats
  <2> QED
    BY <2>1, <2>2, RefreshedFields DEF TradingAllowed
<1> QED
  BY <1>1, LedgerAlways, StreakAlways, PTL DEF Spec, NoEntryPastGuard

(* A stop only ever moves towards more profit. *)
THEOREM StopsOnlyImprove == Spec => StopNeverRegresses
<1>1. TypeOK /\ [Next]_vars =>
        [position # None /\ position' # None =>
           /\ position'.id = position.id /\ position'.entry = position.entry
           /\ IF position.side = "BUY" THEN position'.stop >= position.stop
                                       ELSE position'.stop <= position.stop]_vars
  <2> SUFFICES ASSUME TypeOK, Next, position # None, position' # None
               PROVE  /\ position'.id = position.id
                      /\ position'.entry = position.entry
                      /\ IF position.side = "BUY"
                           THEN position'.stop >= position.stop
                           ELSE position'.stop <= position.stop
    OBVIOUS
  <2>1. position \in Positions /\ position.stop \in Int
    BY DEF TypeOK, Positions
  <2>2. CASE ManageModify
    <3>1. cur \in Bars
      BY <2>2 DEF ManageModify, EndIteration, TypeOK
    <3>2. BreakevenStop(position, TradingCost) \in Int
      BY <2>1, <3>1, PriceType
    <3>3. ImprovesStopLoss(position.side, position.stop,
                           BreakevenStop(position, TradingCost))
      BY <2>2 DEF ManageModify, ManagePosition
    <3>4. position' = [position EXCEPT !.stop = BreakevenStop(position, TradingCost)]
      BY <2>2 DEF ManageModify
    <3> QED
      BY <2>1, <3>2, <3>3, <3>4 DEF ImprovesStopLoss, Positions
  <2>3. CASE ~ManageModify
    <3>1. position' = position
      BY <2>3 DEF Next, RunIteration, NextBar, BookClose, RecordVanished,
                  ManageClose, ManageNone, GuardBlocks, CoolingDown, NoEntry,
                  Enter, Ticked, Scanning, broker
    <3> QED
      BY <2>1, <3>1
  <2> QED
    BY <2>2, <2>3
<1> QED
  BY <1>1, TypeCorrect, PTL DEF Spec, StopNeverRegresses

-----------------------------------------------------------------------------
(* The locked profit: once the bot has noted a breakeven move, the stop of *)
(* the open position, or the trade that stop has just closed, is worth at  *)
(* least the lock.                                                         *)

Moved == context # None /\ context.breakeven

LockInv ==
  /\ Moved /\ position # None => Pnl(position, position.stop) >= BeLock
  /\ Moved /\ Pending => lastTrade.pnl >= BeLock
  /\ BreakevenLocksProfit

(* A breakeven stop is worth the lock and, on top of it, the trading cost. *)
LEMMA BreakevenWorth ==
  ASSUME NEW p \in Positions, NEW cost \in Nat
  PROVE  \A x \in Positions :
           x.side = p.side /\ x.entry = p.entry /\ x.stop = BreakevenStop(p, cost)
             => Pnl(x, x.stop) >= BeLock
<1> SUFFICES ASSUME NEW x \in Positions, x.side = p.side, x.entry = p.entry,
                    x.stop = BreakevenStop(p, cost)
             PROVE  Pnl(x, x.stop) >= BeLock
  OBVIOUS
<1> DEFINE lock == BeLock \div Quantity
<1>1. /\ Quantity \in Nat \ {0} /\ BeLock \in Int /\ lock * Quantity = BeLock
      /\ lock \in Int /\ p.entry \in Int
  BY ConfigAssumption DEF Positions
<1>2. Pnl(x, x.stop) = (lock + cost) * Quantity
  <2>1. CASE p.side = "BUY"
    <3>1. x.stop - x.entry = lock + cost
      BY <1>1, <2>1 DEF BreakevenStop, CashToPriceDistance
    <3> QED
      BY <2>1, <3>1 DEF Pnl
  <2>2. CASE p.side # "BUY"
    <3>1. x.entry - x.stop = lock + cost
      BY <1>1, <2>2, SMTT(40) DEF BreakevenStop, CashToPriceDistance
    <3> QED
      BY <2>2, <3>1 DEF Pnl
  <2> QED
    BY <2>1, <2>2
<1> HIDE DEF lock
<1>3. (lock + cost) * Quantity = lock * Quantity + cost * Quantity
  BY <1>1
<1>4. cost * Quantity \in Nat
  BY <1>1
<1> QED
  BY <1>1, <1>2, <1>3, <1>4

(* No step of the broker or the bot gives the locked profit away.          *)
LEMMA LockStep ==
  ASSUME LedgerInv, LockInv, [Next]_vars
  PROVE  LockInv'
<1>0. TypeOK
  BY DEF LedgerInv
<1>1. CASE NextBar
  <2> PICK b \in Bars, d \in Days : BarStep(b, d)
    BY <1>1, NextBarIsBarStep
  <2>1. ~Pending /\ UNCHANGED <<context, journal, lastKnown>>
    BY BarStepFields DEF BarStep, loop
  <2>2. CASE StopHit(b)
    <3>1. position # None /\ BookClose(TodayOn(d), bar', Pnl(position, position.stop))
      BY <2>2 DEF BarStep, StopHit
    <3>2. position' = None /\ lastTrade'.pnl = Pnl(position, position.stop)
      BY <3>1 DEF BookClose
    <3> QED
      BY <2>1, <3>1, <3>2 DEF LockInv, Moved, BreakevenLocksProfit
  <2>3. CASE ~StopHit(b)
    <3>1. UNCHANGED <<position, lastTrade>>
      BY <2>3 DEF BarStep
    <3> QED
      BY <2>1, <3>1 DEF LockInv, Moved, Pending, BreakevenLocksProfit
  <2> QED
    BY <2>2, <2>3
<1>2. CASE RecordVanished
  <2> DEFINE pnl == today.pnl - Base.realized
             reason == IF context # None /\ context.breakeven
                         THEN "BREAKEVEN_SL" ELSE "HARD_SL"
  <2>1. /\ Pending /\ context' = None
        /\ journal'.last = [id |-> lastKnown.id, pnl |-> pnl, reason |-> reason]
    BY <1>2 DEF RecordVanished, RecordClose, WriteJournalRow, Pending, Base
  <2>2. pnl = lastTrade.pnl
    <3>1. lastTrade.pnl \in Int /\ Base.realized \in Int
      BY <1>0, <2>1, RefreshedFields
         DEF LedgerInv, TrackInv, TypeOK, ClosedTrades, DailyStats
    <3> QED
      BY <2>1, <3>1 DEF LedgerInv, PnlInv
  <2>3. journal'.last.pnl = pnl /\ journal'.last.reason = reason
    BY <2>1
  <2>4. reason = "BREAKEVEN_SL" => pnl >= BeLock
    <3>1. reason = "BREAKEVEN_SL" => Moved
      BY DEF Moved
    <3> HIDE DEF pnl, reason
    <3> QED
      BY <2>1, <2>2, <3>1 DEF LockInv
  <2> HIDE DEF pnl, reason
  <2> QED
    BY <2>1, <2>3, <2>4 DEF LockInv, Moved, BreakevenLocksProfit
<1>3. CASE ManageClose
  <2>1. context' = None /\ journal'.last.reason = "TP_CASH"
    BY <1>3 DEF ManageClose, RecordClose, WriteJournalRow
  <2> QED
    BY <2>1 DEF LockInv, Moved, BreakevenLocksProfit
<1>4. CASE ManageModify
  <2>1. /\ position \in Positions /\ cur \in Bars /\ lastKnown' = position'
        /\ position' = [position EXCEPT !.stop = BreakevenStop(position, TradingCost)]
        /\ UNCHANGED <<journal, lastTrade>>
    BY <1>0, <1>4 DEF ManageModify, EndIteration, TypeOK
  <2>2. TradingCost \in Nat /\ BreakevenStop(position, TradingCost) \in Int
    BY <2>1, PriceType
  <2>3. /\ position' \in Positions /\ position'.side = position.side
        /\ position'.entry = position.entry
        /\ position'.stop = BreakevenStop(position, TradingCost)
    BY <2>1, <2>2 DEF Positions
  <2>4. Pnl(position', position'.stop) >= BeLock
    BY <2>1, <2>2, <2>3, BreakevenWorth
  <2>5. position' # None
    BY <2>3, ReplayAssumption
  <2> QED
    BY <2>1, <2>4, <2>5 DEF LockInv, Pending, BreakevenLocksProfit
<1>5. CASE Enter
  <2>1. ~Moved' /\ UNCHANGED journal
    BY <1>5 DEF Enter, Moved
  <2> QED
    BY <2>1 DEF LockInv, BreakevenLocksProfit
<1>6. CASE ManageNone \/ GuardBlocks \/ CoolingDown \/ NoEntry
  <2>1. UNCHANGED <<position, context, journal, lastTrade>>
    BY <1>6 DEF ManageNone, GuardBlocks, CoolingDown, NoEntry, broker
  <2>2. ~Pending'
    BY <1>6, <2>1, QuietActions DEF Quiet, Pending
  <2> QED
    BY <2>1, <2>2 DEF LockInv, Moved, BreakevenLocksProfit
<1>7. CASE UNCHANGED vars
  BY <1>7 DEF vars, clock, broker, loop, LockInv, Moved, Pending, BreakevenLocksProfit
<1> QED
  BY <1>1, <1>2, <1>3, <1>4, <1>5, <1>6, <1>7 DEF Next, RunIteration

(* A trade recorded as a breakeven stop made at least the locked profit,   *)
(* the trading cost included, on either side of the market.                *)
THEOREM BreakevenPaysLock == Spec => []BreakevenLocksProfit
<1>1. Init => LockInv
  BY DEF Init, LockInv, Moved, BreakevenLocksProfit
<1>2. LedgerInv /\ LockInv /\ [Next]_vars => LockInv'
  BY LockStep
<1>3. LockInv => BreakevenLocksProfit
  BY DEF LockInv
<1> QED
  BY <1>1, <1>2, <1>3, LedgerAlways, PTL DEF Spec

-----------------------------------------------------------------------------
(* Refinement: a broker's step is a stutter of the desk, an iteration is   *)
(* one of the desk's three moves on the row's date.                        *)

(* The desk's counters on date d are those of the reset statistics. *)
LEMMA DeskCounters ==
  ASSUME TypeOK
  PROVE  /\ Desk!SettledOn(day) = Base.trade_count
         /\ Desk!StreakOn(day) = Base.losses
BY DEF Desk!SettledOn, Desk!StreakOn, Base, MaybeResetDailyStats, FreshStats

(* Every step of the replay is a step of the trading desk, or leaves its   *)
(* variables alone.                                                        *)
LEMMA DeskStep ==
  LedgerInv /\ LedgerInv' /\ [Next]_vars => [Desk!DeskNext]_(Desk!deskVars)
<1> SUFFICES ASSUME LedgerInv, LedgerInv', [Next]_vars
             PROVE  [Desk!DeskNext]_(Desk!deskVars)
  OBVIOUS
<1>0. /\ TypeOK /\ day \in Days
      /\ Desk!SettledOn(day) = Base.trade_count
      /\ Desk!StreakOn(day) = Base.losses
  BY DeskCounters DEF LedgerInv, TypeOK
<1>1. CASE NextBar \/ UNCHANGED vars
  BY <1>1 DEF NextBar, vars, loop, Desk!deskVars
<1>2. CASE RecordVanished \/ ManageClose
  <2>1. PICK pnl \in Int : stats' = RecordClosedTrade(Refreshed, pnl)
    <3>1. CASE RecordVanished
      <4>1. today.pnl - MaybeResetDailyStats(stats, day).realized \in Int
        BY <1>0, RefreshedFields DEF Base, DailyStats, TypeOK
      <4> QED
        BY <3>1, <4>1 DEF RecordVanished, RecordClose
    <3>2. CASE ManageClose
      <4>1. cur \in Bars /\ position \in Positions
        BY <1>0, <3>2 DEF ManageClose, EndIteration, TypeOK
      <4>2. UnrealizedPnl \in Int
        BY <4>1, PriceType, PnlIsInt DEF UnrealizedPnl
      <4> QED
        BY <3>2, <4>2 DEF ManageClose, RecordClose
    <3> QED
      BY <1>2, <3>1, <3>2
  <2>2. day' = day /\ lastKnown # None /\ lastKnown' = None
    BY <1>2 DEF RecordVanished, ManageClose, RecordClose, EndIteration,
                LedgerInv, TrackInv, Pending
  <2>3. /\ stats'.trading_day = day
        /\ stats'.trade_count = Base.trade_count + 1
        /\ stats'.losses = StreakAfter(Base.losses, pnl)
    BY <1>0, <2>1, <2>2, RecordedFields
  <2>4. Desk!Settle(day)
    BY <1>0, <2>2, <2>3 DEF Desk!Settle, StreakAfter
  <2> QED
    BY <1>0, <2>3, <2>4 DEF Desk!DeskNext
<1>3. CASE Enter
  <2>1. /\ stats' = Refreshed /\ TradingAllowed(Refreshed) /\ lastKnown = None
        /\ lastKnown' = position' /\ position' # None
    BY <1>0, <1>3, EnterPosition, ReplayAssumption DEF Enter, Ticked, Scanning
  <2>2. Desk!Open(day)
    BY <1>0, <2>1, RefreshedFields DEF Desk!Open, TradingAllowed
  <2> QED
    BY <1>0, <2>1, <2>2, RefreshedFields DEF Desk!DeskNext
<1>4. CASE ManageModify \/ ManageNone \/ GuardBlocks \/ CoolingDown \/ NoEntry
  <2>1. stats' = Refreshed
    BY <1>4 DEF ManageModify, ManageNone, GuardBlocks, CoolingDown, NoEntry, Ticked
  <2>2. (lastKnown' # None) = (lastKnown # None)
    <3>1. CASE ManageModify
      BY <1>0, <3>1, ModifyPosition, ReplayAssumption
         DEF ManageModify, LedgerInv, TrackInv, Pending
    <3>2. CASE ManageNone \/ GuardBlocks \/ CoolingDown \/ NoEntry
      BY <3>2, QuietActions DEF Quiet, LedgerInv, TrackInv
    <3> QED
      BY <1>4, <3>1, <3>2
  <2>3. Desk!Idle(day)
    BY <1>0, <2>1, <2>2, RefreshedFields DEF Desk!Idle
  <2> QED
    BY <1>0, <2>1, <2>3, RefreshedFields DEF Desk!DeskNext
<1> QED
  BY <1>1, <1>2, <1>3, <1>4 DEF Next, RunIteration

(* The bot's counters and tracked position implement the trading desk:     *)
(* each tracked trade is settled once, and entries respect the limits.     *)
THEOREM ReplayImplementsDesk == Spec => ImplementsDesk
<1>1. Init => Desk!DeskInit
  BY ReplayAssumption DEF Init, Desk!DeskInit, FreshStats
<1>2. LedgerInv /\ LedgerInv' /\ [Next]_vars => [Desk!DeskNext]_(Desk!deskVars)
  BY DeskStep
<1> QED
  BY <1>1, <1>2, LedgerAlways, PTL DEF Spec, ImplementsDesk, Desk!DeskSpec
=============================================================================
