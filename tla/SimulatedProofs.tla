-------------------------- MODULE SimulatedProofs --------------------------
(***************************************************************************)
(* Proofs about the simulated sessions, for any prices, costs, drift,      *)
(* earlier journal, and number of dates and restarts.                      *)
(***************************************************************************)
EXTENDS SimulatedModes, ListProofs

-----------------------------------------------------------------------------
(* The inductive invariant.                                                *)

(* What row i of a session has to do with its trade i, when t are the      *)
(* trades and u those whose row could not be written at the close.  The    *)
(* conjuncts of JournalWithinDrift and of SimulationNeverLoses about it.   *)
Tells(row, i, t, u) ==
  /\ IF i \in u
       THEN /\ row.reason # "TP_CASH"
            /\ row.pnl \in {t[i], 0, Sum(SubSeq(t, 1, i))}
       ELSE /\ row.reason = "TP_CASH" /\ row.pnl >= TpCash
            /\ row.pnl - t[i] \in -Drift * Quantity .. Drift * Quantity
  /\ Drift * Quantity <= TpCash => row.pnl >= 0

RowsTell ==
  \A i \in 1 .. Len(journal) - firstRow + 1 :
    Tells(journal[firstRow - 1 + i], i, trades, unwritten)

(* One row per trade but the pending one, and what each of them says. *)
Missing == IF RowPending THEN 1 ELSE 0
BookInv ==
  /\ CacheMatchesPosition
  /\ position # None => tracked
  /\ Len(trades) = Len(journal) - firstRow + 1 + Missing
  /\ RowsTell

(* While a row is pending the loop's total is from before the close, or    *)
(* from an attempt to record it: what the next attempt takes off.          *)
PendingInv ==
  RowPending =>
    /\ Len(trades) \in unwritten
    /\ stats.realized \in {Sum(trades), Sum(trades) - trades[Len(trades)]}

(* What counters have counted of today, and what they have not yet.        *)
CountOf(s) == IF s.trading_day = day THEN s.trade_count ELSE 0
Held == IF position # None THEN 1 ELSE 0

(* The counters miss no entry of today but the open one and one per        *)
(* restart; between iterations those in the file are as good.              *)
CountInv ==
  /\ stats.trading_day <= day /\ file.trading_day <= day
  /\ today.entries <= CountOf(stats) + Held + today.restarts
  /\ today.entries <= CountOf(file) + 1 + today.restarts
  /\ pc = "iterate" => CountOf(stats) = CountOf(file)
  /\ EntriesWithinLimit

(* When price cannot drift through a take-profit, nothing ever loses.      *)
GainInv ==
  Drift * Quantity <= TpCash =>
    /\ \A i \in 1 .. Len(trades) : trades[i] >= 0
    /\ Sum(trades) >= 0
    /\ stats.losses = 0 /\ file.losses = 0

SessionInv == TypeOK /\ BookInv /\ PendingInv /\ CountInv /\ GainInv

-----------------------------------------------------------------------------
(* The rules.                                                              *)

LEMMA PnlIsInt ==
  ASSUME NEW p \in [side : Sides, entry : Int, stop : Int], NEW price \in Int
  PROVE  Pnl(p, price) \in Int
<1>1. p.entry \in Int /\ Quantity \in Int
  BY ConfigAssumption
<1> QED
  BY <1>1 DEF Pnl

(* A price that moved by at most n ticks moves the P&L by at most n times  *)
(* the quantity, to either side.                                           *)
LEMMA ScaledDifference ==
  ASSUME NEW a \in Int, NEW b \in Int, NEW n \in Nat, NEW q \in Nat,
         b - a \in -n .. n
  PROVE  a * q - b * q \in -n * q .. n * q
<1> DEFINE d == b - a
<1>1. d \in Int /\ d <= n /\ -n <= d
  OBVIOUS
<1>2. d * q <= n * q /\ -n * q <= d * q /\ d * q \in Int
  <2> HIDE DEF d
  <2>1. (n - d) * q >= 0 /\ (d + n) * q >= 0
    <3>1. n - d \in Nat /\ d + n \in Nat
      BY <1>1
    <3>2. \A k \in Nat : k * q >= 0
      OBVIOUS
    <3> QED
      BY <3>1, <3>2
  <2>2. (n - d) * q = n * q - d * q /\ (d + n) * q = d * q + n * q
    BY <1>1
  <2>3. -n * q = -(n * q) /\ n * q \in Int /\ d * q \in Int
    BY <1>1
  <2> QED
    BY <2>1, <2>2, <2>3
<1>3. a * q - b * q = -(d * q)
  OBVIOUS
<1>4. -n * q = -(n * q) /\ n * q \in Int
  OBVIOUS
<1> HIDE DEF d
<1> QED
  BY <1>2, <1>3, <1>4

LEMMA DriftBoundsPnl ==
  ASSUME NEW p \in [side : Sides, entry : Int, stop : Int],
         NEW price \in Prices, NEW settled \in Drifted(price)
  PROVE  Pnl(p, price) - Pnl(p, settled)
           \in -Drift * Quantity .. Drift * Quantity
<1>1. /\ price \in Int /\ settled \in Int /\ p.entry \in Int
      /\ Drift \in Nat /\ Quantity \in Nat /\ settled - price \in -Drift .. Drift
  BY ConfigAssumption, SimulatedAssumption DEF Drifted
<1>2. CASE p.side = "BUY"
  <2>1. (settled - p.entry) - (price - p.entry) \in -Drift .. Drift
    BY <1>1
  <2> QED
    BY <1>1, <1>2, <2>1, ScaledDifference DEF Pnl
<1>3. CASE p.side # "BUY"
  <2>1. (p.entry - settled) - (p.entry - price) \in -Drift .. Drift
    BY <1>1
  <2> QED
    BY <1>1, <1>3, <2>1, ScaledDifference DEF Pnl
<1> QED
  BY <1>2, <1>3

LEMMA CooldownTypes ==
  ASSUME NEW n \in Int
  PROVE  StartCooldown(n) \in Nat /\ Tick(n) \in Nat
BY DEF StartCooldown, Tick, AtLeastZero

(* Counting a close. *)
LEMMA CountedCounters ==
  ASSUME NEW r \in DailyStats(Days), NEW pnl \in Int,
         NEW s, s = RecordClosedTrade(r, pnl)
  PROVE  /\ s \in DailyStats(Days) /\ s.trading_day = r.trading_day
         /\ s.trade_count = r.trade_count + 1 /\ s.realized = r.realized
         /\ pnl >= 0 => s.losses = 0
<1> DEFINE n == StreakAfter(r.losses, pnl)
<1>1. /\ r.trading_day \in Days /\ r.realized \in Int /\ r.trade_count \in Nat
      /\ r.losses \in Nat
      /\ r = [trading_day |-> r.trading_day, realized |-> r.realized,
              trade_count |-> r.trade_count, losses |-> r.losses]
  BY DEF DailyStats
<1>2. n \in Nat /\ (pnl >= 0 => n = 0) /\ r.trade_count + 1 \in Nat
  BY <1>1 DEF StreakAfter
<1>3. s = [r EXCEPT !.trade_count = r.trade_count + 1, !.losses = n]
  BY DEF RecordClosedTrade
<1> HIDE DEF n
<1>4. s = [trading_day |-> r.trading_day, realized |-> r.realized,
           trade_count |-> r.trade_count + 1, losses |-> n]
  BY <1>1, <1>3
<1> QED
  BY <1>1, <1>2, <1>4 DEF DailyStats

(* The counters an iteration works with are today's. *)
LEMMA RefreshedCounters ==
  ASSUME TypeOK
  PROVE  /\ Refreshed \in DailyStats(Days)
         /\ Refreshed.trading_day = day
         /\ Refreshed.trade_count = CountOf(stats)
         /\ Refreshed.losses = stats.losses \/ Refreshed.losses = 0
         /\ Refreshed.realized = Sum(trades)
<1> DEFINE s == MaybeResetDailyStats(stats, day)
<1>1. /\ s \in DailyStats(Days) /\ s.trading_day = day
      /\ s.trade_count = CountOf(stats)
      /\ s.losses = stats.losses \/ s.losses = 0
  <2>1. CASE stats.trading_day = day
    BY <2>1 DEF TypeOK, MaybeResetDailyStats, CountOf
  <2>2. CASE stats.trading_day # day
    BY <2>2 DEF TypeOK, MaybeResetDailyStats, FreshStats, DailyStats, CountOf
  <2> QED
    BY <2>1, <2>2
<1> HIDE DEF s
<1>2. Refreshed = [s EXCEPT !.realized = Sum(trades)] /\ Sum(trades) \in Int
  BY SumType DEF Refreshed, TodayRealizedPnl, s, TypeOK
<1> QED
  BY <1>1, <1>2 DEF DailyStats

-----------------------------------------------------------------------------
(* The rows.                                                               *)

(* A later trade does not change what the first ones add up to. *)
LEMMA PrefixKept ==
  ASSUME NEW t \in Seq(Int), NEW x \in Int, NEW i \in 1 .. Len(t)
  PROVE  SubSeq(Append(t, x), 1, i) = SubSeq(t, 1, i)
<1> DEFINE r == Append(t, x)
           u == SubSeq(t, 1, i)
           v == SubSeq(r, 1, i)
<1>1. /\ r \in Seq(Int) /\ Len(r) = Len(t) + 1 /\ Len(t) \in Nat
      /\ \A k \in 1 .. Len(t) : r[k] = t[k]
  BY AppendProperties, LenProperties
<1>2. i \in Int /\ 1 <= i + 1 /\ i <= Len(t) /\ i <= Len(r) /\ i - 1 + 1 = i
  BY <1>1
<1>3. /\ u \in Seq(Int) /\ Len(u) = i
      /\ \A k \in 1 .. i : u[k] = t[1 + k - 1]
  <2>1. /\ u \in Seq(Int) /\ Len(u) = i - 1 + 1
        /\ \A k \in 1 .. i - 1 + 1 : u[k] = t[1 + k - 1]
    BY <1>2, SliceOf
  <2> QED
    BY <1>2, <2>1
<1> HIDE DEF r, u
<1>4. /\ v \in Seq(Int) /\ Len(v) = i
      /\ \A k \in 1 .. i : v[k] = r[1 + k - 1]
  <2>1. /\ v \in Seq(Int) /\ Len(v) = i - 1 + 1
        /\ \A k \in 1 .. i - 1 + 1 : v[k] = r[1 + k - 1]
    BY <1>1, <1>2, SliceOf
  <2> QED
    BY <1>2, <2>1
<1> HIDE DEF v
<1>5. \A k \in 1 .. i : u[k] = v[k]
  <2>1. \A k \in 1 .. i : 1 + k - 1 = k /\ k \in 1 .. Len(t)
    BY <1>1, <1>2
  <2> QED
    BY <1>1, <1>3, <1>4, <2>1
<1> QED
  BY <1>3, <1>4, <1>5, SeqEqual DEF r, u, v

(* What a row says of an earlier trade stands after a later close. *)
LEMMA StillTells ==
  ASSUME NEW t \in Seq(Int), NEW x \in Int, NEW u, NEW v,
         NEW i \in 1 .. Len(t), i \in v <=> i \in u,
         NEW row, Tells(row, i, t, u)
  PROVE  Tells(row, i, Append(t, x), v)
<1>1. Append(t, x)[i] = t[i] /\ SubSeq(Append(t, x), 1, i) = SubSeq(t, 1, i)
  BY AppendProperties, PrefixKept
<1> QED
  BY <1>1 DEF Tells

(* The rows after a step that writes the next one, or none. *)
LEMMA NextRow ==
  ASSUME NEW j \in Seq(Rows), NEW k, NEW first \in 1 .. Len(j) + 1, NEW n \in Nat,
         Len(j) = first - 1 + n, NEW t, NEW u,
         \A i \in 1 .. n : Tells(j[first - 1 + i], i, t, u),
         \/ k = j
         \/ \E row \in Rows : k = Append(j, row) /\ Tells(row, n + 1, t, u)
  PROVE  /\ k \in Seq(Rows) /\ first \in 1 .. Len(k) + 1
         /\ \A i \in 1 .. Len(k) - first + 1 : Tells(k[first - 1 + i], i, t, u)
<1>1. Len(j) \in Nat /\ first \in Nat /\ Len(j) - first + 1 = n
  BY LenProperties
<1>2. CASE k = j
  BY <1>1, <1>2
<1>3. CASE \E row \in Rows : k = Append(j, row) /\ Tells(row, n + 1, t, u)
  <2>1. PICK row \in Rows : k = Append(j, row) /\ Tells(row, n + 1, t, u)
    BY <1>3
  <2>2. /\ k \in Seq(Rows) /\ Len(k) = Len(j) + 1 /\ k[Len(j) + 1] = row
        /\ \A i \in 1 .. Len(j) : k[i] = j[i]
    BY <2>1, AppendProperties
  <2>3. first \in 1 .. Len(k) + 1 /\ Len(k) - first + 1 = n + 1
    BY <1>1, <2>2
  <2>4. ASSUME NEW i \in 1 .. n PROVE Tells(k[first - 1 + i], i, t, u)
    <3>1. first - 1 + i \in 1 .. Len(j)
      BY <1>1
    <3>2. k[first - 1 + i] = j[first - 1 + i]
      BY <2>2, <3>1
    <3> QED
      BY <3>2
  <2>5. Tells(k[first - 1 + (n + 1)], n + 1, t, u)
    <3>1. first - 1 + (n + 1) = Len(j) + 1
      BY <1>1
    <3> QED
      BY <2>1, <2>2, <3>1
  <2>6. \A i \in 1 .. n + 1 : i \in 1 .. n \/ i = n + 1
    OBVIOUS
  <2> QED
    BY <2>2, <2>3, <2>4, <2>5, <2>6
<1> QED
  BY <1>2, <1>3

-----------------------------------------------------------------------------
(* Every step keeps it.                                                    *)

LEMMA InitInv == Init => SessionInv
<1> SUFFICES ASSUME Init PROVE SessionInv
  OBVIOUS
<1>1. journal \in Seq(Rows) /\ Len(journal) \in Nat
      /\ trades \in Seq(Int) /\ Len(trades) = 0 /\ Sum(trades) = 0
  <2>1. trades = <<>> /\ journal \in Seq(Rows)
    BY SimulatedAssumption DEF Init
  <2> QED
    BY <2>1, EmptySeq, LenProperties, SumEmpty
<1>2. 0 \in Days /\ FreshStats(0) \in DailyStats(Days)
      /\ FreshStats(0).trade_count = 0
      /\ FreshStats(0).losses = 0 /\ FreshStats(0).trading_day = 0
  BY SimulatedAssumption DEF Days, FreshStats, DailyStats
<1>3. TypeOK
  <2>1. NothingToday \in [pnl : Int, entries : Nat, restarts : Nat]
    BY DEF NothingToday
  <2>2. stats \in DailyStats(Days) /\ file \in DailyStats(Days)
    BY <1>2 DEF Init
  <2>3. 0 \in 0 .. MaxRestarts /\ 0 \in 0 .. MaxFaults
        /\ firstRow \in 1 .. Len(journal) + 1
    BY <1>1, SimulatedAssumption DEF Init
  <2> QED
    BY <1>1, <1>2, <2>1, <2>2, <2>3 DEF Init, TypeOK
<1>4. BookInv /\ PendingInv
  <2>1. /\ CacheMatchesPosition /\ position = None /\ ~RowPending
        /\ Missing = 0
    BY DEF Init, CacheMatchesPosition, RowPending, Missing
  <2>2. /\ Len(journal) - firstRow + 1 = 0
        /\ 1 .. Len(journal) - firstRow + 1 = {}
    BY <1>1 DEF Init
  <2> QED
    BY <1>1, <2>1, <2>2 DEF BookInv, PendingInv, RowsTell
<1>5. CountInv
  BY <1>2, ConfigAssumption
     DEF Init, CountInv, CountOf, Held, NothingToday, EntriesWithinLimit
<1>6. GainInv
  BY <1>1, <1>2 DEF Init, GainInv
<1> QED
  BY <1>3, <1>4, <1>5, <1>6 DEF SessionInv

(* A step that moves neither trades nor rows. *)
LEMMA BookKept ==
  ASSUME BookInv, UNCHANGED <<trades, journal, firstRow, unwritten>>,
         CacheMatchesPosition', (position # None => tracked)',
         RowPending' = RowPending
  PROVE  BookInv'
BY DEF BookInv, RowsTell, Missing

(* An iteration that leaves the trades and the journal alone. *)
LEMMA QuietKeeps ==
  ASSUME SessionInv, Iteration, cooldown' \in Nat,
         stats' = stats \/ (stats' = Refreshed /\ ~RowPending),
         UNCHANGED <<broker, tracked, breakeven_applied, written, today>>
  PROVE  SessionInv'
<1> USE DEF SessionInv
<1>1. /\ Refreshed \in DailyStats(Days)
      /\ Refreshed.trading_day = day /\ Refreshed.trade_count = CountOf(stats)
      /\ Refreshed.losses = stats.losses \/ Refreshed.losses = 0
  BY RefreshedCounters
<1>2. TypeOK'
  BY <1>1 DEF TypeOK, Iteration, past, Days, broker, written
<1>3. BookInv'
  <2>1. /\ CacheMatchesPosition' /\ (position # None => tracked)'
        /\ RowPending' = RowPending
    BY DEF BookInv, CacheMatchesPosition, RowPending, broker
  <2> QED
    BY <2>1, BookKept DEF Iteration, past, broker, written
<1>4. PendingInv'
  BY DEF PendingInv, RowPending, broker, written
<1>5. CountInv'
  BY <1>1 DEF CountInv, CountOf, Held, EntriesWithinLimit, Iteration, TypeOK,
              Days, broker
<1>6. GainInv'
  BY <1>1 DEF GainInv, Iteration, broker
<1> QED
  BY <1>2, <1>3, <1>4, <1>5, <1>6

LEMMA ManageNoneKeeps ==
  ASSUME SessionInv,
         ManageNone \/ CallRaises \/ GetBarsRaises \/ GuardBlocks \/ NoEntry
  PROVE  SessionInv'
<1>0. cooldown \in Nat /\ (position # None => tracked = TRUE)
  BY DEF SessionInv, TypeOK, BookInv
<1>1. CASE ManageNone
  BY <1>0, <1>1, QuietKeeps DEF ManageNone, RowPending
<1>2. CASE CallRaises
  BY <1>0, <1>2, QuietKeeps DEF CallRaises, RowPending
<1>3. CASE GetBarsRaises
  BY <1>0, <1>3, QuietKeeps DEF GetBarsRaises, loop
<1>4. CASE GuardBlocks
  BY <1>0, <1>4, QuietKeeps DEF GuardBlocks, Scanning, RowPending
<1>5. CASE NoEntry
  <2>1. cooldown' \in Nat
    BY <1>0, <1>5, CooldownTypes DEF NoEntry
  <2> QED
    BY <1>5, <2>1, QuietKeeps DEF NoEntry, Scanning, RowPending
<1> QED
  BY <1>1, <1>2, <1>3, <1>4, <1>5

LEMMA ManageModifyKeeps ==
  ASSUME SessionInv, ManageModify
  PROVE  SessionInv'
<1> USE DEF SessionInv
<1>1. /\ Refreshed \in DailyStats(Days)
      /\ Refreshed.trading_day = day /\ Refreshed.trade_count = CountOf(stats)
      /\ Refreshed.losses = stats.losses \/ Refreshed.losses = 0
  BY RefreshedCounters
<1>2. /\ position \in [side : Sides, entry : Int, stop : Int]
      /\ BreakevenStop(position, Cost) \in Int
  <2>1. position \in [side : Sides, entry : Int, stop : Int]
    BY DEF ManageModify, TypeOK
  <2>2. CashToPriceDistance(BeLock) \in Int /\ Cost \in Int
    BY ConfigAssumption, SimulatedAssumption DEF CashToPriceDistance
  <2>3. position.entry \in Int
    BY <2>1
  <2> QED
    BY <2>1, <2>2, <2>3 DEF BreakevenStop
<1>3. /\ position' \in [side : Sides, entry : Int, stop : Int]
      /\ position' # None /\ cache' = position'.stop
  BY <1>2, SimulatedAssumption DEF ManageModify
<1>4. /\ position # None /\ tracked' = TRUE /\ stats' = Refreshed
      /\ ~RowPending /\ ~RowPending'
      /\ UNCHANGED <<trades, written, today>>
      /\ pc = "iterate" /\ pc' = "save" /\ UNCHANGED <<day, file, past>>
  BY <1>3 DEF ManageModify, RowPending, Iteration
<1>5. TypeOK'
  BY <1>1, <1>3, <1>4 DEF TypeOK, ManageModify, past, written, Days
<1>6. BookInv'
  <2>1. CacheMatchesPosition' /\ (position # None => tracked)'
        /\ RowPending' = RowPending
    BY <1>3, <1>4 DEF CacheMatchesPosition, RowPending
  <2> QED
    BY <1>4, <2>1, BookKept DEF past, written
<1>7. PendingInv'
  BY <1>4 DEF PendingInv
<1>8. CountInv'
  BY <1>1, <1>3, <1>4 DEF CountInv, CountOf, Held, EntriesWithinLimit, TypeOK, Days
<1>9. GainInv'
  BY <1>1, <1>4 DEF GainInv
<1> QED
  BY <1>5, <1>6, <1>7, <1>8, <1>9

LEMMA EnterKeeps ==
  ASSUME SessionInv, Enter
  PROVE  SessionInv'
<1> USE DEF SessionInv
<1>1. /\ Refreshed \in DailyStats(Days)
      /\ Refreshed.trading_day = day /\ Refreshed.trade_count = CountOf(stats)
      /\ Refreshed.losses = stats.losses \/ Refreshed.losses = 0
  BY RefreshedCounters
<1>2. stats' = Refreshed /\ Refreshed.trade_count < MaxTrades
  BY DEF Enter, Scanning, TradingAllowed
<1>3. /\ position' \in [side : Sides, entry : Int, stop : Int]
      /\ position' # None /\ cache' = position'.stop
  <2>1. PICK side \in Sides, entry \in Prices, stop \in Prices :
          position' = [side |-> side, entry |-> entry, stop |-> stop]
    BY DEF Enter
  <2> QED
    BY <2>1, SimulatedAssumption DEF Enter
<1>4. /\ position = None /\ tracked' = TRUE /\ breakeven_applied' = FALSE
      /\ ~RowPending /\ ~RowPending'
      /\ UNCHANGED <<trades, written>>
      /\ pc = "iterate" /\ pc' = "save" /\ UNCHANGED <<day, file, past>>
  BY <1>3 DEF Enter, Scanning, RowPending, Iteration
<1>5. /\ today' \in [pnl : Int, entries : Nat, restarts : Nat]
      /\ today'.entries = today.entries + 1
      /\ today'.restarts = today.restarts
  BY SMTT(40) DEF Enter, TypeOK
<1>6. cooldown' \in Nat
  BY CooldownTypes DEF Enter, TypeOK
<1>7. TypeOK'
  BY <1>1, <1>2, <1>3, <1>4, <1>5, <1>6 DEF TypeOK, past, written, Days
<1>8. BookInv'
  <2>1. CacheMatchesPosition' /\ (position # None => tracked)'
        /\ RowPending' = RowPending
    BY <1>3, <1>4 DEF CacheMatchesPosition, RowPending
  <2> QED
    BY <1>4, <2>1, BookKept DEF past, written
<1>9. PendingInv'
  BY <1>4 DEF PendingInv
<1>10. CountInv'
  <2>1. CountOf(stats)' = CountOf(stats) /\ CountOf(file)' = CountOf(file)
        /\ CountOf(stats) = CountOf(file)
    BY <1>1, <1>2, <1>4 DEF CountOf, CountInv
  <2>2. CountOf(stats) \in Nat /\ day \in Int /\ MaxTrades \in Int
        /\ today.entries \in Nat /\ today.restarts \in Nat
    BY ConfigAssumption DEF CountOf, TypeOK, DailyStats, Days
  <2>3. today.entries <= CountOf(stats) + today.restarts
    BY <1>4, <2>2 DEF CountInv, Held
  <2>4. today'.entries <= CountOf(stats) + 1 + today.restarts
        /\ CountOf(stats) < MaxTrades
    BY <1>1, <1>2, <1>5, <2>2, <2>3
  <2> QED
    BY <1>1, <1>2, <1>3, <1>4, <1>5, <2>1, <2>2, <2>4
       DEF CountInv, Held, EntriesWithinLimit
<1>11. GainInv'
  BY <1>1, <1>2, <1>4 DEF GainInv
<1> QED
  BY <1>7, <1>8, <1>9, <1>10, <1>11

(* A close appends one trade, and a row within the drift of it or, when    *)
(* that fails, none.                                                       *)
LEMMA ManageCloseKeeps ==
  ASSUME SessionInv, ManageClose
  PROVE  SessionInv'
<1> USE DEF SessionInv
<1>1. /\ Refreshed \in DailyStats(Days)
      /\ Refreshed.trading_day = day /\ Refreshed.trade_count = CountOf(stats)
      /\ Refreshed.realized = Sum(trades)
  BY RefreshedCounters
<1>2. position \in [side : Sides, entry : Int, stop : Int]
  BY DEF ManageClose, TypeOK
<1>3. PICK price \in Prices : \E settled \in Drifted(price) :
        /\ ManagePosition(position, Pnl(position, price), Cost) = "CLOSE"
        /\ CloseAt(Pnl(position, price), Pnl(position, settled))
        /\ today' = [today EXCEPT !.pnl = today.pnl + Pnl(position, settled)]
  BY DEF ManageClose, RealizedPnl
<1>4. PICK settled \in Drifted(price) :
        /\ ManagePosition(position, Pnl(position, price), Cost) = "CLOSE"
        /\ CloseAt(Pnl(position, price), Pnl(position, settled))
        /\ today' = [today EXCEPT !.pnl = today.pnl + Pnl(position, settled)]
  BY <1>3
<1> DEFINE mark == Pnl(position, price)
           pnl == Pnl(position, settled)
           row == [pnl |-> mark, reason |-> "TP_CASH"]
<1>5. /\ mark \in Int /\ pnl \in Int
      /\ mark - pnl \in -Drift * Quantity .. Drift * Quantity
  <2>1. price \in Int /\ settled \in Int
    BY SimulatedAssumption DEF Drifted
  <2> QED
    BY <1>2, <2>1, PnlIsInt, DriftBoundsPnl
<1>6. ManagePosition(position, mark, Cost) = "CLOSE"
  BY <1>4
<1>7. CloseAt(mark, pnl)
  BY <1>4
<1>8. today' = [today EXCEPT !.pnl = today.pnl + pnl]
  BY <1>4
<1>9. row \in Rows /\ row.pnl = mark /\ row.reason = "TP_CASH"
  BY <1>5 DEF Rows, CloseReasons
<1> HIDE DEF mark, pnl
<1>10. mark >= TpCash /\ mark >= 0 /\ TpCash \in Int
  <2>1. mark >= TpCash
    BY <1>6 DEF ManagePosition
  <2> QED
    BY <1>5, <2>1, ConfigAssumption
<1>11. Drift * Quantity <= TpCash => pnl >= 0
  <2>1. Drift * Quantity \in Int /\ mark - pnl <= Drift * Quantity
    BY <1>5, ConfigAssumption, SimulatedAssumption
  <2> HIDE DEF mark
  <2> QED
    BY <1>5, <1>10, <2>1
<1>12. /\ position # None /\ tracked = TRUE /\ position' = None /\ cache' = None
       /\ pc = "iterate" /\ pc' = "save" /\ UNCHANGED <<day, file, past>>
       /\ trades' = Append(trades, pnl)
       /\ stats' = RecordClosedTrade(Refreshed, mark)
       /\ cooldown' = StartCooldown(CooldownTp)
       /\ \/ journal' = Append(journal, row) /\ tracked' = FALSE
             /\ breakeven_applied' = FALSE /\ faults' = faults
          \/ journal' = journal /\ tracked' = TRUE
             /\ breakeven_applied' = breakeven_applied
             /\ faults < MaxFaults /\ faults' = faults + 1
       /\ unwritten' = IF tracked' THEN unwritten \cup {Len(trades')}
                                   ELSE unwritten
  BY <1>2, <1>7, SimulatedAssumption
     DEF ManageClose, CloseAt, WriteTradeJournalRow, Forget, ForgetStop,
         Iteration, BookInv, TypeOK, CooldownBarsForReason
<1> DEFINE n == Len(trades)
<1>13. /\ journal \in Seq(Rows) /\ firstRow \in 1 .. Len(journal) + 1
       /\ trades \in Seq(Int) /\ n \in Nat /\ Len(journal) \in Nat
       /\ unwritten \in SUBSET (1 .. n)
       /\ Len(journal) - firstRow + 1 = n /\ Len(journal) = firstRow - 1 + n
       /\ firstRow' = firstRow
  <2>1. Missing = 0
    BY <1>12 DEF Missing, RowPending
  <2>2. /\ journal \in Seq(Rows) /\ firstRow \in 1 .. Len(journal) + 1
        /\ trades \in Seq(Int) /\ n \in Nat /\ Len(journal) \in Nat
        /\ unwritten \in SUBSET (1 .. n) /\ firstRow' = firstRow
    BY <1>12, LenProperties DEF TypeOK, past
  <2>3. n = Len(journal) - firstRow + 1 + Missing
    BY DEF BookInv
  <2> QED
    BY <2>1, <2>2, <2>3
<1>14. /\ trades' \in Seq(Int) /\ Len(trades') = n + 1
       /\ \A i \in 1 .. n : trades'[i] = trades[i]
       /\ trades'[n + 1] = pnl /\ Sum(trades') = Sum(trades) + pnl
       /\ Sum(trades) \in Int
  <2>1. trades' = Append(trades, pnl) /\ pnl \in Int /\ trades \in Seq(Int)
    BY <1>5, <1>12, <1>13
  <2>2. /\ Append(trades, pnl) \in Seq(Int)
        /\ Len(Append(trades, pnl)) = n + 1
        /\ \A i \in 1 .. n : Append(trades, pnl)[i] = trades[i]
        /\ Append(trades, pnl)[n + 1] = pnl
    BY <2>1, AppendProperties
  <2>3. Sum(Append(trades, pnl)) = Sum(trades) + pnl /\ Sum(trades) \in Int
    BY <2>1, SumAppend, SumType
  <2> QED
    BY <2>1, <2>2, <2>3
<1> HIDE DEF n, row
<1>15. /\ stats' \in DailyStats(Days) /\ stats'.trading_day = day
       /\ stats'.trade_count = CountOf(stats) + 1 /\ stats'.losses = 0
       /\ stats'.realized = Sum(trades)
  BY <1>1, <1>5, <1>10, <1>12, CountedCounters
<1>16. /\ unwritten' = IF tracked' THEN unwritten \cup {n + 1} ELSE unwritten
       /\ unwritten' \in SUBSET (1 .. n + 1)
       /\ n + 1 \notin unwritten
       /\ \A i \in 1 .. n : i \in unwritten' <=> i \in unwritten
  <2>1. unwritten' = IF tracked' THEN unwritten \cup {n + 1} ELSE unwritten
    BY <1>12, <1>14
  <2>2. \A i \in unwritten : i \in 1 .. n /\ i \in 1 .. n + 1 /\ i # n + 1
    BY <1>13
  <2>3. n + 1 \in 1 .. n + 1 /\ \A i \in 1 .. n : i # n + 1
    BY <1>13
  <2> QED
    BY <2>1, <2>2, <2>3
<1>17. /\ journal' \in Seq(Rows) /\ firstRow \in 1 .. Len(journal') + 1
       /\ \A i \in 1 .. Len(journal') - firstRow + 1 :
             Tells(journal'[firstRow - 1 + i], i, trades', unwritten')
  <2>1. \A i \in 1 .. n :
          Tells(journal[firstRow - 1 + i], i, trades', unwritten')
    <3>1. SUFFICES ASSUME NEW i \in 1 .. n
                   PROVE  Tells(journal[firstRow - 1 + i], i, trades', unwritten')
      OBVIOUS
    <3>2. Tells(journal[firstRow - 1 + i], i, trades, unwritten)
      BY <1>13 DEF BookInv, RowsTell
    <3>3. i \in unwritten' <=> i \in unwritten
      BY <1>16
    <3>4. i \in 1 .. Len(trades)
      BY DEF n
    <3> QED
      BY <1>5, <1>12, <1>13, <3>2, <3>3, <3>4, StillTells
  <2>2. \/ journal' = journal
        \/ \E r \in Rows : /\ journal' = Append(journal, r)
                           /\ Tells(r, n + 1, trades', unwritten')
    <3>1. CASE journal' = journal
      BY <3>1
    <3>2. CASE journal' # journal
      <4>1. journal' = Append(journal, row) /\ n + 1 \notin unwritten'
        BY <1>12, <1>16, <3>2
      <4>2. Tells(row, n + 1, trades', unwritten')
        BY <1>5, <1>9, <1>10, <1>14, <4>1 DEF Tells
      <4> QED
        BY <1>9, <4>1, <4>2
    <3> QED
      BY <3>1, <3>2
  <2> QED
    BY <1>13, <2>1, <2>2, NextRow
<1>18. TypeOK'
  <2>1. cooldown' \in Nat
    BY <1>12, ConfigAssumption, CooldownTypes
  <2>2. /\ today' \in [pnl : Int, entries : Nat, restarts : Nat]
        /\ today'.entries = today.entries /\ today'.restarts = today.restarts
    <3>1. today \in [pnl : Int, entries : Nat, restarts : Nat]
          /\ today.pnl + pnl \in Int
      BY <1>5 DEF TypeOK
    <3> QED
      BY <1>8, <3>1
  <2>3. faults' \in 0 .. MaxFaults
    BY <1>12, SimulatedAssumption DEF TypeOK
  <2>4. /\ firstRow' \in 1 .. Len(journal') + 1
        /\ unwritten' \in SUBSET (1 .. Len(trades'))
    BY <1>13, <1>14, <1>16, <1>17
  <2>5. position' \in [side : Sides, entry : Int, stop : Int] \cup {None}
        /\ cache' \in Int \cup {None} /\ tracked' \in BOOLEAN
        /\ breakeven_applied' \in BOOLEAN
    BY <1>12 DEF TypeOK
  <2>6. /\ pc' \in {"iterate", "save", "done"} /\ day' \in Days
        /\ started' \in Days /\ file' \in DailyStats(Days)
        /\ restarts' \in 0 .. MaxRestarts
    BY <1>12 DEF TypeOK, past
  <2> QED
    BY <1>14, <1>15, <1>17, <2>1, <2>2, <2>3, <2>4, <2>5, <2>6 DEF TypeOK
<1>19. BookInv'
  <2>1. Len(trades') = Len(journal') - firstRow' + 1 + Missing'
    <3>1. CASE tracked'
      <4>1. Missing' = 1 /\ journal' = journal
        BY <1>12, <3>1 DEF Missing, RowPending
      <4> QED
        BY <1>13, <1>14, <4>1
    <3>2. CASE ~tracked'
      <4>1. Missing' = 0 /\ Len(journal') = Len(journal) + 1
        BY <1>9, <1>12, <1>13, <3>2, AppendProperties DEF Missing, RowPending
      <4> QED
        BY <1>13, <1>14, <4>1
    <3> QED
      BY <3>1, <3>2
  <2>2. CacheMatchesPosition' /\ (position # None => tracked)'
    BY <1>12 DEF CacheMatchesPosition
  <2>3. RowsTell'
    BY <1>13, <1>17 DEF RowsTell
  <2> QED
    BY <2>1, <2>2, <2>3 DEF BookInv
<1>20. PendingInv'
  <2> SUFFICES ASSUME tracked'
               PROVE  /\ Len(trades') \in unwritten'
                      /\ stats'.realized = Sum(trades') - trades'[Len(trades')]
    BY DEF PendingInv, RowPending
  <2> QED
    BY <1>5, <1>14, <1>15, <1>16
<1>21. CountInv'
  <2>1. CountOf(stats)' = CountOf(stats) + 1 /\ CountOf(file)' = CountOf(file)
    BY <1>12, <1>15 DEF CountOf
  <2>2. CountOf(stats) \in Nat /\ CountOf(file) \in Nat /\ day \in Int
        /\ today.entries \in Nat /\ today.restarts \in Nat
    BY DEF CountOf, TypeOK, DailyStats, Days
  <2>3. today'.entries = today.entries /\ today'.restarts = today.restarts
    BY <1>8 DEF TypeOK
  <2> QED
    BY <1>12, <1>15, <2>1, <2>2, <2>3 DEF CountInv, Held, EntriesWithinLimit
<1>22. GainInv'
  <2> SUFFICES ASSUME Drift * Quantity <= TpCash
               PROVE  /\ \A i \in 1 .. Len(trades') : trades'[i] >= 0
                      /\ Sum(trades') >= 0
                      /\ stats'.losses = 0 /\ file'.losses = 0
    BY DEF GainInv
  <2>1. /\ \A i \in 1 .. n : trades[i] >= 0
        /\ Sum(trades) >= 0 /\ file.losses = 0
    BY DEF GainInv, n
  <2>2. \A i \in 1 .. n + 1 : i \in 1 .. n \/ i = n + 1
    BY <1>13
  <2>3. \A i \in 1 .. Len(trades') : trades'[i] >= 0
    BY <1>11, <1>14, <2>1, <2>2
  <2>4. Sum(trades') >= 0
    BY <1>5, <1>11, <1>14, <2>1
  <2> QED
    BY <1>12, <1>15, <2>1, <2>3, <2>4
<1> QED
  BY <1>18, <1>19, <1>20, <1>21, <1>22

(* Recording a trade a second time leaves the book alone: the row that was *)
(* missing is written, or is missing still.                                *)
LEMMA RecordVanishedKeeps ==
  ASSUME SessionInv, RecordVanished
  PROVE  SessionInv'
<1> USE DEF SessionInv
<1>1. /\ Refreshed \in DailyStats(Days)
      /\ Refreshed.trading_day = day /\ Refreshed.trade_count = CountOf(stats)
      /\ Refreshed.realized = Sum(trades)
  BY RefreshedCounters
<1> DEFINE n == Len(trades)
           row == [pnl |-> VanishedPnl, reason |-> VanishedReason]
           r == MaybeResetDailyStats(stats, day).realized
<1>2. /\ position = None /\ tracked = TRUE /\ RowPending
      /\ pc = "iterate" /\ pc' = "save" /\ UNCHANGED <<day, file, past>>
      /\ UNCHANGED <<broker, today, unwritten>>
      /\ stats' = RecordClosedTrade(Refreshed, VanishedPnl)
      /\ cooldown' = StartCooldown(CooldownBarsForReason(VanishedReason))
      /\ \/ journal' = Append(journal, row) /\ tracked' = FALSE
            /\ breakeven_applied' = FALSE /\ faults' = faults
         \/ journal' = journal /\ tracked' = TRUE
            /\ breakeven_applied' = breakeven_applied
            /\ faults < MaxFaults /\ faults' = faults + 1
  BY DEF RecordVanished, WriteTradeJournalRow, Forget, Iteration, RowPending,
         TypeOK
<1>3. /\ journal \in Seq(Rows) /\ firstRow \in 1 .. Len(journal) + 1
      /\ trades \in Seq(Int) /\ n \in Nat /\ n >= 1 /\ Len(journal) \in Nat
      /\ n \in unwritten /\ unwritten \in SUBSET (1 .. n)
      /\ Len(journal) - firstRow + 1 = n - 1 /\ n - 1 \in Nat
      /\ Len(journal) = firstRow - 1 + (n - 1) /\ firstRow' = firstRow
      /\ Sum(trades) \in Int /\ trades[n] \in Int
      /\ r \in {Sum(trades), Sum(trades) - trades[n], 0}
  <2>1. /\ journal \in Seq(Rows) /\ firstRow \in 1 .. Len(journal) + 1
        /\ trades \in Seq(Int) /\ n \in Nat /\ Len(journal) \in Nat
        /\ unwritten \in SUBSET (1 .. n) /\ firstRow' = firstRow
        /\ Sum(trades) \in Int
    BY <1>2, LenProperties, SumType DEF TypeOK, past
  <2>2. n \in unwritten /\ n = Len(journal) - firstRow + 1 + 1
    BY <1>2 DEF PendingInv, BookInv, Missing
  <2>3. n \in 1 .. n /\ n >= 1 /\ n - 1 \in Nat
    BY <2>1, <2>2
  <2>4. trades[n] \in Int
    BY <2>1, <2>3, ElementOfSeq
  <2>5. r \in {Sum(trades), Sum(trades) - trades[n], 0}
    BY <1>2 DEF PendingInv, MaybeResetDailyStats, FreshStats
  <2> QED
    BY <2>1, <2>2, <2>3, <2>4, <2>5
<1>4. /\ VanishedPnl \in {trades[n], 0, Sum(trades)} /\ VanishedPnl \in Int
      /\ VanishedReason \in {"BREAKEVEN_SL", "HARD_SL"}
      /\ VanishedReason # "TP_CASH"
  <2>1. VanishedPnl = Sum(trades) - r
    BY DEF VanishedPnl, TodayRealizedPnl
  <2> HIDE DEF r
  <2>2. VanishedPnl \in {trades[n], 0, Sum(trades)} /\ VanishedPnl \in Int
    BY <1>3, <2>1
  <2> QED
    BY <2>2 DEF VanishedReason
<1>5. Drift * Quantity <= TpCash => VanishedPnl >= 0
  <2> SUFFICES ASSUME Drift * Quantity <= TpCash PROVE VanishedPnl >= 0
    OBVIOUS
  <2>1. Sum(trades) >= 0 /\ trades[n] >= 0
    BY <1>3 DEF GainInv
  <2> QED
    BY <1>4, <2>1
<1>6. row \in Rows /\ row.pnl = VanishedPnl /\ row.reason = VanishedReason
  BY <1>4 DEF Rows, CloseReasons
<1> HIDE DEF r, row, n
<1>7. /\ stats' \in DailyStats(Days) /\ stats'.trading_day = day
      /\ stats'.trade_count = CountOf(stats) + 1
      /\ VanishedPnl >= 0 => stats'.losses = 0
      /\ stats'.realized = Sum(trades)
  BY <1>1, <1>2, <1>4, CountedCounters
<1>8. /\ trades' = trades /\ unwritten' = unwritten /\ position' = position
      /\ cache' = cache /\ today' = today
  BY <1>2 DEF broker
<1>9. /\ journal' \in Seq(Rows) /\ firstRow \in 1 .. Len(journal') + 1
      /\ \A i \in 1 .. Len(journal') - firstRow + 1 :
            Tells(journal'[firstRow - 1 + i], i, trades, unwritten)
  <2> DEFINE m == n - 1
  <2>1. /\ m \in Nat /\ m + 1 = n /\ Len(journal) = firstRow - 1 + m
        /\ Len(journal) - firstRow + 1 = m
    BY <1>3
  <2> HIDE DEF m
  <2>2. \A i \in 1 .. m :
          Tells(journal[firstRow - 1 + i], i, trades, unwritten)
    BY <2>1 DEF BookInv, RowsTell
  <2>3. Tells(row, m + 1, trades, unwritten)
    <3>1. m + 1 = n /\ SubSeq(trades, 1, n) = trades
      BY <1>3, <2>1, WholeSlice DEF n
    <3> QED
      BY <1>3, <1>4, <1>5, <1>6, <3>1 DEF Tells
  <2>4. \/ journal' = journal
        \/ \E x \in Rows : /\ journal' = Append(journal, x)
                           /\ Tells(x, m + 1, trades, unwritten)
    BY <1>2, <1>6, <2>3
  <2> QED
    BY <1>3, <2>1, <2>2, <2>4, NextRow
<1>10. TypeOK'
  <2>1. cooldown' \in Nat
    <3>1. CooldownBarsForReason(VanishedReason) \in Int
      BY <1>4, ConfigAssumption DEF CooldownBarsForReason
    <3> QED
      BY <1>2, <3>1, CooldownTypes
  <2>2. faults' \in 0 .. MaxFaults
    BY <1>2, SimulatedAssumption DEF TypeOK
  <2>3. firstRow' \in 1 .. Len(journal') + 1
    BY <1>3, <1>9
  <2>4. tracked' \in BOOLEAN /\ breakeven_applied' \in BOOLEAN
    BY <1>2 DEF TypeOK
  <2>5. /\ pc' \in {"iterate", "save", "done"} /\ day' \in Days
        /\ started' \in Days /\ file' \in DailyStats(Days)
        /\ restarts' \in 0 .. MaxRestarts
    BY <1>2 DEF TypeOK, past
  <2> QED
    BY <1>7, <1>8, <1>9, <2>1, <2>2, <2>3, <2>4, <2>5 DEF TypeOK
<1>11. BookInv'
  <2>1. Len(trades') = Len(journal') - firstRow' + 1 + Missing'
    <3>1. CASE tracked'
      <4>1. Missing' = 1 /\ journal' = journal
        BY <1>2, <1>8, <3>1 DEF Missing, RowPending
      <4> QED
        BY <1>3, <1>8, <4>1 DEF n
    <3>2. CASE ~tracked'
      <4>1. Missing' = 0 /\ Len(journal') = Len(journal) + 1
        BY <1>2, <1>3, <1>6, <3>2, AppendProperties DEF Missing, RowPending
      <4> QED
        BY <1>3, <1>8, <4>1 DEF n
    <3> QED
      BY <3>1, <3>2
  <2>2. CacheMatchesPosition' /\ (position # None => tracked)'
    BY <1>2, <1>8 DEF CacheMatchesPosition, BookInv
  <2>3. RowsTell'
    BY <1>3, <1>8, <1>9 DEF RowsTell
  <2> QED
    BY <2>1, <2>2, <2>3 DEF BookInv
<1>12. PendingInv'
  BY <1>3, <1>7, <1>8 DEF PendingInv, n
<1>13. CountInv'
  <2>1. CountOf(stats)' = CountOf(stats) + 1 /\ CountOf(file)' = CountOf(file)
    BY <1>2, <1>7 DEF CountOf
  <2>2. CountOf(stats) \in Nat /\ CountOf(file) \in Nat /\ day \in Int
        /\ today.entries \in Nat /\ today.restarts \in Nat
    BY DEF CountOf, TypeOK, DailyStats, Days
  <2>3. Held' = Held
    BY <1>8 DEF Held
  <2> QED
    BY <1>2, <1>7, <1>8, <2>1, <2>2, <2>3 DEF CountInv, Held, EntriesWithinLimit
<1>14. GainInv'
  BY <1>2, <1>5, <1>7, <1>8 DEF GainInv
<1> QED
  BY <1>10, <1>11, <1>12, <1>13, <1>14

LEMMA SaveKeeps ==
  ASSUME SessionInv, SaveDailyStats \/ Leave
  PROVE  SessionInv'
<1> USE DEF SessionInv
<1>1. /\ pc' \in {"iterate", "save", "done"} /\ file' = stats
      /\ UNCHANGED <<day, broker, loop, past, written, today>>
  BY DEF SaveDailyStats, Leave
<1>2. TypeOK'
  BY <1>1 DEF TypeOK, broker, loop, past, written
<1>3. BookInv' /\ PendingInv'
  <2>1. /\ CacheMatchesPosition' /\ (position # None => tracked)'
        /\ RowPending' = RowPending
    BY <1>1 DEF BookInv, CacheMatchesPosition, RowPending, broker, loop
  <2>2. BookInv'
    BY <1>1, <2>1, BookKept DEF past, broker, written
  <2> QED
    BY <1>1, <2>1, <2>2 DEF PendingInv, broker, loop, written
<1>4. CountInv'
  <2>1. today.entries \in Nat /\ today.restarts \in Nat
        /\ CountOf(stats) \in Nat
    BY DEF TypeOK, CountOf, DailyStats
  <2>2. CountOf(stats)' = CountOf(stats) /\ CountOf(file)' = CountOf(stats)
    BY <1>1 DEF CountOf, loop
  <2> QED
    BY <1>1, <2>1, <2>2 DEF CountInv, Held, EntriesWithinLimit, loop, broker
<1>5. GainInv'
  BY <1>1 DEF GainInv, loop, broker
<1> QED
  BY <1>2, <1>3, <1>4, <1>5

LEMMA DayTurnsKeeps ==
  ASSUME SessionInv, DayTurns
  PROVE  SessionInv'
<1> USE DEF SessionInv
<1>1. /\ pc' = pc /\ day' = day + 1 /\ today' = NothingToday
      /\ UNCHANGED <<broker, loop, file, past, written>>
  BY DEF DayTurns
<1>2. /\ day' \in Days /\ day \in Nat
      /\ NothingToday \in [pnl : Int, entries : Nat, restarts : Nat]
      /\ NothingToday.entries = 0 /\ NothingToday.restarts = 0
  BY SimulatedAssumption DEF DayTurns, TypeOK, Days, NothingToday
<1>3. TypeOK'
  BY <1>1, <1>2 DEF TypeOK, broker, loop, past, written
<1>4. BookInv' /\ PendingInv'
  <2>1. /\ CacheMatchesPosition' /\ (position # None => tracked)'
        /\ RowPending' = RowPending
    BY <1>1 DEF BookInv, CacheMatchesPosition, RowPending, broker, loop
  <2>2. BookInv'
    BY <1>1, <2>1, BookKept DEF past, broker, written
  <2> QED
    BY <1>1, <2>1, <2>2 DEF PendingInv, broker, loop, written
<1>5. CountInv'
  <2>1. stats.trading_day \in Nat /\ file.trading_day \in Nat
    BY DEF TypeOK, DailyStats, Days
  <2>2. CountOf(stats)' = 0 /\ CountOf(file)' = 0
    BY <1>1, <1>2, <2>1 DEF CountOf, CountInv, loop
  <2> QED
    BY <1>1, <1>2, <2>1, <2>2, ConfigAssumption
       DEF CountInv, Held, EntriesWithinLimit, loop, broker
<1>6. GainInv'
  BY <1>1 DEF GainInv, loop, broker
<1> QED
  BY <1>3, <1>4, <1>5, <1>6

(* The counters come back from the file; the open position does not.       *)
LEMMA RestartKeeps ==
  ASSUME SessionInv, Restart
  PROVE  SessionInv'
<1> USE DEF SessionInv
<1>1. /\ pc' = "iterate" /\ position' = None /\ cache' = None
      /\ trades' = <<>> /\ tracked' = FALSE /\ breakeven_applied' = FALSE
      /\ cooldown' = 0 /\ unwritten' = {}
      /\ started' = day /\ firstRow' = Len(journal) + 1
      /\ restarts' \in 0 .. MaxRestarts
      /\ stats' = MaybeResetDailyStats(file, day)
      /\ UNCHANGED <<day, file, journal, faults>>
  BY SimulatedAssumption DEF Restart, Forget, TypeOK
<1>2. /\ stats' \in DailyStats(Days) /\ stats'.trading_day = day
      /\ stats'.trade_count = CountOf(file)
      /\ stats'.losses = file.losses \/ stats'.losses = 0
  <2>1. CASE file.trading_day = day
    BY <1>1, <2>1 DEF TypeOK, MaybeResetDailyStats, CountOf
  <2>2. CASE file.trading_day # day
    BY <1>1, <2>2 DEF TypeOK, MaybeResetDailyStats, FreshStats, DailyStats,
                      CountOf
  <2> QED
    BY <2>1, <2>2
<1>3. /\ today' \in [pnl : Int, entries : Nat, restarts : Nat]
      /\ today'.entries = today.entries
      /\ today'.restarts = today.restarts + 1
  <2>1. today \in [pnl : Int, entries : Nat, restarts : Nat]
        /\ today.restarts + 1 \in Nat /\ 0 \in Int
    BY DEF TypeOK
  <2>2. today' = [today EXCEPT !.pnl = 0, !.restarts = today.restarts + 1]
    BY DEF Restart
  <2> QED
    BY <2>1, <2>2
<1>4. /\ trades' \in Seq(Int) /\ Len(trades') = 0 /\ Sum(trades') = 0
      /\ Len(journal) \in Nat /\ journal \in Seq(Rows)
  BY <1>1, EmptySeq, SumEmpty, LenProperties DEF TypeOK
<1>5. TypeOK'
  <2>1. file' \in DailyStats(Days)
    BY <1>1 DEF TypeOK
  <2>2. firstRow' \in 1 .. Len(journal') + 1
    BY <1>1, <1>4
  <2> QED
    BY <1>1, <1>2, <1>3, <1>4, <2>1, <2>2 DEF TypeOK
<1>6. BookInv' /\ PendingInv'
  <2>1. /\ CacheMatchesPosition' /\ (position # None => tracked)'
        /\ ~RowPending' /\ Missing' = 0
    BY <1>1 DEF CacheMatchesPosition, RowPending, Missing
  <2>2. /\ Len(journal') - firstRow' + 1 = 0
        /\ 1 .. Len(journal') - firstRow' + 1 = {}
    BY <1>1, <1>4
  <2> QED
    BY <1>4, <2>1, <2>2 DEF BookInv, RowsTell, PendingInv
<1>7. CountInv'
  <2>1. today.entries \in Nat /\ today.restarts \in Nat
        /\ CountOf(file) \in Nat /\ day \in Int /\ MaxTrades \in Int
    BY ConfigAssumption DEF TypeOK, CountOf, DailyStats, Days
  <2>2. CountOf(stats)' = CountOf(file) /\ CountOf(file)' = CountOf(file)
    BY <1>1, <1>2 DEF CountOf
  <2> QED
    BY <1>1, <1>2, <1>3, <2>1, <2>2, SMTT(40) DEF CountInv, Held, EntriesWithinLimit
<1>8. GainInv'
  BY <1>1, <1>2, <1>4 DEF GainInv
<1> QED
  BY <1>5, <1>6, <1>7, <1>8

(* The invariant of every reachable state. *)
THEOREM SessionInvariant == Spec => []SessionInv
<1>1. SessionInv /\ UNCHANGED vars => SessionInv'
  <2> SUFFICES ASSUME SessionInv, UNCHANGED vars PROVE SessionInv'
    OBVIOUS
  <2>1. /\ UNCHANGED <<pc, day, file, today>>
        /\ UNCHANGED <<position, trades, cache>>
        /\ UNCHANGED <<stats, cooldown, tracked, breakeven_applied>>
        /\ UNCHANGED <<started, firstRow, restarts>>
        /\ UNCHANGED <<journal, faults, unwritten>>
    BY DEF vars, broker, loop, past, written
  <2>2. /\ CacheMatchesPosition' /\ (position # None => tracked)'
        /\ RowPending' = RowPending
    BY <2>1 DEF SessionInv, BookInv, CacheMatchesPosition, RowPending
  <2>3. BookInv'
    BY <2>1, <2>2, BookKept DEF SessionInv
  <2> QED
    BY <2>1, <2>2, <2>3 DEF SessionInv, TypeOK, PendingInv, CountInv, CountOf,
                            Held, EntriesWithinLimit, GainInv
<1>2. SessionInv /\ [Next]_vars => SessionInv'
  BY <1>1, ManageCloseKeeps, ManageModifyKeeps, ManageNoneKeeps, EnterKeeps,
     RecordVanishedKeeps, SaveKeeps, DayTurnsKeeps, RestartKeeps
     DEF Next, RunIteration
<1> QED
  BY InitInv, <1>2, PTL DEF Spec

-----------------------------------------------------------------------------
(* What follows from it.                                                   *)

(* Every reachable state is well typed. *)
THEOREM SessionTypes == Spec => []TypeOK
BY SessionInvariant, PTL DEF SessionInv

(* The rows of a session, taken out of the journal. *)
LEMMA SessionRows ==
  ASSUME SessionInv
  PROVE  LET rows == SubSeq(journal, firstRow, Len(journal)) IN
         /\ Len(rows) = Len(journal) - firstRow + 1
         /\ DOMAIN rows = 1 .. Len(journal) - firstRow + 1
         /\ \A i \in DOMAIN rows : Tells(rows[i], i, trades, unwritten)
<1> DEFINE rows == SubSeq(journal, firstRow, Len(journal))
           m == Len(journal) - firstRow + 1
<1>1. /\ journal \in Seq(Rows) /\ Len(journal) \in Nat /\ firstRow \in Int
      /\ 1 <= firstRow /\ firstRow <= Len(journal) + 1
  BY LenProperties DEF SessionInv, TypeOK
<1>2. /\ Len(rows) = m /\ DOMAIN rows = 1 .. m
      /\ \A i \in 1 .. m : rows[i] = journal[firstRow + i - 1]
  BY <1>1, SliceOf
<1>3. \A i \in 1 .. m : Tells(journal[firstRow - 1 + i], i, trades, unwritten)
  BY DEF SessionInv, BookInv, RowsTell
<1>4. \A i \in 1 .. m : firstRow + i - 1 = firstRow - 1 + i
  BY <1>1
<1> HIDE DEF rows, m
<1>5. \A i \in DOMAIN rows : Tells(rows[i], i, trades, unwritten)
  BY <1>2, <1>3, <1>4
<1> QED
  BY <1>2, <1>5 DEF rows, m

(* Whatever price does between two reads of the market, and whichever rows *)
(* cannot be written, the journal and the book of a session hold the same  *)
(* trades but the pending one, each with the P&L it may have, the loop     *)
(* tracks what the broker holds, and the cached stop is its stop.          *)
THEOREM BookIsTheLoops == Spec => []BookIsMirrored
<1>1. SessionInv => BookIsMirrored
  <2> SUFFICES ASSUME SessionInv PROVE BookIsMirrored
    OBVIOUS
  <2>1. NothingVanishes /\ CacheMatchesPosition
    BY DEF SessionInv, BookInv, PendingInv, NothingVanishes
  <2> DEFINE rows == SubSeq(journal, firstRow, Len(journal))
  <2>2. /\ Len(rows) = Len(journal) - firstRow + 1
        /\ \A i \in DOMAIN rows : Tells(rows[i], i, trades, unwritten)
    BY SessionRows
  <2> HIDE DEF rows
  <2>3. Len(trades) = Len(rows) + IF RowPending THEN 1 ELSE 0
    BY <2>2 DEF SessionInv, BookInv, Missing
  <2>4. \A i \in DOMAIN rows :
          IF i \in unwritten
            THEN rows[i].pnl \in {trades[i], 0, Sum(SubSeq(trades, 1, i))}
            ELSE rows[i].pnl - trades[i] \in -Drift * Quantity .. Drift * Quantity
    BY <2>2 DEF Tells
  <2>5. JournalWithinDrift
    BY <2>3, <2>4 DEF JournalWithinDrift, rows
  <2> QED
    BY <2>1, <2>5 DEF BookIsMirrored
<1> QED
  BY SessionInvariant, <1>1, PTL

(* No date sees more entries than the limit and one per restart of it.     *)
THEOREM EntriesBoundedByRestarts == Spec => []EntriesWithinLimit
BY SessionInvariant, PTL DEF SessionInv, CountInv

(* A simulated session books nothing but take-profits, and no row of it,   *)
(* not even one written for a close whose own row was lost, is a loss as   *)
(* long as price drifts by no more than a take-profit.                     *)
THEOREM NoSimulatedLoss == Spec => []SimulationNeverLoses
<1>1. SessionInv => SimulationNeverLoses
  <2> SUFFICES ASSUME SessionInv PROVE SimulationNeverLoses
    OBVIOUS
  <2>1. ASSUME NEW i \in firstRow .. Len(journal)
        PROVE  Tells(journal[i], i - firstRow + 1, trades, unwritten)
    <3>1. Len(journal) \in Nat /\ firstRow \in Int
      BY LenProperties DEF SessionInv, TypeOK
    <3>2. i - firstRow + 1 \in 1 .. Len(journal) - firstRow + 1
          /\ firstRow - 1 + (i - firstRow + 1) = i
      BY <3>1
    <3> QED
      BY <3>2 DEF SessionInv, BookInv, RowsTell
  <2>2. Drift * Quantity <= TpCash => stats.losses = 0
    BY DEF SessionInv, GainInv
  <2>3. \A i \in firstRow .. Len(journal) :
          /\ IF i - firstRow + 1 \in unwritten
               THEN journal[i].reason # "TP_CASH"
               ELSE journal[i].reason = "TP_CASH" /\ journal[i].pnl >= TpCash
          /\ Drift * Quantity <= TpCash => journal[i].pnl >= 0
    BY <2>1 DEF Tells
  <2> QED
    BY <2>2, <2>3 DEF SimulationNeverLoses
<1> QED
  BY SessionInvariant, <1>1, PTL

-----------------------------------------------------------------------------
(* The total of a session.                                                 *)

(* The session began on no later date, and on the date it began its total  *)
(* is the day's P&L.                                                       *)
TotalInv == started <= day /\ TotalIsTodaysOnFirstDate

LEMMA InitTotal == Init => TotalInv
BY SumEmpty DEF Init, TotalInv, TotalIsTodaysOnFirstDate, TodayRealizedPnl,
                NothingToday

LEMMA TotalKept ==
  ASSUME SessionInv, TotalInv, [Next]_vars
  PROVE  TotalInv'
<1> USE DEF TotalInv, TotalIsTodaysOnFirstDate, TodayRealizedPnl
<1>1. /\ trades \in Seq(Int) /\ day \in Nat /\ started \in Nat
      /\ today \in [pnl : Int, entries : Nat, restarts : Nat]
  BY SimulatedAssumption DEF SessionInv, TypeOK, Days
<1>2. CASE UNCHANGED <<day, started, trades, today>>
  BY <1>2
<1>3. CASE ManageClose
  <2>1. position \in [side : Sides, entry : Int, stop : Int]
    BY <1>3 DEF ManageClose, SessionInv, TypeOK
  <2>2. PICK price \in Prices : \E settled \in Drifted(price) :
          /\ CloseAt(Pnl(position, price), Pnl(position, settled))
          /\ today' = [today EXCEPT !.pnl = today.pnl + Pnl(position, settled)]
    BY <1>3 DEF ManageClose, RealizedPnl
  <2>3. PICK settled \in Drifted(price) :
          /\ CloseAt(Pnl(position, price), Pnl(position, settled))
          /\ today' = [today EXCEPT !.pnl = today.pnl + Pnl(position, settled)]
    BY <2>2
  <2> DEFINE pnl == Pnl(position, settled)
  <2>4. pnl \in Int
    BY <2>1, PnlIsInt, SimulatedAssumption DEF Drifted
  <2>5. trades' = Append(trades, pnl) /\ today'.pnl = today.pnl + pnl
        /\ day' = day /\ started' = started
    BY <1>1, <1>3, <2>3 DEF CloseAt, ManageClose, Iteration, past
  <2> HIDE DEF pnl
  <2>6. Sum(trades') = Sum(trades) + pnl
    BY <1>1, <2>4, <2>5, SumAppend
  <2> QED
    BY <2>5, <2>6
<1>4. CASE Enter
  <2>1. UNCHANGED <<day, started, trades>> /\ today'.pnl = today.pnl
    BY <1>1, <1>4 DEF Enter, Scanning, Iteration, past
  <2> QED
    BY <2>1
<1>5. CASE \/ ManageModify \/ ManageNone \/ RecordVanished
           \/ GuardBlocks \/ NoEntry \/ GetBarsRaises \/ CallRaises
  BY <1>2, <1>5 DEF ManageModify, ManageNone, RecordVanished, GuardBlocks,
                    NoEntry, GetBarsRaises, CallRaises, Scanning, Iteration,
                    past, broker
<1>6. CASE SaveDailyStats \/ Leave
  BY <1>2, <1>6 DEF SaveDailyStats, Leave, past, broker
<1>7. CASE DayTurns
  BY <1>1, <1>7 DEF DayTurns, past
<1>8. CASE Restart
  <2>1. trades' = <<>> /\ today'.pnl = 0 /\ started' = day /\ day' = day
    BY <1>1, <1>8 DEF Restart
  <2> QED
    BY <1>1, <2>1, SumEmpty
<1>9. CASE UNCHANGED vars
  BY <1>2, <1>9 DEF vars, broker, past
<1> QED
  BY <1>3, <1>4, <1>5, <1>6, <1>7, <1>8, <1>9 DEF Next, RunIteration

(* A simulated session counts every trade it ever made as today's: that is *)
(* right on the date it began, and when the total has reached the target   *)
(* the session never enters again, whatever the date.                      *)
THEOREM SessionTotal == Spec => TotalIsTheSessions
<1>1. Spec => []TotalInv
  BY SessionInvariant, InitTotal, TotalKept, PTL DEF Spec
<1>2. SessionInv /\ [Next]_vars =>
        [started' = started /\ restarts' = restarts /\ position = None
           /\ Sum(trades) >= ProfitTarget => position' = None]_vars
  <2> SUFFICES ASSUME SessionInv, Next, position = None,
                      Sum(trades) >= ProfitTarget
               PROVE  position' = None
    BY DEF vars
  <2>1. ~TradingAllowed(Refreshed)
    <3>1. Refreshed.realized = Sum(trades)
      BY RefreshedCounters DEF SessionInv
    <3>2. Sum(trades) \in Int
      BY SumType DEF SessionInv, TypeOK
    <3> QED
      BY <3>1, <3>2, ConfigAssumption DEF TradingAllowed
  <2> QED
    BY <2>1 DEF Next, RunIteration, ManageClose, CloseAt, ManageModify,
                ManageNone, RecordVanished, GuardBlocks, NoEntry, Enter,
                GetBarsRaises, CallRaises, SaveDailyStats, Leave, DayTurns,
                Restart, broker
<1>3. Spec => TargetEndsSession
  BY SessionInvariant, <1>2, PTL DEF Spec, TargetEndsSession
<1>4. TotalInv => TotalIsTodaysOnFirstDate
  BY DEF TotalInv
<1> QED
  BY <1>1, <1>3, <1>4, PTL DEF TotalIsTheSessions

-----------------------------------------------------------------------------
(* The report.                                                             *)

LEMMA GrossFigures ==
  ASSUME NEW s \in Seq(Int)
  PROVE  LET won == Kept(s, {x \in Int : x > 0})
             lost == Kept(s, {x \in Int : x < 0})
         IN  /\ Sum(s) = Sum(won) + Sum(lost)
             /\ Sum(won) \in Nat /\ -Sum(lost) \in Nat /\ Sum(lost) \in Int
<1> DEFINE U == {x \in Int : x > 0}
           V == {x \in Int : x < 0}
           Q == {r \in Seq(Int) : /\ Sum(r) = Sum(Kept(r, U)) + Sum(Kept(r, V))
                                  /\ Sum(Kept(r, U)) \in Nat
                                  /\ -Sum(Kept(r, V)) \in Nat
                                  /\ Sum(Kept(r, V)) \in Int}
<1>1. <<>> \in Q
  BY EmptySeq, KeptEmpty, SumEmpty
<1>2. ASSUME NEW r \in Seq(Int), NEW x \in Int, r \in Q
      PROVE  Append(r, x) \in Q
  <2>1. Append(r, x) \in Seq(Int) /\ Sum(Append(r, x)) = Sum(r) + x
    BY AppendProperties, SumAppend
  <2>2. Kept(Append(r, x), U) = IF x \in U THEN Append(Kept(r, U), x) ELSE Kept(r, U)
    BY KeptAppend
  <2>3. Kept(Append(r, x), V) = IF x \in V THEN Append(Kept(r, V), x) ELSE Kept(r, V)
    BY KeptAppend
  <2>4. /\ Sum(Append(Kept(r, U), x)) = Sum(Kept(r, U)) + x
        /\ Sum(Append(Kept(r, V), x)) = Sum(Kept(r, V)) + x
    BY KeptType, SumAppend
  <2>5. /\ x > 0 => x \in U /\ x \notin V
        /\ x < 0 => x \in V /\ x \notin U
        /\ x = 0 => x \notin U /\ x \notin V
    OBVIOUS
  <2>6. /\ Sum(r) = Sum(Kept(r, U)) + Sum(Kept(r, V))
        /\ Sum(Kept(r, U)) \in Nat /\ -Sum(Kept(r, V)) \in Nat
        /\ Sum(Kept(r, V)) \in Int
    BY <1>2
  <2> HIDE DEF U, V
  <2>7. /\ Sum(Append(r, x)) = Sum(Kept(Append(r, x), U)) + Sum(Kept(Append(r, x), V))
        /\ Sum(Kept(Append(r, x), U)) \in Nat
        /\ -Sum(Kept(Append(r, x), V)) \in Nat
        /\ Sum(Kept(Append(r, x), V)) \in Int
    <3>1. CASE x > 0
      BY <2>1, <2>2, <2>3, <2>4, <2>5, <2>6, <3>1
    <3>2. CASE x < 0
      BY <2>1, <2>2, <2>3, <2>4, <2>5, <2>6, <3>2
    <3>3. CASE x = 0
      BY <2>1, <2>2, <2>3, <2>5, <2>6, <3>3
    <3> QED
      BY <3>1, <3>2, <3>3
  <2> QED
    BY <2>1, <2>7
<1> HIDE DEF Q
<1>3. Seq(Int) \subseteq Q
  BY <1>1, <1>2, SeqInduction
<1> QED
  BY <1>3 DEF Q

(* S[n] is the losing streak after the first n of pnls. *)
Streaks(S, pnls) ==
  /\ S \in [0 .. Len(pnls) -> Nat] /\ S[0] = 0
  /\ \A n \in 1 .. Len(pnls) : S[n] = StreakAfter(S[n - 1], pnls[n])

LEMMA StreakHistory ==
  ASSUME NEW pnls \in Seq(Int)
  PROVE  \E S : /\ Streaks(S, pnls)
                /\ MaxConsecutiveLosses(pnls) = Max({S[n] : n \in 0 .. Len(pnls)})
<1> DEFINE N == Len(pnls)
           Counts(S) == S = [n \in 0 .. N |-> IF n = 0 THEN 0
                                  ELSE StreakAfter(S[n - 1], pnls[n])]
           chosen == CHOOSE S : Counts(S)
           step == [n \in Nat |-> [v \in Nat |-> StreakAfter(v, pnls[n])]]
<1>1. N \in Nat
  BY LenProperties
<1>2. ASSUME NEW v \in Nat, NEW n PROVE StreakAfter(v, pnls[n]) \in Nat
  BY DEF StreakAfter
<1>3. \E S : Counts(S)
  <2>1. 0 \in Nat /\ step \in [Nat -> [Nat -> Nat]]
    BY <1>2
  <2>2. PICK f : Follows(f, Nat, 0, step)
    <3> HIDE DEF step
    <3> QED
      BY <2>1, Recursion
  <2> DEFINE S == [n \in 0 .. N |-> f[n]]
  <2>3. ASSUME NEW n \in 0 .. N, n # 0
        PROVE  S[n] = StreakAfter(S[n - 1], pnls[n])
    <3>1. n - 1 \in Nat /\ n - 1 \in 0 .. N /\ (n - 1) + 1 = n /\ n \in Nat
      BY <1>1, <2>3
    <3>2. f[n] = step[n][f[n - 1]] /\ f[n - 1] \in Nat
      <4> HIDE DEF step
      <4> QED
        BY <2>2, <3>1 DEF Follows
    <3> QED
      BY <3>1, <3>2
  <2>4. S[0] = 0
    BY <1>1, <2>2 DEF Follows
  <2>5. S = [n \in 0 .. N |-> S[n]]
    OBVIOUS
  <2> HIDE DEF S, N
  <2>6. Counts(S)
    BY <2>3, <2>4, <2>5
  <2> QED
    BY <2>6
<1>4. Counts(chosen)
  <2> HIDE DEF Counts
  <2> QED
    BY <1>3
<1>5. MaxConsecutiveLosses(pnls) = Max({chosen[n] : n \in 0 .. N})
  BY DEF MaxConsecutiveLosses
<1> HIDE DEF chosen
<1>6. chosen[0] = 0 /\ \A n \in 1 .. N : chosen[n] = StreakAfter(chosen[n - 1], pnls[n])
  BY <1>1, <1>4
<1> DEFINE A == {n \in Nat : n <= N => chosen[n] \in Nat}
<1>7. 0 \in A
  BY <1>6
<1>8. ASSUME NEW n \in Nat, n \in A PROVE n + 1 \in A
  <2> SUFFICES ASSUME n + 1 <= N PROVE chosen[n + 1] \in Nat
    OBVIOUS
  <2>1. n + 1 \in 1 .. N /\ (n + 1) - 1 = n /\ chosen[n] \in Nat
    BY <1>1, <1>8
  <2>2. chosen[n + 1] = StreakAfter(chosen[n], pnls[n + 1])
    BY <1>6, <2>1
  <2> QED
    BY <1>2, <2>1, <2>2
<1>9. Nat \subseteq A
  <2> HIDE DEF A
  <2> QED
    BY <1>7, <1>8, SetInduction
<1>10. chosen \in [0 .. N -> Nat]
  <2>1. \A n \in 0 .. N : chosen[n] \in Nat
    BY <1>9
  <2>2. chosen = [n \in 0 .. N |-> chosen[n]]
    BY <1>4
  <2> HIDE DEF Counts
  <2> QED
    BY <2>1, <2>2
<1>11. Streaks(chosen, pnls)
  BY <1>6, <1>10 DEF Streaks
<1> QED
  BY <1>5, <1>11

(* The streak at n is the length of the run of losses that ends there.     *)
LEMMA StreakIsRun ==
  ASSUME NEW pnls \in Seq(Int), NEW S, Streaks(S, pnls)
  PROVE  \A n \in 0 .. Len(pnls) :
           /\ S[n] <= n
           /\ \A i \in n - S[n] + 1 .. n : pnls[i] < 0
           /\ S[n] = n \/ ~ (pnls[n - S[n]] < 0)
<1> DEFINE N == Len(pnls)
           Run(n) == /\ S[n] <= n
                     /\ \A i \in n - S[n] + 1 .. n : pnls[i] < 0
                     /\ S[n] = n \/ ~ (pnls[n - S[n]] < 0)
           A == {n \in Nat : n <= N => Run(n)}
<1>1. /\ N \in Nat /\ S[0] = 0
      /\ \A n \in 0 .. N : S[n] \in Nat
      /\ \A n \in 1 .. N : S[n] = StreakAfter(S[n - 1], pnls[n])
  BY LenProperties DEF Streaks
<1>2. 0 \in A
  BY <1>1
<1>3. ASSUME NEW n \in Nat, n \in A PROVE n + 1 \in A
  <2> SUFFICES ASSUME n + 1 <= N PROVE Run(n + 1)
    OBVIOUS
  <2>1. /\ n + 1 \in 1 .. N /\ (n + 1) - 1 = n /\ n \in 0 .. N /\ S[n] \in Nat
        /\ Run(n)
    BY <1>1, <1>3
  <2>2. S[n + 1] = StreakAfter(S[n], pnls[n + 1])
    BY <1>1, <2>1
  <2>3. CASE pnls[n + 1] < 0
    <3>1. S[n + 1] = S[n] + 1 /\ n + 1 - S[n + 1] = n - S[n]
      BY <2>1, <2>2, <2>3 DEF StreakAfter
    <3>2. ASSUME NEW i \in (n + 1) - S[n + 1] + 1 .. n + 1 PROVE pnls[i] < 0
      <4>1. i = n + 1 \/ i \in n - S[n] + 1 .. n
        BY <2>1, <3>1
      <4> QED
        BY <2>1, <2>3, <4>1
    <3>3. S[n + 1] = n + 1 \/ ~ (pnls[(n + 1) - S[n + 1]] < 0)
      BY <2>1, <3>1, SMTT(40)
    <3>4. S[n + 1] <= n + 1
      BY <2>1, <3>1
    <3> QED
      BY <3>2, <3>3, <3>4
  <2>4. CASE ~ (pnls[n + 1] < 0)
    <3>1. S[n + 1] = 0
      BY <2>2, <2>4 DEF StreakAfter
    <3> QED
      BY <2>4, <3>1
  <2> QED
    BY <2>3, <2>4
<1>4. Nat \subseteq A
  <2> HIDE DEF A
  <2> QED
    BY <1>2, <1>3, SetInduction
<1> QED
  BY <1>4

LEMMA LongestRun ==
  ASSUME NEW pnls \in Seq(Int)
  PROVE  LET positions == 1 .. Len(pnls)
             runs == {r \in positions \X positions :
                        \A i \in r[1] .. r[2] : pnls[i] < 0}
         IN  MaxConsecutiveLosses(pnls)
               = Max({0} \cup {r[2] - r[1] + 1 : r \in runs})
<1> DEFINE N == Len(pnls)
           runs == {r \in (1 .. N) \X (1 .. N) :
                      \A i \in r[1] .. r[2] : pnls[i] < 0}
           lengths == {0} \cup {r[2] - r[1] + 1 : r \in runs}
<1>1. PICK S : /\ Streaks(S, pnls)
               /\ MaxConsecutiveLosses(pnls) = Max({S[n] : n \in 0 .. N})
  BY StreakHistory
<1> DEFINE streaks == {S[n] : n \in 0 .. N}
<1>2. N \in Nat /\ S[0] = 0 /\ \A n \in 0 .. N : S[n] \in Nat
  BY <1>1, LenProperties DEF Streaks
<1>3. ASSUME NEW n \in 0 .. N
      PROVE  /\ S[n] <= n
             /\ \A i \in n - S[n] + 1 .. n : pnls[i] < 0
             /\ S[n] = n \/ ~ (pnls[n - S[n]] < 0)
  BY <1>1, StreakIsRun
<1>4. ASSUME NEW r \in runs
      PROVE  /\ r[1] \in 1 .. N /\ r[2] \in 1 .. N
             /\ \A i \in r[1] .. r[2] : pnls[i] < 0
  OBVIOUS
<1>5. /\ Max(streaks) \in streaks /\ \A y \in streaks : Max(streaks) >= y
      /\ streaks \in SUBSET Nat
  <2>1. /\ streaks \in SUBSET Nat /\ streaks \in SUBSET Int /\ S[0] \in streaks
        /\ \A y \in streaks : y <= N
    BY <1>2, <1>3
  <2>2. N \in Int
    BY <1>2
  <2> HIDE DEF streaks, N
  <2>3. streaks # {}
    BY <2>1
  <2> QED
    BY <2>1, <2>2, <2>3, MaxOfInts
<1>6. /\ Max(lengths) \in lengths /\ \A y \in lengths : Max(lengths) >= y
      /\ lengths \in SUBSET Int
  <2>1. lengths \in SUBSET Int /\ 0 \in lengths /\ \A y \in lengths : y <= N
    <3>1. ASSUME NEW r \in runs PROVE r[2] - r[1] + 1 \in Int /\ r[2] - r[1] + 1 <= N
      BY <1>2, <1>4
    <3> HIDE DEF runs
    <3> QED
      BY <1>2, <3>1
  <2>2. N \in Int
    BY <1>2
  <2> HIDE DEF lengths, N
  <2>3. lengths # {}
    BY <2>1
  <2> QED
    BY <2>1, <2>2, <2>3, MaxOfInts
<1>7. ASSUME NEW k \in streaks PROVE k \in lengths
  <2>1. PICK n \in 0 .. N : k = S[n]
    OBVIOUS
  <2>2. CASE k = 0
    BY <2>2
  <2>3. CASE k # 0
    <3> DEFINE r == <<n - k + 1, n>>
    <3>1. k \in Nat /\ n \in 1 .. N /\ n - k + 1 \in 1 .. N
      BY <1>2, <1>3, <2>1, <2>3
    <3>2. r \in runs /\ r[2] - r[1] + 1 = k
      <4>1. \A i \in n - k + 1 .. n : pnls[i] < 0
        BY <1>3, <2>1
      <4>2. n - (n - k + 1) + 1 = k
        BY <3>1
      <4> QED
        BY <3>1, <4>1, <4>2
    <3> HIDE DEF r, runs
    <3> QED
      BY <3>2
  <2> QED
    BY <2>2, <2>3
<1>8. ASSUME NEW y \in lengths PROVE \E k \in streaks : y <= k
  <2>1. CASE y = 0
    BY <1>2, <2>1
  <2>2. CASE y # 0
    <3>1. PICK r \in runs : y = r[2] - r[1] + 1
      BY <2>2
    <3>2. /\ r[1] \in 1 .. N /\ r[2] \in 1 .. N /\ r[2] \in 0 .. N
          /\ \A i \in r[1] .. r[2] : pnls[i] < 0
      BY <1>2, <1>4, <3>1
    <3>3. r[2] - r[1] + 1 <= S[r[2]]
      <4> DEFINE a == r[1]  b == r[2]  k == S[b]
      <4>1. /\ a \in 1 .. N /\ b \in 1 .. N /\ k \in Nat /\ k <= b
            /\ \A i \in a .. b : pnls[i] < 0
            /\ k = b \/ ~ (pnls[b - k] < 0)
        BY <1>2, <1>3, <3>2
      <4> HIDE DEF a, b, k
      <4>2. ASSUME k # b, ~ (b - k < a) PROVE FALSE
        <5>1. b - k \in a .. b
          BY <4>1, <4>2
        <5> QED
          BY <4>1, <4>2, <5>1
      <4>3. b - a + 1 <= k
        BY <1>2, <4>1, <4>2
      <4> QED
        BY <4>3 DEF a, b, k
    <3>4. S[r[2]] \in streaks
      BY <3>2
    <3> QED
      BY <3>1, <3>3, <3>4
  <2> QED
    BY <2>1, <2>2
<1>9. Max(streaks) = Max(lengths)
  <2> DEFINE a == Max(streaks)  b == Max(lengths)
  <2>1. PICK k \in streaks : b <= k
    BY <1>6, <1>8
  <2>2. k <= a /\ a <= b /\ a \in Int /\ b \in Int /\ k \in Int
    <3> HIDE DEF streaks, lengths
    <3> QED
      BY <1>5, <1>6, <1>7
  <2> HIDE DEF a, b
  <2>3. a = b
    BY <2>1, <2>2
  <2> QED
    BY <2>3 DEF a, b
<1> HIDE DEF lengths
<1>10. MaxConsecutiveLosses(pnls) = Max(lengths)
  BY <1>1, <1>9
<1> QED
  BY <1>10 DEF lengths

(* The counts: every row is a breakeven, a win or a loss.                  *)
LEMMA LossesAreTheRest ==
  ASSUME NEW rows \in Seq(Rows)
  PROVE  CalculateMetrics(rows).losses
           = Cardinality({i \in DOMAIN rows : rows[i].reason # "BREAKEVEN_SL"
                                                /\ rows[i].pnl <= 0})
<1> DEFINE D == DOMAIN rows
           B == {i \in D : rows[i].reason = "BREAKEVEN_SL"}
           W == {i \in D : rows[i].reason # "BREAKEVEN_SL" /\ rows[i].pnl > 0}
           L == {i \in D : rows[i].reason # "BREAKEVEN_SL" /\ rows[i].pnl <= 0}
           even == {r \in ToSet(rows) : r.reason = "BREAKEVEN_SL"}
           won == {r \in ToSet(rows) : r.reason # "BREAKEVEN_SL" /\ r.pnl > 0}
<1>1. /\ Len(rows) \in Nat /\ D = 1 .. Len(rows)
      /\ \A i \in D : rows[i] \in Rows /\ rows[i] \in ToSet(rows)
  <2>1. Len(rows) \in Nat /\ D = 1 .. Len(rows) /\ \A i \in D : rows[i] \in Rows
    BY LenProperties, ElementOfSeq
  <2> QED
    BY <2>1 DEF ToSet
<1>2. IsFiniteSet(D) /\ Cardinality(D) = Len(rows)
  <2> DEFINE n == Len(rows)
  <2>1. n \in Nat /\ 1 \in Int /\ n \in Int
    BY <1>1
  <2> HIDE DEF n
  <2>2. IsFiniteSet(1 .. n) /\ Cardinality(1 .. n) = IF 1 > n THEN 0 ELSE n - 1 + 1
    BY <2>1, FS_Interval
  <2>3. Cardinality(1 .. n) = n
    BY <2>1, <2>2
  <2> QED
    BY <1>1, <2>2, <2>3 DEF n
<1>3. Len(Kept(rows, even)) = Cardinality(B)
  <2>1. {i \in DOMAIN rows : rows[i] \in even} = B
    BY <1>1
  <2> QED
    BY <2>1, KeptCount, ZenonT(60)
<1>4. Len(Kept(rows, won)) = Cardinality(W)
  <2>1. {i \in DOMAIN rows : rows[i] \in won} = W
    BY <1>1
  <2> QED
    BY <2>1, KeptCount
<1>5. D = B \cup (W \cup L) /\ B \cap (W \cup L) = {} /\ W \cap L = {}
  <2>1. ASSUME NEW i \in D PROVE rows[i].pnl > 0 <=> ~ (rows[i].pnl <= 0)
    <3>1. rows[i].pnl \in Int
      BY <1>1 DEF Rows
    <3> QED
      BY <3>1
  <2> HIDE DEF D
  <2>2. \A i \in D : rows[i].pnl > 0 <=> ~ (rows[i].pnl <= 0)
    BY <2>1
  <2> QED
    BY <2>2, Zenon
<1>6. B \subseteq D /\ W \subseteq D /\ L \subseteq D
  OBVIOUS
<1>7. CalculateMetrics(rows).losses
        = Len(rows) - Len(Kept(rows, won)) - Len(Kept(rows, even))
  BY DEF CalculateMetrics
<1> HIDE DEF D, B, W, L, even, won
<1>8. IsFiniteSet(B) /\ IsFiniteSet(W) /\ IsFiniteSet(L)
  BY <1>2, <1>6, FS_Subset
<1>9. /\ IsFiniteSet(W \cup L)
      /\ Cardinality(W \cup L) = Cardinality(W) + Cardinality(L)
  <2>1. Cardinality(W \cup L) = Cardinality(W) + Cardinality(L) - Cardinality({})
    BY <1>5, <1>8, FS_Union
  <2>2. IsFiniteSet(W \cup L)
    BY <1>8, FS_Union
  <2> QED
    BY <1>8, <2>1, <2>2, FS_EmptySet, FS_CardinalityType
<1>10. Cardinality(D) = Cardinality(B) + Cardinality(W \cup L)
  <2>1. Cardinality(D) = Cardinality(B) + Cardinality(W \cup L) - Cardinality({})
    BY <1>5, <1>8, <1>9, FS_Union
  <2> QED
    BY <1>8, <1>9, <2>1, FS_EmptySet, FS_CardinalityType
<1>11. Cardinality(B) \in Nat /\ Cardinality(W) \in Nat /\ Cardinality(L) \in Nat
  BY <1>8, FS_CardinalityType
<1>12. CalculateMetrics(rows).losses = Cardinality(L)
  BY <1>2, <1>3, <1>4, <1>7, <1>9, <1>10, <1>11
<1> QED
  BY <1>12 DEF L, D

(* Whatever rows the journal holds, those of earlier sessions included,    *)
(* the report counts each of them once, splits the net into what was won   *)
(* and lost, and finds the longest run of losses.                          *)
THEOREM ReportIsTheJournals == Spec => []MetricsMatchJournal
<1>1. SessionInv => MetricsMatchJournal
  <2> SUFFICES ASSUME journal \in Seq(Rows) PROVE MetricsMatchJournal
    BY DEF SessionInv, TypeOK
  <2> DEFINE m == CalculateMetrics(journal)
             pnls == [i \in DOMAIN journal |-> journal[i].pnl]
             N == Len(journal)
  <2>1. /\ N \in Nat /\ DOMAIN journal = 1 .. N
        /\ \A i \in 1 .. N : journal[i] \in Rows /\ journal[i].pnl \in Int
    <3>1. N \in Nat /\ DOMAIN journal = 1 .. N /\ \A i \in 1 .. N : journal[i] \in Rows
      BY LenProperties, ElementOfSeq
    <3> QED
      BY <3>1 DEF Rows
  <2>2. pnls \in Seq(Int) /\ Len(pnls) = N /\ \A i \in 1 .. N : pnls[i] = journal[i].pnl
    <3>1. pnls = [i \in 1 .. N |-> journal[i].pnl]
      BY <2>1
    <3>2. pnls \in [1 .. N -> Int]
      BY <2>1, <3>1
    <3> QED
      BY <2>1, <3>1, <3>2, SeqDef, LenProperties
  <2>3. /\ m.grossProfit = Sum(Kept(pnls, {x \in ToSet(pnls) : x > 0}))
        /\ m.grossLoss = -Sum(Kept(pnls, {x \in ToSet(pnls) : x < 0}))
        /\ m.netPnl = Sum(pnls)
        /\ m.maxConsecutiveLosses = MaxConsecutiveLosses(pnls)
    BY DEF CalculateMetrics
  <2> HIDE DEF pnls, m
  <2>4. /\ Kept(pnls, {x \in ToSet(pnls) : x > 0}) = Kept(pnls, {x \in Int : x > 0})
        /\ Kept(pnls, {x \in ToSet(pnls) : x < 0}) = Kept(pnls, {x \in Int : x < 0})
    <3>1. ToSet(pnls) \subseteq Int
      BY <2>2, ElementOfSeq DEF ToSet
    <3>2. \A x \in ToSet(pnls) :
             /\ x \in {y \in ToSet(pnls) : y > 0} <=> x \in {y \in Int : y > 0}
             /\ x \in {y \in ToSet(pnls) : y < 0} <=> x \in {y \in Int : y < 0}
      BY <3>1
    <3> QED
      BY <2>2, <3>2, KeptAgrees
  <2>5. m.netPnl = m.grossProfit - m.grossLoss /\ m.grossProfit >= 0 /\ m.grossLoss >= 0
    BY <2>2, <2>3, <2>4, GrossFigures
  <2> DEFINE rows == DOMAIN journal
             runs == {r \in rows \X rows :
                        \A i \in r[1] .. r[2] : journal[i].pnl < 0}
             lengths == {0} \cup {r[2] - r[1] + 1 : r \in runs}
  <2>6. m.maxConsecutiveLosses = Max(lengths)
    <3> DEFINE positions == 1 .. Len(pnls)
               lost == {r \in positions \X positions :
                          \A i \in r[1] .. r[2] : pnls[i] < 0}
    <3>1. MaxConsecutiveLosses(pnls) = Max({0} \cup {r[2] - r[1] + 1 : r \in lost})
      BY <2>2, LongestRun
    <3>2. lost = runs
      <4>1. positions = rows
        BY <2>1, <2>2
      <4>2. ASSUME NEW r \in rows \X rows, NEW i \in r[1] .. r[2]
            PROVE  pnls[i] = journal[i].pnl
        BY <2>1, <2>2
      <4> QED
        BY <4>1, <4>2
    <3> HIDE DEF lost, runs
    <3> QED
      BY <2>3, <3>1, <3>2
  <2>7. m.losses = Cardinality({i \in rows :
                      journal[i].reason # "BREAKEVEN_SL" /\ journal[i].pnl <= 0})
    BY LossesAreTheRest DEF m
  <2> QED
    BY <2>5, <2>6, <2>7, Zenon DEF MetricsMatchJournal, m
<1> QED
  BY SessionInvariant, <1>1, PTL
=============================================================================
