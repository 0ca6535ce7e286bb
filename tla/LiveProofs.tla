----------------------------- MODULE LiveProofs -----------------------------
(***************************************************************************)
(* Proofs about the continuous loop, for any configuration the program     *)
(* accepts, any faults, and any number of positions, days and restarts.    *)
(* A theorem that does not hold of every broker names what it assumes of   *)
(* it.                                                                     *)
(***************************************************************************)
EXTENDS LiveLoop, FiniteSetTheorems, TLAPS

-----------------------------------------------------------------------------
(* Types.  While the process lives its error counter is below the limit.   *)

TypeInv == TypeOK /\ (pc # "down" => errors < MaxErrors)

LEMMA RecordType ==
  ASSUME NEW s \in DailyStats(Days), NEW pnl \in Int
  PROVE  /\ RecordClosedTrade(s, pnl) \in DailyStats(Days)
         /\ RecordClosedTrade(s, pnl).trading_day = s.trading_day
         /\ RecordClosedTrade(s, pnl).realized = s.realized
         /\ RecordClosedTrade(s, pnl).trade_count = s.trade_count + 1
         /\ RecordClosedTrade(s, pnl).losses = StreakAfter(s.losses, pnl)
<1>1. s.trade_count + 1 \in Nat /\ s.losses \in Nat
  BY DEF DailyStats
<1>2. StreakAfter(s.losses, pnl) \in Nat
  BY <1>1 DEF StreakAfter
<1> QED
  BY <1>1, <1>2 DEF RecordClosedTrade, DailyStats

(* The statistics an iteration on date d starts from.                      *)
LEMMA ResetType ==
  ASSUME NEW s \in DailyStats(Days), NEW d \in Days
  PROVE  /\ MaybeResetDailyStats(s, d) \in DailyStats(Days)
         /\ MaybeResetDailyStats(s, d).trading_day = d
         /\ s.trading_day # d => MaybeResetDailyStats(s, d) = FreshStats(d)
         /\ FreshStats(d) \in DailyStats(Days)
         /\ FreshStats(d).trading_day = d /\ FreshStats(d).trade_count = 0
         /\ FreshStats(d).losses = 0
BY DEF MaybeResetDailyStats, FreshStats, DailyStats

LEMMA CooldownType ==
  /\ \A n \in Nat : Tick(n) \in Nat
  /\ \A r \in CloseReasons : StartCooldown(CooldownBarsForReason(r)) \in Nat
<1>1. \A n \in Int : AtLeastZero(n) \in Nat
  BY DEF AtLeastZero
<1>2. \A r \in CloseReasons : CooldownBarsForReason(r) \in Int
  BY ConfigAssumption DEF CloseReasons, CooldownBarsForReason
<1>3. \A n \in Nat : Tick(n) \in Nat
  BY <1>1 DEF Tick
<1> QED
  BY <1>1, <1>2, <1>3 DEF StartCooldown

(* The fates a position can have.                                          *)
Fates == [status : {"none", "open", "closed"}, opened : Days, pnl : Int,
          times : Nat, recorded : Int, reason : CloseReasons \cup {None},
          minute : 0 .. MaxMinute]

LEMMA FateTypes == TypeOK => trade \in [Ids -> Fates]
BY DEF TypeOK, Fates

(* A new position's identity is one of the instance's, and starts afresh.  *)
LEMMA FreshIdType ==
  ASSUME HasFreshId
  PROVE  FreshId \in Ids
<1>1. IsFiniteSet(Ids) /\ MaxPositions \in Nat
  BY FS_Interval, LiveAssumption DEF Ids
<1>2. IsFiniteSet(Used)
  BY <1>1, FS_Subset DEF Used
<1>3. Cardinality(Used) \in Nat
  BY <1>2, FS_CardinalityType
<1> QED
  BY <1>1, <1>3 DEF HasFreshId, FreshId, Ids

LEMMA FilledType ==
  ASSUME TypeOK, Filled
  PROVE  /\ FreshId \in Ids /\ open' = open \cup {FreshId} /\ open' \subseteq Ids
         /\ trade' \in [Ids -> Fates]
         /\ trade'[FreshId].status = "open" /\ trade'[FreshId].opened = day
         /\ trade'[FreshId].times = 0
         /\ \A i \in Ids \ {FreshId} : trade'[i] = trade[i]
         /\ UNCHANGED <<moved, day, hostDay, minute, dayPnl>>
<1>1. FreshId \in Ids
  BY FreshIdType DEF Filled
<1> DEFINE new == [NewTrade EXCEPT !.status = "open", !.opened = day]
<1>2. 0 \in Days /\ 0 \in 0 .. MaxMinute
  BY LiveAssumption DEF Days
<1>3. /\ new \in Fates
      /\ new.status = "open" /\ new.opened = day /\ new.times = 0
  <2>1. NewTrade \in Fates /\ NewTrade.times = 0
    BY <1>2 DEF NewTrade, Fates
  <2>2. day \in Days
    BY DEF TypeOK
  <2> QED
    BY <2>1, <2>2 DEF Fates
<1>4. trade' = [trade EXCEPT ![FreshId] = new] /\ trade \in [Ids -> Fates]
  BY FateTypes DEF Filled
<1> HIDE DEF new
<1>5. /\ trade' \in [Ids -> Fates] /\ trade'[FreshId] = new
      /\ \A i \in Ids \ {FreshId} : trade'[i] = trade[i]
  BY <1>1, <1>3, <1>4
<1> QED
  BY <1>1, <1>3, <1>5 DEF Filled, TypeOK

LEMMA SettleType ==
  ASSUME TypeOK, NEW id \in open, NEW pnl \in Int, Settle(id, pnl)
  PROVE  /\ id \in Ids /\ open' = open \ {id} /\ open' \subseteq Ids
         /\ dayPnl' \in Int /\ trade' \in [Ids -> Fates]
         /\ trade'[id].status = "closed" /\ trade'[id].times = trade[id].times
         /\ trade'[id].opened = trade[id].opened
         /\ \A i \in Ids \ {id} : trade'[i] = trade[i]
         /\ UNCHANGED <<moved, day, hostDay, minute>>
<1>1. id \in Ids /\ trade \in [Ids -> Fates]
  BY FateTypes DEF TypeOK
<1>2. trade' = [trade EXCEPT ![id] = [@ EXCEPT !.status = "closed", !.pnl = pnl]]
  BY <1>1 DEF Settle, Fates
<1>3. [trade[id] EXCEPT !.status = "closed", !.pnl = pnl] \in Fates
  BY <1>1 DEF Fates
<1>4. /\ trade' \in [Ids -> Fates]
      /\ trade'[id] = [trade[id] EXCEPT !.status = "closed", !.pnl = pnl]
      /\ \A i \in Ids \ {id} : trade'[i] = trade[i]
  BY <1>1, <1>2, <1>3
<1>5. /\ trade'[id].status = "closed" /\ trade'[id].times = trade[id].times
      /\ trade'[id].opened = trade[id].opened
  BY <1>1, <1>4 DEF Fates
<1> QED
  BY <1>1, <1>4, <1>5 DEF Settle, TypeOK

LEMMA StopPnlType == \A id : StopPnl(id) \in Int
BY ConfigAssumption DEF StopPnl

LEMMA RecordCloseType ==
  ASSUME TypeOK, NEW id \in Ids, NEW pnl \in Int, NEW reason \in CloseReasons,
         RecordClose(id, pnl, reason)
  PROVE  /\ stats' = RecordClosedTrade(stats, pnl)
         /\ stats' \in DailyStats(Days) /\ cooldown' \in Nat
         /\ trade' \in [Ids -> Fates]
         /\ trade'[id].times = trade[id].times + 1
         /\ trade'[id].status = trade[id].status
         /\ trade'[id].opened = trade[id].opened
         /\ \A i \in Ids \ {id} : trade'[i] = trade[i]
<1> DEFINE new == [trade[id] EXCEPT !.times = @ + 1, !.recorded = pnl,
                                   !.minute = minute, !.reason = reason]
<1>1. trade \in [Ids -> Fates] /\ minute \in 0 .. MaxMinute
  BY FateTypes DEF TypeOK
<1>2. /\ new \in Fates /\ new.times = trade[id].times + 1
      /\ new.status = trade[id].status /\ new.opened = trade[id].opened
  <2>1. trade[id] \in Fates /\ trade[id].times + 1 \in Nat
    BY <1>1 DEF Fates
  <2> QED
    BY <1>1, <2>1 DEF Fates
<1>3. trade' = [trade EXCEPT ![id] = new]
  BY <1>1 DEF RecordClose, Fates
<1> HIDE DEF new
<1>4. /\ trade' \in [Ids -> Fates] /\ trade'[id] = new
      /\ \A i \in Ids \ {id} : trade'[i] = trade[i]
  BY <1>1, <1>2, <1>3
<1>5. stats' = RecordClosedTrade(stats, pnl) /\ stats' \in DailyStats(Days)
  BY RecordType DEF RecordClose, TypeOK
<1>6. cooldown' \in Nat
  BY CooldownType DEF RecordClose
<1> QED
  BY <1>2, <1>4, <1>5, <1>6

LEMMA CloseType ==
  ASSUME TypeOK, Close
  PROVE  /\ lastKnown \in Ids /\ trade' \in [Ids -> Fates]
         /\ trade'[lastKnown].times = trade[lastKnown].times + 1
         /\ trade'[lastKnown].status = "closed"
         /\ trade'[lastKnown].opened = trade[lastKnown].opened
         /\ \A i \in Ids \ {lastKnown} : trade'[i] = trade[i]
<1> DEFINE new == [trade[lastKnown] EXCEPT !.status = "closed", !.pnl = TpCash,
                     !.times = @ + 1, !.recorded = TpCash, !.minute = minute,
                     !.reason = "TP_CASH"]
<1>1. trade \in [Ids -> Fates] /\ minute \in 0 .. MaxMinute /\ lastKnown \in Ids
  BY FateTypes DEF TypeOK, Close
<1>2. trade[lastKnown] \in Fates /\ trade[lastKnown].times + 1 \in Nat
  BY <1>1 DEF Fates
<1>3. TpCash \in Int /\ "TP_CASH" \in CloseReasons
  BY ConfigAssumption DEF CloseReasons
<1>4. /\ new \in Fates /\ new.times = trade[lastKnown].times + 1
      /\ new.status = "closed" /\ new.opened = trade[lastKnown].opened
  BY <1>1, <1>2, <1>3 DEF Fates
<1>5. trade' = [trade EXCEPT ![lastKnown] = new]
  BY <1>1 DEF Close, Fates
<1> HIDE DEF new
<1> QED
  BY <1>1, <1>4, <1>5

LEMMA TypeInit == Init => TypeInv
<1> SUFFICES ASSUME Init PROVE TypeInv
  OBVIOUS
<1>1. /\ 0 \in Days /\ 0 \in 0 .. MaxMinute /\ 0 \in 0 .. MaxErrors
      /\ 0 \in 0 .. MaxFaults
  BY LiveAssumption DEF Days
<1>2. FreshStats(0) \in DailyStats(Days)
  BY <1>1 DEF FreshStats, DailyStats
<1>3. NewTrade \in Fates
  BY <1>1 DEF NewTrade, Fates
<1>4. trade \in [Ids -> Fates]
  BY <1>3 DEF Init
<1>5. 0 < MaxErrors
  BY LiveAssumption
<1>6. noBars \in BOOLEAN /\ shutdown \in BOOLEAN
  BY DEF Init
<1> QED
  BY <1>1, <1>2, <1>4, <1>5, <1>6 DEF Init, TypeInv, TypeOK, Fates

(* How an iteration or a call ends keeps the error counter in range.       *)
LEMMA EndingType ==
  /\ Returned => errors' = 0 /\ pc' = "save"
  /\ TypeInv /\ pc # "down" /\ Raised =>
       /\ errors' \in 0 .. MaxErrors /\ pc' \in {"save", "down"}
       /\ pc' # "down" => errors' < MaxErrors /\ stops' = stops
       /\ pc' = "down" => stops' = stops + 1
       /\ stops' \in Nat
<1>1. ASSUME TypeInv, pc # "down", Raised
      PROVE  /\ errors' \in 0 .. MaxErrors /\ pc' \in {"save", "down"}
             /\ pc' # "down" => errors' < MaxErrors /\ stops' = stops
             /\ pc' = "down" => stops' = stops + 1
             /\ stops' \in Nat
  BY <1>1, LiveAssumption DEF Raised, TypeInv, TypeOK
<1> QED
  BY <1>1 DEF Returned

LEMMA FaultType ==
  ASSUME TypeInv, pc # "down", NEW call, Fault(call)
  PROVE  /\ Raised /\ faults' \in 0 .. MaxFaults
BY LiveAssumption DEF Fault, TypeInv, TypeOK

LEMMA SwallowType ==
  ASSUME TypeOK, NEW call, Swallows(call) \/ UNCHANGED faults
  PROVE  faults' \in 0 .. MaxFaults
BY LiveAssumption DEF Swallows, TypeOK

(* What the iteration does between two calls, by what it changes.          *)
LEMMA TypeOfReads ==
  ASSUME TypeInv, GetBars \/ GetNoBars \/ GetTodayRealizedPnl \/ Gate
  PROVE  TypeInv'
<1> USE DEF TypeInv, TypeOK, process, world, locals, Calls
<1>1. CASE GetBars
  <2>1. stats' \in DailyStats(Days)
    BY <1>1, ResetType DEF GetBars
  <2>2. stats'.realized \in Int
    BY <2>1 DEF DailyStats
  <2> QED
    BY <1>1, <2>1, <2>2 DEF GetBars
<1>2. CASE GetNoBars
  <2>1. stats.realized \in Int
    BY DEF DailyStats
  <2>2. faults' \in 0 .. MaxFaults
    BY <1>2, SwallowType DEF GetNoBars
  <2> QED
    BY <1>2, <2>1, <2>2 DEF GetNoBars
<1>3. CASE GetTodayRealizedPnl
  <2>1. faults' \in 0 .. MaxFaults
    BY <1>3, SwallowType DEF GetTodayRealizedPnl
  <2>2. stats' \in DailyStats(Days)
    BY <1>3 DEF GetTodayRealizedPnl, DailyStats
  <2> QED
    BY <1>3, <2>1, <2>2 DEF GetTodayRealizedPnl
<1>4. CASE Gate
  <2>1. faults' \in 0 .. MaxFaults
    BY <1>4, SwallowType DEF Gate, NoneReported
  <2>2. cooldown' \in Nat
    BY <1>4, CooldownType DEF Gate
  <2>3. pc' \in {"save", "cost"} /\ errors' \in {0, errors}
    BY <1>4 DEF Gate, Returned
  <2>4. 0 < MaxErrors /\ 0 \in 0 .. MaxErrors /\ pc # "down"
    BY <1>4, LiveAssumption DEF Gate
  <2> QED
    BY <1>4, <2>1, <2>2, <2>3, <2>4 DEF Gate
<1> QED
  BY <1>1, <1>2, <1>3, <1>4

LEMMA TypeOfNotices ==
  ASSUME TypeInv, NoticeVanished \/ NoticeOpen \/ Mark \/ Close
  PROVE  TypeInv'
<1> USE DEF TypeInv, TypeOK, process, world, locals, Calls
<1>0. 0 < MaxErrors /\ 0 \in 0 .. MaxErrors
  BY LiveAssumption
<1>1. CASE NoticeVanished
  <2> DEFINE reason == IF context # None /\ context THEN "BREAKEVEN_SL" ELSE "HARD_SL"
  <2>1. lastKnown \in Ids /\ stats.realized - prev \in Int
    BY <1>1 DEF NoticeVanished, DailyStats
  <2>2. reason \in CloseReasons /\ RecordClose(lastKnown, stats.realized - prev, reason)
    BY <1>1 DEF NoticeVanished, CloseReasons
  <2>3. /\ stats' \in DailyStats(Days) /\ cooldown' \in Nat
        /\ trade' \in [Ids -> Fates]
    BY <2>1, <2>2, RecordCloseType
  <2>4. faults' \in 0 .. MaxFaults
    BY <1>1, SwallowType DEF NoticeVanished, NoneReported
  <2> QED
    BY <1>1, <2>3, <2>4 DEF NoticeVanished, Fates
<1>2. CASE NoticeOpen
  BY <1>2 DEF NoticeOpen
<1>3. CASE Mark
  <2>1. pc' \in {"save", "close", "modify"} /\ errors' \in {0, errors}
    BY <1>3 DEF Mark, Returned
  <2> QED
    BY <1>0, <1>3, <2>1 DEF Mark
<1>4. CASE Close
  <2>1. lastKnown \in Ids /\ TpCash \in Int /\ "TP_CASH" \in CloseReasons
    BY <1>4, ConfigAssumption DEF Close, CloseReasons
  <2>2. stats' \in DailyStats(Days) /\ cooldown' \in Nat
    BY <1>4, <2>1, RecordType, CooldownType DEF Close
  <2>5. trade' \in [Ids -> Fates]
    BY <1>4, CloseType
  <2>6. dayPnl' \in Int /\ open' \subseteq Ids
    BY <1>4, <2>1 DEF Close
  <2> QED
    BY <1>4, <2>2, <2>5, <2>6 DEF Close, Fates
<1> QED
  BY <1>1, <1>2, <1>3, <1>4

LEMMA TypeOfOrders ==
  ASSUME TypeInv, Modify \/ LookForEntry \/ OpenMarketOrder \/ WriteJournalRow
  PROVE  TypeInv'
<1> USE DEF TypeInv, TypeOK, process, world, locals, Calls
<1>0. 0 < MaxErrors /\ 0 \in 0 .. MaxErrors
  BY LiveAssumption
<1>1. CASE Modify
  <2>1. lastKnown \in Ids /\ context' \in BOOLEAN \cup {None}
    BY <1>1 DEF Modify
  <2> QED
    BY <1>0, <1>1, <2>1 DEF Modify, Returned
<1>2. CASE LookForEntry
  <2>1. pc # "down" /\ pc' \in {"save", "open"} /\ errors' \in {0, errors}
    BY <1>2 DEF LookForEntry, Returned
  <2> QED
    BY <1>0, <1>2, <2>1 DEF LookForEntry
<1>3. CASE OpenMarketOrder
  <2>1. /\ FreshId \in Ids /\ open' \subseteq Ids /\ trade' \in [Ids -> Fates]
        /\ UNCHANGED <<moved, day, hostDay, minute, dayPnl>>
    BY <1>3, FilledType DEF OpenMarketOrder
  <2>2. faults' \in 0 .. MaxFaults
    BY <1>3, SwallowType DEF OpenMarketOrder, NoneFound
  <2> QED
    BY <1>0, <1>3, <2>1, <2>2 DEF OpenMarketOrder, Returned, Fates
<1>4. CASE WriteJournalRow
  BY <1>0, <1>4 DEF WriteJournalRow, Returned
<1> QED
  BY <1>1, <1>2, <1>3, <1>4

LEMMA TypeOfFailures ==
  ASSUME TypeInv, CallRaises \/ OrderRefused \/ JournalRaises \/ ReplyLost
  PROVE  TypeInv'
<1> USE DEF process, world, locals
<1>1. pc \in Calls /\ pc # "down"
  BY DEF CallRaises, OrderRefused, JournalRaises, ReplyLost, Calls
<1>2. Raised /\ faults' \in 0 .. MaxFaults
  <2>1. CASE OrderRefused
    BY <2>1 DEF OrderRefused, TypeInv, TypeOK
  <2>2. CASE \E call : Fault(call)
    BY <1>1, <2>2, FaultType
  <2> QED
    BY <2>1, <2>2 DEF CallRaises, JournalRaises, ReplyLost
<1>3. /\ errors' \in 0 .. MaxErrors /\ pc' \in {"save", "down"}
      /\ pc' # "down" => errors' < MaxErrors
      /\ stops' \in Nat
  BY <1>1, <1>2, EndingType
<1>4. CASE CallRaises \/ OrderRefused \/ JournalRaises
  BY <1>2, <1>3, <1>4 DEF CallRaises, OrderRefused, JournalRaises, TypeInv, TypeOK
<1>5. CASE ReplyLost
  <2>1. UNCHANGED <<stats, cooldown, lastKnown, context, prev, noBars, shutdown, file>>
    BY <1>5 DEF ReplyLost
  <2>2. /\ open' \subseteq Ids /\ moved' \subseteq Ids /\ dayPnl' \in Int
        /\ trade' \in [Ids -> Fates] /\ UNCHANGED <<day, hostDay, minute>>
    <3>1. CASE Filled
      BY <3>1, FilledType DEF TypeInv, TypeOK
    <3>2. CASE lastKnown \in open /\ Settle(lastKnown, TpCash)
      BY <3>2, SettleType, ConfigAssumption DEF TypeInv, TypeOK
    <3>3. CASE /\ lastKnown \in open /\ moved' = moved \cup {lastKnown}
               /\ UNCHANGED <<open, day, hostDay, minute, dayPnl, trade>>
      BY <3>3, FateTypes DEF TypeInv, TypeOK
    <3> QED
      BY <1>5, <3>1, <3>2, <3>3 DEF ReplyLost
  <2> QED
    BY <1>2, <1>3, <2>1, <2>2 DEF TypeInv, TypeOK, Fates
<1> QED
  BY <1>4, <1>5

LEMMA TypeOfWorld ==
  ASSUME TypeInv, Exchange
  PROVE  TypeInv'
<1> USE DEF process, world, locals
<1>1. CASE StopFires
  <2>1. PICK id \in open : Settle(id, StopPnl(id))
    BY <1>1 DEF StopFires
  <2>2. /\ open' \subseteq Ids /\ dayPnl' \in Int /\ trade' \in [Ids -> Fates]
        /\ UNCHANGED <<moved, day, hostDay, minute>>
    BY <2>1, SettleType, StopPnlType DEF TypeInv
  <2> QED
    BY <1>1, <2>2 DEF StopFires, TypeInv, TypeOK, Fates
<1>2. CASE DayTurns
  <2>1. day' \in Days
    BY <1>2, LiveAssumption DEF DayTurns, TypeInv, TypeOK, Days
  <2> QED
    BY <1>2, <2>1 DEF DayTurns, TypeInv, TypeOK
<1>3. CASE HostDayTurns
  <2>1. hostDay' \in Days
    BY <1>3, LiveAssumption DEF HostDayTurns, TypeInv, TypeOK, Days
  <2> QED
    BY <1>3, <2>1 DEF HostDayTurns, TypeInv, TypeOK
<1>4. CASE MinuteTurns
  <2>1. minute' \in 0 .. MaxMinute
    BY <1>4, LiveAssumption DEF MinuteTurns, TypeInv, TypeOK
  <2> QED
    BY <1>4, <2>1 DEF MinuteTurns, TypeInv, TypeOK
<1> QED
  BY <1>1, <1>2, <1>3, <1>4 DEF Exchange

LEMMA LoadType ==
  TypeOK => /\ LoadDailyStats \in DailyStats(Days)
            /\ file = None => LoadDailyStats = FreshStats(hostDay)
BY ResetType DEF LoadDailyStats, TypeOK

LEMMA TypeOfLoop ==
  ASSUME TypeInv, SaveDailyStats \/ Leave \/ Interrupt \/ Crash \/ Start
  PROVE  TypeInv'
<1> USE DEF TypeInv, TypeOK, process, world, locals, Calls
<1>1. CASE SaveDailyStats
  BY <1>1 DEF SaveDailyStats
<1>2. CASE Leave
  BY <1>2 DEF Leave
<1>3. CASE Interrupt
  BY <1>3 DEF Interrupt
<1>4. CASE Crash
  BY <1>4 DEF Crash
<1>5. CASE Start
  <2>1. 0 < MaxErrors /\ 0 \in 0 .. MaxErrors
    BY LiveAssumption
  <2> QED
    <3>1. stats' \in DailyStats(Days)
      BY <1>5, LoadType DEF Start
    <3>2. shutdown' \in BOOLEAN /\ noBars' \in BOOLEAN
      BY <1>5 DEF Start
    <3> QED
      BY <1>5, <2>1, <3>1, <3>2 DEF Start
<1> QED
  BY <1>1, <1>2, <1>3, <1>4, <1>5

LEMMA TypeStep == TypeInv /\ [Next]_vars => TypeInv'
<1>1. TypeInv /\ UNCHANGED vars => TypeInv'
  BY DEF TypeInv, TypeOK, vars, process, locals, world
<1> QED
  BY <1>1, TypeOfReads, TypeOfNotices, TypeOfOrders, TypeOfFailures, TypeOfWorld,
     TypeOfLoop DEF Next, Iterate, Environment

(* Every variable of the process, the exchange and the history stays of    *)
(* its type, whatever fails and however often the process is restarted.    *)
THEOREM LiveTypes == Spec => []TypeOK
<1>1. TypeInv => TypeOK
  BY DEF TypeInv
<1> QED
  BY <1>1, TypeInit, TypeStep, PTL DEF Spec

-----------------------------------------------------------------------------
(* One position at a time.  As long as a position is never reported        *)
(* missing, an entry is looked for only when nothing is open or tracked,   *)
(* so the tracked position is the open one or nothing is.                  *)

PositionsReported == "positions" \notin Swallowed

ScanInv ==
  /\ pc \in {"cost", "open"} => open = {} /\ lastKnown = None
  /\ \A i, j \in open : i = j
  /\ lastKnown # None => open \subseteq {lastKnown}
  /\ pc = "journal" => lastKnown \in Ids /\ trade[lastKnown].times >= 1

LEMMA NoneReportedIsNone ==
  ASSUME PositionsReported, NoneReported
  PROVE  open = {}
BY DEF PositionsReported, NoneReported, Swallows

(* The next-state relation as one disjunction, the quiet actions last.     *)
LEMMA Disjuncts ==
  ASSUME Next
  PROVE  \/ StopFires \/ NoticeVanished \/ NoticeOpen \/ Gate \/ Close
         \/ OpenMarketOrder \/ WriteJournalRow \/ ReplyLost \/ Start
         \/ DayTurns \/ GetBars \/ GetNoBars \/ GetTodayRealizedPnl
         \/ SaveDailyStats \/ Crash \/ LookForEntry
         \/ CallRaises \/ JournalRaises \/ OrderRefused
         \/ Mark \/ Modify \/ Leave \/ HostDayTurns \/ MinuteTurns
         \/ Interrupt
BY DEF Next, Iterate, Environment, Exchange

(* Steps that leave every position and what is tracked alone.              *)
Quiet ==
  /\ UNCHANGED <<open, trade, lastKnown>>
  /\ pc' \in {"cost", "open"} => pc \in {"cost", "open"}
  /\ pc' = "journal" => pc = "journal"
  /\ pc = "down" => pc' = "down" /\ UNCHANGED <<file, stats, stops>>
  /\ pc # "down" /\ pc' = "down" => stops' = stops + 1
  /\ day' \in {day, day + 1}

LEMMA QuietSteps ==
  ASSUME TypeInv,
         \/ DayTurns \/ GetBars \/ GetNoBars \/ GetTodayRealizedPnl
         \/ SaveDailyStats \/ Crash \/ LookForEntry
         \/ CallRaises \/ JournalRaises \/ OrderRefused
         \/ Mark \/ Modify \/ Leave \/ HostDayTurns \/ MinuteTurns
         \/ Interrupt \/ UNCHANGED vars
  PROVE  /\ Quiet
         /\ pc = "journal" => JournalRaises \/ pc' \in {"journal", "down"}
<1> USE DEF Quiet, process, world, locals
<1>1. CASE CallRaises \/ JournalRaises \/ OrderRefused
  <2>1. Raised /\ pc # "down"
    BY <1>1 DEF CallRaises, JournalRaises, OrderRefused, Fault, Calls
  <2>2. pc' \in {"save", "down"} /\ (pc' = "down" => stops' = stops + 1)
    BY <2>1, EndingType
  <2> QED
    BY <1>1, <2>1, <2>2 DEF CallRaises, JournalRaises, OrderRefused
<1>2. CASE \/ GetBars \/ GetNoBars \/ GetTodayRealizedPnl \/ SaveDailyStats
           \/ Crash \/ LookForEntry \/ Mark \/ Modify \/ Leave
  BY <1>2 DEF GetBars, GetNoBars, GetTodayRealizedPnl, SaveDailyStats, Crash,
              LookForEntry, Mark, Modify, Leave, Returned
<1>3. CASE DayTurns \/ HostDayTurns \/ MinuteTurns \/ Interrupt \/ UNCHANGED vars
  BY <1>3 DEF DayTurns, HostDayTurns, MinuteTurns, Interrupt, vars
<1> QED
  BY <1>1, <1>2, <1>3

LEMMA ScanStep ==
  ASSUME PositionsReported, TypeInv, ScanInv, [Next]_vars
  PROVE  ScanInv'
<1> USE DEF process, world, locals
<1>0. TypeOK
  BY DEF TypeInv
<1>1. CASE Quiet
  BY <1>1 DEF Quiet, ScanInv
<1>2. CASE StopFires
  <2>1. PICK id \in open : Settle(id, StopPnl(id))
    BY <1>2 DEF StopFires
  <2>2. /\ open' = open \ {id} /\ id \in Ids
        /\ trade'[id].times = trade[id].times
        /\ \A i \in Ids \ {id} : trade'[i] = trade[i]
    BY <1>0, <2>1, SettleType, StopPnlType
  <2>3. pc' = pc /\ lastKnown' = lastKnown
    BY <1>2 DEF StopFires
  <2>4. pc = "journal" => trade'[lastKnown].times = trade[lastKnown].times
    BY <2>2 DEF ScanInv
  <2> QED
    BY <2>2, <2>3, <2>4 DEF ScanInv
<1>3. CASE NoticeVanished
  <2> DEFINE reason == IF context # None /\ context THEN "BREAKEVEN_SL" ELSE "HARD_SL"
  <2>1. lastKnown \in Ids /\ stats.realized - prev \in Int
    BY <1>0, <1>3 DEF NoticeVanished, DailyStats, TypeOK
  <2>2. reason \in CloseReasons /\ RecordClose(lastKnown, stats.realized - prev, reason)
    BY <1>3 DEF NoticeVanished, CloseReasons
  <2>3. trade'[lastKnown].times = trade[lastKnown].times + 1
    BY <1>0, <2>1, <2>2, RecordCloseType
  <2>4. trade[lastKnown].times \in Nat
    BY <1>0, <2>1, FateTypes DEF Fates
  <2>5. open = {} /\ pc' = "journal" /\ UNCHANGED <<open, lastKnown>>
    BY <1>3, NoneReportedIsNone DEF NoticeVanished
  <2> QED
    BY <2>1, <2>3, <2>4, <2>5 DEF ScanInv
<1>4. CASE NoticeOpen
  BY <1>4 DEF NoticeOpen, ScanInv
<1>5. CASE Gate
  <2>1. open = {} /\ lastKnown = None
    BY <1>5, NoneReportedIsNone DEF Gate
  <2>2. pc' \in {"save", "cost"} /\ UNCHANGED <<open, lastKnown, trade>>
    BY <1>5 DEF Gate, Returned
  <2> QED
    BY <2>1, <2>2 DEF ScanInv
<1>6. CASE Close
  <2>1. /\ lastKnown \in Ids /\ trade'[lastKnown].times = trade[lastKnown].times + 1
        /\ trade[lastKnown].times \in Nat
    BY <1>0, <1>6, CloseType, FateTypes DEF Fates
  <2>2. /\ open' = open \ {lastKnown} /\ pc' = "journal" /\ UNCHANGED lastKnown
    BY <1>6 DEF Close
  <2> QED
    BY <2>1, <2>2 DEF ScanInv
<1>7. CASE OpenMarketOrder
  <2>1. open' = open \cup {FreshId} /\ lastKnown' = FreshId /\ pc' = "save"
    BY <1>0, <1>7, FilledType DEF OpenMarketOrder, Returned
  <2>2. open = {}
    BY <1>7 DEF OpenMarketOrder, ScanInv
  <2> QED
    BY <2>1, <2>2 DEF ScanInv
<1>8. CASE WriteJournalRow \/ Start
  BY <1>8 DEF WriteJournalRow, Start, Returned, ScanInv
<1>9. CASE ReplyLost
  <2>1. /\ pc' \in {"save", "down"} /\ UNCHANGED lastKnown
        /\ pc = "open" \/ open' \subseteq open
    <3>1. Raised /\ pc # "down"
      BY <1>9 DEF ReplyLost, Fault
    <3> QED
      BY <1>9, <3>1, EndingType DEF ReplyLost, Settle
  <2>2. pc = "open" => \A i, j \in open' : i = j
    <3> SUFFICES ASSUME pc = "open" PROVE \A i, j \in open' : i = j
      OBVIOUS
    <3>1. Filled /\ open = {}
      BY <1>9 DEF ReplyLost
    <3> QED
      BY <1>0, <3>1, FilledType
  <2> QED
    BY <2>1, <2>2 DEF ScanInv
<1> QED
  BY <1>1, <1>2, <1>3, <1>4, <1>5, <1>6, <1>7, <1>8, <1>9, Disjuncts, QuietSteps

LEMMA ScanAlways == PositionsReported => (Spec => [](TypeInv /\ ScanInv))
<1> SUFFICES ASSUME PositionsReported PROVE Spec => [](TypeInv /\ ScanInv)
  OBVIOUS
<1>1. Init => TypeInv /\ ScanInv
  BY TypeInit DEF Init, ScanInv
<1>2. TypeInv /\ ScanInv /\ [Next]_vars => (TypeInv /\ ScanInv)'
  BY TypeStep, ScanStep
<1> QED
  BY <1>1, <1>2, PTL DEF Spec

(* The bot never looks for an entry with a position open, through any      *)
(* failing calls, lost replies and restarts, unless the broker reports an  *)
(* open position missing.                                                  *)
THEOREM ScansOnlyWhenFlat == PositionsReported => (Spec => []NeverScansWithPosition)
<1> SUFFICES ASSUME PositionsReported PROVE Spec => []NeverScansWithPosition
  OBVIOUS
<1>1. ScanInv => NeverScansWithPosition
  BY DEF ScanInv, NeverScansWithPosition
<1> QED
  BY <1>1, ScanAlways, PTL

(* Nor does it stop tracking a position, or replace it by another, before  *)
(* its close is recorded.                                                  *)
THEOREM TrackedTillRecorded == PositionsReported => (Spec => TrackedUntilRecorded)
<1> SUFFICES ASSUME PositionsReported PROVE Spec => TrackedUntilRecorded
  OBVIOUS
<1>1. ASSUME TypeInv, ScanInv, Next, pc # "down", lastKnown # None,
             lastKnown' # lastKnown
      PROVE  lastKnown' = None /\ trade[lastKnown].times >= 1
  <2> USE DEF process, world, locals
  <2>1. ~Quiet /\ pc # "open"
    BY <1>1 DEF Quiet, ScanInv
  <2>2. WriteJournalRow \/ NoticeOpen
    BY <1>1, <2>1, Disjuncts, QuietSteps
       DEF StopFires, NoticeVanished, Gate, Close, OpenMarketOrder, ReplyLost, Start
  <2>3. CASE NoticeOpen
    BY <1>1, <2>3 DEF NoticeOpen, ScanInv
  <2>4. CASE WriteJournalRow
    BY <1>1, <2>4 DEF WriteJournalRow, ScanInv
  <2> QED
    BY <2>2, <2>3, <2>4
<1>2. TypeInv /\ ScanInv /\ [Next]_vars =>
        [pc # "down" /\ lastKnown # None /\ lastKnown' # lastKnown
           => lastKnown' = None /\ trade[lastKnown].times >= 1]_vars
  BY <1>1
<1> QED
  BY <1>2, ScanAlways, PTL DEF Spec, TrackedUntilRecorded

-----------------------------------------------------------------------------
(* The saved counters: the running ones are at most one close ahead, and   *)
(* only from the recording of that close to the next save.                 *)

SavedCount ==
  IF file # None /\ file.trading_day = stats.trading_day
    THEN file.trade_count ELSE 0

FileInv ==
  file # Corrupt =>
    stats.trade_count <=
      SavedCount + (IF pc \in {"journal", "save", "down"} THEN 1 ELSE 0)

(* A file that is not corrupt holds statistics. *)
LEMMA SavedType ==
  ASSUME TypeOK
  PROVE  /\ stats.trade_count \in Nat
         /\ file # Corrupt => SavedCount \in Nat
BY DEF TypeOK, SavedCount, DailyStats

LEMMA FileStep ==
  ASSUME TypeInv, FileInv, [Next]_vars
  PROVE  FileInv'
<1> USE DEF process, world, locals
<1>0. TypeOK /\ TypeOK'
  BY TypeStep DEF TypeInv
<1>1. /\ stats.trade_count \in Nat /\ stats'.trade_count \in Nat
      /\ file # Corrupt => SavedCount \in Nat
      /\ file' # Corrupt => SavedCount' \in Nat
  BY <1>0, SavedType DEF TypeOK, DailyStats, SavedCount
<1>2. CASE /\ UNCHANGED file /\ stats'.trading_day = stats.trading_day
           /\ stats'.trade_count = stats.trade_count
           /\ pc \in {"journal", "save", "down"} => pc' \in {"journal", "save", "down"}
  BY <1>1, <1>2 DEF FileInv, SavedCount
<1>3. CASE GetBars
  <2>1. stats' = stats \/ stats'.trade_count = 0
    BY <1>3 DEF GetBars, MaybeResetDailyStats, FreshStats
  <2>2. CASE stats' = stats
    BY <1>2, <1>3, <2>2 DEF GetBars
  <2>3. CASE stats'.trade_count = 0
    BY <1>1, <2>3 DEF FileInv
  <2> QED
    BY <2>1, <2>2, <2>3
<1>4. CASE NoticeVanished \/ Close
  <2>1. /\ UNCHANGED file /\ pc' = "journal" /\ pc \in {"positions", "close"}
        /\ \E pnl \in Int : stats' = RecordClosedTrade(stats, pnl)
    <3>1. stats.realized - prev \in Int /\ TpCash \in Int
      BY <1>0, ConfigAssumption DEF TypeOK, DailyStats
    <3> QED
      BY <1>4, <3>1 DEF NoticeVanished, RecordClose, Close
  <2>2. /\ stats'.trading_day = stats.trading_day
        /\ stats'.trade_count = stats.trade_count + 1
    BY <1>0, <2>1, RecordType DEF TypeOK
  <2> QED
    BY <1>1, <2>1, <2>2 DEF FileInv, SavedCount
<1>5. CASE GetTodayRealizedPnl
  <2>1. /\ stats'.trading_day = stats.trading_day
        /\ stats'.trade_count = stats.trade_count
    BY <1>0, <1>5 DEF GetTodayRealizedPnl, TypeOK, DailyStats
  <2> QED
    BY <1>2, <1>5, <2>1 DEF GetTodayRealizedPnl
<1>6. CASE SaveDailyStats \/ (Crash /\ file' = stats)
  <2>1. file' = stats /\ UNCHANGED stats
    BY <1>6 DEF SaveDailyStats, Crash
  <2>2. file' # None
    BY <1>0, <2>1, LiveAssumption DEF TypeOK
  <2> QED
    BY <1>1, <2>1, <2>2 DEF FileInv, SavedCount
<1>7. CASE Crash /\ file' # stats
  <2>1. /\ UNCHANGED stats /\ pc' = "down" /\ file' \in {file, Corrupt}
    BY <1>7 DEF Crash
  <2> QED
    BY <1>1, <2>1 DEF FileInv, SavedCount
<1>8. CASE Start
  <2>1. /\ UNCHANGED file
        /\ \/ file # None /\ file # Corrupt /\ stats' = file
           \/ stats'.trade_count = 0
    BY <1>8 DEF Start, LoadDailyStats, FreshStats
  <2> QED
    BY <1>1, <2>1 DEF FileInv, SavedCount
<1>9. CASE CallRaises \/ JournalRaises \/ OrderRefused \/ ReplyLost
  <2>1. UNCHANGED <<stats, file>>
    BY <1>9 DEF CallRaises, JournalRaises, OrderRefused, ReplyLost
  <2>2. Raised /\ pc # "down"
    BY <1>9 DEF CallRaises, JournalRaises, OrderRefused, ReplyLost, Fault, Calls
  <2>3. pc' \in {"save", "down"}
    BY <2>2, EndingType
  <2> QED
    BY <1>2, <2>1, <2>3
<1>10. CASE \/ StopFires \/ NoticeOpen \/ Gate \/ OpenMarketOrder \/ WriteJournalRow
            \/ DayTurns \/ GetNoBars \/ LookForEntry \/ Mark \/ Modify \/ Leave
            \/ HostDayTurns \/ MinuteTurns \/ Interrupt \/ UNCHANGED vars
  BY <1>2, <1>10
     DEF StopFires, NoticeOpen, Gate, OpenMarketOrder, WriteJournalRow, DayTurns,
         GetNoBars, LookForEntry, Mark, Modify, Leave, HostDayTurns, MinuteTurns,
         Interrupt, Returned, vars
<1> QED
  BY <1>3, <1>4, <1>5, <1>6, <1>7, <1>8, <1>9, <1>10, Disjuncts

(* A restart on the same date forgets at most one close, wherever in an    *)
(* iteration the process ended, unless the file was torn.                  *)
THEOREM RestartsForgetOne == Spec => RestartForgetsAtMostOne
<1>1. Init => TypeInv /\ FileInv
  <2> SUFFICES ASSUME Init PROVE TypeInv /\ FileInv
    OBVIOUS
  <2> QED
    BY TypeInit DEF Init, FileInv, SavedCount, FreshStats
<1>2. TypeInv /\ FileInv /\ [Next]_vars => (TypeInv /\ FileInv)'
  BY TypeStep, FileStep
<1>3. ASSUME TypeInv, FileInv, Next, pc = "down", pc' = "bars",
             stats.trading_day = hostDay, file # Corrupt
      PROVE  stats'.trade_count >= stats.trade_count - 1
  <2>1. Start
    BY <1>3, Disjuncts
       DEF StopFires, NoticeVanished, NoticeOpen, Gate, Close, OpenMarketOrder,
           WriteJournalRow, ReplyLost, DayTurns, GetBars, GetNoBars,
           GetTodayRealizedPnl, SaveDailyStats, Crash, LookForEntry, CallRaises,
           JournalRaises, OrderRefused, Mark, Modify, Leave, HostDayTurns,
           MinuteTurns, Interrupt, Calls
  <2>2. stats'.trade_count = SavedCount
    BY <1>3, <2>1 DEF Start, LoadDailyStats, SavedCount, FreshStats
  <2>3. stats.trade_count \in Nat /\ SavedCount \in Nat
    BY <1>3, SavedType DEF TypeInv
  <2> QED
    BY <1>3, <2>2, <2>3 DEF FileInv
<1>4. TypeInv /\ FileInv /\ [Next]_vars =>
        [pc = "down" /\ pc' = "bars" /\ stats.trading_day = hostDay
           /\ file # Corrupt
           => stats'.trade_count >= stats.trade_count - 1]_vars
  BY <1>3
<1> QED
  BY <1>1, <1>2, <1>4, PTL DEF Spec, RestartForgetsAtMostOne

-----------------------------------------------------------------------------
(* One process whose broker answers truly: what follows is false otherwise *)
(* (the runs that expect a violation show how).  Any other call may still  *)
(* raise, any number of times up to the bound on errors.                   *)

Truthful ==
  /\ "journal" \notin Faults /\ ~LostReplies
  /\ "bars" \notin Swallowed /\ "positions" \notin Swallowed
  /\ MaxStops = 0

(* Before the process starts nothing has happened.                         *)
LifeInv ==
  pc = "down" /\ stops = 0 =>
    /\ file = None /\ lastKnown = None /\ open = {}
    /\ stats.trade_count = 0 /\ stats.losses = 0
    /\ \A i \in Ids : trade[i].status = "none"

(* The trade that is not recorded yet is the tracked one.                  *)
FateInv ==
  /\ \A i \in Ids :
       /\ i \in open <=> trade[i].status = "open"
       /\ trade[i].times <= 1 /\ (i \in open => trade[i].times = 0)
       /\ trade[i].status # "none" => trade[i].opened <= day
       /\ pc # "down" /\ trade[i].status # "none" /\ trade[i].times = 0
            => lastKnown = i
  /\ lastKnown # None /\ pc \notin {"journal", "down"}
       => trade[lastKnown].times = 0

BookInv == TypeInv /\ ScanInv /\ LifeInv /\ FateInv

(* The calls and faults such a process is spared.                          *)
LEMMA Spared ==
  ASSUME Truthful, TypeOK
  PROVE  /\ ~JournalRaises /\ ~ReplyLost /\ ~GetNoBars /\ ~Crash /\ ~Interrupt
         /\ Start => pc = "down" /\ stops = 0
BY DEF Truthful, JournalRaises, ReplyLost, GetNoBars, Crash, Interrupt, Start,
       Fault, Swallows, TypeOK

LEMMA LifeStep ==
  ASSUME Truthful, BookInv, [Next]_vars
  PROVE  LifeInv'
<1> USE DEF BookInv, process, world, locals
<1>0. TypeOK /\ stops \in Nat
  BY DEF TypeInv, TypeOK
<1>1. CASE Quiet
  BY <1>0, <1>1 DEF Quiet, LifeInv
<1>2. CASE StopFires
  BY <1>2 DEF StopFires, LifeInv
<1>3. CASE \/ NoticeVanished \/ NoticeOpen \/ Gate \/ Close \/ OpenMarketOrder
           \/ WriteJournalRow \/ Start
  BY <1>3 DEF NoticeVanished, NoticeOpen, Gate, Close, OpenMarketOrder,
              WriteJournalRow, Start, Returned, LifeInv
<1> QED
  BY <1>0, <1>1, <1>2, <1>3, Spared, Disjuncts, QuietSteps

LEMMA FateStep ==
  ASSUME Truthful, BookInv, [Next]_vars
  PROVE  FateInv'
<1> USE DEF BookInv, process, world, locals
<1>0. /\ TypeOK /\ PositionsReported /\ None \notin Ids
      /\ \A i \in Ids : trade[i].times \in Nat /\ trade[i].opened \in Int
      /\ day \in Int
  <2>1. TypeOK /\ PositionsReported /\ None \notin Ids
    BY LiveAssumption DEF TypeInv, Truthful, PositionsReported
  <2>2. day \in Int /\ Days \subseteq Int
    BY <2>1 DEF TypeOK, Days
  <2> QED
    BY <2>1, <2>2, FateTypes DEF Fates
<1>1. CASE Quiet /\ (pc = "journal" => pc' \in {"journal", "down"})
  <2>1. \A i \in Ids : trade[i].opened <= day => trade[i].opened <= day'
    BY <1>0, <1>1 DEF Quiet
  <2> QED
    BY <1>1, <2>1 DEF Quiet, FateInv
<1>2. CASE StopFires
  <2>1. PICK id \in open : Settle(id, StopPnl(id))
    BY <1>2 DEF StopFires
  <2>2. /\ open' = open \ {id} /\ id \in Ids
        /\ trade'[id].status = "closed" /\ trade'[id].times = trade[id].times
        /\ trade'[id].opened = trade[id].opened
        /\ \A i \in Ids \ {id} : trade'[i] = trade[i]
        /\ day' = day
    BY <1>0, <2>1, SettleType, StopPnlType
  <2>3. pc' = pc /\ lastKnown' = lastKnown
    BY <1>2 DEF StopFires
  <2>4. lastKnown # None => lastKnown \in Ids
    BY <1>0 DEF TypeOK
  <2> QED
    BY <2>2, <2>3, <2>4 DEF FateInv
<1>3. CASE NoticeVanished
  <2> DEFINE reason == IF context # None /\ context THEN "BREAKEVEN_SL" ELSE "HARD_SL"
  <2>1. lastKnown \in Ids /\ stats.realized - prev \in Int
    BY <1>0, <1>3 DEF NoticeVanished, DailyStats, TypeOK
  <2>2. reason \in CloseReasons /\ RecordClose(lastKnown, stats.realized - prev, reason)
    BY <1>3 DEF NoticeVanished, CloseReasons
  <2>3. /\ trade'[lastKnown].times = trade[lastKnown].times + 1
        /\ trade'[lastKnown].status = trade[lastKnown].status
        /\ trade'[lastKnown].opened = trade[lastKnown].opened
        /\ \A i \in Ids \ {lastKnown} : trade'[i] = trade[i]
    BY <1>0, <2>1, <2>2, RecordCloseType
  <2>4. /\ open = {} /\ pc = "positions" /\ pc' = "journal"
        /\ UNCHANGED <<open, lastKnown, day>>
    BY <1>0, <1>3, NoneReportedIsNone DEF NoticeVanished
  <2>5. trade[lastKnown].times = 0
    BY <1>0, <2>1, <2>4 DEF FateInv
  <2> QED
    BY <1>0, <2>1, <2>3, <2>4, <2>5 DEF FateInv
<1>4. CASE NoticeOpen
  <2>1. /\ lastKnown' \in open /\ pc = "positions" /\ pc' = "mark"
        /\ UNCHANGED <<open, trade, day>> /\ lastKnown' \in Ids
    BY <1>0, <1>4 DEF NoticeOpen, TypeOK
  <2>2. lastKnown' = lastKnown
    BY <2>1 DEF FateInv
  <2> QED
    BY <2>1, <2>2 DEF FateInv
<1>5. CASE Gate
  BY <1>5 DEF Gate, Returned, FateInv
<1>6. CASE Close
  <2>1. /\ lastKnown \in Ids
        /\ trade'[lastKnown].times = trade[lastKnown].times + 1
        /\ trade'[lastKnown].status = "closed"
        /\ trade'[lastKnown].opened = trade[lastKnown].opened
        /\ \A i \in Ids \ {lastKnown} : trade'[i] = trade[i]
    BY <1>0, <1>6, CloseType
  <2>2. /\ open' = open \ {lastKnown} /\ lastKnown \in open
        /\ pc = "close" /\ pc' = "journal" /\ UNCHANGED <<lastKnown, day>>
    BY <1>6 DEF Close
  <2>3. trade[lastKnown].times = 0 /\ trade[lastKnown].status = "open"
    BY <2>1, <2>2 DEF FateInv
  <2> QED
    BY <1>0, <2>1, <2>2, <2>3 DEF FateInv
<1>7. CASE OpenMarketOrder
  <2>1. /\ FreshId \in Ids /\ open' = open \cup {FreshId}
        /\ trade'[FreshId].status = "open" /\ trade'[FreshId].opened = day
        /\ trade'[FreshId].times = 0 /\ day' = day
        /\ \A i \in Ids \ {FreshId} : trade'[i] = trade[i]
    BY <1>0, <1>7, FilledType DEF OpenMarketOrder
  <2>2. /\ pc = "open" /\ pc' = "save" /\ lastKnown' = FreshId
        /\ open = {} /\ lastKnown = None
    BY <1>7 DEF OpenMarketOrder, Returned, ScanInv
  <2> QED
    BY <1>0, <2>1, <2>2 DEF FateInv
<1>8. CASE WriteJournalRow
  <2>1. /\ pc = "journal" /\ pc' = "save" /\ lastKnown' = None
        /\ UNCHANGED <<open, trade, day>>
    BY <1>8 DEF WriteJournalRow, Returned
  <2>2. lastKnown \in Ids /\ trade[lastKnown].times >= 1
    BY <2>1 DEF ScanInv
  <2> QED
    BY <1>0, <2>1, <2>2 DEF FateInv
<1>9. CASE Start
  <2>1. /\ pc = "down" /\ stops = 0 /\ lastKnown' = None /\ UNCHANGED <<open, trade, day>>
    BY <1>0, <1>9, Spared DEF Start
  <2> QED
    BY <2>1 DEF LifeInv, FateInv
<1> QED
  BY <1>0, <1>1, <1>2, <1>3, <1>4, <1>5, <1>6, <1>7, <1>8, <1>9, Spared,
     Disjuncts, QuietSteps

LEMMA BookStep ==
  ASSUME Truthful, BookInv, [Next]_vars
  PROVE  BookInv'
BY TypeStep, ScanStep, LifeStep, FateStep DEF BookInv, Truthful, PositionsReported

LEMMA BookInit == Init => BookInv
BY TypeInit DEF Init, BookInv, ScanInv, LifeInv, FateInv, FreshStats, NewTrade

(* The daily guard counts every close once: none is counted twice, and a   *)
(* trade that is over but not counted is still tracked.                    *)
THEOREM ClosesRecordedOnce == Truthful => (Spec => []RecordedOnceOrTracked)
<1> SUFFICES ASSUME Truthful PROVE Spec => []RecordedOnceOrTracked
  OBVIOUS
<1>1. BookInv => RecordedOnceOrTracked
  BY DEF BookInv, FateInv, RecordedOnceOrTracked, RecordedAtMostOnce,
         ClosedIsRecordedOrTracked
<1>2. BookInv /\ [Next]_vars => BookInv'
  BY BookStep
<1> QED
  BY <1>1, <1>2, BookInit, PTL DEF Spec

-----------------------------------------------------------------------------
(* The counters against the exchange's calendar: every entry of the        *)
(* current date is counted or tracked, except that counters of another     *)
(* date, which midnight leaves behind in the middle of an iteration, know  *)
(* at most the entry that ends it.                                         *)

EnteredToday == {i \in Ids : trade[i].status # "none" /\ trade[i].opened = day}

CountInv ==
  /\ Cardinality(EnteredToday) <= MaxTrades
  /\ stats.trading_day = day =>
       Cardinality(EnteredToday) <=
         stats.trade_count + (IF lastKnown # None /\ pc # "journal" THEN 1 ELSE 0)
  /\ stats.trading_day # day =>
       Cardinality(EnteredToday) <=
         (IF lastKnown # None /\ pc \in {"save", "bars", "down"} THEN 1 ELSE 0)
  /\ pc \in {"cost", "open"} => TradingAllowed(stats)

LEMMA CountTypes ==
  ASSUME NEW S, S \subseteq Ids
  PROVE  IsFiniteSet(S) /\ Cardinality(S) \in Nat
<1>1. IsFiniteSet(Ids)
  BY FS_Interval, LiveAssumption DEF Ids
<1>2. IsFiniteSet(S)
  BY <1>1, FS_Subset
<1> QED
  BY <1>2, FS_CardinalityType

LEMMA CountStep ==
  ASSUME Truthful, BookInv, CountInv, [Next]_vars
  PROVE  CountInv'
<1> USE DEF BookInv, process, world, locals
<1>0. TypeOK /\ TypeOK' /\ PositionsReported /\ None \notin Ids
  BY TypeStep, LiveAssumption DEF TypeInv, Truthful, PositionsReported
<1> DEFINE n == Cardinality(EnteredToday)
<1>c. /\ n \in Nat /\ n' \in Nat /\ IsFiniteSet(EnteredToday)
      /\ stats.trade_count \in Nat /\ stats'.trade_count \in Nat
      /\ MaxTrades \in Nat /\ MaxTrades >= 1
  <2>1. EnteredToday \subseteq Ids /\ EnteredToday' \subseteq Ids
    BY DEF EnteredToday
  <2>2. n \in Nat /\ n' \in Nat /\ IsFiniteSet(EnteredToday)
    BY <2>1, CountTypes
  <2>3. stats.trade_count \in Nat /\ stats'.trade_count \in Nat
    BY <1>0 DEF TypeOK, DailyStats
  <2> QED
    BY <2>2, <2>3, ConfigAssumption
<1>1. CASE UNCHANGED <<day, trade, stats, lastKnown>>
           /\ (pc' \in {"cost", "open"} => TradingAllowed(stats))
           /\ (pc' = "journal" <=> pc = "journal")
           /\ (pc \in {"save", "bars", "down"} => pc' \in {"save", "bars", "down"})
  <2>1. EnteredToday' = EnteredToday
    BY <1>1 DEF EnteredToday
  <2> QED
    BY <1>c, <1>1, <2>1 DEF CountInv
<1>2. CASE StopFires
  <2>1. PICK id \in open : Settle(id, StopPnl(id))
    BY <1>2 DEF StopFires
  <2>2. /\ trade'[id].status = "closed" /\ trade'[id].opened = trade[id].opened
        /\ \A i \in Ids \ {id} : trade'[i] = trade[i]
        /\ day' = day /\ id \in Ids
    BY <1>0, <2>1, SettleType, StopPnlType
  <2>3. trade[id].status = "open"
    BY <2>1, <2>2 DEF FateInv
  <2>4. EnteredToday' = EnteredToday
    BY <2>2, <2>3 DEF EnteredToday
  <2>5. UNCHANGED <<pc, lastKnown, stats>>
    BY <1>2 DEF StopFires
  <2> QED
    BY <2>2, <2>4, <2>5 DEF CountInv
<1>3. CASE DayTurns
  <2>1. /\ day' = day + 1 /\ day \in Int
        /\ UNCHANGED <<pc, trade, stats, lastKnown>>
        /\ \A i \in Ids : trade[i].opened \in Int
    <3>1. day \in Int /\ Days \subseteq Int
      BY <1>0 DEF TypeOK, Days
    <3> QED
      BY <1>0, <1>3, <3>1, FateTypes DEF DayTurns, Fates
  <2>2. EnteredToday' = {}
    BY <2>1 DEF FateInv, EnteredToday
  <2>3. n' = 0
    BY <2>2, FS_EmptySet
  <2> QED
    BY <1>c, <2>1, <2>3 DEF CountInv
<1>4. CASE GetBars
  <2>1. /\ pc = "bars" /\ pc' = "pnl" /\ UNCHANGED <<trade, day, lastKnown>>
        /\ stats' = MaybeResetDailyStats(stats, day)
    BY <1>4 DEF GetBars
  <2>2. EnteredToday' = EnteredToday
    BY <2>1 DEF EnteredToday
  <2>3. stats'.trading_day = day
    BY <1>0, <2>1, ResetType DEF TypeOK
  <2>4. CASE stats.trading_day = day
    BY <1>c, <2>1, <2>2, <2>3, <2>4 DEF MaybeResetDailyStats, CountInv
  <2>5. CASE stats.trading_day # day
    <3>1. stats'.trade_count = 0
      BY <2>1, <2>5 DEF MaybeResetDailyStats, FreshStats
    <3> QED
      BY <1>c, <2>1, <2>2, <2>3, <2>5, <3>1 DEF CountInv
  <2> QED
    BY <2>4, <2>5
<1>5. CASE NoticeVanished \/ Close
  <2>1. /\ lastKnown \in Ids /\ pc' = "journal" /\ UNCHANGED <<lastKnown, day>>
        /\ pc \in {"positions", "close"}
        /\ stats'.trading_day = stats.trading_day
        /\ stats'.trade_count = stats.trade_count + 1
        /\ \A i \in Ids : /\ trade'[i].opened = trade[i].opened
                          /\ (trade'[i].status = "none") = (trade[i].status = "none")
    <3>1. CASE NoticeVanished
      <4> DEFINE reason == IF context # None /\ context THEN "BREAKEVEN_SL" ELSE "HARD_SL"
      <4>1. lastKnown \in Ids /\ stats.realized - prev \in Int
        BY <1>0, <3>1 DEF NoticeVanished, DailyStats, TypeOK
      <4>2. reason \in CloseReasons /\ RecordClose(lastKnown, stats.realized - prev, reason)
        BY <3>1 DEF NoticeVanished, CloseReasons
      <4>3. /\ stats' = RecordClosedTrade(stats, stats.realized - prev)
            /\ trade'[lastKnown].status = trade[lastKnown].status
            /\ trade'[lastKnown].opened = trade[lastKnown].opened
            /\ \A i \in Ids \ {lastKnown} : trade'[i] = trade[i]
        BY <1>0, <4>1, <4>2, RecordCloseType
      <4>4. /\ stats'.trading_day = stats.trading_day
            /\ stats'.trade_count = stats.trade_count + 1
        BY <1>0, <4>1, <4>3, RecordType DEF TypeOK
      <4> QED
        BY <3>1, <4>1, <4>3, <4>4 DEF NoticeVanished
    <3>2. CASE Close
      <4>1. /\ stats'.trading_day = stats.trading_day
            /\ stats'.trade_count = stats.trade_count + 1
        BY <1>0, <3>2, RecordType, ConfigAssumption DEF TypeOK, Close
      <4>2. /\ lastKnown \in Ids /\ trade'[lastKnown].status = "closed"
            /\ trade'[lastKnown].opened = trade[lastKnown].opened
            /\ \A i \in Ids \ {lastKnown} : trade'[i] = trade[i]
        BY <1>0, <3>2, CloseType
      <4>3. trade[lastKnown].status = "open"
        BY <3>2, <4>2 DEF Close, FateInv
      <4> QED
        BY <3>2, <4>1, <4>2, <4>3 DEF Close
    <3> QED
      BY <1>5, <3>1, <3>2
  <2>2. EnteredToday' = EnteredToday
    BY <2>1 DEF EnteredToday
  <2> QED
    BY <1>0, <1>c, <2>1, <2>2 DEF CountInv
<1>6. CASE NoticeOpen
  <2>1. /\ pc = "positions" /\ pc' = "mark" /\ lastKnown' # None
        /\ UNCHANGED <<trade, day, stats>>
    BY <1>0, <1>6 DEF NoticeOpen, TypeOK
  <2>2. EnteredToday' = EnteredToday
    BY <2>1 DEF EnteredToday
  <2> QED
    BY <1>c, <2>1, <2>2 DEF CountInv
<1>7. CASE OpenMarketOrder
  <2>1. /\ FreshId \in Ids /\ day' = day
        /\ \A i \in Ids \ {FreshId} : trade'[i] = trade[i]
    BY <1>0, <1>7, FilledType DEF OpenMarketOrder
  <2>2. /\ pc = "open" /\ pc' = "save" /\ lastKnown' # None
        /\ lastKnown = None /\ stats' = stats
    BY <1>0, <1>7, <2>1 DEF OpenMarketOrder, Returned, ScanInv
  <2>3. EnteredToday' \subseteq EnteredToday \cup {FreshId}
    BY <2>1 DEF EnteredToday
  <2>4. n' <= n + 1
    <3>1. /\ IsFiniteSet(EnteredToday \cup {FreshId})
          /\ Cardinality(EnteredToday \cup {FreshId}) \in {n, n + 1}
      BY <1>c, FS_AddElement
    <3>2. n' <= Cardinality(EnteredToday \cup {FreshId})
      BY <2>3, <3>1, FS_Subset
    <3> QED
      BY <1>c, <3>1, <3>2
  <2>5. stats.trade_count < MaxTrades
    BY <2>2 DEF CountInv, TradingAllowed
  <2> QED
    BY <1>c, <2>1, <2>2, <2>4, <2>5 DEF CountInv
<1>8. CASE WriteJournalRow
  <2>1. /\ pc = "journal" /\ pc' = "save" /\ lastKnown' = None
        /\ UNCHANGED <<trade, day, stats>>
    BY <1>8 DEF WriteJournalRow, Returned
  <2>2. EnteredToday' = EnteredToday
    BY <2>1 DEF EnteredToday
  <2> QED
    BY <1>c, <2>1, <2>2 DEF CountInv
<1>9. CASE Start
  <2>1. pc = "down" /\ stops = 0 /\ UNCHANGED <<trade, day>> /\ pc' = "bars"
    BY <1>0, <1>9, Spared DEF Start
  <2>2. EnteredToday' = {}
    BY <2>1 DEF LifeInv, EnteredToday
  <2>3. n' = 0
    BY <2>2, FS_EmptySet
  <2> QED
    BY <1>c, <2>1, <2>3 DEF CountInv
<1>10. CASE GetTodayRealizedPnl
  <2>1. /\ pc = "pnl" /\ pc' = "positions" /\ UNCHANGED <<trade, day, lastKnown>>
        /\ stats'.trading_day = stats.trading_day
        /\ stats'.trade_count = stats.trade_count
    BY <1>0, <1>10 DEF GetTodayRealizedPnl, TypeOK, DailyStats
  <2>2. EnteredToday' = EnteredToday
    BY <2>1 DEF EnteredToday
  <2> QED
    BY <1>c, <2>1, <2>2 DEF CountInv
<1>11. CASE CallRaises \/ OrderRefused
  <2>1. Raised /\ pc \in Calls \ {"journal"}
    BY <1>11 DEF CallRaises, OrderRefused, Fault, Calls
  <2>2. pc' \in {"save", "down"} /\ pc \notin {"journal", "down"}
    BY <2>1, EndingType DEF Calls
  <2> QED
    BY <1>1, <1>11, <2>2 DEF CallRaises, OrderRefused
<1>12. CASE \/ SaveDailyStats \/ LookForEntry \/ Gate \/ Mark \/ Modify \/ Leave
            \/ HostDayTurns \/ MinuteTurns \/ UNCHANGED vars
  BY <1>1, <1>12
     DEF SaveDailyStats, LookForEntry, Gate, Mark, Modify, Leave, HostDayTurns,
         MinuteTurns, Returned, vars, CountInv
<1> QED
  BY <1>0, <1>2, <1>3, <1>4, <1>5, <1>6, <1>7, <1>8, <1>9, <1>10, <1>11, <1>12,
     Spared, Disjuncts

LEMMA CountInit == Init => CountInv
<1> SUFFICES ASSUME Init PROVE CountInv
  OBVIOUS
<1>1. EnteredToday = {}
  BY DEF Init, NewTrade, EnteredToday
<1>2. Cardinality(EnteredToday) = 0
  BY <1>1, FS_EmptySet
<1> QED
  BY <1>2, ConfigAssumption DEF Init, CountInv, FreshStats

LEMMA CountAlways == Truthful => (Spec => [](BookInv /\ CountInv))
<1> SUFFICES ASSUME Truthful PROVE Spec => [](BookInv /\ CountInv)
  OBVIOUS
<1>1. BookInv /\ CountInv /\ [Next]_vars => (BookInv /\ CountInv)'
  BY BookStep, CountStep
<1> QED
  BY <1>1, BookInit, CountInit, PTL DEF Spec

(* No calendar day of the exchange sees more entries than the daily limit, *)
(* wherever in an iteration midnight falls and whichever call raises.      *)
THEOREM EntriesBoundedByDay == Truthful => (Spec => []EntriesWithinDailyLimit)
<1> SUFFICES ASSUME Truthful PROVE Spec => []EntriesWithinDailyLimit
  OBVIOUS
<1>1. CountInv => EntriesWithinDailyLimit
  <2>1. {i \in Used : trade[i].opened = day} = EnteredToday
    BY DEF Used, EnteredToday
  <2> QED
    BY <2>1 DEF CountInv, EntriesWithinDailyLimit
<1> QED
  BY <1>1, CountAlways, PTL

-----------------------------------------------------------------------------
(* The figure the guard reads is still the exchange's own when an order is *)
(* sent: with nothing tracked nothing is open, so no stop can change it,   *)
(* and a midnight in between makes it a figure of another date.            *)

LossInv ==
  /\ pc \notin {"save", "bars", "down"} => stats.trading_day <= day
  /\ pc \in {"positions", "cost", "open"} /\ lastKnown = None
       /\ stats.trading_day = day => stats.realized = dayPnl

LEMMA LossStep ==
  ASSUME Truthful, "pnl" \notin Swallowed, BookInv, LossInv, [Next]_vars
  PROVE  LossInv'
<1> USE DEF BookInv, process, world, locals
<1>0. /\ TypeOK /\ PositionsReported /\ None \notin Ids
      /\ stats.trading_day \in Int /\ day \in Int
  <2>1. TypeOK /\ PositionsReported /\ None \notin Ids
    BY LiveAssumption DEF TypeInv, Truthful, PositionsReported
  <2>2. Days \subseteq Int
    BY DEF Days
  <2> QED
    BY <2>1, <2>2 DEF TypeOK, DailyStats
<1>1. CASE pc' \in {"save", "bars", "down"}
  BY <1>1 DEF LossInv
<1>2. CASE StopFires
  <2>1. PICK id \in open : Settle(id, StopPnl(id))
    BY <1>2 DEF StopFires
  <2>2. pc # "down" => lastKnown = id
    BY <1>0, <2>1 DEF FateInv, TypeOK
  <2>3. UNCHANGED <<pc, stats, lastKnown, day>>
    BY <1>2 DEF StopFires, Settle
  <2>4. id # None
    BY <1>0, <2>1 DEF TypeOK
  <2> QED
    BY <2>2, <2>3, <2>4 DEF LossInv
<1>3. CASE DayTurns
  BY <1>0, <1>3 DEF DayTurns, LossInv
<1>4. CASE GetBars
  <2>1. stats'.trading_day = day /\ day' = day /\ pc' = "pnl"
    BY <1>0, <1>4, ResetType DEF TypeOK, GetBars
  <2> QED
    BY <1>0, <2>1 DEF LossInv
<1>5. CASE GetTodayRealizedPnl
  <2>1. /\ pc = "pnl" /\ stats' = [stats EXCEPT !.realized = dayPnl]
        /\ UNCHANGED <<day, dayPnl, lastKnown>>
    BY <1>5 DEF GetTodayRealizedPnl, Swallows
  <2>2. stats'.realized = dayPnl /\ stats'.trading_day = stats.trading_day
    BY <1>0, <2>1 DEF TypeOK, DailyStats
  <2> QED
    BY <2>1, <2>2 DEF LossInv
<1>6. CASE NoticeVanished \/ Close
  <2>1. /\ pc \in {"positions", "close"} /\ pc' = "journal" /\ day' = day
        /\ \E pnl \in Int : stats' = RecordClosedTrade(stats, pnl)
    <3>1. stats.realized - prev \in Int /\ TpCash \in Int
      BY <1>0, ConfigAssumption DEF TypeOK, DailyStats
    <3> QED
      BY <1>6, <3>1 DEF NoticeVanished, RecordClose, Close
  <2>2. stats'.trading_day = stats.trading_day
    BY <1>0, <2>1, RecordType, ZenonT(60) DEF TypeOK
  <2> QED
    BY <2>1, <2>2 DEF LossInv
<1>7. CASE \/ NoticeOpen \/ Gate \/ LookForEntry \/ Mark
           \/ HostDayTurns \/ MinuteTurns \/ UNCHANGED vars
  BY <1>1, <1>7 DEF NoticeOpen, Gate, LookForEntry, Mark, HostDayTurns, MinuteTurns,
              Returned, LossInv, vars
<1>8. CASE CallRaises \/ OrderRefused
  <2>1. Raised /\ pc # "down"
    BY <1>8 DEF CallRaises, OrderRefused, Fault, Calls
  <2> QED
    BY <1>1, <2>1, EndingType
<1>9. CASE \/ Modify \/ OpenMarketOrder \/ WriteJournalRow \/ SaveDailyStats
           \/ Leave \/ Start
  BY <1>1, <1>9 DEF Modify, OpenMarketOrder, WriteJournalRow, SaveDailyStats,
                    Leave, Start, Returned
<1> QED
  BY <1>0, <1>2, <1>3, <1>4, <1>5, <1>6, <1>7, <1>8, <1>9, Spared, Disjuncts

(* No order is filled at or past a loss or profit limit of the exchange's  *)
(* own P&L of the day.                                                     *)
THEOREM NoEntryPastLoss ==
  Truthful /\ "pnl" \notin Swallowed => (Spec => EntryWithinLossLimit)
<1> SUFFICES ASSUME Truthful, "pnl" \notin Swallowed
             PROVE  Spec => EntryWithinLossLimit
  OBVIOUS
<1>1. Init => LossInv
  BY DEF Init, LossInv
<1>2. BookInv /\ LossInv /\ [Next]_vars => LossInv'
  BY LossStep
<1>3. ASSUME BookInv, CountInv, LossInv, Next, NEW i \in Ids, i \in open' \ open,
             day = stats.trading_day
      PROVE  dayPnl > MaxLoss /\ dayPnl < ProfitTarget
  <2>1. OpenMarketOrder
    BY <1>3, Disjuncts, QuietSteps, Spared
       DEF Quiet, StopFires, Settle, NoticeVanished, NoticeOpen, Gate, Close,
           WriteJournalRow, Start, BookInv, TypeInv, world
  <2>2. pc = "open" /\ lastKnown = None
    BY <1>3, <2>1 DEF OpenMarketOrder, BookInv, ScanInv
  <2> QED
    BY <1>3, <2>2 DEF LossInv, CountInv, TradingAllowed
<1>4. BookInv /\ CountInv /\ LossInv /\ [Next]_vars =>
        [\A i \in Ids : i \in open' \ open /\ day = stats.trading_day
           => dayPnl > MaxLoss /\ dayPnl < ProfitTarget]_vars
  BY <1>3
<1> QED
  BY <1>1, <1>2, <1>4, CountAlways, PTL DEF Spec, EntryWithinLossLimit

-----------------------------------------------------------------------------
(* Refinement: the recording of a close settles the tracked trade, a fill  *)
(* opens one, fetching the bars or starting the process sets the date, and *)
(* every other step is a stutter of the desk.                              *)

LEMMA DeskStep ==
  ASSUME Truthful, BookInv, CountInv, [Next]_vars
  PROVE  [Desk!DeskNext]_(Desk!deskVars)
<1> USE DEF BookInv, process, world, locals
<1>0. /\ TypeOK /\ PositionsReported /\ None \notin Ids
      /\ stats \in DailyStats(Days) /\ stats.trading_day \in Days
      /\ stats.trade_count \in Nat /\ stats.losses \in Nat
      /\ day \in Days /\ hostDay \in Days
  <2>1. TypeOK /\ PositionsReported /\ None \notin Ids
    BY LiveAssumption DEF TypeInv, Truthful, PositionsReported
  <2> QED
    BY <2>1 DEF TypeOK, DailyStats
<1>1. CASE /\ UNCHANGED lastKnown
           /\ stats'.trading_day = stats.trading_day
           /\ stats'.trade_count = stats.trade_count
           /\ stats'.losses = stats.losses
           /\ (pc' = "journal" <=> pc = "journal") \/ lastKnown = None
  BY <1>1 DEF Desk!deskVars
<1>2. CASE GetBars
  <2>1. /\ pc = "bars" /\ pc' = "pnl" /\ UNCHANGED lastKnown
        /\ stats' = MaybeResetDailyStats(stats, day)
    BY <1>2 DEF GetBars
  <2>2. stats'.trading_day = day
    BY <1>0, <2>1, ResetType
  <2>3. /\ stats'.trade_count = Desk!SettledOn(day)
        /\ stats'.losses = Desk!StreakOn(day)
    BY <2>1 DEF MaybeResetDailyStats, FreshStats, Desk!SettledOn, Desk!StreakOn
  <2>4. Desk!Idle(day)
    BY <2>1, <2>3 DEF Desk!Idle
  <2> QED
    BY <1>0, <2>2, <2>4 DEF Desk!DeskNext
<1>3. CASE NoticeVanished \/ Close
  <2>1. /\ pc \in {"positions", "close"} /\ pc' = "journal"
        /\ lastKnown # None /\ UNCHANGED lastKnown
        /\ \E pnl \in Int : stats' = RecordClosedTrade(stats, pnl)
    <3>1. stats.realized - prev \in Int /\ TpCash \in Int
      BY <1>0, ConfigAssumption DEF TypeOK, DailyStats
    <3>2. open \subseteq Ids
      BY <1>0 DEF TypeOK
    <3> QED
      BY <1>0, <1>3, <3>1, <3>2 DEF NoticeVanished, RecordClose, Close
  <2>2. PICK pnl \in Int : stats' = RecordClosedTrade(stats, pnl)
    BY <2>1
  <2>3. /\ stats'.trading_day = stats.trading_day
        /\ stats'.trade_count = stats.trade_count + 1
        /\ stats'.losses = StreakAfter(stats.losses, pnl)
    BY <1>0, <2>2, RecordType
  <2>4. Desk!Settle(stats.trading_day)
    BY <1>0, <2>1, <2>3
       DEF Desk!Settle, Desk!SettledOn, Desk!StreakOn, StreakAfter
  <2> QED
    BY <1>0, <2>3, <2>4 DEF Desk!DeskNext
<1>4. CASE OpenMarketOrder
  <2>1. /\ pc = "open" /\ pc' = "save" /\ lastKnown = None
        /\ lastKnown' # None /\ stats' = stats
    BY <1>0, <1>4, FilledType DEF OpenMarketOrder, Returned, ScanInv
  <2>2. stats.trade_count < MaxTrades /\ stats.losses < MaxConsecLosses
    BY <2>1 DEF CountInv, TradingAllowed
  <2>3. Desk!Open(stats.trading_day)
    BY <2>1, <2>2 DEF Desk!Open, Desk!SettledOn, Desk!StreakOn
  <2> QED
    BY <1>0, <2>1, <2>3 DEF Desk!DeskNext
<1>5. CASE Start
  <2>1. /\ pc = "down" /\ stops = 0 /\ pc' = "bars" /\ lastKnown' = None
        /\ stats' = LoadDailyStats
    BY <1>0, <1>5, Spared DEF Start
  <2>2. /\ stats' = FreshStats(hostDay) /\ lastKnown = None
        /\ stats.trade_count = 0 /\ stats.losses = 0
    BY <1>0, <2>1, LoadType DEF LifeInv
  <2>3. Desk!Idle(hostDay)
    BY <2>1, <2>2 DEF Desk!Idle, Desk!SettledOn, Desk!StreakOn, FreshStats
  <2> QED
    BY <1>0, <2>2, <2>3 DEF Desk!DeskNext, FreshStats
<1>6. CASE GetTodayRealizedPnl
  BY <1>0, <1>1, <1>6 DEF GetTodayRealizedPnl, DailyStats
<1>7. CASE WriteJournalRow
  <2>1. pc = "journal" /\ pc' = "save" /\ lastKnown' = None /\ stats' = stats
    BY <1>7 DEF WriteJournalRow, Returned
  <2> QED
    BY <2>1 DEF Desk!deskVars
<1>8. CASE NoticeOpen
  <2>1. lastKnown' \in open /\ pc = "positions" /\ pc' = "mark" /\ stats' = stats
    BY <1>8 DEF NoticeOpen
  <2>2. lastKnown' = lastKnown
    BY <1>0, <2>1 DEF FateInv, TypeOK
  <2> QED
    BY <1>1, <2>1, <2>2
<1>9. CASE CallRaises \/ OrderRefused
  <2>1. Raised /\ pc \notin {"journal", "down"}
    BY <1>9 DEF CallRaises, OrderRefused, Fault, Calls
  <2>2. pc' \in {"save", "down"}
    BY <2>1, EndingType
  <2> QED
    BY <1>1, <1>9, <2>1, <2>2 DEF CallRaises, OrderRefused
<1>10. CASE \/ StopFires \/ DayTurns \/ HostDayTurns \/ MinuteTurns
            \/ SaveDailyStats \/ LookForEntry \/ Gate \/ Mark \/ Modify \/ Leave
            \/ UNCHANGED vars
  BY <1>1, <1>10
     DEF StopFires, DayTurns, HostDayTurns, MinuteTurns, SaveDailyStats,
         LookForEntry, Gate, Mark, Modify, Leave, Returned, vars
<1> QED
  BY <1>0, <1>2, <1>3, <1>4, <1>5, <1>6, <1>7, <1>8, <1>9, <1>10, Spared, Disjuncts

(* The live loop keeps the trading desk's promises, as the replay does.    *)
THEOREM LiveImplementsDesk == Truthful => (Spec => ImplementsDesk)
<1> SUFFICES ASSUME Truthful PROVE Spec => ImplementsDesk
  OBVIOUS
<1>1. Init => Desk!DeskInit
  BY LiveAssumption DEF Init, Desk!DeskInit, FreshStats, Days
<1>2. BookInv /\ CountInv /\ [Next]_vars => [Desk!DeskNext]_(Desk!deskVars)
  BY DeskStep
<1> QED
  BY <1>1, <1>2, CountAlways, PTL DEF Spec, ImplementsDesk, Desk!DeskSpec

=============================================================================
