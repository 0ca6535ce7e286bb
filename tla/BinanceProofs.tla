---------------------------- MODULE BinanceProofs ----------------------------
(***************************************************************************)
(* Proofs about BinanceBroker's live orders, for any set of requests that  *)
(* may fail, any number of stop levels, positions, orders, faults and      *)
(* restarts, and whether or not the exchange accepts idle stops.           *)
(***************************************************************************)
EXTENDS BinanceOrders, TLAPS

-----------------------------------------------------------------------------
(* The inductive invariant.                                                *)

(* What a stop locks is always read off its level. *)
USE DEF LevelKept, SeesItsStop

(* What a call under way may rely on. *)
CallInv ==
  /\ pc = "open:entry" => positions < MaxPositions
  /\ pc \in {"open:entry", "open:stop", "modify:find", "modify:stop"} =>
       placed < MaxOrders
  /\ pc \in {"open:entry", "open:stop", "open:flatten", "modify:stop"} =>
       side \in Sides
  /\ pc \in {"modify:find", "modify:stop", "modify:cancel"} =>
       level \in Levels \ {0}
  /\ pc = "close:order" => stopId[names.id] = None

(* The open position is the last one; a stop remembers whose it is, and    *)
(* one of the open position is of its side.                                *)
PositionInv ==
  /\ position # None => position.id = positions /\ positions >= 1
  /\ pc \in {"open:stop", "modify:stop"} /\ position # None
       => side = position.side
  /\ \A o \in orders :
       /\ o.id <= placed /\ o.for <= positions
       /\ position # None /\ o.for = position.id => o.side = position.side

(* The price kept under a key is that of the stop whose id is kept there,  *)
(* if that stop is live.  While an entry has no stop yet whatever is kept  *)
(* is of an earlier position.  Only entries write under another key than   *)
(* that of position ids.                                                   *)
CacheInv ==
  \A k \in Keys :
    /\ stopPrice[k] # None => stopPrice[k].for <= positions
    /\ stopId[k] # None => stopPrice[k] # None /\ stopId[k] <= placed
    /\ \A o \in orders : o.id = stopId[k] =>
         o.level = stopPrice[k].level /\ o.for = stopPrice[k].for
    /\ pc \in {"open:stop", "open:flatten"} /\ stopPrice[k] # None
         => stopPrice[k].for < positions
    /\ k # names.id /\ stopPrice[k] # None => stopPrice[k].level = 0

(* A modify works on a level that keeps what the stop it replaces locks,   *)
(* and before that one is cancelled the new one is live.                   *)
ModifyInv ==
  /\ pc \in {"modify:find", "modify:stop"} =>
       \A o \in OwnStops : o.id = stopId[names.id] => LevelKept(o) <= level
  /\ pc = "modify:stop" => oldId = stopId[names.id]
  /\ pc = "modify:cancel" =>
       /\ stopPrice[names.id].level = level
       /\ \A o \in OwnStops : o.id = oldId => LevelKept(o) <= level
       /\ position # None => \E n \in OwnStops : n.id # oldId /\ n.level = level

OrdersInv ==
  /\ TypeOK /\ CallInv /\ PositionInv /\ CacheInv /\ ModifyInv
  /\ Protected /\ CacheNeverOverstates

(* The caches of a new process are empty.                                  *)
LEMMA NothingIsKept ==
  /\ NothingKept \in [Keys -> [for : Nat, level : Levels] \cup {None}]
  /\ NothingKept \in [Keys -> Nat \cup {None}]
  /\ \A k \in Keys : NothingKept[k] = None
BY DEF NothingKept

LEMMA InitInv == Init => OrdersInv
<1> SUFFICES ASSUME Init PROVE OrdersInv
  OBVIOUS
<1>1. /\ 0 \in 0 .. MaxPositions /\ 0 \in 0 .. MaxOrders
      /\ 0 \in 0 .. MaxFaults /\ 0 \in 0 .. MaxRestarts
  BY OrdersAssumption
<1>2. TypeOK
  BY <1>1, NothingIsKept DEF Init, TypeOK, Steps
<1>3. CacheInv /\ CacheNeverOverstates
  BY NothingIsKept DEF Init, CacheInv, CacheNeverOverstates
<1> QED
  BY <1>2, <1>3 DEF Init, OrdersInv, CallInv, PositionInv, ModifyInv, Protected

(* The three spellings are keys.                                           *)
LEMMA NamesAreKeys ==
  ASSUME TypeOK
  PROVE  {names.symbol, names.id, names.reported} \subseteq Keys
BY DEF TypeOK, Keys

(* What the caches hold under a key.                                       *)
LEMMA KeptTypes ==
  ASSUME TypeOK, NEW k \in Keys
  PROVE  /\ stopPrice[k] # None =>
              stopPrice[k].for \in Nat /\ stopPrice[k].level \in Levels
         /\ stopId[k] # None => stopId[k] \in Nat
BY DEF TypeOK

(* Steps of the adapter that only move on within a call.                   *)
LEMMA BeginOpenKeeps ==
  ASSUME OrdersInv, BeginOpen
  PROVE  OrdersInv'
<1> USE DEF OrdersInv, BeginOpen, exchange, bounds, history
<1>1. TypeOK'
  BY DEF TypeOK, Steps
<1>2. CallInv'
  BY DEF CallInv, TypeOK
<1>3. PositionInv' /\ CacheInv' /\ ModifyInv'
  BY DEF PositionInv, CacheInv, ModifyInv
<1>4. Protected' /\ CacheNeverOverstates'
  BY DEF Protected, CacheNeverOverstates
<1> QED
  BY <1>1, <1>2, <1>3, <1>4

LEMMA BeginCloseKeeps ==
  ASSUME OrdersInv, BeginClose \/ FindToClose
  PROVE  OrdersInv'
<1>1. /\ pc \in {"idle", "close:find"}
      /\ pc' \in {"close:find", "idle", "close:cancel"}
      /\ UNCHANGED <<stopPrice, stopId, side, level, oldId, names, position,
                     orders, positions, placed, exposed, faults, restarts>>
  BY DEF BeginClose, FindToClose, adapter, exchange, bounds, history
<1>2. TypeOK'
  BY <1>1 DEF OrdersInv, TypeOK, Steps
<1>3. CallInv' /\ PositionInv' /\ CacheInv' /\ ModifyInv'
  BY <1>1 DEF OrdersInv, CallInv, PositionInv, CacheInv, ModifyInv
<1>4. OwnStops' = OwnStops
  BY <1>1 DEF OwnStops
<1>5. Protected' /\ CacheNeverOverstates'
  BY <1>1, <1>4 DEF OrdersInv, Protected, CacheNeverOverstates, Bare
<1> QED
  BY <1>2, <1>3, <1>5 DEF OrdersInv

LEMMA BeginModifyKeeps ==
  ASSUME OrdersInv, BeginModify
  PROVE  OrdersInv'
<1>1. /\ pc = "idle" /\ pc' = "modify:find" /\ position # None
      /\ placed < MaxOrders /\ level' \in Levels \ {0} /\ Improves(level')
      /\ UNCHANGED <<stopPrice, stopId, side, oldId, names, position, orders,
                     positions, placed, exposed, faults, restarts>>
  BY DEF BeginModify, exchange, bounds, history
<1>2. TypeOK'
  BY <1>1 DEF OrdersInv, TypeOK, Steps
<1>3. CallInv' /\ PositionInv' /\ CacheInv'
  BY <1>1 DEF OrdersInv, CallInv, PositionInv, CacheInv
<1>4. OwnStops' = OwnStops
  BY <1>1 DEF OwnStops
<1>5. Protected' /\ CacheNeverOverstates'
  BY <1>1, <1>4 DEF OrdersInv, Protected, CacheNeverOverstates, Bare
<1>6. ASSUME NEW o \in OwnStops, o.id = stopId[names.id]
      PROVE  LevelKept(o) <= level'
  <2>1. /\ o \in orders /\ o.for = position.id
        /\ o.id \in Nat /\ o.level \in Levels
    BY DEF OwnStops, OrdersInv, TypeOK
  <2>2. level' \in Int /\ level' >= 1 /\ o.level \in Int
    BY <1>1, <2>1 DEF Levels
  <2>3. CASE ~SeesItsStop
    BY <2>2, <2>3 DEF LevelKept
  <2>4. CASE SeesItsStop
    <3> DEFINE kept == stopPrice[names.id]
    <3>1. stopId[names.id] # None /\ kept # None
      BY <1>6, <2>1, NamesAreKeys, NoneAssumption DEF OrdersInv, CacheInv
    <3>2. o.level = kept.level /\ kept.for = position.id
      BY <1>6, <2>1, NamesAreKeys DEF OrdersInv, CacheInv
    <3>3. level' > kept.level
      BY <1>1, <2>4, <3>1, <3>2 DEF Improves, SeesItsStop
    <3> QED
      BY <2>2, <2>4, <3>2, <3>3 DEF LevelKept
  <2> QED
    BY <2>3, <2>4
<1>7. ModifyInv'
  BY <1>1, <1>4, <1>6 DEF ModifyInv
<1> QED
  BY <1>2, <1>3, <1>5, <1>7 DEF OrdersInv

LEMMA FindToModifyKeeps ==
  ASSUME OrdersInv, FindToModify
  PROVE  OrdersInv'
<1>1. /\ pc = "modify:find"
      /\ \/ position = None /\ pc' = "idle" /\ UNCHANGED <<side, oldId>>
         \/ /\ position # None /\ pc' = "modify:stop"
            /\ oldId' = stopId[names.id]
            /\ side' = position.side
      /\ UNCHANGED <<stopPrice, stopId, level, names, position, orders,
                     positions, placed, exposed, faults, restarts>>
  BY DEF FindToModify, Done, exchange, bounds, history
<1>2. position # None => position.side \in Sides
  BY DEF OrdersInv, TypeOK
<1>3. TypeOK'
  BY <1>1, <1>2, NamesAreKeys DEF OrdersInv, TypeOK, Steps
<1>4. CallInv' /\ PositionInv' /\ CacheInv'
  BY <1>1, <1>2 DEF OrdersInv, CallInv, PositionInv, CacheInv
<1>5. OwnStops' = OwnStops
  BY <1>1 DEF OwnStops
<1>6. ModifyInv' /\ Protected' /\ CacheNeverOverstates'
  BY <1>1, <1>5 DEF OrdersInv, ModifyInv, Protected, CacheNeverOverstates, Bare
<1> QED
  BY <1>3, <1>4, <1>6 DEF OrdersInv

(* Fault counters stay within their bounds.                                *)
LEMMA FailureCounts ==
  ASSUME TypeOK, NEW request, Fails(request)
  PROVE  faults' \in 0 .. MaxFaults
BY OrdersAssumption DEF Fails, TypeOK

(* An accepted stop is a new order; if a position is open it is its own.   *)
NewOrder(s, l) ==
  [id |-> placed + 1, side |-> s, level |-> l, for |-> positions]

LEMMA Acceptance ==
  ASSUME TypeOK, PositionInv, placed < MaxOrders,
         NEW s \in Sides, NEW l \in Levels, Accept(s, l)
  PROVE  /\ placed' = placed + 1 /\ placed' \in 0 .. MaxOrders
         /\ UNCHANGED <<names, position, positions>>
         /\ orders' = orders \cup {NewOrder(s, l)}
         /\ orders' \subseteq
              [id : Nat, side : Sides, level : Levels, for : Nat]
         /\ OwnStops \subseteq OwnStops'
         /\ position # None => NewOrder(s, l) \in OwnStops'
         /\ \A o \in OwnStops' : o \in OwnStops \/ o = NewOrder(s, l)
<1>1. placed \in Nat /\ positions \in Nat /\ MaxOrders \in Nat
  BY OrdersAssumption DEF TypeOK
<1>2. /\ placed' = placed + 1 /\ UNCHANGED <<names, position, positions>>
      /\ orders' = orders \cup {NewOrder(s, l)}
  BY DEF Accept, NewOrder
<1>3. NewOrder(s, l) \in [id : Nat, side : Sides, level : Levels, for : Nat]
  BY <1>1 DEF NewOrder
<1>4. placed' \in 0 .. MaxOrders
  BY <1>1, <1>2
<1>5. NewOrder(s, l).for = positions
  BY DEF NewOrder
<1>6. /\ OwnStops \subseteq OwnStops'
      /\ position # None => NewOrder(s, l) \in OwnStops'
      /\ \A o \in OwnStops' : o \in OwnStops \/ o = NewOrder(s, l)
  BY <1>2, <1>5 DEF OwnStops, PositionInv
<1> QED
  BY <1>2, <1>3, <1>4, <1>6 DEF TypeOK

(* One more order keeps what is known of positions and orders.             *)
LEMMA AcceptanceKeepsPositions ==
  ASSUME TypeOK, PositionInv, placed < MaxOrders,
         NEW s \in Sides, NEW l \in Levels, Accept(s, l),
         position # None => s = position.side,
         pc' \notin {"open:stop", "modify:stop"}
  PROVE  PositionInv'
<1>1. placed \in Nat /\ positions \in Nat
  BY DEF TypeOK
<1>2. /\ NewOrder(s, l).id = placed + 1 /\ NewOrder(s, l).for = positions
      /\ NewOrder(s, l).side = s
  BY DEF NewOrder
<1>3. \A o \in orders : o.id \in Nat /\ o.id <= placed + 1
  BY <1>1 DEF TypeOK, PositionInv
<1> QED
  BY <1>1, <1>2, <1>3, Acceptance DEF PositionInv

(* A stop that is accepted and not noted leaves the caches true, as its id *)
(* is new.                                                                 *)
LEMMA AcceptanceKeepsCache ==
  ASSUME OrdersInv, placed < MaxOrders,
         NEW s \in Sides, NEW l \in Levels, Accept(s, l),
         UNCHANGED <<stopPrice, stopId>>,
         pc' = "open:flatten" => pc = "open:stop", pc' # "open:stop"
  PROVE  CacheInv'
<1>1. /\ placed' = placed + 1 /\ UNCHANGED <<names, position, positions>>
      /\ orders' = orders \cup {NewOrder(s, l)}
      /\ NewOrder(s, l).id = placed + 1 /\ placed \in Nat
  BY DEF Accept, NewOrder, OrdersInv, TypeOK
<1>2. ASSUME NEW k \in Keys
      PROVE  /\ stopId[k] # None => stopId[k] \in Nat /\ stopId[k] <= placed
             /\ placed + 1 # stopId[k]
  <2>1. stopId[k] # None => stopId[k] \in Nat /\ stopId[k] <= placed
    BY KeptTypes DEF OrdersInv, CacheInv
  <2> QED
    BY <1>1, <2>1, NoneAssumption
<1>3. \A k \in Keys : \A o \in orders' : o.id = stopId[k] => o \in orders
  BY <1>1, <1>2
<1> QED
  BY <1>1, <1>2, <1>3 DEF OrdersInv, CacheInv

(* A stop that is accepted and noted under a key.                          *)
LEMMA NotingKeepsCache ==
  ASSUME OrdersInv, placed < MaxOrders,
         NEW s \in Sides, NEW l \in Levels, Accept(s, l),
         NEW key \in Keys, Note(key, l), key = names.id \/ l = 0,
         pc' \notin {"open:stop", "open:flatten"}
  PROVE  /\ stopPrice' \in [Keys -> [for : Nat, level : Levels] \cup {None}]
         /\ stopId' \in [Keys -> Nat \cup {None}]
         /\ stopPrice'[key].level = l
         /\ \A k \in Keys \ {key} : stopPrice'[k] = stopPrice[k]
         /\ CacheInv'
<1>1. /\ placed' = placed + 1 /\ UNCHANGED <<names, position, positions>>
      /\ orders' = orders \cup {NewOrder(s, l)}
      /\ NewOrder(s, l).id = placed + 1 /\ NewOrder(s, l).level = l
      /\ NewOrder(s, l).for = positions
      /\ placed \in Nat /\ positions \in Nat
  BY DEF Accept, NewOrder, OrdersInv, TypeOK
<1> DEFINE note == [for |-> positions, level |-> l]
<1>2. /\ note \in [for : Nat, level : Levels] /\ note # None
      /\ note.for = positions /\ note.level = l
  BY <1>1, NoneAssumption
<1>3. /\ stopPrice' = [stopPrice EXCEPT ![key] = note]
      /\ stopId' = [stopId EXCEPT ![key] = placed + 1]
  BY DEF Note
<1> HIDE DEF note
<1>4. /\ stopPrice' \in [Keys -> [for : Nat, level : Levels] \cup {None}]
      /\ stopId' \in [Keys -> Nat \cup {None}]
      /\ stopPrice'[key] = note /\ stopId'[key] = placed + 1
      /\ \A k \in Keys \ {key} :
           stopPrice'[k] = stopPrice[k] /\ stopId'[k] = stopId[k]
  BY <1>1, <1>2, <1>3 DEF OrdersInv, TypeOK
<1>5. \A o \in orders : o.id \in Nat /\ o.id <= placed
  BY DEF OrdersInv, TypeOK, PositionInv
<1>6. \A k \in Keys : stopId[k] # None =>
        stopId[k] \in Nat /\ stopId[k] <= placed
  BY KeptTypes DEF OrdersInv, CacheInv
<1>7. \A o \in orders' : o.id = placed + 1 => o = NewOrder(s, l)
  BY <1>1, <1>5
<1>8. \A k \in Keys \ {key} : \A o \in orders' :
        o.id = stopId[k] => o \in orders
  <2>1. \A k \in Keys : placed + 1 # stopId[k]
    BY <1>1, <1>6, NoneAssumption
  <2> QED
    BY <1>1, <2>1
<1>9. ASSUME NEW k \in Keys \ {key}
      PROVE  /\ stopPrice'[k] # None => stopPrice'[k].for <= positions'
             /\ stopId'[k] # None =>
                  stopPrice'[k] # None /\ stopId'[k] <= placed'
             /\ \A o \in orders' : o.id = stopId'[k] =>
                  o.level = stopPrice'[k].level /\ o.for = stopPrice'[k].for
             /\ k # names.id /\ stopPrice'[k] # None => stopPrice'[k].level = 0
  BY <1>1, <1>4, <1>6, <1>8 DEF OrdersInv, CacheInv
<1>10. /\ stopPrice'[key].for <= positions'
       /\ stopPrice'[key] # None /\ stopId'[key] <= placed'
       /\ \A o \in orders' : o.id = stopId'[key] =>
            o.level = stopPrice'[key].level /\ o.for = stopPrice'[key].for
       /\ key # names.id => stopPrice'[key].level = 0
  BY <1>1, <1>2, <1>4, <1>7
<1>11. CacheInv'
  BY <1>1, <1>9, <1>10 DEF CacheInv
<1> QED
  BY <1>2, <1>4, <1>11

LEMMA StopFiresKeeps ==
  ASSUME OrdersInv, StopFires
  PROVE  OrdersInv'
<1>1. /\ UNCHANGED <<pc, stopPrice, stopId, side, level, oldId, names,
                    positions, placed, exposed, faults, restarts>>
      /\ orders' \subseteq orders
  BY DEF StopFires, adapter, bounds, history
<1>2. position' = None \/ (UNCHANGED position /\ OwnStops' = OwnStops)
  <2>1. PICK o \in orders :
          /\ orders' = orders \ {o}
          /\ position' = IF position # None /\ position.side = o.side
                           THEN None ELSE position
    BY DEF StopFires
  <2>2. CASE position # None /\ position.side # o.side
    <3>1. o \notin OwnStops
      BY <2>2 DEF OrdersInv, PositionInv, OwnStops
    <3> QED
      BY <2>1, <2>2, <3>1 DEF OwnStops
  <2> QED
    BY <2>1, <2>2
<1>3. OwnStops' \subseteq OwnStops /\ (position' # None => position # None)
  BY <1>1, <1>2 DEF OwnStops
<1>4. TypeOK'
  BY <1>1, <1>2 DEF OrdersInv, TypeOK
<1>5. CallInv' /\ PositionInv' /\ CacheInv'
  BY <1>1, <1>2 DEF OrdersInv, CallInv, PositionInv, CacheInv
<1>6. ModifyInv'
  BY <1>1, <1>2, <1>3 DEF OrdersInv, ModifyInv
<1>7. Protected' /\ CacheNeverOverstates'
  BY <1>1, <1>2 DEF OrdersInv, Protected, CacheNeverOverstates
<1> QED
  BY <1>4, <1>5, <1>6, <1>7 DEF OrdersInv

LEMMA SendEntryKeeps ==
  ASSUME OrdersInv, SendEntry
  PROVE  OrdersInv'
<1>1. /\ pc = "open:entry" /\ pc' \in {"open:stop", "idle"}
      /\ UNCHANGED <<stopPrice, stopId, side, level, oldId, names, orders,
                     placed, restarts>>
      /\ side \in Sides /\ positions < MaxPositions /\ positions \in Nat
      /\ placed < MaxOrders /\ MaxPositions \in Nat
  BY OrdersAssumption
     DEF SendEntry, Fill, Done, adapter, exchange, bounds, history, OrdersInv,
         CallInv, TypeOK
<1>2. faults' \in 0 .. MaxFaults
  BY FailureCounts DEF SendEntry, OrdersInv, TypeOK, bounds
<1>3. CASE UNCHANGED <<position, positions, exposed>> /\ pc' = "idle"
  <2>1. OwnStops' = OwnStops
    BY <1>1, <1>3 DEF OwnStops
  <2>2. TypeOK' /\ CallInv' /\ PositionInv' /\ CacheInv' /\ ModifyInv'
    BY <1>1, <1>2, <1>3, <2>1
       DEF OrdersInv, TypeOK, CallInv, PositionInv, CacheInv, ModifyInv, Steps
  <2>3. Protected' /\ CacheNeverOverstates'
    BY <1>1, <1>3, <2>1 DEF OrdersInv, Protected, CacheNeverOverstates, Bare
  <2> QED
    BY <2>2, <2>3 DEF OrdersInv
<1>4. CASE /\ Fill(side)
           /\ \/ pc' = "open:stop" /\ UNCHANGED exposed
              \/ pc' = "idle" /\ exposed' = exposed \cup {positions + 1}
  <2>1. /\ positions' = positions + 1
        /\ position' = [id |-> positions + 1, side |-> side]
    BY <1>4 DEF Fill
  <2>9. position'.id = positions + 1 /\ position'.side = side
    BY <2>1
  <2>10. positions + 1 \in Nat /\ positions + 1 \in 1 .. MaxPositions
    BY <1>1
  <2>11. position' \in [id : Nat, side : Sides]
    BY <1>1, <2>1, <2>10
  <2>12. exposed' \subseteq 1 .. MaxPositions
    BY <1>4, <2>10 DEF OrdersInv, TypeOK
  <2>2. TypeOK'
    BY <1>1, <1>2, <1>4, <2>1, <2>10, <2>11, <2>12 DEF OrdersInv, TypeOK, Steps
  <2>3. CallInv'
    BY <1>1, <1>4, <2>1, <2>9 DEF OrdersInv, CallInv
  <2>4. PositionInv'
    BY <1>1, <2>1, <2>9 DEF OrdersInv, TypeOK, PositionInv
  <2>5. \A k \in Keys : stopPrice[k] # None =>
          stopPrice[k].for \in Nat /\ stopPrice[k].for < positions + 1
    BY <1>1, KeptTypes DEF OrdersInv, CacheInv
  <2>6. CacheInv'
    BY <1>1, <2>1, <2>9, <2>5 DEF OrdersInv, CacheInv
  <2>7. ModifyInv'
    BY <1>1 DEF ModifyInv
  <2>8. Protected' /\ CacheNeverOverstates'
    BY <1>1, <1>4, <2>1, <2>9, <2>5 DEF Protected, CacheNeverOverstates, Bare
  <2> QED
    BY <2>2, <2>3, <2>4, <2>6, <2>7, <2>8 DEF OrdersInv
<1>5. \/ /\ Fill(side)
         /\ \/ pc' = "open:stop" /\ UNCHANGED exposed
            \/ pc' = "idle" /\ exposed' = exposed \cup {positions + 1}
      \/ UNCHANGED <<position, positions, exposed>> /\ pc' = "idle"
  BY DEF SendEntry, Done, exchange, bounds, history
<1> QED
  BY <1>3, <1>4, <1>5

LEMMA AttachStopKeeps ==
  ASSUME OrdersInv, AttachStop
  PROVE  OrdersInv'
<1>1. /\ pc = "open:stop" /\ pc' \in {"open:flatten", "idle"}
      /\ UNCHANGED <<side, level, oldId, names, position, positions, exposed,
                     restarts>>
      /\ side \in Sides /\ placed < MaxOrders
      /\ placed \in Nat /\ positions \in Nat
      /\ position # None => side = position.side
  BY DEF AttachStop, Accept, Done, exchange, bounds, history, OrdersInv,
         CallInv, TypeOK, PositionInv
<1>2. faults' \in 0 .. MaxFaults
  BY FailureCounts DEF AttachStop, OrdersInv, TypeOK, bounds
<1>3. 0 \in Levels
  BY OrdersAssumption DEF Levels
<1>4. CASE /\ UNCHANGED <<stopPrice, stopId, orders, placed>>
           /\ pc' = "open:flatten"
  <2>1. OwnStops' = OwnStops
    BY <1>1, <1>4 DEF OwnStops
  <2>2. TypeOK' /\ CallInv' /\ PositionInv' /\ CacheInv' /\ ModifyInv'
    BY <1>1, <1>2, <1>4, <2>1
       DEF OrdersInv, TypeOK, CallInv, PositionInv, CacheInv, ModifyInv, Steps
  <2>3. Protected' /\ CacheNeverOverstates'
    BY <1>1, <1>4, <2>1 DEF OrdersInv, Protected, CacheNeverOverstates, Bare
  <2> QED
    BY <2>2, <2>3 DEF OrdersInv
<1>5. ASSUME Accept(side, 0) PROVE
        /\ PositionInv'
        /\ placed' = placed + 1 /\ placed' \in 0 .. MaxOrders
        /\ orders' = orders \cup {NewOrder(side, 0)}
        /\ orders' \subseteq [id : Nat, side : Sides, level : Levels, for : Nat]
        /\ OwnStops \subseteq OwnStops'
        /\ position # None => NewOrder(side, 0) \in OwnStops'
  BY <1>1, <1>3, <1>5, Acceptance, AcceptanceKeepsPositions DEF OrdersInv
<1>6. NewOrder(side, 0).level = 0
  BY DEF NewOrder
<1>7. CASE Accept(side, 0) /\ pc' = "idle" /\ Note(names.symbol, 0)
  <2>1. names.symbol \in Keys
    BY NamesAreKeys DEF OrdersInv
  <2>2. /\ stopPrice' \in [Keys -> [for : Nat, level : Levels] \cup {None}]
        /\ stopId' \in [Keys -> Nat \cup {None}]
        /\ stopPrice'[names.symbol].level = 0
        /\ \A k \in Keys \ {names.symbol} : stopPrice'[k] = stopPrice[k]
        /\ CacheInv'
    BY <1>1, <1>3, <1>7, <2>1, NotingKeepsCache
  <2>3. TypeOK' /\ CallInv' /\ ModifyInv'
    BY <1>1, <1>2, <1>5, <1>7, <2>2
       DEF OrdersInv, TypeOK, CallInv, ModifyInv, Steps
  <2>4. \A k \in Keys \ {names.symbol} :
          stopPrice[k] # None => stopPrice[k].for # positions
    BY <1>1, KeptTypes DEF OrdersInv, CacheInv
  <2>5. position # None => position.id = positions
    BY DEF OrdersInv, PositionInv
  <2>6. position' # None => \E o \in OwnStops' : o.level = 0
    BY <1>1, <1>5, <1>6, <1>7
  <2>7. Protected'
    BY <2>6 DEF Protected
  <2>8. \A k \in Keys : stopPrice'[k] # None /\ stopPrice'[k].for = positions
          => stopPrice'[k].level = 0
    BY <2>2, <2>4
  <2>9. 0 >= 0
    OBVIOUS
  <2>10. CacheNeverOverstates'
    BY <1>1, <2>5, <2>6, <2>8, <2>9 DEF CacheNeverOverstates
  <2> QED
    BY <1>5, <1>7, <2>2, <2>3, <2>7, <2>10 DEF OrdersInv
<1>8. CASE /\ Accept(side, 0) /\ pc' = "open:flatten"
           /\ UNCHANGED <<stopPrice, stopId>>
  <2>1. TypeOK' /\ CallInv' /\ ModifyInv'
    BY <1>1, <1>2, <1>5, <1>8
       DEF OrdersInv, TypeOK, CallInv, ModifyInv, Steps
  <2>2. CacheInv'
    BY <1>1, <1>3, <1>8, AcceptanceKeepsCache
  <2>3. position # None => position.id = positions
    BY DEF OrdersInv, PositionInv
  <2>5. \A k \in Keys : stopPrice[k] # None => stopPrice[k].for # positions
    BY <1>1, KeptTypes DEF OrdersInv, CacheInv
  <2>4. Protected' /\ CacheNeverOverstates'
    BY <1>1, <1>8, <2>3, <2>5 DEF Protected, CacheNeverOverstates, Bare
  <2> QED
    BY <1>5, <1>8, <2>1, <2>2, <2>4 DEF OrdersInv
<1> QED
  BY <1>4, <1>7, <1>8 DEF AttachStop, Done, exchange

(* Requests that end or abandon a call without a new stop order.           *)
LEMMA FlattenKeeps ==
  ASSUME OrdersInv, Flatten
  PROVE  OrdersInv'
<1>1. /\ pc = "open:flatten" /\ pc' = "idle"
      /\ UNCHANGED <<stopPrice, stopId, side, level, oldId, names, orders,
                     positions, placed, restarts>>
  BY DEF Flatten, Done, Flat, Exposes, adapter, exchange, bounds, history
<1>2. \/ position' = None /\ UNCHANGED <<exposed, faults>>
      \/ /\ UNCHANGED position /\ Fails("flatten")
         /\ exposed' = exposed \cup
              (IF position = None THEN {} ELSE {position.id})
  BY DEF Flatten, Flat, Exposes, exchange, bounds, history
<1>3. faults' \in 0 .. MaxFaults
  BY <1>2, FailureCounts DEF OrdersInv, TypeOK
<1>4. position # None => position.id \in 1 .. MaxPositions
  BY DEF OrdersInv, TypeOK, PositionInv
<1>5. TypeOK'
  BY <1>1, <1>2, <1>3, <1>4 DEF OrdersInv, TypeOK, Steps
<1>6. CallInv' /\ PositionInv' /\ CacheInv' /\ ModifyInv'
  BY <1>1, <1>2 DEF OrdersInv, CallInv, PositionInv, CacheInv, ModifyInv
<1>7. Protected' /\ CacheNeverOverstates'
  BY <1>1, <1>2 DEF Protected, CacheNeverOverstates
<1> QED
  BY <1>5, <1>6, <1>7 DEF OrdersInv

LEMMA CancelStopOrderKeeps ==
  ASSUME OrdersInv, CancelStopOrder
  PROVE  OrdersInv'
<1>1. /\ pc = "close:cancel" /\ pc' = "close:order"
      /\ stopId' = [stopId EXCEPT ![names.id] = None]
      /\ orders' \subseteq orders
      /\ UNCHANGED <<stopPrice, side, level, oldId, names, position, positions,
                     placed, exposed, restarts>>
  BY DEF CancelStopOrder, bounds, history
<1>2. faults' \in 0 .. MaxFaults
  BY FailureCounts DEF CancelStopOrder, OrdersInv, TypeOK, bounds
<1>8. /\ stopId' \in [Keys -> Nat \cup {None}] /\ stopId'[names.id] = None
      /\ \A k \in Keys : stopId'[k] \in {stopId[k], None}
  <2>1. names.id \in Keys /\ stopId \in [Keys -> Nat \cup {None}]
    BY NamesAreKeys DEF OrdersInv, TypeOK
  <2> QED
    BY <1>1, <2>1
<1>3. TypeOK'
  BY <1>1, <1>2, <1>8 DEF OrdersInv, TypeOK, Steps
<1>4. CallInv' /\ PositionInv' /\ ModifyInv'
  BY <1>1, <1>8 DEF OrdersInv, CallInv, PositionInv, ModifyInv
<1>5. \A o \in orders' : o.id # None
  BY <1>1, NoneAssumption DEF OrdersInv, TypeOK
<1>6. CacheInv'
  BY <1>1, <1>5, <1>8 DEF OrdersInv, CacheInv
<1>7. Protected' /\ CacheNeverOverstates'
  BY <1>1 DEF Protected, CacheNeverOverstates, Bare
<1> QED
  BY <1>3, <1>4, <1>6, <1>7 DEF OrdersInv

LEMMA SendCloseKeeps ==
  ASSUME OrdersInv, SendClose
  PROVE  OrdersInv'
<1>1. /\ pc = "close:order" /\ pc' = "idle"
      /\ UNCHANGED <<stopId, side, level, oldId, names, orders, positions,
                     placed, restarts>>
      /\ stopPrice' \in
           {stopPrice, [stopPrice EXCEPT ![names.id] = None]}
  BY DEF SendClose, Done, Flat, Exposes, exchange, bounds, history
<1>2. \/ position' = None /\ UNCHANGED exposed
      \/ /\ UNCHANGED position
         /\ exposed' = exposed \cup
              (IF position = None THEN {} ELSE {position.id})
  BY DEF SendClose, Flat, Exposes, exchange, bounds, history
<1>3. faults' \in 0 .. MaxFaults
  BY FailureCounts DEF SendClose, OrdersInv, TypeOK, bounds
<1>4. position # None => position.id \in 1 .. MaxPositions
  BY DEF OrdersInv, TypeOK, PositionInv
<1>9. /\ stopPrice' \in [Keys -> [for : Nat, level : Levels] \cup {None}]
      /\ \A k \in Keys : \/ stopPrice'[k] = stopPrice[k]
                         \/ k = names.id /\ stopPrice'[k] = None
  <2> DEFINE Kept == [for : Nat, level : Levels] \cup {None}
  <2>1. stopPrice \in [Keys -> Kept] /\ None \in Kept
    BY DEF OrdersInv, TypeOK
  <2> HIDE DEF Kept
  <2>2. \/ stopPrice' = stopPrice
        \/ stopPrice' = [stopPrice EXCEPT ![names.id] = None]
    BY <1>1
  <2>3. /\ stopPrice' \in [Keys -> Kept]
        /\ \A k \in Keys : \/ stopPrice'[k] = stopPrice[k]
                           \/ k = names.id /\ stopPrice'[k] = None
    BY <2>1, <2>2, Zenon
  <2> QED
    BY <2>3 DEF Kept
<1>5. TypeOK'
  BY <1>1, <1>2, <1>3, <1>4, <1>9 DEF OrdersInv, TypeOK, Steps
<1>6. /\ stopId[names.id] = None /\ \A o \in orders : o.id # None
  BY <1>1, NoneAssumption DEF OrdersInv, TypeOK, CallInv
<1>10. CacheInv'
  BY <1>1, <1>6, <1>9 DEF OrdersInv, CacheInv
<1>7. CallInv' /\ PositionInv' /\ ModifyInv'
  BY <1>1, <1>2 DEF OrdersInv, CallInv, PositionInv, ModifyInv
<1>8. Protected' /\ CacheNeverOverstates'
  BY <1>1, <1>2 DEF Protected, CacheNeverOverstates
<1> QED
  BY <1>5, <1>7, <1>8, <1>10 DEF OrdersInv

(* The new stop of a modify: at least as good as the one it replaces.      *)
LEMMA PlaceNewStopKeeps ==
  ASSUME OrdersInv, PlaceNewStop
  PROVE  OrdersInv'
<1>1. /\ pc = "modify:stop" /\ pc' \in {"modify:cancel", "idle"}
      /\ UNCHANGED <<side, level, oldId, names, position, positions, exposed,
                     restarts>>
      /\ side \in Sides /\ level \in Levels /\ level \in Int /\ level >= 1
      /\ placed < MaxOrders /\ placed \in Nat /\ positions \in Nat
      /\ position # None => side = position.side
      /\ oldId = stopId[names.id]
  BY DEF PlaceNewStop, Accept, Done, exchange, bounds, history, OrdersInv,
         CallInv, TypeOK, PositionInv, ModifyInv, Levels
<1>2. faults' \in 0 .. MaxFaults
  BY FailureCounts DEF PlaceNewStop, OrdersInv, TypeOK, bounds
<1>3. CASE UNCHANGED <<stopPrice, stopId, orders, placed>> /\ pc' = "idle"
  <2>1. OwnStops' = OwnStops
    BY <1>1, <1>3 DEF OwnStops
  <2>2. TypeOK' /\ CallInv' /\ PositionInv' /\ CacheInv' /\ ModifyInv'
    BY <1>1, <1>2, <1>3, <2>1
       DEF OrdersInv, TypeOK, CallInv, PositionInv, CacheInv, ModifyInv, Steps
  <2>3. Protected' /\ CacheNeverOverstates'
    BY <1>1, <1>3, <2>1 DEF OrdersInv, Protected, CacheNeverOverstates, Bare
  <2> QED
    BY <2>2, <2>3 DEF OrdersInv
<1>4. ASSUME Accept(side, level) PROVE
        /\ PositionInv'
        /\ placed' = placed + 1 /\ placed' \in 0 .. MaxOrders
        /\ orders' = orders \cup {NewOrder(side, level)}
        /\ orders' \subseteq [id : Nat, side : Sides, level : Levels, for : Nat]
        /\ OwnStops \subseteq OwnStops'
        /\ position # None => NewOrder(side, level) \in OwnStops'
        /\ \A o \in OwnStops' : o \in OwnStops \/ o = NewOrder(side, level)
  BY <1>1, <1>4, Acceptance, AcceptanceKeepsPositions DEF OrdersInv
<1>5. /\ NewOrder(side, level).id = placed + 1
      /\ NewOrder(side, level).level = level
      /\ NewOrder(side, level).for = positions
  BY DEF NewOrder
<1>6. \A o \in orders : o.id \in Nat /\ o.id <= placed
  BY DEF OrdersInv, TypeOK, PositionInv
<1>7. names.id \in Keys
  BY NamesAreKeys DEF OrdersInv
<1>11. stopId[names.id] # None =>
         stopId[names.id] \in Nat /\ stopId[names.id] <= placed
  BY <1>7, KeptTypes DEF OrdersInv, CacheInv
<1>8. placed + 1 # stopId[names.id]
  BY <1>1, <1>11, NoneAssumption
<1>9. CASE /\ Accept(side, level) /\ pc' = "modify:cancel"
           /\ Note(names.id, level)
  <2>1. /\ stopPrice' \in [Keys -> [for : Nat, level : Levels] \cup {None}]
        /\ stopId' \in [Keys -> Nat \cup {None}]
        /\ stopPrice'[names.id].level = level
        /\ \A k \in Keys \ {names.id} : stopPrice'[k] = stopPrice[k]
        /\ CacheInv'
    BY <1>1, <1>7, <1>9, NotingKeepsCache
  <2>3. TypeOK' /\ CallInv'
    BY <1>1, <1>2, <1>4, <1>9, <2>1 DEF OrdersInv, TypeOK, CallInv, Steps
  <2>5. \A o \in OwnStops : o.id = oldId => LevelKept(o) <= level
    BY <1>1 DEF OrdersInv, ModifyInv
  <2>4. position' # None => \E o \in OwnStops' : o.id # oldId /\ o.level = level
    BY <1>1, <1>4, <1>5, <1>8, <1>9
  <2>6. \A o \in OwnStops' : o.id = oldId => LevelKept(o)' <= level
    BY <1>1, <1>4, <1>5, <1>8, <1>9, <2>5
  <2>8. ModifyInv'
    BY <1>1, <1>9, <2>1, <2>4, <2>6 DEF ModifyInv
  <2>2. Protected'
    BY <2>4 DEF Protected
  <2>7. \A k \in Keys : stopPrice'[k] # None => stopPrice'[k].level <= level
    BY <1>1, <2>1 DEF OrdersInv, CacheInv
  <2>9. CacheNeverOverstates'
    BY <1>1, <2>4, <2>7 DEF CacheNeverOverstates
  <2> QED
    BY <1>4, <1>9, <2>1, <2>2, <2>3, <2>8, <2>9 DEF OrdersInv
<1>10. CASE /\ Accept(side, level) /\ pc' = "idle"
            /\ UNCHANGED <<stopPrice, stopId>>
  <2>1. TypeOK' /\ CallInv' /\ ModifyInv'
    BY <1>1, <1>2, <1>4, <1>10
       DEF OrdersInv, TypeOK, CallInv, ModifyInv, Steps
  <2>3. CacheInv'
    BY <1>1, <1>10, AcceptanceKeepsCache
  <2>4. Protected'
    BY <1>1, <1>4, <1>10 DEF Protected
  <2>5. CacheNeverOverstates'
    BY <1>1, <1>4, <1>10 DEF OrdersInv, CacheNeverOverstates
  <2> QED
    BY <1>4, <1>10, <2>1, <2>3, <2>4, <2>5 DEF OrdersInv
<1> QED
  BY <1>3, <1>9, <1>10 DEF PlaceNewStop, Done, exchange

(* The old stop may go: the new one is live, and no worse.                 *)
LEMMA CancelSupersededKeeps ==
  ASSUME OrdersInv, CancelSuperseded
  PROVE  OrdersInv'
<1>1. /\ pc = "modify:cancel" /\ pc' = "idle"
      /\ orders' \subseteq orders
      /\ \A o \in orders \ orders' : o.id = oldId
      /\ UNCHANGED <<stopPrice, stopId, side, level, oldId, names, position,
                     positions, placed, exposed, restarts>>
  BY DEF CancelSuperseded, Done, adapter, bounds, history
<1>2. faults' \in 0 .. MaxFaults
  BY FailureCounts DEF CancelSuperseded, OrdersInv, TypeOK, bounds
<1>3. TypeOK'
  BY <1>1, <1>2 DEF OrdersInv, TypeOK, Steps
<1>4. CallInv' /\ PositionInv' /\ CacheInv' /\ ModifyInv'
  BY <1>1 DEF OrdersInv, CallInv, PositionInv, CacheInv, ModifyInv
<1>5. /\ level \in Int
      /\ \A k \in Keys : stopPrice[k] # None => stopPrice[k].level <= level
  <2>1. level \in Int /\ level >= 1
    BY <1>1 DEF OrdersInv, CallInv, Levels
  <2>2. stopPrice[names.id].level = level
    BY <1>1 DEF OrdersInv, ModifyInv
  <2> QED
    BY <2>1, <2>2 DEF OrdersInv, CacheInv
<1>6. position # None => \E n \in OwnStops' : n.level = level
  <2> SUFFICES ASSUME position # None PROVE \E n \in OwnStops' : n.level = level
    OBVIOUS
  <2>1. PICK n \in OwnStops : n.id # oldId /\ n.level = level
    BY <1>1 DEF OrdersInv, ModifyInv
  <2>2. n \in OwnStops'
    BY <1>1, <2>1 DEF OwnStops
  <2> QED
    BY <2>1, <2>2
<1>7. Protected'
  BY <1>1, <1>6 DEF Protected
<1>8. CacheNeverOverstates'
  BY <1>1, <1>5, <1>6 DEF CacheNeverOverstates
<1> QED
  BY <1>3, <1>4, <1>7, <1>8 DEF OrdersInv

LEMMA RestartKeeps ==
  ASSUME OrdersInv, Restart
  PROVE  OrdersInv'
<1>1. /\ pc' = "idle" /\ stopPrice' = NothingKept /\ stopId' = NothingKept
      /\ side' = None /\ level' = None /\ oldId' = None
      /\ UNCHANGED <<names, position, orders, positions, placed, faults>>
      /\ restarts < MaxRestarts /\ restarts' = restarts + 1
      /\ exposed' = IF pc \in Bare /\ position # None
                      THEN exposed \cup {position.id} ELSE exposed
  BY DEF Restart, exchange
<1>2. restarts' \in 0 .. MaxRestarts
  BY <1>1, OrdersAssumption DEF OrdersInv, TypeOK
<1>3. position # None => position.id \in 1 .. MaxPositions
  BY DEF OrdersInv, TypeOK, PositionInv
<1>4. exposed' \subseteq 1 .. MaxPositions
  BY <1>1, <1>3 DEF OrdersInv, TypeOK
<1>5. TypeOK'
  BY <1>1, <1>2, <1>4, NothingIsKept DEF OrdersInv, TypeOK, Steps
<1>6. /\ \A o \in orders : o.id # None
      /\ \A k \in Keys : stopPrice'[k] = None /\ stopId'[k] = None
  BY <1>1, NothingIsKept, NoneAssumption DEF OrdersInv, TypeOK
<1>7. CallInv' /\ PositionInv' /\ CacheInv' /\ ModifyInv'
  BY <1>1, <1>6 DEF OrdersInv, CallInv, PositionInv, CacheInv, ModifyInv
<1>8. OwnStops' = OwnStops
  BY <1>1 DEF OwnStops
<1>9. Protected' /\ CacheNeverOverstates'
  BY <1>1, <1>6, <1>8 DEF OrdersInv, Protected, CacheNeverOverstates
<1> QED
  BY <1>5, <1>7, <1>9 DEF OrdersInv

LEMMA StutterKeeps ==
  ASSUME OrdersInv, UNCHANGED vars
  PROVE  OrdersInv'
BY DEF OrdersInv, TypeOK, CallInv, PositionInv, CacheInv, ModifyInv, Protected,
       CacheNeverOverstates, OwnStops, vars, adapter, exchange, bounds, history

-----------------------------------------------------------------------------
(* Theorems.                                                               *)

(* Every reachable state of the adapter and the exchange satisfies the     *)
(* inductive invariant: one lemma per request, above.                      *)
THEOREM OrdersInvariant == Spec => []OrdersInv
<1>1. Init => OrdersInv
  BY InitInv
<1>2. OrdersInv /\ [Next]_vars => OrdersInv'
  BY StopFiresKeeps, BeginOpenKeeps, SendEntryKeeps, AttachStopKeeps,
     FlattenKeeps, BeginCloseKeeps, CancelStopOrderKeeps, SendCloseKeeps,
     BeginModifyKeeps, FindToModifyKeeps, PlaceNewStopKeeps,
     CancelSupersededKeeps, RestartKeeps, StutterKeeps DEF Next
<1> QED
  BY <1>1, <1>2, PTL DEF Spec

(* The adapter's caches and the exchange's orders stay of their types, and *)
(* every counter stays within its bound.                                   *)
THEOREM OrdersTypes == Spec => []TypeOK
<1>1. OrdersInv => TypeOK
  BY DEF OrdersInv
<1> QED
  BY <1>1, OrdersInvariant, PTL

(* A position that is open outside the bare steps of its entry and its     *)
(* close, and that no unhandled failure exposed, has a live stop.          *)
THEOREM PositionsAreProtected == Spec => []Protected
<1>1. OrdersInv => Protected
  BY DEF OrdersInv
<1> QED
  BY <1>1, OrdersInvariant, PTL

(* The stop price reported for a position is backed by a live stop at      *)
(* least as good.                                                          *)
THEOREM CacheIsBacked == Spec => []CacheNeverOverstates
<1>1. OrdersInv => CacheNeverOverstates
  BY DEF OrdersInv
<1> QED
  BY <1>1, OrdersInvariant, PTL

(* While a position lives, no request outside its close loosens its stop.  *)
THEOREM StopsNeverLoosen == Spec => StopNeverLoosens
<1>1. ASSUME OrdersInv, [Next]_vars, position # None, position' = position,
             pc # "close:cancel", NEW o \in OwnStops
      PROVE  \E n \in OwnStops' : n.level >= LevelKept(o)
  <2>6. o.level \in Nat /\ o.level >= LevelKept(o)
    BY <1>1, OrdersAssumption DEF OrdersInv, TypeOK, OwnStops, Levels
  <2>1. o.level \in Int /\ o \in orders /\ o.for = position.id
    BY <1>1 DEF OrdersInv, TypeOK, OwnStops, Levels
  <2>2. CASE orders \subseteq orders'
    <3>1. o \in OwnStops'
      BY <1>1, <2>1, <2>2 DEF OwnStops
    <3> QED
      BY <2>6, <3>1
  <2>3. CASE StopFires
    <3>1. PICK p \in orders :
            /\ orders' = orders \ {p}
            /\ position' = IF position # None /\ position.side = p.side
                             THEN None ELSE position
      BY <2>3 DEF StopFires
    <3>2. p # o
      BY <1>1, <2>1, <3>1 DEF OrdersInv, PositionInv
    <3>3. o \in OwnStops'
      BY <1>1, <2>1, <3>1, <3>2 DEF OwnStops
    <3> QED
      BY <2>6, <3>3
  <2>4. CASE CancelSuperseded
    <3>1. pc = "modify:cancel" /\ \A p \in orders \ orders' : p.id = oldId
      BY <2>4 DEF CancelSuperseded
    <3>2. PICK n \in OwnStops : n.id # oldId /\ n.level = level
      BY <1>1, <3>1 DEF OrdersInv, ModifyInv
    <3>3. n \in OwnStops' /\ level \in Int
      BY <1>1, <3>1, <3>2 DEF OwnStops, OrdersInv, CallInv, Levels
    <3>4. CASE o \in orders'
      BY <1>1, <2>1, <2>6, <3>4 DEF OwnStops
    <3>5. CASE o \notin orders'
      <4>1. LevelKept(o) <= level
        BY <1>1, <2>1, <3>1, <3>5 DEF OrdersInv, ModifyInv
      <4> QED
        BY <2>6, <3>2, <3>3, <4>1
    <3> QED
      BY <3>4, <3>5
  <2>5. StopFires \/ CancelSuperseded \/ orders \subseteq orders'
    BY <1>1 DEF Next, vars, exchange, bounds, history, adapter, BeginOpen,
       SendEntry, AttachStop, Flatten, BeginClose, FindToClose,
       CancelStopOrder, SendClose, BeginModify, FindToModify, PlaceNewStop,
       Restart, Fill, Accept, Flat
  <2> QED
    BY <2>2, <2>3, <2>4, <2>5
<1>2. OrdersInv /\ [Next]_vars =>
        [position # None /\ position' = position /\ pc # "close:cancel"
           => \A o \in OwnStops :
                \E n \in OwnStops' : n.level >= LevelKept(o)]_vars
  BY <1>1
<1> QED
  BY <1>2, OrdersInvariant, PTL DEF Spec, StopNeverLoosens

=============================================================================
