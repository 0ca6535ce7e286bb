--------------------------- MODULE BinanceOrders ----------------------------
(***************************************************************************)
(* BinanceBroker with allow_live_trading on: an entry is a market order    *)
(* followed by a separate reduce-only STOP_MARKET order, a breakeven move  *)
(* replaces that order, a close cancels it and sends a market order.  The  *)
(* exchange may fire a stop between any two requests.                      *)
(*                                                                         *)
(* One action per request to the exchange; pc names the request due next,  *)
(* "idle" between two broker calls.  Any request may fail, and an order    *)
(* may be executed although its reply is lost, if Faults says so.          *)
(*                                                                         *)
(* Abstractions.  A stop price is a level, larger meaning more profit for  *)
(* the position it protects; quantities are left out, since every order    *)
(* is for the whole position.  Requests that only read (ticker, balance)   *)
(* change nothing and are left out.  The exchange is external.             *)
(*                                                                         *)
(* The adapter keeps stop price and stop order id in dictionaries.  Three  *)
(* spellings of the one symbol serve as their keys: an entry writes under  *)
(* the symbol of strategy.yaml, a modify and a close use what stands       *)
(* before the first colon of the position's id, and the stop is reported   *)
(* from under the symbol the exchange gives the position.                  *)
(***************************************************************************)
EXTENDS Integers, FiniteSets

CONSTANTS
  None,
  Namings,          \* the three spellings: [symbol, id, reported]
  Faults,           \* requests that may fail: a subset of Requests
  AcceptsIdleStops, \* does the exchange accept a stop with no position?
  StopAnytime,      \* may a stop fire inside a broker call?
  Crashes,          \* may the process die inside a broker call?
  \* bounds of an instance
  MaxLevel, MaxPositions, MaxOrders, MaxFaults, MaxRestarts

Requests == {"entry", "entryReply", "stop", "stopReply", "flatten",
             "cancelOld", "cancel", "close", "closeReply"}

Keys == UNION {{n.symbol, n.id, n.reported} : n \in Namings}
Levels == 0 .. MaxLevel
Sides == {"long", "short"}

ASSUME OrdersAssumption ==
  /\ Faults \subseteq Requests
  /\ {AcceptsIdleStops, StopAnytime, Crashes} \subseteq BOOLEAN
  /\ {MaxLevel, MaxPositions, MaxOrders, MaxFaults, MaxRestarts} \subseteq Nat

(* Whatever the spelling, it is the exchange's own or what it writes       *)
(* before a colon.                                                         *)
ASSUME NamingAssumption == \A n \in Namings : n.symbol \in {n.id, n.reported}

ASSUME NoneAssumption == None \notin Nat \cup [for : Nat, level : Levels]

VARIABLES
  \* BinanceBroker, and the locals of the call under way
  pc,
  stopPrice,  \* _stop_loss_by_symbol: by key, [for, level] or None
  stopId,     \* _stop_order_id_by_symbol: by key, an id or None
  side, level,  \* the side and the stop level a call works on
  oldId,      \* old_stop_order_id of a modify
  \* the exchange
  names,      \* how it and the configuration spell the symbol
  position,   \* [id, side] or None
  orders,     \* live stop orders: [id, side, level, for]
  positions, placed,  \* how many positions and stop orders there were
  exposed,    \* history: positions an unhandled failure may leave bare
  faults, restarts    \* bounds

adapter  == <<stopPrice, stopId, side, level, oldId>>
exchange == <<names, position, orders, positions, placed>>
history  == <<exposed, restarts>>
bounds   == <<faults, history>>
vars     == <<pc, adapter, exchange, bounds>>

Fails(request) ==
  request \in Faults /\ faults < MaxFaults /\ faults' = faults + 1

Done == pc' = "idle"

(* The position that is open is left without a stop. *)
Exposes ==
  /\ exposed' = exposed \cup (IF position = None THEN {} ELSE {position.id})
  /\ UNCHANGED restarts

-----------------------------------------------------------------------------
(* The exchange.                                                           *)

Fill(s) ==
  /\ positions' = positions + 1
  /\ position' = [id |-> positions + 1, side |-> s]
  /\ UNCHANGED <<names, orders, placed>>

(* A reduce-only stop of side s is accepted; for says whose stop it is.    *)
Accept(s, l) ==
  /\ position # None \/ AcceptsIdleStops
  /\ placed' = placed + 1
  /\ orders' = orders \cup
       {[id |-> placed + 1, side |-> s, level |-> l, for |-> positions]}
  /\ UNCHANGED <<names, position, positions>>

Flat == position' = None /\ UNCHANGED <<names, orders, positions, placed>>

(* A live stop triggers; being reduce-only it closes a position of its own *)
(* side and otherwise just lapses.                                         *)
StopFires ==
  /\ StopAnytime \/ pc = "idle"
  /\ \E o \in orders :
       /\ orders' = orders \ {o}
       /\ position' = IF position # None /\ position.side = o.side
                        THEN None ELSE position
  /\ UNCHANGED <<pc, adapter, names, positions, placed, bounds>>

-----------------------------------------------------------------------------
(* open_market_order()                                                     *)

(* No position is reported, to the loop and to the method's own check.     *)
BeginOpen ==
  /\ pc = "idle" /\ position = None
  /\ positions < MaxPositions /\ placed < MaxOrders
  /\ side' \in Sides
  /\ pc' = "open:entry"
  /\ UNCHANGED <<stopPrice, stopId, level, oldId, exchange, bounds>>

SendEntry ==
  /\ pc = "open:entry"
  /\ \/ Fill(side) /\ pc' = "open:stop" /\ UNCHANGED bounds
     \/ Fails("entry") /\ Done /\ UNCHANGED <<exchange, history>>
     \/ /\ Fails("entryReply") /\ Fill(side) /\ Done
        /\ exposed' = exposed \cup {positions + 1} /\ UNCHANGED restarts
  /\ UNCHANGED adapter

(* The stop just accepted is kept under key, its id and its price.         *)
Note(key, l) ==
  /\ stopId' = [stopId EXCEPT ![key] = placed + 1]
  /\ stopPrice' = [stopPrice EXCEPT ![key] = [for |-> positions, level |-> l]]

(* The protective stop; when it fails the position is flattened instead.   *)
AttachStop ==
  /\ pc = "open:stop"
  /\ \/ /\ Accept(side, 0) /\ Done
        /\ Note(names.symbol, 0)
        /\ UNCHANGED bounds
     \/ /\ Fails("stop") /\ pc' = "open:flatten"
        /\ UNCHANGED <<stopPrice, stopId, exchange, history>>
     \/ /\ Fails("stopReply") /\ Accept(side, 0) /\ pc' = "open:flatten"
        /\ UNCHANGED <<stopPrice, stopId, history>>
     \/ /\ position = None /\ ~AcceptsIdleStops /\ pc' = "open:flatten"
        /\ UNCHANGED <<stopPrice, stopId, exchange, bounds>>
  /\ UNCHANGED <<side, level, oldId>>

(* The compensating reduce-only close; its own failure is only logged.     *)
Flatten ==
  /\ pc = "open:flatten" /\ Done
  /\ \/ Flat /\ UNCHANGED bounds
     \/ Fails("flatten") /\ Exposes /\ UNCHANGED exchange
  /\ UNCHANGED adapter

-----------------------------------------------------------------------------
(* close_position()                                                        *)

BeginClose ==
  /\ pc = "idle" /\ position # None
  /\ pc' = "close:find"
  /\ UNCHANGED <<adapter, exchange, bounds>>

FindToClose ==
  /\ pc = "close:find"
  /\ pc' = IF position = None THEN "idle" ELSE "close:cancel"
  /\ UNCHANGED <<adapter, exchange, bounds>>

(* _cancel_stop_order(): the id is forgotten, a failure only logged.       *)
CancelStopOrder ==
  /\ pc = "close:cancel" /\ pc' = "close:order"
  /\ stopId' = [stopId EXCEPT ![names.id] = None]
  /\ \/ /\ orders' = {o \in orders : o.id # stopId[names.id]}
        /\ UNCHANGED bounds
     \/ /\ stopId[names.id] # None /\ Fails("cancel")
        /\ UNCHANGED <<orders, history>>
  /\ UNCHANGED <<stopPrice, side, level, oldId, names, position, positions,
                 placed>>

(* With nothing left to reduce the exchange refuses, and the call raises.  *)
SendClose ==
  /\ pc = "close:order" /\ Done
  /\ \/ /\ position # None /\ Flat /\ UNCHANGED bounds
        /\ stopPrice' = [stopPrice EXCEPT ![names.id] = None]
     \/ /\ position = None /\ UNCHANGED <<stopPrice, exchange, bounds>>
     \/ /\ Fails("close") /\ Exposes /\ UNCHANGED <<stopPrice, exchange>>
     \/ /\ position # None /\ Fails("closeReply") /\ Flat
        /\ UNCHANGED <<stopPrice, history>>
  /\ UNCHANGED <<stopId, side, level, oldId>>

-----------------------------------------------------------------------------
(* modify_stop_loss()                                                      *)

ImprovesAlways(l) == TRUE                       \* fault: no comparison

(* The stop the bot compares with is the one kept under the reported       *)
(* symbol: an absent entry reads as price zero, which any long stop        *)
(* improves on and no short stop does; one left by an earlier position     *)
(* compares anyhow.                                                        *)
Improves(l) ==
  LET kept == stopPrice[names.reported] IN
  /\ kept = None => position.side = "long"
  /\ kept # None /\ kept.for = position.id => l > kept.level

BeginModify ==
  /\ pc = "idle" /\ position # None /\ placed < MaxOrders
  /\ level' \in Levels \ {0} /\ Improves(level')
  /\ pc' = "modify:find"
  /\ UNCHANGED <<stopPrice, stopId, side, oldId, exchange, bounds>>

CancelsFirst ==                                 \* fault: old stop goes first
  /\ pc = "modify:find" /\ position # None
  /\ pc' = "modify:stop" /\ oldId' = stopId[names.id] /\ side' = position.side
  /\ orders' = {o \in orders : o.id # stopId[names.id]}
  /\ UNCHANGED <<stopPrice, stopId, level, names, position, positions, placed,
                 bounds>>

FindToModify ==
  /\ pc = "modify:find"
  /\ IF position = None
       THEN Done /\ UNCHANGED <<side, oldId>>
       ELSE /\ pc' = "modify:stop" /\ oldId' = stopId[names.id]
            /\ side' = position.side
  /\ UNCHANGED <<stopPrice, stopId, level, exchange, bounds>>

RecordedFirst ==                                \* fault: noted before placed
  /\ pc = "modify:stop" /\ position # None
  /\ stopPrice' = [stopPrice EXCEPT ![names.id] =
                      [for |-> positions, level |-> level]]
  /\ \/ /\ Accept(side, level) /\ pc' = "modify:cancel"
        /\ stopId' = [stopId EXCEPT ![names.id] = placed + 1]
        /\ UNCHANGED bounds
     \/ /\ Fails("stop") /\ Done
        /\ UNCHANGED <<stopId, exchange, history>>
  /\ UNCHANGED <<side, level, oldId>>

(* The new stop goes in before the old one is touched.                     *)
PlaceNewStop ==
  /\ pc = "modify:stop"
  /\ \/ /\ Accept(side, level) /\ pc' = "modify:cancel"
        /\ Note(names.id, level)
        /\ UNCHANGED bounds
     \/ /\ Fails("stop") /\ Done
        /\ UNCHANGED <<stopPrice, stopId, exchange, history>>
     \/ /\ Fails("stopReply") /\ Accept(side, level) /\ Done
        /\ UNCHANGED <<stopPrice, stopId, history>>
     \/ /\ position = None /\ ~AcceptsIdleStops /\ Done
        /\ UNCHANGED <<stopPrice, stopId, exchange, bounds>>
  /\ UNCHANGED <<side, level, oldId>>

(* The superseded stop is cancelled; a failure is only logged.             *)
CancelSuperseded ==
  /\ pc = "modify:cancel" /\ Done
  /\ \/ /\ orders' = {o \in orders : o.id # oldId}
        /\ UNCHANGED bounds
     \/ /\ oldId # None /\ Fails("cancelOld")
        /\ UNCHANGED <<orders, history>>
  /\ UNCHANGED <<adapter, names, position, positions, placed>>

-----------------------------------------------------------------------------
(* Where a call has taken the stop away, or not attached it yet.           *)
Bare == {"open:stop", "open:flatten", "close:order"}

NothingKept == [k \in Keys |-> None]

(* A new process knows no stop price and no order id.                      *)
Restart ==
  /\ restarts < MaxRestarts /\ restarts' = restarts + 1
  /\ pc = "idle" \/ Crashes
  /\ exposed' = IF pc \in Bare /\ position # None
                  THEN exposed \cup {position.id} ELSE exposed
  /\ pc' = "idle"
  /\ stopPrice' = NothingKept /\ stopId' = NothingKept
  /\ side' = None /\ level' = None /\ oldId' = None
  /\ UNCHANGED <<exchange, faults>>

Init ==
  /\ pc = "idle" /\ names \in Namings
  /\ stopPrice = NothingKept /\ stopId = NothingKept
  /\ side = None /\ level = None /\ oldId = None
  /\ position = None /\ orders = {} /\ positions = 0 /\ placed = 0
  /\ exposed = {}
  /\ faults = 0 /\ restarts = 0

Next ==
  \/ StopFires
  \/ BeginOpen \/ SendEntry \/ AttachStop \/ Flatten
  \/ BeginClose \/ FindToClose \/ CancelStopOrder \/ SendClose
  \/ BeginModify \/ FindToModify \/ PlaceNewStop \/ CancelSuperseded
  \/ Restart

Spec == Init /\ [][Next]_vars

-----------------------------------------------------------------------------
(* Properties.                                                             *)

Steps == {"idle", "open:entry", "open:stop", "open:flatten", "close:find",
          "close:cancel", "close:order", "modify:find", "modify:stop",
          "modify:cancel"}

(* Type correctness of the adapter and the exchange. *)
TypeOK ==
  /\ pc \in Steps
  /\ names \in Namings
  /\ stopPrice \in [Keys -> [for : Nat, level : Levels] \cup {None}]
  /\ stopId \in [Keys -> Nat \cup {None}] /\ oldId \in Nat \cup {None}
  /\ side \in Sides \cup {None} /\ level \in Levels \cup {None}
  /\ position \in [id : Nat, side : Sides] \cup {None}
  /\ orders \subseteq [id : Nat, side : Sides, level : Levels, for : Nat]
  /\ positions \in 0 .. MaxPositions /\ placed \in 0 .. MaxOrders
  /\ exposed \subseteq 1 .. MaxPositions
  /\ faults \in 0 .. MaxFaults /\ restarts \in 0 .. MaxRestarts

OwnStops == {o \in orders : position # None /\ o.for = position.id}

(* A position has a live stop of its own whenever its entry is complete    *)
(* and its close has not begun, in particular all through the replacement  *)
(* of its stop, whichever request fails and whenever the process restarts; *)
(* the only exceptions are an entry whose reply is lost, a close or a      *)
(* compensating close that fails, and a crash in the middle of either.     *)
Protected ==
  position # None /\ position.id \notin exposed /\ pc \notin Bare
    => OwnStops # {}

(* No stop price the adapter keeps for a position, under whatever name, is *)
(* better than the best stop that is live on the exchange, with the same   *)
(* exceptions.                                                             *)
CacheNeverOverstates ==
  position # None /\ position.id \notin exposed /\ pc # "close:order" =>
    \A k \in Keys :
      stopPrice[k] # None /\ stopPrice[k].for = position.id
        => \E o \in OwnStops : o.level >= stopPrice[k].level

(* A replacement is compared with the stop it replaces only if the         *)
(* exchange reports positions under the name the adapter keeps stops by.   *)
SeesItsStop == names.reported = names.id

(* The profit a stop locks is not given up: all of it where the bot sees   *)
(* the stop it replaces, otherwise at least that there is one.             *)
LevelKept(o) == IF SeesItsStop \/ o.level = 0 THEN o.level ELSE 1

(* While a position lives its best stop is never taken away, except by the *)
(* cancellation a close begins with.  It is never loosened where the bot   *)
(* sees it, although a restarted adapter no longer does; where the         *)
(* exchange spells the symbol otherwise, it may move back, but from        *)
(* breakeven on never to the stop of the entry.                            *)
StopNeverLoosens ==
  [][position # None /\ position' = position /\ pc # "close:cancel"
       => \A o \in OwnStops :
            \E n \in OwnStops' : n.level >= LevelKept(o)]_vars

(* What the repository says of every spelling, and the code does not do    *)
(* for the one of futures: the stop of a position never moves backward.    *)
NeverBackward ==
  [][position # None /\ position' = position /\ pc # "close:cancel"
       => \A o \in OwnStops : \E n \in OwnStops' : n.level >= o.level]_vars

(* No stop order of an earlier position can close the present one.         *)
NoStaleStop ==
  position # None
    => \A o \in orders : o.side = position.side => o.for = position.id

(* What the repository says and the code does not do: no failure leaves a  *)
(* position without its stop between two broker calls.                     *)
NeverExposed == position # None /\ pc = "idle" => OwnStops # {}
=============================================================================
