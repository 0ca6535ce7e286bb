----------------------------- MODULE MT5Orders ------------------------------
(***************************************************************************)
(* MT5Broker with allow_live_trading on, on an account that keeps each     *)
(* deal as a position of its own and that others trade on as well.  A stop *)
(* is part of the entry order; an order is sent once per filling mode      *)
(* until one answers DONE; a query that fails reads as an empty result.    *)
(*                                                                         *)
(* One action per request to the terminal.  pc names the request due next, *)
(* "idle" between two broker calls.                                        *)
(*                                                                         *)
(* Abstractions.  A stop is a number of ticks, larger meaning more profit  *)
(* for the position it protects; the symbol's digits are a grid of Point   *)
(* ticks, Point odd so that rounding meets no ties.  The terminal is       *)
(* external.                                                               *)
(***************************************************************************)
EXTENDS Integers, FiniteSets

CONSTANTS
  None,
  Modes,      \* how many filling modes there are
  Volume,     \* default_quantity, in volume steps
  Point,      \* ticks between two prices the symbol can quote
  Outcomes,   \* what may happen besides DONE and a rejection
  \* bounds of an instance
  MaxTicks, MaxPositions, MaxFaults

AllOutcomes == {"partial", "unreported", "lookup"}

ASSUME MT5Assumption ==
  /\ {Modes, Volume} \subseteq Nat \ {0}
  /\ Point \in Nat /\ Point % 2 = 1
  /\ Outcomes \subseteq AllOutcomes
  /\ {MaxTicks, MaxPositions, MaxFaults} \subseteq Nat

VARIABLES
  pc,
  tries,      \* filling modes left
  target,     \* the position a call is about
  ticks,      \* the stop a modify was given
  positions,  \* [id, own, volume, stop]
  opened,     \* how many positions there were
  doubtful,   \* history: was an execution or a position not reported?
  faults

call == <<tries, target, ticks>>
vars == <<pc, call, positions, opened, doubtful, faults>>

Steps == {"idle", "open", "close:find", "close:send", "modify:find",
          "modify:send"}

EveryPosition(p) == TRUE                        \* fault: any magic number
IsOwn(p) == p.own
Own == {p \in positions : IsOwn(p)}

(* round(price, digits) *)
NormalizePrice(t) == Point * ((t + Point \div 2) \div Point)

Happens(outcome) ==
  /\ outcome \in Outcomes /\ faults < MaxFaults
  /\ faults' = faults + 1 /\ doubtful' = TRUE

AsExpected == UNCHANGED <<doubtful, faults>>

-----------------------------------------------------------------------------
(* The terminal.                                                           *)

Deal(volume, own) ==
  /\ opened < MaxPositions /\ opened' = opened + 1
  /\ positions' = positions \cup
       {[id |-> opened + 1, own |-> own, volume |-> volume, stop |-> 0]}

StopFires ==
  /\ \E p \in positions : positions' = positions \ {p}
  /\ UNCHANGED <<pc, call, opened, doubtful, faults>>

(* Somebody else opens a position, under another magic number. *)
OthersOpen ==
  /\ Deal(Volume, FALSE)
  /\ UNCHANGED <<pc, call, doubtful, faults>>

(* The request was not answered DONE: the next mode, or the call raises.   *)
NextMode ==
  /\ tries' = tries - 1
  /\ pc' = IF tries > 1 THEN pc ELSE "idle"

-----------------------------------------------------------------------------
(* open_market_order().  Whether the look-up after DONE finds the position *)
(* decides only whether the call raises.                                   *)

BeginOpen ==
  /\ pc = "idle" /\ opened + Modes <= MaxPositions
  /\ \/ Own = {} /\ AsExpected
     \/ Own # {} /\ Happens("lookup")
  /\ pc' = "open" /\ tries' = Modes
  /\ UNCHANGED <<target, ticks, positions, opened>>

SendEachMode ==                                 \* fault: DONE does not return
  /\ pc = "open"
  /\ Deal(Volume, TRUE) /\ NextMode /\ AsExpected
  /\ UNCHANGED <<target, ticks>>

SendOpen ==
  /\ pc = "open"
  /\ \/ /\ Deal(Volume, TRUE) /\ AsExpected
        /\ pc' = "idle" /\ UNCHANGED tries
     \/ /\ NextMode /\ AsExpected
        /\ UNCHANGED <<positions, opened>>
     \/ /\ Happens("partial") /\ NextMode
        /\ \E v \in 1 .. Volume - 1 : Deal(v, TRUE)
     \/ /\ Happens("unreported") /\ NextMode
        /\ Deal(Volume, TRUE)
  /\ UNCHANGED <<target, ticks>>

-----------------------------------------------------------------------------
(* close_position() and modify_stop_loss()                                 *)

(* The loop decides on the first position get_open_position() reports.     *)
BeginClose ==
  /\ pc = "idle" /\ pc' = "close:find"
  /\ target' \in Own
  /\ UNCHANGED <<tries, ticks, positions, opened, doubtful, faults>>

ImprovesAlways(t, p) == t # p.stop              \* fault: either way
Improves(t, p) == t > p.stop

BeginModify ==
  /\ pc = "idle" /\ pc' = "modify:find"
  /\ target' \in Own
  /\ ticks' \in 1 .. MaxTicks /\ Improves(ticks', target')
  /\ UNCHANGED <<tries, positions, opened, doubtful, faults>>

(* _get_real_position_or_raise(): as it is now, and only if it is own.     *)
FindTarget ==
  /\ pc \in {"close:find", "modify:find"}
  /\ \/ /\ target' \in {p \in Own : p.id = target.id}
        /\ pc' = IF pc = "close:find" THEN "close:send" ELSE "modify:send"
        /\ AsExpected
     \/ /\ \A p \in Own : p.id # target.id
        /\ pc' = "idle" /\ UNCHANGED target /\ AsExpected
     \/ /\ Happens("lookup")
        /\ pc' = "idle" /\ UNCHANGED target
  /\ tries' = Modes
  /\ UNCHANGED <<ticks, positions, opened>>

Found == {p \in positions : p.id = target.id}

(* A close names its ticket and the volume that was found, and is refused  *)
(* once less than that is left.                                            *)
SendClose ==
  /\ pc = "close:send"
  /\ \/ /\ \E p \in Found : p.volume = target.volume
        /\ positions' = positions \ Found /\ AsExpected
        /\ pc' = "idle" /\ UNCHANGED tries
     \/ /\ NextMode /\ AsExpected
        /\ UNCHANGED positions
     \/ /\ Happens("unreported") /\ NextMode
        /\ \E p \in Found : p.volume = target.volume
        /\ positions' = positions \ Found
     \/ /\ Happens("partial") /\ NextMode
        /\ \E p \in Found, v \in 1 .. Volume - 1 :
             /\ p.volume = target.volume /\ v < p.volume
             /\ positions' = (positions \ Found) \cup {[p EXCEPT !.volume = v]}
  /\ UNCHANGED <<target, ticks, opened>>

(* The stop is rounded when it is sent; one that is already there is       *)
(* refused.                                                                *)
SendModify ==
  /\ pc = "modify:send" /\ pc' = "idle"
  /\ \/ /\ \E p \in Found :
             /\ NormalizePrice(ticks) # p.stop
             /\ positions' = (positions \ Found) \cup
                               {[p EXCEPT !.stop = NormalizePrice(ticks)]}
     \/ UNCHANGED positions
  /\ UNCHANGED <<call, opened, doubtful, faults>>

Init ==
  /\ pc = "idle" /\ tries = Modes /\ target = None /\ ticks = 0
  /\ positions = {} /\ opened = 0 /\ doubtful = FALSE /\ faults = 0

Next ==
  \/ StopFires \/ OthersOpen
  \/ BeginOpen \/ SendOpen
  \/ BeginClose \/ BeginModify \/ FindTarget \/ SendClose \/ SendModify

Spec == Init /\ [][Next]_vars

-----------------------------------------------------------------------------
(* Properties.                                                             *)

(* Prices the symbol can quote, up to one step above the bound. *)
Grid == {t \in 0 .. MaxTicks + Point : t % Point = 0}

Positions == [id : 1 .. MaxPositions, own : BOOLEAN, volume : 1 .. Volume,
              stop : Grid]

(* Type correctness; in particular every stop can be quoted. *)
TypeOK ==
  /\ pc \in Steps /\ tries \in 0 .. Modes
  /\ target \in Positions \cup {None} /\ ticks \in 0 .. MaxTicks
  /\ positions \subseteq Positions /\ opened \in 0 .. MaxPositions
  /\ doubtful \in BOOLEAN /\ faults \in 0 .. MaxFaults

(* However many filling modes are rejected and whenever stops fire, the    *)
(* bot holds at most one position, unless an execution went unreported, a  *)
(* deal was filled in part, or a query failed.                             *)
OnePosition == ~doubtful => Cardinality(Own) <= 1

(* No request of the bot changes a position of another magic number.       *)
ForeignUntouched ==
  [][<<pc, tries>>' # <<pc, tries>>
       => \A p \in positions : p.own \/ p \in positions']_vars

(* The stop of a position never loosens, although an improvement is judged *)
(* on the unrounded price and the rounded one is sent.                     *)
StopNeverSlips ==
  [][\A p \in positions, q \in positions' :
       p.id = q.id => q.stop >= p.stop]_vars
=============================================================================
