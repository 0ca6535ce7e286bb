------------------------------ MODULE MCMarket ------------------------------
(* Rows one, two or four minutes apart, days of eight minutes.  The unit   *)
(* makes every average below an exact division; the cost is wide enough    *)
(* for the narrowest ranges to be refused.                                 *)
EXTENDS MarketData

Unit == 373248
MCCost == 3 * Unit

Candle(low, high, close, volume) ==
  [open |-> 4 * Unit, high |-> high * Unit, low |-> low * Unit,
   close |-> close * Unit, volume |-> volume]

(* A rise, a fall that mirrors it, and a bar nobody traded in. *)
MCCandles == {Candle(3, 7, 7, 1), Candle(1, 5, 1, 1), Candle(3, 5, 4, 0)}

(* The premises of the theorems about decisions hold here. *)
ASSUME ProperCandles /\ BufferCounts
=============================================================================
