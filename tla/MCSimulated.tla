---------------------------- MODULE MCSimulated -----------------------------
(* Four prices and a take-profit of two ticks; the journal file is missing *)
(* or holds three rows of earlier sessions: a breakeven stop that slipped, *)
(* and then any of such a row, a take-profit, and a stop-out recorded with *)
(* no P&L.                                                                 *)
EXTENDS SimulatedModes

Slipped == [pnl |-> -1, reason |-> "BREAKEVEN_SL"]
EarlierRows ==
  {Slipped, [pnl |-> 2, reason |-> "TP_CASH"],
   [pnl |-> 0, reason |-> "HARD_SL"]}
MCOldJournals ==
  {<<>>} \cup {<<Slipped, r, s>> : r, s \in EarlierRows}
MCMaxLoss == -3
=============================================================================
