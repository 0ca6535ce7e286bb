------------------------------- MODULE MCLive -------------------------------
(* Values of LiveLoop's constants for model checking.                      *)
EXTENDS LiveLoop

MCMaxLoss == -2
AllCalls == Calls
AllButJournal == Calls \ {"journal"}
OnlyJournal == {"journal"}
BarsAndPnl == {"bars", "pnl"}
OnlyPositions == {"positions"}
NoCalls == {}
=============================================================================
