------------------------------- MODULE MCMT5 --------------------------------
(* Values of MT5Orders' constants for model checking.                      *)
EXTENDS MT5Orders

AnyOutcome == AllOutcomes
=============================================================================
