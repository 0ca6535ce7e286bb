----------------------------- MODULE MCStartup ------------------------------
(* One rule of each validator stands for all of them: a file breaks some   *)
(* or none.                                                                *)
EXTENDS Startup

MCRules == {"allow_grid must be false"}
MCLimits == {"recv_window must be positive"}
=============================================================================
