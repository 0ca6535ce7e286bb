------------------------------ MODULE MCReplay ------------------------------
(* Values of Replay's constants for model checking, and its mutants.       *)
EXTENDS Replay

Row(o, l, h, c) == [open |-> o, low |-> l, high |-> h, close |-> c]

(* Rows that rise, fall, stay, and reach through a stop from either side.  *)
MCPrices == 1 .. 13
MCBars == { Row(4, 3, 5, 5), Row(4, 4, 11, 11), Row(10, 10, 11, 10),
            Row(11, 10, 13, 13), Row(11, 5, 11, 5), Row(7, 2, 7, 2) }
MCStops == {1, 3, 8, 11}
MCMaxLoss == -5
MCFeeOf == [p \in MCPrices |-> IF p >= 13 THEN 6 ELSE IF p >= 11 THEN 1 ELSE 0]
=============================================================================
