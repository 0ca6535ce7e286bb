-------------------------------- MODULE Lists --------------------------------
(***************************************************************************)
(* Two things the program does to lists and columns: sum() them, and keep  *)
(* the rows that satisfy a condition.  Both go through the list from left  *)
(* to right.  The condition is given as the set of rows that satisfy it.   *)
(***************************************************************************)
EXTENDS Integers, SequencesExt

Sum(numbers) == FoldLeft(+, 0, numbers)

Kept(rows, S) ==
  FoldLeft(LAMBDA kept, row : IF row \in S THEN Append(kept, row) ELSE kept,
           <<>>, rows)
=============================================================================
