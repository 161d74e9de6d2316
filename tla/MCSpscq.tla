------------------------------ MODULE MCSpscq -------------------------------
(* Instances of Spscq for TLC.                                             *)
EXTENDS Spscq, Cover

(* A shuffled qslotmap: the lines in reverse order, and the slots of each. *)
Reversed == [i \in 0 .. QLen - 1 |-> QLen - 1 - i]

(* `cover -c' with the program's own bounds, `cover -r' with smaller ones: *)
(* both formulas are right.                                                *)
ASSUME CoverRight == cover(256, 8)
ASSUME RollRight  == roll(256, 9, 8)

=============================================================================
