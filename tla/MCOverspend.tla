----------------------------- MODULE MCOverspend -----------------------------
(* Instances of Overspend for TLC *)
EXTENDS Overspend, TLC

CONSTANT MaxLost   \* bound: lost marks in all

(* beyond this nothing is explored *)
Bounded == Cardinality({x \in Budgets \X Periods : missed[x[1]][x[2]] > 0}) <= MaxLost

(* budgets are interchangeable *)
Symmetry == Permutations(Budgets)

=============================================================================
