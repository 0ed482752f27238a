--------------------------- MODULE MCSpendBudget ---------------------------
(***************************************************************************)
(* SpendBudget with three request threads, ceilings that include 0 (paid   *)
(* calls disabled), and a calendar of three days.                          *)
(***************************************************************************)
EXTENDS SpendBudget, TLC

CONSTANTS c1, c2, c3

const_Callers == {c1, c2, c3}
Symmetry == Permutations(const_Callers)
=============================================================================
