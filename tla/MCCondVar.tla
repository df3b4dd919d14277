------------------------------ MODULE MCCondVar ------------------------------
(* Small instances of CondVar for TLC. *)
EXTENDS CondVarMonitor, TLC

CONSTANTS a, b, d, m1, m2, c1, c2

\* Threads that nobody can tell apart.
TwoAlike == Permutations({a, b})
ThreeAlike == Permutations({a, b, d})
===============================================================================
