-------------------------- MODULE MCThreadLifecycle --------------------------
(* Small instances of ThreadLifecycle for TLC. *)
EXTENDS ThreadLifecycle, TLC

CONSTANTS a, b

Alike == Permutations({a, b})
===============================================================================
