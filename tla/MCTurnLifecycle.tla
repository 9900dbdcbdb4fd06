---- MODULE MCTurnLifecycle ----
(* TurnLifecycle for TLC: interchangeable call slots. *)
EXTENDS TurnLifecycle, TLC
SlotSymmetry == Permutations(Calls)
====
