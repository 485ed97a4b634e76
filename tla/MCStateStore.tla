---------------------------- MODULE MCStateStore ----------------------------
(* Model-checking instance of StateStore: all processes at once, or one of  *)
(* them alone.                                                              *)
EXTENDS StateStore, TLC

Symmetry == Permutations(Proc)
=============================================================================
