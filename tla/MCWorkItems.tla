----------------------------- MODULE MCWorkItems -----------------------------
(* Model-checking instances of WorkItems. *)
EXTENDS WorkItems, TLC

Symmetry == Permutations(Clients) \union Permutations(Items)
=============================================================================
