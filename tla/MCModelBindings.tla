-------------------------- MODULE MCModelBindings --------------------------
EXTENDS ModelBindings, TLC

CONSTANTS r1, m1

OneRuntime == [m \in Models |-> r1]
OneModel == [b \in Bindings |-> m1]

Symmetry == Permutations(Clients) \cup Permutations(Bindings)
============================================================================
