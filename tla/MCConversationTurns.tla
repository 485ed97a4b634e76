----------------------- MODULE MCConversationTurns -----------------------
EXTENDS ConversationTurns, TLC

Symmetry == Permutations(Turns) \cup Permutations(Ops)
============================================================================
