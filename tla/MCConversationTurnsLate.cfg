SPECIFICATION Spec
CONSTANTS
    Turns = {t1, t2}
    Conversations = {c1}
    Ops = {o1, o2}
    MaxConcurrent = 1
    MaxEvents = 6
    Faults = {"late"}
SYMMETRY Symmetry
INVARIANTS FailedTurnLeavesNothing
