\* One client leaves a terminal blocker behind.
SPECIFICATION Spec
CONSTANTS
    c1 = c1
    w1 = w1
    w2 = w2
    w3 = w3
    Clients = {c1}
    Items = {w1, w2, w3}
    Sources = {}
    MaxCommits = 6
SYMMETRY Symmetry
INVARIANT NoTerminalBlocker
CHECK_DEADLOCK FALSE
