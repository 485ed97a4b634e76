\* Two clients interleave their validations and commits on two items that may
\* link each other and one record.
SPECIFICATION Spec
CONSTANTS
    c1 = c1
    c2 = c2
    w1 = w1
    w2 = w2
    s1 = s1
    Clients = {c1, c2}
    Items = {w1, w2}
    Sources = {s1}
    MaxCommits = 4
SYMMETRY Symmetry
INVARIANT WorkSound
PROPERTY WorkStepsSound
CHECK_DEADLOCK FALSE
