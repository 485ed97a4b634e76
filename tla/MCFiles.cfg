\* Two turns of one conversation or of two, with every modelled fault; or two copies of
\* any kinds beside a writer that adds an artifact; or two returns into one
\* target.  The parts share the names of their two processes, which keeps the
\* symmetry group small.
SPECIFICATION MCSpec
CONSTANTS
    p1 = p1
    p2 = p2
    c1 = c1
    c2 = c2
    o1 = o1
    o2 = o2
    Turns = {p1, p2}
    Conversations = {c1, c2}
    Ops = {o1, o2}
    MaxConcurrent = 2
    MaxEvents = 6
    Faults = {"late", "cleanup"}
    a1 = a1
    Copies = {p1, p2}
    Arts = {a1}
    MaxRev = 3
    Returns = {p1, p2}
SYMMETRY Symmetry
INVARIANTS TurnsWhole EventsOrdered
PROPERTIES CopiesSound ReturnsSound
CHECK_DEADLOCK FALSE
