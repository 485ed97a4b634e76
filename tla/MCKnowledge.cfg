SPECIFICATION MCSpec
CONSTANTS
    c1 = c1
    c2 = c2
    w1 = w1
    None = None
    Clients = {c1, c2}
    Truths = {1, 2, 3}
    Sources <- MCSources
    ReviewInputs = {"unreviewed", "rejected"}
    Procs = {1, 2, 3}
    Projects = {w1}
    Versions = {1, 2}
    r1 = r1
    r2 = r2
    Memos = {1, 2}
    Readers = {r1, r2}
    MaxClock = 1
    Forms <- MCForms
    FewerCommits = 2
    MaxCommits = 3
INVARIANTS ReportIsOneMoment MemoriesSound TruthSound
PROPERTIES ProceduresSound ExportDecided
SYMMETRY Symmetry
CHECK_DEADLOCK FALSE
