SPECIFICATION MCSpec
CONSTANTS
    c1 = c1
    c2 = c2
    w1 = w1
    w2 = w2
    i1 = i1
    i2 = i2
    x1 = x1
    m1 = m1
    e1 = e1
    e2 = e2
    f1 = f1
    None = None
    Clients = {c1, c2}
    Projs = {w1, w2}
    Decisions = {1, 2}
    Experiences = {1, 2, 3}
    Policies = {x1}
    Memos = {m1}
    Items = {i1, i2}
    Milestones = {i2}
    ItemStatuses = {"ready", "completed", "blocked"}
    Home = w1
    Cps = {1}
    Layouts <- MCLayouts
    Exporters = {e1, e2}
    Paths = {f1}
    Publishers = {e1, e2}
    Prefixes = {f1}
    Asked <- MCAsked
    DependsOn <- MCDependsOn
    BlockedBy <- MCBlockedBy
    CapabilityNames = {"write", "delete", "fetch", "other"}
    Registry <- MCRegistry
    Sayings <- MCSayings
    MaxCommits = 4
    FewerCommits = 2
    SomeCommits = 3
INVARIANTS BundleBounded EscapeIsOneMoment PreflightClear
PROPERTIES ProjectsSound CheckpointsSound  ExportsKept
SYMMETRY Symmetry
CHECK_DEADLOCK FALSE
