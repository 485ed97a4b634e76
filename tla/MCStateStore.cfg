\* Two processes or one, with an ordinary and an instruction_origin record.
SPECIFICATION CrewSpec
CONSTANTS
    p1 = p1
    p2 = p2
    r1 = r1
    r2 = r2
    Proc = {p1, p2}
    Records = {r1, r2}
    OriginRecords = {r2}
    CurrentSchema = 2
    MaxRevision = 3
    MaxFailures = 1
SYMMETRY Symmetry
INVARIANTS TypeOK WorkspaceNeverAhead NoLostUpdate MigrationsSound SyncedAlone
PROPERTY ImplementsLedger
