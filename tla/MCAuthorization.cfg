\* Two clients: two permission records of one identity, two settings of one key,
\* or one confirmation of two high-risk requests beside a malformed one.
SPECIFICATION MCSpec
CONSTANTS
    c1 = c1
    c2 = c2
    r1 = r1
    r2 = r2
    r3 = r3
    low = low
    p1 = p1
    p2 = p2
    k1 = k1
    f1 = f1
    Clients = {c1, c2}
    Requests = {r1, r2, r3, low}
    HighRisk = {r1, r2}
    Malformed = {r3}
    Perms = {p1, p2}
    Keys = {k1}
    KeyOf <- OneKey
    Confs = {f1}
    TTL = 1
    MaxTime = 2
    MaxRev = 3
    s1 = s1
    s2 = s2
    n1 = n1
    Users = {c1, c2}
    Settings = {s1, s2}
    Names = {n1}
    MaxChanges = 3
SYMMETRY Symmetry
INVARIANT ConfirmationSound
PROPERTIES PermissionSound SettingsSound
\* Settings end when both records are archived.
CHECK_DEADLOCK FALSE
