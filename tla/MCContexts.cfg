SPECIFICATION MCSpec
CONSTANTS
    o1 = o1
    o2 = o2
    o3 = o3
    o4 = o4
    r1 = r1
    r2 = r2
    None = None
    Absent = Absent
    Nothing = Nothing
    Null = Null
    Inodes = {1, 2}
    Values = {1, 2}
    MaxSize = 1
    MaxClock = 1
    MaxChanges = 2
    MaxEvents = 4
    MaxChars = 3
    MaxLines = 5
    Origins = {1, 2}
    Policies = {p1}
    Rules = {a1, a2}
    Callers = {k1}
    Classes = {"durable_user_policy", "current_user_instruction", "external_content"}
    MaxItems = 2
    MaxRevision = 3
    Workers = {w1, w2}
    Operations = {o1, o2, o3, o4}
    Workflow <- MCWorkflow
    Records = {r1, r2}
    Linked = {r1}
    MaxSources = 2
    Secret = 2
    MaxVersion = 2
INVARIANTS StableRead TranscriptFaithful AuthorityGrounded WorkflowsSound
PROPERTIES StreamEnds
CHECK_DEADLOCK FALSE
