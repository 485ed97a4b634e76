\* Two publishers, two batches, ten import jobs; and the staging of a
\* thousand sources by three adapters.
SPECIFICATION MCSpec
CONSTANTS
    c1 = c1
    c2 = c2
    b1 = b1
    b2 = b2
    e1 = e1
    e2 = e2
    NoRecord = NoRecord
    Clients = {c1, c2}
    Batches = {b1, b2}
    SourceIds = {1, 2, 3}
    Environments = {e1, e2}
    Adapters <- MCAdapters
    Imports <- MCJobs
    Stage <- StageResult
    Nodes = {1, 2, 3}
    Members = {1, 2}
    MaxProjection = 1
    MaxEdits = 2
    MessageIds = {1, 2, 3, 4}
    MaxMessages = 4
    MaxVersion = 2
    Foreign <- MCForeign
    NoBundle = NoBundle
SYMMETRY Symmetry
INVARIANTS StagingSound ForeignChatsSound
PROPERTY PublicationSound
CHECK_DEADLOCK FALSE
