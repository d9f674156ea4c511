SPECIFICATION MCSpec
CONSTANTS
    Callback = {c1, c2}
    Account = {x}
    Actor = {a}
    Authorized = {a}
    Snapshot = {s1}
    Action = "queue:retry"
    Lifetime = 3
    Lease = 1
    MaxTime = 4
    NoActor = NoActor
    NoBinding = NoBinding
    NoInput = NoInput
    Gone = Gone
    Client = {k1, k2}
    ReleaseHolder = {k1}
    QueueID = {i1}
    MaxFaults = 3
    NoFile = NoFile
    NoID = NoID
    MaxRestarts = 2
INVARIANTS RowTellsWhatRan ExclusiveExecution OkWasDone
PROPERTIES ClaimsEnd StopTogether
