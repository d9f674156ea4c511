SPECIFICATION Spec
CONSTANTS
    a = a
    x = x
    m1 = m1
    m2 = m2
    s1 = s1
    s2 = s2
    p1 = p1
    p2 = p2
    q1 = q1
    q2 = q2
    Domain = {a, x}
    Malformed = Malformed
    MaxGoverning = 64
    Proc = {p1, p2}
    Queue = {q1}
    Message = {m1}
    Hosted = {a}
    Source = {s1}
    Administered = {s1}
    SourceDomain <- MCSourceDomain
    Recipients <- MCRecipients
    Sources <- MCSources
    MaxRevision = 3
    LateCommands = FALSE
    NoMessage = NoMessage
    NoProc = NoProc
    NoQueue = NoQueue
    NoPlan = NoPlan
SYMMETRY Symmetry
INVARIANTS RecordTellsTheTruth
PROPERTIES ReleaseIsPermitted KeepsPromise
