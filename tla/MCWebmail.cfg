SPECIFICATION MCSpec
CONSTANTS
    box = box
    other = other
    r1 = r1
    r2 = r2
    r3 = r3
    bad = bad
    None = None
    Mailbox = {box, other}
    Configured = {box}
    Address = {r1, r2, r3, bad}
    Malformed = {bad}
    Draft = {d1}
    Request = {q1, q2, q3}
    Document <- MCDocument
    MaxUid = 4
    Limit = 1
    MaxSigned = 4
    MaxSignature = 2
INVARIANTS SentOnceAsWritten NothingIsLost SplitUndoesAssembly
PROPERTIES SubmissionEnds
CHECK_DEADLOCK FALSE
