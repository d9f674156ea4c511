SPECIFICATION MCSpec
CONSTANTS
    None = None
    d1 = d1
    d2 = d2
    u1 = u1
    u2 = u2
    key = key
    w1 = w1
    w2 = w2
    w3 = w3
    b = b
    m1 = m1
    m2 = m2
    m9 = m9
    Actor = {admin}
    Domain = {d1, d2}
    Address = {u1, u2}
    Home <- MCHome
    Source <- MCSource
    Batch <- MCBatch
    Call = {q1, q2}
    Days = {1, 2}
    LastDay = 4
    MaxEvents = 3
    MaxRetentions = 2
    Box = {b1, b2}
    MaxChanges = 1
    Verification = {v1, v2}
    Engine = {"local", "sql"}
    Operator = {o1, o2}
    Role = {manager}
    Secret = {s1, s2}
    MaxIssued = 3
    NoPlan = NoPlan
    MaxFlips = 3
    MaxCrashes = 2
    MaxSeq = 4
    Commands = {c1}
    Callbacks = {a1}
    Unsupported = {x1}
    Hook = {h1, h2}
    MaxDeliveries = 2
    MaxLost = 1
    Server = {w1, w2, w3}
    Base = {b}
    Foreign = m9
    Upgrades <- MCUpgrades
    Release <- MCRelease
    Senders <- MCSenders
    Databases <- MCDatabases
    MaxDeaths = 1
    Nobody = Nobody
INVARIANTS ReportsAreTrue DeletionsAreJustified  ReplacesWhatWasShown NeitherLostNorRepeated  MigrationsAreSafe
PROPERTIES FailureIsReported StartsComplete
CHECK_DEADLOCK FALSE
