SPECIFICATION MCSpec
CONSTANTS
    v1 = v1
    v2 = v2
    none = none
    c1 = c1
    Call = {t1, t2}
    Process = {p1, p2}
    Version = {v1, v2}
    Config = {none, c1}
    Secret = {s1}
    Fit <- MCFit
    EmptyConfig = none
    MaxRevision = 3
    MaxPreviews = 1
    NoRow = NoRow
    NoSecret = NoSecret
    NoSnapshot = NoSnapshot
    NoProcess = NoProcess
    Gone = Gone
    Kept = Kept
    Tool = {k1, k2}
    SetID = {a1, a2}
    Parts = 2
    MaxCommands = 4
    MaxInterrupts = 1
    NoSet = NoSet
    Plugin = {g1, g2}
    HealthCaller = {h1}
    Session = {e1, e2}
    PluginToken = {w1, w2}
    OwnSession = e1
    OwnToken = w1
    MaxStarts = 4
    NoPlugin = NoPlugin
    Builder = {b1, b2}
    BuildInput = {i1, i2}
    MaxBuilds = 4
    NoInput = NoInput
SYMMETRY Symmetry
INVARIANTS  ChildrenAreKnown Agreement CurrentIsSound HealthyIsOwn
