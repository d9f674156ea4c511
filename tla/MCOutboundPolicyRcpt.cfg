SPECIFICATION MCSpec
CONSTANTS
    a = a
    b = b
    x = x
    m1 = m1
    m2 = m2
    s1 = s1
    s2 = s2
    p1 = p1
    q1 = q1
    q2 = q2
    owner = owner
    list = list
    sales = sales
    other = other
    stranger = stranger
    listRow = listRow
    salesRow = salesRow
    catchAll = catchAll
    twin = twin
    robot = robot
    Domain = {a, b, x}
    Malformed = Malformed
    Undecided = Undecided
    MaxGoverning = 3
    Request <- MCRequest
    Proc = {p1}
    Queue = {q1, q2}
    Message = {m1, m2}
    Hosted = {a}
    Source = {s1, s2}
    Administered = {s1}
    SourceDomain <- MCSourceDomain
    Recipients <- MCRecipients
    Sources <- MCSources
    MaxRevision = 2
    LateCommands = FALSE
    NoMessage = NoMessage
    NoProc = NoProc
    NoQueue = NoQueue
    NoPlan = NoPlan
    Address = {owner, list, sales, other, stranger}
    Mailbox = {owner}
    Alias = {listRow, twin, salesRow, catchAll}
    AliasName <- MCAliasName
    SystemSender = {robot}
    HomeDomain <- MCHomeDomain
    Tables <- MCTables
    Rcpt = {list, sales}
    Edited = {listRow, salesRow, twin, owner}
    InitiallyOff = {twin}
    MaxSources = 3
    MaxRecipients = 4
    MaxEdits = 2
    NoLetter = NoLetter
    NoLookup = NoLookup
SYMMETRY Symmetry
INVARIANTS RcptIsExpanded
CHECK_DEADLOCK FALSE
