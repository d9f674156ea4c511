CONSTANTS
    User = {u1, u2}
    Legacy = {l1}
    Address = {a, b}
    Subject = {s1, s2}
    Login = {w1}
    Token = {k1, k2}
    Password = {p}
    MaxVerifiers = 1
    MaxChanges = 3
    MaxCrossed = 1
    Mappings = {}
    None = None
SYMMETRY Symmetry
SPECIFICATION MCSpec
INVARIANTS TablesAgree NoRevival  AnswersFollowTheTables
CHECK_DEADLOCK FALSE
