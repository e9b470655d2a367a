\* One process at a time and no kill.
SPECIFICATION Spec
CONSTANTS
    a = a
    b = b
    Proc = {p1}
    Path = {f1, f2}
    Token = {a, b}
    Context <- MCContext
    Question <- MCQuestion
    Query <- MCQuery
    Float = {F16, F32}
    F16 = F16
    Foreign <- MCForeign
    NoFile = NoFile
    Torn = Torn
    MaxNew = 1
    MaxTree = 2
    MaxBegun = 2
    MaxKills = 0
SYMMETRY Symmetry
INVARIANT TreeExact
CHECK_DEADLOCK FALSE
