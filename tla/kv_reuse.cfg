\* Two processes, of which one may be quantizing, two paths, one kill.
SPECIFICATION Spec
CONSTANTS
    a = a
    b = b
    Proc = {p1, p2}
    Path = {f1, f2}
    Token = {a, b}
    Context <- MCContext
    Question <- MCQuestion
    Query <- MCQuery
    Float = {F16, F32}
    F16 = F16
    Foreign <- MCForeign
    NoFile = NoFile
    Torn = Torn
    MaxNew = 1
    MaxTree = 2
    MaxBegun = 3
    MaxKills = 1
SYMMETRY Symmetry
INVARIANTS
    TypeOK
    QuietPathsAgree
    VerifyExact
    InferExact
    WholeMatchExact
    UndisturbedSucceeds
CONSTRAINT OneQuant
ACTION_CONSTRAINT Bounded
CHECK_DEADLOCK FALSE
