CONSTANTS
    a = a
    b = b
    Token = {a, b}
    Family <- Families
    Context <- MCContext
    Question <- MCQuestion
    Depth = 2
    MaxPositions = 5
    HalfExact = 2
    FalconRows = 4
    Window = 2
    DConv = 2
    Experts = 3
    Route <- MCRoute
    HeadDim = 4
    Groups = 2
    KvRank = 3
    MaxText = 6
SPECIFICATION Spec
INVARIANTS
    AnswersExact
    SimplifiedExact
    OnlyTransposedMisplaced
    ReuseAccepted
