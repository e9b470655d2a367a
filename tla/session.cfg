\* Three processes, three grants of an issuer of any kind, one killed process, failing save or lost reply.
SPECIFICATION Spec
CONSTANTS
    Proc = {p1, p2, p3}
    NoSession = NoSession
    Blank = Blank
    Mixed = Mixed
    MaxGrant = 3
    MaxFaults = 1
SYMMETRY Symmetry
INVARIANTS
    TypeOK
    SessionNotStranded
    LastLoginWins
    SavedTokenUnused
