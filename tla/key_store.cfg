\* Two processes, two possible keys, two kills, an unreliable keyring.
SPECIFICATION FairSpec
CONSTANTS
    Proc = {p1, p2}
    Key = {k1, k2}
    NoKey = NoKey
    MaxCrashes = 2
INVARIANTS
    TypeOK
    OneKey
    BrokenOnlyInFlight
PROPERTIES
    KeyFileFinal
    LoadEnds
