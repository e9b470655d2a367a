\* Two first runs race for the key file; nobody is killed.
SPECIFICATION Spec
CONSTANTS
    Proc = {p1, p2}
    Key = {k1}
    NoKey = NoKey
    MaxCrashes = 0
INVARIANT LoserReadsKey
