\* A command refreshes its tokens while another process logs out.
SPECIFICATION Spec
CONSTANTS
    Proc = {p1, p2}
    NoSession = NoSession
    Blank = Blank
    Mixed = Mixed
    MaxGrant = 2
    MaxFaults = 0
INVARIANT LoggedOutForGood
