\* Two logins at one issuer.  By device code: a code that lives four ticks and is
\* polled for every tick, one late tick.  By browser: a code that lives one tick,
\* two requests at the callback servers.  One lost message, failing connection or
\* restart of the issuer.
SPECIFICATION FairLoginSpec
CONSTANTS
    Client = {p1, p2}
    Ttl = 4
    Interval = 1
    MaxLag = 1
    MaxLost = 1
    CodeTtl = 1
    Nobody = Nobody
    MaxVisits = 2
INVARIANTS
    TypeOK
    ApprovalReachesCli
    RefusedOnlyExpired
    TokensOfApproval
PROPERTIES
    LoginEnds
    CallbackEnds
