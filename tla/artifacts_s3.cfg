\* Two tenants, three concurrent handlers on one artifact, S3 layout, two
\* failing calls or crashes, a URL that lives one tick.
SPECIFICATION Spec
CONSTANTS
    Artifact = {a1}
    Customer = {alice, bob}
    Request = {r1, r2, r3}
    Anonymous = Anonymous
    NoArtifact = NoArtifact
    UrlTtl = 1
    MetaUnderPrefix = TRUE
    MaxFaults = 2
SYMMETRY Symmetry
INVARIANTS
    TypeOK
    CleanDelete
    DeletedStaysDeleted
    ConfirmedRetained
    SealedContentFinal
    PublicWhileListed
PROPERTIES
    KeepsPromise
