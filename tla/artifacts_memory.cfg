\* The in-memory stores: an artifact of a tenant, two concurrent requests of
\* any kind, two other artifacts, pages of one record.
SPECIFICATION BackendSpec
CONSTANTS
    Artifact = {a1}
    Customer = {alice}
    Request = {r1, r2}
    Anonymous = Anonymous
    NoArtifact = NoArtifact
    UrlTtl = 1
    MetaUnderPrefix = FALSE
    MaxFaults = 0
    PageSize = 1
    MaxOthers = 2
    MaxRunning = 2
    Infer = {i1, i2}
    MaxSpawnErrors = 1
SYMMETRY Symmetry
INVARIANTS
    StoredObjectsDeletable
    LookupFinds
    LoneInferenceExact
