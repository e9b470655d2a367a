\* One tenant, one artifact, one handler and one failing call.
SPECIFICATION Spec
CONSTANTS
    Artifact = {a1}
    Customer = {alice}
    Request = {r1}
    Anonymous = Anonymous
    NoArtifact = NoArtifact
    UrlTtl = 1
    MetaUnderPrefix = TRUE
    MaxFaults = 1
INVARIANT StoredObjectsDeletable
