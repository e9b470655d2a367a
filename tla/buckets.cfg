\* Two tenants, three concurrent calls, a durable record, one failing read and
\* two changes of the bucket list.
SPECIFICATION Spec
CONSTANTS
    c1 = c1
    c2 = c2
    b1 = b1
    b2 = b2
    b3 = b3
    Customer = {c1, c2}
    Bucket = {b1, b2, b3}
    Call = {k1, k2, k3}
    Nobody = Nobody
    NoBucket = NoBucket
    Hash <- MCHash
    BucketLists <- MCBucketLists
    Durable = TRUE
    MaxReadFaults = 1
    MaxReconfigs = 2
SYMMETRY Symmetry
INVARIANTS
    TypeOK
    OneBucketPerTenant
    PlacedWhereRecorded
PROPERTY AssignmentKept
