------------------------- MODULE BucketAssignment --------------------------
(***************************************************************************)
(* Which bucket holds the objects of a tenant.  Every storage call of the  *)
(* backend first resolves the tenant's bucket (TenantS3ArtifactStore calls *)
(* HashedBucketResolver.resolve): it reads the assignment record, picks a  *)
(* bucket by hash when it finds none, saves that choice and then uses it.  *)
(* Calls of a tenant resolve concurrently, a read of the record that fails *)
(* looks like a missing record, and an operator restarts the backend with  *)
(* another KVCDN_S3_BUCKETS list.                                          *)
(***************************************************************************)
EXTENDS Integers, Sequences

CONSTANTS
    Customer,      \* tenants, the synthetic public:<org> ones included
    Bucket,        \* bucket names
    Call,          \* slots of concurrently running storage calls
    Nobody,        \* the customer of an idle slot
    NoBucket,      \* no assignment recorded, or none resolved yet
    Hash,          \* Hash[c]: the leading 32 bits of sha256(c)
    BucketLists,   \* the values KVCDN_S3_BUCKETS takes over time
    Durable,       \* TRUE: S3BucketStore; FALSE: MemoryBucketStore
    MaxReadFaults, \* bound on failing reads of the control bucket
    MaxReconfigs   \* bound on restarts with another list

ASSUME BucketAssumption ==
    /\ Nobody \notin Customer
    /\ NoBucket \notin Bucket
    /\ Hash \in [Customer -> Nat]
    /\ BucketLists \subseteq Seq(Bucket) \ {<<>>}
    /\ Durable \in BOOLEAN
    /\ MaxReadFaults \in Nat
    /\ MaxReconfigs \in Nat

VARIABLES
    buckets,    \* the bucket list of the running backend
    assigned,   \* assigned[c]: the bucket in the assignment record of c
    placed,     \* placed[c]: buckets in which objects of c were stored
    call,       \* call[k]: the storage call in slot k
    readFaults, \* reads of the control bucket that failed so far
    reconfigs   \* restarts with another list so far

vars == <<buckets, assigned, placed, call, readFaults, reconfigs>>

Phase == {"idle", "lookup", "save", "use"}

StorageCall == [phase : Phase, customer : Customer \union {Nobody},
                bucket : Bucket \union {NoBucket}]

CallAt(phase, c, b) == [phase |-> phase, customer |-> c, bucket |-> b]

IdleCall == CallAt("idle", Nobody, NoBucket)

Configured == {buckets[i] : i \in DOMAIN buckets}

TypeOK ==
    /\ buckets \in BucketLists
    /\ assigned \in [Customer -> Bucket \union {NoBucket}]
    /\ placed \in [Customer -> SUBSET Bucket]
    /\ call \in [Call -> StorageCall]
    /\ readFaults \in 0..MaxReadFaults
    /\ reconfigs \in 0..MaxReconfigs

\* Mutant: the list is not split at its commas.
PickUnsplit(c) == buckets

PickBucket(c) == buckets[(Hash[c] % Len(buckets)) + 1]

Init ==
    /\ buckets \in BucketLists
    /\ assigned = [c \in Customer |-> NoBucket]
    /\ placed = [c \in Customer |-> {}]
    /\ call = [k \in Call |-> IdleCall]
    /\ readFaults = 0
    /\ reconfigs = 0

\* storeForKey: the tenant is read off the object key.
Start(k, c) ==
    /\ call[k].phase = "idle"
    /\ call' = [call EXCEPT ![k] = CallAt("lookup", c, NoBucket)]
    /\ UNCHANGED <<buckets, assigned, placed, readFaults, reconfigs>>

\* Mutants: the bucket is computed anew; a recorded bucket that is not configured
\* is replaced.
LookupIgnoresRecord(k) ==
    LET c == call[k].customer IN
    /\ call[k].phase = "lookup"
    /\ assigned[c] # NoBucket
    /\ call' = [call EXCEPT ![k] = CallAt("use", c, PickBucket(c))]
    /\ UNCHANGED <<buckets, assigned, placed, readFaults, reconfigs>>

LookupReplaces(k) ==
    LET c == call[k].customer IN
    /\ call[k].phase = "lookup"
    /\ assigned[c] # NoBucket
    /\ call' = [call EXCEPT ![k] =
                  IF assigned[c] \in Configured
                  THEN CallAt("use", c, assigned[c])
                  ELSE CallAt("save", c, PickBucket(c))]
    /\ UNCHANGED <<buckets, assigned, placed, readFaults, reconfigs>>

\* A recorded bucket that is no longer configured makes the call throw.
LookupFound(k) ==
    LET c == call[k].customer IN
    /\ call[k].phase = "lookup"
    /\ assigned[c] # NoBucket
    /\ call' = [call EXCEPT ![k] =
                  IF assigned[c] \in Configured
                  THEN CallAt("use", c, assigned[c])
                  ELSE IdleCall]
    /\ UNCHANGED <<buckets, assigned, placed, readFaults, reconfigs>>

\* Mutant: the choice is used without being recorded.
ChooseUnrecorded(k) ==
    LET c == call[k].customer IN
    call' = [call EXCEPT ![k] = CallAt("use", c, PickBucket(c))]

Choose(k) ==
    LET c == call[k].customer IN
    call' = [call EXCEPT ![k] = CallAt("save", c, PickBucket(c))]

LookupMissing(k) ==
    /\ call[k].phase = "lookup"
    /\ assigned[call[k].customer] = NoBucket
    /\ Choose(k)
    /\ UNCHANGED <<buckets, assigned, placed, readFaults, reconfigs>>

\* Any error of the read is swallowed and treated as a missing record.
LookupFails(k) ==
    /\ Durable
    /\ readFaults < MaxReadFaults
    /\ call[k].phase = "lookup"
    /\ Choose(k)
    /\ readFaults' = readFaults + 1
    /\ UNCHANGED <<buckets, assigned, placed, reconfigs>>

Save(k) ==
    LET c == call[k].customer IN
    /\ call[k].phase = "save"
    /\ assigned' = [assigned EXCEPT ![c] = call[k].bucket]
    /\ call' = [call EXCEPT ![k] = CallAt("use", c, call[k].bucket)]
    /\ UNCHANGED <<buckets, placed, readFaults, reconfigs>>

\* The save throws, with or without the record having been written.
SaveFails(k) ==
    /\ Durable
    /\ call[k].phase = "save"
    /\ \/ UNCHANGED assigned
       \/ assigned' = [assigned EXCEPT ![call[k].customer] = call[k].bucket]
    /\ call' = [call EXCEPT ![k] = IdleCall]
    /\ UNCHANGED <<buckets, placed, readFaults, reconfigs>>

\* The storage operation itself: one that stores (put, an upload URL) or one
\* that does not (get, list, delete, a download URL).
Use(k) ==
    /\ call[k].phase = "use"
    /\ \/ placed' = [placed EXCEPT ![call[k].customer] = @ \union {call[k].bucket}]
       \/ UNCHANGED placed
    /\ call' = [call EXCEPT ![k] = IdleCall]
    /\ UNCHANGED <<buckets, assigned, readFaults, reconfigs>>

\* The backend comes back with the list l and no running calls; the in-memory
\* assignments are gone.
Restart(l) ==
    /\ l # buckets => reconfigs < MaxReconfigs
    /\ buckets' = l
    /\ reconfigs' = IF l # buckets THEN reconfigs + 1 ELSE reconfigs
    /\ call' = [k \in Call |-> IdleCall]
    /\ assigned' = IF Durable THEN assigned ELSE [c \in Customer |-> NoBucket]
    /\ UNCHANGED <<placed, readFaults>>

Next ==
    \/ \E k \in Call :
          \/ \E c \in Customer : Start(k, c)
          \/ LookupFound(k)
          \/ LookupMissing(k)
          \/ LookupFails(k)
          \/ Save(k)
          \/ SaveFails(k)
          \/ Use(k)
    \/ \E l \in BucketLists : Restart(l)

Spec == Init /\ [][Next]_vars

(***************************************************************************)
(* Properties                                                              *)
(***************************************************************************)
\* What keeps a tenant on its bucket: the list never changed, or the record
\* is durable and every read of it was answered.
Steady == reconfigs = 0 \/ (Durable /\ readFaults = 0)

\* A tenant's objects are all in one bucket, and every call that has resolved
\* the tenant works on that bucket: no upload is lost from sight through
\* concurrent first resolves, failing saves, restarts or a changed list.
OneBucketPerTenant ==
    Steady => \A k \in Call :
        call[k].phase = "use" => placed[call[k].customer] \subseteq {call[k].bucket}

\* A bucket is recorded before it is used, so a later resolve finds it again.
PlacedWhereRecorded ==
    Durable /\ Steady => \A c \in Customer : placed[c] \subseteq {assigned[c]}

\* No call ever works on a bucket the running backend is not configured with,
\* whatever the record says.
OnlyConfiguredBuckets ==
    \A k \in Call : call[k].phase \in {"save", "use"} => call[k].bucket \in Configured

\* A durable assignment is never replaced by another, not by racing first
\* resolves and not by a changed list.
AssignmentKept ==
    [][Steady' /\ Durable => \A c \in Customer :
          assigned[c] # NoBucket => assigned'[c] = assigned[c]]_vars
=============================================================================
