---------------------- MODULE BucketAssignment_proofs ----------------------
(***************************************************************************)
(* Proofs about BucketAssignment: its invariants hold for any number of    *)
(* tenants, buckets, concurrent calls and bucket lists, and any hash.      *)
(***************************************************************************)
EXTENDS BucketAssignment, TLAPS

\* Where c may have been sent so far: recorded, being recorded, or stored.
Settled(c) ==
    /\ \A k \in Call : call[k].customer = c =>
          /\ call[k].phase = "save" =>
                /\ call[k].bucket = PickBucket(c)
                /\ assigned[c] \in {NoBucket, call[k].bucket}
          /\ call[k].phase = "use" => assigned[c] = call[k].bucket
    /\ Durable => placed[c] \subseteq {assigned[c]}
    /\ reconfigs = 0 => /\ assigned[c] \in {NoBucket, PickBucket(c)}
                        /\ placed[c] \subseteq {PickBucket(c)}

\* A running call belongs to a tenant, and has a bucket once it has chosen.
CallsOK ==
    \A k \in Call :
        /\ call[k].phase # "idle" => call[k].customer \in Customer
        /\ call[k].phase \in {"save", "use"} => call[k].bucket \in Bucket

IInv == /\ TypeOK
        /\ CallsOK
        /\ OnlyConfiguredBuckets
        /\ Steady => \A c \in Customer : Settled(c)

-----------------------------------------------------------------------------
\* The hash picks one of the configured buckets.
LEMMA PickConfigured ==
    ASSUME TypeOK, NEW c \in Customer
    PROVE  PickBucket(c) \in Configured /\ PickBucket(c) \in Bucket
<1>1. buckets \in Seq(Bucket) /\ buckets # <<>>
  BY BucketAssumption DEF TypeOK
<1>2. Len(buckets) \in Nat /\ Len(buckets) > 0
  BY <1>1
<1>3. Hash[c] \in Nat
  BY BucketAssumption
<1>4. (Hash[c] % Len(buckets)) + 1 \in 1..Len(buckets)
  BY <1>2, <1>3
<1>5. DOMAIN buckets = 1..Len(buckets)
  BY <1>1
<1> QED
  BY <1>1, <1>4, <1>5 DEF PickBucket, Configured

\* The initial states satisfy the invariant.
LEMMA InitIInv == Init => IInv
BY BucketAssumption
   DEF Init, IInv, TypeOK, CallsOK, OnlyConfiguredBuckets, Settled,
       IdleCall, CallAt, StorageCall, Phase

\* Putting a well-typed call into a slot keeps the calls well-typed.
LEMMA CallSlot ==
    ASSUME TypeOK, CallsOK, NEW k \in Call, NEW x,
           x = IdleCall \/ \E p \in Phase, c \in Customer, b \in Bucket :
                            x = CallAt(p, c, b),
           call' = [call EXCEPT ![k] = x]
    PROVE  call' \in [Call -> StorageCall] /\ CallsOK'
<1>1. x \in StorageCall
  BY DEF StorageCall, IdleCall, CallAt, Phase
<1>2. /\ x.phase # "idle" => x.customer \in Customer
      /\ x.phase \in {"save", "use"} => x.bucket \in Bucket
  BY DEF IdleCall, CallAt
<1> HIDE DEF StorageCall, CallAt, IdleCall
<1> QED
  BY <1>1, <1>2 DEF TypeOK, CallsOK

\* Every action keeps the types and the domains of a call's fields.
LEMMA TypeStep ==
    ASSUME TypeOK, CallsOK, [Next]_vars
    PROVE  TypeOK' /\ CallsOK'
<1> USE BucketAssumption DEF TypeOK, CallsOK, StorageCall, Phase, IdleCall, CallAt
<1>1. ASSUME NEW k \in Call, NEW c \in Customer, Start(k, c)
      PROVE  TypeOK' /\ CallsOK'
  BY <1>1 DEF Start
<1>2. ASSUME NEW k \in Call, LookupFound(k)
      PROVE  TypeOK' /\ CallsOK'
  BY <1>2 DEF LookupFound
<1>3. ASSUME NEW k \in Call, LookupMissing(k) \/ LookupFails(k)
      PROVE  TypeOK' /\ CallsOK'
  <2>1. call[k].customer \in Customer
    BY <1>3 DEF LookupMissing, LookupFails
  <2>2. PickBucket(call[k].customer) \in Bucket
    BY <2>1, PickConfigured
  <2>3. call' \in [Call -> StorageCall] /\ CallsOK'
    BY <1>3, <2>1, <2>2, CallSlot DEF LookupMissing, LookupFails, Choose
  <2>4. readFaults' \in 0..MaxReadFaults
    BY <1>3 DEF LookupMissing, LookupFails
  <2> QED
    BY <1>3, <2>3, <2>4 DEF LookupMissing, LookupFails
<1>4. ASSUME NEW k \in Call, Save(k) \/ SaveFails(k)
      PROVE  TypeOK' /\ CallsOK'
  <2>1. call[k].customer \in Customer /\ call[k].bucket \in Bucket
    BY <1>4 DEF Save, SaveFails
  <2>2. assigned' \in [Customer -> Bucket \union {NoBucket}]
    BY <1>4, <2>1 DEF Save, SaveFails
  <2>3. call' \in [Call -> StorageCall] /\ CallsOK'
    BY <1>4, <2>1, CallSlot DEF Save, SaveFails
  <2> QED
    BY <1>4, <2>2, <2>3 DEF Save, SaveFails
<1>5. ASSUME NEW k \in Call, Use(k)
      PROVE  TypeOK' /\ CallsOK'
  BY <1>5 DEF Use
<1>6. ASSUME NEW l \in BucketLists, Restart(l)
      PROVE  TypeOK' /\ CallsOK'
  BY <1>6 DEF Restart
<1>7. CASE UNCHANGED vars
  BY <1>7 DEF vars
<1> QED
  BY <1>1, <1>2, <1>3, <1>4, <1>5, <1>6, <1>7 DEF Next

\* A chosen or found bucket is a configured one, and only a restart, which
\* ends every call, changes the list.
LEMMA ConfiguredStep ==
    ASSUME TypeOK, CallsOK, OnlyConfiguredBuckets, [Next]_vars
    PROVE  OnlyConfiguredBuckets'
<1> USE DEF TypeOK, CallsOK, StorageCall, IdleCall, CallAt, OnlyConfiguredBuckets,
            Configured
<1>1. ASSUME NEW k \in Call, NEW c \in Customer, Start(k, c)
      PROVE  OnlyConfiguredBuckets'
  BY <1>1 DEF Start
<1>2. ASSUME NEW k \in Call, LookupFound(k)
      PROVE  OnlyConfiguredBuckets'
  BY <1>2 DEF LookupFound
<1>3. ASSUME NEW k \in Call, LookupMissing(k) \/ LookupFails(k)
      PROVE  OnlyConfiguredBuckets'
  <2>1. call[k].customer \in Customer
    BY <1>3 DEF LookupMissing, LookupFails
  <2>2. PickBucket(call[k].customer) \in Configured
    BY <2>1, PickConfigured
  <2> QED
    BY <1>3, <2>2 DEF LookupMissing, LookupFails, Choose
<1>4. ASSUME NEW k \in Call, Save(k) \/ SaveFails(k) \/ Use(k)
      PROVE  OnlyConfiguredBuckets'
  BY <1>4 DEF Save, SaveFails, Use
<1>5. ASSUME NEW l \in BucketLists, Restart(l)
      PROVE  OnlyConfiguredBuckets'
  BY <1>5 DEF Restart
<1>6. CASE UNCHANGED vars
  BY <1>6 DEF vars
<1> QED
  BY <1>1, <1>2, <1>3, <1>4, <1>5, <1>6 DEF Next

\* The faults counted so far never go down.
LEMMA SteadyStep ==
    ASSUME TypeOK, [Next]_vars, Steady'
    PROVE  Steady
<1>1. /\ reconfigs \in Nat /\ readFaults \in Nat
      /\ reconfigs' \in Nat /\ readFaults' \in Nat
      /\ reconfigs <= reconfigs' /\ readFaults <= readFaults'
  <2> USE BucketAssumption DEF TypeOK
  <2>1. CASE UNCHANGED vars
    BY <2>1 DEF vars
  <2>2. ASSUME NEW k \in Call, LookupFails(k)
        PROVE  <1>1!1 /\ <1>1!2 /\ <1>1!3
    BY <2>2 DEF LookupFails
  <2>3. ASSUME NEW l \in BucketLists, Restart(l)
        PROVE  <1>1!1 /\ <1>1!2 /\ <1>1!3
    BY <2>3 DEF Restart
  <2>4. ASSUME UNCHANGED <<readFaults, reconfigs>>
        PROVE  <1>1!1 /\ <1>1!2 /\ <1>1!3
    BY <2>4
  <2> QED
    BY <2>1, <2>2, <2>3, <2>4
       DEF Next, Start, LookupFound, LookupMissing, Save, SaveFails, Use
<1> QED
  BY <1>1 DEF Steady

\* While the backend is steady a tenant stays settled.
LEMMA SettledStep ==
    ASSUME IInv, [Next]_vars, Steady', NEW c \in Customer
    PROVE  Settled(c)'
<1> USE DEF TypeOK, CallsOK, StorageCall, IdleCall, CallAt
<1>0. /\ TypeOK
      /\ CallsOK
      /\ Steady
      /\ Settled(c)
      /\ NoBucket \notin Bucket
  BY SteadyStep, BucketAssumption DEF IInv
<1>1. ASSUME NEW k \in Call, NEW d \in Customer, Start(k, d)
      PROVE  Settled(c)'
  BY <1>0, <1>1 DEF Start, Settled, PickBucket
<1>2. ASSUME NEW k \in Call, LookupFound(k)
      PROVE  Settled(c)'
  BY <1>0, <1>2 DEF LookupFound, Settled, PickBucket
<1>3. ASSUME NEW k \in Call, LookupMissing(k)
      PROVE  Settled(c)'
  BY <1>0, <1>3 DEF LookupMissing, Choose, Settled, PickBucket
<1>4. ASSUME NEW k \in Call, LookupFails(k)
      PROVE  Settled(c)'
  <2>1. reconfigs = 0
    BY <1>0, <1>4 DEF LookupFails, Steady
  <2> QED
    BY <1>0, <1>4, <2>1 DEF LookupFails, Choose, Settled, PickBucket
<1>5. ASSUME NEW k \in Call, Save(k)
      PROVE  Settled(c)'
  <2>1. call[k].customer = c => call[k].bucket = PickBucket(c)
    BY <1>0, <1>5 DEF Save, Settled
  <2>2. placed[c] \subseteq {assigned[c]} \/ ~Durable
    BY <1>0 DEF Settled
  <2> QED
    BY <1>0, <1>5, <2>1, <2>2 DEF Save, Settled, PickBucket
<1>6. ASSUME NEW k \in Call, SaveFails(k)
      PROVE  Settled(c)'
  BY <1>0, <1>6 DEF SaveFails, Settled, PickBucket
<1>7. ASSUME NEW k \in Call, Use(k)
      PROVE  Settled(c)'
  BY <1>0, <1>7 DEF Use, Settled, PickBucket
<1>8. ASSUME NEW l \in BucketLists, Restart(l)
      PROVE  Settled(c)'
  BY <1>0, <1>8 DEF Restart, Settled, PickBucket, Steady
<1>9. CASE UNCHANGED vars
  BY <1>0, <1>9 DEF vars, Settled, PickBucket
<1> QED
  BY <1>1, <1>2, <1>3, <1>4, <1>5, <1>6, <1>7, <1>8, <1>9 DEF Next

-----------------------------------------------------------------------------
\* The conjunction is inductive and so holds in every behaviour.
THEOREM Invariance == Spec => []IInv
<1>1. IInv /\ [Next]_vars => IInv'
  BY TypeStep, ConfiguredStep, SettledStep DEF IInv
<1> QED
  BY InitIInv, <1>1, PTL DEF Spec

\* The variables of the bucket assignment keep their types.
THEOREM TypeCorrect == Spec => []TypeOK
BY Invariance, PTL DEF IInv

\* All objects of a tenant are in the one bucket its calls work on, for
\* concurrent first resolves, failing saves, restarts and changed lists.
THEOREM OneBucketPerTenantHolds == Spec => []OneBucketPerTenant
<1>1. IInv => OneBucketPerTenant
  <2> SUFFICES ASSUME IInv, Steady, NEW k \in Call, call[k].phase = "use"
               PROVE  placed[call[k].customer] \subseteq {call[k].bucket}
    BY DEF OneBucketPerTenant
  <2>1. call[k].customer \in Customer
    BY DEF IInv, CallsOK
  <2>2. Settled(call[k].customer)
    BY <2>1 DEF IInv
  <2>3. assigned[call[k].customer] = call[k].bucket
    BY <2>2 DEF Settled
  <2>4. call[k].bucket # NoBucket
    BY BucketAssumption DEF IInv, CallsOK
  <2> QED
    BY <2>1, <2>2, <2>3, <2>4 DEF Settled, IInv, Steady
<1> QED
  BY Invariance, <1>1, PTL

\* With a durable record, what is stored can be found through the record.
THEOREM PlacedWhereRecordedHolds == Spec => []PlacedWhereRecorded
<1>1. IInv => PlacedWhereRecorded
  BY DEF IInv, Settled, PlacedWhereRecorded
<1> QED
  BY Invariance, <1>1, PTL

\* No call works on a bucket that the running backend is not configured with.
THEOREM OnlyConfiguredBucketsHolds == Spec => []OnlyConfiguredBuckets
BY Invariance, PTL DEF IInv

\* A durable assignment is never replaced while the backend is steady.
THEOREM AssignmentKeptHolds == Spec => AssignmentKept
<1> DEFINE Kept == Steady' /\ Durable => \A c \in Customer :
                      assigned[c] # NoBucket => assigned'[c] = assigned[c]
<1>1. IInv /\ [Next]_vars => [Kept]_vars
  <2> SUFFICES ASSUME IInv, [Next]_vars, Steady', Durable,
                      NEW c \in Customer, assigned[c] # NoBucket
               PROVE  assigned'[c] = assigned[c]
    OBVIOUS
  <2>1. Settled(c) /\ TypeOK
    BY SteadyStep DEF IInv
  <2>2. ASSUME NEW k \in Call, Save(k) \/ SaveFails(k)
        PROVE  assigned'[c] = assigned[c]
    <3>1. CASE call[k].customer = c
      BY <2>1, <2>2, <3>1 DEF Save, SaveFails, Settled, TypeOK
    <3>2. CASE call[k].customer # c
      BY <2>1, <2>2, <3>2 DEF Save, SaveFails, TypeOK
    <3> QED
      BY <3>1, <3>2
  <2>3. ASSUME NEW l \in BucketLists, Restart(l)
        PROVE  assigned'[c] = assigned[c]
    BY <2>3 DEF Restart
  <2>4. ASSUME UNCHANGED assigned
        PROVE  assigned'[c] = assigned[c]
    BY <2>4
  <2> QED
    BY <2>2, <2>3, <2>4 DEF Next, vars, Start, LookupFound, LookupMissing,
                            LookupFails, Use
<1> QED
  BY Invariance, <1>1, PTL DEF Spec, AssignmentKept
=============================================================================
