----------------------- MODULE InferenceRoute_proofs -----------------------
(***************************************************************************)
(* Proofs about the backend as a whole: the artifact handlers, the search  *)
(* over pages and the inference requests, beside one another.  What is     *)
(* proved of the handlers alone (ArtifactLifecycle_proofs) carries over,   *)
(* as the other two only read what they store.                             *)
(***************************************************************************)
EXTENDS InferenceRoute, ArtifactLifecycle_proofs

(***************************************************************************)
(* The invariant                                                           *)
(***************************************************************************)
\* In memory, where a listing never holds the metadata and no handler breaks
\* off, the record of an artifact goes last.
RecordLast ==
    ~MetaUnderPrefix =>
       /\ \A a \in Artifact : a \notin meta /\ a \notin raced => data[a] = "absent"
       /\ \A r \in Request : req[r].phase = "remove" => "meta" \notin req[r].todo

Lookup == [phase : {"paging", "missed"}, art : Artifact, caller : Customer, index : Nat,
           before : Nat, after : Nat, present : BOOLEAN, moved : BOOLEAN]

\* As long as no record before the one looked for is deleted, the continuation
\* token has not passed it.
LookupInv ==
    /\ lookup \in Lookup \union {NoLookup}
    /\ Paging /\ lookup.present => Owns(lookup.caller, lookup.art)
    /\ Paging /\ lookup.present /\ ~lookup.moved => lookup.index <= lookup.before
    /\ LookupFinds

-----------------------------------------------------------------------------
\* The record of an artifact whose metadata is stored never changes.
LEMMA RecordKept ==
    ASSUME IInv, [Next]_vars, NEW a \in Artifact, a \in meta
    PROVE  record'[a] = record[a]
<1>1. record[a] # Unborn
  BY DEF IInv, SavedOnce, NotYetSaved
<1>2. \/ UNCHANGED record
      \/ \E r \in Request, c \in Customer, b \in Artifact, v \in {"public", "private"} :
            CreateStart(r, c, b, v)
  BY DEF Next, vars, ConfirmStart, DeleteStart, DownloadStart, CreateSave, CreateSavePublic,
         ConfirmVerify, DownloadPublic, DeleteList, DeleteObject, DeleteMeta, DeletePublic,
         Reply, Fail, PutStart, PutStore, PutAbort, Tick, Crash
<1> QED
  BY <1>1, <1>2 DEF CreateStart, IInv, TypeOK, StoreOK

\* The page is cut off at its size and at the end of the list.
LEMMA PageBounds ==
    ASSUME lookup \in Lookup
    PROVE  /\ Total \in Nat /\ PageLength \in Nat
           /\ lookup.index + PageLength <= Total \/ PageLength = 0
           /\ lookup.index < Total => PageLength >= 1
<1> DEFINE rest == Total - lookup.index
           cut == Min({PageSize, rest})
<1>1. Total \in Nat /\ lookup.index \in Nat /\ PageSize \in Nat /\ PageSize >= 1
  BY CatalogueAssumption DEF Total, Lookup
<1>2. rest \in Int
  BY <1>1
<1> HIDE DEF rest
<1>3. cut \in {PageSize, rest} /\ cut <= PageSize /\ cut <= rest
  <2>1. \E x \in {PageSize, rest} : \A y \in {PageSize, rest} : x <= y
    BY <1>1, <1>2
  <2> QED
    BY <2>1 DEF Min
<1> HIDE DEF cut
<1>4. PageLength = Max({0, cut})
  BY DEF PageLength, cut, rest
<1>5. PageLength \in {0, cut} /\ PageLength >= 0 /\ PageLength >= cut
  <2>1. cut \in Int
    BY <1>1, <1>2, <1>3
  <2>2. \E x \in {0, cut} : \A y \in {0, cut} : x >= y
    BY <2>1
  <2> QED
    BY <1>4, <2>2 DEF Max
<1> QED
  BY <1>1, <1>2, <1>3, <1>5 DEF rest

-----------------------------------------------------------------------------
\* No step of a handler takes the record away while the bytes stay, in memory.
LEMMA RecordLastStep ==
    ASSUME IInv, RecordLast, [Next]_vars
    PROVE  RecordLast'
<1> SUFFICES ASSUME ~MetaUnderPrefix PROVE RecordLast'
  BY DEF RecordLast
<1> DEFINE Gone(a) == a \notin meta /\ a \notin raced => data[a] = "absent"
           Listed(r) == req[r].phase = "remove" => "meta" \notin req[r].todo
<1>1. /\ \A a \in Artifact : Gone(a)
      /\ \A r \in Request : Listed(r)
  BY DEF RecordLast
<1>2. /\ TypeOK /\ SavedOnce /\ HandlersOK
      /\ \A r \in Request : HandlerInv(r)
      /\ \A a \in Artifact : ArtifactInv(a)
  BY DEF IInv, TypeOK
<1>3. \A r \in Request : Listed(r)'
  <2>1. ASSUME UNCHANGED req PROVE \A r \in Request : Listed(r)'
    BY <1>1, <2>1
  <2>2. ASSUME NEW r \in Request, \A s \in Request \ {r} : req'[s] = req[s],
               req'[r].phase # "remove" \/ "meta" \notin req'[r].todo
        PROVE  \A s \in Request : Listed(s)'
    BY <1>1, <2>2
  <2>3. ASSUME NEW r \in Request, NEW p \in Phase \ {"remove"}, NEW a \in Artifact, NEW c \in Caller,
               Begin(r, p, a, c)
        PROVE  \A s \in Request : Listed(s)'
    <3>1. p \in Phase /\ p # "remove"
      OBVIOUS
    <3>2. req'[r] = At(p, a, c) /\ \A s \in Request \ {r} : req'[s] = req[s]
      BY <1>2, <2>3, <3>1, BeginSlot
    <3>3. req'[r].phase = p
      BY <3>2 DEF At
    <3> QED
      BY <2>2, <3>1, <3>2, <3>3
  <2>4. ASSUME NEW r \in Request, NEW p \in Phase \ {"remove"}, req[r].phase # "idle", Goto(r, p)
        PROVE  \A s \in Request : Listed(s)'
    <3>1. p \in Phase /\ p # "remove"
      OBVIOUS
    <3> QED
      BY <1>2, <2>2, <2>4, <3>1, GotoSlot
  <2>5. ASSUME NEW r \in Request, NEW h \in Handler, req' = [req EXCEPT ![r] = h],
               h.phase # "remove" \/ "meta" \notin h.todo
        PROVE  \A s \in Request : Listed(s)'
    <3>1. req'[r] = h /\ \A s \in Request \ {r} : req'[s] = req[s]
      BY <1>2, <2>5 DEF HandlersOK
    <3> QED
      BY <2>2, <2>5, <3>1
  <2>6. {"save", "verify", "list", "granted", "lookupPublic", "savePublic", "created", "confirmed",
         "removePublic", "deleted"} \subseteq Phase \ {"remove"}
        /\ Customer \subseteq Caller
    BY DEF Phase, ReplyPhase, Caller
  <2>7. Idle \in Handler /\ Idle.phase # "remove"
    BY DEF Idle, At, Handler, Phase, Caller
  <2>8. CASE \E r \in Request, c \in Customer, a \in Artifact :
                \/ \E v \in {"public", "private"} : CreateStart(r, c, a, v)
                \/ ConfirmStart(r, c, a)
                \/ DeleteStart(r, c, a)
    BY <2>3, <2>6, <2>8 DEF CreateStart, ConfirmStart, DeleteStart
  <2>9. CASE \E r \in Request, c \in Caller, a \in Artifact : DownloadStart(r, c, a)
    BY <2>3, <2>6, <2>9 DEF DownloadStart
  <2>10. ASSUME NEW r \in Request,
                CreateSave(r) \/ CreateSavePublic(r) \/ DeleteMeta(r) \/ DeletePublic(r)
         PROVE  \A s \in Request : Listed(s)'
    BY <2>4, <2>6, <2>10 DEF CreateSave, CreateSavePublic, DeleteMeta, DeletePublic
  <2>11. ASSUME NEW r \in Request, ConfirmVerify(r)
         PROVE  \A s \in Request : Listed(s)'
    <3> DEFINE h == [req[r] EXCEPT !.phase = "confirmed",
                        !.sealed = urlLife[req[r].art] = 0 /\ req[r].art \notin uploading]
    <3>1. req[r] \in Handler
      BY <1>2 DEF HandlersOK
    <3>2. h \in Handler /\ h.phase # "remove"
      BY <2>6, <3>1 DEF Handler
    <3>3. req' = [req EXCEPT ![r] = h] \/ req' = [req EXCEPT ![r] = Idle]
      BY <2>11 DEF ConfirmVerify
    <3> HIDE DEF h
    <3> QED
      BY <2>5, <2>7, <3>2, <3>3
  <2>12. ASSUME NEW r \in Request, DownloadPublic(r)
         PROVE  \A s \in Request : Listed(s)'
    <3> DEFINE h == [req[r] EXCEPT !.phase = "granted"]
    <3>1. req[r] \in Handler
      BY <1>2 DEF HandlersOK
    <3>2. h \in Handler /\ h.phase # "remove"
      BY <2>6, <3>1 DEF Handler
    <3>3. req' = [req EXCEPT ![r] = h] \/ req' = [req EXCEPT ![r] = Idle]
      BY <2>12 DEF DownloadPublic
    <3> HIDE DEF h
    <3> QED
      BY <2>5, <2>7, <3>2, <3>3
  <2>13. ASSUME NEW r \in Request, DeleteList(r)
         PROVE  \A s \in Request : Listed(s)'
    <3> DEFINE h == [req[r] EXCEPT !.phase = "remove", !.todo = Listing(req[r].art)]
    <3>1. req[r] \in Handler /\ "remove" \in Phase
      BY <1>2 DEF HandlersOK, Phase
    <3>2. Listing(req[r].art) \subseteq Object /\ "meta" \notin Listing(req[r].art)
      BY DEF Listing, Object
    <3>3. h \in Handler /\ h.todo = Listing(req[r].art)
      BY <3>1, <3>2 DEF Handler
    <3>4. req' = [req EXCEPT ![r] = h]
      BY <1>2, <2>13 DEF DeleteList, HandlersOK
    <3> HIDE DEF h
    <3> QED
      BY <2>5, <3>2, <3>3, <3>4
  <2>14. ASSUME NEW r \in Request, DeleteObject(r)
         PROVE  \A s \in Request : Listed(s)'
    <3> DEFINE h == [req[r] EXCEPT !.todo = @ \ {First(req[r].todo)}]
    <3>1. req[r] \in Handler /\ req[r].phase = "remove"
      BY <1>2, <2>14 DEF HandlersOK, DeleteObject
    <3>2. h \in Handler /\ "meta" \notin h.todo
      BY <1>1, <3>1 DEF Handler
    <3>3. req' = [req EXCEPT ![r] = h]
      BY <1>2, <2>14 DEF DeleteObject, HandlersOK
    <3> HIDE DEF h
    <3> QED
      BY <2>5, <3>2, <3>3
  <2>15. ASSUME NEW r \in Request, Reply(r) \/ Fail(r)
         PROVE  \A s \in Request : Listed(s)'
    BY <2>5, <2>7, <2>15 DEF Reply, Fail
  <2>16. CASE Crash
    BY <2>16 DEF Crash
  <2>17. CASE \E a \in Artifact :
                 \/ PutStart(a)
                 \/ \E content \in {"match", "mismatch"} : PutStore(a, content)
                 \/ PutAbort(a)
    BY <2>1, <2>17 DEF PutStart, PutStore, PutAbort
  <2>18. CASE Tick \/ UNCHANGED vars
    BY <2>1, <2>18 DEF Tick, vars
  <2> HIDE DEF Listed
  <2> QED
    BY <2>8, <2>9, <2>10, <2>11, <2>12, <2>13, <2>14, <2>15, <2>16, <2>17, <2>18 DEF Next
<1>4. \A a \in Artifact : Gone(a)'
  <2>1. ASSUME meta \subseteq meta', raced \subseteq raced', UNCHANGED data
        PROVE  \A a \in Artifact : Gone(a)'
    BY <1>1, <2>1
  <2>2. ASSUME NEW a \in Artifact, NEW content \in {"match", "mismatch"}, PutStore(a, content)
        PROVE  \A b \in Artifact : Gone(b)'
    <3>1. KeptOrListed(a)
      <4>1. a \in uploading /\ ArtifactInv(a)
        BY <1>2, <2>2 DEF PutStore
      <4> QED
        BY <4>1 DEF ArtifactInv
    <3>2. Gone(a)'
      BY <2>2, <3>1 DEF PutStore, KeptOrListed
    <3>3. \A b \in Artifact \ {a} : Gone(b)'
      BY <1>1, <2>2 DEF PutStore, TypeOK, StoreOK
    <3> QED
      BY <3>2, <3>3
  <2>3. ASSUME NEW r \in Request, DeleteObject(r)
        PROVE  \A b \in Artifact : Gone(b)'
    <3>1. First(req[r].todo) = "data"
      BY <1>1, <2>3 DEF DeleteObject, First
    <3> QED
      BY <1>1, <1>2, <2>3, <3>1 DEF DeleteObject, TypeOK, StoreOK, history
  <2>4. ASSUME NEW r \in Request, DeleteMeta(r)
        PROVE  \A b \in Artifact : Gone(b)'
    <3>1. req[r].art \notin raced => data[req[r].art] = "absent"
      BY <1>2, <2>4 DEF DeleteMeta, HandlerInv
    <3> QED
      BY <1>1, <2>4, <3>1 DEF DeleteMeta, history
  <2> QED
    BY <2>1, <2>2, <2>3, <2>4
       DEF Next, vars, store, history, CreateStart, ConfirmStart, DeleteStart, DownloadStart, CreateSave,
           CreateSavePublic, ConfirmVerify, DownloadPublic, DeleteList, DeletePublic,
           Reply, Fail, PutStart, PutAbort, Tick, Crash
<1> QED
  BY <1>3, <1>4 DEF RecordLast

-----------------------------------------------------------------------------
\* No page passes the record while none before it is deleted, whatever the
\* handlers do meanwhile.
LEMMA LookupStep ==
    ASSUME IInv, LookupInv, Handlers \/ Lookups
    PROVE  LookupInv'
<1>1. lookup # NoLookup => lookup \in Lookup
  BY DEF LookupInv
<1>2. NoLookup \notin Lookup /\ NoLookup.phase = "none"
  BY DEF Lookup, NoLookup
<1>3. CASE Handlers
  <2>1. CASE Paging /\ lookup.art \notin meta'
    <3>1. lookup \in Lookup /\ lookup' = [lookup EXCEPT !.present = FALSE]
      BY <1>1, <1>2, <1>3, <2>1 DEF Handlers, Paging
    <3>2. lookup' \in Lookup /\ lookup'.present = FALSE
      BY <3>1 DEF Lookup
    <3> QED
      BY <3>2 DEF LookupInv, LookupFinds
  <2>2. CASE ~(Paging /\ lookup.art \notin meta')
    <3>1. lookup' = lookup
      BY <1>3, <2>2 DEF Handlers
    <3>2. Paging /\ lookup.present => Owns(lookup.caller, lookup.art)'
      <4>1. SUFFICES ASSUME Paging, lookup.present PROVE Owns(lookup.caller, lookup.art)'
        OBVIOUS
      <4>2. lookup \in Lookup /\ Owns(lookup.caller, lookup.art)
        BY <1>1, <1>2, <4>1 DEF Paging, LookupInv
      <4>3. record'[lookup.art] = record[lookup.art]
        BY <1>3, <4>2, RecordKept DEF Handlers, Owns, Lookup
      <4> QED
        BY <2>2, <3>1, <4>1, <4>2, <4>3 DEF Owns
    <3> QED
      BY <3>1, <3>2 DEF LookupInv, LookupFinds, Paging
  <2> QED
    BY <2>1, <2>2
<1>4. ASSUME NEW c \in Customer, NEW a \in Artifact, LookupStart(c, a)
      PROVE  LookupInv'
  <2>1. PICK before \in 0..MaxOthers, after \in 0..MaxOthers :
           lookup' = [phase |-> "paging", art |-> a, caller |-> c, index |-> 0,
                      before |-> before, after |-> after, present |-> Owns(c, a), moved |-> FALSE]
    BY <1>4 DEF LookupStart
  <2> before \in Nat /\ after \in Nat
    BY CatalogueAssumption
  <2>2. UNCHANGED <<record, meta>> /\ Owns(c, a) \in BOOLEAN
    BY <1>4 DEF LookupStart, vars, store, Owns
  <2>3. lookup' \in Lookup /\ lookup'.index = 0 /\ lookup'.before = before /\ lookup'.phase = "paging"
        /\ (lookup'.present <=> Owns(c, a)) /\ lookup'.caller = c /\ lookup'.art = a
    BY <2>1, <2>2 DEF Lookup
  <2>4. Owns(c, a)' <=> Owns(c, a)
    BY <2>2 DEF Owns
  <2> QED
    BY <2>3, <2>4 DEF LookupInv, LookupFinds, Paging
<1>5. CASE LookupPage
  <2>1. lookup \in Lookup /\ lookup.phase = "paging" /\ UNCHANGED <<record, meta>>
    BY <1>1, <1>2, <1>5 DEF LookupPage, Paging, vars, store
  <2>2. CASE OnPage
    BY <1>2, <1>5, <2>2 DEF LookupPage, LookupInv, LookupFinds, Paging
  <2>3. /\ lookup.index \in Nat /\ lookup.before \in Nat /\ lookup.after \in Nat
        /\ NextIndex \in Nat /\ NextIndex = lookup.index + PageLength
    BY <2>1, PageBounds DEF NextIndex, Lookup
  <2>4. lookup.present /\ ~lookup.moved /\ ~OnPage => NextIndex <= lookup.before /\ NextIndex < Total
    <3>1. SUFFICES ASSUME lookup.present, ~lookup.moved, ~OnPage
                   PROVE  NextIndex <= lookup.before /\ NextIndex < Total
      OBVIOUS
    <3>2. Owns(lookup.caller, lookup.art) /\ lookup.index <= lookup.before
      BY <2>1, <3>1 DEF LookupInv, Paging
    <3>3. Total = lookup.before + lookup.after + 1
      BY <3>2 DEF Total
    <3>4. ~(lookup.before < lookup.index + PageLength)
      BY <3>1, <3>2 DEF OnPage
    <3> QED
      BY <2>1, <2>3, <3>3, <3>4, PageBounds
  <2>5. CASE ~OnPage /\ NextIndex < Total
    <3>1. lookup' = [lookup EXCEPT !.index = NextIndex]
      BY <1>5, <2>5 DEF LookupPage
    <3>2. /\ lookup' \in Lookup /\ lookup'.index = NextIndex /\ lookup'.before = lookup.before
          /\ lookup'.present = lookup.present /\ lookup'.moved = lookup.moved
          /\ lookup'.phase = "paging" /\ lookup'.art = lookup.art /\ lookup'.caller = lookup.caller
      BY <2>1, <2>3, <3>1 DEF Lookup
    <3>3. lookup.present => Owns(lookup.caller, lookup.art)
      BY <2>1 DEF LookupInv, Paging
    <3>4. Owns(lookup.caller, lookup.art)' <=> Owns(lookup.caller, lookup.art)
      BY <2>1, <3>2 DEF Owns
    <3> QED
      BY <2>4, <2>5, <3>2, <3>3, <3>4 DEF LookupInv, LookupFinds, Paging
  <2>6. CASE ~OnPage /\ ~(NextIndex < Total)
    <3>1. lookup' = [lookup EXCEPT !.phase = "missed"]
      BY <1>5, <2>6 DEF LookupPage
    <3>2. /\ lookup' \in Lookup /\ lookup'.phase = "missed"
          /\ lookup'.present = lookup.present /\ lookup'.moved = lookup.moved
      BY <2>1, <3>1 DEF Lookup
    <3> QED
      BY <2>4, <2>6, <3>2 DEF LookupInv, LookupFinds, Paging
  <2> QED
    BY <2>2, <2>5, <2>6
<1>6. CASE LookupReply
  BY <1>2, <1>6 DEF LookupReply, LookupInv, LookupFinds, Paging
<1>7. ASSUME NEW b \in Nat, NEW m \in BOOLEAN, Paging, UNCHANGED <<record, meta>>,
             lookup' \in Lookup, lookup'.before = b, lookup'.moved = m,
             lookup'.phase = lookup.phase, lookup'.art = lookup.art, lookup'.caller = lookup.caller,
             lookup'.index = lookup.index, lookup'.present = lookup.present,
             lookup.moved => m,
             ~m => lookup.before <= b
      PROVE  LookupInv'
  <2>1. lookup \in Lookup
    BY <1>1, <1>2, <1>7 DEF Paging
  <2>2. /\ lookup' \in Lookup /\ lookup'.index = lookup.index /\ lookup'.before = b
        /\ lookup'.present = lookup.present /\ lookup'.moved = m
        /\ lookup'.phase = "paging" /\ lookup'.art = lookup.art /\ lookup'.caller = lookup.caller
    BY <1>7 DEF Paging
  <2>3. lookup.present => Owns(lookup.caller, lookup.art)
    BY <1>7 DEF LookupInv
  <2>4. Owns(lookup.caller, lookup.art)' <=> Owns(lookup.caller, lookup.art)
    BY <1>7, <2>2 DEF Owns
  <2>5. lookup.index \in Nat /\ lookup.before \in Nat
    BY <2>1 DEF Lookup
  <2>6. lookup.present /\ ~m => lookup.index <= b
    BY <1>7, <2>5 DEF LookupInv
  <2> QED
    BY <2>2, <2>3, <2>4, <2>6 DEF LookupInv, LookupFinds, Paging
<1>8. CASE OtherSaved
  <2>1. Paging /\ UNCHANGED <<record, meta>>
    BY <1>8 DEF OtherSaved, vars, store
  <2>2. lookup \in Lookup
    BY <1>1, <1>2, <2>1 DEF Paging
  <2>3. lookup.before \in Nat /\ lookup.after \in Nat /\ lookup.moved \in BOOLEAN
    BY <2>2 DEF Lookup
  <2>4. \/ lookup' = [lookup EXCEPT !.before = lookup.before + 1]
        \/ lookup' = [lookup EXCEPT !.after = lookup.after + 1]
    BY <1>8 DEF OtherSaved
  <2>5. /\ lookup' \in Lookup
        /\ lookup'.before \in {lookup.before, lookup.before + 1} /\ lookup'.moved = lookup.moved
        /\ lookup'.phase = lookup.phase /\ lookup'.art = lookup.art /\ lookup'.caller = lookup.caller
        /\ lookup'.index = lookup.index /\ lookup'.present = lookup.present
    BY <2>2, <2>3, <2>4 DEF Lookup
  <2>6. lookup'.before \in Nat /\ lookup.before <= lookup'.before
    BY <2>3, <2>5
  <2> QED
    BY <1>7, <2>1, <2>3, <2>5, <2>6
<1>9. CASE OtherDeleted
  <2>1. Paging /\ UNCHANGED <<record, meta>>
    BY <1>9 DEF OtherDeleted, vars, store
  <2>2. lookup \in Lookup
    BY <1>1, <1>2, <2>1 DEF Paging
  <2>3. lookup.before \in Nat /\ lookup.after \in Nat /\ lookup.moved \in BOOLEAN
    BY <2>2 DEF Lookup
  <2>4. \/ /\ lookup.before > 0
           /\ lookup' = [lookup EXCEPT !.before = lookup.before - 1, !.moved = TRUE]
        \/ /\ lookup.after > 0
           /\ lookup' = [lookup EXCEPT !.after = lookup.after - 1]
    BY <1>9, <2>3 DEF OtherDeleted
  <2>5. /\ lookup' \in Lookup
        /\ lookup'.phase = lookup.phase /\ lookup'.art = lookup.art /\ lookup'.caller = lookup.caller
        /\ lookup'.index = lookup.index /\ lookup'.present = lookup.present
        /\ \/ lookup'.moved = TRUE
           \/ lookup'.before = lookup.before /\ lookup'.moved = lookup.moved
    <3>1. CASE /\ lookup.before > 0
               /\ lookup' = [lookup EXCEPT !.before = lookup.before - 1, !.moved = TRUE]
      <4>1. lookup.before - 1 \in Nat
        BY <2>3, <3>1
      <4> QED
        BY <2>2, <3>1, <4>1 DEF Lookup
    <3>2. CASE /\ lookup.after > 0
               /\ lookup' = [lookup EXCEPT !.after = lookup.after - 1]
      <4>1. lookup.after - 1 \in Nat
        BY <2>3, <3>2
      <4> QED
        BY <2>2, <3>2, <4>1 DEF Lookup
    <3> QED
      BY <2>4, <3>1, <3>2
  <2>6. lookup'.before \in Nat /\ lookup'.moved \in BOOLEAN
    BY <2>5 DEF Lookup
  <2>7. /\ lookup.moved => lookup'.moved
        /\ ~lookup'.moved => lookup.before <= lookup'.before
    BY <2>3, <2>5
  <2> QED
    BY <1>7, <2>1, <2>5, <2>6, <2>7
<1> QED
  BY <1>3, <1>4, <1>5, <1>6, <1>8, <1>9 DEF Lookups

-----------------------------------------------------------------------------
(***************************************************************************)
(* The inference requests                                                  *)
(***************************************************************************)
InferPhase == {"idle", "public", "fetch", "open", "write", "spawn", "running", "close", "reply",
               "erred", "closing"}

Inferring == [phase : InferPhase, art : Artifact \union {NoArtifact}, caller : Caller,
              bytes : Content, got : Content, linked : BOOLEAN, alone : BOOLEAN]

InferTypes ==
    /\ infer \in [Infer -> Inferring]
    /\ tmp \in [Artifact -> {"none", "torn", "match", "mismatch"}]
    /\ spawnErrors \in Nat

\* A request that has been alone all the time finds in the file what it wrote.
InferInv(i) ==
    LET r == infer[i] IN
    /\ r.phase # "idle" => r.art \in Artifact
    /\ r.phase \in {"open", "write", "spawn", "running", "close", "reply"} => r.bytes # "absent"
    /\ r.phase \in {"erred", "closing"} => spawnErrors > 0
    /\ r.phase # "idle" /\ r.alone /\ spawnErrors = 0 =>
          /\ \A j \in Infer \ {i} : infer[j].phase # "idle" => infer[j].art # r.art
          /\ r.phase = "write" => r.linked /\ tmp[r.art] = "torn"
          /\ r.phase \in {"spawn", "running"} => tmp[r.art] = r.bytes
          /\ r.phase \in {"close", "reply"} => r.got = r.bytes

InferenceInv == InferTypes /\ \A i \in Infer : InferInv(i)

-----------------------------------------------------------------------------
\* A step of one request that is under way, which touches no file but that of
\* its own artifact, and of the other requests at most where that file is linked.
LEMMA InferStep ==
    ASSUME InferenceInv, NEW i \in Infer, infer[i].phase # "idle",
           InferTypes', spawnErrors' >= spawnErrors,
           infer'[i].phase # "idle" => infer'[i].art = infer[i].art,
           infer'[i].alone => infer[i].alone \/ infer'[i].phase = "idle",
           \A j \in Infer \ {i} :
              \/ infer'[j] = infer[j]
              \/ infer[j].art = infer[i].art /\ infer'[j] = [infer[j] EXCEPT !.linked = FALSE],
           \A a \in Artifact : a # infer[i].art => tmp'[a] = tmp[a],
           infer'[i].phase \in {"open", "write", "spawn", "running", "close", "reply"}
              => infer'[i].bytes # "absent",
           infer'[i].phase \in {"erred", "closing"} => spawnErrors' > 0,
           infer'[i].phase # "idle" /\ infer'[i].alone /\ spawnErrors' = 0 =>
              /\ infer'[i].phase = "write" => infer'[i].linked /\ tmp'[infer[i].art] = "torn"
              /\ infer'[i].phase \in {"spawn", "running"} => tmp'[infer[i].art] = infer'[i].bytes
              /\ infer'[i].phase \in {"close", "reply"} => infer'[i].got = infer'[i].bytes
    PROVE  InferenceInv'
<1>1. spawnErrors \in Nat /\ spawnErrors' \in Nat /\ infer[i].art \in Artifact
  BY DEF InferenceInv, InferTypes, InferInv
<1>2. \A j \in Infer \ {i} :
         /\ infer'[j].phase = infer[j].phase /\ infer'[j].art = infer[j].art
         /\ infer'[j].bytes = infer[j].bytes /\ infer'[j].got = infer[j].got
         /\ infer'[j].alone = infer[j].alone
         /\ infer[j].art # infer[i].art => infer'[j].linked = infer[j].linked
  <2>1. \A j \in Infer : infer[j] \in Inferring
    BY DEF InferenceInv, InferTypes
  <2> QED
    BY <2>1 DEF Inferring
<1>3. ASSUME NEW j \in Infer \ {i} PROVE InferInv(j)'
  <2>1. InferInv(j)
    BY DEF InferenceInv
  <2>2. /\ infer'[j].phase # "idle" => infer'[j].art \in Artifact
        /\ infer'[j].phase \in {"open", "write", "spawn", "running", "close", "reply"}
              => infer'[j].bytes # "absent"
        /\ infer'[j].phase \in {"erred", "closing"} => spawnErrors' > 0
    BY <1>1, <1>2, <2>1 DEF InferInv
  <2>3. ASSUME infer'[j].phase # "idle", infer'[j].alone, spawnErrors' = 0
        PROVE  /\ \A k \in Infer \ {j} : infer'[k].phase # "idle" => infer'[k].art # infer'[j].art
               /\ infer'[j].phase = "write" => infer'[j].linked /\ tmp'[infer'[j].art] = "torn"
               /\ infer'[j].phase \in {"spawn", "running"} => tmp'[infer'[j].art] = infer'[j].bytes
               /\ infer'[j].phase \in {"close", "reply"} => infer'[j].got = infer'[j].bytes
    <3>1. /\ infer[j].phase # "idle" /\ infer[j].alone /\ spawnErrors = 0 /\ infer[j].art \in Artifact
          /\ infer[i].art # infer[j].art
      BY <1>1, <1>2, <2>1, <2>3 DEF InferInv
    <3>2. \A k \in Infer \ {j} : infer'[k].phase # "idle" => infer'[k].art # infer'[j].art
      BY <1>2, <2>1, <3>1 DEF InferInv
    <3>3. tmp'[infer[j].art] = tmp[infer[j].art]
      BY <3>1
    <3> QED
      BY <1>2, <2>1, <3>1, <3>2, <3>3 DEF InferInv
  <2> QED
    BY <2>2, <2>3 DEF InferInv
<1>4. InferInv(i)'
  <2>1. InferInv(i)
    BY DEF InferenceInv
  <2>2. ASSUME infer'[i].phase # "idle", infer'[i].alone, spawnErrors' = 0
        PROVE  \A k \in Infer \ {i} : infer'[k].phase # "idle" => infer'[k].art # infer'[i].art
    BY <1>1, <1>2, <2>1, <2>2 DEF InferInv
  <2> QED
    BY <1>1, <2>2 DEF InferInv
<1> QED
  BY <1>3, <1>4 DEF InferenceInv

\* A request that is answered, or not found, leaves an idle slot.
LEMMA IdleSlot == NoInfer \in Inferring /\ NoInfer.phase = "idle"
  BY DEF NoInfer, Inferring, InferPhase, Caller, Content

\* A step that changes one request and no file.
LEMMA GoStep ==
    ASSUME InferenceInv, NEW i \in Infer, infer[i].phase # "idle", NEW r \in Inferring,
           GoInfer(i, r), tmp' = tmp, spawnErrors' \in Nat, spawnErrors' >= spawnErrors,
           r.phase # "idle" => r.art = infer[i].art,
           r.alone => infer[i].alone \/ r.phase = "idle",
           r.phase \in {"open", "write", "spawn", "running", "close", "reply"} => r.bytes # "absent",
           r.phase \in {"erred", "closing"} => spawnErrors' > 0,
           r.phase # "idle" /\ r.alone /\ spawnErrors' = 0 =>
              /\ r.phase # "write"
              /\ r.phase \in {"spawn", "running"} => tmp[infer[i].art] = r.bytes
              /\ r.phase \in {"close", "reply"} => r.got = r.bytes
    PROVE  InferenceInv'
<1>1. infer' = [infer EXCEPT ![i] = r] /\ infer \in [Infer -> Inferring]
  BY DEF GoInfer, InferenceInv, InferTypes
<1>2. infer'[i] = r /\ \A j \in Infer \ {i} : infer'[j] = infer[j]
  BY <1>1
<1>3. InferTypes'
  BY <1>1 DEF InferenceInv, InferTypes
<1> QED
  BY <1>2, <1>3, InferStep

\* A step that removes the file under its name.
LEMMA RemoveStep ==
    ASSUME InferenceInv, NEW i \in Infer, infer[i].phase # "idle", NEW r \in Inferring,
           Removing(i, r),
           r.phase # "idle" => r.art = infer[i].art,
           r.alone => infer[i].alone \/ r.phase = "idle",
           r.phase = "idle" \/ (r.phase = "closing" /\ spawnErrors > 0)
              \/ (r.phase = "reply" /\ r.bytes # "absent"
                    /\ (r.alone /\ spawnErrors = 0 => r.got = r.bytes))
    PROVE  InferenceInv'
<1>1. \A j \in Infer : infer[j] \in Inferring
  BY DEF InferenceInv, InferTypes
<1>2. /\ infer' = [j \in Infer |->
                    IF j = i THEN r
                    ELSE IF infer[j].art = infer[i].art THEN [infer[j] EXCEPT !.linked = FALSE]
                    ELSE infer[j]]
      /\ tmp' = [tmp EXCEPT ![infer[i].art] = "none"] /\ spawnErrors' = spawnErrors
  BY DEF Removing
<1>3. /\ infer'[i] = r
      /\ \A j \in Infer \ {i} :
            \/ infer'[j] = infer[j]
            \/ infer[j].art = infer[i].art /\ infer'[j] = [infer[j] EXCEPT !.linked = FALSE]
  BY <1>2
<1>4. InferTypes'
  <2>1. ASSUME NEW j \in Infer PROVE [infer[j] EXCEPT !.linked = FALSE] \in Inferring
    BY <1>1 DEF Inferring
  <2>2. infer' \in [Infer -> Inferring]
    BY <1>1, <1>2, <2>1
  <2> QED
    BY <1>2, <2>2 DEF InferenceInv, InferTypes
<1>5. \A a \in Artifact : a # infer[i].art => tmp'[a] = tmp[a]
  BY <1>2 DEF InferenceInv, InferTypes
<1>6. spawnErrors \in Nat /\ spawnErrors' = spawnErrors
  BY <1>2 DEF InferenceInv, InferTypes
<1>7. r.phase \notin {"write", "spawn", "running"}
  OBVIOUS
<1> QED
  BY <1>3, <1>4, <1>5, <1>6, <1>7, InferStep

\* A new request is alone if no other for the artifact is under way, and ends
\* that the others are.
LEMMA StepInferStart ==
    ASSUME InferenceInv, NEW i \in Infer, NEW c \in Caller, NEW a \in Artifact, InferStart(i, c, a)
    PROVE  InferenceInv'
<1> DEFINE free == \A k \in Infer \ {i} : infer[k].art = a => ~Unanswered(k)
<1>1. PICK phase \in {"fetch", "public"} :
         infer' = [j \in Infer |->
                     IF j = i
                     THEN [NoInfer EXCEPT !.phase = phase, !.art = a, !.caller = c, !.alone = free]
                     ELSE IF infer[j].art = a THEN [infer[j] EXCEPT !.alone = FALSE]
                     ELSE infer[j]]
  BY DEF InferStart
<1>2. infer[i].phase = "idle" /\ UNCHANGED <<tmp, spawnErrors>>
  BY DEF InferStart
<1>3. free \in BOOLEAN
  OBVIOUS
<1>4. /\ infer'[i] \in Inferring /\ infer'[i].phase = phase /\ infer'[i].art = a
      /\ infer'[i].alone <=> free
  <2> HIDE DEF free
  <2>1. infer'[i] = [NoInfer EXCEPT !.phase = phase, !.art = a, !.caller = c, !.alone = free]
    BY <1>1
  <2>2. phase \in InferPhase
    BY DEF InferPhase
  <2> QED
    BY <1>3, <2>1, <2>2, IdleSlot DEF Inferring
<1>5. \A j \in Infer : infer[j] \in Inferring
  BY DEF InferenceInv, InferTypes
<1>6. ASSUME NEW j \in Infer \ {i}
      PROVE  /\ infer'[j] \in Inferring
             /\ infer'[j].phase = infer[j].phase /\ infer'[j].art = infer[j].art
             /\ infer'[j].bytes = infer[j].bytes /\ infer'[j].got = infer[j].got
             /\ infer'[j].linked = infer[j].linked
             /\ infer'[j].alone => infer[j].alone /\ infer[j].art # a
  <2>1. infer'[j] = IF infer[j].art = a THEN [infer[j] EXCEPT !.alone = FALSE] ELSE infer[j]
    BY <1>1
  <2> QED
    BY <1>5, <2>1 DEF Inferring
<1>7. InferTypes'
  <2>1. infer' = [j \in Infer |-> infer'[j]]
    BY <1>1
  <2> HIDE DEF free
  <2>2. infer' \in [Infer -> Inferring]
    BY <1>4, <1>6, <2>1
  <2> QED
    BY <1>2, <2>2 DEF InferenceInv, InferTypes
<1>8. InferInv(i)'
  <2>1. ASSUME free, spawnErrors = 0, NEW j \in Infer \ {i}, infer[j].phase # "idle"
        PROVE  infer[j].art # a
    <3>1. infer[j].phase \notin {"erred", "closing"}
      <4>1. InferInv(j)
        BY DEF InferenceInv
      <4>2. ~(spawnErrors > 0)
        BY <2>1
      <4> QED
        BY <4>1, <4>2 DEF InferInv
    <3> QED
      BY <2>1, <3>1 DEF Unanswered
  <2> HIDE DEF free
  <2> QED
    BY <1>2, <1>4, <1>6, <2>1 DEF InferInv
<1>9. ASSUME NEW j \in Infer \ {i} PROVE InferInv(j)'
  <2>1. InferInv(j)
    BY DEF InferenceInv
  <2> HIDE DEF free
  <2> QED
    BY <1>2, <1>4, <1>6, <2>1 DEF InferInv
<1> QED
  BY <1>7, <1>8, <1>9 DEF InferenceInv

\* The bytes that were fetched are some.
LEMMA StepInferFetch ==
    ASSUME TypeOK, InferenceInv, NEW i \in Infer, InferPublic(i) \/ InferFetch(i)
    PROVE  InferenceInv'
<1> DEFINE bytes == data[infer[i].art]
           found == [infer[i] EXCEPT !.phase = "fetch"]
           fetched == [infer[i] EXCEPT !.phase = "open", !.bytes = bytes]
<1>1. infer[i] \in Inferring /\ infer[i].phase # "idle" /\ InferInv(i)
  BY DEF InferPublic, InferFetch, InferenceInv, InferTypes
<1>2. bytes \in Content
  BY <1>1 DEF InferInv, TypeOK, StoreOK
<1>3. /\ UNCHANGED <<tmp, spawnErrors>> /\ spawnErrors \in Nat
      /\ \/ GoInfer(i, NoInfer)
         \/ GoInfer(i, found)
         \/ bytes # "absent" /\ GoInfer(i, fetched)
  BY DEF InferPublic, InferFetch, InferenceInv, InferTypes
<1>4. /\ found \in Inferring /\ found.phase = "fetch" /\ found.art = infer[i].art
      /\ found.alone = infer[i].alone
  BY <1>1 DEF Inferring, InferPhase
<1>5. /\ fetched \in Inferring /\ fetched.phase = "open" /\ fetched.art = infer[i].art
      /\ fetched.alone = infer[i].alone /\ fetched.bytes = bytes
  BY <1>1, <1>2 DEF Inferring, InferPhase
<1> HIDE DEF found, fetched, bytes
<1>6. spawnErrors' \in Nat /\ spawnErrors' >= spawnErrors
  BY <1>3
<1> QED
  BY <1>1, <1>3, <1>4, <1>5, <1>6, IdleSlot, GoStep

\* The file is opened, and emptied by it.
LEMMA StepOpenTmp ==
    ASSUME InferenceInv, NEW i \in Infer, OpenTmp(i)
    PROVE  InferenceInv'
<1> DEFINE r == [infer[i] EXCEPT !.phase = "write", !.linked = TRUE]
<1>1. infer[i] \in Inferring /\ infer[i].phase = "open" /\ InferInv(i)
  BY DEF OpenTmp, InferenceInv, InferTypes
<1>2. /\ infer' = [infer EXCEPT ![i] = r] /\ tmp' = [tmp EXCEPT ![infer[i].art] = "torn"]
      /\ spawnErrors' = spawnErrors
  BY DEF OpenTmp, GoInfer
<1>3. /\ r \in Inferring /\ r.phase = "write" /\ r.art = infer[i].art
      /\ r.alone = infer[i].alone /\ r.bytes = infer[i].bytes /\ r.linked
  BY <1>1 DEF Inferring, InferPhase
<1> HIDE DEF r
<1>4. /\ infer'[i] = r /\ \A j \in Infer \ {i} : infer'[j] = infer[j]
      /\ InferTypes'
  BY <1>2, <1>3 DEF InferenceInv, InferTypes
<1>5. /\ tmp'[infer[i].art] = "torn"
      /\ \A a \in Artifact : a # infer[i].art => tmp'[a] = tmp[a]
  BY <1>1, <1>2 DEF InferenceInv, InferTypes, InferInv
<1>6. spawnErrors' >= spawnErrors
  BY <1>2 DEF InferenceInv, InferTypes
<1>7. r.bytes # "absent"
  BY <1>1, <1>3 DEF InferInv
<1> QED
  BY <1>1, <1>3, <1>4, <1>5, <1>6, <1>7, InferStep

\* What is written into an emptied file is what it holds.
LEMMA StepWriteTmp ==
    ASSUME InferenceInv, NEW i \in Infer, WriteTmp(i)
    PROVE  InferenceInv'
<1> DEFINE r == [infer[i] EXCEPT !.phase = "spawn"]
           a == infer[i].art
           b == IF ~infer[i].linked THEN tmp[a]
                ELSE IF tmp[a] \in {"torn", infer[i].bytes} THEN infer[i].bytes ELSE "torn"
<1>1. infer[i] \in Inferring /\ infer[i].phase = "write" /\ InferInv(i)
  BY DEF WriteTmp, InferenceInv, InferTypes
<1>2. /\ infer' = [infer EXCEPT ![i] = r] /\ tmp' = [tmp EXCEPT ![a] = b]
      /\ spawnErrors' = spawnErrors
  BY DEF WriteTmp, GoInfer
<1>3. /\ r \in Inferring /\ r.phase = "spawn" /\ r.art = infer[i].art
      /\ r.alone = infer[i].alone /\ r.bytes = infer[i].bytes
  BY <1>1 DEF Inferring, InferPhase
<1>4. a \in Artifact /\ infer[i].bytes \in {"match", "mismatch"}
  BY <1>1 DEF InferInv, Inferring, Content
<1>5. b \in {"none", "torn", "match", "mismatch"}
  BY <1>4 DEF InferenceInv, InferTypes
<1>6. infer[i].alone /\ spawnErrors = 0 => b = infer[i].bytes
  BY <1>1 DEF InferInv
<1> HIDE DEF r, a, b
<1>7. /\ infer'[i] = r /\ \A j \in Infer \ {i} : infer'[j] = infer[j]
      /\ InferTypes'
  BY <1>2, <1>3, <1>5 DEF InferenceInv, InferTypes
<1>8. /\ tmp'[a] = b
      /\ \A c \in Artifact : c # a => tmp'[c] = tmp[c]
  BY <1>2, <1>4 DEF InferenceInv, InferTypes
<1>9. spawnErrors' >= spawnErrors /\ r.bytes # "absent"
  BY <1>2, <1>3, <1>4 DEF InferenceInv, InferTypes
<1> QED
  BY <1>1, <1>2, <1>3, <1>6, <1>7, <1>8, <1>9, InferStep DEF a

\* The process starts or does not, reads the file, and is answered for.
LEMMA StepProcess ==
    ASSUME InferenceInv, NEW i \in Infer,
           Spawn(i) \/ SpawnFails(i) \/ ChildReads(i) \/ InferReply(i)
    PROVE  InferenceInv'
<1> DEFINE run == [infer[i] EXCEPT !.phase = "running"]
           erred == [infer[i] EXCEPT !.phase = "erred"]
           file == tmp[infer[i].art]
           got == IF file \in {"none", "torn"} THEN "absent" ELSE file
           done == [infer[i] EXCEPT !.phase = "close", !.got = got]
<1>1. infer[i] \in Inferring /\ infer[i].phase # "idle" /\ InferInv(i) /\ spawnErrors \in Nat
  BY DEF Spawn, SpawnFails, ChildReads, InferReply, InferenceInv, InferTypes
<1>2. got \in Content
  BY <1>1 DEF InferInv, InferenceInv, InferTypes, Content
<1>3. /\ run \in Inferring /\ run.phase = "running" /\ run.art = infer[i].art
      /\ run.alone = infer[i].alone /\ run.bytes = infer[i].bytes
  BY <1>1 DEF Inferring, InferPhase
<1>4. erred \in Inferring /\ erred.phase = "erred" /\ erred.art = infer[i].art
      /\ erred.alone = infer[i].alone
  BY <1>1 DEF Inferring, InferPhase
<1>5. /\ done \in Inferring /\ done.phase = "close" /\ done.art = infer[i].art
      /\ done.alone = infer[i].alone /\ done.bytes = infer[i].bytes /\ done.got = got
  BY <1>1, <1>2 DEF Inferring, InferPhase
<1> HIDE DEF run, erred, done
<1>6. CASE Spawn(i)
  <2>1. /\ infer[i].phase = "spawn" /\ GoInfer(i, run) /\ tmp' = tmp /\ spawnErrors' = spawnErrors
    BY <1>6 DEF Spawn, run
  <2>2. /\ run.bytes # "absent"
        /\ run.alone /\ spawnErrors = 0 => tmp[infer[i].art] = run.bytes
    BY <1>1, <1>3, <2>1 DEF InferInv
  <2>3. spawnErrors' \in Nat /\ spawnErrors' >= spawnErrors
    BY <1>1, <2>1
  <2> QED
    BY <1>1, <1>3, <2>1, <2>2, <2>3, GoStep
<1>7. CASE SpawnFails(i)
  <2>1. /\ GoInfer(i, erred) /\ tmp' = tmp /\ spawnErrors' = spawnErrors + 1
    BY <1>7 DEF SpawnFails, erred
  <2>2. spawnErrors' \in Nat /\ spawnErrors' >= spawnErrors /\ spawnErrors' > 0 /\ spawnErrors' # 0
    BY <1>1, <2>1
  <2> QED
    BY <1>1, <1>4, <2>1, <2>2, GoStep
<1>8. CASE ChildReads(i)
  <2>1. /\ infer[i].phase = "running" /\ GoInfer(i, done) /\ tmp' = tmp /\ spawnErrors' = spawnErrors
    BY <1>8 DEF ChildReads, done
  <2>2. infer[i].bytes # "absent" /\ infer[i].bytes \in {"match", "mismatch"}
    BY <1>1, <2>1 DEF InferInv, Inferring, Content
  <2>3. infer[i].alone /\ spawnErrors = 0 => got = infer[i].bytes
    BY <1>1, <2>1, <2>2 DEF InferInv
  <2>4. spawnErrors' \in Nat /\ spawnErrors' >= spawnErrors
    BY <1>1, <2>1
  <2> HIDE DEF got
  <2> QED
    BY <1>1, <1>5, <2>1, <2>2, <2>3, <2>4, GoStep
<1>9. CASE InferReply(i)
  <2>1. GoInfer(i, NoInfer) /\ tmp' = tmp /\ spawnErrors' = spawnErrors
    BY <1>9 DEF InferReply
  <2>2. spawnErrors' \in Nat /\ spawnErrors' >= spawnErrors
    BY <1>1, <2>1
  <2> QED
    BY <1>1, <2>1, <2>2, IdleSlot, GoStep
<1> QED
  BY <1>6, <1>7, <1>8, <1>9

\* The file is removed before the answer, or after that of the error event.
LEMMA StepUnlink ==
    ASSUME InferenceInv, NEW i \in Infer, Unlink(i) \/ LateUnlink(i)
    PROVE  InferenceInv'
<1> DEFINE reply == [infer[i] EXCEPT !.phase = "reply"]
           closing == [infer[i] EXCEPT !.phase = "closing"]
<1>1. infer[i] \in Inferring /\ infer[i].phase # "idle" /\ InferInv(i)
  BY DEF Unlink, LateUnlink, InferenceInv, InferTypes
<1>2. /\ reply \in Inferring /\ reply.phase = "reply" /\ reply.art = infer[i].art
      /\ reply.alone = infer[i].alone /\ reply.bytes = infer[i].bytes /\ reply.got = infer[i].got
  BY <1>1 DEF Inferring, InferPhase
<1>3. closing \in Inferring /\ closing.phase = "closing" /\ closing.art = infer[i].art
      /\ closing.alone = infer[i].alone
  BY <1>1 DEF Inferring, InferPhase
<1>4. \/ infer[i].phase = "close" /\ Removing(i, reply)
      \/ infer[i].phase = "erred" /\ Removing(i, closing)
      \/ Removing(i, NoInfer)
  BY DEF Unlink, LateUnlink
<1> HIDE DEF reply, closing
<1>5. CASE infer[i].phase = "close" /\ Removing(i, reply)
  <2>1. /\ reply.bytes # "absent"
        /\ reply.alone /\ spawnErrors = 0 => reply.got = reply.bytes
    BY <1>1, <1>2, <1>5 DEF InferInv
  <2> QED
    BY <1>1, <1>2, <1>5, <2>1, RemoveStep
<1>6. CASE infer[i].phase = "erred" /\ Removing(i, closing)
  <2>1. spawnErrors > 0
    BY <1>1, <1>6 DEF InferInv
  <2> QED
    BY <1>1, <1>3, <1>6, <2>1, RemoveStep
<1>7. CASE Removing(i, NoInfer)
  BY <1>1, <1>7, IdleSlot, RemoveStep
<1> QED
  BY <1>4, <1>5, <1>6, <1>7

-----------------------------------------------------------------------------
BackendInv == IInv /\ RecordLast /\ LookupInv /\ InferenceInv

\* Nothing is stored, looked for or read at the start.
LEMMA InitBackend == BackendInit => BackendInv
<1> SUFFICES ASSUME BackendInit PROVE BackendInv
  OBVIOUS
<1>1. Init /\ lookup = NoLookup /\ IInv
  BY InitIInv DEF BackendInit, CatalogueInit
<1>2. RecordLast
  BY <1>1 DEF Init, RecordLast, Idle, At
<1>3. LookupInv
  BY <1>1 DEF LookupInv, LookupFinds, Paging, NoLookup
<1>4. InferTypes
  BY IdleSlot DEF BackendInit, InferTypes
<1>5. ASSUME NEW i \in Infer PROVE InferInv(i)
  BY IdleSlot DEF BackendInit, InferInv
<1> QED
  BY <1>1, <1>2, <1>3, <1>4, <1>5 DEF BackendInv, InferenceInv

\* Each part keeps its invariant while the others run.
LEMMA BackendStep == BackendInv /\ [BackendNext]_backendVars => BackendInv'
<1> SUFFICES ASSUME BackendInv, [BackendNext]_backendVars PROVE BackendInv'
  OBVIOUS
<1> USE DEF BackendInv
<1>1. [Next]_vars
  <2>1. ASSUME NEW i \in Infer,
               \/ \E c \in Caller, a \in Artifact : InferStart(i, c, a)
               \/ InferPublic(i) \/ InferFetch(i) \/ OpenTmp(i) \/ WriteTmp(i) \/ Spawn(i)
               \/ SpawnFails(i) \/ ChildReads(i) \/ Unlink(i) \/ InferReply(i) \/ LateUnlink(i)
        PROVE  UNCHANGED vars
    BY <2>1 DEF InferStart, InferPublic, InferFetch, OpenTmp, WriteTmp, Spawn, SpawnFails,
                ChildReads, Unlink, InferReply, LateUnlink, GoInfer, Removing
  <2>2. Lookups => UNCHANGED vars
    BY DEF Lookups, LookupStart, LookupPage, LookupReply, OtherSaved, OtherDeleted
  <2> QED
    BY <2>1, <2>2 DEF BackendNext, Handlers, Inference, backendVars
<1>2. IInv'
  BY <1>1, TypeStep, SavedStep, HandlerStep, ArtifactStep DEF IInv
<1>3. RecordLast'
  BY <1>1, RecordLastStep
<1>4. LookupInv'
  <2>1. CASE Handlers \/ Lookups
    BY <2>1, LookupStep
  <2>2. CASE ~(Handlers \/ Lookups)
    <3>1. UNCHANGED <<vars, lookup>>
      BY <2>2 DEF BackendNext, backendVars, Inference, InferStart, InferPublic, InferFetch, OpenTmp,
                  WriteTmp, Spawn, SpawnFails, ChildReads, Unlink, InferReply, LateUnlink, GoInfer, Removing
    <3> QED
      BY <3>1 DEF LookupInv, LookupFinds, Paging, Owns, vars, store
  <2> QED
    BY <2>1, <2>2
<1>5. InferenceInv'
  <2>1. CASE UNCHANGED inferVars
    BY <2>1 DEF inferVars, InferenceInv, InferTypes, InferInv
  <2>2. CASE Inference
    <3>1. TypeOK
      BY DEF IInv
    <3> QED
      BY <2>2, <3>1, StepInferStart, StepInferFetch, StepOpenTmp, StepWriteTmp, StepProcess, StepUnlink
      DEF Inference
  <2> QED
    BY <2>1, <2>2 DEF BackendNext, backendVars
<1> QED
  BY <1>2, <1>3, <1>4, <1>5

\* The invariants of the handlers, the search and the inference requests hold
\* in every state of the backend that runs them all.
THEOREM BackendInvariance == BackendSpec => []BackendInv
  BY InitBackend, BackendStep, PTL DEF BackendSpec

\* A flat route does not miss an artifact that was stored all the time, unless
\* a record that sorts before it was deleted meanwhile; for any page size and
\* any number of records.
THEOREM LookupFindsHolds == BackendSpec => []LookupFinds
<1>1. BackendInv => LookupFinds
  BY DEF BackendInv, LookupInv
<1> QED
  BY <1>1, BackendInvariance, PTL

\* An inference request that shares its temporary file with no other is
\* answered from the bytes it fetched, as long as every process can be started.
THEOREM LoneInferenceExactHolds == BackendSpec => []LoneInferenceExact
<1>1. BackendInv => LoneInferenceExact
  BY DEF BackendInv, InferenceInv, InferInv, LoneInferenceExact
<1> QED
  BY <1>1, BackendInvariance, PTL

\* In memory, where nothing breaks a handler off, stored bytes whose deletion
\* no write raced with can be found by their owner's delete request.
THEOREM StoredObjectsDeletableInMemory ==
    BackendSpec => [](~MetaUnderPrefix => StoredObjectsDeletable)
<1>1. BackendInv => (~MetaUnderPrefix => StoredObjectsDeletable)
  BY DEF BackendInv, RecordLast, StoredObjectsDeletable
<1> QED
  BY <1>1, BackendInvariance, PTL
=============================================================================
