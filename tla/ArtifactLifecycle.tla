------------------------- MODULE ArtifactLifecycle -------------------------
(***************************************************************************)
(* The hosted artifact store: the create, confirm, download and delete     *)
(* handlers of backend/src/routes/artifacts.ts over the metadata store,    *)
(* the public index and the bucket.  A handler is a sequence of awaited    *)
(* storage calls; every await is a point where other handlers, the         *)
(* client's direct PUT through its presigned URL, a failing call or a      *)
(* crash may come in between.  The org/project routes and the flat routes  *)
(* run the same storage calls, so one action stands for both.              *)
(*                                                                         *)
(* The file names are those the CLI sends: plain names, so that the key of *)
(* an object is never the key of a record, and a record says of an         *)
(* artifact what its create handler wrote.  What another name would do is  *)
(* outside this model, and no isolation between tenants is claimed.        *)
(*                                                                         *)
(* Observability (history) variables, which no action reads: acks, listed, *)
(* raced.                                                                  *)
(***************************************************************************)
EXTENDS Naturals

CONSTANTS
    Artifact,        \* the uuids the create handler may draw
    Customer,        \* the authenticated tenants
    Anonymous,       \* a caller without credentials
    NoArtifact,      \* the artifact of an idle request slot
    Request,         \* slots of concurrently running handlers
    UrlTtl,          \* lifetime of a presigned upload URL, in ticks
    MetaUnderPrefix, \* TRUE: S3 stores; FALSE: the in-memory stores
    MaxFaults        \* bound on failing calls and crashes

ASSUME ConstantAssumption ==
    /\ Anonymous \notin Customer
    /\ NoArtifact \notin Artifact
    /\ UrlTtl \in Nat
    /\ MaxFaults \in Nat
    /\ MetaUnderPrefix \in BOOLEAN

VARIABLES
    record,     \* record[a]: owner and visibility the create handler chose
    meta,       \* artifacts whose metadata record is stored
    pub,        \* artifacts with a record in the public index
    data,       \* data[a]: the stored bytes against the declared size and hash
    urlLife,    \* urlLife[a]: ticks the upload URL of a still has to live
    uploading,  \* artifacts with a PUT the bucket has accepted, not yet stored
    req,        \* req[r]: the handler running in slot r
    faults,     \* failures so far
    acks,       \* history: the success replies sent for a
    listed,     \* history: artifacts whose objects a delete handler has listed
    raced       \* history: artifacts written to after any such listing

store == <<meta, pub, data>>
history == <<acks, listed, raced>>
vars == <<record, store, urlLife, uploading, req, faults, history>>

(***************************************************************************)
(* Values                                                                  *)
(***************************************************************************)
Caller == Customer \union {Anonymous}

Content == {"absent", "match", "mismatch"}

Unborn == [owner |-> Anonymous, visibility |-> "private"]

Record == [owner : Customer, visibility : {"public", "private"}]

\* What list(prefix + "/") can return for one artifact.
Object == {"meta", "data"}

\* A phase is named for what the handler does next; the last one of a
\* handler is the success reply it is about to send.
ReplyPhase == {"created", "confirmed", "granted", "deleted"}

Phase == {"idle", "save", "savePublic", "verify", "lookupPublic",
          "list", "remove", "removePublic"} \union ReplyPhase

Handler == [phase : Phase, art : Artifact \union {NoArtifact},
            caller : Caller, todo : SUBSET Object, sealed : BOOLEAN]

At(phase, a, c) == [phase |-> phase, art |-> a, caller |-> c, todo |-> {},
                    sealed |-> FALSE]

Idle == At("idle", NoArtifact, Anonymous)

Ack == {"created", "confirmed", "sealed", "deleted"}

IsPublic(a) == record[a].visibility = "public"

\* metadataStore.get(customer, ..., a) finds a record only under the
\* customer's own prefix.
Owns(c, a) == a \in meta /\ record[a].owner = c

CanAccess(c, a) == IsPublic(a) \/ (c \in Customer /\ record[a].owner = c)

HandlersOK ==   \* a running handler works on an artifact
    /\ req \in [Request -> Handler]
    /\ \A r \in Request : req[r].phase # "idle" => req[r].art \in Artifact

StoreOK ==
    /\ record \in [Artifact -> Record \union {Unborn}]
    /\ meta \subseteq Artifact
    /\ pub \subseteq Artifact
    /\ data \in [Artifact -> Content]
    /\ urlLife \in [Artifact -> 0..UrlTtl]
    /\ uploading \subseteq Artifact
    /\ faults \in 0..MaxFaults
    /\ acks \in [Artifact -> SUBSET Ack]
    /\ listed \subseteq Artifact
    /\ raced \subseteq Artifact

TypeOK == StoreOK /\ HandlersOK

Init ==
    /\ record = [a \in Artifact |-> Unborn]
    /\ meta = {}
    /\ pub = {}
    /\ data = [a \in Artifact |-> "absent"]
    /\ urlLife = [a \in Artifact |-> 0]
    /\ uploading = {}
    /\ req = [r \in Request |-> Idle]
    /\ faults = 0
    /\ acks = [a \in Artifact |-> {}]
    /\ listed = {}
    /\ raced = {}

(***************************************************************************)
(* Handler plumbing                                                        *)
(***************************************************************************)
Begin(r, phase, a, c) ==
    /\ req[r].phase = "idle"
    /\ req' = [req EXCEPT ![r] = At(phase, a, c)]

Goto(r, phase) == req' = [req EXCEPT ![r].phase = phase]

(***************************************************************************)
(* POST .../artifacts and POST /artifacts/upload-url                       *)
(***************************************************************************)
\* Mutant: the URL lives for the 900 seconds that the flat reply announces.
CreateStartLongLived(r, c, a, v) ==
    /\ record[a] = Unborn
    /\ Begin(r, "save", a, c)
    /\ record' = [record EXCEPT ![a] = [owner |-> c, visibility |-> v]]
    /\ urlLife' = [urlLife EXCEPT ![a] = 3 * UrlTtl]
    /\ UNCHANGED <<store, uploading, faults, history>>

\* A fresh uuid and a presigned upload URL; nothing is stored yet.
CreateStart(r, c, a, v) ==
    /\ record[a] = Unborn
    /\ Begin(r, "save", a, c)
    /\ record' = [record EXCEPT ![a] = [owner |-> c, visibility |-> v]]
    /\ urlLife' = [urlLife EXCEPT ![a] = UrlTtl]
    /\ UNCHANGED <<store, uploading, faults, history>>

CreateSave(r) ==
    LET a == req[r].art IN
    /\ req[r].phase = "save"
    /\ meta' = meta \union {a}
    /\ Goto(r, IF IsPublic(a) THEN "savePublic" ELSE "created")
    /\ UNCHANGED <<record, pub, data, urlLife, uploading, faults, history>>

CreateSavePublic(r) ==
    LET a == req[r].art IN
    /\ req[r].phase = "savePublic"
    /\ pub' = pub \union {a}
    /\ raced' = IF a \in listed THEN raced \union {a} ELSE raced
    /\ Goto(r, "created")
    /\ UNCHANGED <<record, meta, data, urlLife, uploading, faults, acks, listed>>

(***************************************************************************)
(* The client's PUT to the presigned URL, which bypasses the backend.  The *)
(* bucket checks the signature's expiry when the request arrives, so an    *)
(* accepted PUT may be stored after the URL has expired.  Any number of    *)
(* PUTs of an artifact may be in flight: when one ends, the artifact stays *)
(* in uploading if another goes on.                                        *)
(***************************************************************************)
\* Mutant: an expired URL is accepted.
PutStartExpired(a) ==
    /\ "created" \in acks[a]
    /\ uploading' = uploading \union {a}
    /\ UNCHANGED <<record, store, urlLife, req, faults, history>>

PutStart(a) ==
    /\ "created" \in acks[a]
    /\ urlLife[a] > 0
    /\ uploading' = uploading \union {a}
    /\ UNCHANGED <<record, store, urlLife, req, faults, history>>

PutStore(a, content) ==
    /\ a \in uploading
    /\ uploading' \in {uploading, uploading \ {a}}
    /\ data' = [data EXCEPT ![a] = content]
    /\ raced' = IF a \in listed THEN raced \union {a} ELSE raced
    /\ UNCHANGED <<record, meta, pub, urlLife, req, faults, acks, listed>>

PutAbort(a) ==
    /\ a \in uploading
    /\ uploading' \in {uploading, uploading \ {a}}
    /\ UNCHANGED <<record, store, urlLife, req, faults, history>>

(***************************************************************************)
(* POST .../complete and POST /artifacts/:id/confirm-upload                *)
(***************************************************************************)
ConfirmStart(r, c, a) ==
    /\ Owns(c, a)
    /\ Begin(r, "verify", a, c)
    /\ UNCHANGED <<record, store, urlLife, uploading, faults, history>>

\* Mutants of ConfirmVerify: bytes that are not there pass, bytes with
\* another hash pass, the verdict is written back into the metadata record.
VerifyAccepting(r, contents) ==
    LET a == req[r].art IN
    /\ req[r].phase = "verify"
    /\ req' = [req EXCEPT ![r] =
                 IF data[a] \in contents
                 THEN [@ EXCEPT !.phase = "confirmed",
                                !.sealed = urlLife[a] = 0 /\ a \notin uploading]
                 ELSE Idle]
    /\ UNCHANGED <<record, pub, data, urlLife, uploading, faults, history>>

ConfirmUnstored(r) == VerifyAccepting(r, {"absent", "match"}) /\ UNCHANGED meta
ConfirmUnhashed(r) == VerifyAccepting(r, {"match", "mismatch"}) /\ UNCHANGED meta
ConfirmWritesBack(r) ==
    /\ VerifyAccepting(r, {"match"})
    /\ meta' = IF data[req[r].art] = "match" THEN meta \union {req[r].art}
               ELSE meta

\* Reads the stored bytes and compares size and sha256 with the metadata.
\* sealed notes whether the bytes could still change under the reply.
ConfirmVerify(r) ==
    LET a == req[r].art IN
    /\ req[r].phase = "verify"
    /\ req' = [req EXCEPT ![r] =
                 IF data[a] = "match"
                 THEN [@ EXCEPT !.phase = "confirmed",
                                !.sealed = urlLife[a] = 0 /\ a \notin uploading]
                 ELSE Idle]
    /\ UNCHANGED <<record, store, urlLife, uploading, faults, history>>

(***************************************************************************)
(* GET .../download and POST /artifacts/:id/download-url                   *)
(***************************************************************************)
\* The caller's own record first; a caller without one goes on to the
\* public index, and so does an owner whose record could not be read.  Of the
\* caller's own record canAccess is always true.
DownloadStart(r, c, a) ==
    /\ \/ Owns(c, a) /\ Begin(r, "granted", a, c)
       \/ (~Owns(c, a) \/ MetaUnderPrefix) /\ Begin(r, "lookupPublic", a, c)
    /\ UNCHANGED <<record, store, urlLife, uploading, faults, history>>

DownloadPublic(r) ==
    LET a == req[r].art IN
    /\ req[r].phase = "lookupPublic"
    /\ req' = [req EXCEPT ![r] =
                 IF a \in pub /\ CanAccess(req[r].caller, a)
                 THEN [@ EXCEPT !.phase = "granted"] ELSE Idle]
    /\ UNCHANGED <<record, store, urlLife, uploading, faults, history>>

(***************************************************************************)
(* DELETE .../artifacts/:id                                                *)
(***************************************************************************)
DeleteStart(r, c, a) ==
    /\ Owns(c, a)
    /\ Begin(r, "list", a, c)
    /\ UNCHANGED <<record, store, urlLife, uploading, faults, history>>

\* Mutant: the listing misses the data object.
ListingMetaOnly(a) == IF MetaUnderPrefix /\ a \in meta THEN {"meta"} ELSE {}

\* In S3 the metadata object <id>/.meta.json lies under the listed prefix.
Listing(a) ==
    (IF MetaUnderPrefix /\ a \in meta THEN {"meta"} ELSE {})
    \union (IF data[a] # "absent" THEN {"data"} ELSE {})

\* Mutant: the public record goes before the owner's.
DeleteListHidesFirst(r) ==
    LET a == req[r].art IN
    /\ req[r].phase = "list"
    /\ req' = [req EXCEPT ![r].phase = "remove", ![r].todo = Listing(a)]
    /\ listed' = listed \union {a}
    /\ pub' = pub \ {a}
    /\ UNCHANGED <<record, meta, data, urlLife, uploading, faults, acks, raced>>

DeleteList(r) ==
    LET a == req[r].art IN
    /\ req[r].phase = "list"
    /\ req' = [req EXCEPT ![r].phase = "remove", ![r].todo = Listing(a)]
    /\ listed' = listed \union {a}
    /\ UNCHANGED <<record, store, urlLife, uploading, faults, acks, raced>>

\* Objects are removed one by one in listing order, and S3 lists in key
\* order: ".meta.json" comes before a name that starts with a letter or digit.
First(todo) == IF "meta" \in todo THEN "meta" ELSE "data"

DeleteObject(r) ==
    LET a == req[r].art
        o == First(req[r].todo) IN
    /\ req[r].phase = "remove"
    /\ req[r].todo # {}
    /\ meta' = IF o = "meta" THEN meta \ {a} ELSE meta
    /\ data' = IF o = "data" THEN [data EXCEPT ![a] = "absent"] ELSE data
    /\ req' = [req EXCEPT ![r].todo = @ \ {o}]
    /\ UNCHANGED <<record, pub, urlLife, uploading, faults, history>>

DeleteMeta(r) ==
    LET a == req[r].art IN
    /\ req[r].phase = "remove"
    /\ req[r].todo = {}
    /\ meta' = meta \ {a}
    /\ Goto(r, IF IsPublic(a) THEN "removePublic" ELSE "deleted")
    /\ UNCHANGED <<record, pub, data, urlLife, uploading, faults, history>>

\* Mutant: the public record is left behind.
DeletePublicSkipped(r) ==
    /\ req[r].phase = "removePublic"
    /\ Goto(r, "deleted")
    /\ UNCHANGED <<record, store, urlLife, uploading, faults, history>>

DeletePublic(r) ==
    LET a == req[r].art IN
    /\ req[r].phase = "removePublic"
    /\ pub' = pub \ {a}
    /\ Goto(r, "deleted")
    /\ UNCHANGED <<record, meta, data, urlLife, uploading, faults, history>>

(***************************************************************************)
(* Replies, time and faults                                                *)
(***************************************************************************)
Reply(r) ==
    LET h == req[r] IN
    /\ h.phase \in ReplyPhase
    /\ acks' = IF h.phase = "granted" THEN acks
               ELSE [acks EXCEPT ![h.art] =
                       @ \union {h.phase}
                         \union (IF h.sealed THEN {"sealed"} ELSE {})]
    /\ req' = [req EXCEPT ![r] = Idle]
    /\ UNCHANGED <<record, store, urlLife, uploading, faults, listed, raced>>

Tick ==
    /\ \E a \in Artifact : urlLife[a] > 0
    /\ urlLife' = [a \in Artifact |->
                     IF urlLife[a] > 0 THEN urlLife[a] - 1 ELSE 0]
    /\ UNCHANGED <<record, store, uploading, req, faults, history>>

\* A storage call of the handler throws and the request ends with a 500; or
\* the call took effect and its reply, or the handler's own, is lost.
Fail(r) ==
    /\ MetaUnderPrefix
    /\ faults < MaxFaults
    /\ req[r].phase # "idle"
    /\ req' = [req EXCEPT ![r] = Idle]
    /\ faults' = faults + 1
    /\ UNCHANGED <<record, store, urlLife, uploading, history>>

\* The backend process dies with every handler it was running; what the
\* bucket holds stays.
Crash ==
    /\ MetaUnderPrefix
    /\ faults < MaxFaults
    /\ \E r \in Request : req[r].phase # "idle"
    /\ req' = [r \in Request |-> Idle]
    /\ faults' = faults + 1
    /\ UNCHANGED <<record, store, urlLife, uploading, history>>

Next ==
    \/ \E r \in Request, c \in Customer, a \in Artifact :
          \/ \E v \in {"public", "private"} : CreateStart(r, c, a, v)
          \/ ConfirmStart(r, c, a)
          \/ DeleteStart(r, c, a)
    \/ \E r \in Request, c \in Caller, a \in Artifact : DownloadStart(r, c, a)
    \/ \E r \in Request :
          \/ CreateSave(r)
          \/ CreateSavePublic(r)
          \/ ConfirmVerify(r)
          \/ DownloadPublic(r)
          \/ DeleteList(r)
          \/ DeleteObject(r)
          \/ DeleteMeta(r)
          \/ DeletePublic(r)
          \/ Reply(r)
          \/ Fail(r)
    \/ \E a \in Artifact :
          \/ PutStart(a)
          \/ \E content \in {"match", "mismatch"} : PutStore(a, content)
          \/ PutAbort(a)
    \/ Tick
    \/ Crash

Spec == Init /\ [][Next]_vars

(***************************************************************************)
(* Properties                                                              *)
(***************************************************************************)
\* A 204 of the delete handler means that nothing of the artifact is left,
\* in the bucket or in the public index, unless something of it was written
\* after a delete handler, this one or an earlier one, had listed it: whatever
\* was confirmed, retried or failed before.
CleanDelete ==
    \A a \in Artifact :
        "deleted" \in acks[a] /\ a \notin raced =>
            a \notin meta /\ a \notin pub /\ data[a] = "absent"

\* A deleted id never comes back into its owner's catalogue, not even when
\* writes race with the delete.
DeletedStaysDeleted ==
    \A a \in Artifact : "deleted" \in acks[a] => a \notin meta

\* An artifact the backend confirmed is kept, with its metadata and its bytes,
\* until a delete handler lists it: no failure, crash or other request loses it.
ConfirmedRetained ==
    \A a \in Artifact :
        "confirmed" \in acks[a] /\ a \notin listed =>
            a \in meta /\ data[a] # "absent"

\* The verdict of a confirm that read the bytes once the upload URL was dead
\* and no PUT was in flight is final: those bytes are what is served.
SealedContentFinal ==
    \A a \in Artifact : "sealed" \in acks[a] => data[a] \in {"match", "absent"}

\* A public artifact whose creation was acknowledged is in the public index
\* for as long as its owner can list it.
PublicWhileListed ==
    \A a \in Artifact :
        "created" \in acks[a] /\ IsPublic(a) /\ a \in meta => a \in pub

\* A record reaches the public index only after the owner's record, and
\* outlives it only through a delete.
PublicImpliesOwned ==
    \A a \in pub : a \in meta \/ a \in listed

\* What README.md:275 says of retention: objects live in the bucket until they
\* are deleted through the API.  So an artifact whose bytes are stored, with no
\* request running on it and no write that raced with a delete, can still be
\* found by its owner's delete request.
StoredObjectsDeletable ==
    \A a \in Artifact :
        /\ data[a] # "absent"
        /\ a \notin raced
        /\ \A r \in Request : req[r].art # a
        => a \in meta

(***************************************************************************)
(* The detailed handlers implement the promise made to a client.           *)
(***************************************************************************)
\* Where an artifact is in the life the promise gives it.
StageOf(a) == IF a \in meta
              THEN IF a \in listed THEN "leaving" ELSE "kept"
              ELSE IF a \in listed THEN "gone" ELSE "unborn"

Promise == INSTANCE ArtifactPromise WITH
               stage <- [a \in Artifact |-> StageOf(a)],
               shown <- pub,
               bytes <- data,
               final <- {a \in Artifact : "sealed" \in acks[a]}

\* The store keeps the promise of ArtifactPromise at every step.
KeepsPromise == Promise!Spec
=============================================================================
