# TLA+ specifications of kvcdn

`kvcdn` keeps the key/value caches of language models as files, continues
generation from them without a prefill, and shares them through a hosted service.
This directory holds TLA+ models of the parts of the repository in which several
processes, requests or steps can get into each other's way, the TLC runs that check
them on small instances, and TLAPS proofs of theorems about them for all instances.
Paths below are relative to the repository's root.

## 1. Inventory

Two programs share one protocol. The **backend** (`backend/src`, TypeScript on
Fastify) is a stateless process over a bucket. The **CLI** (`src`, Rust) is a
short-lived process, of which any number may run at once over one configuration
directory, one keyring and one working directory.

### Backend

| Component | State | Operations | What makes it correct |
|---|---|---|---|
| Artifact store (`routes/artifacts.ts`, `stores/*artifact*`, `stores/*metadata*`) | per artifact: the metadata record `<id>/.meta.json` under the owner's prefix, a copy of it in the public index, the bytes at `<id>/<name>` | create, the client's PUT through a presigned URL, confirm, download, delete, list | what is confirmed is kept until its owner deletes it; a delete that answers 204 leaves nothing and is final; a final confirmation is |
| Tenant buckets (`stores/hashed-bucket-resolver.ts`, `stores/*bucket-store.ts`) | an assignment record per tenant in a control bucket, or in memory | resolve, at every storage call | all of a tenant's objects lie in one bucket, the one later calls look into |
| Mock OIDC issuer (`routes/oidc.ts`) | device codes with their age and approval; authorization codes | device authorization, activation, token | a code is traded once and only while it lives |
| Inference (`routes/inference.ts`) | one temporary file per artifact id | write the file, spawn `kvcdn infer`, unlink | the engine reads the whole artifact that was fetched |
| Listing (`stores/*metadata-store.ts`) | numeric continuation tokens | list pages; look an artifact up page by page, at the start of every flat route | an artifact that exists throughout a lookup is found |
| Identity, tenants, API keys (`auth.ts`, `routes/api-keys.ts`) | none beyond a key store | verify a token, hash a subject to a customer id | a tenant is a function of the verified subject |
| Quota, telemetry (`routes/quota.ts`, `routes/telemetry.ts`, `telemetry-service/`) | none that a handler reads | sum, record | - |

### CLI

| Component | State | Operations | What makes it correct |
|---|---|---|---|
| Encryption key (`core/crypto.rs`) | a keyring entry, the file `<config>/kvcdn/.key` | load or create, copy into the keyring | there is one key, whoever created it first |
| Session (`hosted/credential_store.rs`, `token_store.rs`, `api_key.rs`, `api.rs`) | `credentials.enc`, `api_key.enc` | login, logout, api-key set/clear, refresh before an API call | a session can go on; the last login or logout counts |
| Device-code login (`hosted/oidc.rs`) | the polling loop's clock | request a code, poll, give up | an approval in time reaches the CLI; every login ends |
| Browser login (`hosted/callback_server.rs`) | a thread, a channel, a socket | wait for the redirect, shut down | the threads end, the tokens are those of the login's own approval |
| KV files (`local/kv_io.rs`, `local/quant.rs`) | a safetensors file and a JSON sidecar per path | save, load, plain or as int8 | the two files of a path belong together |
| Continuation (`local/continuation.rs`, `verify.rs`, `infer.rs`, `quant.rs`) | the model's KV cache | prefill, continue at an offset, decode | a continuation is token-exact: the cache is the one a prefill gives |
| Prefix search (`local/search.rs`, `search_tree.rs`) | as above, and a directory of artifacts | rank by common prefix, load, fork candidates | likewise for every candidate |
| Model families (`models/*.rs`) | per layer cache tensors | forward with an offset and a mask | forwarding in two steps equals forwarding in one |
| Transfer commands (`hosted/upload.rs` ...) | local files | upload, download, list, delete | what is shared is what is declared of it |
| Telemetry, configuration, output, benchmark, plot | none that matters to others | - | - |

### Interactions

- CLI to backend: HTTP requests with a bearer token (an API key goes before OIDC
  tokens). Uploads and downloads bypass the backend through presigned URLs, so the
  bucket changes without a handler knowing.
- Handlers to stores: every storage call is awaited; other handlers run in between.
  The org/project routes and the flat routes (`/artifacts/...`) share stores and order
  of calls. Every storage call first resolves the tenant's bucket.
- CLI to CLI: only through files and the keyring. No lock is taken anywhere, and files
  are written with `fs::write` or a plain `File`: truncated, then filled.
- Backend to CLI: the inference route runs `kvcdn infer` on a file it has written.

### What is hard

Awaits between reading a record and acting on it; bytes that change under a confirmation; a
handler that dies half way; races of first runs for the key file, of refreshes for a
rotating token, of a refresh against a logout, of two saves for one file; a device code on
the last tick of its life; an issuer that restarts and has forgotten it; a data file under
another save's sidecar; a cache continued at a position other than its length, and twenty
adapters that each build masks, position tables and caches in a way of their own.
`PROJECT.json` lists these hazards with their source lines, the properties that cover them,
and where a property excepts a case or none is stated, why.

## 2. Modules and the code they stand for

| Module | Models | Kind |
|---|---|---|
| `ArtifactLifecycle` | the artifact handlers over metadata store, public index and bucket | component |
| `ArtifactPromise` | what the store promises an owner, without handlers, failures or time | abstract specification, implemented by `ArtifactLifecycle` |
| `ArtifactLifecycle_proofs` | theorems on `ArtifactLifecycle` | proofs |
| `BucketAssignment`, `BucketAssignment_proofs` | resolving a tenant's bucket | component, proofs |
| `KeyStore`, `KeyStore_proofs` | the encryption key and what it seals | component, proofs |
| `Catalogue` | looking an artifact up page by page, beside the handlers of `ArtifactLifecycle` | composition |
| `InferenceRoute`, `InferenceRoute_proofs` | the inference handler and its temporary file, beside `Catalogue` | composition: the whole backend, and its proofs |
| `Session`, `Session_proofs` | stored tokens and API key, refresh, login, logout | component, proofs |
| `DeviceLogin` | the CLI's polling loop composed with the issuer's device endpoints | composition |
| `Login`, `Login_proofs` | `DeviceLogin` or the browser login: callback thread, main thread, issuer's codes | composition, proofs |
| `KvReuse`, `KvReuse_proofs` | KV files composed with verify, quant, infer, search --tree, download and upload | composition, proofs |
| `Tensors` | embeddings, position tables, masks, caches and attention that adapters share | pure operators |
| `Experts` | the two mixtures of experts | pure operators |
| `Decoders`, `Recurrent` | the sixteen transformer and the three state-space adapters | pure operators |
| `Adapters`, `Adapters_proofs` | the commands that drive a model, over any adapter, and what its answers should be | component, proofs |
| `MC*` | symmetry sets and constant values for TLC | |

Definitions whose comment begins with *Mutant* are deliberately broken variants of the
definition they precede; no specification uses them. `PROJECT.json` names, for each
property, the one that violates it, so that every property is known to depend on the code.
Variables and fields marked *history* record the past for a property; no action's guard
reads them.

### ArtifactLifecycle

`req[r]` is the handler running in slot `r`, its `phase` the storage call it makes next.
One action is one awaited call with the code up to the next await:

- `POST .../artifacts` and `POST /artifacts/upload-url`: `CreateStart` (uuid, presigned
  URL), `CreateSave` (the owner's record), `CreateSavePublic` (public artifacts), `Reply`.
- The client's PUTs, any number of them through one URL: `PutStart`, `PutStore`, `PutAbort`.
  The bucket checks the URL's expiry when a request arrives, so an accepted PUT may be
  stored later.
- `POST .../complete` and `.../confirm-upload`: `ConfirmStart`, `ConfirmVerify`, `Reply`.
- `GET .../download` and `.../download-url`: `DownloadStart` (own record), `DownloadPublic` (the
  public index and `accessPolicy.canAccess`, `CanAccess`).
- `DELETE`: `DeleteStart`, `DeleteList`, `DeleteObject` per listed object, `DeleteMeta`,
  `DeletePublic`, `Reply`. On S3 the listing includes `.meta.json` and returns it
  first; in memory (`MetaUnderPrefix = FALSE`) the metadata is in a map of its own.
- `Fail` (a call throws, or a reply is lost) and `Crash`. The in-memory stores
  neither fail nor outlive a crash, so both are confined to S3.

Bytes are `absent`, `match` or `mismatch` against the declared size and hash. Files have the
plain names that the CLI sends, so that no object's key is a record's. `listed` and `raced`
separate an undisturbed delete from one that another write overlapped: `raced` is any write
after any delete's listing, which is more than those that a delete cannot see.

### Catalogue and InferenceRoute

`LookupStart`, `LookupPage`, `LookupReply` are `findCustomerArtifact` over the in-memory store:
a key list computed anew for every page, an index into it as continuation token, 404 at its
end. Of the tenant's other records only how many sort before and after the one looked for
matters (`OtherSaved`, `OtherDeleted`). `InferStart`, `InferPublic`, `InferFetch` find and read
the artifact; `OpenTmp`, `WriteTmp` are the two steps of `writeFile`; `Spawn`, `ChildReads`,
`Unlink`, `InferReply` the engine's life; `SpawnFails` and `LateUnlink` the error event, whose
unlink is not awaited, and the close event after it. `linked` says whether the file a request
has open is still the one under the name: bytes written to an unlinked file are lost.
`BackendSpec` interleaves all of this with every handler of `ArtifactLifecycle`.

### BucketAssignment

`Start`, `LookupFound`, `LookupMissing`, `LookupFails` (an error of the read of the control
bucket is swallowed), `Save`, `SaveFails`, `Use`, and `Restart` with another bucket list.
The hash is an arbitrary constant function. `Durable` chooses the control bucket or memory.
The properties hold under `Steady`: the list never changed, or the record is durable
and every read of it was answered. Without it the code does reassign a tenant.

### KeyStore

`KeyringHit/Miss`, `OpenKeyFile`, `CreateKeyFile` (`create_new`, which leaves an empty file),
`WriteKeyFile` are `load_or_create_key`; `Truncate`, `Seal`, `EnsureKeyStored` the saving
commands; `OpenApiKey`, `OpenTokens` all others, which load the key twice, and which seal
the tokens again when they have refreshed them. Every access to the keyring may fail; `Kill`
and `WriteKeyFileFails` are the crashes. The field `lost` (history) is set when `create_new`
finds that another process has made the file, and the process loops around.

### Session

`LoginGrant`, `LogoutTokens/Key`, `SetKey`, `ClearKey`, and a command: `Open` (the API
key is read once), `Bearer` (tokens are loaded for each call), `Refresh`, `RefreshFails`,
`RefreshReplyLost`, `Call`. A save is two steps, as `fs::write` is: `OpenFile` truncates the
file and `WriteFile` fills it, in `LoginOpens/LoginWrites` and `RefreshOpens/RefreshWrites`.
`writers` are the processes that have the file open; when two have, one text may end in the
remains of the other (`Mixed`), and bytes written after a logout removed the file are lost.
`SaveFails` is the error path of either step, `Kill` the end of a process at any.

`issuer` is chosen at the start and fixed: `"rotating"` replaces a refresh token when it is
used, `"keeping"` does not, and `"refusing"` hands one out and accepts none. The last one is
the repository's own, whose `/token` gives out a refresh token
(`backend/src/routes/oidc.ts:234`, `:257`), advertises the grant (`:119-123`) and answers it with
`unsupported_grant_type` (`:264`); the others stand for those the CLI may be
configured with.

History: `intent` is what the last login or logout meant to leave, `overtaken` the processes
with tokens loaded before it, `undone` whether such a process has saved, `spoiled` whether
the last save overlapped another or was cut short, `hurt` the sessions whose refreshed tokens
a fault took.

### DeviceLogin

`DeviceAuth`, `Activate`, `Token` are the issuer's endpoints, `Started`, `Poll`,
`KeepPolling`, `Finish` the loop `poll_device_token`. Time is discrete; ages are capped one
past the lifetime, where every comparison of the code has reached its final value. `Restart`
is the issuer's: its entries are in a map in memory (`oidc.ts:26-27`), and `forgotten`
(history) marks what it lost. The issuer's clock (`age`) starts before the CLI's
(`elapsed`), and one compares with `>`, the other with `>=`. `slow_down` is included
although the mock issuer never sends it.

### Login

`supports_device_code()` decides between `DeviceLogin` and the authorization code. The
repository's issuer always advertises device codes (`oidc.ts:116-123`), so the CLI takes the
second way at another issuer only, whose codes are modelled by the `/auth` and `/token` of
this one. Of it, `StartServer`, `BuildUrl`, `Receive`, `Join`, `Exchange`, `Drop`,
`Connect`, `ConnectFails` are the main thread, `Serve`, `Respond`, `AcceptFails` the thread
of the callback server, `Authorize` and the pruning in `Exchange` the issuer, `CodesLost`
its restart. When `Drop` cannot connect to its own port it says nothing, and leaves a thread
that still waits (`"abandoned"`). `Arrive` puts any request at the port: the redirect of
this or another login, an error redirect, a request of some other program, or something that
is no URL, after which alone the thread goes on listening. The mock issuer does not refuse a
code it does not know but signs tokens for a subject of that name; the model has `Nobody`
for it.

### KvReuse

`data[f]` and `side[f]` are the two files of a path, `Torn` while they are written. The
commands are sequences of `Truncate`, `Fill`, `TruncateSide`, `FillSide`, `LoadData`,
`LoadSide`, `Continue`, `Candidate`, `Finish`, and for an upload `ReadMetadata`, `Hash`,
`Put`, `Uploaded`: the sidecar, or else the header, is believed, and the file is read twice.
Tensors are symbolic: a cache is the text whose prefill gives its cells, followed by a
number of cells that no prefill gives, with a number type and a mark whether they are
`rounded`. `Forward` says when a forward pass keeps the first form, `Refuses` when the mask
does not fit the scores, and cached cells of another type than the model's are refused by
the concatenation. All this is that of `models/qwen3.rs` and of the families that share its
mask; `Adapters` has all.

A plain artifact has the type that `quant --target-dtype` or the model gave it, and every
command but `quant` loads its model at `F16`. int8 conversion rounds (`Quantized`): from
then on cells approximate those of the prefill, an answer computed from them may differ, and
`quant --verify` may bail because its two answers do (`MayMismatch`, `quant.rs:282-288`).
`SearchNothing` is the search that bails for want of any `.kv` file (`search.rs:115-117`).
`failed` (history) has every command that failed although nobody disturbed it, with the
cause: a file, a mask, a number type, a mismatch, or nothing to search in.

### Tensors, Experts, Decoders, Recurrent, Adapters

A tensor is a sequence of what its rows were computed from: an input row is a token and,
where positions are learned, its position; a cached cell is the row and the position it was
rotated with; a row after attention is the query and the set of cells that the mask left it.
Nothing is computed with numbers, so two answers are equal only if they were made of the
same things, whatever the weights are. What makes adapters differ is kept: the rows of a
position table and its type (`TableRows`, `ModelRows`), the shape, type and content of the
mask (`CausalMask`, `LlamaMask`, `OlmoMask`, ...), whether it is added (`AddedAttention`:
types must agree) or used to fill (`FilledAttention`: integer conditions only), what a
reshape demands (falcon), the window (starcoder2), the ring and the shifted window of the
convolutions (mamba, mamba2), the token shift (rwkv6), and what capture and restoration
accept. An operation that candle refuses makes the pass fail with the caches as they then
are.

`Adapters` has one action per use of a model: `Prefill` (after `clear_kv_cache`), `Capture`,
`Save`, `Restore` (the same process, which knows the length), `Infer` (another process,
which takes the third dimension of the first tensor), `Continue`, `Decode`, `NextProcess`,
after which the model may be of the other number type (`cached` is the one of what was
loaded). They are what `continuation.rs`, `verify.rs`, `infer.rs`, `diag.rs`, `benchmark.rs`
and `core/validation.rs` do, in any order. `Logits` states what each architecture computes
of a text, with no cache, mask or offset; `AsWhole` compares an answer with it.

Of two families, `Simplified`, it cannot state this, because the adapter departs from the
architecture on purpose: bloom leaves out ALiBi (`models/bloom.rs:5-6`), gemma3 the sliding
window and the second base of its rope (`models/gemma3.rs:7-8`, `:100`). For them `Logits`
is what is left of the architecture, and `SimplifiedExact` says only that an answer does not
depend on how the text was cut into pieces. `AnswersExact` is about the other seventeen.

## 3. Runs

`tlc -workers 2 -config <run>.cfg <module>` with the module of `PROJECT.json`. State counts
are distinct states.

| Run | Instance | Checks | Shows |
|---|---|---|---|
| `artifacts_s3` | 1 artifact, 2 tenants and an anonymous caller, 3 handlers, S3, URL of 1 tick, 2 faults; 335,480 states | `TypeOK`, `CleanDelete`, `DeletedStaysDeleted`, `ConfirmedRetained`, `SealedContentFinal`, `PublicWhileListed`, `KeepsPromise` | the handlers keep what they acknowledged and implement `ArtifactPromise` |
| `artifacts_memory` | the whole backend in memory: 1 artifact, 1 tenant, at most 2 requests at once (handlers, lookups, inferences), 2 other records, pages of 1, 1 spawn error; 1,415,124 states | `StoredObjectsDeletable`, `LookupFinds`, `LoneInferenceExact` | stored bytes have a record to delete them by, if no call fails; when a lookup misses; when inference reads other bytes |
| `failed_delete` | 1 artifact, 1 handler, S3, 1 fault | `StoredObjectsDeletable` **violated** | finding 1 |
| `buckets` | 2 tenants, 3 buckets, 3 calls, control bucket, 1 failing read, 2 reconfigurations; 17,810 states | `TypeOK`, `OneBucketPerTenant`, `PlacedWhereRecorded`, `AssignmentKept` | a tenant keeps one bucket while its record can be read |
| `key_store` | 2 processes, 2 keys, 2 kills; 61,908 states | `TypeOK`, `OneKey`, `BrokenOnlyInFlight`, `KeyFileFinal`, `LoadEnds` | one key per machine; loading it ends |
| `key_race` | 2 processes, 1 key, no kill | `LoserReadsKey`, of a process that lost `create_new`, **violated** | finding 2 |
| `session` | 3 processes, 3 grants, an issuer of any kind, 1 fault; 900,250 states | `TypeOK`, `SessionNotStranded`, `LastLoginWins`, `SavedTokenUnused` | unless saves overlap or are cut short, no interleaving of commands strands a session that its issuer would continue |
| `logout_race` | 2 processes, 2 grants, no fault | `LoggedOutForGood` **violated** | finding 3 |
| `device_login` | 2 logins of either kind; device code of 4 ticks, interval 1, 1 late tick; browser code of 1 tick, 2 requests at the ports; 1 lost message, failing connection or restart of the issuer; 543,471 states | `TypeOK`, `ApprovalReachesCli`, `RefusedOnlyExpired`, `TokensOfApproval`, `LoginEnds`, `CallbackEnds` | an approval in time is not lost, nobody gets another's tokens, every device login ends and so do the threads of a browser login that can be woken |
| `kv_reuse` | 2 processes, 2 paths, 2 contexts, 3 queries, 2 number types, 3 commands, 1 kill; 1,195,830 states | `TypeOK`, `QuietPathsAgree`, `VerifyExact`, `InferExact`, `WholeMatchExact`, `UndisturbedSucceeds` | undisturbed files match, are shared as what they are, and are continued exactly, or approximately if they are quantized; undisturbed commands fail for stated reasons only |
| `tree_search` | the same with 1 process, 2 commands, no kill | `TreeExact` **violated** | finding 4 |
| `adapters` | 19 families, both number types, 2 layers, tokens a and b, texts up to 6, tables of 5 rows; 23,723 states | `AnswersExact`, `SimplifiedExact`, `OnlyTransposedMisplaced`, `ReuseAccepted` | every adapter gives in pieces what it gives at once, but for the exceptions the properties name |

### Why these bounds

- *Artifacts.* Handlers of different artifacts touch disjoint records, keys and objects, so
  interference shows with one artifact; the second tenant and the anonymous caller are those a
  public artifact is for, and those whose requests for a private one end early. Three
  handlers let two deletes, or a delete and a confirm, run while a create is between its
  saves. Two faults let a delete fail, its retry fail, and a third one succeed. One tick of
  lifetime gives a URL its two states, alive and dead.
- *Backend in memory.* Two requests at once are any pair of a handler, a lookup and an
  inference. Pages of one record and two others make lookups of three pages, with
  records before and after the one looked for. One spawn error is the one exception of
  `LoneInferenceExact`.
- *Buckets.* The lists contain one bucket in front of the others, one behind, and one
  taken away; the two tenants hash apart. Three calls are two racing first resolves and
  one that has finished. The second reconfiguration may lead back to the first list.
- *Key.* Two processes and two keys are the race; a third process would find the file as
  the second one did. Two kills can leave a broken file and interrupt the next command.
- *Session.* One process refreshes with a token that a second one has used while a third
  logs in or out, and any two of them may have the file open at once. Three grants are
  two logins and a refresh, or one and two. The issuer of each kind is an initial state.
- *Device login.* A lifetime of four intervals has a first poll, middle ones, a doubled
  sleep and the last tick; the second login exists to prune the first, and in the browser
  to send its redirect to the other's port. Two requests are a wrong one before the right
  one; the connection of `Drop` is not counted. A code of one tick is alive, old and dead.
- *KV reuse.* One context is a prefix of the other, the queries match nothing, a whole
  artifact, a part of one, and go on after it. Three commands are a save, another save over
  or beside it, and a command that uses what they left; a kill cuts one of the saves short.
  Three constraints of `MCKvReuse` keep the run within its time: the
  command that begins last is an infer, an upload or a search, and saves nothing; no two
  `quant` run at once; and a kill comes where it leaves or finds a torn file. A save that
  overlaps those commands can have begun before them. The theorems have none of these
  constraints. Deadlock is not checked in this module only: its commands are bounded and the
  system may stop.
- *Adapters.* Two layers show what a cache of the second layer, made of rows of the first,
  does with a wrong mask in either. Texts of six tokens reach past tables of five rows
  (`MaxPositions`), past falcon's own four, past the window of two and past the two positions
  that half precision tells apart (`HalfExact`; 2048 in the code). A context,
  a question and generated tokens follow each other, so that what is cached, and what is
  added to it, is one token or several. The tokens share one expert and differ in
  another. The dimensions that infer may take for a length are that of some texts and not
  of others. A process may load what one of the other type has saved, which fails
  (`ReuseAccepted` is about caches of the model's own type).

### Fairness

- `key_store`: weak fairness of `Step(p)`, for every process. The operating system runs a
  process that can run, and none of these steps waits for another process.
- `device_login`: weak fairness of the clock and of `Step(p)`, and of the two threads of a
  browser login, `MainStep(p)` and `ThreadStep(p)`. Time passes; a reply that is due arrives or
  counts as lost, a sleep ends, a thread that can run runs. The client has a request
  timeout. The user is not fair: `LoginEnds` holds also when nobody ever approves. A callback
  server that cannot be woken is left behind (`"abandoned"`), as in the code. Nor are
  requests at the port fair: a browser login that no request reaches waits for ever, and
  `CallbackEnds` begins with a request or with the login's own failure. The errors of
  `AcceptFails` need not happen.

No fairness is assumed elsewhere; the other modules state safety only.

## 4. Proofs

Checked by `tlapm`, for all values of the constants, from the named assumptions of each
module only: `ConstantAssumption`, `CatalogueAssumption` and `InferenceAssumption` of the
backend, `BucketAssumption`, `KeyAssumption`, `SessionAssumption` and `NoSessionAssumption`,
`DeviceAssumption` and `LoginAssumption`, `KvReuseAssumption`, `ForeignAssumption` and
`FilesAssumption`, `TensorsAssumption`, `ExpertsAssumption`, `DecodersAssumption`,
`RecurrentAssumption` and `AdaptersAssumption`. They state that special values differ from
ordinary ones, the sorts and signs of the bounds, and that the router names each expert of a
token once; TLC evaluates each of them in a run. No set needs to be finite.

Every invariant and every action property of the passing runs is the statement of a theorem.

**ArtifactLifecycle.** Theorem `Invariance` is `Spec => []IInv` with four parts: `TypeOK`;
`SavedOnce`, that an id has at most one handler about to save it and none once it is
saved, which is what keeps a deleted id from being stored again; `HandlerInv(r)`, what
a handler may rely on in each phase, in spite of all that the others do; and
`ArtifactInv(a)`, what the acknowledgements sent for an artifact say about the store.
None of the run's invariants is inductive alone: `CleanDelete` needs to know that a delete in
phase `remove` still has the data object on its list unless a write raced, `SealedContentFinal`
that the URL was dead and no PUT in flight already when the reply was prepared. From it
follow `TypeCorrect`, `CleanDeleteHolds`, `DeletedStaysDeletedHolds`, `ConfirmedRetainedHolds`,
`SealedContentFinalHolds`, `PublicWhileListedHolds`, `PublicImpliesOwnedHolds` and
`Implementation`, that every step is a step of `ArtifactPromise` or a stutter under the
refinement mapping `stage`/`shown`/`bytes`/`final`.

**BucketAssignment.** `Invariance` has `TypeOK`, `CallsOK`, `OnlyConfiguredBuckets` and, under
`Steady`, `Settled(c)` for every tenant: a call about to save has the bucket the hash gives and
finds no other recorded, a call about to use has the recorded one, and objects are only
there. `Steady` cannot become true again, so it may stand before the invariant. All
properties of the run follow.

**KeyStore.** `Invariance` says that there is at most one process between creating and
writing the key file, that processes which work with a key have one, that every key in
use is the one in the file, and that a broken file has a writer or a kill behind it.
`TypeCorrect`, `OneKeyHolds`, `BrokenOnlyInFlightHolds` and `KeyFileFinalHolds` follow.

**Session.** The properties are about tokens nobody holds any more, so the invariant says who
holds which: a process has tokens exactly while it refreshes or saves (`TokensInPhase`), they
were granted (`GrantedOnly`), a refresh token belongs to one session (`OneSession`), nobody
refreshes with a token that another process is to save (`RefreshingOthers`; this is where
rotation matters), a keeping issuer has all of them alive (`KeptAlive`), and who loaded tokens
after the last login or logout has those of the current session (`CurrentHolders`). Of the
two steps of a save: only a process that is writing has the file open (`WritersWrite`), and
while no save overlapped another or was cut short it is alone, and the file blank
(`OneWriter`). `TypeCorrect`, `SessionNotStrandedHolds`, `LastLoginWinsHolds` and
`SavedTokenUnusedHolds` follow, for issuers of every kind; of one that refuses, the first
says nothing, as its sessions cannot be continued whatever the CLI does.

**Login.** Of the device login: the issuer has the entry of a login until it has been
traded, has expired or was forgotten in a restart (`EntryKept`), the CLI's clock does not
run ahead of the issuer's (`ClocksAgree`), and the next poll lies at most two intervals and
the lateness of the network behind an approval (`PollFollows`), from which
`ApprovalReachesCliHolds` is arithmetic. Of the browser login: a redirect at a port carries
a code that was issued (`IssuedOnly`), only the thread sends, once, and nothing but an error
or the login's own code (`ChanFollows`), a code stays with the issuer for its lifetime
unless its own login has used it or a restart took it (`CodeKept`), and tokens in hand are
those of the login's own code, or that code was too old or forgotten (`OwnTokens`).
`RefusedOnlyExpiredHolds` and `TokensOfApprovalHolds` follow, and `TypeCorrect` of both.

**The backend.** `BackendInvariance` takes over the invariant of `ArtifactLifecycle`, whose
variables the lookups and inferences only read, and adds `RecordLast` (in memory a delete
removes the record after everything else), `LookupInv` (the index of a lookup has not passed
the records before the one looked for, unless one of them was deleted) and `InferenceInv`
(which request owns the temporary file, and what is in it in each phase).
`LookupFindsHolds`, `LoneInferenceExactHolds` and `StoredObjectsDeletableInMemory` follow; over
S3 the last one is false (finding 1).

**KvReuse.** `Shape` says which fields a command has in each phase, `Follows` that an infer, and
every command that nobody disturbs, has the cells of its text, rounded or not as the file was,
and `Known` what the latter relies on: each path it has yet to read, and has not to write
before, is quiet and was made of its own text (`ContextOf`, which a generated answer does not
change) and is quantized just where `quant` expects it (`Foreseen`). `FilesExact`: a
whole data file holds a prefill's cells, or rounded ones if it is quantized. `QuietFiles` and
`LoneWriters` are the other side: no process writes at a quiet path, nor where an undisturbed
one is writing, so that `Kept` survives from the data file to its sidecar. The lemmas on
`Cut`, `Forward` and `CommonPrefix` carry the symbolic tensors; a whole match is a counting
argument. `UndisturbedSucceeds` is a part of the invariant: every step that fails either
breaks `Known`, or is one of the stated causes. `TypeCorrect`, `QuietPathsAgreeHolds`,
`VerifyExactHolds`, `InferExactHolds`, `WholeMatchExactHolds` and `UndisturbedSucceedsHolds`
follow, for texts of every length and any set of number types.

**Adapters.** Neither how the nineteen families mask, place and store nor the number of layers
or the lengths of texts and tables is bounded here. The invariant has two halves.

`Shaped`, by theorem `ShapesKept`, is about what candle accepts: an artifact exists only of
a family that can give its state away (`ArtifactOK`), a family with one cell per token has
exactly as many cells as the text has tokens, in every layer (`LayersOK`), the offset is the
length except after `Infer` of a transposed family or falcon (`PhaseOK`), and a call at the
right offset, on cells of the model's own number type, was refused only where `Accepts` says
that its size or type is (`RefusedOK`). Lemma by lemma each family's pass is reduced to one
loop over layers (`NextPass`), in which the families differ by their rows, mask, shape check
and block only; a mask has the width of the scores, a table has the rows, or the pass fails.
`MisplacedOnlyTransposed` and `PiecesAccepted` follow; the latter because `Accepts`, which
is monotone in the length, decides a prefill as well.

`Exact`, in theorem `CachesExact`, is about what the caches hold: `Holds(f, layers, t)` says
that the cache of layer l is `CellOf` what the layers below it make of the text t when they
see all of it (`After`). For attention these are the rows with their positions; for mamba the
ring, whose slot k holds the last input at a position congruent to k, and for mamba2 the
shifted window; for rwkv6 the previous rows and all mixtures. It is inductive because
every architecture is causal: what a layer makes of the first n tokens of a text does not
depend on the rest (`WholeAgree`, `AfterPrefix`), so that the outputs for the new tokens,
computed from the cells of the old ones, are the last rows of the outputs for the longer
text. For attention this needs that the mask leaves a token just the tokens up to its own
(`SeenExact`) and the position table its own row (`PlaceExact`); for the experts that
sorting, cutting into groups and adding back gives each token the outputs of its own
experts (`GraniteMoeExact`, `DeepSeek2MoeExact`, over the rank of an element in
a sorted list: `RankedList`, `SlotRanks`). The exceptions are those `AsWhole` names, and the
invariant carries them along: a wrong offset, a window over cached tokens (`Beyond`, only after
a continuation), positions rounded in half precision (`Rough`, also of the text of an
artifact). `AllAnswersExact` follows for the seventeen families whose adapters compute what their
architecture does, and `SimplifiedAnswersExact` for bloom and gemma3, against what their
adapters leave of it. Both are about answers that are given: a llama takes its tokens one by one,
and of granite at `F16` and rwkv6 a question of several tokens has no answer (`PiecesAccepted`).

Layers, texts and the loops of the state-space families are recursive functions. The
library's induction theorems, whose hypotheses are about an operator, cannot be used by this
prover, but the same for sets can be proved: `NatSet` and `UpTo`, from the fact that a
non-empty set of naturals has a least element (`WFMin`). Every induction of this module cites
them for the set of the numbers that satisfy its formula.

`PublicImpliesOwnedHolds` and `OnlyConfiguredBucketsHolds` prove two lemmas of the invariants
that no run checks on their own.

**Only model-checked.** `LoadEnds`, `LoginEnds` and `CallbackEnds`: liveness under fairness is
out of this prover's reach. So are the violations of section 5, which are counterexamples.

## 5. Findings

1. `failed_delete`: the delete handler removes the S3 objects in listing order, the metadata
   object first (`backend/src/routes/artifacts.ts:175`). If it fails or dies after that, the
   data object stays without a record and every later delete answers 404, against
   README.md:275, *"objects live in your bucket until you delete them via `kvcdn delete`"*.
2. `key_race`: a process whose `create_new` finds that another one has made the key file
   loops around to read it, as the comment at `src/core/crypto.rs:127-128` says, but may do
   so (`:102`) before the other has written the key, and ends with a decoding error. In
   TLC's trace both have found no file, the second loses `create_new`, loops, and reads an
   empty file.
3. `logout_race`: a command that loaded the tokens before a logout saves the refreshed
   ones after it (`src/hosted/api.rs:322`): README.md:47 says that logout removes them.
4. `tree_search`: `search --tree` loads all cells of the best artifact also when only a part
   of it matches, and forwards the last matched token again when the query has no suffix
   (`src/local/search_tree.rs:83`). The candidates then do not continue "from the shared
   prefix" (docs/superpowers/specs/2026-07-12-kv-cache-tree-search-design.md:6-8).

### What the models show of the code beside its properties

The properties hold because they name these cases. Where a document says more, it is quoted.

- *Positions.* `infer` takes the third dimension of a tensor for the length
  (`local/infer.rs:41`). In chatglm and glm4 that is a number of heads, in deepseek2 a rank: the
  question is placed wrongly and the answer is not that of the text. falcon refuses.
- *Masks.* llama and the families that use it fill scores by a mask in single precision,
  which candle refuses, so that they take single tokens only, although README.md:127-135 lists
  Llama among the supported families. olmo cannot make a mask for
  a continuation in half precision (`models/olmo.rs:300`). granite's masks and scores differ
  in type in half precision. starcoder2 applies its window to the new tokens, not to cached
  ones. `ReuseAccepted` and `AnswersExact` say how far each family is consistent with itself.
- *Simplified families.* The answers of bloom lack ALiBi and those of gemma3 its windows, as
  the comments in `models/bloom.rs:5-6` and `models/gemma3.rs:7-8` say: consistent with
  themselves (`SimplifiedExact`), they are not those of the models of these names.
- *Number types.* A plain artifact of `quant --target-dtype F32` (`local/quant.rs:150-171`)
  does not fit the model that `infer` and `search` load at `F16` (`local/infer.rs:22`,
  `search.rs:129`): the concatenation in the first layer fails. `UndisturbedSucceeds` names
  it.
- *Quantization.* `quant --verify` may bail because the answers differ; README.md:139 says that
  DeepSeek MLA does. No property claims equal answers for a quantized artifact.
- *Refresh.* The repository's issuer hands out a refresh token whose grant it then refuses
  (`oidc.ts:234`, `:264`): at this issuer a session lasts as long as its access token.
- *Overlapping saves* of the credentials, or one cut short, leave a file that no command can read
  until the next login (`token_store.rs:50`): `SessionNotStranded` excepts them by `spoiled`.
- *States.* mamba and mamba2 never give their state away: `get_kv_cache` fails. rwkv6 takes
  one token at a time, in single precision, and its states cannot be saved (two dimensions).
- *Tables* of positions computed in half precision confuse positions beyond 2048.
- *Temporary file.* Two unanswered inferences on one artifact share a file; a process that
  could not be started leaves unlinks behind that may hit the next request.
- *Lookup.* In memory, a deletion of another artifact between two pages makes a flat route
  answer 404 for an artifact that is there.
- *Upload* believes a sidecar that lies beside another data file, as a download over a
  saved path leaves it, and the backend, which compares hash and size, confirms it.
- *Codes.* A code that is expired, used or unknown is traded for tokens of a subject
  of that name by the mock issuer (`backend/src/routes/oidc.ts:250`).

## 6. What is not modelled

- *gemma.* Its weights never load: `models/gemma.rs:177-186` multiplies a tensor of integers
  by one of floats. The other nineteen adapters are in `Decoders` and `Recurrent`.
- *Numbers.* Weights, activations, sampling. int8 quantization is a mark on the cells: that
  they approximate, and that an answer may differ, is modelled; by how much is not. An
  adapter's answer is what it was made of. `AnswersExact` is about structure: rounding may
  still change a logit.
- *File names other than those the CLI sends*, and with them everything that depends on
  which keys a name can form. The models state no isolation between tenants: what
  README.md:279-281 says of it is neither checked nor proved here.
- *Loading of weights and configuration* of the families.
- *Listing routes.* They return one page and keep nothing; `kvcdn list` shows the first.
  S3's continuation tokens are the bucket's.
- *Identity, quota, API-key records, telemetry*: sequential or best-effort; nothing modelled
  depends on more than their results.
- *Configuration, output, validation of paths, plot, tokenize*: no shared state. Of `benchmark`
  and `diag` the passes through the model are those of `Adapters`; measuring is left out.
- *PKCE and URLs* of the browser login: data without state; the mock issuer does not look at
  the verifier.
- *Local leftovers of failing transfers*: a download that fails leaves a partial file;
  `KvReuse` covers what `infer`, `verify` and `upload` make of a torn one.
- *A logout that is killed* between its two deletes leaves the API key. `Session` takes them as
  two steps; no document promises what such a logout leaves.

## 7. Plan

Done: the models in the order of section 2, and proofs of every safety property that the
runs check.

Left: the abstract statement of what a login or a shared artifact promises across `Session` and
`KvReuse`, in the way of `ArtifactPromise`; an argument for the liveness properties short of
fairness, that every step of a loading or polling process lowers a measure; the in-memory
assignments of `BucketAssignment` (`Durable = FALSE`), which the proofs cover, in a run of their
own; and an adapter for gemma once its weights load.
