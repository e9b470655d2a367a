--------------------------- MODULE InferenceRoute ---------------------------
(***************************************************************************)
(* POST .../artifacts/:id/infer (backend/src/routes/inference.ts), beside  *)
(* the other handlers of the backend: the bytes of the artifact go into a  *)
(* temporary file, a kvcdn infer process reads it, and the file is removed *)
(* when the process has ended.  The name of the file is the id of the      *)
(* artifact, so that concurrent requests for one artifact share it.  What  *)
(* the process makes of the bytes is the subject of KvReuse.               *)
(***************************************************************************)
EXTENDS Catalogue

CONSTANTS
    Infer,          \* slots of concurrent inference requests
    MaxSpawnErrors  \* bound on processes that cannot be started

ASSUME InferenceAssumption == MaxSpawnErrors \in Nat

VARIABLES
    tmp,         \* tmp[a]: the temporary file of a, none, torn or whole
    infer,       \* infer[i]: the request in slot i
    spawnErrors  \* processes that could not be started

inferVars == <<tmp, infer, spawnErrors>>
backendVars == <<vars, lookup, inferVars>>

\* bytes were fetched, got is what the process read, and linked says that the
\* file the request opened is still the one under the name.  alone is history:
\* whether every other request for the artifact was answered all the time.
NoInfer == [phase |-> "idle", art |-> NoArtifact, caller |-> Anonymous, bytes |-> "absent",
            got |-> "absent", linked |-> FALSE, alone |-> TRUE]

BackendInit ==
    /\ CatalogueInit
    /\ tmp = [a \in Artifact |-> "none"]
    /\ infer = [i \in Infer |-> NoInfer]
    /\ spawnErrors = 0

GoInfer(i, request) ==
    /\ infer' = [infer EXCEPT ![i] = request]
    /\ UNCHANGED <<vars, lookup>>

Unanswered(i) == infer[i].phase \notin {"idle", "erred", "closing"}

\* The caller's own record first, then the public one.
InferStart(i, c, a) ==
    /\ infer[i].phase = "idle"
    /\ \E phase \in {"fetch", "public"} :
          /\ phase = "fetch" => Owns(c, a)
          /\ phase = "public" => ~Owns(c, a) \/ MetaUnderPrefix
          /\ infer' = [j \in Infer |->
                IF j = i
                THEN [NoInfer EXCEPT !.phase = phase, !.art = a, !.caller = c,
                         !.alone = \A k \in Infer \ {i} :
                                      infer[k].art = a => ~Unanswered(k)]
                ELSE IF infer[j].art = a THEN [infer[j] EXCEPT !.alone = FALSE]
                ELSE infer[j]]
    /\ UNCHANGED <<vars, lookup, tmp, spawnErrors>>

InferPublic(i) ==
    /\ infer[i].phase = "public"
    /\ GoInfer(i, IF infer[i].art \in pub /\ CanAccess(infer[i].caller, infer[i].art)
                  THEN [infer[i] EXCEPT !.phase = "fetch"] ELSE NoInfer)
    /\ UNCHANGED <<tmp, spawnErrors>>

\* Bytes that are gone by now are a 502.
InferFetch(i) ==
    LET bytes == data[infer[i].art] IN
    /\ infer[i].phase = "fetch"
    /\ GoInfer(i, IF bytes = "absent" THEN NoInfer
                  ELSE [infer[i] EXCEPT !.phase = "open", !.bytes = bytes])
    /\ UNCHANGED <<tmp, spawnErrors>>

\* writeFile creates or truncates the file, then fills it.
OpenTmp(i) ==
    /\ infer[i].phase = "open"
    /\ tmp' = [tmp EXCEPT ![infer[i].art] = "torn"]
    /\ GoInfer(i, [infer[i] EXCEPT !.phase = "write", !.linked = TRUE])
    /\ UNCHANGED spawnErrors

\* Bytes over other bytes leave a mixture; bytes into a removed file are lost.
WriteTmp(i) ==
    LET a == infer[i].art
        bytes == infer[i].bytes
    IN  /\ infer[i].phase = "write"
        /\ tmp' = [tmp EXCEPT ![a] = IF ~infer[i].linked THEN @
                                     ELSE IF @ \in {"torn", bytes} THEN bytes
                                     ELSE "torn"]
        /\ GoInfer(i, [infer[i] EXCEPT !.phase = "spawn"])
        /\ UNCHANGED spawnErrors

Spawn(i) ==
    /\ infer[i].phase = "spawn"
    /\ GoInfer(i, [infer[i] EXCEPT !.phase = "running"])
    /\ UNCHANGED <<tmp, spawnErrors>>

\* The error event answers 502; its unlink is not awaited, and the close event
\* that follows has another one and a second answer, which is ignored.
SpawnFails(i) ==
    /\ infer[i].phase = "spawn"
    /\ spawnErrors < MaxSpawnErrors
    /\ spawnErrors' = spawnErrors + 1
    /\ GoInfer(i, [infer[i] EXCEPT !.phase = "erred"])
    /\ UNCHANGED tmp

\* The process reads the file once, or fails.
ChildReads(i) ==
    LET file == tmp[infer[i].art] IN
    /\ infer[i].phase = "running"
    /\ GoInfer(i, [infer[i] EXCEPT !.phase = "close",
                                   !.got = IF file \in {"none", "torn"} THEN "absent" ELSE file])
    /\ UNCHANGED <<tmp, spawnErrors>>

\* The name is gone, for every request that has the file open.
Removing(i, request) ==
    LET a == infer[i].art IN
    /\ tmp' = [tmp EXCEPT ![a] = "none"]
    /\ infer' = [j \in Infer |->
                    IF j = i THEN request
                    ELSE IF infer[j].art = a THEN [infer[j] EXCEPT !.linked = FALSE]
                    ELSE infer[j]]
    /\ UNCHANGED <<vars, lookup, spawnErrors>>

\* Mutant: the answer does not wait for the removal.
UnlinkUnawaited(i) ==
    /\ infer[i].phase = "close"
    /\ GoInfer(i, [infer[i] EXCEPT !.phase = "closing"])
    /\ UNCHANGED <<tmp, spawnErrors>>

Unlink(i) ==
    /\ infer[i].phase = "close"
    /\ Removing(i, [infer[i] EXCEPT !.phase = "reply"])

InferReply(i) ==
    /\ infer[i].phase = "reply"
    /\ GoInfer(i, NoInfer)
    /\ UNCHANGED <<tmp, spawnErrors>>

\* What is left to do of a request that was answered by the error event.
LateUnlink(i) ==
    \/ infer[i].phase = "erred" /\ Removing(i, [infer[i] EXCEPT !.phase = "closing"])
    \/ infer[i].phase = "closing" /\ Removing(i, NoInfer)

Inference ==
    \/ \E i \in Infer, c \in Caller, a \in Artifact : InferStart(i, c, a)
    \/ \E i \in Infer :
          \/ InferPublic(i)
          \/ InferFetch(i)
          \/ OpenTmp(i)
          \/ WriteTmp(i)
          \/ Spawn(i)
          \/ SpawnFails(i)
          \/ ChildReads(i)
          \/ Unlink(i)
          \/ InferReply(i)
          \/ LateUnlink(i)

Running ==
    Cardinality({r \in Request : req[r].phase # "idle"})
        + Cardinality({i \in Infer : infer[i].phase # "idle"})
        + IF lookup = NoLookup THEN 0 ELSE 1

BackendNext ==
    /\ \/ Handlers /\ UNCHANGED inferVars
       \/ Lookups /\ UNCHANGED inferVars
       \/ Inference
    /\ Running' <= MaxRunning

BackendSpec == BackendInit /\ [][BackendNext]_backendVars

\* An inference request is answered from exactly the bytes it fetched, whatever
\* is uploaded or deleted meanwhile, unless another one for the artifact, not yet
\* answered, shares its temporary file (inference.ts:72): every earlier one has
\* removed the file before it was answered.  Only a process that could not be
\* started leaves removals behind that may hit the next request (inference.ts:95).
LoneInferenceExact ==
    \A i \in Infer :
        infer[i].phase \in {"close", "reply"} /\ infer[i].alone /\ spawnErrors = 0
            => infer[i].got = infer[i].bytes
=============================================================================
