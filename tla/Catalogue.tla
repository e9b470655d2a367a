----------------------------- MODULE Catalogue -----------------------------
(***************************************************************************)
(* The search for an artifact that the flat routes (/artifacts/:id, the    *)
(* ones the CLI calls) begin with: findCustomerArtifact of                 *)
(* backend/src/routes/artifacts.ts reads the tenant's records page by page *)
(* over the in-memory metadata store, whose continuation token is an index *)
(* into a list of keys that is made anew for every page.  Between two      *)
(* pages the other handlers run, on this artifact and on others.           *)
(*                                                                         *)
(* Only how many of the other keys sort before the one looked for, and how *)
(* many after it, decides what the pages hold; the others' own handlers    *)
(* are left out.  Once the record is found, the route goes on as the       *)
(* actions ConfirmStart, DownloadStart and DeleteStart do.                 *)
(***************************************************************************)
EXTENDS ArtifactLifecycle, FiniteSets, FiniteSetsExt

CONSTANTS
    PageSize,    \* records on a page: 1000
    MaxOthers,   \* bound on the tenant's other artifacts
    MaxRunning   \* bound on requests that run at once

ASSUME CatalogueAssumption ==
    PageSize \in Nat \ {0} /\ MaxOthers \in Nat /\ MaxRunning \in Nat

\* The lookup that runs, if any: art is the artifact looked for and caller the
\* tenant; index is the continuation token; before and after count the tenant's
\* other records on either side.  History: present, whether the artifact's record
\* was there all the time, and moved, whether a record before it was deleted.
VARIABLE lookup

NoLookup == [phase |-> "none"]

CatalogueInit == Init /\ lookup = NoLookup

Paging == lookup.phase = "paging"

\* Keys of the tenant, in the order of the store.
Total == lookup.before + lookup.after
            + IF Owns(lookup.caller, lookup.art) THEN 1 ELSE 0

LookupStart(c, a) ==
    /\ lookup = NoLookup
    /\ \E before, after \in 0..MaxOthers :
          /\ before + after <= MaxOthers
          /\ lookup' = [phase |-> "paging", art |-> a, caller |-> c, index |-> 0,
                        before |-> before, after |-> after,
                        present |-> Owns(c, a), moved |-> FALSE]
    /\ UNCHANGED vars

\* What slice(startIndex, startIndex + limit) holds of the list.
PageLength == Max({0, Min({PageSize, Total - lookup.index})})
OnPage == /\ Owns(lookup.caller, lookup.art)
          /\ lookup.index <= lookup.before
          /\ lookup.before < lookup.index + PageLength

\* Mutant: the next page begins one record too far.
NextIndexSkipping == lookup.index + PageLength + 1

NextIndex == lookup.index + PageLength

LookupPage ==
    /\ Paging
    /\ lookup' = IF OnPage THEN NoLookup
                 ELSE IF NextIndex < Total THEN [lookup EXCEPT !.index = NextIndex]
                 ELSE [lookup EXCEPT !.phase = "missed"]
    /\ UNCHANGED vars

\* The route answers 404.
LookupReply ==
    /\ lookup.phase = "missed"
    /\ lookup' = NoLookup
    /\ UNCHANGED vars

\* Other handlers store and delete the records of other artifacts.
OtherSaved ==
    /\ Paging
    /\ lookup.before + lookup.after < MaxOthers
    /\ \E side \in {"before", "after"} : lookup' = [lookup EXCEPT ![side] = @ + 1]
    /\ UNCHANGED vars

OtherDeleted ==
    /\ Paging
    /\ \E side \in {"before", "after"} :
          /\ lookup[side] > 0
          /\ lookup' = [lookup EXCEPT ![side] = @ - 1,
                                      !.moved = @ \/ side = "before"]
    /\ UNCHANGED vars

\* The handlers of ArtifactLifecycle run beside the lookup.
Handlers ==
    /\ Next
    /\ lookup' = IF Paging /\ lookup.art \notin meta'
                 THEN [lookup EXCEPT !.present = FALSE]
                 ELSE lookup

Lookups ==
    \/ \E c \in Customer, a \in Artifact : LookupStart(c, a)
    \/ LookupPage
    \/ LookupReply
    \/ OtherSaved
    \/ OtherDeleted

\* A flat route answers 404 for an artifact that is in the store from the first
\* page to the last only if another artifact of the tenant, one that sorts before
\* it, was deleted meanwhile (memory-metadata-store.ts:42-45): neither what is
\* stored meanwhile nor the end of a page hides a record.
LookupFinds == lookup.phase = "missed" /\ lookup.present => lookup.moved
=============================================================================
