-------------------------- MODULE ArtifactPromise --------------------------
(***************************************************************************)
(* What the hosted store promises the owner of an artifact, with no        *)
(* handlers, no failing calls and no clock: an artifact lives once, in one *)
(* direction, its bytes are lost only after the owner has asked for its    *)
(* deletion, and once a confirmation is final the bytes do not change.     *)
(* ArtifactLifecycle implements it.                                        *)
(***************************************************************************)
CONSTANT Artifact

VARIABLES
    stage,  \* stage[a]: "unborn", "kept", "leaving" (delete begun) or "gone"
    shown,  \* artifacts anyone can find in the public index
    bytes,  \* bytes[a]: what is stored, against what the owner declared
    final   \* artifacts whose confirmation is final

vars == <<stage, shown, bytes, final>>

Init ==
    /\ stage = [a \in Artifact |-> "unborn"]
    /\ shown = {}
    /\ bytes = [a \in Artifact |-> "absent"]
    /\ final = {}

Move(a, from, to) ==
    /\ stage[a] = from
    /\ stage' = [stage EXCEPT ![a] = to]
    /\ UNCHANGED <<shown, bytes, final>>

\* The owner's record appears; this happens once for an id.
Publish(a) == Move(a, "unborn", "kept")

\* The owner's delete request is accepted, and later the record goes.
Condemn(a) == Move(a, "kept", "leaving")
Withdraw(a) == Move(a, "leaving", "gone")

\* A public artifact is shown after its record, and hidden after it.
Show(a) ==
    /\ stage[a] # "unborn"
    /\ shown' = shown \union {a}
    /\ UNCHANGED <<stage, bytes, final>>

Hide(a) ==
    /\ stage[a] = "gone"
    /\ shown' = shown \ {a}
    /\ UNCHANGED <<stage, bytes, final>>

\* The client stores bytes, right or wrong ones, until a confirmation is final.
Write(a, content) ==
    /\ stage[a] # "unborn"
    /\ a \notin final
    /\ bytes' = [bytes EXCEPT ![a] = content]
    /\ UNCHANGED <<stage, shown, final>>

Seal(a) ==
    /\ bytes[a] = "match" \/ stage[a] \in {"leaving", "gone"}
    /\ final' = final \union {a}
    /\ UNCHANGED <<stage, shown, bytes>>

Erase(a) ==
    /\ stage[a] \in {"leaving", "gone"}
    /\ bytes' = [bytes EXCEPT ![a] = "absent"]
    /\ UNCHANGED <<stage, shown, final>>

Next == \E a \in Artifact :
    \/ Publish(a)
    \/ Condemn(a)
    \/ Withdraw(a)
    \/ Show(a)
    \/ Hide(a)
    \/ \E content \in {"match", "mismatch"} : Write(a, content)
    \/ Seal(a)
    \/ Erase(a)

Spec == Init /\ [][Next]_vars
=============================================================================
