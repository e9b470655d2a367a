------------------------ MODULE MCArtifactLifecycle ------------------------
(* Small instances of ArtifactLifecycle for TLC. *)
EXTENDS ArtifactLifecycle, TLC

\* Ids, tenants and handler slots are interchangeable.
Symmetry == Permutations(Artifact) \union Permutations(Customer)
              \union Permutations(Request)
=============================================================================
