------------------------ MODULE MCBucketAssignment -------------------------
(* A small instance of BucketAssignment for TLC. *)
EXTENDS BucketAssignment, TLC

CONSTANTS c1, c2, b1, b2, b3

\* The two tenants hash apart on a list of two or three buckets.
MCHash == c1 :> 4 @@ c2 :> 5

\* A bucket is added in front or behind, and one is taken away.
MCBucketLists == {<<b1, b2>>, <<b3, b1, b2>>, <<b2>>}

Symmetry == Permutations(Call)
=============================================================================
