-------------------------- MODULE MCInferenceRoute --------------------------
(* A small instance of InferenceRoute for TLC. *)
EXTENDS InferenceRoute, TLC

\* Slots are interchangeable.
Symmetry == Permutations(Request) \union Permutations(Infer)
=============================================================================
