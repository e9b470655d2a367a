----------------------------- MODULE MCAdapters -----------------------------
(* A small instance of Adapters for TLC: every family but gemma. *)
EXTENDS Adapters

CONSTANTS a, b

MCRoute == [t \in {a, b} |-> IF t = a THEN <<3, 1>> ELSE <<2, 3>>]
MCContext == {<<a>>, <<a, b>>, <<b, a, a>>}
MCQuestion == {<<b>>, <<a, b>>}
=============================================================================
