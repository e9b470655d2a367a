----------------------------- MODULE MCKvReuse -----------------------------
(* A small instance of KvReuse for TLC, with constraints that keep it small. *)
EXTENDS KvReuse, TLC

CONSTANTS a, b

\* One context is a prefix of the other; the queries share no token with them,
\* are one of them or go beyond the shorter one.
MCContext == {<<a>>, <<a, b>>}
MCQuestion == {<<b>>}
MCQuery == {<<b>>, <<a, b>>, <<a, a, b>>}

\* Downloads of the longer one.
MCForeign == {Cells(<<a, b>>, F16)}

\* To keep the states few, the last command to begin saves nothing, two commands that
\* quantize do not run at a time, and a process is killed only when it leaves a torn
\* file or there is one.
OneQuant == Cardinality({p \in Proc : proc[p].job = "quant"}) < 2
Bounded ==
    /\ begun' = MaxBegun /\ begun' # begun =>
           \A p \in Proc : proc[p] = proc'[p] \/ proc'[p].saves = <<>>
    /\ kills' # kills => \E f \in Path : Torn \in {data[f], side[f]}

Symmetry == Permutations(Proc) \union Permutations(Path)
=============================================================================
