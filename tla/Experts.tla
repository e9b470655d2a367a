------------------------------ MODULE Experts ------------------------------
(***************************************************************************)
(* The mixtures of experts of granite_moe.rs and deepseek2.rs.  The router *)
(* chooses experts for each row; the rows are then gathered by expert, go  *)
(* through the experts a slice at a time, and are scattered back.  Which   *)
(* experts a row is given is a function of the row, here of its token.     *)
(***************************************************************************)
EXTENDS Tensors

CONSTANTS
    Experts,  \* their number
    Route     \* the experts of a token, the highest gate first

ASSUME ExpertsAssumption ==
    /\ Experts \in Nat
    /\ \A t \in DOMAIN Route : Route[t] \in Seq(1..Experts) /\ IsInjective(Route[t])

Gate(token, expert) == [token |-> token, expert |-> expert]

\* The elements of a finite set, each after all that come before it.
Ordered(S, Before(_, _)) ==
    [k \in 1..Cardinality(S) |->
        CHOOSE s \in S : Cardinality({r \in S : Before(r, s)}) = k - 1]

(***************************************************************************)
(* granite_moe.rs: one list of all slots, sorted by expert; the sort is     *)
(* stable, so that of one expert the rows stay in order                    *)
(***************************************************************************)
GraniteMoeGating(tokens) ==
    LET Slots(i) ==
            {[expert |-> e, row |-> i, gate |-> Gate(tokens[i], e)] : e \in Range(Route[tokens[i]])}
        slots == UNION {Slots(i) : i \in DOMAIN tokens}
        Before(r, s) == r.expert < s.expert \/ (r.expert = s.expert /\ r.row < s.row)
    IN  [slots |-> Ordered(slots, Before),
         sizes |-> [e \in 1..Experts |-> Cardinality({s \in slots : s.expert = e})]]

\* The first sizes[1] inputs belong to expert 1, the next sizes[2] to expert 2.
GraniteMoeParallel(inputs, sizes) ==
    LET start[e \in 1..(Experts + 1)] == IF e = 1 THEN 0 ELSE start[e - 1] + sizes[e - 1]
        Expert(k) == CHOOSE e \in 1..Experts : start[e] < k /\ k <= start[e] + sizes[e]
    IN  [k \in DOMAIN inputs |-> [expert |-> Expert(k), of |-> inputs[k]]]

GraniteMoeMlp(xs, tokens) ==
    LET gating == GraniteMoeGating(tokens)
        slots == gating.slots
        inputs == [k \in DOMAIN slots |-> xs[slots[k].row]]
        hidden == GraniteMoeParallel(inputs, gating.sizes)
        outputs == GraniteMoeParallel(hidden, gating.sizes)
    IN  [i \in DOMAIN xs |->
            [row |-> xs[i],
             experts |-> {[output |-> outputs[k], gate |-> slots[k].gate] :
                             k \in {k \in DOMAIN slots : slots[k].row = i}}]]

(***************************************************************************)
(* deepseek2.rs: for every expert, the rows and slots that chose it        *)
(***************************************************************************)
\* The experts of each row in ascending order, and their weights in the same.
DeepSeek2Gate(tokens) ==
    LET ids == [i \in DOMAIN tokens |-> Ordered(Range(Route[tokens[i]]), <)]
    IN  [ids |-> ids,
         weights |-> [i \in DOMAIN tokens |->
                         [k \in DOMAIN ids[i] |-> Gate(tokens[i], ids[i][k])]]]

DeepSeek2Moe(xs, tokens) ==
    LET gate == DeepSeek2Gate(tokens)
        Chosen(e) == UNION {{<<i, k>> : k \in {k \in DOMAIN gate.ids[i] : gate.ids[i][k] = e}} :
                               i \in DOMAIN xs}
        Added(e, i) == {[output |-> [expert |-> e, of |-> xs[p[1]]], gate |-> gate.weights[p[1]][p[2]]] :
                           p \in {p \in Chosen(e) : p[1] = i}}
    IN  [i \in DOMAIN xs |->
            [row |-> xs[i], experts |-> UNION {Added(e, i) : e \in 1..Experts}]]
=============================================================================
