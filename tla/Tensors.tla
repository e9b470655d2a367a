------------------------------ MODULE Tensors ------------------------------
(***************************************************************************)
(* What a forward pass does to the caches of a model's layers, with        *)
(* symbolic tensors: a hidden state is a record of all that went into it,  *)
(* so that two of them are equal only if the same computation made them.   *)
(* Projections, normalisation and the MLP work on each position by itself; *)
(* they add nothing to the record.  A batch is one sequence.               *)
(***************************************************************************)
EXTENDS Naturals, Sequences, SequencesExt

CONSTANTS
    Depth,         \* layers of a model
    MaxPositions,  \* rows of the tables of positions
    HalfExact      \* half precision holds every integer up to this one: 2048

ASSUME TensorsAssumption ==
    Depth \in Nat \ {0} /\ MaxPositions \in Nat /\ HalfExact \in Nat \ {0}

NumberType == {"f16", "f32"}

\* A call of CausalLM::forward on a model that has these layers.
Call(layers, tokens, offset, type) ==
    [layers |-> layers, tokens |-> tokens, offset |-> offset, type |-> type]

\* The cache of a layer before the first pass.
NoCache == <<>>
Fresh == [l \in 1..Depth |-> NoCache]

(***************************************************************************)
(* Positions                                                               *)
(***************************************************************************)
Width(call) == Len(call.tokens)
Unplaced(call) == [i \in 1..Width(call) |-> <<>>]

\* narrow of a table, or a lookup, beyond its rows is an error.
Outside == <<>>
Rows(call, table) ==
    IF call.offset + Width(call) - 1 \in DOMAIN table
    THEN [i \in 1..Width(call) |-> <<table[call.offset + i - 1]>>]
    ELSE Outside

\* The rows of a table that was computed in single precision.
TableRows(call, rows) == Rows(call, [p \in 0..(rows - 1) |-> p])

\* The multiple of unit next to p, of two equally near the one that is even in
\* units: how an integer is held that needs one bit more than there are.
Nearest(p, unit) ==
    LET below == p \div unit
        rest == 2 * (p % unit)
    IN  unit * IF rest > unit \/ (rest = unit /\ below % 2 = 1) THEN below + 1 ELSE below

\* The integer p once it is converted to a number type; half precision keeps
\* every second integer up to twice HalfExact, every fourth from there on.
Converted(p, type) ==
    IF type = "f32" \/ p <= HalfExact THEN p
    ELSE Nearest(p, IF p <= 2 * HalfExact THEN 2 ELSE 4)

\* The rows of a table that was computed in the number type of the model.
ModelRows(call, rows) == Rows(call, [p \in 0..(rows - 1) |-> Converted(p, call.type)])

Embedded(call, at) ==
    [i \in 1..Len(at) |-> [token |-> call.tokens[i], at |-> at[i]]]
Embeddings(call) == Embedded(call, Unplaced(call))

(***************************************************************************)
(* Masks                                                                   *)
(***************************************************************************)
\* hides holds the <<row, column>> pairs that are masked; a mask that was not
\* made is an error of the tensor library.
Mask(columns, type, hides) ==
    [made |-> TRUE, columns |-> columns, type |-> type, hides |-> hides]
NoMask == Mask(0, "none", {})
FailedMask == [NoMask EXCEPT !.made = FALSE]

\* Mutant: the diagonal is not moved by the prefix.
LaterUnshifted(call) ==
    {at \in (1..Width(call)) \X (1..(call.offset + Width(call))) : at[2] > at[1]}

\* Row i is the new token i, column j the position j: nothing later.
Later(call) ==
    {at \in (1..Width(call)) \X (1..(call.offset + Width(call))) : at[2] > at[1] + call.offset}

CausalMask(call, type) ==
    IF Width(call) = 1 THEN NoMask ELSE Mask(call.offset + Width(call), type, Later(call))

(***************************************************************************)
(* Attention                                                               *)
(***************************************************************************)
Extended(cells, xs, at) == cells \o [i \in 1..Len(xs) |-> [key |-> xs[i], at |-> at[i]]]

\* What each of xs becomes that attends to the cells its row does not hide.
Attended(cells, xs, at, mask) ==
    [i \in 1..Len(xs) |->
        [query |-> xs[i], at |-> at[i],
         over |-> [j \in {j \in 1..Len(cells) : <<i, j>> \notin mask.hides} |-> cells[j]]]]

\* The new cells go into the cache before anything can fail that depends on it.
Cached(cells, xs, at, mask, fits) ==
    IF at = Outside THEN [ok |-> FALSE, cells |-> cells, xs |-> xs]
    ELSE LET all == Extended(cells, xs, at) IN
         [ok |-> fits, cells |-> all, xs |-> Attended(all, xs, at, mask)]

\* The mask is added to scores of the given type, one column for each cell.
AddedAttention(cells, xs, at, mask, scores) ==
    Cached(cells, xs, at, mask,
           \/ mask = NoMask
           \/ mask.made /\ mask.type = scores /\ mask.columns = Len(cells) + Len(xs))

\* where_cond takes integer conditions only.
FilledAttention(cells, xs, at, mask) ==
    Cached(cells, xs, at, mask,
           \/ mask = NoMask
           \/ mask.made /\ mask.type = "u8" /\ mask.columns = Len(cells) + Len(xs))

(***************************************************************************)
(* Passes                                                                  *)
(***************************************************************************)
Refused(call) == [ok |-> FALSE, layers |-> call.layers, xs |-> <<>>]

\* The layers one after the other; an error in one leaves the layers before it,
\* and it, as they are by then.
Through(call, xs, Layer(_, _)) ==
    LET pass[l \in 0..Depth] ==
            IF l = 0 THEN [ok |-> TRUE, layers |-> call.layers, xs |-> xs]
            ELSE LET before == pass[l - 1]
                     layer == Layer(before.layers[l], before.xs)
                 IN  IF ~before.ok THEN before
                     ELSE [ok |-> layer.ok,
                           layers |-> [before.layers EXCEPT ![l] = layer.cells],
                           xs |-> layer.xs]
    IN  pass[Depth]

\* The mask and the embeddings are made once, before the layers.
Decoded(call, xs, mask, Attention(_, _, _, _)) ==
    LET Layer(cells, ys) == Attention(cells, ys, mask, call)
    IN  IF mask.made /\ xs # Outside THEN Through(call, xs, Layer) ELSE Refused(call)

\* The logits are those of the last position.
LastOf(pass) == IF pass.ok THEN [pass EXCEPT !.xs = <<Last(pass.xs)>>] ELSE pass

(***************************************************************************)
(* Caches of keys and values                                               *)
(***************************************************************************)
NothingCached == [ok |-> FALSE, layers |-> Fresh]

\* Refused before every layer has been through a pass.
Captured(layers) ==
    IF \A l \in 1..Depth : layers[l] # NoCache
    THEN [ok |-> TRUE, layers |-> layers]
    ELSE NothingCached

\* The number of layers is checked, nothing else.
Restored(layers, cache) ==
    IF DOMAIN cache = DOMAIN layers
    THEN [ok |-> TRUE, layers |-> cache]
    ELSE [ok |-> FALSE, layers |-> layers]
=============================================================================
