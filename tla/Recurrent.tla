----------------------------- MODULE Recurrent -----------------------------
(***************************************************************************)
(* The state-space adapters of src/src/models: mamba.rs, mamba2.rs and     *)
(* rwkv6.rs.  What a layer keeps is of one size however many tokens went   *)
(* through; here it is the sequence of all that was folded into it.  The   *)
(* mamba families take the tokens one at a time through all the layers;    *)
(* no layer reads what a later one keeps, so that it is the same to take   *)
(* the layers one at a time over all the tokens.                           *)
(***************************************************************************)
EXTENDS Tensors

CONSTANT DConv   \* d_conv of mamba.rs, D_CONV of mamba2.rs

ASSUME RecurrentAssumption == DConv \in Nat \ {0}

\* The zeros a state begins with.
Zero == [zero |-> TRUE]

\* A layer over the new tokens, from the cell it is left with by the one before.
Scanned(cell, xs, Block(_, _, _)) ==
    LET scan[i \in 0..Len(xs)] ==
            IF i = 0 THEN [cell |-> cell, ys |-> <<>>]
            ELSE LET done == Block(scan[i - 1].cell, xs[i], i)
                 IN  [cell |-> done.cell, ys |-> Append(scan[i - 1].ys, done.y)]
    IN  [ok |-> TRUE, cells |-> scan[Len(xs)].cell, xs |-> scan[Len(xs)].ys]

\* What the convolution sees is folded into the state, and the state read.
Folded(cell, x, window) ==
    [cell |-> [cell EXCEPT !.past = Append(@, window)],
     y |-> [input |-> x, past |-> Append(cell.past, window)]]

(***************************************************************************)
(* mamba.rs: the last inputs are a ring, indexed by the position           *)
(***************************************************************************)
MambaState == [past |-> <<>>, ring |-> [d \in 0..(DConv - 1) |-> Zero]]
MambaBlock(cell, x, pos) ==
    LET ring == [cell.ring EXCEPT ![pos % DConv] = x]
    IN  Folded([cell EXCEPT !.ring = ring], x,
               [d \in 1..DConv |-> ring[(d + pos) % DConv]])
\* The state is made by the first pass, and its position set by every pass.
MambaLayer(cell, xs, offset) ==
    LET Block(before, x, i) == MambaBlock(before, x, offset + i - 1)
    IN  Scanned(IF cell = NoCache THEN MambaState ELSE cell, xs, Block)
MambaForward(call) ==
    LET Layer(cell, xs) == MambaLayer(cell, xs, call.offset)
    IN  Through(call, Embeddings(call), Layer)
MambaForCausalLM(call) == LastOf(MambaForward(call))
\* Without a state refused; with one, so is the empty tensor of the second half
\* that is to be reshaped to a scalar.
MambaGet(layers) == NothingCached

(***************************************************************************)
(* mamba2.rs: the last inputs are shifted                                  *)
(***************************************************************************)
Mamba2State == [past |-> <<>>, conv |-> [d \in 1..DConv |-> Zero]]
Mamba2Conv(conv, x) == Append(Tail(conv), x)
Mamba2Block(cell, x) ==
    LET conv == Mamba2Conv(cell.conv, x) IN Folded([cell EXCEPT !.conv = conv], x, conv)
Mamba2Layer(cell, xs) ==
    LET Block(before, x, i) == Mamba2Block(before, x)
    IN  Scanned(IF cell = NoCache THEN Mamba2State ELSE cell, xs, Block)
Mamba2Forward(call) == Through(call, Embeddings(call), Mamba2Layer)
Mamba2ForCausalLM(call) == LastOf(Mamba2Forward(call))
Mamba2Get(layers) == NothingCached

(***************************************************************************)
(* rwkv6.rs: each layer mixes a token with the one before it, twice        *)
(***************************************************************************)
Rwkv6Zeros == [shift |-> Zero, linear |-> <<>>, feed |-> Zero]
\* The token before is subtracted without broadcasting: one token, of the single
\* precision the zeros have.
Rwkv6Attention(state, xs, type) ==
    LET mixed == [token |-> xs[1], before |-> state.shift]
    IN  [ok |-> Len(xs) = 1 /\ type = "f32",
         state |-> [state EXCEPT !.shift = xs[1], !.linear = Append(@, mixed)],
         x |-> [token |-> xs[1], attends |-> Append(state.linear, mixed)]]
Rwkv6FeedForward(state, x) ==
    [state |-> [state EXCEPT !.feed = x], x |-> [token |-> x, before |-> state.feed]]
Rwkv6Block(state, xs, type) ==
    LET attention == Rwkv6Attention(state, xs, type)
        feed == Rwkv6FeedForward(attention.state, attention.x)
    IN  IF attention.ok THEN [ok |-> TRUE, cells |-> feed.state, xs |-> <<feed.x>>]
        ELSE [ok |-> FALSE, cells |-> state, xs |-> xs]
Rwkv6Forward(call) ==
    LET Layer(state, xs) == Rwkv6Block(state, xs, call.type)
    IN  Through(call, Embeddings(call), Layer)
Rwkv6ForCausalLM(call) == LastOf(Rwkv6Forward(call))
\* A state of zeros is as good as any.
Rwkv6Get(layers) == [ok |-> TRUE, layers |-> layers]
Rwkv6Set(layers, cache) == Restored(layers, cache)
=============================================================================
