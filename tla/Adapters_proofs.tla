--------------------------- MODULE Adapters_proofs ---------------------------
(***************************************************************************)
(* Proofs about the model adapters.                                        *)
(***************************************************************************)
EXTENDS Adapters, FiniteSetTheorems, SequenceTheorems, TLAPS

(***************************************************************************)
(* The inductive invariant                                                 *)
(***************************************************************************)
Mambas == {"mamba", "mamba2"}
Decoding == Families \ {"mamba", "mamba2", "rwkv6"}
Transposed == {"chatglm", "glm4", "deepseek2"}

\* The hidden states of a whole text, before the layers and after each.
After(f, t) ==
    LET after[l \in 0..Depth] == IF l = 0 THEN WholeInputs(f, t) ELSE WholeLayer(f, after[l - 1], t)
    IN  after

\* What the state-space layers make of the k-th of their inputs and those before it.
Input(xs, k) == IF k >= 1 THEN xs[k] ELSE Zero
LastInputs(xs, k) == [d \in 1..DConv |-> Input(xs, k - DConv + d)]
Convolved(xs, n) == [k \in 1..n |-> LastInputs(xs, k)]
Mixed(xs, k) == [token |-> xs[k], before |-> Input(xs, k - 1)]
Mixtures(xs, n) == [k \in 1..n |-> Mixed(xs, k)]
Attention(xs, k) == IF k >= 1 THEN [token |-> xs[k], attends |-> Mixtures(xs, k)] ELSE Zero

\* The state of a layer that no pass has made yet.
Begun(f, cell) ==
    IF cell # NoCache THEN cell ELSE IF f = "mamba" THEN MambaState ELSE Mamba2State

\* The cell of a layer after n of its inputs xs.
MambaCell(xs, n, cell) ==
    /\ cell = [past |-> Convolved(xs, n), ring |-> [d \in 0..(DConv - 1) |-> cell.ring[d]]]
    /\ \A d \in 1..DConv : cell.ring[(n + d - 1) % DConv] = Input(xs, n - DConv + d)
Mamba2Cell(xs, n, cell) == cell = [past |-> Convolved(xs, n), conv |-> LastInputs(xs, n)]
Rwkv6Cell(xs, n, cell) ==
    cell = [shift |-> Input(xs, n), linear |-> Mixtures(xs, n), feed |-> Attention(xs, n)]
DecoderCell(f, xs, n, cell) == cell = [j \in 1..n |-> [key |-> xs[j], at |-> Placed(f, j)]]
CellOf(f, xs, n, cell) ==
    CASE f = "mamba" -> MambaCell(xs, n, Begun(f, cell))
      [] f = "mamba2" -> Mamba2Cell(xs, n, Begun(f, cell))
      [] f = "rwkv6" -> Rwkv6Cell(xs, n, cell)
      [] OTHER -> DecoderCell(f, xs, n, cell)

\* Every layer holds what the layer before it made of the text.
Holds(f, from, t) == \A l \in 1..Depth : CellOf(f, After(f, t)[l - 1], Len(t), from[l])

IsList(s, n) == s = [i \in 1..n |-> s[i]]
Sizes(f, from, n) ==
    /\ IsList(from, Depth)
    /\ f \in Decoding => \A l \in 1..Depth : IsList(from[l], n)

Rough(f, number, n) == f \in HalfTables /\ number = "f16" /\ n > HalfExact + 1
Beyond(f, at, n) == f = "starcoder2" /\ at = "continued" /\ n > Window + 1

\* A call of n tokens after held others is accepted.
RowsFor(f) == IF f = "falcon" THEN FalconRows ELSE MaxPositions
Accepts(f, number, held, n) ==
    /\ f \in Decoding \ NoPositions => held + n <= RowsFor(f)
    /\ f \in {"granite", "granite_moe"} => n = 1 \/ number = "f32"
    /\ f = "olmo" => n = 1 \/ held = 0 \/ number = "f32"
    /\ f = "llama" => n = 1
    /\ f = "rwkv6" => n = 1 /\ number = "f32"

Phases == {"idle", "prefilled", "captured", "restored", "continued", "refused", "failed"}
Settled == phase \in {"prefilled", "captured", "restored", "continued"}

TypeOK ==
    /\ family \in Family
    /\ type \in NumberType
    /\ cached \in NumberType
    /\ text \in Seq(Token)
    /\ offset \in Nat
    /\ phase \in Phases

ArtifactOK ==
    artifact # NoArtifact =>
        /\ artifact = [kept |-> artifact.kept, cache |-> artifact.cache, text |-> artifact.text,
                       type |-> artifact.type]
        /\ artifact.type \in NumberType
        /\ artifact.kept \in {"memory", "file"}
        /\ artifact.text \in Seq(Token) /\ artifact.text # <<>>
        /\ family \notin Mambas
        /\ artifact.kept = "file" => family # "rwkv6"
        /\ Sizes(family, artifact.cache, Len(artifact.text))

LayersOK == Settled => text # <<>> /\ Sizes(family, layers, Len(text))

PhaseOK ==
    /\ phase \in {"prefilled", "captured"} => offset = Len(text)
    /\ phase = "captured" => artifact # NoArtifact
    /\ answer # NoAnswer => phase \in {"prefilled", "continued"}
    /\ Settled /\ offset # Len(text) =>
           family \in Transposed \/ (family = "falcon" /\ phase = "restored")

RefusedOK ==
    /\ phase = "refused"
    /\ offset = Len(text)
    /\ cached = type
    /\ ~(family = "olmo" /\ type = "f16")
    => text # <<>> /\ ~Accepts(family, type, 0, Len(text))

Shaped == TypeOK /\ ArtifactOK /\ LayersOK /\ PhaseOK /\ RefusedOK

\* And what the caches hold, of a text that the code is exact for.
ArtifactExact ==
    artifact # NoArtifact /\ ~Rough(family, artifact.type, Len(artifact.text)) =>
        Holds(family, artifact.cache, artifact.text)

LayersExact ==
    /\ Settled
    /\ offset = Len(text)
    /\ ~Rough(family, cached, Len(text))
    /\ ~Beyond(family, phase, Len(text))
    => Holds(family, layers, text)

Exact == ArtifactExact /\ LayersExact /\ AsWhole


(***************************************************************************)
(* Induction, and lists                                                    *)
(***************************************************************************)
\* A set that has 0 and with every number the next has all natural numbers.
LEMMA NatSet ==
    ASSUME NEW S, 0 \in S, \A n \in Nat : n \in S => n + 1 \in S
    PROVE  Nat \subseteq S
<1> DEFINE T == Nat \ S
<1>1. SUFFICES ASSUME T # {} PROVE FALSE
    OBVIOUS
<1>2. PICK x \in T : \A y \in T : ~(<<y, x>> \in OpToRel(<, Nat))
    BY <1>1, NatLessThanWellFounded, WFMin
<1>3. x # 0 /\ x \in Nat /\ x - 1 \in Nat /\ (x - 1) + 1 = x
    OBVIOUS
<1>4. x - 1 \in T
    BY <1>3
<1>5. <<x - 1, x>> \in OpToRel(<, Nat)
    BY <1>3 DEF OpToRel
<1>6. QED
    BY <1>2, <1>4, <1>5

\* The same up to a bound.
LEMMA UpTo ==
    ASSUME NEW m \in Nat, NEW S, 0 \in S, \A n \in Nat : n < m /\ n \in S => n + 1 \in S
    PROVE  \A n \in 0..m : n \in S
<1> DEFINE T == {n \in Nat : n <= m => n \in S}
<1>1. 0 \in T /\ \A n \in Nat : n \in T => n + 1 \in T
    OBVIOUS
<1>2. Nat \subseteq T
    BY <1>1, NatSet
<1>3. QED
    BY <1>2

\* A function on 1..n is a sequence of length n.
LEMMA ListLen ==
    ASSUME NEW n \in Nat, NEW s, IsList(s, n)
    PROVE  Len(s) = n /\ DOMAIN s = 1..n /\ s \in Seq({s[i] : i \in 1..n})
<1>1. s = [i \in 1..n |-> s[i]] /\ DOMAIN s = 1..n
    BY DEF IsList
<1>2. s \in [1..n -> {s[i] : i \in 1..n}]
    BY <1>1
<1>3. s \in Seq({s[i] : i \in 1..n})
    BY <1>2, SeqDef
<1>4. QED
    BY <1>1, <1>3, LenProperties

\* And a sequence is such a function.
LEMMA SeqList ==
    ASSUME NEW S, NEW s \in Seq(S)
    PROVE  Len(s) \in Nat /\ IsList(s, Len(s)) /\ \A i \in 1..Len(s) : s[i] \in S
BY LenProperties, ElementOfSeq DEF IsList

\* A list written as a function.
LEMMA ListOf ==
    ASSUME NEW n \in Nat, NEW s, NEW r, s = [i \in 1..n |-> r[i]]
    PROVE  IsList(s, n)
BY DEF IsList

\* Two lists one after the other.
LEMMA ConcatList ==
    ASSUME NEW m \in Nat, NEW n \in Nat, NEW s, NEW r, IsList(s, m), IsList(r, n)
    PROVE  /\ s \o r = [j \in 1..(m + n) |-> IF j <= m THEN s[j] ELSE r[j - m]]
           /\ IsList(s \o r, m + n)
<1>1. PICK S : s \in Seq(S) /\ Len(s) = m
    BY ListLen
<1>2. PICK R : r \in Seq(R) /\ Len(r) = n
    BY ListLen
<1>3. s \in Seq(S \cup R) /\ r \in Seq(S \cup R)
    BY <1>1, <1>2, SeqMonotonic
<1>4. s \o r \in Seq(S \cup R) /\ Len(s \o r) = m + n
      /\ \A j \in 1..(m + n) : (s \o r)[j] = IF j <= m THEN s[j] ELSE r[j - m]
    BY <1>1, <1>2, <1>3, ConcatProperties
<1>5. IsList(s \o r, m + n)
    BY <1>4, SeqList
<1>6. QED
    BY <1>4, <1>5 DEF IsList

\* One element after a list.
LEMMA AppendList ==
    ASSUME NEW m \in Nat, NEW s, NEW x, IsList(s, m)
    PROVE  /\ Append(s, x) = [j \in 1..(m + 1) |-> IF j <= m THEN s[j] ELSE x]
           /\ IsList(Append(s, x), m + 1)
<1>1. PICK S : s \in Seq(S) /\ Len(s) = m
    BY ListLen
<1>2. s \in Seq(S \cup {x}) /\ x \in S \cup {x}
    BY <1>1, SeqMonotonic
<1>3. Append(s, x) \in Seq(S \cup {x}) /\ Len(Append(s, x)) = m + 1
      /\ \A j \in 1..m : Append(s, x)[j] = s[j]
      /\ Append(s, x)[m + 1] = x
    BY <1>1, <1>2, AppendProperties
<1>4. IsList(Append(s, x), m + 1)
    BY <1>3, SeqList
<1>5. \A j \in 1..(m + 1) : Append(s, x)[j] = IF j <= m THEN s[j] ELSE x
    BY <1>3
<1>6. QED
    BY <1>4, <1>5 DEF IsList

(***************************************************************************)
(* One layer of any family, and a pass through all of them                 *)
(***************************************************************************)
RowsOf(f, call) ==
    CASE f \in {"olmo", "gpt2", "bloom"} -> Unplaced(call)
      [] f \in HalfTables -> ModelRows(call, RowsFor(f))
      [] OTHER -> TableRows(call, RowsFor(f))

MaskOf(f, call) ==
    CASE f = "starcoder2" -> Starcoder2Mask(call)
      [] f = "olmo" -> OlmoMask(call)
      [] f = "llama" -> LlamaMask(call)
      [] f \in {"falcon", "chatglm", "glm4"} -> ChatGlmMask(call)
      [] OTHER -> CausalMask(call, call.type)

ScoresOf(f, call) ==
    CASE f \in {"granite", "granite_moe"} -> "f32"
      [] f \in {"chatglm", "glm4", "llama"} -> "u8"
      [] OTHER -> call.type

FitsOf(f, call, held, n) ==
    IF f = "falcon" THEN held = call.offset
    ELSE \/ MaskOf(f, call) = NoMask
         \/ MaskOf(f, call).made /\ MaskOf(f, call).type = ScoresOf(f, call)
            /\ MaskOf(f, call).columns = held + n

AttentionOf(f, call, cells, xs) ==
    Cached(cells, xs, RowsOf(f, call), MaskOf(f, call), FitsOf(f, call, Len(cells), Len(xs)))

LayerOf(f, call, cells, xs) ==
    LET attended == AttentionOf(f, call, cells, xs)
    IN  CASE f = "mamba" -> MambaLayer(cells, xs, call.offset)
          [] f = "mamba2" -> Mamba2Layer(cells, xs)
          [] f = "rwkv6" -> Rwkv6Block(cells, xs, call.type)
          [] f = "granite_moe" -> [attended EXCEPT !.xs = IF attended.ok THEN GraniteMoeMlp(@, call.tokens) ELSE @]
          [] f = "deepseek2" -> [attended EXCEPT !.xs = IF attended.ok THEN DeepSeek2Moe(@, call.tokens) ELSE @]
          [] OTHER -> attended

InputsOf(f, call) ==
    IF f \in LearnedPositions THEN Embedded(call, RowsOf("qwen2", call)) ELSE Embeddings(call)

Open(f, call) ==
    f \in Decoding => InputsOf(f, call) # Outside /\ (f = "llama" \/ MaskOf(f, call).made)

NextPass(f, call, l, before) ==
    LET layer == LayerOf(f, call, before.layers[l], before.xs)
    IN  IF ~before.ok THEN before
        ELSE [ok |-> layer.ok, layers |-> [before.layers EXCEPT ![l] = layer.cells], xs |-> layer.xs]

IsPass(g, f, call) ==
    g = [l \in 0..Depth |->
            IF l = 0 THEN [ok |-> TRUE, layers |-> call.layers, xs |-> InputsOf(f, call)]
            ELSE NextPass(f, call, l, g[l - 1])]

\* The recursion of Through over a family's own layer, and what a family's forward
\* has to be: a pass through LayerOf, unless it is refused before the layers.
Recursion(g, call, xs, Layer(_, _)) ==
    g = [l \in 0..Depth |->
            IF l = 0 THEN [ok |-> TRUE, layers |-> call.layers, xs |-> xs]
            ELSE LET before == g[l - 1]
                     layer == Layer(before.layers[l], before.xs)
                 IN  IF ~before.ok THEN before
                     ELSE [ok |-> layer.ok, layers |-> [before.layers EXCEPT ![l] = layer.cells], xs |-> layer.xs]]

Passes(pass, f, call) ==
    IF Open(f, call) THEN \E g : IsPass(g, f, call) /\ pass = g[Depth] ELSE pass = Refused(call)

\* The recursion over the layers has a solution.
LEMMA PassExists ==
    ASSUME NEW f, NEW call
    PROVE  \E g : IsPass(g, f, call)
<1> DEFINE start == [ok |-> TRUE, layers |-> call.layers, xs |-> InputsOf(f, call)]
           Upto(g, m) == g = [l \in 0..m |-> IF l = 0 THEN start ELSE NextPass(f, call, l, g[l - 1])]
           S == {m \in Nat : \E g : Upto(g, m)}
<1>1. 0 \in S
    <2>1. Upto([l \in 0..0 |-> start], 0)
        OBVIOUS
    <2>2. QED
        BY <2>1
<1>2. ASSUME NEW m \in Nat, m \in S
      PROVE  m + 1 \in S
    <2>1. PICK g : Upto(g, m)
        BY <1>2
    <2> DEFINE h == [l \in 0..(m + 1) |-> IF l <= m THEN g[l] ELSE NextPass(f, call, l, g[l - 1])]
    <2> HIDE DEF start
    <2>2. ASSUME NEW l \in 0..(m + 1)
          PROVE  h[l] = IF l = 0 THEN start ELSE NextPass(f, call, l, h[l - 1])
        <3>1. CASE l = 0
            BY <2>1, <3>1
        <3>2. CASE l # 0
            <4>1. l - 1 \in 0..m /\ h[l - 1] = g[l - 1]
                BY <3>2
            <4>2. CASE l <= m
                BY <2>1, <3>2, <4>1, <4>2
            <4>3. CASE ~(l <= m)
                BY <3>2, <4>1, <4>3
            <4>4. QED
                BY <4>2, <4>3
        <3>3. QED
            BY <3>1, <3>2
    <2>3. Upto(h, m + 1)
        BY <2>2
    <2> HIDE DEF h, Upto
    <2>4. QED
        BY <2>3
<1>3. Depth \in S
    <2> HIDE DEF S
    <2>1. QED
        BY <1>1, <1>2, NatSet, TensorsAssumption
<1>4. QED
    BY <1>3 DEF IsPass


(***************************************************************************)
(* Every adapter's forward is such a pass                                  *)
(***************************************************************************)

\* llama.rs.
LEMMA LlamaPass ==
    ASSUME NEW call
    PROVE  \E pass : Passes(pass, "llama", call) /\ LlamaForward(call) = LastOf(pass)
<1> DEFINE Layer(cells, xs) == LlamaAttention(cells, xs, NoMask, call)
<1>1. \A cells, xs : Layer(cells, xs) = LayerOf("llama", call, cells, xs)
    BY DEF LayerOf, AttentionOf, LlamaAttention, FilledAttention, LlamaPositions, RowsOf, RowsFor, HalfTables, LlamaMask, MaskOf, FitsOf, ScoresOf
<1>2. InputsOf("llama", call) = Embeddings(call)
    BY DEF InputsOf, LearnedPositions
<1>3. \A g : Recursion(g, call, Embeddings(call), Layer) <=> IsPass(g, "llama", call)
    BY <1>1, <1>2 DEF Recursion, IsPass, NextPass
<1>4. \E g : Recursion(g, call, Embeddings(call), Layer)
    BY <1>3, PassExists
<1>5. Through(call, Embeddings(call), Layer) = (CHOOSE g : Recursion(g, call, Embeddings(call), Layer))[Depth]
    BY DEF Through, Recursion
<1>6. IsPass(CHOOSE g : Recursion(g, call, Embeddings(call), Layer), "llama", call)
    BY <1>3, <1>4
<1>7. LlamaForward(call) = LastOf(IF NoMask.made /\ Embeddings(call) # Outside THEN Through(call, Embeddings(call), Layer) ELSE Refused(call))
    BY DEF LlamaForward, Decoded
<1>8. Open("llama", call) <=> NoMask.made /\ Embeddings(call) # Outside
    BY <1>2 DEF Open, Decoding, Families, MaskOf, LlamaMask, NoMask, Mask
<1>9. QED
    BY <1>5, <1>6, <1>7, <1>8 DEF Passes

\* mamba.rs.
LEMMA MambaPass ==
    ASSUME NEW call
    PROVE  Passes(MambaForward(call), "mamba", call)
<1> DEFINE Layer(cells, xs) == MambaLayer(cells, xs, call.offset)
<1>1. \A cells, xs : Layer(cells, xs) = LayerOf("mamba", call, cells, xs)
    BY DEF LayerOf
<1>2. InputsOf("mamba", call) = Embeddings(call)
    BY DEF InputsOf, LearnedPositions
<1>3. \A g : Recursion(g, call, Embeddings(call), Layer) <=> IsPass(g, "mamba", call)
    BY <1>1, <1>2 DEF Recursion, IsPass, NextPass
<1>4. \E g : Recursion(g, call, Embeddings(call), Layer)
    BY <1>3, PassExists
<1>5. Through(call, Embeddings(call), Layer) = (CHOOSE g : Recursion(g, call, Embeddings(call), Layer))[Depth]
    BY DEF Through, Recursion
<1>6. IsPass(CHOOSE g : Recursion(g, call, Embeddings(call), Layer), "mamba", call)
    BY <1>3, <1>4
<1>7. MambaForward(call) = Through(call, Embeddings(call), Layer)
    BY DEF MambaForward
<1>8. QED
    BY <1>5, <1>6, <1>7 DEF Passes, Open, Decoding

\* chatglm.rs.
LEMMA ChatGlmPass ==
    ASSUME NEW call
    PROVE  Passes(ChatGlmForward(call), "chatglm", call)
<1> DEFINE Layer(cells, xs) == ChatGlmAttention(cells, xs, ChatGlmMask(call), call)
<1>1. \A cells, xs : Layer(cells, xs) = LayerOf("chatglm", call, cells, xs)
    BY DEF LayerOf, AttentionOf, ChatGlmAttention, FilledAttention, ChatGlmPositions, RowsOf, RowsFor, HalfTables, ChatGlmMask, MaskOf, FitsOf, ScoresOf
<1>2. InputsOf("chatglm", call) = Embeddings(call)
    BY DEF InputsOf, LearnedPositions
<1>3. \A g : Recursion(g, call, Embeddings(call), Layer) <=> IsPass(g, "chatglm", call)
    BY <1>1, <1>2 DEF Recursion, IsPass, NextPass
<1>4. \E g : Recursion(g, call, Embeddings(call), Layer)
    BY <1>3, PassExists
<1>5. Through(call, Embeddings(call), Layer) = (CHOOSE g : Recursion(g, call, Embeddings(call), Layer))[Depth]
    BY DEF Through, Recursion
<1>6. IsPass(CHOOSE g : Recursion(g, call, Embeddings(call), Layer), "chatglm", call)
    BY <1>3, <1>4
<1>7. ChatGlmForward(call) = IF ChatGlmMask(call).made /\ Embeddings(call) # Outside THEN Through(call, Embeddings(call), Layer) ELSE Refused(call)
    BY DEF ChatGlmForward, Decoded
<1>8. Open("chatglm", call) <=> ChatGlmMask(call).made /\ Embeddings(call) # Outside
    BY <1>2 DEF Open, Decoding, Families, MaskOf, ChatGlmMask
<1>9. QED
    BY <1>5, <1>6, <1>7, <1>8 DEF Passes

\* deepseek2.rs.
LEMMA DeepSeek2Pass ==
    ASSUME NEW call
    PROVE  Passes(DeepSeek2Forward(call), "deepseek2", call)
<1> DEFINE Layer(cells, xs) == DeepSeek2Layer(cells, xs, DeepSeek2Mask(call), call)
<1>1. \A cells, xs : Layer(cells, xs) = LayerOf("deepseek2", call, cells, xs)
    BY DEF LayerOf, AttentionOf, DeepSeek2Attention, DeepSeek2Layer, AddedAttention, DeepSeek2Positions, RowsOf, RowsFor, HalfTables, DeepSeek2Mask, MaskOf, FitsOf, ScoresOf
<1>2. InputsOf("deepseek2", call) = Embeddings(call)
    BY DEF InputsOf, LearnedPositions
<1>3. \A g : Recursion(g, call, Embeddings(call), Layer) <=> IsPass(g, "deepseek2", call)
    BY <1>1, <1>2 DEF Recursion, IsPass, NextPass
<1>4. \E g : Recursion(g, call, Embeddings(call), Layer)
    BY <1>3, PassExists
<1>5. Through(call, Embeddings(call), Layer) = (CHOOSE g : Recursion(g, call, Embeddings(call), Layer))[Depth]
    BY DEF Through, Recursion
<1>6. IsPass(CHOOSE g : Recursion(g, call, Embeddings(call), Layer), "deepseek2", call)
    BY <1>3, <1>4
<1>7. DeepSeek2Forward(call) = IF DeepSeek2Mask(call).made /\ Embeddings(call) # Outside THEN Through(call, Embeddings(call), Layer) ELSE Refused(call)
    BY DEF DeepSeek2Forward, Decoded
<1>8. Open("deepseek2", call) <=> DeepSeek2Mask(call).made /\ Embeddings(call) # Outside
    BY <1>2 DEF Open, Decoding, Families, MaskOf, DeepSeek2Mask
<1>9. QED
    BY <1>5, <1>6, <1>7, <1>8 DEF Passes

\* falcon.rs.
LEMMA FalconPass ==
    ASSUME NEW call
    PROVE  Passes(FalconForward(call), "falcon", call)
<1> DEFINE Layer(cells, xs) == FalconAttention(cells, xs, FalconMask(call), call)
<1>1. \A cells, xs : Layer(cells, xs) = LayerOf("falcon", call, cells, xs)
    BY DEF LayerOf, AttentionOf, FalconAttention, FalconPositions, RowsOf, RowsFor, HalfTables, FalconMask, MaskOf, FitsOf, ScoresOf, ChatGlmMask
<1>2. InputsOf("falcon", call) = Embeddings(call)
    BY DEF InputsOf, LearnedPositions
<1>3. \A g : Recursion(g, call, Embeddings(call), Layer) <=> IsPass(g, "falcon", call)
    BY <1>1, <1>2 DEF Recursion, IsPass, NextPass
<1>4. \E g : Recursion(g, call, Embeddings(call), Layer)
    BY <1>3, PassExists
<1>5. Through(call, Embeddings(call), Layer) = (CHOOSE g : Recursion(g, call, Embeddings(call), Layer))[Depth]
    BY DEF Through, Recursion
<1>6. IsPass(CHOOSE g : Recursion(g, call, Embeddings(call), Layer), "falcon", call)
    BY <1>3, <1>4
<1>7. FalconForward(call) = IF FalconMask(call).made /\ Embeddings(call) # Outside THEN Through(call, Embeddings(call), Layer) ELSE Refused(call)
    BY DEF FalconForward, Decoded
<1>8. Open("falcon", call) <=> FalconMask(call).made /\ Embeddings(call) # Outside
    BY <1>2 DEF Open, Decoding, Families, MaskOf, FalconMask, ChatGlmMask
<1>9. QED
    BY <1>5, <1>6, <1>7, <1>8 DEF Passes

\* phi3.rs.
LEMMA Phi3Pass ==
    ASSUME NEW call
    PROVE  Passes(Phi3Forward(call), "phi3", call)
<1> DEFINE Layer(cells, xs) == Phi3Attention(cells, xs, Phi3Mask(call), call)
<1>1. \A cells, xs : Layer(cells, xs) = LayerOf("phi3", call, cells, xs)
    BY DEF LayerOf, AttentionOf, Phi3Attention, AddedAttention, Phi3Positions, RowsOf, RowsFor, HalfTables, Phi3Mask, MaskOf, FitsOf, ScoresOf
<1>2. InputsOf("phi3", call) = Embeddings(call)
    BY DEF InputsOf, LearnedPositions
<1>3. \A g : Recursion(g, call, Embeddings(call), Layer) <=> IsPass(g, "phi3", call)
    BY <1>1, <1>2 DEF Recursion, IsPass, NextPass
<1>4. \E g : Recursion(g, call, Embeddings(call), Layer)
    BY <1>3, PassExists
<1>5. Through(call, Embeddings(call), Layer) = (CHOOSE g : Recursion(g, call, Embeddings(call), Layer))[Depth]
    BY DEF Through, Recursion
<1>6. IsPass(CHOOSE g : Recursion(g, call, Embeddings(call), Layer), "phi3", call)
    BY <1>3, <1>4
<1>7. Phi3Forward(call) = IF Phi3Mask(call).made /\ Embeddings(call) # Outside THEN Through(call, Embeddings(call), Layer) ELSE Refused(call)
    BY DEF Phi3Forward, Decoded
<1>8. Open("phi3", call) <=> Phi3Mask(call).made /\ Embeddings(call) # Outside
    BY <1>2 DEF Open, Decoding, Families, MaskOf, Phi3Mask
<1>9. QED
    BY <1>5, <1>6, <1>7, <1>8 DEF Passes

\* olmo.rs.
LEMMA OlmoPass ==
    ASSUME NEW call
    PROVE  Passes(OlmoForward(call), "olmo", call)
<1> DEFINE Layer(cells, xs) == OlmoAttention(cells, xs, OlmoMask(call), call)
<1>1. \A cells, xs : Layer(cells, xs) = LayerOf("olmo", call, cells, xs)
    BY DEF LayerOf, AttentionOf, OlmoAttention, AddedAttention, RowsOf, RowsFor, HalfTables, OlmoMask, MaskOf, FitsOf, ScoresOf
<1>2. InputsOf("olmo", call) = Embedded(call, OlmoPositions(call))
    BY DEF InputsOf, LearnedPositions, OlmoPositions, RowsOf, RowsFor, HalfTables
<1>3. \A g : Recursion(g, call, Embedded(call, OlmoPositions(call)), Layer) <=> IsPass(g, "olmo", call)
    BY <1>1, <1>2 DEF Recursion, IsPass, NextPass
<1>4. \E g : Recursion(g, call, Embedded(call, OlmoPositions(call)), Layer)
    BY <1>3, PassExists
<1>5. Through(call, Embedded(call, OlmoPositions(call)), Layer) = (CHOOSE g : Recursion(g, call, Embedded(call, OlmoPositions(call)), Layer))[Depth]
    BY DEF Through, Recursion
<1>6. IsPass(CHOOSE g : Recursion(g, call, Embedded(call, OlmoPositions(call)), Layer), "olmo", call)
    BY <1>3, <1>4
<1>7. OlmoForward(call) = IF OlmoMask(call).made /\ Embedded(call, OlmoPositions(call)) # Outside THEN Through(call, Embedded(call, OlmoPositions(call)), Layer) ELSE Refused(call)
    BY DEF OlmoForward, Decoded
<1>8. Open("olmo", call) <=> OlmoMask(call).made /\ Embedded(call, OlmoPositions(call)) # Outside
    BY <1>2 DEF Open, Decoding, Families, MaskOf, OlmoMask
<1>9. QED
    BY <1>5, <1>6, <1>7, <1>8 DEF Passes

\* qwen2.rs.
LEMMA Qwen2Pass ==
    ASSUME NEW call
    PROVE  Passes(Qwen2Forward(call), "qwen2", call)
<1> DEFINE Layer(cells, xs) == Qwen2Attention(cells, xs, Qwen2Mask(call), call)
<1>1. \A cells, xs : Layer(cells, xs) = LayerOf("qwen2", call, cells, xs)
    BY DEF LayerOf, AttentionOf, Qwen2Attention, AddedAttention, Qwen2Positions, RowsOf, RowsFor, HalfTables, Qwen2Mask, MaskOf, FitsOf, ScoresOf
<1>2. InputsOf("qwen2", call) = Embeddings(call)
    BY DEF InputsOf, LearnedPositions
<1>3. \A g : Recursion(g, call, Embeddings(call), Layer) <=> IsPass(g, "qwen2", call)
    BY <1>1, <1>2 DEF Recursion, IsPass, NextPass
<1>4. \E g : Recursion(g, call, Embeddings(call), Layer)
    BY <1>3, PassExists
<1>5. Through(call, Embeddings(call), Layer) = (CHOOSE g : Recursion(g, call, Embeddings(call), Layer))[Depth]
    BY DEF Through, Recursion
<1>6. IsPass(CHOOSE g : Recursion(g, call, Embeddings(call), Layer), "qwen2", call)
    BY <1>3, <1>4
<1>7. Qwen2Forward(call) = IF Qwen2Mask(call).made /\ Embeddings(call) # Outside THEN Through(call, Embeddings(call), Layer) ELSE Refused(call)
    BY DEF Qwen2Forward, Decoded
<1>8. Open("qwen2", call) <=> Qwen2Mask(call).made /\ Embeddings(call) # Outside
    BY <1>2 DEF Open, Decoding, Families, MaskOf, Qwen2Mask
<1>9. QED
    BY <1>5, <1>6, <1>7, <1>8 DEF Passes

\* qwen3.rs.
LEMMA Qwen3Pass ==
    ASSUME NEW call
    PROVE  Passes(Qwen3Forward(call), "qwen3", call)
<1> DEFINE Layer(cells, xs) == Qwen3Attention(cells, xs, Qwen3Mask(call), call)
<1>1. \A cells, xs : Layer(cells, xs) = LayerOf("qwen3", call, cells, xs)
    BY DEF LayerOf, AttentionOf, Qwen3Attention, AddedAttention, Qwen3Positions, RowsOf, RowsFor, HalfTables, Qwen3Mask, MaskOf, FitsOf, ScoresOf
<1>2. InputsOf("qwen3", call) = Embeddings(call)
    BY DEF InputsOf, LearnedPositions
<1>3. \A g : Recursion(g, call, Embeddings(call), Layer) <=> IsPass(g, "qwen3", call)
    BY <1>1, <1>2 DEF Recursion, IsPass, NextPass
<1>4. \E g : Recursion(g, call, Embeddings(call), Layer)
    BY <1>3, PassExists
<1>5. Through(call, Embeddings(call), Layer) = (CHOOSE g : Recursion(g, call, Embeddings(call), Layer))[Depth]
    BY DEF Through, Recursion
<1>6. IsPass(CHOOSE g : Recursion(g, call, Embeddings(call), Layer), "qwen3", call)
    BY <1>3, <1>4
<1>7. Qwen3Forward(call) = IF Qwen3Mask(call).made /\ Embeddings(call) # Outside THEN Through(call, Embeddings(call), Layer) ELSE Refused(call)
    BY DEF Qwen3Forward, Decoded
<1>8. Open("qwen3", call) <=> Qwen3Mask(call).made /\ Embeddings(call) # Outside
    BY <1>2 DEF Open, Decoding, Families, MaskOf, Qwen3Mask
<1>9. QED
    BY <1>5, <1>6, <1>7, <1>8 DEF Passes

\* stable_lm.rs.
LEMMA StableLmPass ==
    ASSUME NEW call
    PROVE  Passes(StableLmForward(call), "stable_lm", call)
<1> DEFINE Layer(cells, xs) == StableLmAttention(cells, xs, StableLmMask(call), call)
<1>1. \A cells, xs : Layer(cells, xs) = LayerOf("stable_lm", call, cells, xs)
    BY DEF LayerOf, AttentionOf, StableLmAttention, AddedAttention, StableLmPositions, RowsOf, RowsFor, HalfTables, StableLmMask, MaskOf, FitsOf, ScoresOf
<1>2. InputsOf("stable_lm", call) = Embeddings(call)
    BY DEF InputsOf, LearnedPositions
<1>3. \A g : Recursion(g, call, Embeddings(call), Layer) <=> IsPass(g, "stable_lm", call)
    BY <1>1, <1>2 DEF Recursion, IsPass, NextPass
<1>4. \E g : Recursion(g, call, Embeddings(call), Layer)
    BY <1>3, PassExists
<1>5. Through(call, Embeddings(call), Layer) = (CHOOSE g : Recursion(g, call, Embeddings(call), Layer))[Depth]
    BY DEF Through, Recursion
<1>6. IsPass(CHOOSE g : Recursion(g, call, Embeddings(call), Layer), "stable_lm", call)
    BY <1>3, <1>4
<1>7. StableLmForward(call) = IF StableLmMask(call).made /\ Embeddings(call) # Outside THEN Through(call, Embeddings(call), Layer) ELSE Refused(call)
    BY DEF StableLmForward, Decoded
<1>8. Open("stable_lm", call) <=> StableLmMask(call).made /\ Embeddings(call) # Outside
    BY <1>2 DEF Open, Decoding, Families, MaskOf, StableLmMask
<1>9. QED
    BY <1>5, <1>6, <1>7, <1>8 DEF Passes

\* starcoder2.rs.
LEMMA Starcoder2Pass ==
    ASSUME NEW call
    PROVE  Passes(Starcoder2Forward(call), "starcoder2", call)
<1> DEFINE Layer(cells, xs) == Starcoder2Attention(cells, xs, Starcoder2Mask(call), call)
<1>1. \A cells, xs : Layer(cells, xs) = LayerOf("starcoder2", call, cells, xs)
    BY DEF LayerOf, AttentionOf, Starcoder2Attention, AddedAttention, Starcoder2Positions, RowsOf, RowsFor, HalfTables, Starcoder2Mask, MaskOf, FitsOf, ScoresOf
<1>2. InputsOf("starcoder2", call) = Embeddings(call)
    BY DEF InputsOf, LearnedPositions
<1>3. \A g : Recursion(g, call, Embeddings(call), Layer) <=> IsPass(g, "starcoder2", call)
    BY <1>1, <1>2 DEF Recursion, IsPass, NextPass
<1>4. \E g : Recursion(g, call, Embeddings(call), Layer)
    BY <1>3, PassExists
<1>5. Through(call, Embeddings(call), Layer) = (CHOOSE g : Recursion(g, call, Embeddings(call), Layer))[Depth]
    BY DEF Through, Recursion
<1>6. IsPass(CHOOSE g : Recursion(g, call, Embeddings(call), Layer), "starcoder2", call)
    BY <1>3, <1>4
<1>7. Starcoder2Forward(call) = IF Starcoder2Mask(call).made /\ Embeddings(call) # Outside THEN Through(call, Embeddings(call), Layer) ELSE Refused(call)
    BY DEF Starcoder2Forward, Decoded
<1>8. Open("starcoder2", call) <=> Starcoder2Mask(call).made /\ Embeddings(call) # Outside
    BY <1>2 DEF Open, Decoding, Families, MaskOf, Starcoder2Mask
<1>9. QED
    BY <1>5, <1>6, <1>7, <1>8 DEF Passes

\* gpt2.rs.
LEMMA Gpt2Pass ==
    ASSUME NEW call
    PROVE  Passes(Gpt2Forward(call), "gpt2", call)
<1> DEFINE Layer(cells, xs) == Gpt2Attention(cells, xs, Gpt2Mask(call), call)
<1>1. \A cells, xs : Layer(cells, xs) = LayerOf("gpt2", call, cells, xs)
    BY DEF LayerOf, AttentionOf, Gpt2Attention, AddedAttention, RowsOf, RowsFor, HalfTables, Gpt2Mask, MaskOf, FitsOf, ScoresOf
<1>2. InputsOf("gpt2", call) = Embedded(call, Gpt2Positions(call))
    BY DEF InputsOf, LearnedPositions, Gpt2Positions, RowsOf, RowsFor, HalfTables
<1>3. \A g : Recursion(g, call, Embedded(call, Gpt2Positions(call)), Layer) <=> IsPass(g, "gpt2", call)
    BY <1>1, <1>2 DEF Recursion, IsPass, NextPass
<1>4. \E g : Recursion(g, call, Embedded(call, Gpt2Positions(call)), Layer)
    BY <1>3, PassExists
<1>5. Through(call, Embedded(call, Gpt2Positions(call)), Layer) = (CHOOSE g : Recursion(g, call, Embedded(call, Gpt2Positions(call)), Layer))[Depth]
    BY DEF Through, Recursion
<1>6. IsPass(CHOOSE g : Recursion(g, call, Embedded(call, Gpt2Positions(call)), Layer), "gpt2", call)
    BY <1>3, <1>4
<1>7. Gpt2Forward(call) = IF Gpt2Mask(call).made /\ Embedded(call, Gpt2Positions(call)) # Outside THEN Through(call, Embedded(call, Gpt2Positions(call)), Layer) ELSE Refused(call)
    BY DEF Gpt2Forward, Decoded
<1>8. Open("gpt2", call) <=> Gpt2Mask(call).made /\ Embedded(call, Gpt2Positions(call)) # Outside
    BY <1>2 DEF Open, Decoding, Families, MaskOf, Gpt2Mask
<1>9. QED
    BY <1>5, <1>6, <1>7, <1>8 DEF Passes

\* gemma3.rs.
LEMMA Gemma3Pass ==
    ASSUME NEW call
    PROVE  Passes(Gemma3Forward(call), "gemma3", call)
<1> DEFINE Layer(cells, xs) == Gemma3Attention(cells, xs, Gemma3Mask(call), call)
<1>1. \A cells, xs : Layer(cells, xs) = LayerOf("gemma3", call, cells, xs)
    BY DEF LayerOf, AttentionOf, Gemma3Attention, AddedAttention, Gemma3Positions, RowsOf, RowsFor, HalfTables, Gemma3Mask, MaskOf, FitsOf, ScoresOf
<1>2. InputsOf("gemma3", call) = Embeddings(call)
    BY DEF InputsOf, LearnedPositions
<1>3. \A g : Recursion(g, call, Embeddings(call), Layer) <=> IsPass(g, "gemma3", call)
    BY <1>1, <1>2 DEF Recursion, IsPass, NextPass
<1>4. \E g : Recursion(g, call, Embeddings(call), Layer)
    BY <1>3, PassExists
<1>5. Through(call, Embeddings(call), Layer) = (CHOOSE g : Recursion(g, call, Embeddings(call), Layer))[Depth]
    BY DEF Through, Recursion
<1>6. IsPass(CHOOSE g : Recursion(g, call, Embeddings(call), Layer), "gemma3", call)
    BY <1>3, <1>4
<1>7. Gemma3Forward(call) = IF Gemma3Mask(call).made /\ Embeddings(call) # Outside THEN Through(call, Embeddings(call), Layer) ELSE Refused(call)
    BY DEF Gemma3Forward, Decoded
<1>8. Open("gemma3", call) <=> Gemma3Mask(call).made /\ Embeddings(call) # Outside
    BY <1>2 DEF Open, Decoding, Families, MaskOf, Gemma3Mask
<1>9. QED
    BY <1>5, <1>6, <1>7, <1>8 DEF Passes

\* glm4.rs.
LEMMA Glm4Pass ==
    ASSUME NEW call
    PROVE  Passes(Glm4Forward(call), "glm4", call)
<1> DEFINE Layer(cells, xs) == Glm4Attention(cells, xs, Glm4Mask(call), call)
<1>1. \A cells, xs : Layer(cells, xs) = LayerOf("glm4", call, cells, xs)
    BY DEF LayerOf, AttentionOf, Glm4Attention, FilledAttention, Glm4Positions, RowsOf, RowsFor, HalfTables, Glm4Mask, MaskOf, FitsOf, ScoresOf, ChatGlmMask
<1>2. InputsOf("glm4", call) = Embeddings(call)
    BY DEF InputsOf, LearnedPositions
<1>3. \A g : Recursion(g, call, Embeddings(call), Layer) <=> IsPass(g, "glm4", call)
    BY <1>1, <1>2 DEF Recursion, IsPass, NextPass
<1>4. \E g : Recursion(g, call, Embeddings(call), Layer)
    BY <1>3, PassExists
<1>5. Through(call, Embeddings(call), Layer) = (CHOOSE g : Recursion(g, call, Embeddings(call), Layer))[Depth]
    BY DEF Through, Recursion
<1>6. IsPass(CHOOSE g : Recursion(g, call, Embeddings(call), Layer), "glm4", call)
    BY <1>3, <1>4
<1>7. Glm4Forward(call) = IF Glm4Mask(call).made /\ Embeddings(call) # Outside THEN Through(call, Embeddings(call), Layer) ELSE Refused(call)
    BY DEF Glm4Forward, Decoded
<1>8. Open("glm4", call) <=> Glm4Mask(call).made /\ Embeddings(call) # Outside
    BY <1>2 DEF Open, Decoding, Families, MaskOf, Glm4Mask, ChatGlmMask
<1>9. QED
    BY <1>5, <1>6, <1>7, <1>8 DEF Passes

\* granite.rs.
LEMMA GranitePass ==
    ASSUME NEW call
    PROVE  Passes(GraniteForward(call), "granite", call)
<1> DEFINE Layer(cells, xs) == GraniteAttention(cells, xs, GraniteMask(call), call)
<1>1. \A cells, xs : Layer(cells, xs) = LayerOf("granite", call, cells, xs)
    BY DEF LayerOf, AttentionOf, GraniteAttention, AddedAttention, GranitePositions, RowsOf, RowsFor, HalfTables, GraniteMask, MaskOf, FitsOf, ScoresOf
<1>2. InputsOf("granite", call) = Embeddings(call)
    BY DEF InputsOf, LearnedPositions
<1>3. \A g : Recursion(g, call, Embeddings(call), Layer) <=> IsPass(g, "granite", call)
    BY <1>1, <1>2 DEF Recursion, IsPass, NextPass
<1>4. \E g : Recursion(g, call, Embeddings(call), Layer)
    BY <1>3, PassExists
<1>5. Through(call, Embeddings(call), Layer) = (CHOOSE g : Recursion(g, call, Embeddings(call), Layer))[Depth]
    BY DEF Through, Recursion
<1>6. IsPass(CHOOSE g : Recursion(g, call, Embeddings(call), Layer), "granite", call)
    BY <1>3, <1>4
<1>7. GraniteForward(call) = IF GraniteMask(call).made /\ Embeddings(call) # Outside THEN Through(call, Embeddings(call), Layer) ELSE Refused(call)
    BY DEF GraniteForward, Decoded
<1>8. Open("granite", call) <=> GraniteMask(call).made /\ Embeddings(call) # Outside
    BY <1>2 DEF Open, Decoding, Families, MaskOf, GraniteMask
<1>9. QED
    BY <1>5, <1>6, <1>7, <1>8 DEF Passes

\* granite_moe.rs.
LEMMA GraniteMoePass ==
    ASSUME NEW call
    PROVE  Passes(GraniteMoeForward(call), "granite_moe", call)
<1> DEFINE Layer(cells, xs) == GraniteMoeLayer(cells, xs, GraniteMoeMask(call), call)
<1>1. \A cells, xs : Layer(cells, xs) = LayerOf("granite_moe", call, cells, xs)
    BY DEF LayerOf, AttentionOf, GraniteMoeAttention, GraniteMoeLayer, AddedAttention, GraniteMoePositions, RowsOf, RowsFor, HalfTables, GraniteMoeMask, MaskOf, FitsOf, ScoresOf
<1>2. InputsOf("granite_moe", call) = Embeddings(call)
    BY DEF InputsOf, LearnedPositions
<1>3. \A g : Recursion(g, call, Embeddings(call), Layer) <=> IsPass(g, "granite_moe", call)
    BY <1>1, <1>2 DEF Recursion, IsPass, NextPass
<1>4. \E g : Recursion(g, call, Embeddings(call), Layer)
    BY <1>3, PassExists
<1>5. Through(call, Embeddings(call), Layer) = (CHOOSE g : Recursion(g, call, Embeddings(call), Layer))[Depth]
    BY DEF Through, Recursion
<1>6. IsPass(CHOOSE g : Recursion(g, call, Embeddings(call), Layer), "granite_moe", call)
    BY <1>3, <1>4
<1>7. GraniteMoeForward(call) = IF GraniteMoeMask(call).made /\ Embeddings(call) # Outside THEN Through(call, Embeddings(call), Layer) ELSE Refused(call)
    BY DEF GraniteMoeForward, Decoded
<1>8. Open("granite_moe", call) <=> GraniteMoeMask(call).made /\ Embeddings(call) # Outside
    BY <1>2 DEF Open, Decoding, Families, MaskOf, GraniteMoeMask
<1>9. QED
    BY <1>5, <1>6, <1>7, <1>8 DEF Passes

\* bloom.rs.
LEMMA BloomPass ==
    ASSUME NEW call
    PROVE  Passes(BloomForward(call), "bloom", call)
<1> DEFINE Layer(cells, xs) == BloomAttention(cells, xs, BloomMask(call), call)
<1>1. \A cells, xs : Layer(cells, xs) = LayerOf("bloom", call, cells, xs)
    BY DEF LayerOf, AttentionOf, BloomAttention, AddedAttention, RowsOf, RowsFor, HalfTables, BloomMask, MaskOf, FitsOf, ScoresOf
<1>2. InputsOf("bloom", call) = Embeddings(call)
    BY DEF InputsOf, LearnedPositions
<1>3. \A g : Recursion(g, call, Embeddings(call), Layer) <=> IsPass(g, "bloom", call)
    BY <1>1, <1>2 DEF Recursion, IsPass, NextPass
<1>4. \E g : Recursion(g, call, Embeddings(call), Layer)
    BY <1>3, PassExists
<1>5. Through(call, Embeddings(call), Layer) = (CHOOSE g : Recursion(g, call, Embeddings(call), Layer))[Depth]
    BY DEF Through, Recursion
<1>6. IsPass(CHOOSE g : Recursion(g, call, Embeddings(call), Layer), "bloom", call)
    BY <1>3, <1>4
<1>7. BloomForward(call) = IF BloomMask(call).made /\ Embeddings(call) # Outside THEN Through(call, Embeddings(call), Layer) ELSE Refused(call)
    BY DEF BloomForward, Decoded
<1>8. Open("bloom", call) <=> BloomMask(call).made /\ Embeddings(call) # Outside
    BY <1>2 DEF Open, Decoding, Families, MaskOf, BloomMask
<1>9. QED
    BY <1>5, <1>6, <1>7, <1>8 DEF Passes

\* mamba2.rs.
LEMMA Mamba2Pass ==
    ASSUME NEW call
    PROVE  Passes(Mamba2Forward(call), "mamba2", call)
<1> DEFINE Layer(cells, xs) == Mamba2Layer(cells, xs)
<1>1. \A cells, xs : Layer(cells, xs) = LayerOf("mamba2", call, cells, xs)
    BY DEF LayerOf
<1>2. InputsOf("mamba2", call) = Embeddings(call)
    BY DEF InputsOf, LearnedPositions
<1>3. \A g : Recursion(g, call, Embeddings(call), Layer) <=> IsPass(g, "mamba2", call)
    BY <1>1, <1>2 DEF Recursion, IsPass, NextPass
<1>4. \E g : Recursion(g, call, Embeddings(call), Layer)
    BY <1>3, PassExists
<1>5. Through(call, Embeddings(call), Layer) = (CHOOSE g : Recursion(g, call, Embeddings(call), Layer))[Depth]
    BY DEF Through, Recursion
<1>6. IsPass(CHOOSE g : Recursion(g, call, Embeddings(call), Layer), "mamba2", call)
    BY <1>3, <1>4
<1>7. Mamba2Forward(call) = Through(call, Embeddings(call), Layer)
    BY DEF Mamba2Forward, Through
<1>8. QED
    BY <1>5, <1>6, <1>7 DEF Passes, Open, Decoding

\* rwkv6.rs.
LEMMA Rwkv6Pass ==
    ASSUME NEW call
    PROVE  Passes(Rwkv6Forward(call), "rwkv6", call)
<1> DEFINE Layer(cells, xs) == Rwkv6Block(cells, xs, call.type)
<1>1. \A cells, xs : Layer(cells, xs) = LayerOf("rwkv6", call, cells, xs)
    BY DEF LayerOf
<1>2. InputsOf("rwkv6", call) = Embeddings(call)
    BY DEF InputsOf, LearnedPositions
<1>3. \A g : Recursion(g, call, Embeddings(call), Layer) <=> IsPass(g, "rwkv6", call)
    BY <1>1, <1>2 DEF Recursion, IsPass, NextPass
<1>4. \E g : Recursion(g, call, Embeddings(call), Layer)
    BY <1>3, PassExists
<1>5. Through(call, Embeddings(call), Layer) = (CHOOSE g : Recursion(g, call, Embeddings(call), Layer))[Depth]
    BY DEF Through, Recursion
<1>6. IsPass(CHOOSE g : Recursion(g, call, Embeddings(call), Layer), "rwkv6", call)
    BY <1>3, <1>4
<1>7. Rwkv6Forward(call) = Through(call, Embeddings(call), Layer)
    BY DEF Rwkv6Forward
<1>8. QED
    BY <1>5, <1>6, <1>7 DEF Passes, Open, Decoding

\* The forward pass of the registry, whichever family it dispatches to.
LEMMA ForwardPass ==
    ASSUME NEW f \in Families, NEW call
    PROVE  \E pass : Passes(pass, f, call) /\ Forward(f, call) = LastOf(pass)
<1>1. CASE f = "llama"
    BY <1>1, LlamaPass DEF Forward, LlamaForCausalLM
<1>2. CASE f = "mamba"
    BY <1>2, MambaPass DEF Forward, MambaForCausalLM
<1>3. CASE f = "chatglm"
    BY <1>3, ChatGlmPass DEF Forward, ChatGlmForCausalLM
<1>4. CASE f = "deepseek2"
    BY <1>4, DeepSeek2Pass DEF Forward, DeepSeek2ForCausalLM
<1>5. CASE f = "falcon"
    BY <1>5, FalconPass DEF Forward, FalconForCausalLM
<1>6. CASE f = "phi3"
    BY <1>6, Phi3Pass DEF Forward, Phi3ForCausalLM
<1>7. CASE f = "olmo"
    BY <1>7, OlmoPass DEF Forward, OlmoForCausalLM
<1>8. CASE f = "qwen2"
    BY <1>8, Qwen2Pass DEF Forward, Qwen2ForCausalLM
<1>9. CASE f = "qwen3"
    BY <1>9, Qwen3Pass DEF Forward, Qwen3ForCausalLM
<1>10. CASE f = "stable_lm"
    BY <1>10, StableLmPass DEF Forward, StableLmForCausalLM
<1>11. CASE f = "starcoder2"
    BY <1>11, Starcoder2Pass DEF Forward, Starcoder2ForCausalLM
<1>12. CASE f = "gpt2"
    BY <1>12, Gpt2Pass DEF Forward, Gpt2ForCausalLM
<1>13. CASE f = "gemma3"
    BY <1>13, Gemma3Pass DEF Forward, Gemma3ForCausalLM
<1>14. CASE f = "glm4"
    BY <1>14, Glm4Pass DEF Forward, Glm4ForCausalLM
<1>15. CASE f = "granite"
    BY <1>15, GranitePass DEF Forward, GraniteForCausalLM
<1>16. CASE f = "granite_moe"
    BY <1>16, GraniteMoePass DEF Forward, GraniteMoeForCausalLM
<1>17. CASE f = "bloom"
    BY <1>17, BloomPass DEF Forward, BloomForCausalLM
<1>18. CASE f = "mamba2"
    BY <1>18, Mamba2Pass DEF Forward, Mamba2ForCausalLM
<1>19. CASE f = "rwkv6"
    BY <1>19, Rwkv6Pass DEF Forward, Rwkv6ForCausalLM
<1>20. QED
    BY <1>1, <1>2, <1>3, <1>4, <1>5, <1>6, <1>7, <1>8, <1>9, <1>10,
       <1>11, <1>12, <1>13, <1>14, <1>15, <1>16, <1>17, <1>18, <1>19 DEF Families

(***************************************************************************)
(* What a pass makes of the sizes of caches, and which passes are accepted *)
(***************************************************************************)
\* The hidden states and caches a pass begins with.
LEMMA PassFirst ==
    ASSUME NEW f, NEW call, NEW g, IsPass(g, f, call)
    PROVE  g[0] = [ok |-> TRUE, layers |-> call.layers, xs |-> InputsOf(f, call)]
BY TensorsAssumption DEF IsPass

\* Each layer goes on from the one before it.
LEMMA PassNext ==
    ASSUME NEW f, NEW call, NEW g, IsPass(g, f, call), NEW l \in Nat, l < Depth
    PROVE  g[l + 1] = NextPass(f, call, l + 1, g[l])
<1>1. l + 1 \in 0..Depth /\ (l + 1) - 1 = l /\ l + 1 # 0
    BY TensorsAssumption
<1>2. \A k \in 0..Depth : g[k] = IF k = 0 THEN [ok |-> TRUE, layers |-> call.layers, xs |-> InputsOf(f, call)]
                                 ELSE NextPass(f, call, k, g[k - 1])
    BY DEF IsPass
<1>3. QED
    BY <1>1, <1>2

\* After every layer there is a record with a list of caches.
IsRecord(r) == r = [ok |-> r.ok, layers |-> r.layers, xs |-> r.xs] /\ IsList(r.layers, Depth)

\* Whatever the layers do, a pass never loses or gains a cache.
LEMMA PassRecord ==
    ASSUME NEW f, NEW call, NEW g, IsPass(g, f, call), IsList(call.layers, Depth)
    PROVE  \A l \in 0..Depth : IsRecord(g[l])
<1> DEFINE S == {l \in 0..Depth : IsRecord(g[l])}
<1>1. IsRecord(g[0])
    <2>1. g[0] = [ok |-> TRUE, layers |-> call.layers, xs |-> InputsOf(f, call)]
        BY PassFirst
    <2>2. QED
        BY <2>1 DEF IsRecord
<1>2. ASSUME NEW l \in Nat, l < Depth, IsRecord(g[l])
      PROVE  IsRecord(g[l + 1])
    <2>1. g[l + 1] = NextPass(f, call, l + 1, g[l])
        BY <1>2, PassNext
    <2>2. CASE ~g[l].ok
        BY <1>2, <2>1, <2>2 DEF NextPass
    <2>3. CASE g[l].ok
        <3>1. PICK layer : g[l + 1] = [ok |-> layer.ok, layers |-> [g[l].layers EXCEPT ![l + 1] = layer.cells],
                                       xs |-> layer.xs]
            BY <2>1, <2>3 DEF NextPass
        <3>2. IsList([g[l].layers EXCEPT ![l + 1] = layer.cells], Depth)
            BY <1>2 DEF IsList, IsRecord
        <3>3. QED
            BY <3>1, <3>2 DEF IsRecord
    <2>4. QED
        BY <2>2, <2>3
<1>3. 0 \in S /\ \A l \in Nat : l < Depth /\ l \in S => l + 1 \in S
    BY <1>1, <1>2, TensorsAssumption
<1>4. \A l \in 0..Depth : l \in S
    BY <1>3, UpTo, TensorsAssumption
<1>5. QED
    BY <1>4

\* The cells of a layer are known after its own pass.
LEMMA PassOne ==
    ASSUME NEW f, NEW call, NEW g, IsPass(g, f, call), IsList(call.layers, Depth),
           NEW l \in Nat, l < Depth, g[l].ok
    PROVE  LET layer == LayerOf(f, call, g[l].layers[l + 1], g[l].xs)
           IN  /\ g[l + 1].ok = layer.ok
               /\ g[l + 1].xs = layer.xs
               /\ g[l + 1].layers[l + 1] = layer.cells
               /\ \A k \in 1..Depth : k # l + 1 => g[l + 1].layers[k] = g[l].layers[k]
<1>1. g[l + 1] = NextPass(f, call, l + 1, g[l]) /\ IsList(g[l].layers, Depth)
    <2>1. l \in 0..Depth
        BY TensorsAssumption
    <2>2. g[l + 1] = NextPass(f, call, l + 1, g[l])
        BY PassNext
    <2>3. IsRecord(g[l])
        BY <2>1, PassRecord
    <2>4. QED
        BY <2>2, <2>3 DEF IsRecord
<1>2. l + 1 \in 1..Depth
    BY TensorsAssumption
<1> DEFINE layer == LayerOf(f, call, g[l].layers[l + 1], g[l].xs)
<1>3. g[l + 1] = [ok |-> layer.ok, layers |-> [g[l].layers EXCEPT ![l + 1] = layer.cells], xs |-> layer.xs]
    BY <1>1 DEF NextPass
<1> HIDE DEF layer
<1>4. DOMAIN g[l].layers = 1..Depth
    BY <1>1 DEF IsList
<1>5. /\ g[l + 1].ok = layer.ok
      /\ g[l + 1].xs = layer.xs
      /\ g[l + 1].layers = [g[l].layers EXCEPT ![l + 1] = layer.cells]
    BY <1>3
<1>6. QED
    BY <1>2, <1>4, <1>5 DEF layer

\* A pass that failed at a layer stays so.
LEMMA PassOk ==
    ASSUME NEW f, NEW call, NEW g, IsPass(g, f, call), IsList(call.layers, Depth), g[Depth].ok
    PROVE  \A l \in 0..Depth : g[l].ok
<1> DEFINE S == {n \in Nat : n <= Depth => g[Depth - n].ok}
<1>1. 0 \in S
    BY TensorsAssumption
<1>2. ASSUME NEW n \in Nat, n \in S
      PROVE  n + 1 \in S
    <2>1. SUFFICES ASSUME n + 1 <= Depth PROVE g[Depth - (n + 1)].ok
        OBVIOUS
    <2>2. Depth - (n + 1) \in Nat /\ Depth - (n + 1) < Depth /\ (Depth - (n + 1)) + 1 = Depth - n
        BY <2>1, TensorsAssumption
    <2>3. g[Depth - n] = NextPass(f, call, Depth - n, g[Depth - (n + 1)])
        <3>1. g[(Depth - (n + 1)) + 1] = NextPass(f, call, (Depth - (n + 1)) + 1, g[Depth - (n + 1)])
            BY <2>2, PassNext
        <3>2. QED
            BY <2>2, <3>1
    <2>4. g[Depth - n].ok
        BY <1>2, <2>1, TensorsAssumption
    <2>5. QED
        BY <2>3, <2>4 DEF NextPass
<1>3. Nat \subseteq S
    <2> HIDE DEF S
    <2>1. QED
        BY <1>1, <1>2, NatSet
<1>4. QED
    <2>1. TAKE l \in 0..Depth
    <2>2. Depth - l \in S /\ Depth - l <= Depth /\ Depth - (Depth - l) = l
        BY <1>3, TensorsAssumption
    <2>3. QED
        BY <2>2

\* A call a command makes.
CallOK(call) ==
    /\ IsList(call.layers, Depth)
    /\ call.tokens \in Seq(Token)
    /\ Len(call.tokens) \in Nat /\ Len(call.tokens) # 0
    /\ call.offset \in Nat
    /\ call.type \in NumberType

\* The calls of the commands are such calls, with the fields they were given.
LEMMA CallFields ==
    ASSUME NEW from, IsList(from, Depth), NEW tokens \in Seq(Token), tokens # <<>>,
           NEW at \in Nat, NEW number \in NumberType
    PROVE  LET call == Call(from, tokens, at, number)
           IN  /\ CallOK(call)
               /\ call.layers = from /\ call.tokens = tokens /\ call.offset = at /\ call.type = number
               /\ Width(call) = Len(tokens)
<1>1. Len(tokens) \in Nat /\ Len(tokens) # 0
    BY EmptySeq
<1>2. QED
    BY <1>1 DEF CallOK, Call, Width

\* A table is left when the last of the new rows is not one of its.
LEMMA RowsInside ==
    ASSUME NEW call, CallOK(call), NEW rows \in Nat, NEW table, DOMAIN table = 0..(rows - 1)
    PROVE  /\ Rows(call, table) # Outside <=> call.offset + Width(call) <= rows
           /\ call.offset + Width(call) <= rows =>
                  Rows(call, table) = [i \in 1..Width(call) |-> <<table[call.offset + i - 1]>>]
<1>1. Width(call) \in Nat /\ Width(call) # 0 /\ call.offset \in Nat
    BY DEF CallOK, Width
<1>2. call.offset + Width(call) - 1 \in DOMAIN table <=> call.offset + Width(call) <= rows
    BY <1>1
<1>3. [i \in 1..Width(call) |-> <<table[call.offset + i - 1]>>] # <<>>
    <2>1. 1 \in 1..Width(call)
        BY <1>1
    <2>2. QED
        BY <2>1
<1>4. QED
    BY <1>2, <1>3 DEF Rows, Outside

\* The place of new token i: what a family's attention is given for it.
Place(f, call, i) ==
    IF f \in LearnedPositions \cup NoPositions THEN <<>>
    ELSE <<IF f \in HalfTables THEN Converted(call.offset + i - 1, call.type)
           ELSE call.offset + i - 1>>

\* Every table has a number of rows.
LEMMA RowsForType == \A f : RowsFor(f) \in Nat
BY TensorsAssumption, DecodersAssumption DEF RowsFor

\* The rows of a position table are there exactly while the call stays inside it.
LEMMA RowsOfFamily ==
    ASSUME NEW f \in Decoding, NEW call, CallOK(call)
    PROVE  /\ RowsOf(f, call) # Outside <=>
                  f \in LearnedPositions \cup NoPositions \/ call.offset + Width(call) <= RowsFor(f)
           /\ RowsOf(f, call) # Outside => RowsOf(f, call) = [i \in 1..Width(call) |-> Place(f, call, i)]
<1>1. RowsFor(f) \in Nat /\ Width(call) \in Nat /\ Width(call) # 0 /\ call.offset \in Nat
    BY RowsForType DEF CallOK, Width
<1>2. CASE f \in LearnedPositions \cup NoPositions
    <2>1. RowsOf(f, call) = [i \in 1..Width(call) |-> <<>>]
        <3>1. f \in {"olmo", "gpt2", "bloom"} /\ f \notin HalfTables
            BY <1>2 DEF LearnedPositions, NoPositions, HalfTables
        <3>2. QED
            BY <3>1 DEF RowsOf, Unplaced
    <2>2. 1 \in 1..Width(call)
        BY <1>1
    <2>3. RowsOf(f, call) # <<>>
        BY <2>1, <2>2
    <2>4. \A i \in 1..Width(call) : Place(f, call, i) = <<>>
        BY <1>2 DEF Place
    <2>5. QED
        BY <1>2, <2>1, <2>3, <2>4 DEF Outside
<1>3. CASE f \in HalfTables
    <2> DEFINE table == [p \in 0..(RowsFor(f) - 1) |-> Converted(p, call.type)]
    <2>1. RowsOf(f, call) = Rows(call, table)
        BY <1>3 DEF RowsOf, ModelRows, HalfTables
    <2>2. DOMAIN table = 0..(RowsFor(f) - 1)
        OBVIOUS
    <2>3. f \notin LearnedPositions \cup NoPositions
        BY <1>3 DEF HalfTables, LearnedPositions, NoPositions
    <2>4. ASSUME call.offset + Width(call) <= RowsFor(f), NEW i \in 1..Width(call)
          PROVE  <<table[call.offset + i - 1]>> = Place(f, call, i)
        <3>1. call.offset + i - 1 \in 0..(RowsFor(f) - 1)
            BY <1>1, <2>4
        <3>2. QED
            BY <1>3, <2>3, <3>1 DEF Place
    <2> HIDE DEF table
    <2>5. Rows(call, table) # Outside <=> call.offset + Width(call) <= RowsFor(f)
        BY <1>1, <2>2, RowsInside
    <2>6. call.offset + Width(call) <= RowsFor(f) =>
              Rows(call, table) = [i \in 1..Width(call) |-> <<table[call.offset + i - 1]>>]
        BY <1>1, <2>2, RowsInside
    <2>7. QED
        BY <2>1, <2>3, <2>4, <2>5, <2>6
<1>4. CASE f \notin LearnedPositions \cup NoPositions /\ f \notin HalfTables
    <2> DEFINE table == [p \in 0..(RowsFor(f) - 1) |-> p]
    <2>1. RowsOf(f, call) = Rows(call, table)
        BY <1>4 DEF RowsOf, TableRows, LearnedPositions, NoPositions
    <2>2. DOMAIN table = 0..(RowsFor(f) - 1)
        OBVIOUS
    <2>3. ASSUME call.offset + Width(call) <= RowsFor(f), NEW i \in 1..Width(call)
          PROVE  <<table[call.offset + i - 1]>> = Place(f, call, i)
        <3>1. call.offset + i - 1 \in 0..(RowsFor(f) - 1)
            BY <1>1, <2>3
        <3>2. QED
            BY <1>4, <3>1 DEF Place
    <2> HIDE DEF table
    <2>4. Rows(call, table) # Outside <=> call.offset + Width(call) <= RowsFor(f)
        BY <1>1, <2>2, RowsInside
    <2>5. call.offset + Width(call) <= RowsFor(f) =>
              Rows(call, table) = [i \in 1..Width(call) |-> <<table[call.offset + i - 1]>>]
        BY <1>1, <2>2, RowsInside
    <2>6. QED
        BY <1>4, <2>1, <2>3, <2>4, <2>5
<1>5. QED
    BY <1>2, <1>3, <1>4

\* Learned positions enter with the tokens, the others later.
LEMMA InputsOfFamily ==
    ASSUME NEW f, NEW call, CallOK(call)
    PROVE  /\ InputsOf(f, call) # Outside <=>
                  (f \in LearnedPositions => call.offset + Width(call) <= MaxPositions)
           /\ InputsOf(f, call) # Outside =>
                  InputsOf(f, call) = [i \in 1..Width(call) |->
                      [token |-> call.tokens[i],
                       at |-> IF f \in LearnedPositions THEN <<call.offset + i - 1>> ELSE <<>>]]
<1>1. Width(call) \in Nat /\ 1 \in 1..Width(call)
    BY DEF CallOK, Width
<1>2. CASE f \in LearnedPositions
    <2>1. "qwen2" \in Decoding /\ RowsFor("qwen2") = MaxPositions
          /\ "qwen2" \notin LearnedPositions \cup NoPositions
        BY DEF Decoding, Families, RowsFor, LearnedPositions, NoPositions
    <2>2. \A i : Place("qwen2", call, i) = <<call.offset + i - 1>>
        BY DEF Place, HalfTables, LearnedPositions, NoPositions
    <2>3. InputsOf(f, call) = Embedded(call, RowsOf("qwen2", call))
        BY <1>2 DEF InputsOf
    <2>4. CASE RowsOf("qwen2", call) = Outside
        <3>1. Embedded(call, <<>>) = <<>>
            BY DEF Embedded
        <3>2. QED
            BY <1>2, <2>1, <2>3, <2>4, <3>1, RowsOfFamily DEF Outside
    <2>5. CASE RowsOf("qwen2", call) # Outside
        <3>1. RowsOf("qwen2", call) = [i \in 1..Width(call) |-> <<call.offset + i - 1>>]
            BY <2>1, <2>2, <2>5, RowsOfFamily
        <3>2. Len(RowsOf("qwen2", call)) = Width(call)
            BY <1>1, <3>1, ListLen, ListOf
        <3>3. InputsOf(f, call) = [i \in 1..Width(call) |->
                  [token |-> call.tokens[i], at |-> <<call.offset + i - 1>>]]
            BY <2>3, <3>1, <3>2 DEF Embedded
        <3>4. InputsOf(f, call) # <<>>
            BY <1>1, <3>3
        <3>5. call.offset + Width(call) <= MaxPositions
            BY <2>1, <2>5, RowsOfFamily
        <3>6. QED
            BY <1>2, <3>3, <3>4, <3>5 DEF Outside
    <2>6. QED
        BY <2>4, <2>5
<1>3. CASE f \notin LearnedPositions
    <2>1. Unplaced(call) = [i \in 1..Width(call) |-> <<>>]
        BY DEF Unplaced
    <2>2. Len(Unplaced(call)) = Width(call)
        BY <1>1, <2>1, ListLen, ListOf
    <2>3. InputsOf(f, call) = [i \in 1..Width(call) |-> [token |-> call.tokens[i], at |-> <<>>]]
        BY <1>3, <2>1, <2>2 DEF InputsOf, Embeddings, Embedded
    <2>4. InputsOf(f, call) # <<>>
        BY <1>1, <2>3
    <2>5. QED
        BY <1>3, <2>3, <2>4 DEF Outside
<1>4. QED
    BY <1>2, <1>3

\* The mask of a call: none for one token, and for more one with a column for each
\* position, unless it cannot be made.
MaskMade(f, call) ==
    ~(f = "llama" /\ call.offset > 0) /\ ~(f = "olmo" /\ call.offset > 0 /\ call.type # "f32")
MaskType(f, call) ==
    IF f \in {"falcon", "chatglm", "glm4"} THEN "u8" ELSE IF f = "llama" THEN "f32" ELSE call.type
MaskParts(f, call, mask) ==
    /\ Width(call) = 1 => mask = NoMask
    /\ Width(call) # 1 /\ MaskMade(f, call) =>
           mask = Mask(call.offset + Width(call), MaskType(f, call), mask.hides)
    /\ Width(call) # 1 /\ ~MaskMade(f, call) => mask = FailedMask

\* The hidden pairs of a mask are its own.
LEMMA MaskHides ==
    \A columns, number, hides :
        Mask(columns, number, hides) = Mask(columns, number, Mask(columns, number, hides).hides)
BY DEF Mask

\* Every family's mask has these parts.
LEMMA MaskOfFamily ==
    ASSUME NEW f \in Decoding, NEW call, CallOK(call)
    PROVE  MaskParts(f, call, MaskOf(f, call))
<1>1. Width(call) \in Nat /\ Width(call) # 0 /\ call.offset \in Nat
    BY DEF CallOK, Width
<1>2. CASE f = "starcoder2"
    <2>1. MaskOf(f, call) = Starcoder2Mask(call)
        BY <1>2 DEF MaskOf
    <2>2. MaskMade(f, call) /\ MaskType(f, call) = call.type
        BY <1>2 DEF MaskMade, MaskType
    <2>3. QED
        BY <1>1, <2>1, <2>2, MaskHides DEF MaskParts, Starcoder2Mask
<1>3. CASE f = "olmo"
    <2>1. MaskOf(f, call) = OlmoMask(call)
        BY <1>3 DEF MaskOf
    <2>2. MaskType(f, call) = call.type /\ (MaskMade(f, call) <=> ~(call.offset > 0 /\ call.type # "f32"))
        BY <1>3 DEF MaskMade, MaskType
    <2>3. QED
        BY <1>1, <2>1, <2>2, MaskHides DEF MaskParts, OlmoMask
<1>4. CASE f = "llama"
    <2>1. MaskOf(f, call) = LlamaMask(call)
        BY <1>4 DEF MaskOf
    <2>2. MaskType(f, call) = "f32" /\ (MaskMade(f, call) <=> ~(call.offset > 0))
        BY <1>4 DEF MaskMade, MaskType
    <2>3. MaskMade(f, call) => call.offset + Width(call) = Width(call)
        BY <1>1, <2>2
    <2>4. QED
        BY <1>1, <2>1, <2>2, <2>3, MaskHides DEF MaskParts, LlamaMask
<1>5. CASE f \in {"falcon", "chatglm", "glm4"}
    <2>1. MaskOf(f, call) = ChatGlmMask(call)
        BY <1>5 DEF MaskOf
    <2>2. MaskMade(f, call) /\ MaskType(f, call) = "u8"
        BY <1>5 DEF MaskMade, MaskType
    <2>3. QED
        BY <1>1, <2>1, <2>2, MaskHides DEF MaskParts, ChatGlmMask
<1>6. CASE f \notin {"starcoder2", "olmo", "llama", "falcon", "chatglm", "glm4"}
    <2>1. MaskOf(f, call) = CausalMask(call, call.type)
        BY <1>6 DEF MaskOf
    <2>2. MaskMade(f, call) /\ MaskType(f, call) = call.type
        BY <1>6 DEF MaskMade, MaskType
    <2>3. QED
        BY <1>1, <2>1, <2>2, MaskHides DEF MaskParts, CausalMask
<1>7. QED
    BY <1>2, <1>3, <1>4, <1>5, <1>6

\* When the new tokens fit the held cells: the mask of more than one token has its
\* columns for a cache that is as long as the offset, and the type of the scores.
Fitting(f, number, held, at, n) ==
    IF f = "falcon" THEN held = at
    ELSE \/ n = 1
         \/ /\ f # "llama"
            /\ f \in {"granite", "granite_moe"} => number = "f32"
            /\ f = "olmo" => at = 0 \/ number = "f32"
            /\ held = at

\* Which calls fit.
LEMMA FitsOfFamily ==
    ASSUME NEW f \in Decoding, NEW call, CallOK(call), NEW held \in Nat
    PROVE  FitsOf(f, call, held, Width(call)) <=> Fitting(f, call.type, held, call.offset, Width(call))
<1>1. Width(call) \in Nat /\ Width(call) # 0 /\ call.offset \in Nat /\ call.type \in {"f16", "f32"}
    BY DEF CallOK, Width, NumberType
<1>2. MaskParts(f, call, MaskOf(f, call))
    BY MaskOfFamily
<1> DEFINE mask == MaskOf(f, call)
<1>3. CASE f = "falcon"
    BY <1>3 DEF FitsOf, Fitting
<1>4. CASE f # "falcon" /\ Width(call) = 1
    BY <1>2, <1>4 DEF FitsOf, Fitting, MaskParts
<1>5. CASE f # "falcon" /\ Width(call) # 1 /\ MaskMade(f, call)
    <2>1. /\ mask.made /\ mask.type = MaskType(f, call)
          /\ mask.columns = call.offset + Width(call)
        <3>1. mask = Mask(call.offset + Width(call), MaskType(f, call), mask.hides)
            BY <1>2, <1>5 DEF MaskParts
        <3> HIDE DEF mask
        <3>2. QED
            BY <3>1 DEF Mask
    <2>2. mask # NoMask
        <3>1. NoMask.columns = 0
            BY DEF NoMask, Mask
        <3> HIDE DEF mask
        <3>2. QED
            BY <1>1, <2>1, <3>1
    <2>3. FitsOf(f, call, held, Width(call)) <=>
              MaskType(f, call) = ScoresOf(f, call) /\ held = call.offset
        BY <1>1, <1>5, <2>1, <2>2 DEF FitsOf
    <2>4. MaskType(f, call) = ScoresOf(f, call) <=>
              f # "llama" /\ (f \in {"granite", "granite_moe"} => call.type = "f32")
        <3>1. CASE f \in {"granite", "granite_moe"}
            BY <3>1 DEF MaskType, ScoresOf
        <3>2. CASE f \in {"chatglm", "glm4", "llama"}
            BY <3>2 DEF MaskType, ScoresOf
        <3>3. CASE f \notin {"granite", "granite_moe", "chatglm", "glm4", "llama"}
            BY <1>5, <3>3 DEF MaskType, ScoresOf
        <3>4. QED
            BY <3>1, <3>2, <3>3
    <2>5. QED
        BY <1>1, <1>5, <2>3, <2>4 DEF Fitting, MaskMade
<1>6. CASE f # "falcon" /\ Width(call) # 1 /\ ~MaskMade(f, call)
    <2>1. mask = FailedMask
        BY <1>2, <1>6 DEF MaskParts
    <2>2. ~mask.made /\ mask # NoMask
        <3>1. FailedMask.made = FALSE /\ NoMask.made = TRUE
            BY DEF FailedMask, NoMask, Mask
        <3> HIDE DEF mask
        <3>2. QED
            BY <2>1, <3>1
    <2>3. QED
        BY <1>1, <1>6, <2>2 DEF FitsOf, Fitting, MaskMade
<1>7. QED
    BY <1>3, <1>4, <1>5, <1>6

\* Which calls are not refused before the layers.
LEMMA OpenFamily ==
    ASSUME NEW f \in Decoding, NEW call, CallOK(call)
    PROVE  Open(f, call) <=>
               /\ f \in LearnedPositions => call.offset + Width(call) <= MaxPositions
               /\ f = "olmo" => Width(call) = 1 \/ call.offset = 0 \/ call.type = "f32"
<1>1. Width(call) \in Nat /\ Width(call) # 0 /\ call.offset \in Nat
    BY DEF CallOK, Width
<1>2. InputsOf(f, call) # Outside <=> (f \in LearnedPositions => call.offset + Width(call) <= MaxPositions)
    BY InputsOfFamily
<1>3. f = "llama" \/ MaskOf(f, call).made <=>
          (f = "olmo" => Width(call) = 1 \/ call.offset = 0 \/ call.type = "f32")
    <2>1. MaskParts(f, call, MaskOf(f, call))
        BY MaskOfFamily
    <2>2. NoMask.made = TRUE /\ FailedMask.made = FALSE
          /\ \A c, t, h : Mask(c, t, h).made = TRUE
        BY DEF NoMask, FailedMask, Mask
    <2>3. QED
        BY <1>1, <2>1, <2>2 DEF MaskParts, MaskMade
<1>4. QED
    BY <1>2, <1>3 DEF Open

\* What goes into a pass is accepted as a whole.
LEMMA AcceptsFits ==
    ASSUME NEW f \in Decoding, NEW call, CallOK(call), NEW held \in Nat
    PROVE  Open(f, call) /\ RowsOf(f, call) # Outside /\ FitsOf(f, call, held, Width(call)) <=>
               /\ f \notin NoPositions => call.offset + Width(call) <= RowsFor(f)
               /\ f = "olmo" => Width(call) = 1 \/ call.offset = 0 \/ call.type = "f32"
               /\ Fitting(f, call.type, held, call.offset, Width(call))
<1>1. f \in LearnedPositions => RowsFor(f) = MaxPositions /\ f \notin NoPositions
    BY DEF LearnedPositions, NoPositions, RowsFor
<1>2. RowsOf(f, call) # Outside <=>
          f \in LearnedPositions \cup NoPositions \/ call.offset + Width(call) <= RowsFor(f)
    BY RowsOfFamily
<1>3. QED
    BY <1>1, <1>2, OpenFamily, FitsOfFamily

\* What a family's attention makes of a layer's cells and the hidden states: the
\* new cells behind the others, and for every token the cells it does not hide.
AllCells(f, call, cells, xs, m) ==
    [j \in 1..(m + Width(call)) |->
        IF j <= m THEN cells[j] ELSE [key |-> xs[j - m], at |-> Place(f, call, j - m)]]
Attends(f, call, cells, xs, m) ==
    [i \in 1..Width(call) |->
        [query |-> xs[i], at |-> Place(f, call, i),
         over |-> [j \in {j \in 1..(m + Width(call)) : <<i, j>> \notin MaskOf(f, call).hides} |->
                      AllCells(f, call, cells, xs, m)[j]]]]

\* Where its positions are rows of a table, this is what is cached and attended to.
LEMMA AttentionParts ==
    ASSUME NEW f \in Decoding, NEW call, CallOK(call), NEW m \in Nat, NEW cells, NEW xs,
           IsList(cells, m), IsList(xs, Width(call)), RowsOf(f, call) # Outside
    PROVE  AttentionOf(f, call, cells, xs) =
               [ok |-> FitsOf(f, call, m, Width(call)),
                cells |-> AllCells(f, call, cells, xs, m),
                xs |-> Attends(f, call, cells, xs, m)]
<1>1. Width(call) \in Nat /\ Len(cells) = m /\ Len(xs) = Width(call)
    BY ListLen DEF CallOK, Width
<1> DEFINE at == RowsOf(f, call)
           added == [i \in 1..Width(call) |-> [key |-> xs[i], at |-> Place(f, call, i)]]
<1>2. at = [i \in 1..Width(call) |-> Place(f, call, i)]
    BY RowsOfFamily
<1>3. Extended(cells, xs, at) = cells \o added
    BY <1>1, <1>2 DEF Extended
<1>4. IsList(added, Width(call))
    BY DEF IsList
<1>5. cells \o added = [j \in 1..(m + Width(call)) |-> IF j <= m THEN cells[j] ELSE added[j - m]]
    <2> HIDE DEF added
    <2>1. QED
        BY <1>1, <1>4, ConcatList
<1>6. \A j \in 1..(m + Width(call)) : ~(j <= m) => j - m \in 1..Width(call)
    BY <1>1
<1>7. Extended(cells, xs, at) = AllCells(f, call, cells, xs, m)
    BY <1>3, <1>5, <1>6 DEF AllCells
<1>8. IsList(AllCells(f, call, cells, xs, m), m + Width(call))
    BY DEF IsList, AllCells
<1>9. Len(AllCells(f, call, cells, xs, m)) = m + Width(call)
    <2>1. m + Width(call) \in Nat
        BY <1>1
    <2>2. QED
        BY <1>8, <2>1, ListLen
<1>10. Attended(AllCells(f, call, cells, xs, m), xs, at, MaskOf(f, call)) = Attends(f, call, cells, xs, m)
    <2> HIDE DEF at
    <2>1. QED
        BY <1>1, <1>2, <1>9 DEF Attended, Attends
<1>11. QED
    <2> HIDE DEF at, added
    <2>1. at # Outside
        BY DEF at
    <2>2. Cached(cells, xs, at, MaskOf(f, call), FitsOf(f, call, m, Width(call))) =
              [ok |-> FitsOf(f, call, m, Width(call)), cells |-> AllCells(f, call, cells, xs, m),
               xs |-> Attends(f, call, cells, xs, m)]
        BY <1>7, <1>10, <2>1 DEF Cached
    <2>3. QED
        BY <1>1, <2>2 DEF AttentionOf, at

\* Where they are not, nothing is.
LEMMA AttentionOutside ==
    ASSUME NEW f, NEW call, NEW cells, NEW xs, RowsOf(f, call) = Outside
    PROVE  AttentionOf(f, call, cells, xs) = [ok |-> FALSE, cells |-> cells, xs |-> xs]
BY DEF AttentionOf, Cached

\* The mixtures of experts give a row for every row.
LEMMA MoeSizes ==
    ASSUME NEW n \in Nat, NEW xs, NEW tokens, IsList(xs, n)
    PROVE  IsList(GraniteMoeMlp(xs, tokens), n) /\ IsList(DeepSeek2Moe(xs, tokens), n)
<1>1. DOMAIN xs = 1..n
    BY DEF IsList
<1>2. IsList(GraniteMoeMlp(xs, tokens), n)
    BY <1>1 DEF GraniteMoeMlp, IsList
<1>3. IsList(DeepSeek2Moe(xs, tokens), n)
    BY <1>1 DEF DeepSeek2Moe, IsList
<1>4. QED
    BY <1>2, <1>3

\* A layer of a decoder is its attention, with experts or without.
LayerParts(f, call, layer, attended) ==
    /\ layer.ok = attended.ok
    /\ layer.cells = attended.cells
    /\ layer.xs = CASE f = "granite_moe" /\ attended.ok -> GraniteMoeMlp(attended.xs, call.tokens)
                    [] f = "deepseek2" /\ attended.ok -> DeepSeek2Moe(attended.xs, call.tokens)
                    [] OTHER -> attended.xs

\* The parts are those of the attention.
LEMMA LayerOfFamily ==
    ASSUME NEW f \in Decoding, NEW call, NEW cells, NEW xs
    PROVE  LayerParts(f, call, LayerOf(f, call, cells, xs), AttentionOf(f, call, cells, xs))
<1> DEFINE attended == AttentionOf(f, call, cells, xs)
<1>1. attended = [ok |-> attended.ok, cells |-> attended.cells, xs |-> attended.xs]
    BY DEF AttentionOf, Cached
<1> HIDE DEF attended
<1>2. CASE f = "granite_moe"
    <2>1. LayerOf(f, call, cells, xs) =
              [attended EXCEPT !.xs = IF attended.ok THEN GraniteMoeMlp(attended.xs, call.tokens) ELSE attended.xs]
        BY <1>2 DEF LayerOf, attended
    <2>2. QED
        BY <1>1, <1>2, <2>1 DEF LayerParts, attended
<1>3. CASE f = "deepseek2"
    <2>1. LayerOf(f, call, cells, xs) =
              [attended EXCEPT !.xs = IF attended.ok THEN DeepSeek2Moe(attended.xs, call.tokens) ELSE attended.xs]
        BY <1>3 DEF LayerOf, attended
    <2>2. QED
        BY <1>1, <1>3, <2>1 DEF LayerParts, attended
<1>4. CASE f \notin {"granite_moe", "deepseek2"}
    <2>1. LayerOf(f, call, cells, xs) = attended
        BY <1>4 DEF LayerOf, attended, Decoding
    <2>2. QED
        BY <1>1, <1>4, <2>1 DEF LayerParts, attended
<1>5. QED
    BY <1>2, <1>3, <1>4

\* The new cells are cached behind the others, and every token has a hidden state.
LEMMA LayerSizes ==
    ASSUME NEW f \in Decoding, NEW call, CallOK(call), NEW m \in Nat, NEW cells, NEW xs,
           IsList(cells, m), IsList(xs, Width(call))
    PROVE  LET layer == LayerOf(f, call, cells, xs)
               good == RowsOf(f, call) # Outside /\ FitsOf(f, call, m, Width(call))
           IN  /\ layer.ok <=> good
               /\ good => IsList(layer.cells, m + Width(call)) /\ IsList(layer.xs, Width(call))
<1> DEFINE layer == LayerOf(f, call, cells, xs)
           attended == AttentionOf(f, call, cells, xs)
<1>1. LayerParts(f, call, layer, attended)
    BY LayerOfFamily
<1>2. CASE RowsOf(f, call) = Outside
    <2>1. ~attended.ok
        BY <1>2, AttentionOutside
    <2> HIDE DEF attended, layer
    <2>2. QED
        BY <1>1, <1>2, <2>1 DEF LayerParts, layer
<1>3. CASE RowsOf(f, call) # Outside
    <2>1. /\ attended = [ok |-> FitsOf(f, call, m, Width(call)),
                         cells |-> AllCells(f, call, cells, xs, m),
                         xs |-> Attends(f, call, cells, xs, m)]
        BY <1>3, AttentionParts
    <2>2. IsList(AllCells(f, call, cells, xs, m), m + Width(call)) /\ IsList(Attends(f, call, cells, xs, m), Width(call))
        BY DEF AllCells, Attends, IsList
    <2> HIDE DEF attended, layer
    <2>3. attended.ok = FitsOf(f, call, m, Width(call)) /\ attended.cells = AllCells(f, call, cells, xs, m)
          /\ attended.xs = Attends(f, call, cells, xs, m)
        BY <2>1
    <2>4. Width(call) \in Nat
        BY DEF CallOK, Width
    <2>5. IsList(GraniteMoeMlp(attended.xs, call.tokens), Width(call))
          /\ IsList(DeepSeek2Moe(attended.xs, call.tokens), Width(call))
        BY <2>2, <2>3, <2>4, MoeSizes
    <2>6. IsList(layer.xs, Width(call))
        <3>1. CASE f = "granite_moe" /\ attended.ok
            BY <1>1, <2>5, <3>1 DEF LayerParts
        <3>2. CASE f = "deepseek2" /\ attended.ok
            BY <1>1, <2>5, <3>2 DEF LayerParts
        <3>3. CASE ~(f = "granite_moe" /\ attended.ok) /\ ~(f = "deepseek2" /\ attended.ok)
            BY <1>1, <2>2, <2>3, <3>3 DEF LayerParts
        <3>4. QED
            BY <3>1, <3>2, <3>3
    <2>7. layer.ok = FitsOf(f, call, m, Width(call)) /\ IsList(layer.cells, m + Width(call))
        BY <1>1, <2>2, <2>3 DEF LayerParts
    <2>8. QED
        BY <1>3, <2>6, <2>7 DEF layer
<1>4. QED
    BY <1>2, <1>3

\* A pass is accepted by all the layers, or by none.
LEMMA PassSizes ==
    ASSUME NEW f \in Decoding, NEW call, CallOK(call), NEW m \in Nat,
           \A k \in 1..Depth : IsList(call.layers[k], m),
           InputsOf(f, call) # Outside, NEW g, IsPass(g, f, call)
    PROVE  LET good == RowsOf(f, call) # Outside /\ FitsOf(f, call, m, Width(call))
           IN  /\ g[Depth].ok <=> good
               /\ good => \A l \in 0..Depth :
                      /\ g[l].ok
                      /\ IsList(g[l].xs, Width(call))
                      /\ \A k \in 1..Depth : IsList(g[l].layers[k], IF k <= l THEN m + Width(call) ELSE m)
<1> DEFINE good == RowsOf(f, call) # Outside /\ FitsOf(f, call, m, Width(call))
           Kept(l) == \A k \in 1..Depth : IsList(g[l].layers[k], IF k <= l THEN m + Width(call) ELSE m)
           P(l) == /\ g[l].ok <=> l = 0 \/ good
                   /\ g[l].ok => IsList(g[l].xs, Width(call)) /\ Kept(l)
           S == {l \in Nat : P(l)}
<1>0. IsList(call.layers, Depth) /\ Width(call) \in Nat
    BY DEF CallOK, Width
<1>1. P(0)
    <2>1. g[0] = [ok |-> TRUE, layers |-> call.layers, xs |-> InputsOf(f, call)]
        BY PassFirst
    <2>2. IsList(InputsOf(f, call), Width(call))
        <3> DEFINE inputs == [i \in 1..Width(call) |->
                      [token |-> call.tokens[i],
                       at |-> IF f \in LearnedPositions THEN <<call.offset + i - 1>> ELSE <<>>]]
        <3>1. InputsOf(f, call) = inputs
            BY InputsOfFamily
        <3>2. IsList(inputs, Width(call))
            BY DEF IsList
        <3>3. QED
            BY <3>1, <3>2
    <2>3. g[0].ok = TRUE /\ g[0].layers = call.layers /\ g[0].xs = InputsOf(f, call)
        BY <2>1
    <2>4. Kept(0)
        BY <2>3
    <2> HIDE DEF Kept
    <2>5. QED
        BY <2>2, <2>3, <2>4
<1>2. ASSUME NEW l \in Nat, l < Depth, P(l)
      PROVE  P(l + 1)
    <2>1. CASE ~g[l].ok
        <3>1. g[l + 1] = NextPass(f, call, l + 1, g[l])
            BY <1>2, PassNext
        <3>2. g[l + 1] = g[l]
            BY <2>1, <3>1 DEF NextPass
        <3> HIDE DEF good, Kept
        <3>3. ~g[l].ok /\ ~good
            BY <1>2, <2>1
        <3>4. QED
            BY <1>2, <3>2, <3>3
    <2>2. CASE g[l].ok
        <3> DEFINE cells == g[l].layers[l + 1]
                   layer == LayerOf(f, call, cells, g[l].xs)
        <3>1. l + 1 \in 1..Depth
            BY <1>2, TensorsAssumption
        <3>2. IsList(cells, m) /\ IsList(g[l].xs, Width(call))
            BY <1>2, <2>2, <3>1
        <3>3. /\ layer.ok <=> good
              /\ good => IsList(layer.cells, m + Width(call)) /\ IsList(layer.xs, Width(call))
            BY <3>2, LayerSizes
        <3>4. /\ g[l + 1].ok = layer.ok
              /\ g[l + 1].xs = layer.xs
              /\ g[l + 1].layers[l + 1] = layer.cells
              /\ \A k \in 1..Depth : k # l + 1 => g[l + 1].layers[k] = g[l].layers[k]
            BY <1>0, <1>2, <2>2, PassOne
        <3> HIDE DEF layer, good
        <3>5. ASSUME good, NEW k \in 1..Depth
              PROVE  IsList(g[l + 1].layers[k], IF k <= l + 1 THEN m + Width(call) ELSE m)
            <4>1. CASE k = l + 1
                BY <3>3, <3>4, <3>5, <4>1
            <4>2. CASE k # l + 1
                <5>1. k <= l + 1 <=> k <= l
                    BY <4>2
                <5>2. IsList(g[l].layers[k], IF k <= l THEN m + Width(call) ELSE m)
                    BY <1>2, <2>2
                <5>3. QED
                    BY <3>4, <4>2, <5>1, <5>2
            <4>3. QED
                BY <4>1, <4>2
        <3>6. good => Kept(l + 1)
            BY <3>5
        <3> HIDE DEF Kept
        <3>7. QED
            BY <1>2, <3>3, <3>4, <3>6
    <2>3. QED
        BY <2>1, <2>2
<1>3. 0 \in S /\ \A l \in Nat : l < Depth /\ l \in S => l + 1 \in S
    BY <1>1, <1>2
<1>4. \A l \in 0..Depth : P(l)
    <2>1. \A l \in 0..Depth : l \in S
        <3> HIDE DEF S
        <3>1. QED
            BY <1>3, UpTo, TensorsAssumption
    <2>2. QED
        BY <2>1
<1>5. Depth \in 0..Depth /\ Depth # 0
    BY TensorsAssumption
<1>6. QED
    <2> HIDE DEF good, Kept
    <2>1. (g[Depth].ok <=> good) /\ (good => \A l \in 0..Depth : g[l].ok /\ IsList(g[l].xs, Width(call)) /\ Kept(l))
        BY <1>4, <1>5
    <2>2. QED
        BY <2>1 DEF good, Kept

\* The forward function of a decoder, on caches that all have m cells.
LEMMA DecoderForward ==
    ASSUME NEW f \in Decoding, NEW call, CallOK(call), NEW m \in Nat,
           \A k \in 1..Depth : IsList(call.layers[k], m)
    PROVE  LET pass == Forward(f, call)
           IN  /\ pass.ok <=>
                      /\ f \notin NoPositions => call.offset + Width(call) <= RowsFor(f)
                      /\ f = "olmo" => Width(call) = 1 \/ call.offset = 0 \/ call.type = "f32"
                      /\ Fitting(f, call.type, m, call.offset, Width(call))
               /\ pass.ok => Sizes(f, pass.layers, m + Width(call))
<1>1. f \in Families /\ IsList(call.layers, Depth)
    BY DEF Decoding, CallOK
<1>2. PICK pass : Passes(pass, f, call) /\ Forward(f, call) = LastOf(pass)
    BY <1>1, ForwardPass
<1> DEFINE good == RowsOf(f, call) # Outside /\ FitsOf(f, call, m, Width(call))
<1>3. Open(f, call) /\ good <=>
          /\ f \notin NoPositions => call.offset + Width(call) <= RowsFor(f)
          /\ f = "olmo" => Width(call) = 1 \/ call.offset = 0 \/ call.type = "f32"
          /\ Fitting(f, call.type, m, call.offset, Width(call))
    BY AcceptsFits
<1>4. CASE ~Open(f, call)
    <2>1. pass = Refused(call)
        BY <1>2, <1>4 DEF Passes
    <2>2. ~Forward(f, call).ok
        BY <1>2, <2>1 DEF Refused, LastOf
    <2> HIDE DEF good
    <2>3. QED
        BY <1>3, <1>4, <2>2
<1>5. CASE Open(f, call)
    <2>1. PICK g : IsPass(g, f, call) /\ pass = g[Depth]
        BY <1>2, <1>5 DEF Passes
    <2>2. InputsOf(f, call) # Outside
        BY <1>5 DEF Open
    <2>3. Depth \in 0..Depth
        BY TensorsAssumption
    <2>4. IsRecord(pass)
        BY <1>1, <2>1, <2>3, PassRecord
    <2>5. /\ g[Depth].ok <=> good
          /\ good => \A l \in 0..Depth :
                 /\ g[l].ok
                 /\ IsList(g[l].xs, Width(call))
                 /\ \A k \in 1..Depth : IsList(g[l].layers[k], IF k <= l THEN m + Width(call) ELSE m)
        BY <2>1, <2>2, PassSizes
    <2>6. good => \A k \in 1..Depth : IsList(pass.layers[k], m + Width(call))
        <3> HIDE DEF good
        <3>1. SUFFICES ASSUME good, NEW k \in 1..Depth
                       PROVE  IsList(g[Depth].layers[k], m + Width(call))
            BY <2>1
        <3>2. k <= Depth
            BY TensorsAssumption
        <3>3. QED
            BY <2>3, <2>5, <3>1, <3>2
    <2>7. Forward(f, call).ok = pass.ok /\ Forward(f, call).layers = pass.layers
        BY <1>2, <2>4 DEF IsRecord, LastOf
    <2>8. pass.ok => Sizes(f, pass.layers, m + Width(call))
        <3> HIDE DEF good
        <3>1. QED
            BY <2>1, <2>4, <2>5, <2>6 DEF Sizes, IsRecord
    <2> HIDE DEF good
    <2>9. QED
        BY <1>3, <1>5, <2>1, <2>5, <2>7, <2>8
<1>6. QED
    BY <1>4, <1>5

\* The state-space layers: those of mamba refuse nothing, those of rwkv6 all but one
\* token in single precision.
LEMMA StateLayer ==
    ASSUME NEW f \in {"mamba", "mamba2", "rwkv6"}, NEW call, NEW cells, NEW xs
    PROVE  LET layer == LayerOf(f, call, cells, xs)
           IN  /\ f # "rwkv6" => layer.ok
               /\ f = "rwkv6" => (layer.ok <=> Len(xs) = 1 /\ call.type = "f32")
               /\ f = "rwkv6" /\ layer.ok => Len(layer.xs) = 1
<1>1. CASE f = "mamba"
    <2>1. LayerOf(f, call, cells, xs) = MambaLayer(cells, xs, call.offset)
        BY <1>1 DEF LayerOf
    <2>2. QED
        BY <1>1, <2>1 DEF MambaLayer, Scanned
<1>2. CASE f = "mamba2"
    <2>1. LayerOf(f, call, cells, xs) = Mamba2Layer(cells, xs)
        BY <1>2 DEF LayerOf
    <2>2. QED
        BY <1>2, <2>1 DEF Mamba2Layer, Scanned
<1>3. CASE f = "rwkv6"
    <2>1. LayerOf(f, call, cells, xs) = Rwkv6Block(cells, xs, call.type)
        BY <1>3 DEF LayerOf
    <2>2. Rwkv6Attention(cells, xs, call.type).ok <=> Len(xs) = 1 /\ call.type = "f32"
        BY DEF Rwkv6Attention
    <2>3. Rwkv6Block(cells, xs, call.type).ok <=> Rwkv6Attention(cells, xs, call.type).ok
        BY DEF Rwkv6Block
    <2>4. Rwkv6Attention(cells, xs, call.type).ok => Len(Rwkv6Block(cells, xs, call.type).xs) = 1
        BY DEF Rwkv6Block
    <2>5. QED
        BY <1>3, <2>1, <2>2, <2>3, <2>4
<1>4. QED
    BY <1>1, <1>2, <1>3

\* The forward function of a state-space model.
LEMMA StateForward ==
    ASSUME NEW f \in {"mamba", "mamba2", "rwkv6"}, NEW call, CallOK(call)
    PROVE  LET pass == Forward(f, call)
           IN  /\ pass.ok <=> (f = "rwkv6" => Width(call) = 1 /\ call.type = "f32")
               /\ IsList(pass.layers, Depth)
<1>1. f \in Families /\ IsList(call.layers, Depth) /\ f \notin Decoding /\ f \notin LearnedPositions
    BY DEF Families, Decoding, CallOK, LearnedPositions
<1>2. PICK pass : Passes(pass, f, call) /\ Forward(f, call) = LastOf(pass)
    BY <1>1, ForwardPass
<1>3. PICK g : IsPass(g, f, call) /\ pass = g[Depth]
    BY <1>1, <1>2 DEF Passes, Open
<1> DEFINE good == f = "rwkv6" => Width(call) = 1 /\ call.type = "f32"
           P(l) == /\ g[l].ok <=> l = 0 \/ good
                   /\ f = "rwkv6" /\ g[l].ok => Len(g[l].xs) = IF l = 0 THEN Width(call) ELSE 1
           S == {l \in Nat : P(l)}
<1>4. P(0)
    <2>1. g[0] = [ok |-> TRUE, layers |-> call.layers, xs |-> InputsOf(f, call)]
        BY <1>3, PassFirst
    <2>2. Width(call) \in Nat
        BY DEF CallOK, Width
    <2>3. Len(InputsOf(f, call)) = Width(call)
        <3> DEFINE inputs == [i \in 1..Width(call) |->
                      [token |-> call.tokens[i],
                       at |-> IF f \in LearnedPositions THEN <<call.offset + i - 1>> ELSE <<>>]]
        <3>1. InputsOf(f, call) = inputs
            BY <1>1, InputsOfFamily
        <3>2. IsList(inputs, Width(call))
            BY DEF IsList
        <3> HIDE DEF inputs
        <3>3. QED
            BY <2>2, <3>1, <3>2, ListLen
    <2>4. QED
        BY <2>1, <2>3
<1>5. ASSUME NEW l \in Nat, l < Depth, P(l)
      PROVE  P(l + 1)
    <2>1. CASE ~g[l].ok
        <3>1. g[l + 1] = NextPass(f, call, l + 1, g[l])
            BY <1>3, <1>5, PassNext
        <3>2. g[l + 1] = g[l]
            BY <2>1, <3>1 DEF NextPass
        <3>3. QED
            BY <1>5, <2>1, <3>2
    <2>2. CASE g[l].ok
        <3> DEFINE layer == LayerOf(f, call, g[l].layers[l + 1], g[l].xs)
        <3>1. g[l + 1].ok = layer.ok /\ g[l + 1].xs = layer.xs
            BY <1>1, <1>3, <1>5, <2>2, PassOne
        <3>2. /\ f # "rwkv6" => layer.ok
              /\ f = "rwkv6" => (layer.ok <=> Len(g[l].xs) = 1 /\ call.type = "f32")
              /\ f = "rwkv6" /\ layer.ok => Len(layer.xs) = 1
            BY StateLayer
        <3> HIDE DEF layer
        <3>3. QED
            BY <1>5, <2>2, <3>1, <3>2
    <2>3. QED
        BY <2>1, <2>2
<1>6. 0 \in S /\ \A l \in Nat : l < Depth /\ l \in S => l + 1 \in S
    BY <1>4, <1>5
<1>7. \A l \in 0..Depth : l \in S
    <2> HIDE DEF S
    <2>1. QED
        BY <1>6, UpTo, TensorsAssumption
<1>8. Depth \in 0..Depth /\ Depth # 0
    BY TensorsAssumption
<1>9. IsRecord(pass)
    BY <1>1, <1>3, <1>8, PassRecord
<1>10. Forward(f, call).ok = pass.ok /\ Forward(f, call).layers = pass.layers
    BY <1>2, <1>9 DEF IsRecord, LastOf
<1>11. pass.ok <=> good
    BY <1>3, <1>7, <1>8
<1>12. QED
    BY <1>9, <1>10, <1>11 DEF IsRecord

\* Which calls are accepted, and what is then cached: of a call at the right
\* position its size decides, of falcon no other is taken.
ForwardShape(pass, f, number, m, at, n) ==
    /\ pass.ok => Sizes(f, pass.layers, m + n)
    /\ pass.ok /\ f = "falcon" => m = at
    /\ m = at => (pass.ok <=> Accepts(f, number, at, n))

\* The forward function of any family.
LEMMA ForwardShapes ==
    ASSUME NEW f \in Families, NEW from, NEW m \in Nat, Sizes(f, from, m),
           NEW tokens \in Seq(Token), tokens # <<>>, NEW at \in Nat, NEW number \in NumberType
    PROVE  ForwardShape(Forward(f, Call(from, tokens, at, number)), f, number, m, at, Len(tokens))
<1> DEFINE call == Call(from, tokens, at, number)
<1>1. IsList(from, Depth)
    BY DEF Sizes
<1>2. /\ CallOK(call)
      /\ call.layers = from /\ call.tokens = tokens /\ call.offset = at /\ call.type = number
      /\ Width(call) = Len(tokens)
    <2>1. CallOK(call)
        BY <1>1, CallFields
    <2>2. QED
        BY <2>1 DEF Call, Width
<1>3. Len(tokens) \in Nat /\ Len(tokens) # 0
    BY EmptySeq
<1> HIDE DEF call
<1>4. CASE f \in Decoding
    <2> DEFINE pass == Forward(f, call)
    <2>1. \A k \in 1..Depth : IsList(call.layers[k], m)
        BY <1>2, <1>4 DEF Sizes
    <2>2. /\ pass.ok <=>
                 /\ f \notin NoPositions => call.offset + Width(call) <= RowsFor(f)
                 /\ f = "olmo" => Width(call) = 1 \/ call.offset = 0 \/ call.type = "f32"
                 /\ Fitting(f, call.type, m, call.offset, Width(call))
          /\ pass.ok => Sizes(f, pass.layers, m + Width(call))
        BY <1>2, <1>4, <2>1, DecoderForward
    <2>3. f # "rwkv6"
        BY <1>4 DEF Decoding
    <2> HIDE DEF pass
    <2>4. m = at => (pass.ok <=> Accepts(f, number, at, Len(tokens)))
        <3>1. CASE f = "falcon"
            BY <1>2, <1>4, <2>2, <3>1 DEF Accepts, Fitting, NoPositions
        <3>2. CASE f # "falcon"
            BY <1>2, <1>3, <1>4, <2>2, <2>3, <3>2 DEF Accepts, Fitting
        <3>3. QED
            BY <3>1, <3>2
    <2>5. pass.ok /\ f = "falcon" => m = at
        BY <1>2, <2>2 DEF Fitting
    <2>6. pass.ok => Sizes(f, pass.layers, m + Len(tokens))
        BY <1>2, <2>2
    <2>7. ForwardShape(pass, f, number, m, at, Len(tokens))
        BY <2>4, <2>5, <2>6 DEF ForwardShape
    <2>8. QED
        BY <2>7 DEF pass, call
<1>5. CASE f \notin Decoding
    <2> DEFINE pass == Forward(f, call)
    <2>1. f \in {"mamba", "mamba2", "rwkv6"}
        BY <1>5 DEF Decoding
    <2>2. /\ pass.ok <=> (f = "rwkv6" => Width(call) = 1 /\ call.type = "f32")
          /\ IsList(pass.layers, Depth)
        BY <1>2, <2>1, StateForward
    <2> HIDE DEF pass
    <2>3. Accepts(f, number, at, Len(tokens)) <=> (f = "rwkv6" => Len(tokens) = 1 /\ number = "f32")
        BY <1>5, <2>1 DEF Accepts
    <2>4. ForwardShape(pass, f, number, m, at, Len(tokens))
        BY <1>2, <1>5, <2>1, <2>2, <2>3 DEF ForwardShape, Sizes
    <2>5. QED
        BY <2>4 DEF pass, call
<1>6. QED
    BY <1>4, <1>5

\* A text that is accepted at once is accepted in two pieces, but by olmo in half
\* precision.
LEMMA AcceptsPieces ==
    ASSUME NEW f \in Families, NEW number \in NumberType, NEW m \in Nat, NEW n \in Nat, n # 0,
           ~(f = "olmo" /\ number = "f16"), Accepts(f, number, 0, m + n)
    PROVE  Accepts(f, number, m, n)
<1>1. m + n = 1 => n = 1
    OBVIOUS
<1>2. 0 + (m + n) = m + n
    OBVIOUS
<1>3. f = "olmo" => number = "f32"
    BY DEF NumberType
<1>4. QED
    BY <1>1, <1>2, <1>3 DEF Accepts

\* What is cleared holds nothing.
LEMMA ClearedSizes == \A f \in Families : Sizes(f, Cleared(f), 0)
<1>1. SUFFICES ASSUME NEW f \in Families PROVE Sizes(f, Cleared(f), 0)
    OBVIOUS
<1>2. IsList(Cleared(f), Depth)
    BY DEF IsList, Cleared
<1>3. ASSUME f \in Decoding, NEW l \in 1..Depth
      PROVE  IsList(Cleared(f)[l], 0)
    <2>1. Cleared(f)[l] = <<>>
        BY <1>3 DEF Cleared, NoCache, Decoding
    <2>2. QED
        BY <2>1 DEF IsList
<1>4. QED
    BY <1>2, <1>3 DEF Sizes

\* Every family but those of mamba captures what it has cached, as it is.
LEMMA GetFamily ==
    ASSUME NEW f \in Families, NEW from, NEW n \in Nat, n # 0, Sizes(f, from, n)
    PROVE  /\ GetKvCache(f, from).ok <=> f \notin Mambas
           /\ GetKvCache(f, from).ok => GetKvCache(f, from).layers = from
<1>1. CASE f \in Mambas
    <2>1. GetKvCache(f, from) = NothingCached
        BY <1>1 DEF GetKvCache, Mambas, MambaGet, Mamba2Get
    <2>2. QED
        BY <1>1, <2>1 DEF NothingCached
<1>2. CASE f = "rwkv6"
    <2>1. GetKvCache(f, from) = [ok |-> TRUE, layers |-> from]
        BY <1>2 DEF GetKvCache, Rwkv6Get
    <2>2. QED
        BY <1>2, <2>1 DEF Mambas
<1>3. CASE f \in Decoding
    <2>1. GetKvCache(f, from) = Captured(from)
        BY <1>3 DEF GetKvCache, Decoding, Families, LlamaGet, ChatGlmGet, DeepSeek2Get, FalconGet,
               Phi3Get, OlmoGet, Qwen2Get, Qwen3Get, StableLmGet, Starcoder2Get, Gpt2Get, Gemma3Get,
               Glm4Get, GraniteGet, GraniteMoeGet, BloomGet
    <2>2. \A l \in 1..Depth : from[l] # NoCache
        <3>1. TAKE l \in 1..Depth
        <3>2. IsList(from[l], n)
            BY <1>3 DEF Sizes
        <3>3. 1 \in DOMAIN from[l]
            BY <3>2 DEF IsList
        <3>4. QED
            BY <3>3 DEF NoCache
    <2>3. Captured(from) = [ok |-> TRUE, layers |-> from]
        BY <2>2 DEF Captured
    <2>4. QED
        BY <1>3, <2>1, <2>3 DEF Mambas, Decoding
<1>4. QED
    BY <1>1, <1>2, <1>3 DEF Mambas, Decoding

\* And takes back what was captured, as it is, or nothing.
LEMMA SetFamily ==
    ASSUME NEW f \in Families \ Mambas, NEW into, NEW cache
    PROVE  SetKvCache(f, into, cache).ok => SetKvCache(f, into, cache).layers = cache
<1>1. SetKvCache(f, into, cache) = Restored(into, cache)
    BY DEF SetKvCache, Mambas, Families, LlamaSet, ChatGlmSet, DeepSeek2Set, FalconSet,
           Phi3Set, OlmoSet, Qwen2Set, Qwen3Set, StableLmSet, Starcoder2Set, Gpt2Set, Gemma3Set,
           Glm4Set, GraniteSet, GraniteMoeSet, BloomSet, Rwkv6Set
<1>2. QED
    BY <1>1 DEF Restored

(***************************************************************************)
(* What is accepted, and at which position                                 *)
(***************************************************************************)
\* A command that takes tokens after a text of which the caches are.
LEMMA TakenShaped ==
    ASSUME Shaped, NEW from, NEW number \in NumberType,
           NEW held \in Seq(Token), NEW tokens \in Seq(Token), tokens # <<>>,
           NEW at \in Nat, NEW done \in {"prefilled", "continued"},
           Sizes(family, from, Len(held)), Taken(from, number, held, tokens, at, done),
           done = "prefilled" => at = Len(held),
           at # Len(held) => family \in Transposed \cup {"falcon"}
    PROVE  Shaped'
<1> DEFINE pass == Passed(from, number, tokens, at)
<1>1. family \in Families /\ type \in NumberType
    BY AdaptersAssumption DEF Shaped, TypeOK
<1>2. Len(held) \in Nat /\ Len(tokens) \in Nat /\ Len(tokens) # 0
    BY EmptySeq
<1>3. held \o tokens \in Seq(Token) /\ Len(held \o tokens) = Len(held) + Len(tokens) /\ held \o tokens # <<>>
    BY <1>2, ConcatProperties, EmptySeq
<1>4. IF number = type THEN ForwardShape(pass, family, type, Len(held), at, Len(tokens)) ELSE ~pass.ok
    <2> DEFINE taken == Forward(family, Call(from, tokens, at, type))
    <2>1. ForwardShape(taken, family, type, Len(held), at, Len(tokens))
        BY <1>1, <1>2, ForwardShapes
    <2> HIDE DEF taken
    <2>2. CASE number = type
        BY <2>1, <2>2 DEF Passed, taken
    <2>3. CASE number # type
        BY <2>3 DEF Passed, Refused
    <2>4. QED
        BY <2>2, <2>3
<1> HIDE DEF pass
<1>5. /\ layers' = pass.layers
      /\ cached' = number
      /\ text' = held \o tokens
      /\ offset' = at + Len(tokens)
      /\ phase' = IF pass.ok THEN done ELSE "refused"
      /\ answer' = IF pass.ok THEN pass.xs ELSE NoAnswer
      /\ UNCHANGED <<family, type, artifact>>
    BY DEF Taken, pass
<1>6. offset' = Len(text') <=> at = Len(held)
    BY <1>2, <1>3, <1>5
<1>7. TypeOK'
    BY <1>2, <1>3, <1>5 DEF Shaped, TypeOK, Phases
<1>8. ArtifactOK'
    BY <1>5 DEF Shaped, ArtifactOK
<1>9. LayersOK'
    <2>1. CASE pass.ok
        BY <1>3, <1>4, <1>5, <2>1 DEF LayersOK, ForwardShape
    <2>2. CASE ~pass.ok
        BY <1>5, <2>2 DEF LayersOK, Settled
    <2>3. QED
        BY <2>1, <2>2
<1>10. PhaseOK'
    <2>1. CASE pass.ok
        BY <1>4, <1>5, <1>6, <2>1 DEF PhaseOK, ForwardShape
    <2>2. CASE ~pass.ok
        BY <1>5, <2>2 DEF PhaseOK, Settled
    <2>3. QED
        BY <2>1, <2>2
<1>11. RefusedOK'
    <2>1. SUFFICES ASSUME phase' = "refused", at = Len(held), number = type,
                          ~(family = "olmo" /\ type = "f16")
                   PROVE  ~Accepts(family, type, 0, Len(held) + Len(tokens))
        BY <1>3, <1>5, <1>6 DEF RefusedOK
    <2>2. ~pass.ok
        BY <1>5, <2>1
    <2>3. ~Accepts(family, type, Len(held), Len(tokens))
        BY <1>4, <2>1, <2>2 DEF ForwardShape
    <2>4. QED
        BY <1>1, <1>2, <2>1, <2>3, AcceptsPieces
<1>12. QED
    BY <1>7, <1>8, <1>9, <1>10, <1>11 DEF Shaped

\* A command that takes a cache back believes the text to end at the position at.
LEMMA LoadedShaped ==
    ASSUME Shaped, artifact # NoArtifact, NEW into, NEW at \in Nat, Loaded(into, at), type' \in NumberType,
           at # Len(artifact.text) => family \in Transposed \cup {"falcon"}
    PROVE  Shaped'
<1> DEFINE set == SetKvCache(family, into, artifact.cache)
<1>1. family \in Families \ Mambas /\ artifact.text \in Seq(Token) /\ artifact.text # <<>>
      /\ artifact.type \in NumberType /\ Sizes(family, artifact.cache, Len(artifact.text))
    BY AdaptersAssumption DEF Shaped, TypeOK, ArtifactOK
<1>2. set.ok => set.layers = artifact.cache
    BY <1>1, SetFamily
<1> HIDE DEF set
<1>3. /\ layers' = set.layers
      /\ cached' = artifact.type
      /\ text' = artifact.text
      /\ offset' = at
      /\ phase' = IF set.ok THEN "restored" ELSE "failed"
      /\ answer' = NoAnswer
      /\ UNCHANGED <<family, artifact>>
    BY DEF Loaded, set
<1>4. TypeOK'
    BY <1>1, <1>3 DEF Shaped, TypeOK, Phases
<1>5. ArtifactOK'
    BY <1>3 DEF Shaped, ArtifactOK
<1>6. LayersOK'
    BY <1>1, <1>2, <1>3 DEF LayersOK, Settled
<1>7. PhaseOK'
    BY <1>3 DEF PhaseOK, Settled
<1>8. RefusedOK'
    BY <1>3 DEF RefusedOK
<1>9. QED
    BY <1>4, <1>5, <1>6, <1>7, <1>8 DEF Shaped

\* The third dimension is the number of cells, but of the families that infer misreads
\* and falcon.
LEMMA CellsCounted ==
    ASSUME Shaped, artifact.kept = "file"
    PROVE  /\ ThirdDimension(artifact.cache) \in Nat
           /\ ThirdDimension(artifact.cache) # Len(artifact.text) => family \in Transposed \cup {"falcon"}
<1>1. artifact # NoArtifact
    BY DEF NoArtifact
<1>2. family \in Families /\ family \notin Mambas /\ family # "rwkv6"
      /\ Sizes(family, artifact.cache, Len(artifact.text)) /\ Len(artifact.text) \in Nat
    BY <1>1, AdaptersAssumption DEF Shaped, TypeOK, ArtifactOK
<1>3. Len(artifact.cache[1]) = Len(artifact.text)
    <2>1. family \in Decoding /\ 1 \in 1..Depth
        BY <1>2, TensorsAssumption DEF Decoding, Mambas
    <2>2. IsList(artifact.cache[1], Len(artifact.text))
        BY <1>2, <2>1 DEF Sizes
    <2>3. QED
        BY <1>2, <2>2, ListLen
<1>4. CASE family = "falcon"
    BY <1>4, AdaptersAssumption DEF ThirdDimension
<1>5. CASE family \in {"chatglm", "glm4"}
    BY <1>5, AdaptersAssumption DEF ThirdDimension, Transposed
<1>6. CASE family = "deepseek2"
    BY <1>6, AdaptersAssumption DEF ThirdDimension, Transposed
<1>7. CASE family \notin {"falcon", "chatglm", "glm4", "deepseek2"}
    <2>1. ThirdDimension(artifact.cache) = Len(artifact.cache[1])
        BY <1>7 DEF ThirdDimension
    <2>2. QED
        BY <1>2, <1>3, <2>1
<1>8. QED
    BY <1>4, <1>5, <1>6, <1>7

\* A process begins with nothing cached.
LEMMA InitShaped == Init => Shaped
<1> SUFFICES ASSUME Init PROVE Shaped
    OBVIOUS
<1>1. TypeOK
    BY EmptySeq DEF Init, TypeOK, Phases
<1>2. ArtifactOK
    BY DEF Init, ArtifactOK
<1>3. LayersOK
    BY DEF Init, LayersOK, Settled
<1>4. PhaseOK
    BY DEF Init, PhaseOK, Settled
<1>5. RefusedOK
    BY DEF Init, RefusedOK
<1>6. QED
    BY <1>1, <1>2, <1>3, <1>4, <1>5 DEF Shaped

\* Every step keeps it.
LEMMA NextShaped == Shaped /\ [Next]_vars => Shaped'
<1> SUFFICES ASSUME Shaped, [Next]_vars PROVE Shaped'
    OBVIOUS
<1>1. TypeOK /\ ArtifactOK /\ LayersOK /\ PhaseOK /\ RefusedOK
    BY DEF Shaped
<1>2. /\ family \in Families /\ text \in Seq(Token) /\ offset \in Nat /\ Len(text) \in Nat
      /\ type \in NumberType /\ cached \in NumberType
    BY <1>1, AdaptersAssumption DEF TypeOK
<1>3. ASSUME NEW context \in Context, Prefill(context)
      PROVE  Shaped'
    <2>1. context \in Seq(Token) /\ context # <<>>
        BY AdaptersAssumption
    <2>2. Sizes(family, Cleared(family), 0)
        BY <1>2, ClearedSizes
    <2>3. <<>> \in Seq(Token) /\ Len(<<>>) = 0
        BY EmptySeq
    <2>4. Taken(Cleared(family), type, <<>>, context, 0, "prefilled")
        BY <1>3 DEF Prefill
    <2>5. QED
        BY <1>2, <2>1, <2>2, <2>3, <2>4, TakenShaped
<1>4. CASE Capture
    <2> DEFINE get == GetKvCache(family, layers)
    <2>1. Settled /\ phase = "prefilled"
        BY <1>4 DEF Capture, Settled
    <2>2. text # <<>> /\ Sizes(family, layers, Len(text)) /\ Len(text) # 0
        BY <1>1, <1>2, <2>1, EmptySeq DEF LayersOK
    <2>3. /\ get.ok <=> family \notin Mambas
          /\ get.ok => get.layers = layers
        BY <1>2, <2>2, GetFamily
    <2> HIDE DEF get
    <2>4. /\ phase' = IF get.ok THEN "captured" ELSE "failed"
          /\ artifact' = IF get.ok THEN [kept |-> "memory", cache |-> get.layers, text |-> text, type |-> cached]
                       ELSE artifact
          /\ UNCHANGED <<family, type, layers, cached, text, offset>>
          /\ answer' = NoAnswer
        BY <1>4 DEF Capture, get
    <2>5. TypeOK'
        BY <1>1, <2>4 DEF TypeOK, Phases
    <2>6. ArtifactOK'
        <3>1. CASE get.ok
            BY <1>2, <2>2, <2>3, <2>4, <3>1 DEF ArtifactOK
        <3>2. CASE ~get.ok
            BY <1>1, <2>4, <3>2 DEF ArtifactOK
        <3>3. QED
            BY <3>1, <3>2
    <2>7. LayersOK'
        BY <2>2, <2>4 DEF LayersOK
    <2>8. PhaseOK'
        <3>1. offset = Len(text)
            BY <1>1, <2>1 DEF PhaseOK
        <3>2. get.ok => artifact' # NoArtifact
            BY <2>4 DEF NoArtifact
        <3>3. QED
            BY <2>4, <3>1, <3>2 DEF PhaseOK
    <2>9. RefusedOK'
        BY <2>4 DEF RefusedOK
    <2>10. QED
        BY <2>5, <2>6, <2>7, <2>8, <2>9 DEF Shaped
<1>5. CASE Save
    <2>1. phase = "captured" /\ artifact # NoArtifact /\ Settled /\ UNCHANGED <<family, type, layers, cached, text, offset, answer>>
        BY <1>1, <1>5 DEF Save, PhaseOK, Settled
    <2>2. CASE Dimensions > 2 /\ artifact' = [artifact EXCEPT !.kept = "file"] /\ UNCHANGED phase
        <3>1. family # "rwkv6"
            BY <2>2 DEF Dimensions
        <3>2. artifact' = [kept |-> "file", cache |-> artifact.cache, text |-> artifact.text, type |-> artifact.type]
            BY <1>1, <2>1, <2>2 DEF ArtifactOK
        <3>3. ArtifactOK'
            BY <1>1, <2>1, <3>1, <3>2 DEF ArtifactOK
        <3>4. artifact' # NoArtifact
            BY <3>2 DEF NoArtifact
        <3>5. TypeOK' /\ LayersOK' /\ RefusedOK'
            BY <1>1, <2>1, <2>2 DEF TypeOK, LayersOK, RefusedOK, Settled
        <3>6. PhaseOK'
            BY <1>1, <2>1, <2>2, <3>4 DEF PhaseOK, Settled
        <3>7. QED
            BY <3>3, <3>5, <3>6 DEF Shaped
    <2>3. CASE phase' = "failed" /\ UNCHANGED artifact
        <3>1. TypeOK' /\ LayersOK' /\ RefusedOK' /\ ArtifactOK'
            BY <1>1, <2>1, <2>3 DEF TypeOK, LayersOK, RefusedOK, ArtifactOK, Settled, Phases
        <3>2. PhaseOK'
            BY <1>1, <2>1, <2>3 DEF PhaseOK, Settled
        <3>3. QED
            BY <3>1, <3>2 DEF Shaped
    <2>4. QED
        BY <1>5, <2>2, <2>3 DEF Save
<1>6. CASE Restore
    <2>1. artifact # NoArtifact /\ Loaded(layers, Len(artifact.text)) /\ type' \in NumberType
        BY <1>2, <1>6 DEF Restore
    <2>2. Len(artifact.text) \in Nat
        BY <1>1, <2>1 DEF ArtifactOK
    <2>3. QED
        BY <2>1, <2>2, LoadedShaped
<1>7. CASE Infer
    <2>1. artifact.kept = "file" /\ Loaded(Cleared(family), ThirdDimension(artifact.cache))
          /\ type' \in NumberType
        BY <1>7 DEF Infer, NumberType
    <2>2. artifact # NoArtifact
        BY <2>1 DEF NoArtifact
    <2>3. ThirdDimension(artifact.cache) \in Nat
          /\ (ThirdDimension(artifact.cache) # Len(artifact.text) => family \in Transposed \cup {"falcon"})
        BY <2>1, CellsCounted
    <2>4. QED
        BY <2>1, <2>2, <2>3, LoadedShaped
<1>8. ASSUME NEW question \in Question, Continue(question)
      PROVE  Shaped'
    <2>1. phase = "restored" /\ Settled /\ Taken(layers, cached, text, question, offset, "continued")
        BY <1>8 DEF Continue, Settled
    <2>2. question \in Seq(Token) /\ question # <<>>
        BY AdaptersAssumption
    <2>3. Sizes(family, layers, Len(text))
          /\ (offset # Len(text) => family \in Transposed \cup {"falcon"})
        BY <1>1, <2>1 DEF LayersOK, PhaseOK
    <2>4. QED
        BY <1>2, <2>1, <2>2, <2>3, TakenShaped
<1>9. ASSUME NEW token \in Token, Decode(token)
      PROVE  Shaped'
    <2>1. phase \in {"prefilled", "continued"} /\ Settled /\ Taken(layers, cached, text, <<token>>, offset, "continued")
        BY <1>9 DEF Decode, Settled
    <2>2. <<token>> \in Seq(Token) /\ <<token>> # <<>>
        OBVIOUS
    <2>3. Sizes(family, layers, Len(text))
          /\ (offset # Len(text) => family \in Transposed \cup {"falcon"})
        BY <1>1, <2>1 DEF LayersOK, PhaseOK
    <2>4. QED
        BY <1>2, <2>1, <2>2, <2>3, TakenShaped
<1>10. CASE NextProcess
    <2>1. TypeOK'
        BY <1>1, <1>10, EmptySeq DEF NextProcess, TypeOK, Phases
    <2>2. ArtifactOK'
        BY <1>1, <1>10 DEF NextProcess, ArtifactOK
    <2>3. LayersOK' /\ PhaseOK' /\ RefusedOK'
        BY <1>10 DEF NextProcess, LayersOK, PhaseOK, RefusedOK, Settled
    <2>4. QED
        BY <2>1, <2>2, <2>3 DEF Shaped
<1>11. CASE UNCHANGED vars
    BY <1>1, <1>11 DEF vars, Shaped, TypeOK, ArtifactOK, LayersOK, PhaseOK, RefusedOK, Settled
<1>12. QED
    BY <1>3, <1>4, <1>5, <1>6, <1>7, <1>8, <1>9, <1>10, <1>11 DEF Next

\* In every state the caches are as long as the text, and a call at the right
\* position was refused only for its size.
THEOREM ShapesKept == Spec => []Shaped
BY InitShaped, NextShaped, PTL DEF Spec

\* The only families that are ever asked at a wrong position, and answer, are those
\* whose tensors infer.rs:41 misreads: falcon refuses there (falcon.rs).
THEOREM MisplacedOnlyTransposed == Spec => []OnlyTransposedMisplaced
<1>1. Shaped => OnlyTransposedMisplaced
    <2>1. SUFFICES ASSUME Shaped, answer # NoAnswer, offset # Len(text)
                   PROVE  family \in {"chatglm", "glm4", "deepseek2"}
        BY DEF OnlyTransposedMisplaced
    <2>2. phase \in {"prefilled", "continued"} /\ Settled
        BY <2>1 DEF Shaped, PhaseOK, Settled
    <2>3. QED
        BY <2>1, <2>2 DEF Shaped, PhaseOK, Transposed
<1>2. QED
    BY <1>1, ShapesKept, PTL

\* A text of which a piece is refused at its right position is refused at once too.
THEOREM PiecesAccepted == Spec => []ReuseAccepted
<1>1. Shaped => ReuseAccepted
    <2>1. SUFFICES ASSUME Shaped, phase = "refused", offset = Len(text), cached = type,
                          ~(family = "olmo" /\ type = "f16")
                   PROVE  ~Forward(family, Call(Cleared(family), text, 0, type)).ok
        BY DEF ReuseAccepted
    <2>2. /\ family \in Families /\ type \in NumberType /\ text \in Seq(Token) /\ text # <<>>
          /\ ~Accepts(family, type, 0, Len(text))
        BY <2>1, AdaptersAssumption DEF Shaped, TypeOK, RefusedOK
    <2>3. Sizes(family, Cleared(family), 0)
        BY <2>2, ClearedSizes
    <2> DEFINE pass == Forward(family, Call(Cleared(family), text, 0, type))
    <2>4. ForwardShape(pass, family, type, 0, 0, Len(text))
        BY <2>2, <2>3, ForwardShapes
    <2> HIDE DEF pass
    <2>5. ~pass.ok
        BY <2>2, <2>4 DEF ForwardShape
    <2>6. QED
        BY <2>5 DEF pass
<1>2. QED
    BY <1>1, ShapesKept, PTL

(***************************************************************************)
(* The whole text: what a token becomes depends on it and those before it  *)
(***************************************************************************)
AttendingAt(f, xs, i) ==
    [query |-> xs[i], at |-> Placed(f, i),
     over |-> [j \in Seen(f, i) |-> [key |-> xs[j], at |-> Placed(f, j)]]]
Output(f, e, x) ==
    IF f = "granite_moe" THEN [expert |-> e, of |-> [expert |-> e, of |-> x]] ELSE [expert |-> e, of |-> x]
ConsultingAt(f, x, token) ==
    [row |-> x, experts |-> {[output |-> Output(f, e, x), gate |-> Gate(token, e)] : e \in Range(Route[token])}]
ConvolvingAt(xs, i) == [input |-> xs[i], past |-> Convolved(xs, i)]
MixingAt(xs, i) == [token |-> Attention(xs, i), before |-> Attention(xs, i - 1)]
WholeAt(f, xs, t, i) ==
    CASE f \in Mambas -> ConvolvingAt(xs, i)
      [] f = "rwkv6" -> MixingAt(xs, i)
      [] f \in {"granite_moe", "deepseek2"} -> ConsultingAt(f, AttendingAt(f, xs, i), t[i])
      [] OTHER -> AttendingAt(f, xs, i)

\* A layer over the whole text, token by token.
LEMMA WholeLayerAt ==
    ASSUME NEW f, NEW n \in Nat, NEW xs, IsList(xs, n), NEW t
    PROVE  WholeLayer(f, xs, t) = [i \in 1..n |-> WholeAt(f, xs, t, i)]
<1>1. Len(xs) = n
    BY ListLen
<1>2. CASE f \in Mambas
    <2>1. WholeLayer(f, xs, t) = Convolving(xs)
        BY <1>2 DEF WholeLayer, Mambas
    <2>2. Convolving(xs) = [i \in 1..n |-> ConvolvingAt(xs, i)]
        BY <1>1 DEF Convolving, ConvolvingAt, Convolved, LastInputs, Input
    <2>3. \A i : WholeAt(f, xs, t, i) = ConvolvingAt(xs, i)
        BY <1>2 DEF WholeAt, Mambas
    <2>4. QED
        BY <2>1, <2>2, <2>3
<1>3. CASE f = "rwkv6"
    <2>1. WholeLayer(f, xs, t) = Mixing(xs)
        BY <1>3 DEF WholeLayer
    <2>2. Mixing(xs) = [i \in 1..n |-> MixingAt(xs, i)]
        <3> DEFINE Prior(ys, i) == IF i = 1 THEN Zero ELSE ys[i - 1]
                   attention == [i \in 1..n |-> [token |-> xs[i],
                                    attends |-> [k \in 1..i |-> [token |-> xs[k], before |-> Prior(xs, k)]]]]
        <3>1. Mixing(xs) = [i \in 1..n |-> [token |-> attention[i], before |-> Prior(attention, i)]]
            BY <1>1 DEF Mixing
        <3>2. ASSUME NEW i \in 1..n
              PROVE  attention[i] = Attention(xs, i)
            <4>1. \A k \in 1..i : Prior(xs, k) = Input(xs, k - 1)
                BY DEF Input
            <4>2. attention[i] = [token |-> xs[i],
                                  attends |-> [k \in 1..i |-> [token |-> xs[k], before |-> Prior(xs, k)]]]
                OBVIOUS
            <4> HIDE DEF Prior, attention
            <4>3. Attention(xs, i) = [token |-> xs[i], attends |-> Mixtures(xs, i)]
                BY DEF Attention
            <4>4. QED
                BY <4>1, <4>2, <4>3 DEF Mixtures, Mixed
        <3>3. ASSUME NEW i \in 1..n
              PROVE  Prior(attention, i) = Attention(xs, i - 1)
            <4>1. CASE i = 1
                BY <4>1 DEF Attention
            <4>2. CASE i # 1
                <5>1. i - 1 \in 1..n
                    BY <4>2
                <5>2. attention[i - 1] = Attention(xs, i - 1)
                    BY <5>1, <3>2
                <5> HIDE DEF attention
                <5>3. QED
                    BY <4>2, <5>2
            <4>3. QED
                BY <4>1, <4>2
        <3> HIDE DEF Prior, attention
        <3>4. QED
            BY <3>1, <3>2, <3>3 DEF MixingAt
    <2>3. \A i : WholeAt(f, xs, t, i) = MixingAt(xs, i)
        BY <1>3 DEF WholeAt, Mambas
    <2>4. QED
        BY <2>1, <2>2, <2>3
<1>4. Attending(f, xs) = [i \in 1..n |-> AttendingAt(f, xs, i)]
    BY <1>1 DEF Attending, AttendingAt
<1>5. CASE f \in {"granite_moe", "deepseek2"}
    <2>1. WholeLayer(f, xs, t) = Consulting(f, Attending(f, xs), t)
        BY <1>5 DEF WholeLayer
    <2>2. IsList(Attending(f, xs), n)
        BY <1>4 DEF IsList
    <2>3. Len(Attending(f, xs)) = n
        BY <2>2, ListLen
    <2>4. Consulting(f, Attending(f, xs), t) = [i \in 1..n |-> ConsultingAt(f, Attending(f, xs)[i], t[i])]
        BY <2>3 DEF Consulting, ConsultingAt, Output
    <2>5. \A i \in 1..n : Attending(f, xs)[i] = AttendingAt(f, xs, i)
        BY <1>4
    <2>6. \A i : WholeAt(f, xs, t, i) = ConsultingAt(f, AttendingAt(f, xs, i), t[i])
        BY <1>5 DEF WholeAt, Mambas
    <2>7. QED
        BY <2>1, <2>4, <2>5, <2>6
<1>6. CASE f \notin Mambas \cup {"rwkv6", "granite_moe", "deepseek2"}
    <2>1. WholeLayer(f, xs, t) = Attending(f, xs)
        BY <1>6 DEF WholeLayer, Mambas
    <2>2. \A i : WholeAt(f, xs, t, i) = AttendingAt(f, xs, i)
        BY <1>6 DEF WholeAt
    <2>3. QED
        BY <1>4, <2>1, <2>2
<1>7. QED
    BY <1>2, <1>3, <1>5, <1>6

\* What the state-space layers and the attention make of the first i inputs.
LEMMA AgreeAt ==
    ASSUME NEW i \in Nat, NEW xs, NEW ys, \A j \in 1..i : xs[j] = ys[j]
    PROVE  /\ Input(xs, i) = Input(ys, i)
           /\ LastInputs(xs, i) = LastInputs(ys, i)
           /\ Convolved(xs, i) = Convolved(ys, i)
           /\ Mixtures(xs, i) = Mixtures(ys, i)
           /\ Attention(xs, i) = Attention(ys, i)
<1>1. DConv \in Nat \ {0}
    BY RecurrentAssumption
<1>2. \A k \in Int : k <= i => Input(xs, k) = Input(ys, k)
    BY DEF Input
<1>3. \A k \in 1..i : LastInputs(xs, k) = LastInputs(ys, k)
    <2>1. TAKE k \in 1..i
    <2>2. \A d \in 1..DConv : k - DConv + d \in Int /\ k - DConv + d <= i
        BY <1>1
    <2>3. QED
        BY <1>2, <2>2 DEF LastInputs
<1>4. LastInputs(xs, i) = LastInputs(ys, i)
    <2>1. \A d \in 1..DConv : i - DConv + d \in Int /\ i - DConv + d <= i
        BY <1>1
    <2>2. QED
        BY <1>2, <2>1 DEF LastInputs
<1>5. Convolved(xs, i) = Convolved(ys, i)
    BY <1>3 DEF Convolved
<1>6. \A k \in 1..i : Mixed(xs, k) = Mixed(ys, k)
    <2>1. TAKE k \in 1..i
    <2>2. k - 1 \in Int /\ k - 1 <= i
        OBVIOUS
    <2>3. QED
        BY <1>2, <2>2 DEF Mixed
<1>7. Mixtures(xs, i) = Mixtures(ys, i)
    BY <1>6 DEF Mixtures
<1>8. Attention(xs, i) = Attention(ys, i)
    BY <1>7 DEF Attention
<1>9. QED
    BY <1>2, <1>4, <1>5, <1>7, <1>8

\* A layer makes the same of a token after the same tokens.
LEMMA WholeAgree ==
    ASSUME NEW f, NEW i \in Nat, i # 0, NEW xs, NEW ys, \A j \in 1..i : xs[j] = ys[j],
           NEW t, NEW u, t[i] = u[i]
    PROVE  WholeAt(f, xs, t, i) = WholeAt(f, ys, u, i)
<1>1. xs[i] = ys[i] /\ Convolved(xs, i) = Convolved(ys, i) /\ Attention(xs, i) = Attention(ys, i)
    BY AgreeAt
<1>2. Attention(xs, i - 1) = Attention(ys, i - 1)
    <2>1. i - 1 \in Nat /\ \A j \in 1..(i - 1) : xs[j] = ys[j]
        OBVIOUS
    <2>2. QED
        BY <2>1, AgreeAt
<1>3. AttendingAt(f, xs, i) = AttendingAt(f, ys, i)
    <2>1. \A j \in Seen(f, i) : xs[j] = ys[j]
        BY DEF Seen
    <2>2. QED
        BY <1>1, <2>1 DEF AttendingAt
<1>4. ConvolvingAt(xs, i) = ConvolvingAt(ys, i) /\ MixingAt(xs, i) = MixingAt(ys, i)
    BY <1>1, <1>2 DEF ConvolvingAt, MixingAt
<1>5. CASE f \in Mambas
    BY <1>4, <1>5 DEF WholeAt, Mambas
<1>6. CASE f = "rwkv6"
    BY <1>4, <1>6 DEF WholeAt, Mambas
<1>7. CASE f \in {"granite_moe", "deepseek2"}
    BY <1>3, <1>7 DEF WholeAt, Mambas
<1>8. CASE f \notin Mambas \cup {"rwkv6", "granite_moe", "deepseek2"}
    BY <1>3, <1>8 DEF WholeAt
<1>9. QED
    BY <1>5, <1>6, <1>7, <1>8

\* The recursion over the layers has a solution.
LEMMA AfterExists ==
    ASSUME NEW f, NEW t
    PROVE  After(f, t) = [l \in 0..Depth |-> IF l = 0 THEN WholeInputs(f, t) ELSE WholeLayer(f, After(f, t)[l - 1], t)]
<1> DEFINE start == WholeInputs(f, t)
           Upto(g, m) == g = [l \in 0..m |-> IF l = 0 THEN start ELSE WholeLayer(f, g[l - 1], t)]
           S == {m \in Nat : \E g : Upto(g, m)}
<1>1. 0 \in S
    <2>1. Upto([l \in 0..0 |-> start], 0)
        OBVIOUS
    <2>2. QED
        BY <2>1
<1>2. ASSUME NEW m \in Nat, m \in S
      PROVE  m + 1 \in S
    <2>1. PICK g : Upto(g, m)
        BY <1>2
    <2> DEFINE h == [l \in 0..(m + 1) |-> IF l <= m THEN g[l] ELSE WholeLayer(f, g[l - 1], t)]
    <2> HIDE DEF start
    <2>2. ASSUME NEW l \in 0..(m + 1)
          PROVE  h[l] = IF l = 0 THEN start ELSE WholeLayer(f, h[l - 1], t)
        <3>1. CASE l = 0
            BY <2>1, <3>1
        <3>2. CASE l # 0
            <4>1. l - 1 \in 0..m /\ h[l - 1] = g[l - 1]
                BY <3>2
            <4>2. CASE l <= m
                BY <2>1, <3>2, <4>1, <4>2
            <4>3. CASE ~(l <= m)
                BY <3>2, <4>1, <4>3
            <4>4. QED
                BY <4>2, <4>3
        <3>3. QED
            BY <3>1, <3>2
    <2>3. Upto(h, m + 1)
        BY <2>2
    <2> HIDE DEF h, Upto
    <2>4. QED
        BY <2>3
<1>3. Depth \in S
    <2> HIDE DEF S
    <2>1. QED
        BY <1>1, <1>2, NatSet, TensorsAssumption
<1>4. \E g : g = [l \in 0..Depth |-> IF l = 0 THEN WholeInputs(f, t) ELSE WholeLayer(f, g[l - 1], t)]
    BY <1>3
<1>5. QED
    BY <1>4 DEF After

\* After every layer there is a hidden state for every token.
LEMMA AfterList ==
    ASSUME NEW f, NEW n \in Nat, NEW t, Len(t) = n
    PROVE  \A l \in 0..Depth :
               /\ IsList(After(f, t)[l], n)
               /\ \A i \in 1..n :
                      After(f, t)[l][i] = IF l = 0 THEN WholeInputs(f, t)[i]
                                          ELSE WholeAt(f, After(f, t)[l - 1], t, i)
<1> DEFINE g == After(f, t)
           S == {l \in Nat : l <= Depth => IsList(g[l], n)}
<1>1. g = [l \in 0..Depth |-> IF l = 0 THEN WholeInputs(f, t) ELSE WholeLayer(f, g[l - 1], t)]
    BY AfterExists
<1> HIDE DEF g
<1>2. IsList(g[0], n) /\ g[0] = WholeInputs(f, t)
    <2>1. g[0] = WholeInputs(f, t)
        BY <1>1, TensorsAssumption
    <2>2. IsList(WholeInputs(f, t), n)
        BY DEF WholeInputs, IsList
    <2>3. QED
        BY <2>1, <2>2
<1>3. ASSUME NEW l \in Nat, l < Depth, IsList(g[l], n)
      PROVE  g[l + 1] = [i \in 1..n |-> WholeAt(f, g[l], t, i)]
    <2>1. l + 1 \in 0..Depth /\ l + 1 # 0 /\ (l + 1) - 1 = l
        BY <1>3, TensorsAssumption
    <2>2. g[l + 1] = WholeLayer(f, g[l], t)
        BY <1>1, <2>1
    <2>3. QED
        BY <1>3, <2>2, WholeLayerAt
<1>4. 0 \in S /\ \A l \in Nat : l < Depth /\ l \in S => l + 1 \in S
    <2>1. ASSUME NEW l \in Nat, l < Depth, IsList(g[l], n)
          PROVE  IsList(g[l + 1], n)
        BY <1>3, <2>1 DEF IsList
    <2>2. 0 \in S
        BY <1>2
    <2>3. ASSUME NEW l \in Nat, l < Depth, l \in S
          PROVE  l + 1 \in S
        <3>1. IsList(g[l], n)
            BY <2>3, TensorsAssumption
        <3>2. IsList(g[l + 1], n)
            BY <2>1, <2>3, <3>1
        <3>3. QED
            BY <3>2
    <2>4. QED
        BY <2>2, <2>3
<1>5. \A l \in 0..Depth : l \in S
    <2> HIDE DEF S
    <2>1. QED
        BY <1>4, UpTo, TensorsAssumption
<1>6. \A l \in 0..Depth : IsList(g[l], n)
    BY <1>5, TensorsAssumption
<1>7. ASSUME NEW l \in 0..Depth, l # 0
      PROVE  g[l] = [i \in 1..n |-> WholeAt(f, g[l - 1], t, i)]
    <2>1. l - 1 \in Nat /\ l - 1 < Depth /\ (l - 1) + 1 = l /\ l - 1 \in 0..Depth
        BY <1>7, TensorsAssumption
    <2>2. g[(l - 1) + 1] = [i \in 1..n |-> WholeAt(f, g[l - 1], t, i)]
        BY <1>3, <1>6, <2>1
    <2>3. QED
        BY <2>1, <2>2
<1>8. QED
    BY <1>2, <1>6, <1>7 DEF g

\* The hidden state of a token after the next layer.
LEMMA AfterNext ==
    ASSUME NEW f, NEW n \in Nat, NEW t, Len(t) = n, NEW l \in Nat, l < Depth, NEW i \in 1..n
    PROVE  After(f, t)[l + 1][i] = WholeAt(f, After(f, t)[l], t, i)
<1>1. l + 1 \in 0..Depth /\ l + 1 # 0 /\ (l + 1) - 1 = l
    BY TensorsAssumption
<1>2. \A k \in 0..Depth :
          /\ IsList(After(f, t)[k], n)
          /\ \A j \in 1..n : After(f, t)[k][j] = IF k = 0 THEN WholeInputs(f, t)[j]
                                                ELSE WholeAt(f, After(f, t)[k - 1], t, j)
    BY AfterList
<1>3. After(f, t)[l + 1][i] = WholeAt(f, After(f, t)[(l + 1) - 1], t, i)
    BY <1>1, <1>2
<1>4. QED
    BY <1>1, <1>3

\* The hidden states of a text are those of any text it begins.
LEMMA AfterPrefix ==
    ASSUME NEW f, NEW n \in Nat, NEW m \in Nat, m <= n, NEW s, NEW t, Len(s) = m, Len(t) = n,
           \A i \in 1..m : s[i] = t[i]
    PROVE  \A l \in 0..Depth : \A i \in 1..m : After(f, s)[l][i] = After(f, t)[l][i]
<1> DEFINE S == {l \in Nat : l <= Depth => \A i \in 1..m : After(f, s)[l][i] = After(f, t)[l][i]}
<1>1. 0 \in S
    <2>1. 0 \in 0..Depth
        BY TensorsAssumption
    <2>2. ASSUME NEW i \in 1..m
          PROVE  After(f, s)[0][i] = After(f, t)[0][i]
        <3>1. After(f, s)[0][i] = WholeInputs(f, s)[i]
            BY <2>1, AfterList
        <3>2. i \in 1..n
            OBVIOUS
        <3>3. After(f, t)[0][i] = WholeInputs(f, t)[i]
            BY <2>1, <3>2, AfterList
        <3>4. WholeInputs(f, s)[i] = WholeInputs(f, t)[i]
            BY <3>2 DEF WholeInputs
        <3>5. QED
            BY <3>1, <3>3, <3>4
    <2>3. QED
        BY <2>2
<1>2. \A l \in Nat : l < Depth => \A i \in 1..m : After(f, s)[l + 1][i] = WholeAt(f, After(f, s)[l], s, i)
    <2> HIDE DEF S
    <2>1. QED
        BY AfterNext
<1>3. \A l \in Nat : l < Depth => \A i \in 1..n : After(f, t)[l + 1][i] = WholeAt(f, After(f, t)[l], t, i)
    <2> HIDE DEF S
    <2>1. QED
        BY AfterNext
<1>4. ASSUME NEW l \in Nat, l < Depth, l \in S
      PROVE  l + 1 \in S
    <2>1. ASSUME NEW i \in 1..m
          PROVE  After(f, s)[l + 1][i] = After(f, t)[l + 1][i]
        <3>1. After(f, s)[l + 1][i] = WholeAt(f, After(f, s)[l], s, i)
            BY <1>2, <1>4
        <3>2. i \in 1..n /\ i \in Nat /\ i # 0
            OBVIOUS
        <3>3. After(f, t)[l + 1][i] = WholeAt(f, After(f, t)[l], t, i)
            BY <1>3, <1>4, <3>2
        <3>4. \A j \in 1..i : After(f, s)[l][j] = After(f, t)[l][j]
            <4>1. \A j \in 1..m : After(f, s)[l][j] = After(f, t)[l][j]
                BY <1>4, TensorsAssumption
            <4>2. \A j \in 1..i : j \in 1..m
                OBVIOUS
            <4>3. QED
                BY <4>1, <4>2
        <3>5. s[i] = t[i]
            OBVIOUS
        <3>6. WholeAt(f, After(f, s)[l], s, i) = WholeAt(f, After(f, t)[l], t, i)
            BY <3>2, <3>4, <3>5, WholeAgree
        <3>7. QED
            BY <3>1, <3>3, <3>6
    <2>2. QED
        BY <2>1
<1>5. \A l \in 0..Depth : l \in S
    <2> HIDE DEF S
    <2>1. QED
        BY <1>1, <1>4, UpTo, TensorsAssumption
<1>6. QED
    BY <1>5, TensorsAssumption

(***************************************************************************)
(* One layer of a decoder is exact                                         *)
(***************************************************************************)
\* What a layer holds of a text it holds of every text that one begins.
LEMMA CellAgree ==
    ASSUME NEW f, NEW n \in Nat, NEW xs, NEW ys, \A j \in 1..n : xs[j] = ys[j],
           NEW cell, CellOf(f, xs, n, cell)
    PROVE  CellOf(f, ys, n, cell)
<1>1. /\ Input(xs, n) = Input(ys, n)
      /\ LastInputs(xs, n) = LastInputs(ys, n)
      /\ Convolved(xs, n) = Convolved(ys, n)
      /\ Mixtures(xs, n) = Mixtures(ys, n)
      /\ Attention(xs, n) = Attention(ys, n)
    BY AgreeAt
<1>2. CASE f = "mamba"
    <2>1. \A d \in 1..DConv : n - DConv + d \in Int /\ n - DConv + d <= n
        BY RecurrentAssumption
    <2>2. \A d \in 1..DConv : Input(xs, n - DConv + d) = Input(ys, n - DConv + d)
        BY <2>1 DEF Input
    <2>3. MambaCell(xs, n, Begun(f, cell))
        BY <1>2 DEF CellOf
    <2>4. MambaCell(ys, n, Begun(f, cell))
        BY <1>1, <2>2, <2>3 DEF MambaCell
    <2>5. QED
        BY <1>2, <2>4 DEF CellOf
<1>3. CASE f = "mamba2"
    BY <1>1, <1>3 DEF CellOf, Mamba2Cell
<1>4. CASE f = "rwkv6"
    BY <1>1, <1>4 DEF CellOf, Rwkv6Cell
<1>5. CASE f \notin {"mamba", "mamba2", "rwkv6"}
    BY <1>5 DEF CellOf, DecoderCell
<1>6. QED
    BY <1>2, <1>3, <1>4, <1>5

\* A call that continues, at its right position, a text of m tokens to the text t,
\* which is not one that the code rounds or windows.
Continues(f, call, t, m) ==
    /\ CallOK(call)
    /\ m \in Nat /\ call.offset = m
    /\ t \in Seq(Token) /\ Len(t) = m + Width(call)
    /\ \A i \in 1..Width(call) : t[m + i] = call.tokens[i]
    /\ ~Rough(f, call.type, m + Width(call))
    /\ f = "starcoder2" => m = 0 \/ m + Width(call) <= Window + 1

\* The new hidden states of a layer.
NewOf(ys, m, n) == [i \in 1..n |-> ys[m + i]]

\* The new tokens are placed behind the others.
LEMMA PlaceExact ==
    ASSUME NEW f, NEW call, NEW t, NEW m, Continues(f, call, t, m), NEW i \in 1..Width(call)
    PROVE  Place(f, call, i) = Placed(f, m + i)
<1>1. m \in Nat /\ Width(call) \in Nat /\ call.offset = m /\ HalfExact \in Nat
    BY TensorsAssumption DEF Continues, CallOK, Width
<1>2. CASE f \in LearnedPositions \cup NoPositions
    BY <1>2 DEF Place, Placed
<1>3. CASE f \notin LearnedPositions \cup NoPositions /\ f \in HalfTables
    <2>1. call.type = "f32" \/ m + i - 1 <= HalfExact
        <3>1. call.type \in {"f16", "f32"}
            BY DEF Continues, CallOK, NumberType
        <3>2. CASE call.type = "f16"
            <4>1. m + Width(call) <= HalfExact + 1
                BY <1>1, <1>3, <3>2 DEF Continues, Rough
            <4>2. QED
                BY <1>1, <4>1
        <3>3. QED
            BY <3>1, <3>2
    <2>2. Converted(m + i - 1, call.type) = m + i - 1
        BY <2>1 DEF Converted
    <2>3. QED
        BY <1>1, <1>3, <2>2 DEF Place, Placed
<1>4. CASE f \notin LearnedPositions \cup NoPositions /\ f \notin HalfTables
    BY <1>1, <1>4 DEF Place, Placed
<1>5. QED
    BY <1>2, <1>3, <1>4

\* A new token attends to all up to it, and in starcoder2 to a window of them.
LEMMA SeenExact ==
    ASSUME NEW f \in Decoding, NEW call, NEW t, NEW m, Continues(f, call, t, m), NEW i \in 1..Width(call),
           FitsOf(f, call, m, Width(call))
    PROVE  {j \in 1..(m + Width(call)) : <<i, j>> \notin MaskOf(f, call).hides} = Seen(f, m + i)
<1>1. m \in Nat /\ Width(call) \in Nat /\ Width(call) # 0 /\ call.offset = m /\ CallOK(call) /\ Window \in Nat
    BY DecodersAssumption DEF Continues, CallOK, Width
<1>2. f = "starcoder2" => m = 0 \/ m + Width(call) <= Window + 1
    BY DEF Continues
<1>3. CASE Width(call) = 1
    <2>1. MaskOf(f, call) = NoMask
        <3>1. MaskParts(f, call, MaskOf(f, call))
            BY <1>1, MaskOfFamily
        <3>2. QED
            BY <1>3, <3>1 DEF MaskParts
    <2>2. MaskOf(f, call).hides = {}
        BY <2>1 DEF NoMask, Mask
    <2>3. i = 1
        BY <1>3
    <2>4. Seen(f, m + 1) = 1..(m + 1)
        <3>1. \A j \in 1..(m + 1) : f = "starcoder2" => j + Window >= m + 1
            BY <1>1, <1>2, <1>3
        <3>2. QED
            BY <3>1 DEF Seen
    <2>5. QED
        BY <1>3, <2>2, <2>3, <2>4
<1>4. CASE Width(call) # 1 /\ f = "starcoder2"
    <2>1. MaskOf(f, call).hides =
              {at \in (1..Width(call)) \X ((call.offset + 1)..(call.offset + Width(call))) :
                  at[2] > at[1] + call.offset \/ at[2] + Window < at[1] + call.offset}
        <3>1. MaskOf(f, call) = Starcoder2Mask(call)
            BY <1>4 DEF MaskOf
        <3>2. ~(Width(call) <= 1)
            BY <1>1, <1>4
        <3>3. QED
            BY <3>1, <3>2 DEF Starcoder2Mask, Mask
    <2>2. ASSUME NEW j \in 1..(m + Width(call))
          PROVE  <<i, j>> \in MaskOf(f, call).hides <=>
                     j >= m + 1 /\ (j > i + m \/ j + Window < i + m)
        <3>1. <<i, j>> \in MaskOf(f, call).hides <=>
                  <<i, j>> \in (1..Width(call)) \X ((m + 1)..(m + Width(call)))
                  /\ (j > i + m \/ j + Window < i + m)
            BY <1>1, <2>1
        <3>2. QED
            BY <1>1, <3>1
    <2>3. ASSUME NEW j \in 1..(m + Width(call))
          PROVE  ~(j >= m + 1 /\ (j > i + m \/ j + Window < i + m)) <=> j \in 1..(m + i) /\ j + Window >= m + i
        BY <1>1, <1>2, <1>4
    <2>4. 1..(m + i) \subseteq 1..(m + Width(call))
        BY <1>1
    <2>5. Seen(f, m + i) = {j \in 1..(m + i) : j + Window >= m + i}
        BY <1>4 DEF Seen
    <2>6. QED
        BY <2>2, <2>3, <2>4, <2>5
<1>5. CASE Width(call) # 1 /\ f # "starcoder2"
    <2>1. f # "llama" /\ ~(f = "olmo" /\ call.offset > 0 /\ call.type # "f32")
        <3>1. Fitting(f, call.type, m, call.offset, Width(call))
            BY <1>1, FitsOfFamily
        <3>2. QED
            BY <1>1, <1>5, <3>1 DEF Fitting
    <2>2. MaskOf(f, call).hides = Later(call)
        <3>1. ~(Width(call) <= 1)
            BY <1>1, <1>5
        <3>2. CASE f = "olmo"
            <4>1. MaskOf(f, call) = OlmoMask(call)
                BY <3>2 DEF MaskOf
            <4>2. QED
                BY <2>1, <3>1, <3>2, <4>1 DEF OlmoMask, Mask
        <3>3. CASE f \in {"falcon", "chatglm", "glm4"}
            <4>1. MaskOf(f, call) = ChatGlmMask(call)
                BY <3>3 DEF MaskOf
            <4>2. QED
                BY <3>1, <4>1 DEF ChatGlmMask, Mask
        <3>4. CASE f \notin {"olmo", "falcon", "chatglm", "glm4"}
            <4>1. MaskOf(f, call) = CausalMask(call, call.type)
                BY <1>5, <2>1, <3>4 DEF MaskOf
            <4>2. QED
                BY <1>5, <4>1 DEF CausalMask, Mask
        <3>5. QED
            BY <3>2, <3>3, <3>4
    <2>3. ASSUME NEW j \in 1..(m + Width(call))
          PROVE  <<i, j>> \in MaskOf(f, call).hides <=> j > i + m
        <3>1. <<i, j>> \in MaskOf(f, call).hides <=>
                  <<i, j>> \in (1..Width(call)) \X (1..(m + Width(call))) /\ j > i + m
            BY <1>1, <2>2 DEF Later
        <3>2. QED
            BY <3>1
    <2>4. ASSUME NEW j \in 1..(m + Width(call))
          PROVE  ~(j > i + m) <=> j \in 1..(m + i)
        BY <1>1
    <2>5. 1..(m + i) \subseteq 1..(m + Width(call))
        BY <1>1
    <2>6. Seen(f, m + i) = 1..(m + i)
        BY <1>5 DEF Seen
    <2>7. QED
        BY <2>3, <2>4, <2>5, <2>6
<1>6. QED
    BY <1>3, <1>4, <1>5

\* The attention of a decoder, on the cells of a text, caches those of the longer
\* one, and gives every new token what it attends to in it.
LEMMA AttentionExact ==
    ASSUME NEW f \in Decoding, NEW call, NEW t, NEW m, Continues(f, call, t, m),
           FitsOf(f, call, m, Width(call)), NEW ys, NEW cells, DecoderCell(f, ys, m, cells)
    PROVE  /\ DecoderCell(f, ys, m + Width(call), AllCells(f, call, cells, NewOf(ys, m, Width(call)), m))
           /\ Attends(f, call, cells, NewOf(ys, m, Width(call)), m) =
                  [i \in 1..Width(call) |-> AttendingAt(f, ys, m + i)]
<1> DEFINE xs == NewOf(ys, m, Width(call))
           Cell(j) == [key |-> ys[j], at |-> Placed(f, j)]
           all == AllCells(f, call, cells, xs, m)
<1>1. m \in Nat /\ Width(call) \in Nat
    BY DEF Continues, CallOK, Width
<1>2. all = [j \in 1..(m + Width(call)) |-> Cell(j)]
    <2>1. ASSUME NEW j \in 1..(m + Width(call))
          PROVE  (IF j <= m THEN cells[j] ELSE [key |-> xs[j - m], at |-> Place(f, call, j - m)]) = Cell(j)
        <3>1. CASE j <= m
            <4>1. j \in 1..m
                BY <1>1, <3>1
            <4>2. QED
                BY <3>1, <4>1 DEF DecoderCell
        <3>2. CASE ~(j <= m)
            <4>1. j - m \in 1..Width(call) /\ m + (j - m) = j
                BY <1>1, <3>2
            <4>2. Place(f, call, j - m) = Placed(f, m + (j - m))
                BY <4>1, PlaceExact
            <4>3. xs[j - m] = ys[m + (j - m)]
                BY <4>1 DEF NewOf
            <4> HIDE DEF xs
            <4>4. QED
                BY <3>2, <4>1, <4>2, <4>3
        <3>3. QED
            BY <3>1, <3>2
    <2> HIDE DEF xs, Cell
    <2>2. QED
        BY <2>1 DEF AllCells
<1>3. DecoderCell(f, ys, m + Width(call), all)
    <2> HIDE DEF all
    <2>1. QED
        BY <1>2 DEF DecoderCell
<1>4. ASSUME NEW i \in 1..Width(call)
      PROVE  [query |-> xs[i], at |-> Place(f, call, i),
              over |-> [j \in {j \in 1..(m + Width(call)) : <<i, j>> \notin MaskOf(f, call).hides} |-> all[j]]]
             = AttendingAt(f, ys, m + i)
    <2>1. xs[i] = ys[m + i]
        BY DEF NewOf
    <2>2. Place(f, call, i) = Placed(f, m + i)
        BY PlaceExact
    <2>3. {j \in 1..(m + Width(call)) : <<i, j>> \notin MaskOf(f, call).hides} = Seen(f, m + i)
        BY SeenExact
    <2>4. \A j \in Seen(f, m + i) : j \in 1..(m + Width(call))
        BY <2>3
    <2> HIDE DEF xs, all
    <2>5. [j \in Seen(f, m + i) |-> all[j]] = [j \in Seen(f, m + i) |-> Cell(j)]
        BY <1>2, <2>4
    <2>6. QED
        BY <2>1, <2>2, <2>3, <2>5 DEF AttendingAt
<1>5. Attends(f, call, cells, xs, m) = [i \in 1..Width(call) |-> AttendingAt(f, ys, m + i)]
    <2> HIDE DEF xs
    <2>1. QED
        BY <1>4 DEF Attends
<1>6. QED
    BY <1>3, <1>5

(***************************************************************************)
(* One layer of a state-space model is exact                               *)
(***************************************************************************)
\* rwkv6 mixes the one new token with the one before it, twice.
LEMMA Rwkv6Exact ==
    ASSUME NEW m \in Nat, NEW ys, NEW cell, Rwkv6Cell(ys, m, cell), NEW xs, Len(xs) = 1, xs[1] = ys[m + 1]
    PROVE  /\ Rwkv6Cell(ys, m + 1, Rwkv6Block(cell, xs, "f32").cells)
           /\ Rwkv6Block(cell, xs, "f32").xs = <<MixingAt(ys, m + 1)>>
<1>1. (m + 1) - 1 = m /\ m + 1 >= 1 /\ 1..m \subseteq 1..(m + 1)
    OBVIOUS
<1>2. cell = [shift |-> Input(ys, m), linear |-> Mixtures(ys, m), feed |-> Attention(ys, m)]
    BY DEF Rwkv6Cell
<1> DEFINE mixed == [token |-> xs[1], before |-> cell.shift]
<1>3. mixed = Mixed(ys, m + 1)
    BY <1>1, <1>2 DEF Mixed
<1>4. Append(cell.linear, mixed) = Mixtures(ys, m + 1)
    <2>1. IsList(Mixtures(ys, m), m)
        BY DEF Mixtures, IsList
    <2> HIDE DEF mixed
    <2>2. cell.linear = Mixtures(ys, m)
        BY <1>2
    <2>3. Append(Mixtures(ys, m), mixed) = [j \in 1..(m + 1) |-> IF j <= m THEN Mixtures(ys, m)[j] ELSE mixed]
        BY <2>1, AppendList
    <2>4. \A j \in 1..(m + 1) : (IF j <= m THEN Mixtures(ys, m)[j] ELSE mixed) = Mixed(ys, j)
        <3>1. TAKE j \in 1..(m + 1)
        <3>2. CASE j <= m
            BY <3>2 DEF Mixtures
        <3>3. CASE ~(j <= m)
            <4>1. j = m + 1
                BY <3>3
            <4>2. QED
                BY <1>3, <3>3, <4>1
        <3>4. QED
            BY <3>2, <3>3
    <2>5. QED
        BY <2>2, <2>3, <2>4 DEF Mixtures
<1> DEFINE attention == Rwkv6Attention(cell, xs, "f32")
<1>5. attention.ok /\ attention.x = Attention(ys, m + 1)
      /\ attention.state = [shift |-> Input(ys, m + 1), linear |-> Mixtures(ys, m + 1), feed |-> Attention(ys, m)]
    <2>1. attention = [ok |-> Len(xs) = 1 /\ "f32" = "f32",
                       state |-> [cell EXCEPT !.shift = xs[1], !.linear = Append(cell.linear, mixed)],
                       x |-> [token |-> xs[1], attends |-> Append(cell.linear, mixed)]]
        BY DEF Rwkv6Attention
    <2>2. [cell EXCEPT !.shift = xs[1], !.linear = Append(cell.linear, mixed)] =
              [shift |-> xs[1], linear |-> Append(cell.linear, mixed), feed |-> Attention(ys, m)]
        <3> HIDE DEF mixed
        <3>1. \A l : [cell EXCEPT !.shift = xs[1], !.linear = l] = [[cell EXCEPT !.shift = xs[1]] EXCEPT !.linear = l]
            OBVIOUS
        <3> DEFINE shifted == [cell EXCEPT !.shift = xs[1]]
                   linear == Append(cell.linear, mixed)
        <3>2. shifted = [shift |-> xs[1], linear |-> Mixtures(ys, m), feed |-> Attention(ys, m)]
            BY <1>2
        <3> HIDE DEF shifted, linear
        <3>3. [shifted EXCEPT !.linear = linear] = [shift |-> xs[1], linear |-> linear, feed |-> Attention(ys, m)]
            BY <3>2
        <3>4. [cell EXCEPT !.shift = xs[1], !.linear = linear] = [shifted EXCEPT !.linear = linear]
            BY <3>1 DEF shifted
        <3>5. QED
            BY <3>3, <3>4 DEF linear
    <2> HIDE DEF attention, mixed
    <2>3. Input(ys, m + 1) = xs[1]
        BY <1>1 DEF Input
    <2>4. Attention(ys, m + 1) = [token |-> xs[1], attends |-> Mixtures(ys, m + 1)]
        BY <1>1 DEF Attention
    <2>5. QED
        BY <1>4, <2>1, <2>2, <2>3, <2>4
<1>6. Rwkv6Block(cell, xs, "f32") =
          [ok |-> TRUE, cells |-> [attention.state EXCEPT !.feed = attention.x],
           xs |-> <<[token |-> attention.x, before |-> attention.state.feed]>>]
    BY <1>5 DEF Rwkv6Block, Rwkv6FeedForward
<1> HIDE DEF attention
<1>7. QED
    BY <1>1, <1>5, <1>6 DEF Rwkv6Cell, MixingAt

\* Positions less than DConv apart are different places of a ring.
LEMMA RingApart ==
    ASSUME NEW D \in Nat \ {0}, NEW n \in Nat, NEW d \in 1..(D - 1)
    PROVE  (n + d) % D # n % D
<1> DEFINE q == n \div D
           p == (n + d) \div D
           r == n % D
           s == (n + d) % D
<1>1. n = D * q + r /\ n + d = D * p + s /\ q \in Int /\ p \in Int /\ r \in Int /\ s \in Int
    OBVIOUS
<1> HIDE DEF q, p, r, s
<1>2. SUFFICES ASSUME r = s PROVE FALSE
    BY DEF r, s
<1>3. \A k \in Int : (k >= 1 => D * k >= D) /\ (k <= 0 => D * k <= 0)
    OBVIOUS
<1>4. \A x, y \in Int : D * (x - y) = D * x - D * y
    OBVIOUS
<1>5. D * (p - q) = d
    <2>1. D * (p - q) = D * p - D * q /\ D * p \in Int /\ D * q \in Int
        BY <1>1, <1>4
    <2>2. QED
        BY <1>1, <1>2, <2>1
<1>6. p - q \in Int /\ d \in Int /\ d >= 1 /\ d < D
    BY <1>1
<1>7. QED
    BY <1>3, <1>5, <1>6

\* And positions DConv apart the same.
LEMMA RingAround ==
    ASSUME NEW D \in Nat \ {0}, NEW n \in Nat
    PROVE  (n + D) % D = n % D
<1> DEFINE q == n \div D
           p == (n + D) \div D
           r == n % D
           s == (n + D) % D
<1>1. n = D * q + r /\ n + D = D * p + s /\ q \in Int /\ p \in Int /\ r \in 0..(D - 1) /\ s \in 0..(D - 1)
    OBVIOUS
<1> HIDE DEF q, p, r, s
<1>2. \A k \in Int : (k >= 2 => D * k >= D + D) /\ (k <= 0 => D * k <= 0) /\ (k = 1 => D * k = D)
    OBVIOUS
<1>3. \A x, y \in Int : D * (x - y) = D * x - D * y
    OBVIOUS
<1>4. D * (p - q) = D + r - s
    <2>1. D * (p - q) = D * p - D * q /\ D * p \in Int /\ D * q \in Int
        BY <1>1, <1>3
    <2>2. QED
        BY <1>1, <2>1
<1>5. p - q \in Int /\ D + r - s >= 1 /\ D + r - s < D + D
    BY <1>1
<1>6. p - q = 1
    BY <1>2, <1>4, <1>5
<1>7. r = s
    BY <1>1, <1>2, <1>4, <1>6
<1>8. QED
    BY <1>7 DEF r, s

\* One more input is appended to those a state was folded from.
LEMMA ConvolvedNext ==
    ASSUME NEW n \in Nat, NEW xs
    PROVE  Append(Convolved(xs, n), LastInputs(xs, n + 1)) = Convolved(xs, n + 1)
<1>1. IsList(Convolved(xs, n), n)
    BY DEF Convolved, IsList
<1>2. Append(Convolved(xs, n), LastInputs(xs, n + 1)) =
          [j \in 1..(n + 1) |-> IF j <= n THEN Convolved(xs, n)[j] ELSE LastInputs(xs, n + 1)]
    <2> DEFINE list == Convolved(xs, n)
               last == LastInputs(xs, n + 1)
    <2>1. IsList(list, n)
        BY <1>1
    <2> HIDE DEF list, last
    <2>2. Append(list, last) = [j \in 1..(n + 1) |-> IF j <= n THEN list[j] ELSE last]
        BY <2>1, AppendList
    <2>3. QED
        BY <2>2 DEF list, last
<1>3. \A j \in 1..(n + 1) : (IF j <= n THEN Convolved(xs, n)[j] ELSE LastInputs(xs, n + 1)) = LastInputs(xs, j)
    <2>1. TAKE j \in 1..(n + 1)
    <2>2. CASE j <= n
        BY <2>2 DEF Convolved
    <2>3. CASE ~(j <= n)
        <3>1. j = n + 1
            BY <2>3
        <3>2. QED
            BY <2>3, <3>1
    <2>4. QED
        BY <2>2, <2>3
<1>4. QED
    BY <1>2, <1>3 DEF Convolved

\* One token through a layer of mamba: the ring is overwritten at its position.
LEMMA MambaStep ==
    ASSUME NEW n \in Nat, NEW xs, NEW cell, MambaCell(xs, n, cell)
    PROVE  /\ MambaCell(xs, n + 1, MambaBlock(cell, xs[n + 1], n).cell)
           /\ MambaBlock(cell, xs[n + 1], n).y = ConvolvingAt(xs, n + 1)
<1> DEFINE x == xs[n + 1]
           ring == [cell.ring EXCEPT ![n % DConv] = x]
           window == [d \in 1..DConv |-> ring[(d + n) % DConv]]
<1>1. DConv \in Nat \ {0}
    BY RecurrentAssumption
<1>2. cell.past = Convolved(xs, n) /\ cell.ring = [d \in 0..(DConv - 1) |-> cell.ring[d]]
    <2>1. cell = [past |-> Convolved(xs, n), ring |-> [d \in 0..(DConv - 1) |-> cell.ring[d]]]
        BY DEF MambaCell
    <2> DEFINE held == [d \in 0..(DConv - 1) |-> cell.ring[d]]
    <2>2. cell = [past |-> Convolved(xs, n), ring |-> held]
        BY <2>1
    <2> HIDE DEF held
    <2>3. cell.past = Convolved(xs, n) /\ cell.ring = held
        BY <2>2
    <2>4. QED
        BY <2>3 DEF held
<1>3. cell = [past |-> cell.past, ring |-> cell.ring]
    BY <1>2 DEF MambaCell
<1>4. \A d \in 1..DConv : cell.ring[(n + d - 1) % DConv] = Input(xs, n - DConv + d)
    BY DEF MambaCell
<1>5. ASSUME NEW d \in 1..DConv
      PROVE  ring[(n + d) % DConv] = Input(xs, (n + 1) - DConv + d)
    <2>1. (n + d) % DConv \in 0..(DConv - 1) /\ n % DConv \in 0..(DConv - 1)
        BY <1>1
    <2>2. DOMAIN cell.ring = 0..(DConv - 1)
        BY <1>2
    <2>3. CASE d = DConv
        <3>1. (n + d) % DConv = n % DConv
            BY <1>1, <2>3, RingAround
        <3>2. (n + 1) - DConv + d = n + 1 /\ n + 1 >= 1
            BY <1>1, <2>3
        <3>3. ring[n % DConv] = x
            BY <2>1, <2>2
        <3> HIDE DEF ring
        <3>4. QED
            BY <3>1, <3>2, <3>3 DEF Input
    <2>4. CASE d # DConv
        <3>1. d \in 1..(DConv - 1) /\ d + 1 \in 1..DConv
            BY <1>1, <2>4
        <3>2. (n + d) % DConv # n % DConv
            BY <1>1, <3>1, RingApart
        <3>3. ring[(n + d) % DConv] = cell.ring[(n + d) % DConv]
            BY <2>1, <2>2, <3>2
        <3>4. cell.ring[(n + (d + 1) - 1) % DConv] = Input(xs, n - DConv + (d + 1))
            BY <1>4, <3>1
        <3>5. n + (d + 1) - 1 = n + d /\ n - DConv + (d + 1) = (n + 1) - DConv + d
            BY <1>1
        <3> HIDE DEF ring
        <3>6. QED
            BY <3>3, <3>4, <3>5
    <2>5. QED
        BY <2>3, <2>4
<1>6. window = LastInputs(xs, n + 1)
    <2>1. \A d \in 1..DConv : d + n = n + d
        OBVIOUS
    <2> HIDE DEF ring
    <2>2. QED
        BY <1>5, <2>1 DEF LastInputs
<1>7. Append(cell.past, window) = Convolved(xs, n + 1)
    <2> HIDE DEF window
    <2>1. QED
        BY <1>2, <1>6, ConvolvedNext
<1>8. ring = [d \in 0..(DConv - 1) |-> ring[d]]
    BY <1>2
<1>9. MambaBlock(cell, x, n) = [cell |-> [past |-> Convolved(xs, n + 1), ring |-> ring],
                                y |-> [input |-> x, past |-> Convolved(xs, n + 1)]]
    <2>1. MambaBlock(cell, x, n) = Folded([cell EXCEPT !.ring = ring], x, window)
        BY DEF MambaBlock
    <2> HIDE DEF window, ring, x
    <2>2. [cell EXCEPT !.ring = ring] = [past |-> cell.past, ring |-> ring]
        BY <1>3
    <2> DEFINE turned == [past |-> cell.past, ring |-> ring]
    <2>3. turned.past = cell.past
        OBVIOUS
    <2>4. [turned EXCEPT !.past = Append(turned.past, window)] = [past |-> Convolved(xs, n + 1), ring |-> ring]
        <3>1. \A p : [turned EXCEPT !.past = p] = [past |-> p, ring |-> ring]
            <4>1. turned = [past |-> cell.past, ring |-> ring]
                OBVIOUS
            <4> HIDE DEF turned
            <4>2. TAKE p
            <4>3. QED
                BY <4>1
        <3> HIDE DEF turned
        <3>2. QED
            BY <1>7, <2>3, <3>1
    <2>5. Folded(turned, x, window) = [cell |-> [past |-> Convolved(xs, n + 1), ring |-> ring],
                                       y |-> [input |-> x, past |-> Convolved(xs, n + 1)]]
        <3> HIDE DEF turned
        <3>1. QED
            BY <1>7, <2>3, <2>4 DEF Folded
    <2>6. QED
        BY <2>1, <2>2, <2>5
<1> HIDE DEF ring, window
<1>10. MambaBlock(cell, x, n).cell = [past |-> Convolved(xs, n + 1), ring |-> ring]
       /\ MambaBlock(cell, x, n).y = [input |-> x, past |-> Convolved(xs, n + 1)]
    BY <1>9
<1>11. \A d \in 1..DConv : ring[((n + 1) + d - 1) % DConv] = Input(xs, (n + 1) - DConv + d)
    <2>1. \A d \in 1..DConv : (n + 1) + d - 1 = n + d
        BY <1>1
    <2>2. QED
        BY <1>5, <2>1
<1>12. MambaCell(xs, n + 1, [past |-> Convolved(xs, n + 1), ring |-> ring])
    BY <1>8, <1>11 DEF MambaCell
<1>13. QED
    BY <1>10, <1>12 DEF ConvolvingAt

\* A list that is shifted by one has a new last element.
LEMMA ShiftedList ==
    ASSUME NEW n \in Nat \ {0}, NEW s, IsList(s, n), NEW x
    PROVE  Append(Tail(s), x) = [d \in 1..n |-> IF d < n THEN s[d + 1] ELSE x]
<1>1. PICK S : s \in Seq(S) /\ Len(s) = n
    BY ListLen
<1>2. s \in Seq(S \cup {x}) /\ x \in S \cup {x} /\ s # <<>>
    BY <1>1, SeqMonotonic
<1>3. Tail(s) \in Seq(S \cup {x}) /\ Len(Tail(s)) = n - 1
      /\ \A i \in 1..(n - 1) : Tail(s)[i] = s[i + 1]
    BY <1>1, <1>2, HeadTailProperties
<1> DEFINE tail == Tail(s)
<1>4. tail \in Seq(S \cup {x}) /\ Len(tail) = n - 1
    BY <1>3
<1> HIDE DEF tail
<1>5. Append(tail, x) \in Seq(S \cup {x}) /\ Len(Append(tail, x)) = (n - 1) + 1
      /\ (\A i \in 1..(n - 1) : Append(tail, x)[i] = tail[i])
      /\ Append(tail, x)[(n - 1) + 1] = x
    BY <1>2, <1>4, AppendProperties
<1>6. (n - 1) + 1 = n
    OBVIOUS
<1>7. IsList(Append(tail, x), n)
    BY <1>5, <1>6, SeqList
<1>8. \A d \in 1..n : Append(tail, x)[d] = IF d < n THEN s[d + 1] ELSE x
    <2>1. TAKE d \in 1..n
    <2>2. CASE d < n
        BY <1>3, <1>5, <2>2 DEF tail
    <2>3. CASE ~(d < n)
        BY <1>5, <1>6, <2>3
    <2>4. QED
        BY <2>2, <2>3
<1>9. Append(tail, x) = [d \in 1..n |-> IF d < n THEN s[d + 1] ELSE x]
    BY <1>7, <1>8 DEF IsList
<1>10. QED
    BY <1>9 DEF tail

\* One token through a layer of mamba2: the inputs are shifted.
LEMMA Mamba2Step ==
    ASSUME NEW n \in Nat, NEW xs, NEW cell, Mamba2Cell(xs, n, cell)
    PROVE  /\ Mamba2Cell(xs, n + 1, Mamba2Block(cell, xs[n + 1]).cell)
           /\ Mamba2Block(cell, xs[n + 1]).y = ConvolvingAt(xs, n + 1)
<1> DEFINE x == xs[n + 1]
           conv == Mamba2Conv(cell.conv, x)
<1>1. DConv \in Nat \ {0}
    BY RecurrentAssumption
<1>2. cell = [past |-> Convolved(xs, n), conv |-> LastInputs(xs, n)]
    BY DEF Mamba2Cell
<1>3. conv = LastInputs(xs, n + 1)
    <2> DEFINE last == LastInputs(xs, n)
    <2>1. IsList(last, DConv)
        BY DEF LastInputs, IsList
    <2>2. Append(Tail(last), x) = [d \in 1..DConv |-> IF d < DConv THEN last[d + 1] ELSE x]
        <3> HIDE DEF last, x
        <3>1. QED
            BY <1>1, <2>1, ShiftedList
    <2>3. ASSUME NEW d \in 1..DConv
          PROVE  (IF d < DConv THEN last[d + 1] ELSE x) = Input(xs, (n + 1) - DConv + d)
        <3>1. CASE d < DConv
            <4>1. d + 1 \in 1..DConv
                BY <1>1, <3>1
            <4>2. last[d + 1] = Input(xs, n - DConv + (d + 1))
                BY <4>1 DEF LastInputs
            <4>3. n - DConv + (d + 1) = (n + 1) - DConv + d
                BY <1>1
            <4>4. QED
                BY <3>1, <4>2, <4>3
        <3>2. CASE ~(d < DConv)
            <4>1. d = DConv /\ (n + 1) - DConv + d = n + 1 /\ n + 1 >= 1
                BY <1>1, <3>2
            <4>2. QED
                BY <3>2, <4>1 DEF Input
        <3>3. QED
            BY <3>1, <3>2
    <2> HIDE DEF last, x
    <2>4. Append(Tail(last), x) = LastInputs(xs, n + 1)
        BY <2>2, <2>3 DEF LastInputs
    <2>5. cell.conv = last
        BY <1>2 DEF last
    <2>6. QED
        BY <2>4, <2>5 DEF Mamba2Conv
<1>4. cell.past = Convolved(xs, n) /\ cell = [past |-> cell.past, conv |-> cell.conv]
    BY <1>2
<1>5. Append(cell.past, conv) = Convolved(xs, n + 1)
    <2> HIDE DEF conv
    <2>1. QED
        BY <1>3, <1>4, ConvolvedNext
<1>6. Mamba2Block(cell, x) = [cell |-> [past |-> Convolved(xs, n + 1), conv |-> conv],
                              y |-> [input |-> x, past |-> Convolved(xs, n + 1)]]
    <2>1. Mamba2Block(cell, x) = Folded([cell EXCEPT !.conv = conv], x, conv)
        BY DEF Mamba2Block
    <2> HIDE DEF conv, x
    <2>2. [cell EXCEPT !.conv = conv] = [past |-> cell.past, conv |-> conv]
        BY <1>4
    <2> DEFINE turned == [past |-> cell.past, conv |-> conv]
    <2>3. turned.past = cell.past /\ turned = [past |-> cell.past, conv |-> conv]
        OBVIOUS
    <2> HIDE DEF turned
    <2>4. \A p : [turned EXCEPT !.past = p] = [past |-> p, conv |-> conv]
        <3>1. TAKE p
        <3>2. QED
            BY <2>3
    <2>5. Folded(turned, x, conv) = [cell |-> [past |-> Convolved(xs, n + 1), conv |-> conv],
                                     y |-> [input |-> x, past |-> Convolved(xs, n + 1)]]
        BY <1>5, <2>3, <2>4 DEF Folded
    <2>6. QED
        BY <2>1, <2>2, <2>3, <2>5
<1> HIDE DEF conv
<1>7. Mamba2Block(cell, x).cell = [past |-> Convolved(xs, n + 1), conv |-> conv]
      /\ Mamba2Block(cell, x).y = [input |-> x, past |-> Convolved(xs, n + 1)]
    BY <1>6
<1>8. QED
    BY <1>3, <1>7 DEF Mamba2Cell, ConvolvingAt

\* The tokens of a call one after the other through a layer of either family.
BlockOf(f, cell, x, pos) == IF f = "mamba" THEN MambaBlock(cell, x, pos) ELSE Mamba2Block(cell, x)
NextScan(f, before, x, pos) ==
    LET done == BlockOf(f, before.cell, x, pos)
    IN  [cell |-> done.cell, ys |-> Append(before.ys, done.y)]
IsScan(scan, f, cell, xs, n, at) ==
    scan = [i \in 0..n |-> IF i = 0 THEN [cell |-> cell, ys |-> <<>>]
                           ELSE NextScan(f, scan[i - 1], xs[i], at + i - 1)]

\* The recursion over the tokens has a solution.
LEMMA ScanExists ==
    ASSUME NEW f, NEW cell, NEW xs, NEW n \in Nat, NEW at
    PROVE  \E scan : IsScan(scan, f, cell, xs, n, at)
<1> DEFINE start == [cell |-> cell, ys |-> <<>>]
           Upto(g, m) == g = [i \in 0..m |-> IF i = 0 THEN start ELSE NextScan(f, g[i - 1], xs[i], at + i - 1)]
           S == {m \in Nat : \E g : Upto(g, m)}
<1>1. 0 \in S
    <2>1. Upto([i \in 0..0 |-> start], 0)
        OBVIOUS
    <2>2. QED
        BY <2>1
<1>2. ASSUME NEW m \in Nat, m \in S
      PROVE  m + 1 \in S
    <2>1. PICK g : Upto(g, m)
        BY <1>2
    <2> DEFINE h == [i \in 0..(m + 1) |-> IF i <= m THEN g[i] ELSE NextScan(f, g[i - 1], xs[i], at + i - 1)]
    <2> HIDE DEF start
    <2>2. ASSUME NEW i \in 0..(m + 1)
          PROVE  h[i] = IF i = 0 THEN start ELSE NextScan(f, h[i - 1], xs[i], at + i - 1)
        <3>1. CASE i = 0
            BY <2>1, <3>1
        <3>2. CASE i # 0
            <4>1. i - 1 \in 0..m /\ h[i - 1] = g[i - 1]
                BY <3>2
            <4>2. CASE i <= m
                BY <2>1, <3>2, <4>1, <4>2
            <4>3. CASE ~(i <= m)
                BY <3>2, <4>1, <4>3
            <4>4. QED
                BY <4>2, <4>3
        <3>3. QED
            BY <3>1, <3>2
    <2>3. Upto(h, m + 1)
        BY <2>2
    <2> HIDE DEF h, Upto
    <2>4. QED
        BY <2>3
<1>3. n \in S
    <2> HIDE DEF S
    <2>1. QED
        BY <1>1, <1>2, NatSet
<1>4. QED
    BY <1>3 DEF IsScan

\* A layer of either family is such a scan.
LEMMA MambaScan ==
    ASSUME NEW f \in Mambas, NEW call, NEW cell, NEW xs, NEW n \in Nat, Len(xs) = n
    PROVE  \E scan : /\ IsScan(scan, f, Begun(f, cell), xs, n, call.offset)
                     /\ LayerOf(f, call, cell, xs) = [ok |-> TRUE, cells |-> scan[n].cell, xs |-> scan[n].ys]
<1>1. \E scan : IsScan(scan, f, Begun(f, cell), xs, n, call.offset)
    BY ScanExists
<1>2. CASE f = "mamba"
    <2> DEFINE Body(scan) ==
                   scan = [i \in 0..Len(xs) |->
                       IF i = 0 THEN [cell |-> IF cell = NoCache THEN MambaState ELSE cell, ys |-> <<>>]
                       ELSE LET done == MambaBlock(scan[i - 1].cell, xs[i], call.offset + i - 1)
                            IN  [cell |-> done.cell, ys |-> Append(scan[i - 1].ys, done.y)]]
               chosen == CHOOSE scan : Body(scan)
    <2>1. LayerOf(f, call, cell, xs) = MambaLayer(cell, xs, call.offset)
        BY <1>2 DEF LayerOf
    <2>2. MambaLayer(cell, xs, call.offset) = [ok |-> TRUE, cells |-> chosen[Len(xs)].cell, xs |-> chosen[Len(xs)].ys]
        BY DEF MambaLayer, Scanned
    <2>3. Begun(f, cell) = IF cell = NoCache THEN MambaState ELSE cell
        BY <1>2 DEF Begun
    <2>4. ASSUME NEW scan
          PROVE  Body(scan) <=> IsScan(scan, f, Begun(f, cell), xs, n, call.offset)
        BY <1>2, <2>3 DEF IsScan, NextScan, BlockOf
    <2> HIDE DEF Body
    <2>5. \E scan : Body(scan)
        BY <1>1, <2>4
    <2>6. Body(chosen)
        BY <2>5
    <2> HIDE DEF chosen
    <2>7. QED
        BY <2>1, <2>2, <2>4, <2>6
<1>3. CASE f = "mamba2"
    <2> DEFINE Body(scan) ==
                   scan = [i \in 0..Len(xs) |->
                       IF i = 0 THEN [cell |-> IF cell = NoCache THEN Mamba2State ELSE cell, ys |-> <<>>]
                       ELSE LET done == Mamba2Block(scan[i - 1].cell, xs[i])
                            IN  [cell |-> done.cell, ys |-> Append(scan[i - 1].ys, done.y)]]
               chosen == CHOOSE scan : Body(scan)
    <2>1. LayerOf(f, call, cell, xs) = Mamba2Layer(cell, xs)
        BY <1>3 DEF LayerOf
    <2>2. Mamba2Layer(cell, xs) = [ok |-> TRUE, cells |-> chosen[Len(xs)].cell, xs |-> chosen[Len(xs)].ys]
        BY DEF Mamba2Layer, Scanned
    <2>3. Begun(f, cell) = IF cell = NoCache THEN Mamba2State ELSE cell
        BY <1>3 DEF Begun
    <2>4. ASSUME NEW scan
          PROVE  Body(scan) <=> IsScan(scan, f, Begun(f, cell), xs, n, call.offset)
        BY <1>3, <2>3 DEF IsScan, NextScan, BlockOf
    <2> HIDE DEF Body
    <2>5. \E scan : Body(scan)
        BY <1>1, <2>4
    <2>6. Body(chosen)
        BY <2>5
    <2> HIDE DEF chosen
    <2>7. QED
        BY <2>1, <2>2, <2>4, <2>6
<1>4. QED
    BY <1>2, <1>3 DEF Mambas

\* What the cell of a state-space layer holds once there is one.
Folding(f, xs, n, cell) == IF f = "mamba" THEN MambaCell(xs, n, cell) ELSE Mamba2Cell(xs, n, cell)

\* And that is what CellOf says of it.
LEMMA FoldingCell ==
    ASSUME NEW f \in Mambas, NEW xs, NEW n, NEW cell
    PROVE  /\ CellOf(f, xs, n, cell) <=> Folding(f, xs, n, Begun(f, cell))
           /\ Folding(f, xs, n, cell) => CellOf(f, xs, n, cell)
<1>1. CellOf(f, xs, n, cell) <=> Folding(f, xs, n, Begun(f, cell))
    BY DEF CellOf, Folding, Mambas
<1>2. ASSUME Folding(f, xs, n, cell)
      PROVE  cell # NoCache
    <2>1. "past" \in DOMAIN cell
        <3>1. CASE f = "mamba"
            <4> DEFINE ring == [d \in 0..(DConv - 1) |-> cell.ring[d]]
            <4>1. cell = [past |-> Convolved(xs, n), ring |-> ring]
                BY <1>2, <3>1 DEF Folding, MambaCell
            <4> HIDE DEF ring
            <4>2. QED
                BY <4>1
        <3>2. CASE f # "mamba"
            <4>1. cell = [past |-> Convolved(xs, n), conv |-> LastInputs(xs, n)]
                BY <1>2, <3>2 DEF Folding, Mamba2Cell
            <4>2. QED
                BY <4>1
        <3>3. QED
            BY <3>1, <3>2
    <2>2. QED
        BY <2>1 DEF NoCache
<1>3. QED
    BY <1>1, <1>2 DEF Begun

\* The tokens of a call through a layer of either family.
LEMMA MambaExact ==
    ASSUME NEW f \in Mambas, NEW call, NEW m \in Nat, call.offset = m, NEW n \in Nat,
           NEW ys, NEW cell, CellOf(f, ys, m, cell)
    PROVE  LET layer == LayerOf(f, call, cell, NewOf(ys, m, n))
           IN  /\ layer.xs = [i \in 1..n |-> ConvolvingAt(ys, m + i)]
               /\ CellOf(f, ys, m + n, layer.cells)
<1> DEFINE xs == NewOf(ys, m, n)
           layer == LayerOf(f, call, cell, xs)
<1>1. IsList(xs, n) /\ \A i \in 1..n : xs[i] = ys[m + i]
    BY DEF NewOf, IsList
<1> HIDE DEF xs
<1>2. Len(xs) = n
    BY <1>1, ListLen
<1>3. PICK scan : /\ IsScan(scan, f, Begun(f, cell), xs, n, m)
                  /\ layer = [ok |-> TRUE, cells |-> scan[n].cell, xs |-> scan[n].ys]
    BY <1>2, MambaScan
<1> HIDE DEF layer
<1> DEFINE P(i) == /\ Folding(f, ys, m + i, scan[i].cell)
                   /\ scan[i].ys = [k \in 1..i |-> ConvolvingAt(ys, m + k)]
           S == {i \in Nat : P(i)}
<1>4. P(0)
    <2>1. scan[0] = [cell |-> Begun(f, cell), ys |-> <<>>]
        BY <1>3 DEF IsScan
    <2>2. Folding(f, ys, m, Begun(f, cell))
        BY FoldingCell
    <2>3. scan[0].cell = Begun(f, cell) /\ scan[0].ys = <<>> /\ m + 0 = m
        BY <2>1
    <2>4. [k \in 1..0 |-> ConvolvingAt(ys, m + k)] = <<>>
        OBVIOUS
    <2>5. QED
        BY <2>2, <2>3, <2>4
<1>5. ASSUME NEW i \in Nat, i < n, P(i)
      PROVE  P(i + 1)
    <2>1. i + 1 \in 0..n /\ i + 1 # 0 /\ (i + 1) - 1 = i /\ m + (i + 1) - 1 = m + i /\ i + 1 \in 1..n
          /\ m + (i + 1) = (m + i) + 1 /\ m + i \in Nat
        BY <1>5
    <2>2. scan[i + 1] = NextScan(f, scan[i], xs[i + 1], m + i)
        <3>1. scan[i + 1] = NextScan(f, scan[(i + 1) - 1], xs[i + 1], m + (i + 1) - 1)
            BY <1>3, <2>1 DEF IsScan
        <3>2. QED
            BY <2>1, <3>1
    <2>3. xs[i + 1] = ys[(m + i) + 1]
        BY <1>1, <2>1
    <2> DEFINE done == BlockOf(f, scan[i].cell, ys[(m + i) + 1], m + i)
    <2>4. Folding(f, ys, (m + i) + 1, done.cell) /\ done.y = ConvolvingAt(ys, (m + i) + 1)
        <3>1. CASE f = "mamba"
            <4>1. MambaCell(ys, m + i, scan[i].cell)
                BY <1>5, <3>1 DEF Folding
            <4>2. /\ MambaCell(ys, (m + i) + 1, MambaBlock(scan[i].cell, ys[(m + i) + 1], m + i).cell)
                  /\ MambaBlock(scan[i].cell, ys[(m + i) + 1], m + i).y = ConvolvingAt(ys, (m + i) + 1)
                BY <2>1, <4>1, MambaStep
            <4>3. QED
                BY <3>1, <4>2 DEF Folding, BlockOf
        <3>2. CASE f # "mamba"
            <4>1. Mamba2Cell(ys, m + i, scan[i].cell)
                BY <1>5, <3>2 DEF Folding
            <4>2. /\ Mamba2Cell(ys, (m + i) + 1, Mamba2Block(scan[i].cell, ys[(m + i) + 1]).cell)
                  /\ Mamba2Block(scan[i].cell, ys[(m + i) + 1]).y = ConvolvingAt(ys, (m + i) + 1)
                BY <2>1, <4>1, Mamba2Step
            <4>3. QED
                BY <3>2, <4>2 DEF Folding, BlockOf
        <3>3. QED
            BY <3>1, <3>2
    <2>5. scan[i + 1].cell = done.cell /\ scan[i + 1].ys = Append(scan[i].ys, done.y)
        BY <2>2, <2>3 DEF NextScan
    <2> HIDE DEF done
    <2>6. Append(scan[i].ys, done.y) = [k \in 1..(i + 1) |-> ConvolvingAt(ys, m + k)]
        <3> DEFINE list == scan[i].ys
                   y == done.y
        <3>1. IsList(list, i)
            BY <1>5 DEF IsList
        <3>2. \A k \in 1..(i + 1) : (IF k <= i THEN list[k] ELSE y) = ConvolvingAt(ys, m + k)
            <4>1. TAKE k \in 1..(i + 1)
            <4>2. CASE k <= i
                <5>1. k \in 1..i
                    BY <4>2
                <5>2. QED
                    BY <1>5, <4>2, <5>1
            <4>3. CASE ~(k <= i)
                <5>1. k = i + 1
                    BY <4>3
                <5>2. QED
                    BY <2>1, <2>4, <4>3, <5>1
            <4>4. QED
                BY <4>2, <4>3
        <3> HIDE DEF list, y
        <3>3. Append(list, y) = [k \in 1..(i + 1) |-> IF k <= i THEN list[k] ELSE y]
            BY <3>1, AppendList
        <3>4. Append(list, y) = [k \in 1..(i + 1) |-> ConvolvingAt(ys, m + k)]
            BY <3>2, <3>3
        <3>5. QED
            BY <3>4 DEF list, y
    <2>7. QED
        BY <2>1, <2>4, <2>5, <2>6
<1>6. 0 \in S /\ \A i \in Nat : i < n /\ i \in S => i + 1 \in S
    <2> HIDE DEF P
    <2>1. QED
        BY <1>4, <1>5
<1>7. n \in S
    <2>1. \A i \in 0..n : i \in S
        <3> HIDE DEF S
        <3>1. QED
            BY <1>6, UpTo
    <2>2. QED
        BY <2>1
<1>8. P(n)
    BY <1>7
<1>9. layer.cells = scan[n].cell /\ layer.xs = scan[n].ys
    BY <1>3
<1>10. CellOf(f, ys, m + n, layer.cells)
    BY <1>8, <1>9, FoldingCell
<1>11. layer.xs = [i \in 1..n |-> ConvolvingAt(ys, m + i)]
    BY <1>8, <1>9
<1>12. QED
    BY <1>10, <1>11 DEF layer, xs

(***************************************************************************)
(* The mixtures of experts give every row its own experts                  *)
(***************************************************************************)
\* A strict total order of a set, and the elements before another.
Strict(S, R) ==
    /\ \A s \in S : <<s, s>> \notin R
    /\ \A r, s, t \in S : <<r, s>> \in R /\ <<s, t>> \in R => <<r, t>> \in R
    /\ \A r, s \in S : r = s \/ <<r, s>> \in R \/ <<s, r>> \in R
Below(S, R, s) == {r \in S : <<r, s>> \in R}

\* Fewer are before an element than before a later one.
LEMMA BelowLess ==
    ASSUME NEW S, IsFiniteSet(S), NEW R, Strict(S, R), NEW r \in S, NEW s \in S, <<r, s>> \in R
    PROVE  /\ Cardinality(Below(S, R, r)) \in Nat /\ Cardinality(Below(S, R, s)) \in Nat
           /\ Cardinality(Below(S, R, r)) < Cardinality(Below(S, R, s))
<1>1. Below(S, R, r) \subseteq Below(S, R, s) \ {r} /\ r \in Below(S, R, s)
    BY DEF Below, Strict
<1>2. Below(S, R, r) \subseteq S /\ Below(S, R, s) \subseteq S
    BY DEF Below
<1>3. /\ IsFiniteSet(Below(S, R, s)) /\ Cardinality(Below(S, R, s)) \in Nat
      /\ IsFiniteSet(Below(S, R, r)) /\ Cardinality(Below(S, R, r)) \in Nat
    BY <1>2, FS_Subset, FS_CardinalityType
<1>4. IsFiniteSet(Below(S, R, s) \ {r})
      /\ Cardinality(Below(S, R, s) \ {r}) = Cardinality(Below(S, R, s)) - 1
    BY <1>1, <1>3, FS_RemoveElement
<1>5. Cardinality(Below(S, R, r)) <= Cardinality(Below(S, R, s) \ {r})
    BY <1>1, <1>4, FS_Subset
<1>6. QED
    BY <1>3, <1>4, <1>5

\* The numbers of elements before those of a finite set are 0, 1 and so on.
LEMMA Ranks ==
    ASSUME NEW S, IsFiniteSet(S), NEW R, Strict(S, R)
    PROVE  /\ Cardinality(S) \in Nat
           /\ \A s \in S : Cardinality(Below(S, R, s)) \in 0..(Cardinality(S) - 1)
           /\ \A k \in 0..(Cardinality(S) - 1) : \E s \in S : Cardinality(Below(S, R, s)) = k
<1> DEFINE rank == [s \in S |-> Cardinality(Below(S, R, s))]
           T == 0..(Cardinality(S) - 1)
<1>1. Cardinality(S) \in Nat
    BY FS_CardinalityType
<1>2. ASSUME NEW s \in S
      PROVE  /\ IsFiniteSet(Below(S, R, s)) /\ Cardinality(Below(S, R, s)) \in Nat
             /\ Cardinality(Below(S, R, s)) <= Cardinality(S) - 1
    <2>1. Below(S, R, s) \subseteq S \ {s}
        BY DEF Below, Strict
    <2>2. IsFiniteSet(S \ {s}) /\ Cardinality(S \ {s}) = Cardinality(S) - 1
        BY FS_RemoveElement
    <2>3. IsFiniteSet(Below(S, R, s)) /\ Cardinality(Below(S, R, s)) <= Cardinality(S \ {s})
        BY <2>1, <2>2, FS_Subset
    <2>4. QED
        BY <2>2, <2>3, FS_CardinalityType
<1>3. ASSUME NEW r \in S, NEW s \in S, <<r, s>> \in R
      PROVE  rank[r] < rank[s]
    BY <1>3, BelowLess
<1>4. rank \in [S -> T]
    BY <1>1, <1>2
<1>5. \A r, s \in S : rank[r] = rank[s] => r = s
    <2>1. SUFFICES ASSUME NEW r \in S, NEW s \in S, rank[r] = rank[s], r # s PROVE FALSE
        OBVIOUS
    <2>2. rank[r] \in Nat /\ rank[s] \in Nat
        BY <1>4
    <2>3. <<r, s>> \in R \/ <<s, r>> \in R
        BY <2>1 DEF Strict
    <2> HIDE DEF rank
    <2>4. QED
        BY <1>3, <2>1, <2>2, <2>3
<1> HIDE DEF rank
<1>6. rank \in Injection(S, T)
    BY <1>4, <1>5 DEF Injection, IsInjective
<1>7. IsFiniteSet(T) /\ Cardinality(T) = Cardinality(S)
    <2>1. 0 \in Int /\ Cardinality(S) - 1 \in Int
        BY <1>1
    <2>2. IsFiniteSet(T) /\ Cardinality(T) = IF 0 > Cardinality(S) - 1 THEN 0 ELSE (Cardinality(S) - 1) - 0 + 1
        BY <2>1, FS_Interval
    <2>3. QED
        BY <1>1, <2>2
<1>8. rank \in Surjection(S, T)
    BY <1>6, <1>7, FS_Injection
<1>9. \A k \in T : \E s \in S : rank[s] = k
    BY <1>8 DEF Surjection
<1>10. \A s \in S : rank[s] = Cardinality(Below(S, R, s))
    BY DEF rank
<1>11. \A k \in T : \E s \in S : Cardinality(Below(S, R, s)) = k
    BY <1>9, <1>10
<1>12. \A s \in S : Cardinality(Below(S, R, s)) \in T
    BY <1>4, <1>10
<1>13. QED
    BY <1>1, <1>11, <1>12

\* A list of the elements by how many are before them has every element once.
ByRank(S, R, list) ==
    \A k \in 1..Cardinality(S) :
        (\E s \in S : Cardinality(Below(S, R, s)) = k - 1)
        => list[k] \in S /\ Cardinality(Below(S, R, list[k])) = k - 1

\* With a strict order the ranks 0, 1, ... each belong to one element, so the list has them all.
LEMMA RankedList ==
    ASSUME NEW S, IsFiniteSet(S), NEW R, Strict(S, R), NEW list, ByRank(S, R, list)
    PROVE  /\ \A k \in 1..Cardinality(S) : list[k] \in S /\ Cardinality(Below(S, R, list[k])) = k - 1
           /\ \A s \in S : \E k \in 1..Cardinality(S) : list[k] = s
<1>1. /\ Cardinality(S) \in Nat
      /\ \A s \in S : Cardinality(Below(S, R, s)) \in 0..(Cardinality(S) - 1)
      /\ \A k \in 0..(Cardinality(S) - 1) : \E s \in S : Cardinality(Below(S, R, s)) = k
    BY Ranks
<1>2. \A k \in 1..Cardinality(S) : list[k] \in S /\ Cardinality(Below(S, R, list[k])) = k - 1
    <2>1. TAKE k \in 1..Cardinality(S)
    <2>2. k - 1 \in 0..(Cardinality(S) - 1)
        BY <1>1
    <2>3. \E s \in S : Cardinality(Below(S, R, s)) = k - 1
        BY <1>1, <2>2
    <2>4. QED
        BY <2>3 DEF ByRank
<1>3. ASSUME NEW r \in S, NEW s \in S, Cardinality(Below(S, R, r)) = Cardinality(Below(S, R, s))
      PROVE  r = s
    <2>1. \A x, y \in S : <<x, y>> \in R => Cardinality(Below(S, R, x)) < Cardinality(Below(S, R, y))
        BY BelowLess
    <2>2. Cardinality(Below(S, R, r)) \in Nat /\ Cardinality(Below(S, R, s)) \in Nat
        BY <1>1
    <2>3. r = s \/ <<r, s>> \in R \/ <<s, r>> \in R
        BY DEF Strict
    <2>4. QED
        BY <1>3, <2>1, <2>2, <2>3
<1>4. ASSUME NEW s \in S
      PROVE  \E k \in 1..Cardinality(S) : list[k] = s
    <2> DEFINE k == Cardinality(Below(S, R, s)) + 1
    <2>1. k \in 1..Cardinality(S) /\ k - 1 = Cardinality(Below(S, R, s))
        BY <1>1
    <2>2. list[k] \in S /\ Cardinality(Below(S, R, list[k])) = Cardinality(Below(S, R, s))
        BY <1>2, <2>1
    <2> HIDE DEF k
    <2>3. list[k] = s
        BY <1>3, <2>2
    <2>4. QED
        BY <2>1, <2>3
<1>5. QED
    BY <1>2, <1>4

\* The tokens of a call are tokens the router knows.
Routed(tokens, n) == \A i \in 1..n : tokens[i] \in Token

\* They are among the experts there are.
LEMMA RouteExperts == \A t \in Token : Range(Route[t]) \subseteq 1..Experts /\ Experts \in Nat
<1>1. TAKE t \in Token
<1>2. Route[t] \in Seq(1..Experts)
    BY AdaptersAssumption, ExpertsAssumption
<1>3. QED
    BY <1>2, ExpertsAssumption, ElementOfSeq DEF Range

\* deepseek2.rs: the experts of a row in ascending order are the row's experts.
LEMMA AscendingExperts ==
    ASSUME NEW S, S \subseteq 1..Experts
    PROVE  LET ids == Ordered(S, <)
           IN  /\ \A k \in DOMAIN ids : ids[k] \in S
               /\ \A e \in S : \E k \in DOMAIN ids : ids[k] = e
<1> DEFINE ids == [k \in 1..Cardinality(S) |-> CHOOSE s \in S : Cardinality({r \in S : r < s}) = k - 1]
           R == {p \in S \X S : p[1] < p[2]}
<1>0. Ordered(S, <) = ids
    BY DEF Ordered
<1>1. IsFiniteSet(S)
    <2>1. 1 \in Int /\ Experts \in Int
        BY ExpertsAssumption
    <2>2. IsFiniteSet(1..Experts)
        BY <2>1, FS_Interval
    <2>3. QED
        BY <2>2, FS_Subset
<1>2. \A r, s \in S : <<r, s>> \in R <=> r < s
    OBVIOUS
<1>3. Strict(S, R)
    <2>1. \A s \in S : s \in Nat
        BY ExpertsAssumption
    <2> HIDE DEF R
    <2>2. QED
        BY <1>2, <2>1 DEF Strict
<1>4. \A s \in S : Below(S, R, s) = {r \in S : r < s}
    <2> HIDE DEF R
    <2>1. QED
        BY <1>2 DEF Below
<1>5. ASSUME NEW k \in 1..Cardinality(S), \E s \in S : Cardinality(Below(S, R, s)) = k - 1
      PROVE  ids[k] \in S /\ Cardinality(Below(S, R, ids[k])) = k - 1
    <2>1. \E s \in S : Cardinality({r \in S : r < s}) = k - 1
        <3> HIDE DEF R
        <3>1. QED
            BY <1>4, <1>5
    <2>2. ids[k] = CHOOSE s \in S : Cardinality({r \in S : r < s}) = k - 1
        OBVIOUS
    <2>3. ids[k] \in S /\ Cardinality({r \in S : r < ids[k]}) = k - 1
        <3> HIDE DEF ids, R
        <3>1. QED
            BY <2>1, <2>2
    <2> HIDE DEF ids, R
    <2>4. QED
        BY <1>4, <2>3
<1>6. DOMAIN ids = 1..Cardinality(S)
    OBVIOUS
<1> HIDE DEF ids, R
<1>7. ByRank(S, R, ids)
    BY <1>5 DEF ByRank
<1>8. /\ \A k \in 1..Cardinality(S) : ids[k] \in S /\ Cardinality(Below(S, R, ids[k])) = k - 1
      /\ \A s \in S : \E k \in 1..Cardinality(S) : ids[k] = s
    BY <1>1, <1>3, <1>7, RankedList
<1>9. QED
    BY <1>0, <1>6, <1>8

\* A row is added to by exactly the experts of its token.
LEMMA DeepSeek2MoeExact ==
    ASSUME NEW n \in Nat, NEW xs, IsList(xs, n), NEW tokens, IsList(tokens, n), Routed(tokens, n)
    PROVE  DeepSeek2Moe(xs, tokens) = [i \in 1..n |-> ConsultingAt("deepseek2", xs[i], tokens[i])]
<1> DEFINE ids == [i \in 1..n |-> Ordered(Range(Route[tokens[i]]), <)]
           weights == [i \in 1..n |-> [k \in DOMAIN ids[i] |-> Gate(tokens[i], ids[i][k])]]
           Chosen(e) == UNION {{<<i, k>> : k \in {k \in DOMAIN ids[i] : ids[i][k] = e}} : i \in 1..n}
           Added(e, i) == {[output |-> [expert |-> e, of |-> xs[p[1]]], gate |-> weights[p[1]][p[2]]] :
                               p \in {p \in Chosen(e) : p[1] = i}}
           Wanted(i) == {[output |-> [expert |-> e, of |-> xs[i]], gate |-> Gate(tokens[i], e)] :
                             e \in Range(Route[tokens[i]])}
<1>1. DOMAIN xs = 1..n /\ DOMAIN tokens = 1..n
    BY DEF IsList
<1>2. DeepSeek2Gate(tokens).ids = ids /\ DeepSeek2Gate(tokens).weights = weights
    BY <1>1 DEF DeepSeek2Gate
<1>3. DeepSeek2Moe(xs, tokens) =
          [i \in 1..n |-> [row |-> xs[i], experts |-> UNION {Added(e, i) : e \in 1..Experts}]]
    <2> HIDE DEF ids, weights
    <2>1. QED
        BY <1>1, <1>2 DEF DeepSeek2Moe
<1>4. ASSUME NEW i \in 1..n
      PROVE  /\ \A k \in DOMAIN ids[i] : ids[i][k] \in Range(Route[tokens[i]])
             /\ \A e \in Range(Route[tokens[i]]) : \E k \in DOMAIN ids[i] : ids[i][k] = e
             /\ Range(Route[tokens[i]]) \subseteq 1..Experts
    <2> DEFINE S == Range(Route[tokens[i]])
    <2>1. S \subseteq 1..Experts
        BY RouteExperts DEF Routed
    <2>2. ids[i] = Ordered(S, <)
        OBVIOUS
    <2> HIDE DEF S
    <2>3. /\ \A k \in DOMAIN Ordered(S, <) : Ordered(S, <)[k] \in S
          /\ \A e \in S : \E k \in DOMAIN Ordered(S, <) : Ordered(S, <)[k] = e
        BY <2>1, AscendingExperts
    <2> HIDE DEF ids
    <2>4. /\ \A k \in DOMAIN ids[i] : ids[i][k] \in S
          /\ \A e \in S : \E k \in DOMAIN ids[i] : ids[i][k] = e
        BY <2>2, <2>3
    <2>5. QED
        BY <2>1, <2>4 DEF S
<1>5. ASSUME NEW i \in 1..n, NEW k \in DOMAIN ids[i]
      PROVE  weights[i][k] = Gate(tokens[i], ids[i][k])
    <2> HIDE DEF ids
    <2>1. QED
        OBVIOUS
<1> HIDE DEF ids, weights
<1>6. ASSUME NEW e, NEW i \in 1..n, NEW p
      PROVE  p \in Chosen(e) /\ p[1] = i <=> \E k \in DOMAIN ids[i] : p = <<i, k>> /\ ids[i][k] = e
    OBVIOUS
<1> HIDE DEF Chosen
<1>7. ASSUME NEW i \in 1..n
      PROVE  UNION {Added(e, i) : e \in 1..Experts} = Wanted(i)
    <2>1. ASSUME NEW e \in 1..Experts, NEW x \in Added(e, i)
          PROVE  x \in Wanted(i)
        <3>1. PICK p : p \in Chosen(e) /\ p[1] = i
                       /\ x = [output |-> [expert |-> e, of |-> xs[p[1]]], gate |-> weights[p[1]][p[2]]]
            OBVIOUS
        <3>2. PICK k \in DOMAIN ids[i] : p = <<i, k>> /\ ids[i][k] = e
            BY <1>6, <3>1
        <3>3. weights[p[1]][p[2]] = Gate(tokens[i], e) /\ e \in Range(Route[tokens[i]])
            BY <1>4, <1>5, <3>2
        <3>4. x = [output |-> [expert |-> e, of |-> xs[i]], gate |-> Gate(tokens[i], e)]
            BY <3>1, <3>3
        <3>5. QED
            BY <3>3, <3>4
    <2>2. ASSUME NEW e \in Range(Route[tokens[i]])
          PROVE  /\ e \in 1..Experts
                 /\ [output |-> [expert |-> e, of |-> xs[i]], gate |-> Gate(tokens[i], e)] \in Added(e, i)
        <3>1. PICK k \in DOMAIN ids[i] : ids[i][k] = e
            BY <1>4
        <3> DEFINE p == <<i, k>>
        <3>2. p \in Chosen(e) /\ p[1] = i /\ p[2] = k
            BY <1>6, <3>1
        <3>3. weights[p[1]][p[2]] = Gate(tokens[i], e)
            BY <1>5, <3>1
        <3> HIDE DEF p
        <3>4. [output |-> [expert |-> e, of |-> xs[i]], gate |-> Gate(tokens[i], e)]
              = [output |-> [expert |-> e, of |-> xs[p[1]]], gate |-> weights[p[1]][p[2]]]
            BY <3>2, <3>3
        <3>5. QED
            BY <1>4, <3>2, <3>4
    <2>3. \A x : x \in UNION {Added(e, i) : e \in 1..Experts} <=> \E e \in 1..Experts : x \in Added(e, i)
        OBVIOUS
    <2>4. \A x : x \in Wanted(i) <=> \E e \in Range(Route[tokens[i]]) :
                     x = [output |-> [expert |-> e, of |-> xs[i]], gate |-> Gate(tokens[i], e)]
        OBVIOUS
    <2> HIDE DEF Added, Wanted
    <2>5. \A x : x \in UNION {Added(e, i) : e \in 1..Experts} <=> x \in Wanted(i)
        BY <2>1, <2>2, <2>3, <2>4
    <2>6. QED
        BY <2>5
<1>8. \A i : ConsultingAt("deepseek2", xs[i], tokens[i]) = [row |-> xs[i], experts |-> Wanted(i)]
    BY DEF ConsultingAt, Output
<1> HIDE DEF Added, Wanted
<1>9. QED
    BY <1>3, <1>7, <1>8

\* granite_moe.rs: a slot for every expert of every row, and their order.
Slot(tokens, e, i) == [expert |-> e, row |-> i, gate |-> Gate(tokens[i], e)]
Slots(tokens, n) == UNION {{Slot(tokens, e, i) : e \in Range(Route[tokens[i]])} : i \in 1..n}
Sooner(r, s) == r.expert < s.expert \/ (r.expert = s.expert /\ r.row < s.row)
SlotOrder(S) == {p \in S \X S : Sooner(p[1], p[2])}
OfExpert(S, e) == {s \in S : s.expert = e}
OfEarlier(S, e) == {s \in S : s.expert < e}

\* A slot is an expert's of a row, and its gate is that of both.
LEMMA SlotFields ==
    ASSUME NEW n \in Nat, NEW tokens, Routed(tokens, n)
    PROVE  /\ \A s \in Slots(tokens, n) :
                  /\ s.expert \in 1..Experts /\ s.row \in 1..n
                  /\ s.expert \in Range(Route[tokens[s.row]])
                  /\ s = Slot(tokens, s.expert, s.row)
           /\ \A i \in 1..n : \A e \in Range(Route[tokens[i]]) : Slot(tokens, e, i) \in Slots(tokens, n)
<1>1. ASSUME NEW s \in Slots(tokens, n)
      PROVE  /\ s.expert \in 1..Experts /\ s.row \in 1..n
             /\ s.expert \in Range(Route[tokens[s.row]])
             /\ s = Slot(tokens, s.expert, s.row)
    <2>1. PICK i \in 1..n : \E e \in Range(Route[tokens[i]]) : s = Slot(tokens, e, i)
        BY DEF Slots
    <2>2. PICK e \in Range(Route[tokens[i]]) : s = Slot(tokens, e, i)
        BY <2>1
    <2>3. s.expert = e /\ s.row = i
        BY <2>2 DEF Slot
    <2>4. e \in 1..Experts
        <3>1. Range(Route[tokens[i]]) \subseteq 1..Experts
            BY RouteExperts DEF Routed
        <3>2. QED
            BY <3>1
    <2>5. QED
        BY <2>2, <2>3, <2>4
<1>2. \A i \in 1..n : \A e \in Range(Route[tokens[i]]) : Slot(tokens, e, i) \in Slots(tokens, n)
    BY DEF Slots
<1>3. QED
    BY <1>1, <1>2

\* There are finitely many, in a total order.
LEMMA SlotsOrdered ==
    ASSUME NEW n \in Nat, NEW tokens, Routed(tokens, n)
    PROVE  IsFiniteSet(Slots(tokens, n)) /\ Strict(Slots(tokens, n), SlotOrder(Slots(tokens, n)))
<1> DEFINE S == Slots(tokens, n)
           T == (1..Experts) \X (1..n)
           g == [s \in S |-> <<s.expert, s.row>>]
<1>1. \A s \in S : s.expert \in 1..Experts /\ s.row \in 1..n /\ s = Slot(tokens, s.expert, s.row)
    BY SlotFields
<1> HIDE DEF S
<1>2. IsFiniteSet(T)
    <2>1. 1 \in Int /\ Experts \in Int /\ n \in Int
        BY ExpertsAssumption
    <2>2. IsFiniteSet(1..Experts) /\ IsFiniteSet(1..n)
        BY <2>1, FS_Interval
    <2>3. QED
        BY <2>2, FS_Product
<1>3. g \in Injection(S, T)
    <2>1. g \in [S -> T]
        BY <1>1
    <2>2. \A r, s \in S : g[r] = g[s] => r = s
        <3>1. TAKE r, s \in S
        <3>2. HAVE g[r] = g[s]
        <3>3. r.expert = s.expert /\ r.row = s.row
            BY <3>2
        <3>4. QED
            BY <1>1, <3>3
    <2> HIDE DEF g
    <2>3. QED
        BY <2>1, <2>2 DEF Injection, IsInjective
<1>4. IsFiniteSet(S)
    BY <1>2, <1>3, FS_Injection
<1>5. \A r, s \in S : <<r, s>> \in SlotOrder(S) <=> Sooner(r, s)
    BY DEF SlotOrder
<1>6. \A s \in S : s.expert \in Int /\ s.row \in Int
    BY <1>1, ExpertsAssumption
<1>7. Strict(S, SlotOrder(S))
    <2>1. \A s \in S : ~Sooner(s, s)
        BY <1>6 DEF Sooner
    <2>2. \A r, s, t \in S : Sooner(r, s) /\ Sooner(s, t) => Sooner(r, t)
        BY <1>6 DEF Sooner
    <2>3. \A r, s \in S : r = s \/ Sooner(r, s) \/ Sooner(s, r)
        <3>1. TAKE r, s \in S
        <3>2. CASE r.expert = s.expert /\ r.row = s.row
            BY <1>1, <3>2
        <3>3. CASE r.expert # s.expert \/ r.row # s.row
            BY <1>6, <3>3 DEF Sooner
        <3>4. QED
            BY <3>2, <3>3
    <2>4. QED
        BY <1>5, <2>1, <2>2, <2>3 DEF Strict
<1>8. QED
    BY <1>4, <1>7 DEF S

\* The k-th slot is the one with k - 1 sooner; all slots of its expert, and they
\* only, are between the slots of the experts before it and those after.
LEMMA SlotRanks ==
    ASSUME NEW n \in Nat, NEW tokens, Routed(tokens, n), NEW slots, slots = Ordered(Slots(tokens, n), Sooner)
    PROVE  LET S == Slots(tokens, n)
           IN  /\ IsFiniteSet(S) /\ DOMAIN slots = 1..Cardinality(S) /\ Cardinality(S) \in Nat
               /\ \A k \in DOMAIN slots :
                      /\ slots[k] \in S
                      /\ Cardinality(Below(S, SlotOrder(S), slots[k])) = k - 1
               /\ \A s \in S : \E k \in DOMAIN slots : slots[k] = s
<1> DEFINE S == Slots(tokens, n)
           R == SlotOrder(S)
           ids == [k \in 1..Cardinality(S) |-> CHOOSE s \in S : Cardinality({r \in S : Sooner(r, s)}) = k - 1]
<1>0. slots = ids
    BY DEF Ordered
<1>1. IsFiniteSet(S) /\ Strict(S, R)
    BY SlotsOrdered
<1> HIDE DEF S
<1>2. \A s \in S : Below(S, R, s) = {r \in S : Sooner(r, s)}
    BY DEF Below, SlotOrder
<1>3. DOMAIN slots = 1..Cardinality(S) /\ Cardinality(S) \in Nat
    BY <1>0, <1>1, FS_CardinalityType
<1>4. ASSUME NEW k \in 1..Cardinality(S), \E s \in S : Cardinality(Below(S, R, s)) = k - 1
      PROVE  slots[k] \in S /\ Cardinality(Below(S, R, slots[k])) = k - 1
    <2>1. \E s \in S : Cardinality({r \in S : Sooner(r, s)}) = k - 1
        <3> HIDE DEF R
        <3>1. QED
            BY <1>2, <1>4
    <2>2. slots[k] = CHOOSE s \in S : Cardinality({r \in S : Sooner(r, s)}) = k - 1
        BY <1>0
    <2>3. slots[k] \in S /\ Cardinality({r \in S : Sooner(r, slots[k])}) = k - 1
        <3> HIDE DEF R
        <3>1. QED
            BY <2>1, <2>2
    <2> HIDE DEF R
    <2>4. QED
        BY <1>2, <2>3
<1> HIDE DEF R
<1>5. ByRank(S, R, slots)
    BY <1>4 DEF ByRank
<1>6. /\ \A k \in 1..Cardinality(S) : slots[k] \in S /\ Cardinality(Below(S, R, slots[k])) = k - 1
      /\ \A s \in S : \E k \in 1..Cardinality(S) : slots[k] = s
    BY <1>1, <1>5, RankedList
<1>7. QED
    BY <1>1, <1>3, <1>6 DEF R, S

\* The experts before one have as many slots as all before the one before, and its own.
LEMMA EarlierNext ==
    ASSUME NEW S, IsFiniteSet(S), \A s \in S : s.expert \in Nat \ {0}
    PROVE  /\ Cardinality(OfEarlier(S, 1)) = 0
           /\ \A e \in Nat :
                  /\ Cardinality(OfEarlier(S, e)) \in Nat /\ Cardinality(OfExpert(S, e)) \in Nat
                  /\ Cardinality(OfEarlier(S, e + 1)) = Cardinality(OfEarlier(S, e)) + Cardinality(OfExpert(S, e))
<1>1. \A e \in Nat : /\ OfEarlier(S, e) \in SUBSET S /\ OfExpert(S, e) \in SUBSET S
                     /\ OfEarlier(S, e) \cap OfExpert(S, e) = {}
                     /\ OfEarlier(S, e + 1) = OfEarlier(S, e) \cup OfExpert(S, e)
    BY DEF OfEarlier, OfExpert
<1>2. OfEarlier(S, 1) = {}
    BY DEF OfEarlier
<1>3. Cardinality(OfEarlier(S, 1)) = 0
    BY <1>2, FS_EmptySet
<1>4. ASSUME NEW e \in Nat
      PROVE  /\ Cardinality(OfEarlier(S, e)) \in Nat /\ Cardinality(OfExpert(S, e)) \in Nat
             /\ Cardinality(OfEarlier(S, e + 1)) = Cardinality(OfEarlier(S, e)) + Cardinality(OfExpert(S, e))
    <2> DEFINE A == OfEarlier(S, e)
               B == OfExpert(S, e)
    <2>1. A \in SUBSET S /\ B \in SUBSET S /\ A \cap B = {} /\ OfEarlier(S, e + 1) = A \cup B
        BY <1>1
    <2> HIDE DEF A, B
    <2>2. IsFiniteSet(A) /\ IsFiniteSet(B)
        BY <2>1, FS_Subset
    <2>3. Cardinality(A) \in Nat /\ Cardinality(B) \in Nat
        BY <2>2, FS_CardinalityType
    <2>4. Cardinality(A \cup B) = Cardinality(A) + Cardinality(B) - Cardinality(A \cap B)
        BY <2>2, FS_Union
    <2>5. Cardinality(A \cap B) = 0
        BY <2>1, FS_EmptySet
    <2>6. Cardinality(A \cup B) = Cardinality(A) + Cardinality(B)
        BY <2>3, <2>4, <2>5
    <2>7. QED
        BY <2>1, <2>3, <2>6 DEF A, B
<1>5. QED
    BY <1>3, <1>4

\* Where the inputs of the experts start.
Starts(sizes, start) ==
    start = [e \in 1..(Experts + 1) |-> IF e = 1 THEN 0 ELSE start[e - 1] + sizes[e - 1]]
ParallelOf(inputs, sizes, start) ==
    [k \in DOMAIN inputs |->
        [expert |-> CHOOSE e \in 1..Experts : start[e] < k /\ k <= start[e] + sizes[e], of |-> inputs[k]]]

\* The recursion over the experts has a solution.
LEMMA StartsExist ==
    ASSUME NEW S, IsFiniteSet(S), \A s \in S : s.expert \in Nat \ {0},
           NEW sizes, sizes = [e \in 1..Experts |-> Cardinality(OfExpert(S, e))]
    PROVE  \E start : Starts(sizes, start)
<1> DEFINE start == [e \in 1..(Experts + 1) |-> Cardinality(OfEarlier(S, e))]
<1>1. Experts \in Nat
    BY ExpertsAssumption
<1>2. ASSUME NEW e \in 1..(Experts + 1)
      PROVE  start[e] = IF e = 1 THEN 0 ELSE start[e - 1] + sizes[e - 1]
    <2>1. start[e] = Cardinality(OfEarlier(S, e))
        OBVIOUS
    <2>2. CASE e = 1
        BY <2>1, <2>2, EarlierNext
    <2>3. CASE e # 1
        <3>1. e - 1 \in 1..Experts /\ e - 1 \in Nat /\ (e - 1) + 1 = e /\ e - 1 \in 1..(Experts + 1)
            BY <1>1, <2>3
        <3>2. Cardinality(OfEarlier(S, (e - 1) + 1)) =
                  Cardinality(OfEarlier(S, e - 1)) + Cardinality(OfExpert(S, e - 1))
            BY <3>1, EarlierNext
        <3>3. start[e - 1] = Cardinality(OfEarlier(S, e - 1)) /\ sizes[e - 1] = Cardinality(OfExpert(S, e - 1))
            BY <3>1
        <3> HIDE DEF start
        <3>4. QED
            BY <2>1, <2>3, <3>1, <3>2, <3>3
    <2>4. QED
        BY <2>2, <2>3
<1>3. Starts(sizes, start)
    BY <1>2 DEF Starts
<1>4. QED
    BY <1>3

\* Any solution counts the slots of the experts before one.
LEMMA StartsCount ==
    ASSUME NEW S, IsFiniteSet(S), \A s \in S : s.expert \in Nat \ {0},
           NEW sizes, sizes = [e \in 1..Experts |-> Cardinality(OfExpert(S, e))],
           NEW start, Starts(sizes, start)
    PROVE  \A e \in 1..(Experts + 1) : start[e] = Cardinality(OfEarlier(S, e))
<1> DEFINE T == {m \in Nat : m <= Experts => start[m + 1] = Cardinality(OfEarlier(S, m + 1))}
<1>1. Experts \in Nat
    BY ExpertsAssumption
<1>2. \A e \in 1..(Experts + 1) : start[e] = IF e = 1 THEN 0 ELSE start[e - 1] + sizes[e - 1]
    <2> DEFINE g == [e \in 1..(Experts + 1) |-> IF e = 1 THEN 0 ELSE start[e - 1] + sizes[e - 1]]
    <2>1. start = g
        BY DEF Starts
    <2>2. \A e \in 1..(Experts + 1) : g[e] = IF e = 1 THEN 0 ELSE start[e - 1] + sizes[e - 1]
        OBVIOUS
    <2> HIDE DEF g
    <2>3. QED
        BY <2>1, <2>2
<1>3. 0 \in T
    <2>1. 1 \in 1..(Experts + 1)
        BY <1>1
    <2>2. start[1] = 0
        BY <1>2, <2>1
    <2>3. Cardinality(OfEarlier(S, 1)) = 0 /\ 0 + 1 = 1
        BY EarlierNext
    <2>4. QED
        BY <2>2, <2>3
<1>4. ASSUME NEW m \in Nat, m < Experts, m \in T
      PROVE  m + 1 \in T
    <2>1. (m + 1) + 1 \in 1..(Experts + 1) /\ (m + 1) + 1 # 1 /\ ((m + 1) + 1) - 1 = m + 1
          /\ m + 1 \in 1..Experts /\ m + 1 \in Nat /\ m <= Experts
        BY <1>1, <1>4
    <2>2. start[(m + 1) + 1] = start[m + 1] + sizes[m + 1]
        BY <1>2, <2>1
    <2>3. start[m + 1] = Cardinality(OfEarlier(S, m + 1)) /\ sizes[m + 1] = Cardinality(OfExpert(S, m + 1))
        BY <1>4, <2>1
    <2>4. Cardinality(OfEarlier(S, (m + 1) + 1)) =
              Cardinality(OfEarlier(S, m + 1)) + Cardinality(OfExpert(S, m + 1))
        BY <2>1, EarlierNext
    <2>5. QED
        BY <2>1, <2>2, <2>3, <2>4
<1>5. \A m \in 0..Experts : m \in T
    <2> HIDE DEF T
    <2>1. QED
        BY <1>1, <1>3, <1>4, UpTo
<1>6. ASSUME NEW e \in 1..(Experts + 1)
      PROVE  start[e] = Cardinality(OfEarlier(S, e))
    <2>1. e - 1 \in 0..Experts /\ (e - 1) + 1 = e
        BY <1>1
    <2>2. QED
        BY <1>5, <2>1
<1>7. QED
    BY <1>6

\* What is sooner is another slot, of no later expert.
LEMMA SoonerApart ==
    ASSUME NEW r, NEW s, r.expert \in Int, r.row \in Int, s.expert \in Int, s.row \in Int, Sooner(r, s)
    PROVE  r # s /\ r.expert < s.expert + 1
<1>1. ASSUME r = s
      PROVE  FALSE
    <2>1. Sooner(s, s)
        BY <1>1
    <2>2. QED
        BY <2>1 DEF Sooner
<1>2. r.expert < s.expert + 1
    BY DEF Sooner
<1>3. QED
    BY <1>1, <1>2

\* The slice of an expert in the list of the slots has its own slots.
LEMMA ParallelExact ==
    ASSUME NEW n \in Nat, NEW tokens, Routed(tokens, n), NEW slots, slots = Ordered(Slots(tokens, n), Sooner),
           NEW sizes, sizes = [e \in 1..Experts |-> Cardinality(OfExpert(Slots(tokens, n), e))],
           NEW inputs, DOMAIN inputs = DOMAIN slots
    PROVE  GraniteMoeParallel(inputs, sizes) =
               [k \in DOMAIN slots |-> [expert |-> slots[k].expert, of |-> inputs[k]]]
<1> DEFINE S == Slots(tokens, n)
           chosen == CHOOSE start : Starts(sizes, start)
           At(k, e) == chosen[e] < k /\ k <= chosen[e] + sizes[e]
<1>1. /\ IsFiniteSet(S) /\ DOMAIN slots = 1..Cardinality(S) /\ Cardinality(S) \in Nat
      /\ \A k \in DOMAIN slots : slots[k] \in S /\ Cardinality(Below(S, SlotOrder(S), slots[k])) = k - 1
    BY SlotRanks
<1>2. \A s \in S : s.expert \in 1..Experts /\ s.row \in 1..n
    BY SlotFields
<1>3. sizes = [e \in 1..Experts |-> Cardinality(OfExpert(S, e))]
    OBVIOUS
<1> HIDE DEF S
<1>4. \A s \in S : s.expert \in Nat \ {0}
    BY <1>2, ExpertsAssumption
<1>5. Starts(sizes, chosen)
    BY <1>1, <1>3, <1>4, StartsExist
<1>6. GraniteMoeParallel(inputs, sizes) = ParallelOf(inputs, sizes, chosen)
    BY DEF GraniteMoeParallel, ParallelOf, Starts
<1> HIDE DEF chosen
<1>7. \A e \in 1..(Experts + 1) : chosen[e] = Cardinality(OfEarlier(S, e))
    BY <1>1, <1>3, <1>4, <1>5, StartsCount
<1>8. ASSUME NEW e \in 1..Experts
      PROVE  /\ chosen[e] = Cardinality(OfEarlier(S, e)) /\ chosen[e] \in Nat
             /\ chosen[e] + sizes[e] = Cardinality(OfEarlier(S, e + 1))
             /\ chosen[e] + sizes[e] \in Nat
    <2>1. e \in Nat /\ e \in 1..(Experts + 1) /\ e + 1 \in Nat
        BY ExpertsAssumption
    <2>2. /\ Cardinality(OfEarlier(S, e)) \in Nat /\ Cardinality(OfEarlier(S, e + 1)) \in Nat
          /\ Cardinality(OfEarlier(S, e + 1)) = Cardinality(OfEarlier(S, e)) + Cardinality(OfExpert(S, e))
        BY <1>1, <1>4, <2>1, EarlierNext
    <2>3. sizes[e] = Cardinality(OfExpert(S, e))
        BY <1>3
    <2>4. chosen[e] = Cardinality(OfEarlier(S, e))
        BY <1>7, <2>1
    <2>5. QED
        BY <2>2, <2>3, <2>4
<1>9. ASSUME NEW k \in DOMAIN slots
      PROVE  slots[k].expert \in 1..Experts /\ At(k, slots[k].expert)
    <2> DEFINE s == slots[k]
               e == s.expert
               B == Below(S, SlotOrder(S), s)
    <2>1. s \in S /\ e \in 1..Experts /\ Cardinality(B) = k - 1 /\ k \in Nat \ {0}
        BY <1>1, <1>2
    <2>2. \A r \in S : r \in B <=> Sooner(r, s)
        BY <2>1 DEF Below, SlotOrder
    <2>3. \A r \in S : r.expert \in Int /\ r.row \in Int
        BY <1>2, ExpertsAssumption
    <2> HIDE DEF s, B
    <2>4. e \in Int /\ e + 1 \in Int /\ s.row \in Int
        BY <2>1, <2>3
    <2>5. OfEarlier(S, e) \subseteq B
        BY <2>2 DEF OfEarlier, Sooner
    <2>6. B \subseteq OfEarlier(S, e + 1) \ {s}
        <3>1. ASSUME NEW r \in B
              PROVE  r \in S /\ r.expert < e + 1 /\ r # s
            <4>1. r \in S /\ Sooner(r, s)
                BY <2>2 DEF B, Below
            <4>2. r.expert \in Int /\ r.row \in Int
                BY <2>3, <4>1
            <4> HIDE DEF e
            <4>3. r # s
                BY <2>4, <4>1, <4>2, SoonerApart DEF e
            <4>4. r.expert < e + 1
                BY <2>4, <4>1, <4>2, SoonerApart DEF e
            <4>5. QED
                BY <4>1, <4>3, <4>4
        <3>2. QED
            BY <3>1 DEF OfEarlier
    <2>7. s \in OfEarlier(S, e + 1)
        BY <2>1, <2>4 DEF OfEarlier
    <2>8. OfEarlier(S, e + 1) \subseteq S
        BY DEF OfEarlier
    <2>9. IsFiniteSet(OfEarlier(S, e + 1)) /\ Cardinality(OfEarlier(S, e + 1)) \in Nat
        BY <1>1, <2>8, FS_Subset, FS_CardinalityType
    <2>10. /\ IsFiniteSet(OfEarlier(S, e + 1) \ {s})
           /\ Cardinality(OfEarlier(S, e + 1) \ {s}) = Cardinality(OfEarlier(S, e + 1)) - 1
        BY <2>7, <2>9, FS_RemoveElement
    <2>11. IsFiniteSet(B) /\ Cardinality(B) <= Cardinality(OfEarlier(S, e + 1) \ {s})
        BY <2>6, <2>10, FS_Subset
    <2>12. Cardinality(OfEarlier(S, e)) <= Cardinality(B)
        BY <2>5, <2>11, FS_Subset
    <2>13. chosen[e] = Cardinality(OfEarlier(S, e)) /\ chosen[e] \in Nat
           /\ chosen[e] + sizes[e] = Cardinality(OfEarlier(S, e + 1))
        BY <1>8, <2>1
    <2>14. chosen[e] < k /\ k <= chosen[e] + sizes[e]
        BY <2>1, <2>9, <2>10, <2>11, <2>12, <2>13
    <2>15. QED
        BY <2>1, <2>14 DEF s
<1>10. ASSUME NEW k \in Nat, NEW d \in 1..Experts, NEW e \in 1..Experts, d < e, At(k, d), At(k, e)
       PROVE  FALSE
    <2>1. \A s \in S : s.expert \in Int
        BY <1>4
    <2>2. OfEarlier(S, d + 1) \subseteq OfEarlier(S, e)
        BY <1>10, <2>1, ExpertsAssumption DEF OfEarlier
    <2>3. OfEarlier(S, e) \subseteq S
        BY DEF OfEarlier
    <2>4. IsFiniteSet(OfEarlier(S, e))
        BY <1>1, <2>3, FS_Subset
    <2>5. Cardinality(OfEarlier(S, d + 1)) <= Cardinality(OfEarlier(S, e))
        BY <2>2, <2>4, FS_Subset
    <2>6. /\ chosen[e] = Cardinality(OfEarlier(S, e)) /\ chosen[e] \in Nat
          /\ chosen[d] + sizes[d] = Cardinality(OfEarlier(S, d + 1)) /\ chosen[d] + sizes[d] \in Nat
        BY <1>8
    <2>7. QED
        BY <1>10, <2>5, <2>6
<1>11. ASSUME NEW k \in DOMAIN slots
       PROVE  (CHOOSE e \in 1..Experts : At(k, e)) = slots[k].expert
    <2> DEFINE e == CHOOSE e \in 1..Experts : At(k, e)
    <2>1. slots[k].expert \in 1..Experts /\ At(k, slots[k].expert)
        BY <1>9
    <2> HIDE DEF At
    <2>2. e \in 1..Experts /\ At(k, e)
        BY <2>1
    <2>3. k \in Nat /\ e \in Int /\ slots[k].expert \in Int
        BY <1>1, <2>1, <2>2, ExpertsAssumption
    <2> HIDE DEF e
    <2>4. ~(e < slots[k].expert) /\ ~(slots[k].expert < e)
        BY <1>10, <2>1, <2>2, <2>3
    <2>5. e = slots[k].expert
        BY <2>3, <2>4
    <2>6. QED
        BY <2>5 DEF e
<1>12. ParallelOf(inputs, sizes, chosen) =
           [k \in DOMAIN slots |-> [expert |-> CHOOSE e \in 1..Experts : At(k, e), of |-> inputs[k]]]
    BY DEF ParallelOf
<1> HIDE DEF At
<1>13. QED
    BY <1>6, <1>11, <1>12

\* A row is added to by exactly the experts of its token.
LEMMA GraniteMoeExact ==
    ASSUME NEW n \in Nat, NEW xs, IsList(xs, n), NEW tokens, IsList(tokens, n), Routed(tokens, n)
    PROVE  GraniteMoeMlp(xs, tokens) = [i \in 1..n |-> ConsultingAt("granite_moe", xs[i], tokens[i])]
<1> DEFINE slots == Ordered(Slots(tokens, n), Sooner)
           sizes == [e \in 1..Experts |-> Cardinality(OfExpert(Slots(tokens, n), e))]
           inputs == [k \in DOMAIN slots |-> xs[slots[k].row]]
           hidden == [k \in DOMAIN slots |-> [expert |-> slots[k].expert, of |-> inputs[k]]]
           outputs == [k \in DOMAIN slots |-> [expert |-> slots[k].expert, of |-> hidden[k]]]
           Given(i) == {[output |-> outputs[k], gate |-> slots[k].gate] : k \in {k \in DOMAIN slots : slots[k].row = i}}
           Wanted(i) == {[output |-> Output("granite_moe", e, xs[i]), gate |-> Gate(tokens[i], e)] :
                             e \in Range(Route[tokens[i]])}
<1>1. DOMAIN xs = 1..n /\ DOMAIN tokens = 1..n
    BY DEF IsList
<1>2. GraniteMoeGating(tokens).slots = slots /\ GraniteMoeGating(tokens).sizes = sizes
    BY <1>1 DEF GraniteMoeGating, Slots, Slot, Sooner, OfExpert, Ordered
<1>3. /\ \A k \in DOMAIN slots : slots[k] \in Slots(tokens, n)
      /\ \A s \in Slots(tokens, n) : \E k \in DOMAIN slots : slots[k] = s
    <2> DEFINE list == slots
    <2>1. list = Ordered(Slots(tokens, n), Sooner)
        OBVIOUS
    <2> HIDE DEF list
    <2>2. /\ \A k \in DOMAIN list : list[k] \in Slots(tokens, n)
          /\ \A s \in Slots(tokens, n) : \E k \in DOMAIN list : list[k] = s
        BY <2>1, SlotRanks
    <2>3. QED
        BY <2>2 DEF list
<1>4. \A feed : DOMAIN feed = DOMAIN slots =>
          GraniteMoeParallel(feed, sizes) = [k \in DOMAIN slots |-> [expert |-> slots[k].expert, of |-> feed[k]]]
    BY ParallelExact
<1>5. GraniteMoeMlp(xs, tokens) = [i \in 1..n |-> [row |-> xs[i], experts |-> Given(i)]]
    <2>1. DOMAIN inputs = DOMAIN slots /\ DOMAIN hidden = DOMAIN slots
        OBVIOUS
    <2>2. GraniteMoeParallel(inputs, sizes) = hidden
        <3> HIDE DEF slots, sizes, inputs
        <3>1. QED
            BY <1>4, <2>1
    <2>3. GraniteMoeParallel(hidden, sizes) = outputs
        <3> HIDE DEF slots, sizes, inputs, hidden
        <3>1. QED
            BY <1>4, <2>1
    <2>4. GraniteMoeMlp(xs, tokens) =
              [i \in 1..n |->
                  [row |-> xs[i],
                   experts |-> {[output |-> GraniteMoeParallel(GraniteMoeParallel(inputs, sizes), sizes)[k],
                                 gate |-> slots[k].gate] : k \in {k \in DOMAIN slots : slots[k].row = i}}]]
        <3> HIDE DEF slots, sizes
        <3>1. QED
            BY <1>1, <1>2 DEF GraniteMoeMlp
    <2> HIDE DEF slots, sizes, inputs, hidden, outputs
    <2>5. QED
        BY <2>2, <2>3, <2>4
<1>6. /\ \A s \in Slots(tokens, n) : /\ s.row \in 1..n /\ s.expert \in Range(Route[tokens[s.row]])
                                     /\ s = Slot(tokens, s.expert, s.row)
      /\ \A i \in 1..n : \A e \in Range(Route[tokens[i]]) : Slot(tokens, e, i) \in Slots(tokens, n)
    BY SlotFields
<1>7. ASSUME NEW k \in DOMAIN slots
      PROVE  outputs[k] = Output("granite_moe", slots[k].expert, xs[slots[k].row])
    <2> HIDE DEF slots
    <2>1. QED
        BY DEF Output
<1> HIDE DEF slots, sizes, inputs, hidden, outputs
<1>8. ASSUME NEW i \in 1..n
      PROVE  Given(i) = Wanted(i)
    <2>1. ASSUME NEW k \in DOMAIN slots, slots[k].row = i
          PROVE  [output |-> outputs[k], gate |-> slots[k].gate] \in Wanted(i)
        <3> DEFINE e == slots[k].expert
        <3>1. e \in Range(Route[tokens[i]]) /\ slots[k] = Slot(tokens, e, i)
            BY <1>3, <1>6, <2>1
        <3>2. outputs[k] = Output("granite_moe", e, xs[i])
            BY <1>7, <2>1
        <3> HIDE DEF e
        <3>3. slots[k].gate = Gate(tokens[i], e)
            BY <3>1 DEF Slot
        <3>4. QED
            BY <3>1, <3>2, <3>3
    <2>2. ASSUME NEW e \in Range(Route[tokens[i]])
          PROVE  [output |-> Output("granite_moe", e, xs[i]), gate |-> Gate(tokens[i], e)] \in Given(i)
        <3>1. PICK k \in DOMAIN slots : slots[k] = Slot(tokens, e, i)
            BY <1>3, <1>6
        <3>2. slots[k].expert = e /\ slots[k].row = i /\ slots[k].gate = Gate(tokens[i], e)
            BY <3>1 DEF Slot
        <3>3. outputs[k] = Output("granite_moe", e, xs[i])
            BY <1>7, <3>2
        <3>4. QED
            BY <3>2, <3>3
    <2>3. \A x : x \in Given(i) <=> \E k \in DOMAIN slots :
                     slots[k].row = i /\ x = [output |-> outputs[k], gate |-> slots[k].gate]
        OBVIOUS
    <2>4. \A x : x \in Wanted(i) <=> \E e \in Range(Route[tokens[i]]) :
                     x = [output |-> Output("granite_moe", e, xs[i]), gate |-> Gate(tokens[i], e)]
        OBVIOUS
    <2> HIDE DEF Given, Wanted
    <2>5. \A x : x \in Given(i) <=> x \in Wanted(i)
        BY <2>1, <2>2, <2>3, <2>4
    <2>6. QED
        BY <2>5
<1>9. \A i : ConsultingAt("granite_moe", xs[i], tokens[i]) = [row |-> xs[i], experts |-> Wanted(i)]
    BY DEF ConsultingAt
<1> HIDE DEF Given, Wanted
<1>10. QED
    BY <1>5, <1>8, <1>9

(***************************************************************************)
(* A pass over the tokens behind a text makes of them what the whole text  *)
(* does                                                                    *)
(***************************************************************************)
\* The tokens of a call, as a list the router knows.
LEMMA CallTokens ==
    ASSUME NEW call, CallOK(call)
    PROVE  Width(call) \in Nat /\ IsList(call.tokens, Width(call)) /\ Routed(call.tokens, Width(call))
<1>1. call.tokens \in Seq(Token) /\ Width(call) = Len(call.tokens)
    BY DEF CallOK, Width
<1>2. Len(call.tokens) \in Nat /\ IsList(call.tokens, Len(call.tokens))
      /\ \A i \in 1..Len(call.tokens) : call.tokens[i] \in Token
    BY <1>1, SeqList
<1>3. QED
    BY <1>1, <1>2 DEF Routed

\* A layer of a decoder.
LEMMA DecoderLayerExact ==
    ASSUME NEW f \in Decoding, NEW call, NEW t, NEW m, Continues(f, call, t, m),
           NEW ys, NEW cells, DecoderCell(f, ys, m, cells),
           NEW layer, layer = LayerOf(f, call, cells, NewOf(ys, m, Width(call))), layer.ok
    PROVE  /\ layer.xs = [i \in 1..Width(call) |-> WholeAt(f, ys, t, m + i)]
           /\ DecoderCell(f, ys, m + Width(call), layer.cells)
<1> DEFINE n == Width(call)
           xs == NewOf(ys, m, n)
           attended == AttentionOf(f, call, cells, xs)
           attends == [i \in 1..n |-> AttendingAt(f, ys, m + i)]
<1>1. CallOK(call) /\ m \in Nat /\ \A i \in 1..n : t[m + i] = call.tokens[i]
    BY DEF Continues
<1>2. n \in Nat /\ IsList(call.tokens, n) /\ Routed(call.tokens, n)
    BY <1>1, CallTokens
<1>3. IsList(cells, m) /\ IsList(xs, n)
    BY DEF DecoderCell, IsList, NewOf
<1>4. LayerParts(f, call, layer, attended)
    BY LayerOfFamily
<1>5. RowsOf(f, call) # Outside
    <2>1. RowsOf(f, call) = Outside => attended = [ok |-> FALSE, cells |-> cells, xs |-> xs]
        BY AttentionOutside
    <2>2. RowsOf(f, call) = Outside => ~attended.ok
        BY <2>1
    <2> HIDE DEF attended
    <2>3. QED
        BY <1>4, <2>2 DEF LayerParts
<1>6. attended = [ok |-> FitsOf(f, call, m, n),
                  cells |-> AllCells(f, call, cells, xs, m),
                  xs |-> Attends(f, call, cells, xs, m)]
    <2> HIDE DEF xs
    <2>1. QED
        BY <1>1, <1>3, <1>5, AttentionParts
<1>7. FitsOf(f, call, m, n) /\ attended.ok
    <2>1. attended.ok = FitsOf(f, call, m, n)
        BY <1>6
    <2> HIDE DEF attended
    <2>2. QED
        BY <1>4, <2>1 DEF LayerParts
<1>8. DecoderCell(f, ys, m + n, AllCells(f, call, cells, xs, m)) /\ Attends(f, call, cells, xs, m) = attends
    BY <1>7, AttentionExact
<1>9. attended.cells = AllCells(f, call, cells, xs, m) /\ attended.xs = attends
    BY <1>6, <1>8
<1> HIDE DEF attended
<1>10. DecoderCell(f, ys, m + n, layer.cells)
    BY <1>4, <1>8, <1>9 DEF LayerParts
<1>11. IsList(attends, n)
    BY DEF IsList
<1>12. \A i \in 1..n : attends[i] = AttendingAt(f, ys, m + i)
    OBVIOUS
<1> HIDE DEF attends
<1>13. CASE f = "granite_moe"
    <2>1. layer.xs = GraniteMoeMlp(attends, call.tokens)
        BY <1>4, <1>7, <1>9, <1>13 DEF LayerParts
    <2>2. GraniteMoeMlp(attends, call.tokens) =
              [i \in 1..n |-> ConsultingAt("granite_moe", attends[i], call.tokens[i])]
        BY <1>2, <1>11, GraniteMoeExact
    <2>3. \A i \in 1..n : WholeAt(f, ys, t, m + i) = ConsultingAt("granite_moe", attends[i], call.tokens[i])
        BY <1>1, <1>12, <1>13 DEF WholeAt, Mambas
    <2>4. QED
        BY <1>10, <2>1, <2>2, <2>3
<1>14. CASE f = "deepseek2"
    <2>1. layer.xs = DeepSeek2Moe(attends, call.tokens)
        BY <1>4, <1>7, <1>9, <1>14 DEF LayerParts
    <2>2. DeepSeek2Moe(attends, call.tokens) =
              [i \in 1..n |-> ConsultingAt("deepseek2", attends[i], call.tokens[i])]
        BY <1>2, <1>11, DeepSeek2MoeExact
    <2>3. \A i \in 1..n : WholeAt(f, ys, t, m + i) = ConsultingAt("deepseek2", attends[i], call.tokens[i])
        BY <1>1, <1>12, <1>14 DEF WholeAt, Mambas
    <2>4. QED
        BY <1>10, <2>1, <2>2, <2>3
<1>15. CASE f \notin {"granite_moe", "deepseek2"}
    <2>1. layer.xs = attends
        BY <1>4, <1>9, <1>15 DEF LayerParts
    <2>2. \A i : WholeAt(f, ys, t, m + i) = AttendingAt(f, ys, m + i)
        BY <1>15 DEF WholeAt, Mambas, Decoding
    <2>3. QED
        BY <1>10, <2>1, <2>2 DEF attends
<1>16. QED
    BY <1>13, <1>14, <1>15

\* A layer of any family.
LEMMA LayerExact ==
    ASSUME NEW f \in Families, NEW call, NEW t, NEW m, Continues(f, call, t, m),
           NEW ys, NEW cells, CellOf(f, ys, m, cells),
           NEW layer, layer = LayerOf(f, call, cells, NewOf(ys, m, Width(call))), layer.ok
    PROVE  /\ layer.xs = [i \in 1..Width(call) |-> WholeAt(f, ys, t, m + i)]
           /\ CellOf(f, ys, m + Width(call), layer.cells)
<1> DEFINE n == Width(call)
           xs == NewOf(ys, m, n)
<1>1. CallOK(call) /\ m \in Nat /\ call.offset = m
    BY DEF Continues
<1>2. n \in Nat
    BY <1>1, CallTokens
<1>3. CASE f \in Decoding
    <2>1. \A k, cell : CellOf(f, ys, k, cell) <=> DecoderCell(f, ys, k, cell)
        BY <1>3 DEF CellOf, Decoding
    <2>2. QED
        BY <1>3, <2>1, DecoderLayerExact
<1>4. CASE f \in Mambas
    <2>1. /\ LayerOf(f, call, cells, xs).xs = [i \in 1..n |-> ConvolvingAt(ys, m + i)]
          /\ CellOf(f, ys, m + n, LayerOf(f, call, cells, xs).cells)
        BY <1>1, <1>2, <1>4, MambaExact
    <2>2. \A i : WholeAt(f, ys, t, m + i) = ConvolvingAt(ys, m + i)
        BY <1>4 DEF WholeAt, Mambas
    <2>3. QED
        BY <2>1, <2>2
<1>5. CASE f = "rwkv6"
    <2>1. layer = Rwkv6Block(cells, xs, call.type)
        BY <1>5 DEF LayerOf
    <2>2. Len(xs) = 1 /\ call.type = "f32"
        <3>1. layer.ok <=> Len(xs) = 1 /\ call.type = "f32"
            BY <1>5, StateLayer
        <3>2. QED
            BY <3>1
    <2>3. IsList(xs, n)
        BY DEF IsList, NewOf
    <2>4. n = 1
        BY <1>2, <2>2, <2>3, ListLen
    <2>5. xs[1] = ys[m + 1]
        BY <2>4 DEF NewOf
    <2>6. \A k, cell : CellOf(f, ys, k, cell) <=> Rwkv6Cell(ys, k, cell)
        BY <1>5 DEF CellOf
    <2>7. Rwkv6Cell(ys, m, cells)
        BY <2>6
    <2> HIDE DEF xs
    <2>8. /\ Rwkv6Cell(ys, m + 1, Rwkv6Block(cells, xs, "f32").cells)
          /\ Rwkv6Block(cells, xs, "f32").xs = <<MixingAt(ys, m + 1)>>
        BY <1>1, <2>2, <2>5, <2>7, Rwkv6Exact
    <2>9. CellOf(f, ys, m + n, layer.cells)
        BY <2>1, <2>2, <2>4, <2>6, <2>8
    <2>10. <<MixingAt(ys, m + 1)>> = [i \in 1..n |-> WholeAt(f, ys, t, m + i)]
        <3>1. WholeAt(f, ys, t, m + 1) = MixingAt(ys, m + 1)
            BY <1>5 DEF WholeAt, Mambas
        <3>2. <<MixingAt(ys, m + 1)>> = [i \in 1..1 |-> MixingAt(ys, m + 1)]
            OBVIOUS
        <3>3. [i \in 1..1 |-> MixingAt(ys, m + 1)] = [i \in 1..1 |-> WholeAt(f, ys, t, m + i)]
            BY <3>1
        <3>4. QED
            BY <2>4, <3>2, <3>3
    <2>11. QED
        BY <2>1, <2>2, <2>8, <2>9, <2>10
<1>6. QED
    BY <1>3, <1>4, <1>5 DEF Decoding, Mambas

\* A layer of a pass, and what it leaves.
LEMMA PassLayer ==
    ASSUME NEW f, NEW call, NEW g, IsPass(g, f, call), IsList(call.layers, Depth),
           NEW l \in Nat, l < Depth, g[l].ok,
           NEW layer, layer = LayerOf(f, call, g[l].layers[l + 1], g[l].xs)
    PROVE  /\ g[l + 1].ok = layer.ok
           /\ g[l + 1].xs = layer.xs
           /\ g[l + 1].layers[l + 1] = layer.cells
           /\ \A k \in 1..Depth : k # l + 1 => g[l + 1].layers[k] = g[l].layers[k]
BY PassOne

\* All layers, one after the other.
LEMMA PassExact ==
    ASSUME NEW f \in Families, NEW call, NEW t, NEW m, Continues(f, call, t, m), InputsOf(f, call) # Outside,
           \A l \in 1..Depth : CellOf(f, After(f, t)[l - 1], m, call.layers[l]),
           NEW g, IsPass(g, f, call), g[Depth].ok
    PROVE  /\ g[Depth].xs = NewOf(After(f, t)[Depth], m, Width(call))
           /\ \A l \in 1..Depth : CellOf(f, After(f, t)[l - 1], m + Width(call), g[Depth].layers[l])
<1> DEFINE n == Width(call)
           after == After(f, t)
           P(l) == /\ g[l].xs = NewOf(after[l], m, n)
                   /\ \A k \in 1..Depth : CellOf(f, after[k - 1], IF k <= l THEN m + n ELSE m, g[l].layers[k])
           S == {l \in Nat : l <= Depth => P(l)}
<1>1. CallOK(call) /\ IsList(call.layers, Depth) /\ m \in Nat /\ call.offset = m /\ Len(t) = m + n
      /\ \A i \in 1..n : t[m + i] = call.tokens[i]
    BY DEF Continues, CallOK
<1>2. n \in Nat /\ m + n \in Nat /\ \A i \in 1..n : m + i \in 1..(m + n)
    BY <1>1, CallTokens
<1>3. P(0)
    <2>1. g[0] = [ok |-> TRUE, layers |-> call.layers, xs |-> InputsOf(f, call)]
        BY PassFirst
    <2>2. InputsOf(f, call) = [i \in 1..n |->
              [token |-> call.tokens[i],
               at |-> IF f \in LearnedPositions THEN <<call.offset + i - 1>> ELSE <<>>]]
        BY <1>1, InputsOfFamily
    <2>3. 0 \in 0..Depth
        BY TensorsAssumption
    <2>4. ASSUME NEW i \in 1..n
          PROVE  after[0][m + i] = [token |-> call.tokens[i],
                                    at |-> IF f \in LearnedPositions THEN <<call.offset + i - 1>> ELSE <<>>]
        <3>1. m + i \in 1..(m + n)
            BY <1>2
        <3>2. after[0][m + i] = WholeInputs(f, t)[m + i]
            BY <1>1, <1>2, <2>3, <3>1, AfterList
        <3>3. WholeInputs(f, t)[m + i] =
                  [token |-> t[m + i], at |-> IF f \in LearnedPositions THEN <<(m + i) - 1>> ELSE <<>>]
            BY <1>1, <3>1 DEF WholeInputs
        <3>4. t[m + i] = call.tokens[i] /\ (m + i) - 1 = call.offset + i - 1
            BY <1>1
        <3> HIDE DEF after
        <3>5. QED
            BY <3>2, <3>3, <3>4
    <2> HIDE DEF after
    <2>5. g[0].xs = NewOf(after[0], m, n)
        BY <2>1, <2>2, <2>4 DEF NewOf
    <2>6. g[0].layers = call.layers
        BY <2>1
    <2>7. \A k \in 1..Depth : ~(k <= 0)
        OBVIOUS
    <2>8. \A k \in 1..Depth : CellOf(f, after[k - 1], IF k <= 0 THEN m + n ELSE m, g[0].layers[k])
        BY <2>6, <2>7 DEF after
    <2>9. QED
        BY <2>5, <2>8
<1>4. ASSUME NEW l \in Nat, l < Depth, P(l)
      PROVE  P(l + 1)
    <2> DEFINE layer == LayerOf(f, call, g[l].layers[l + 1], g[l].xs)
    <2>0. l < Depth
        BY <1>4
    <2>1. l \in 0..Depth /\ l + 1 \in 1..Depth /\ (l + 1) - 1 = l /\ ~(l + 1 <= l)
        BY <2>0, TensorsAssumption
    <2>2. g[l].ok /\ g[l + 1].ok
        <3>1. l + 1 \in 0..Depth
            BY <2>1
        <3>2. QED
            BY <1>1, <2>1, <3>1, PassOk
    <2> HIDE DEF P, S
    <2>3. /\ g[l + 1].ok = layer.ok
          /\ g[l + 1].xs = layer.xs
          /\ g[l + 1].layers[l + 1] = layer.cells
          /\ \A k \in 1..Depth : k # l + 1 => g[l + 1].layers[k] = g[l].layers[k]
        <3>1. IsList(call.layers, Depth)
            BY <1>1
        <3>2. layer = LayerOf(f, call, g[l].layers[l + 1], g[l].xs)
            OBVIOUS
        <3> HIDE DEF layer
        <3>3. g[l].ok
            BY <2>2
        <3>4. QED
            BY <2>0, <3>1, <3>2, <3>3, PassLayer
    <2> USE DEF P
    <2>4. layer = LayerOf(f, call, g[l].layers[l + 1], NewOf(after[l], m, n))
        BY <1>4
    <2>5. CellOf(f, after[l], m, g[l].layers[l + 1])
        <3> HIDE DEF after
        <3>1. QED
            BY <1>4, <2>1
    <2> HIDE DEF layer
    <2>6. /\ layer.xs = [i \in 1..n |-> WholeAt(f, after[l], t, m + i)]
          /\ CellOf(f, after[l], m + n, layer.cells)
        <3> HIDE DEF after
        <3>1. QED
            BY <2>2, <2>3, <2>4, <2>5, LayerExact
    <2>7. \A i \in 1..n : after[l + 1][m + i] = WholeAt(f, after[l], t, m + i)
        <3>1. \A i \in 1..(m + n) : after[l + 1][i] = WholeAt(f, after[l], t, i)
            BY <1>1, <1>2, <2>0, AfterNext
        <3> HIDE DEF after
        <3>2. QED
            BY <1>2, <3>1
    <2> HIDE DEF after
    <2>8. g[l + 1].xs = NewOf(after[l + 1], m, n)
        BY <2>3, <2>6, <2>7 DEF NewOf
    <2>9. ASSUME NEW k \in 1..Depth
          PROVE  CellOf(f, after[k - 1], IF k <= l + 1 THEN m + n ELSE m, g[l + 1].layers[k])
        <3>1. CASE k = l + 1
            BY <2>1, <2>3, <2>6, <3>1
        <3>2. CASE k # l + 1
            <4>1. g[l + 1].layers[k] = g[l].layers[k]
                BY <2>3, <3>2
            <4>2. k <= l + 1 <=> k <= l
                BY <3>2
            <4>3. CellOf(f, after[k - 1], IF k <= l THEN m + n ELSE m, g[l].layers[k])
                BY <1>4
            <4>4. QED
                BY <4>1, <4>2, <4>3
        <3>3. QED
            BY <3>1, <3>2
    <2>10. QED
        BY <2>8, <2>9
<1>5. 0 \in S /\ \A l \in Nat : l < Depth /\ l \in S => l + 1 \in S
    <2> HIDE DEF P
    <2>1. QED
        BY <1>3, <1>4, TensorsAssumption
<1>6. \A l \in 0..Depth : l \in S
    <2> HIDE DEF S
    <2>1. QED
        BY <1>5, UpTo, TensorsAssumption
<1>7. P(Depth)
    <2>1. Depth \in 0..Depth /\ Depth <= Depth
        BY TensorsAssumption
    <2> HIDE DEF P
    <2>2. QED
        BY <1>6, <2>1
<1>8. \A k \in 1..Depth : k <= Depth
    BY TensorsAssumption
<1> HIDE DEF after
<1>9. g[Depth].xs = NewOf(after[Depth], m, n)
    BY <1>7
<1>10. \A k \in 1..Depth : CellOf(f, after[k - 1], m + n, g[Depth].layers[k])
    BY <1>7, <1>8
<1>11. QED
    BY <1>9, <1>10 DEF after

\* The forward function: what it leaves in the layers, and what it answers.
LEMMA ForwardExact ==
    ASSUME NEW f \in Families, NEW call, NEW t, NEW m, Continues(f, call, t, m),
           \A l \in 1..Depth : CellOf(f, After(f, t)[l - 1], m, call.layers[l]),
           NEW pass, pass = Forward(f, call), pass.ok
    PROVE  Holds(f, pass.layers, t) /\ pass.xs = Logits(f, t)
<1> DEFINE n == Width(call)
           ys == After(f, t)[Depth]
<1>1. CallOK(call) /\ IsList(call.layers, Depth) /\ m \in Nat /\ Len(t) = m + n
    BY DEF Continues, CallOK
<1>2. n \in Nat /\ n # 0 /\ m + n \in Nat
    BY <1>1, CallTokens DEF CallOK, Width
<1>3. PICK done : Passes(done, f, call) /\ Forward(f, call) = LastOf(done)
    BY ForwardPass
<1>4. done.ok
    BY <1>3 DEF LastOf
<1>5. Open(f, call)
    <2>1. ASSUME ~Open(f, call)
          PROVE  FALSE
        <3>1. done = Refused(call)
            BY <1>3, <2>1 DEF Passes
        <3>2. QED
            BY <1>4, <3>1 DEF Refused
    <2>2. QED
        BY <2>1
<1>6. PICK g : IsPass(g, f, call) /\ done = g[Depth]
    BY <1>3, <1>5 DEF Passes
<1>7. InputsOf(f, call) # Outside
    <2>1. CASE f \in Decoding
        BY <1>5, <2>1 DEF Open
    <2>2. CASE f \notin Decoding
        <3>1. f \notin LearnedPositions
            BY <2>2 DEF Decoding, LearnedPositions, Families
        <3>2. QED
            BY <1>1, <3>1, InputsOfFamily
    <2>3. QED
        BY <2>1, <2>2
<1>8. /\ done.xs = NewOf(ys, m, n)
      /\ \A l \in 1..Depth : CellOf(f, After(f, t)[l - 1], m + n, done.layers[l])
    BY <1>4, <1>6, <1>7, PassExact
<1>9. Depth \in 0..Depth
    BY TensorsAssumption
<1>10. IsRecord(done)
    BY <1>1, <1>6, <1>9, PassRecord
<1>11. pass.layers = done.layers /\ pass.xs = <<Last(done.xs)>>
    BY <1>3, <1>4, <1>10 DEF LastOf, IsRecord
<1>12. Holds(f, pass.layers, t)
    BY <1>1, <1>8, <1>11 DEF Holds
<1>13. IsList(ys, m + n)
    BY <1>1, <1>2, <1>9, AfterList
<1>14. Logits(f, t) = <<Last(ys)>>
    BY DEF Logits, After
<1> HIDE DEF ys
<1>15. Last(done.xs) = ys[m + n]
    <2> DEFINE xs == NewOf(ys, m, n)
    <2>1. IsList(xs, n)
        BY DEF IsList, NewOf
    <2>2. xs[n] = ys[m + n]
        BY <1>2 DEF NewOf
    <2> HIDE DEF xs
    <2>3. Len(xs) = n
        BY <1>2, <2>1, ListLen
    <2>4. QED
        BY <1>8, <2>2, <2>3 DEF Last, xs
<1>16. Last(ys) = ys[m + n]
    <2>1. Len(ys) = m + n
        BY <1>2, <1>13, ListLen
    <2>2. QED
        BY <2>1 DEF Last
<1>17. QED
    BY <1>11, <1>12, <1>14, <1>15, <1>16

\* Before the first pass the caches hold the empty text.
LEMMA ClearedHolds == \A f \in Families : Holds(f, Cleared(f), <<>>)
<1> SUFFICES ASSUME NEW f \in Families, NEW l \in 1..Depth
             PROVE  CellOf(f, After(f, <<>>)[l - 1], 0, Cleared(f)[l])
    BY EmptySeq DEF Holds
<1> DEFINE xs == After(f, <<>>)[l - 1]
<1>1. Cleared(f)[l] = IF f = "rwkv6" THEN Rwkv6Zeros ELSE NoCache
    BY DEF Cleared
<1> HIDE DEF xs
<1>2. Convolved(xs, 0) = <<>> /\ Mixtures(xs, 0) = <<>>
    BY DEF Convolved, Mixtures
<1>3. DConv \in Nat \ {0} /\ \A d \in 1..DConv : ~(0 - DConv + d >= 1)
    BY RecurrentAssumption
<1>4. \A d \in 1..DConv : Input(xs, 0 - DConv + d) = Zero
    BY <1>3 DEF Input
<1>5. CASE f = "mamba"
    <2> DEFINE cell == MambaState
    <2>1. cell.past = Convolved(xs, 0) /\ cell.ring = [d \in 0..(DConv - 1) |-> Zero]
          /\ cell = [past |-> cell.past, ring |-> cell.ring]
        BY <1>2 DEF MambaState
    <2>2. \A d \in 0..(DConv - 1) : cell.ring[d] = Zero
        BY <2>1
    <2>3. \A d \in 1..DConv : (0 + d - 1) % DConv \in 0..(DConv - 1)
        BY <1>3
    <2> HIDE DEF cell
    <2>4. cell.ring = [d \in 0..(DConv - 1) |-> cell.ring[d]]
        BY <2>1, <2>2
    <2>5. MambaCell(xs, 0, cell)
        BY <1>4, <2>1, <2>2, <2>3, <2>4 DEF MambaCell
    <2>6. QED
        BY <1>1, <1>5, <2>5 DEF CellOf, Begun, cell, xs
<1>6. CASE f = "mamba2"
    <2>1. LastInputs(xs, 0) = [d \in 1..DConv |-> Zero]
        BY <1>4 DEF LastInputs
    <2>2. Mamba2Cell(xs, 0, Mamba2State)
        BY <1>2, <2>1 DEF Mamba2Cell, Mamba2State
    <2>3. QED
        BY <1>1, <1>6, <2>2 DEF CellOf, Begun, xs
<1>7. CASE f = "rwkv6"
    <2>1. Rwkv6Cell(xs, 0, Rwkv6Zeros)
        BY <1>2 DEF Rwkv6Cell, Rwkv6Zeros, Input, Attention
    <2>2. QED
        BY <1>1, <1>7, <2>1 DEF CellOf, xs
<1>8. CASE f \notin Mambas \cup {"rwkv6"}
    <2>1. DecoderCell(f, xs, 0, NoCache)
        BY DEF DecoderCell, NoCache
    <2>2. QED
        BY <1>1, <1>8, <2>1 DEF CellOf, Mambas, xs
<1>9. QED
    BY <1>5, <1>6, <1>7, <1>8 DEF Mambas

\* A call of tokens that come after a text the caches hold.
LEMMA HoldsNext ==
    ASSUME NEW f \in Families, NEW held \in Seq(Token), NEW from, IsList(from, Depth), Holds(f, from, held),
           NEW tokens \in Seq(Token), tokens # <<>>, NEW number \in NumberType,
           ~Rough(f, number, Len(held) + Len(tokens)),
           f = "starcoder2" => Len(held) = 0 \/ Len(held) + Len(tokens) <= Window + 1,
           NEW pass, pass = Forward(f, Call(from, tokens, Len(held), number)), pass.ok
    PROVE  Holds(f, pass.layers, held \o tokens) /\ pass.xs = Logits(f, held \o tokens)
<1> DEFINE m == Len(held)
           n == Len(tokens)
           t == held \o tokens
           call == Call(from, tokens, m, number)
<1>1. m \in Nat /\ n \in Nat
    OBVIOUS
<1>2. /\ CallOK(call) /\ Width(call) = n
      /\ call.layers = from /\ call.tokens = tokens /\ call.offset = m /\ call.type = number
    BY <1>1, CallFields
<1>3. t \in Seq(Token) /\ Len(t) = m + n /\ \A i \in 1..(m + n) : t[i] = IF i <= m THEN held[i] ELSE tokens[i - m]
    BY ConcatProperties
<1>4. \A i \in 1..n : t[m + i] = tokens[i]
    <2>1. TAKE i \in 1..n
    <2>2. m + i \in 1..(m + n) /\ ~(m + i <= m) /\ (m + i) - m = i
        BY <1>1
    <2> HIDE DEF t
    <2>3. QED
        BY <1>3, <2>2
<1>5. \A i \in 1..m : held[i] = t[i]
    <2>1. TAKE i \in 1..m
    <2>2. i \in 1..(m + n) /\ i <= m
        BY <1>1
    <2> HIDE DEF t
    <2>3. QED
        BY <1>3, <2>2
<1> HIDE DEF call, t
<1>6. Continues(f, call, t, m)
    BY <1>1, <1>2, <1>3, <1>4 DEF Continues
<1>7. \A l \in 1..Depth : CellOf(f, After(f, t)[l - 1], m, call.layers[l])
    <2>1. TAKE l \in 1..Depth
    <2>2. l - 1 \in 0..Depth
        BY TensorsAssumption
    <2>3. m <= m + n /\ m + n \in Nat
        BY <1>1
    <2>4. \A j \in 1..m : After(f, held)[l - 1][j] = After(f, t)[l - 1][j]
        <3>1. Len(held) = m /\ Len(t) = m + n
            BY <1>3
        <3> HIDE DEF m, n
        <3>2. \A k \in 0..Depth : \A j \in 1..m : After(f, held)[k][j] = After(f, t)[k][j]
            BY <1>1, <1>5, <2>3, <3>1, AfterPrefix
        <3>3. QED
            BY <2>2, <3>2
    <2>5. CellOf(f, After(f, held)[l - 1], m, from[l])
        BY DEF Holds
    <2>6. CellOf(f, After(f, t)[l - 1], m, from[l])
        BY <1>1, <2>4, <2>5, CellAgree
    <2>7. QED
        BY <1>2, <2>6
<1>8. pass = Forward(f, call)
    BY DEF call
<1>9. Holds(f, pass.layers, t) /\ pass.xs = Logits(f, t)
    BY <1>6, <1>7, <1>8, ForwardExact
<1>10. QED
    BY <1>9 DEF t

(***************************************************************************)
(* Every answer is that of the whole text                                  *)
(***************************************************************************)
\* A command that takes tokens after a text: if the caches held it, they hold all,
\* and the answer is of all.
LEMMA TakenExact ==
    ASSUME Shaped, Exact, NEW from, NEW number \in NumberType,
           NEW held \in Seq(Token), NEW tokens \in Seq(Token), tokens # <<>>,
           NEW at \in Nat, NEW done \in {"prefilled", "continued"},
           Sizes(family, from, Len(held)), Taken(from, number, held, tokens, at, done),
           done = "prefilled" => Len(held) = 0,
           at = Len(held) /\ ~Rough(family, number, Len(held) + Len(tokens))
           /\ ~Beyond(family, done, Len(held) + Len(tokens)) => Holds(family, from, held)
    PROVE  Exact'
<1> DEFINE pass == Passed(from, number, tokens, at)
           good == at = Len(held) /\ ~Rough(family, number, Len(held) + Len(tokens))
                   /\ ~Beyond(family, done, Len(held) + Len(tokens))
<1>1. family \in Families /\ type \in NumberType
    BY AdaptersAssumption DEF Shaped, TypeOK
<1>2. Len(held) \in Nat /\ Len(tokens) \in Nat /\ Len(tokens) # 0
    BY EmptySeq
<1>3. Len(held \o tokens) = Len(held) + Len(tokens)
    BY <1>2, ConcatProperties
<1>4. pass.ok => number = type
    BY DEF Passed, Refused
<1>5. ASSUME pass.ok, good
      PROVE  Holds(family, pass.layers, held \o tokens) /\ pass.xs = Logits(family, held \o tokens)
    <2>1. IsList(from, Depth) /\ Holds(family, from, held)
        BY <1>5 DEF Sizes
    <2>2. pass = Forward(family, Call(from, tokens, Len(held), type))
        BY <1>4, <1>5 DEF Passed
    <2>3. family = "starcoder2" => Len(held) = 0 \/ Len(held) + Len(tokens) <= Window + 1
        <3>1. Window \in Nat
            BY DecodersAssumption
        <3>2. QED
            BY <1>2, <1>5, <3>1 DEF Beyond
    <2>4. ~Rough(family, type, Len(held) + Len(tokens))
        BY <1>4, <1>5
    <2> HIDE DEF pass
    <2>5. pass.ok
        BY <1>5
    <2>6. QED
        BY <1>1, <2>1, <2>2, <2>3, <2>4, <2>5, HoldsNext
<1> HIDE DEF pass
<1>6. /\ layers' = pass.layers
      /\ cached' = number
      /\ text' = held \o tokens
      /\ offset' = at + Len(tokens)
      /\ phase' = IF pass.ok THEN done ELSE "refused"
      /\ answer' = IF pass.ok THEN pass.xs ELSE NoAnswer
      /\ UNCHANGED <<family, type, artifact>>
    BY DEF Taken, pass
<1>7. Len(text') = Len(held) + Len(tokens) /\ (offset' = Len(text') <=> at = Len(held))
    <2>1. Len(text') = Len(held) + Len(tokens) /\ offset' = at + Len(tokens)
        BY <1>3, <1>6
    <2>2. QED
        BY <1>2, <2>1
<1>8. ArtifactExact'
    BY <1>6 DEF Exact, ArtifactExact
<1>9. LayersExact'
    <2>1. SUFFICES ASSUME Settled', offset' = Len(text'), ~Rough(family', cached', Len(text')),
                          ~Beyond(family', phase', Len(text'))
                   PROVE  Holds(family', layers', text')
        BY DEF LayersExact
    <2>2. pass.ok /\ phase' = done
        BY <1>6, <2>1 DEF Settled
    <2>3. good
        BY <1>3, <1>6, <1>7, <2>1, <2>2
    <2> HIDE DEF good
    <2>4. Holds(family, pass.layers, held \o tokens)
        BY <1>5, <2>2, <2>3
    <2>5. QED
        BY <1>6, <2>4
<1>10. AsWhole'
    <2>1. SUFFICES ASSUME answer' # NoAnswer, offset' = Len(text'), ~Windowed', ~Rounded'
                   PROVE  answer' = Logits(family', text')
        BY DEF AsWhole
    <2>2. pass.ok /\ phase' = done
        BY <1>6, <2>1
    <2>3. good
        BY <1>2, <1>3, <1>4, <1>6, <1>7, <2>1, <2>2 DEF Windowed, Rounded, Rough, Beyond
    <2> HIDE DEF good
    <2>4. pass.xs = Logits(family, held \o tokens)
        BY <1>5, <2>2, <2>3
    <2>5. QED
        BY <1>6, <2>2, <2>4
<1>11. QED
    BY <1>8, <1>9, <1>10 DEF Exact

\* A command that takes a cache back takes the text back that it holds.
LEMMA LoadedExact ==
    ASSUME Shaped, Exact, artifact # NoArtifact, NEW into, NEW at \in Nat, Loaded(into, at), type' \in NumberType
    PROVE  Exact'
<1> DEFINE set == SetKvCache(family, into, artifact.cache)
<1>1. family \in Families \ Mambas
    BY AdaptersAssumption DEF Shaped, TypeOK, ArtifactOK
<1>2. set.ok => set.layers = artifact.cache
    BY <1>1, SetFamily
<1> HIDE DEF set
<1>3. /\ layers' = set.layers
      /\ cached' = artifact.type
      /\ text' = artifact.text
      /\ offset' = at
      /\ phase' = IF set.ok THEN "restored" ELSE "failed"
      /\ answer' = NoAnswer
      /\ UNCHANGED <<family, artifact>>
    BY DEF Loaded, set
<1>4. ArtifactExact'
    BY <1>3 DEF Exact, ArtifactExact
<1>5. LayersExact'
    BY <1>2, <1>3 DEF Exact, ArtifactExact, LayersExact, Settled
<1>6. AsWhole'
    BY <1>3 DEF AsWhole
<1>7. QED
    BY <1>4, <1>5, <1>6 DEF Exact

\* A process begins with caches that hold nothing.
LEMMA InitExact == Init => Exact
<1> SUFFICES ASSUME Init PROVE Exact
    OBVIOUS
<1>1. ArtifactExact
    BY DEF Init, ArtifactExact
<1>2. LayersExact
    BY DEF Init, LayersExact, Settled
<1>3. AsWhole
    BY DEF Init, AsWhole
<1>4. QED
    BY <1>1, <1>2, <1>3 DEF Exact

\* Every step keeps it.
LEMMA NextExact == Shaped /\ Exact /\ [Next]_vars => Exact'
<1> SUFFICES ASSUME Shaped, Exact, [Next]_vars PROVE Exact'
    OBVIOUS
<1>1. TypeOK /\ ArtifactOK /\ LayersOK /\ PhaseOK /\ ArtifactExact /\ LayersExact /\ AsWhole
    BY DEF Shaped, Exact
<1>2. /\ family \in Families /\ text \in Seq(Token) /\ offset \in Nat /\ Len(text) \in Nat
      /\ type \in NumberType /\ cached \in NumberType
    BY <1>1, AdaptersAssumption DEF TypeOK
<1>3. ASSUME NEW context \in Context, Prefill(context)
      PROVE  Exact'
    <2>1. context \in Seq(Token) /\ context # <<>>
        BY AdaptersAssumption
    <2>2. Sizes(family, Cleared(family), 0) /\ Holds(family, Cleared(family), <<>>)
        BY <1>2, ClearedSizes, ClearedHolds
    <2>3. <<>> \in Seq(Token) /\ Len(<<>>) = 0
        BY EmptySeq
    <2>4. Taken(Cleared(family), type, <<>>, context, 0, "prefilled")
        BY <1>3 DEF Prefill
    <2>5. QED
        BY <1>2, <2>1, <2>2, <2>3, <2>4, TakenExact
<1>4. CASE Capture
    <2> DEFINE get == GetKvCache(family, layers)
    <2>1. Settled /\ phase = "prefilled" /\ offset = Len(text)
        BY <1>1, <1>4 DEF Capture, Settled, PhaseOK
    <2>2. text # <<>> /\ Sizes(family, layers, Len(text)) /\ Len(text) # 0
        BY <1>1, <1>2, <2>1, EmptySeq DEF LayersOK
    <2>3. get.ok => get.layers = layers
        BY <1>2, <2>2, GetFamily
    <2>4. ~Rough(family, cached, Len(text)) => Holds(family, layers, text)
        BY <1>1, <2>1 DEF LayersExact, Beyond
    <2> HIDE DEF get
    <2>5. /\ phase' = IF get.ok THEN "captured" ELSE "failed"
          /\ artifact' = IF get.ok THEN [kept |-> "memory", cache |-> get.layers, text |-> text, type |-> cached]
                       ELSE artifact
          /\ UNCHANGED <<family, type, layers, cached, text, offset>>
          /\ answer' = NoAnswer
        BY <1>4 DEF Capture, get
    <2>6. ArtifactExact'
        <3>1. CASE get.ok
            <4>1. artifact'.cache = layers /\ artifact'.text = text /\ artifact'.type = cached
                BY <2>3, <2>5, <3>1
            <4>2. QED
                BY <2>4, <2>5, <4>1 DEF ArtifactExact
        <3>2. CASE ~get.ok
            BY <1>1, <2>5, <3>2 DEF ArtifactExact
        <3>3. QED
            BY <3>1, <3>2
    <2>7. LayersExact'
        BY <2>4, <2>5 DEF LayersExact
    <2>8. AsWhole'
        BY <2>5 DEF AsWhole
    <2>9. QED
        BY <2>6, <2>7, <2>8 DEF Exact
<1>5. CASE Save
    <2>1. /\ phase = "captured" /\ artifact # NoArtifact /\ answer = NoAnswer
          /\ UNCHANGED <<family, type, layers, cached, text, offset, answer>>
        BY <1>1, <1>5 DEF Save, PhaseOK
    <2>2. AsWhole'
        BY <2>1 DEF AsWhole
    <2>3. CASE artifact' = [artifact EXCEPT !.kept = "file"] /\ UNCHANGED phase
        <3>1. artifact' = [kept |-> "file", cache |-> artifact.cache, text |-> artifact.text, type |-> artifact.type]
            BY <1>1, <2>1, <2>3 DEF ArtifactOK
        <3>2. artifact'.cache = artifact.cache /\ artifact'.text = artifact.text
              /\ artifact'.type = artifact.type
            BY <3>1
        <3>3. ArtifactExact'
            BY <1>1, <2>1, <3>2 DEF ArtifactExact
        <3>4. LayersExact'
            BY <1>1, <2>1, <2>3 DEF LayersExact, Settled
        <3>5. QED
            BY <2>2, <3>3, <3>4 DEF Exact
    <2>4. CASE phase' = "failed" /\ UNCHANGED artifact
        <3>1. ArtifactExact'
            BY <1>1, <2>1, <2>4 DEF ArtifactExact
        <3>2. LayersExact'
            BY <2>4 DEF LayersExact, Settled
        <3>3. QED
            BY <2>2, <3>1, <3>2 DEF Exact
    <2>5. QED
        BY <1>5, <2>3, <2>4 DEF Save
<1>6. CASE Restore
    <2>1. artifact # NoArtifact /\ Loaded(layers, Len(artifact.text)) /\ type' \in NumberType
        BY <1>2, <1>6 DEF Restore
    <2>2. Len(artifact.text) \in Nat
        BY <1>1, <2>1 DEF ArtifactOK
    <2>3. QED
        BY <2>1, <2>2, LoadedExact
<1>7. CASE Infer
    <2>1. artifact.kept = "file" /\ Loaded(Cleared(family), ThirdDimension(artifact.cache))
          /\ type' \in NumberType
        BY <1>7 DEF Infer, NumberType
    <2>2. artifact # NoArtifact
        BY <2>1 DEF NoArtifact
    <2>3. ThirdDimension(artifact.cache) \in Nat
        BY <2>1, CellsCounted
    <2>4. QED
        BY <2>1, <2>2, <2>3, LoadedExact
<1>8. ASSUME NEW question \in Question, Continue(question)
      PROVE  Exact'
    <2>1. phase = "restored" /\ Settled /\ Taken(layers, cached, text, question, offset, "continued")
        BY <1>8 DEF Continue, Settled
    <2>2. question \in Seq(Token) /\ question # <<>> /\ Len(question) \in Nat
        BY AdaptersAssumption
    <2>3. Sizes(family, layers, Len(text))
        BY <1>1, <2>1 DEF LayersOK
    <2>4. offset = Len(text) /\ ~Rough(family, cached, Len(text) + Len(question)) => Holds(family, layers, text)
        <3>1. Rough(family, cached, Len(text)) => Rough(family, cached, Len(text) + Len(question))
            BY <1>2, <2>2, TensorsAssumption DEF Rough
        <3>2. ~Beyond(family, phase, Len(text))
            BY <2>1 DEF Beyond
        <3>3. QED
            BY <1>1, <2>1, <3>1, <3>2 DEF LayersExact
    <2>5. QED
        BY <1>2, <2>1, <2>2, <2>3, <2>4, TakenExact
<1>9. ASSUME NEW token \in Token, Decode(token)
      PROVE  Exact'
    <2> DEFINE tokens == <<token>>
    <2>1. phase \in {"prefilled", "continued"} /\ Settled /\ Taken(layers, cached, text, tokens, offset, "continued")
        BY <1>9 DEF Decode, Settled
    <2>2. tokens \in Seq(Token) /\ tokens # <<>> /\ Len(tokens) \in Nat
        OBVIOUS
    <2>3. Sizes(family, layers, Len(text))
        BY <1>1, <2>1 DEF LayersOK
    <2> HIDE DEF tokens
    <2>4. offset = Len(text) /\ ~Rough(family, cached, Len(text) + Len(tokens))
          /\ ~Beyond(family, "continued", Len(text) + Len(tokens)) => Holds(family, layers, text)
        <3>1. Rough(family, cached, Len(text)) => Rough(family, cached, Len(text) + Len(tokens))
            BY <1>2, <2>2, TensorsAssumption DEF Rough
        <3>2. Beyond(family, phase, Len(text)) => Beyond(family, "continued", Len(text) + Len(tokens))
            BY <1>2, <2>2, DecodersAssumption DEF Beyond
        <3>3. QED
            BY <1>1, <2>1, <3>1, <3>2 DEF LayersExact
    <2>5. QED
        BY <1>2, <2>1, <2>2, <2>3, <2>4, TakenExact
<1>10. CASE NextProcess
    <2>1. ArtifactExact'
        BY <1>1, <1>10 DEF NextProcess, ArtifactExact
    <2>2. LayersExact' /\ AsWhole'
        BY <1>10 DEF NextProcess, LayersExact, AsWhole, Settled
    <2>3. QED
        BY <2>1, <2>2 DEF Exact
<1>11. CASE UNCHANGED vars
    <2>1. ArtifactExact' /\ LayersExact'
        BY <1>1, <1>11 DEF vars, ArtifactExact, LayersExact, Settled
    <2>2. AsWhole'
        BY <1>1, <1>11 DEF vars, AsWhole, Windowed, Rounded
    <2>3. QED
        BY <2>1, <2>2 DEF Exact
<1>12. QED
    BY <1>3, <1>4, <1>5, <1>6, <1>7, <1>8, <1>9, <1>10, <1>11 DEF Next

\* In every state the caches in memory and those kept hold the text they are said to
\* be of, but where the code is not exact.
THEOREM CachesExact == Spec => [](Shaped /\ Exact)
<1>1. Init => Shaped /\ Exact
    BY InitShaped, InitExact
<1>2. Shaped /\ Exact /\ [Next]_vars => (Shaped /\ Exact)'
    BY NextShaped, NextExact
<1>3. QED
    BY <1>1, <1>2, PTL DEF Spec

\* Of every family but bloom and gemma3, every answer after any way to a text is that
\* of its architecture to the text at once, but for the windows, roundings and
\* positions AsWhole names.
THEOREM AllAnswersExact == Spec => []AnswersExact
<1>1. Shaped /\ Exact => AnswersExact
    BY DEF Exact, AnswersExact
<1>2. QED
    BY <1>1, CachesExact, PTL

\* Of bloom and gemma3 it is that of the architecture without what these adapters leave
\* out of it, ALiBi and the windows with their rope base.
THEOREM SimplifiedAnswersExact == Spec => []SimplifiedExact
<1>1. Shaped /\ Exact => SimplifiedExact
    BY DEF Exact, SimplifiedExact
<1>2. QED
    BY <1>1, CachesExact, PTL
=============================================================================
