------------------------------ MODULE Adapters ------------------------------
(***************************************************************************)
(* The model adapters behind the commands of src/src/local: one process at *)
(* a time holds a model of one family, takes texts and questions through   *)
(* it, keeps what its caches hold and goes on from there, in the same      *)
(* process or, from a file, in another.  Every answer is compared with     *)
(* what the architecture would compute of the whole text at once, which is *)
(* stated below without any cache, mask or offset; of bloom and gemma3,    *)
(* which leave a part of theirs out, with what they leave.  Quantizing is  *)
(* in KvReuse.                                                             *)
(***************************************************************************)
EXTENDS Decoders, Recurrent, TLC

CONSTANTS
    Family,    \* the families that are run
    Context,   \* texts that are prefilled
    Question,  \* texts that continue them
    Token,     \* tokens that are generated
    MaxText,   \* bound: no longer text goes through a model
    HeadDim,   \* head_dim of a falcon configuration
    Groups,    \* multi_query_group_num of a chatglm or glm4 configuration
    KvRank     \* kv_lora_rank of a deepseek2 configuration

\* The families of the registry; gemma.rs is not modelled.
Families ==
    {"llama", "mamba", "chatglm", "deepseek2", "falcon", "phi3", "olmo", "qwen2", "qwen3",
     "stable_lm", "starcoder2", "gpt2", "gemma3", "glm4", "granite", "granite_moe", "bloom",
     "mamba2", "rwkv6"}

ASSUME AdaptersAssumption ==
    /\ Family \subseteq Families
    /\ Token \subseteq DOMAIN Route
    /\ Context \cup Question \subseteq Seq(Token) \ {<<>>}
    /\ {HeadDim, Groups, KvRank, MaxText} \subseteq Nat

VARIABLES
    family,    \* of the model that is loaded, never changed
    type,      \* its number type, which another process may choose anew
    layers,    \* its caches
    cached,    \* the number type of what they hold
    text,      \* all tokens that went through it since it was cleared
    offset,    \* where the command believes the next token to be
    artifact,  \* what get_kv_cache gave last, its text and type, and whether in a file
    phase,     \* what the process did last
    answer     \* the last logits

vars == <<family, type, layers, cached, text, offset, artifact, phase, answer>>

NoArtifact == [kept |-> "none"]
NoAnswer == <<>>

(***************************************************************************)
(* The registry, and the trait every adapter implements                    *)
(***************************************************************************)
Forward(f, call) ==
    CASE f = "llama"       -> LlamaForCausalLM(call)
      [] f = "mamba"       -> MambaForCausalLM(call)
      [] f = "chatglm"     -> ChatGlmForCausalLM(call)
      [] f = "deepseek2"   -> DeepSeek2ForCausalLM(call)
      [] f = "falcon"      -> FalconForCausalLM(call)
      [] f = "phi3"        -> Phi3ForCausalLM(call)
      [] f = "olmo"        -> OlmoForCausalLM(call)
      [] f = "qwen2"       -> Qwen2ForCausalLM(call)
      [] f = "qwen3"       -> Qwen3ForCausalLM(call)
      [] f = "stable_lm"   -> StableLmForCausalLM(call)
      [] f = "starcoder2"  -> Starcoder2ForCausalLM(call)
      [] f = "gpt2"        -> Gpt2ForCausalLM(call)
      [] f = "gemma3"      -> Gemma3ForCausalLM(call)
      [] f = "glm4"        -> Glm4ForCausalLM(call)
      [] f = "granite"     -> GraniteForCausalLM(call)
      [] f = "granite_moe" -> GraniteMoeForCausalLM(call)
      [] f = "bloom"       -> BloomForCausalLM(call)
      [] f = "mamba2"      -> Mamba2ForCausalLM(call)
      [] f = "rwkv6"       -> Rwkv6ForCausalLM(call)

GetKvCache(f, from) ==
    CASE f = "llama"       -> LlamaGet(from)
      [] f = "mamba"       -> MambaGet(from)
      [] f = "chatglm"     -> ChatGlmGet(from)
      [] f = "deepseek2"   -> DeepSeek2Get(from)
      [] f = "falcon"      -> FalconGet(from)
      [] f = "phi3"        -> Phi3Get(from)
      [] f = "olmo"        -> OlmoGet(from)
      [] f = "qwen2"       -> Qwen2Get(from)
      [] f = "qwen3"       -> Qwen3Get(from)
      [] f = "stable_lm"   -> StableLmGet(from)
      [] f = "starcoder2"  -> Starcoder2Get(from)
      [] f = "gpt2"        -> Gpt2Get(from)
      [] f = "gemma3"      -> Gemma3Get(from)
      [] f = "glm4"        -> Glm4Get(from)
      [] f = "granite"     -> GraniteGet(from)
      [] f = "granite_moe" -> GraniteMoeGet(from)
      [] f = "bloom"       -> BloomGet(from)
      [] f = "mamba2"      -> Mamba2Get(from)
      [] f = "rwkv6"       -> Rwkv6Get(from)

\* Of the mamba families nothing is ever captured, so that nothing is restored.
SetKvCache(f, into, cache) ==
    CASE f = "llama"       -> LlamaSet(into, cache)
      [] f = "chatglm"     -> ChatGlmSet(into, cache)
      [] f = "deepseek2"   -> DeepSeek2Set(into, cache)
      [] f = "falcon"      -> FalconSet(into, cache)
      [] f = "phi3"        -> Phi3Set(into, cache)
      [] f = "olmo"        -> OlmoSet(into, cache)
      [] f = "qwen2"       -> Qwen2Set(into, cache)
      [] f = "qwen3"       -> Qwen3Set(into, cache)
      [] f = "stable_lm"   -> StableLmSet(into, cache)
      [] f = "starcoder2"  -> Starcoder2Set(into, cache)
      [] f = "gpt2"        -> Gpt2Set(into, cache)
      [] f = "gemma3"      -> Gemma3Set(into, cache)
      [] f = "glm4"        -> Glm4Set(into, cache)
      [] f = "granite"     -> GraniteSet(into, cache)
      [] f = "granite_moe" -> GraniteMoeSet(into, cache)
      [] f = "bloom"       -> BloomSet(into, cache)
      [] f = "rwkv6"       -> Rwkv6Set(into, cache)

\* Zero states are made at once, caches of keys and values by the first pass.
Cleared(f) == [l \in 1..Depth |-> IF f = "rwkv6" THEN Rwkv6Zeros ELSE NoCache]

(***************************************************************************)
(* Commands                                                                *)
(***************************************************************************)
Init ==
    /\ family \in Family
    /\ type \in NumberType
    /\ layers = Cleared(family)
    /\ cached = type
    /\ text = <<>>
    /\ offset = 0
    /\ artifact = NoArtifact
    /\ phase = "idle"
    /\ answer = NoAnswer

Alive == phase \notin {"refused", "failed"}

\* New cells are appended to cached ones of the same number type, or not at all.
Passed(from, number, tokens, at) ==
    LET call == Call(from, tokens, at, type)
    IN  IF number = type THEN Forward(family, call) ELSE Refused(call)

\* The tokens go through the model after held, believed to begin at position at.
Taken(from, number, held, tokens, at, done) ==
    LET pass == Passed(from, number, tokens, at)
    IN  /\ layers' = pass.layers
        /\ cached' = number
        /\ text' = held \o tokens
        /\ offset' = at + Len(tokens)
        /\ phase' = IF pass.ok THEN done ELSE "refused"
        /\ answer' = IF pass.ok THEN pass.xs ELSE NoAnswer
        /\ UNCHANGED <<family, type, artifact>>

\* clear_kv_cache, then a pass over the whole context.
Prefill(context) ==
    /\ Alive
    /\ Taken(Cleared(family), type, <<>>, context, 0, "prefilled")

Capture ==
    /\ phase = "prefilled"
    /\ LET get == GetKvCache(family, layers)
       IN  /\ phase' = IF get.ok THEN "captured" ELSE "failed"
           /\ artifact' = IF get.ok
                          THEN [kept |-> "memory", cache |-> get.layers, text |-> text,
                                type |-> cached]
                          ELSE artifact
    /\ UNCHANGED <<family, type, layers, cached, text, offset>>
    /\ answer' = NoAnswer

\* Mutant: the last dimension instead of the third.
LastDimension(cache) == HeadDim

\* The third dimension of the first tensor of the first layer.
Dimensions == IF family = "rwkv6" THEN 2 ELSE 4
ThirdDimension(cache) ==
    CASE family = "falcon" -> HeadDim
      [] family \in {"chatglm", "glm4"} -> Groups
      [] family = "deepseek2" -> KvRank
      [] OTHER -> Len(cache[1])

\* The file is written only if its first tensor has a third dimension.
Save ==
    /\ phase = "captured"
    /\ \/ /\ Dimensions > 2
          /\ artifact' = [artifact EXCEPT !.kept = "file"]
          /\ UNCHANGED phase
       \/ /\ Dimensions <= 2
          /\ phase' = "failed"
          /\ UNCHANGED artifact
    /\ UNCHANGED <<family, type, layers, cached, text, offset, answer>>

Loaded(into, at) ==
    LET set == SetKvCache(family, into, artifact.cache)
    IN  /\ layers' = set.layers
        /\ cached' = artifact.type
        /\ text' = artifact.text
        /\ offset' = at
        /\ phase' = IF set.ok THEN "restored" ELSE "failed"
        /\ answer' = NoAnswer
        /\ UNCHANGED <<family, artifact>>

\* The process that prefilled the context, or that has read the sidecar, knows how
\* long it is.
Restore ==
    /\ Alive
    /\ artifact # NoArtifact
    /\ Loaded(layers, Len(artifact.text))
    /\ UNCHANGED type

\* Another process, with a model in half precision, has the file only and asks the
\* tensor.
Infer ==
    /\ artifact.kept = "file"
    /\ type' = "f16"
    /\ Loaded(Cleared(family), ThirdDimension(artifact.cache))

Continue(question) ==
    /\ phase = "restored"
    /\ Len(text) + Len(question) <= MaxText
    /\ Taken(layers, cached, text, question, offset, "continued")

\* Each token that generate chose goes through the model after the others.
Decode(token) ==
    /\ phase \in {"prefilled", "continued"}
    /\ Len(text) < MaxText
    /\ Taken(layers, cached, text, <<token>>, offset, "continued")

\* A command ends its process, whether it failed or not; files stay.
NextProcess ==
    /\ phase # "idle"
    /\ type' \in NumberType
    /\ layers' = Cleared(family)
    /\ cached' = type'
    /\ text' = <<>>
    /\ offset' = 0
    /\ artifact' = IF artifact.kept = "file" THEN artifact ELSE NoArtifact
    /\ phase' = "idle"
    /\ answer' = NoAnswer
    /\ UNCHANGED family

Next ==
    \/ \E context \in Context : Prefill(context)
    \/ Capture
    \/ Save
    \/ Restore
    \/ Infer
    \/ \E question \in Question : Continue(question)
    \/ \E token \in Token : Decode(token)
    \/ NextProcess

Spec == Init /\ [][Next]_vars

(***************************************************************************)
(* What the architectures compute of a whole text                          *)
(***************************************************************************)
\* The two families whose sources say that they leave a part of the architecture out:
\* ALiBi in bloom.rs:5-6, sliding windows and the rope base of the layers that have
\* them in gemma3.rs:7-8 and 100.  What is stated of them below is what is left.
Simplified == {"bloom", "gemma3"}

LearnedPositions == {"gpt2", "olmo"}
NoPositions == {"bloom"}
HalfTables == {"phi3", "stable_lm", "starcoder2", "falcon", "chatglm", "glm4"}

WholeInputs(f, t) ==
    [i \in 1..Len(t) |->
        [token |-> t[i], at |-> IF f \in LearnedPositions THEN <<i - 1>> ELSE <<>>]]

\* Where a family's attention places the token i, if it does.
Placed(f, i) == IF f \in LearnedPositions \cup NoPositions THEN <<>> ELSE <<i - 1>>

\* A token attends to those up to it, and in starcoder2 to a window of them.
Seen(f, i) == {j \in 1..i : f = "starcoder2" => j + Window >= i}

Attending(f, xs) ==
    [i \in 1..Len(xs) |->
        [query |-> xs[i], at |-> Placed(f, i),
         over |-> [j \in Seen(f, i) |-> [key |-> xs[j], at |-> Placed(f, j)]]]]

\* The convolution has the last inputs, and zeros before the first.
Convolving(xs) ==
    LET Input(n) == IF n >= 1 THEN xs[n] ELSE Zero
    IN  [i \in 1..Len(xs) |->
            [input |-> xs[i],
             past |-> [k \in 1..i |-> [d \in 1..DConv |-> Input(k - DConv + d)]]]]

Mixing(xs) ==
    LET Before(ys, i) == IF i = 1 THEN Zero ELSE ys[i - 1]
        attention == [i \in 1..Len(xs) |->
                        [token |-> xs[i],
                         attends |-> [k \in 1..i |-> [token |-> xs[k], before |-> Before(xs, k)]]]]
    IN  [i \in 1..Len(xs) |-> [token |-> attention[i], before |-> Before(attention, i)]]

\* Each row goes through the experts of its token, two projections in granite_moe.
Consulting(f, xs, t) ==
    LET Projected(e, x) == [expert |-> e, of |-> x]
        Output(e, x) == IF f = "granite_moe" THEN Projected(e, Projected(e, x)) ELSE Projected(e, x)
    IN  [i \in 1..Len(xs) |->
            [row |-> xs[i],
             experts |-> {[output |-> Output(e, xs[i]), gate |-> Gate(t[i], e)] : e \in Range(Route[t[i]])}]]

WholeLayer(f, xs, t) ==
    CASE f \in {"mamba", "mamba2"} -> Convolving(xs)
      [] f = "rwkv6" -> Mixing(xs)
      [] f \in {"granite_moe", "deepseek2"} -> Consulting(f, Attending(f, xs), t)
      [] OTHER -> Attending(f, xs)

Logits(f, t) ==
    LET after[l \in 0..Depth] == IF l = 0 THEN WholeInputs(f, t) ELSE WholeLayer(f, after[l - 1], t)
    IN  <<Last(after[Depth])>>

(***************************************************************************)
(* Properties                                                              *)
(***************************************************************************)
\* Where the code is not exact: starcoder2 hides nothing that was cached, and
\* a table in half precision has rows for its first positions only.
Windowed == family = "starcoder2" /\ phase # "prefilled" /\ Len(text) > Window + 1
Rounded == family \in HalfTables /\ type = "f16" /\ Len(text) > HalfExact + 1

\* An answer is the one to the whole text.
AsWhole ==
    answer # NoAnswer /\ offset = Len(text) /\ ~Windowed /\ ~Rounded
    => answer = Logits(family, text)

\* Of every family but bloom and gemma3, the logits after any way to a text, prefilled
\* at once or cached, restored, continued and generated in pieces, by one process or
\* several, are those that its architecture computes of the text: every cached cell is
\* there once, at its position, and a token attends to all up to it (mask, offset,
\* table and cache of the adapters in src/models).
AnswersExact == family \notin Simplified => AsWhole

\* Of bloom and gemma3 they are those that the architecture without ALiBi, and the one
\* without windows and with one rope base, compute of the text: however it was cut into
\* pieces, the answer is the same (bloom.rs:5-6, gemma3.rs:7-8, 100).  It is not the one
\* that the models these adapters are named after would give.
SimplifiedExact == family \in Simplified => AsWhole

\* A model is never asked at a wrong position, but by infer (infer.rs:41) for a
\* family whose tensors are laid out otherwise; falcon's are, and it refuses.
OnlyTransposedMisplaced ==
    answer # NoAnswer /\ offset # Len(text)
    => family \in {"chatglm", "glm4", "deepseek2"}

\* What a model takes at once it takes in pieces: a pass at its right position is
\* refused only if a prefill of the whole text is too (but by olmo in half
\* precision, which cannot make a mask for a continuation, olmo.rs:301, and where
\* the caches are of another number type than the model, qwen3.rs:220 and its like).
\* It asks nothing of llama and rwkv6, nor of granite in half precision, which never
\* take more than one token at once.
ReuseAccepted ==
    /\ phase = "refused"
    /\ offset = Len(text)
    /\ cached = type
    /\ ~(family = "olmo" /\ type = "f16")
    => ~Forward(family, Call(Cleared(family), text, 0, type)).ok
=============================================================================
