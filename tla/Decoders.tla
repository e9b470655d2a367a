------------------------------ MODULE Decoders ------------------------------
(***************************************************************************)
(* The transformer adapters of src/src/models, one section per file.  For  *)
(* each family: where its positions enter, its mask, what its attention    *)
(* caches and refuses, its forward pass, and the capture and restoration   *)
(* of its caches.  Every file is a copy of the same plan, and each differs *)
(* from it in a way of its own: the number type of the mask and of the     *)
(* scores, what the mask has columns for, where a table ends.              *)
(***************************************************************************)
EXTENDS Experts

CONSTANTS
    FalconRows,  \* MAX_SEQ_LEN of falcon.rs
    Window       \* sliding_window of a starcoder2 configuration

ASSUME DecodersAssumption == FalconRows \in Nat /\ Window \in Nat

(*****************************************************************************)
(* qwen2.rs                                                                  *)
(*****************************************************************************)
Qwen2Positions(call) == TableRows(call, MaxPositions)
\* Mutant: no columns for a prefix.
Qwen2MaskOfNew(call) ==
    IF Width(call) = 1 THEN NoMask ELSE Mask(Width(call), call.type, Later([call EXCEPT !.offset = 0]))
Qwen2Mask(call) == CausalMask(call, call.type)
Qwen2Attention(cells, xs, mask, call) ==
    AddedAttention(cells, xs, Qwen2Positions(call), mask, call.type)
Qwen2Forward(call) == Decoded(call, Embeddings(call), Qwen2Mask(call), Qwen2Attention)
Qwen2ForCausalLM(call) == LastOf(Qwen2Forward(call))
Qwen2Get(layers) == Captured(layers)
Qwen2Set(layers, cache) == Restored(layers, cache)

(*****************************************************************************)
(* qwen3.rs                                                                  *)
(*****************************************************************************)
Qwen3Positions(call) == TableRows(call, MaxPositions)
Qwen3Mask(call) == CausalMask(call, call.type)
Qwen3Attention(cells, xs, mask, call) ==
    AddedAttention(cells, xs, Qwen3Positions(call), mask, call.type)
Qwen3Forward(call) == Decoded(call, Embeddings(call), Qwen3Mask(call), Qwen3Attention)
Qwen3ForCausalLM(call) == LastOf(Qwen3Forward(call))
Qwen3Get(layers) == Captured(layers)
Qwen3Set(layers, cache) == Restored(layers, cache)

(*****************************************************************************)
(* gemma3.rs                                                                 *)
(*****************************************************************************)
\* Mutant: the positions of a continuation begin at 0 again.
Gemma3PositionsOfNew(call) == TableRows([call EXCEPT !.offset = 0], MaxPositions)
Gemma3Positions(call) == TableRows(call, MaxPositions)
Gemma3Mask(call) == CausalMask(call, call.type)
Gemma3Attention(cells, xs, mask, call) ==
    AddedAttention(cells, xs, Gemma3Positions(call), mask, call.type)
Gemma3Forward(call) == Decoded(call, Embeddings(call), Gemma3Mask(call), Gemma3Attention)
Gemma3ForCausalLM(call) == LastOf(Gemma3Forward(call))
Gemma3Get(layers) == Captured(layers)
Gemma3Set(layers, cache) == Restored(layers, cache)

(*****************************************************************************)
(* phi3.rs: the angles are computed in the number type of the model          *)
(*****************************************************************************)
Phi3Positions(call) == ModelRows(call, MaxPositions)
Phi3Mask(call) == CausalMask(call, call.type)
Phi3Attention(cells, xs, mask, call) ==
    AddedAttention(cells, xs, Phi3Positions(call), mask, call.type)
Phi3Forward(call) == Decoded(call, Embeddings(call), Phi3Mask(call), Phi3Attention)
Phi3ForCausalLM(call) == LastOf(Phi3Forward(call))
Phi3Get(layers) == Captured(layers)
Phi3Set(layers, cache) == Restored(layers, cache)

(*****************************************************************************)
(* stable_lm.rs: the angles are computed in the number type of the model     *)
(*****************************************************************************)
StableLmPositions(call) == ModelRows(call, MaxPositions)
StableLmMask(call) == CausalMask(call, call.type)
StableLmAttention(cells, xs, mask, call) ==
    AddedAttention(cells, xs, StableLmPositions(call), mask, call.type)
StableLmForward(call) == Decoded(call, Embeddings(call), StableLmMask(call), StableLmAttention)
StableLmForCausalLM(call) == LastOf(StableLmForward(call))
StableLmGet(layers) == Captured(layers)
StableLmSet(layers, cache) == Restored(layers, cache)

(*****************************************************************************)
(* starcoder2.rs: a sliding window, over the new tokens only                 *)
(*****************************************************************************)
Starcoder2Positions(call) == ModelRows(call, MaxPositions)
\* Nothing that was cached is ever hidden, and one token hides nothing.
Starcoder2Mask(call) ==
    IF Width(call) <= 1 THEN NoMask
    ELSE Mask(call.offset + Width(call), call.type,
              {at \in (1..Width(call)) \X ((call.offset + 1)..(call.offset + Width(call))) :
                  at[2] > at[1] + call.offset \/ at[2] + Window < at[1] + call.offset})
Starcoder2Attention(cells, xs, mask, call) ==
    AddedAttention(cells, xs, Starcoder2Positions(call), mask, call.type)
Starcoder2Forward(call) == Decoded(call, Embeddings(call), Starcoder2Mask(call), Starcoder2Attention)
Starcoder2ForCausalLM(call) == LastOf(Starcoder2Forward(call))
Starcoder2Get(layers) == Captured(layers)
Starcoder2Set(layers, cache) == Restored(layers, cache)

(*****************************************************************************)
(* granite.rs: the scores are in single precision, the mask is not           *)
(*****************************************************************************)
GranitePositions(call) == TableRows(call, MaxPositions)
GraniteMask(call) == CausalMask(call, call.type)
GraniteAttention(cells, xs, mask, call) ==
    AddedAttention(cells, xs, GranitePositions(call), mask, "f32")
GraniteForward(call) == Decoded(call, Embeddings(call), GraniteMask(call), GraniteAttention)
GraniteForCausalLM(call) == LastOf(GraniteForward(call))
GraniteGet(layers) == Captured(layers)
GraniteSet(layers, cache) == Restored(layers, cache)

(*****************************************************************************)
(* granite_moe.rs: as granite.rs, with a mixture of experts after the attention *)
(*****************************************************************************)
GraniteMoePositions(call) == TableRows(call, MaxPositions)
GraniteMoeMask(call) == CausalMask(call, call.type)
GraniteMoeAttention(cells, xs, mask, call) ==
    AddedAttention(cells, xs, GraniteMoePositions(call), mask, "f32")
GraniteMoeLayer(cells, xs, mask, call) ==
    LET attended == GraniteMoeAttention(cells, xs, mask, call)
    IN  [attended EXCEPT !.xs = IF attended.ok THEN GraniteMoeMlp(@, call.tokens) ELSE @]
GraniteMoeForward(call) ==
    Decoded(call, Embeddings(call), GraniteMoeMask(call), GraniteMoeLayer)
GraniteMoeForCausalLM(call) == LastOf(GraniteMoeForward(call))
GraniteMoeGet(layers) == Captured(layers)
GraniteMoeSet(layers, cache) == Restored(layers, cache)

(*****************************************************************************)
(* olmo.rs: learned positions, nothing in the attention                      *)
(*****************************************************************************)
OlmoPositions(call) == TableRows(call, MaxPositions)
\* Columns for a prefix are zeros of the type of the model, put before columns
\* in single precision; cat takes one type only.
OlmoMask(call) ==
    IF Width(call) <= 1 THEN NoMask
    ELSE IF call.offset > 0 /\ call.type # "f32" THEN FailedMask
    ELSE Mask(call.offset + Width(call), call.type, Later(call))
OlmoAttention(cells, xs, mask, call) ==
    AddedAttention(cells, xs, Unplaced(call), mask, call.type)
OlmoForward(call) == Decoded(call, Embedded(call, OlmoPositions(call)), OlmoMask(call), OlmoAttention)
OlmoForCausalLM(call) == LastOf(OlmoForward(call))
OlmoGet(layers) == Captured(layers)
OlmoSet(layers, cache) == Restored(layers, cache)

(*****************************************************************************)
(* gpt2.rs: learned positions, nothing in the attention                      *)
(*****************************************************************************)
Gpt2Positions(call) == TableRows(call, MaxPositions)
Gpt2Mask(call) == CausalMask(call, call.type)
Gpt2Attention(cells, xs, mask, call) ==
    AddedAttention(cells, xs, Unplaced(call), mask, call.type)
Gpt2Forward(call) ==
    Decoded(call, Embedded(call, Gpt2Positions(call)), Gpt2Mask(call), Gpt2Attention)
Gpt2ForCausalLM(call) == LastOf(Gpt2Forward(call))
Gpt2Get(layers) == Captured(layers)
Gpt2Set(layers, cache) == Restored(layers, cache)

(*****************************************************************************)
(* bloom.rs: no positions at all                                             *)
(*****************************************************************************)
BloomMask(call) == CausalMask(call, call.type)
BloomAttention(cells, xs, mask, call) ==
    AddedAttention(cells, xs, Unplaced(call), mask, call.type)
BloomForward(call) == Decoded(call, Embeddings(call), BloomMask(call), BloomAttention)
BloomForCausalLM(call) == LastOf(BloomForward(call))
BloomGet(layers) == Captured(layers)
BloomSet(layers, cache) == Restored(layers, cache)

(*****************************************************************************)
(* deepseek2.rs: the cells are compressed keys and values, and rotated keys; *)
(* a mixture of experts follows the attention                                *)
(*****************************************************************************)
DeepSeek2Positions(call) == TableRows(call, MaxPositions)
DeepSeek2Mask(call) == CausalMask(call, call.type)
DeepSeek2Attention(cells, xs, mask, call) ==
    AddedAttention(cells, xs, DeepSeek2Positions(call), mask, call.type)
DeepSeek2Layer(cells, xs, mask, call) ==
    LET attended == DeepSeek2Attention(cells, xs, mask, call)
    IN  [attended EXCEPT !.xs = IF attended.ok THEN DeepSeek2Moe(@, call.tokens) ELSE @]
DeepSeek2Forward(call) ==
    Decoded(call, Embeddings(call), DeepSeek2Mask(call), DeepSeek2Layer)
DeepSeek2ForCausalLM(call) == LastOf(DeepSeek2Forward(call))
DeepSeek2Get(layers) == Captured(layers)
DeepSeek2Set(layers, cache) == Restored(layers, cache)

(*****************************************************************************)
(* falcon.rs                                                                 *)
(*****************************************************************************)
FalconPositions(call) == ModelRows(call, FalconRows)
FalconMask(call) ==
    IF Width(call) <= 1 THEN NoMask ELSE Mask(call.offset + Width(call), "u8", Later(call))
\* The extended cache is reshaped to offset + tokens cells, even for one token;
\* the mask is made additive and converted, so its type is no matter.
FalconAttention(cells, xs, mask, call) ==
    Cached(cells, xs, FalconPositions(call), mask, Len(cells) = call.offset)
FalconForward(call) == Decoded(call, Embeddings(call), FalconMask(call), FalconAttention)
FalconForCausalLM(call) == LastOf(FalconForward(call))
FalconGet(layers) == Captured(layers)
FalconSet(layers, cache) == Restored(layers, cache)

(*****************************************************************************)
(* chatglm.rs: the tokens are the first dimension of a cell tensor           *)
(*****************************************************************************)
ChatGlmPositions(call) == ModelRows(call, MaxPositions)
ChatGlmMask(call) ==
    IF Width(call) <= 1 THEN NoMask ELSE Mask(call.offset + Width(call), "u8", Later(call))
ChatGlmAttention(cells, xs, mask, call) ==
    FilledAttention(cells, xs, ChatGlmPositions(call), mask)
ChatGlmForward(call) == Decoded(call, Embeddings(call), ChatGlmMask(call), ChatGlmAttention)
ChatGlmForCausalLM(call) == LastOf(ChatGlmForward(call))
ChatGlmGet(layers) == Captured(layers)
ChatGlmSet(layers, cache) == Restored(layers, cache)

(*****************************************************************************)
(* glm4.rs: as chatglm.rs                                                    *)
(*****************************************************************************)
Glm4Positions(call) == ModelRows(call, MaxPositions)
Glm4Mask(call) ==
    IF Width(call) <= 1 THEN NoMask ELSE Mask(call.offset + Width(call), "u8", Later(call))
Glm4Attention(cells, xs, mask, call) ==
    FilledAttention(cells, xs, Glm4Positions(call), mask)
Glm4Forward(call) == Decoded(call, Embeddings(call), Glm4Mask(call), Glm4Attention)
Glm4ForCausalLM(call) == LastOf(Glm4Forward(call))
Glm4Get(layers) == Captured(layers)
Glm4Set(layers, cache) == Restored(layers, cache)

(*****************************************************************************)
(* llama.rs: the mask is made after the caching, in single precision, has no *)
(* columns for a prefix, and is 1 where a token may attend                   *)
(*****************************************************************************)
LlamaPositions(call) == TableRows(call, MaxPositions)
LlamaMask(call) ==
    IF Width(call) = 1 THEN NoMask
    ELSE IF call.offset > 0 THEN FailedMask
    ELSE Mask(Width(call), "f32", {at \in (1..Width(call)) \X (1..Width(call)) : at[2] <= at[1]})
\* Caches longer than the table never get here: their rows are outside it.
LlamaAttention(cells, xs, mask, call) ==
    FilledAttention(cells, xs, LlamaPositions(call), LlamaMask(call))
LlamaForward(call) == LastOf(Decoded(call, Embeddings(call), NoMask, LlamaAttention))
LlamaForCausalLM(call) == LlamaForward(call)
LlamaGet(layers) == Captured(layers)
LlamaSet(layers, cache) == Restored(layers, cache)
=============================================================================
