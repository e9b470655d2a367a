------------------------------ MODULE KvReuse ------------------------------
(***************************************************************************)
(* KV caches saved to files and continued from: kvcdn verify, quant, infer *)
(* and search --tree, with kvcdn download bringing in files from elsewhere *)
(* and kvcdn upload taking them there.  An artifact is a data file and a   *)
(* JSON sidecar, written one after the other by processes that do not lock *)
(* them.  A file being written is Torn until the write is done.            *)
(*                                                                         *)
(* The tensors are symbolic.  A cache is the cells that a prefill from     *)
(* scratch of a text gives, followed by a number of cells that no prefill  *)
(* gives, because they attended to other cells or stand at another         *)
(* position.  Logits are those of a prefill when there are none of these.  *)
(* This is every adapter whose causal mask has a column for each position  *)
(* before the new tokens (qwen3.rs and the families that share its mask).  *)
(* Quantizing rounds: the cells approximate those of the prefill from then *)
(* on, and an answer computed from them may differ from the prefill's.     *)
(* There is one model, which rank_artifacts picks by name and every command *)
(* loads at F16, except that quant loads it at its target where it can.    *)
(* All the paths are in the directory that search looks in.                *)
(***************************************************************************)
EXTENDS Naturals, Sequences, FiniteSets

CONSTANTS
    Proc,       \* slots of concurrently running kvcdn processes
    Path,       \* paths of artifacts
    Token,
    Context,    \* token sequences that artifacts are made of
    Question,   \* token sequences of --question
    Query,      \* token sequences of --query
    Float,      \* number types of models and of plain tensors
    F16,        \* the one that models are loaded at; what I8 dequantizes to
    Foreign,    \* caches saved elsewhere, which kvcdn download may bring
    NoFile,
    Torn,       \* a file that is being written, or whose writer died
    MaxNew,     \* bound on --n and --tree-tokens
    MaxTree,    \* bound on --tree
    MaxBegun,   \* bound on commands
    MaxKills    \* bound on killed processes

ASSUME KvReuseAssumption ==
    /\ Context \union Question \union Query \subseteq Seq(Token) \ {<<>>}
    /\ F16 \in Float
    /\ MaxNew \in Nat \ {0}
    /\ MaxTree \in Nat \ {0}
    /\ MaxBegun \in Nat
    /\ MaxKills \in Nat

VARIABLES
    data,   \* data[f]: the safetensors file at f
    side,   \* side[f]: its sidecar, f.json
    proc,   \* proc[p]: the command in slot p
    begun,  \* commands begun so far
    kills,  \* processes killed so far
    quiet,  \* history: paths whose last save ran to its end with no other beside it
    failed  \* history: commands that failed although undisturbed, and of what

vars == <<data, side, proc, begun, kills, quiet, failed>>

(***************************************************************************)
(* Caches                                                                  *)
(***************************************************************************)
Cells(text, dtype) == [good |-> text, bad |-> 0, dtype |-> dtype, rounded |-> FALSE]
Empty == Cells(<<>>, F16)
Size(cache) == Len(cache.good) + cache.bad

\* int8 with a scale, of which no number type can be told.
Quantized(cache) == [cache EXCEPT !.rounded = TRUE, !.dtype = F16]

\* The mask of several tokens has offset columns before them and is added to
\* scores that have one for each cached cell.  One token needs no mask.
Refuses(cache, tokens, offset) == Len(tokens) > 1 /\ offset # Size(cache)

Forward(cache, tokens, offset) ==
    IF cache.bad = 0 /\ offset = Size(cache)
    THEN [cache EXCEPT !.good = @ \o tokens]
    ELSE [cache EXCEPT !.bad = @ + Len(tokens)]

\* Mutant: the cache of an earlier path is not cleared.
PrefillUncleared(before, text) == Forward(before, text, 0)

\* clear_kv_cache, then a forward pass over the text.
Prefill(before, text) == Forward(Cells(<<>>, before.dtype), text, 0)

Cut(s, n) == SubSeq(s, 1, n)

\* longest_common_prefix
CommonPrefix(s, t) ==
    Cardinality({n \in 1..Len(s) : n <= Len(t) /\ Cut(s, n) = Cut(t, n)})

(***************************************************************************)
(* State                                                                   *)
(***************************************************************************)
Cache == [good : Seq(Token), bad : Nat, dtype : Float, rounded : BOOLEAN]

ASSUME ForeignAssumption == Foreign \subseteq {Cells(c, dtype) : c \in Context, dtype \in Float}

Data == [cache : Cache, quant : BOOLEAN]
Sidecar == [tokens : Seq(Token), quant : BOOLEAN, dtype : Float]

ASSUME FilesAssumption == \A x \in {NoFile, Torn} : x \notin Data /\ x \notin Sidecar

\* What kvcdn upload declares of a file, and the bytes whose hash it declares.
Declared == [cells : Nat, quant : BOOLEAN, hashed : Data \union {NoFile, Torn}]
Nothing == [cells |-> 0, quant |-> FALSE, hashed |-> NoFile]

Job == {"verify", "quant", "infer", "search", "download", "upload"}
Cause == {"file", "mask", "type", "mismatch", "empty"}
Phase == {"idle", "truncate", "fill", "truncateSide", "fillSide",
          "loadData", "loadSide", "continue", "generate",
          "declare", "hash", "put", "uploaded"}

\* saves and loads are the paths still to be written and read; text is what the
\* cache should hold; query the tokens to forward next; quant whether the file
\* being written or last read is quantized; dtype the number type of the model
\* and target the one of --target-dtype; first the cache of quant's first answer;
\* made counts the tokens of the last candidate, left the candidates to come.
\* History: alone, whether no other process has written a path of this command
\* meanwhile, and whole, unless a search matched only part of an artifact or has
\* no suffix to forward, or quant writes over its own first artifact.
Process == [phase : Phase, job : Job,
            saves : Seq(Path), loads : Seq(Path), text : Seq(Token),
            query : Seq(Token), quant : BOOLEAN, dtype : Float, target : Float,
            cache : Cache, snapshot : Cache, first : Cache,
            made : Nat, left : Nat, declared : Declared,
            alone : BOOLEAN, whole : BOOLEAN]

Command(job, saves, loads, text, query, cache) ==
    [phase |-> "continue", job |-> job, saves |-> saves, loads |-> loads,
     text |-> text, query |-> query, quant |-> FALSE,
     dtype |-> cache.dtype, target |-> F16, cache |-> cache,
     snapshot |-> Empty, first |-> Empty, made |-> 0, left |-> 0,
     declared |-> Nothing, alone |-> TRUE, whole |-> TRUE]

Idle == [Command("verify", <<>>, <<>>, <<>>, <<>>, Empty) EXCEPT !.phase = "idle"]

Fail(p, cause) ==
    /\ proc' = [proc EXCEPT ![p] = Idle]
    /\ failed' = IF proc[p].alone /\ proc[p].whole
                 THEN failed \union {<<proc[p].job, cause>>} ELSE failed

Go(p, h) ==
    /\ proc' = [proc EXCEPT ![p] = h]
    /\ UNCHANGED failed

TypeOK ==
    /\ data \in [Path -> Data \union {NoFile, Torn}]
    /\ side \in [Path -> Sidecar \union {NoFile, Torn}]
    /\ proc \in [Proc -> Process]
    /\ begun \in 0..MaxBegun
    /\ kills \in 0..MaxKills
    /\ quiet \subseteq Path
    /\ failed \subseteq Job \X Cause

Writing(p, f) == /\ proc[p].phase \in {"fill", "truncateSide", "fillSide"}
                 /\ Head(proc[p].saves) = f
Uses(p, f) == \E i \in 1..Len(proc[p].saves \o proc[p].loads) :
                  (proc[p].saves \o proc[p].loads)[i] = f

Init ==
    /\ data = [f \in Path |-> NoFile]
    /\ side = [f \in Path |-> NoFile]
    /\ proc = [p \in Proc |-> Idle]
    /\ begun = 0
    /\ kills = 0
    /\ quiet = {}
    /\ failed = {}

Begin(p, command) ==
    /\ proc[p].phase = "idle"
    /\ begun < MaxBegun
    /\ begun' = begun + 1
    /\ Go(p, command)
    /\ UNCHANGED <<data, side, kills, quiet>>

(***************************************************************************)
(* The commands                                                            *)
(***************************************************************************)
\* Path A of verify has generated from the context and the question; path B
\* prefills the context alone, saves, loads and continues with the question.
Verify(p, f, context, question) ==
    Begin(p, [Command("verify", <<f>>, <<f>>, context, question,
                      Prefill(Cells(context \o question, F16), context))
              EXCEPT !.phase = "truncate"])

\* Saves the cache as it is and quantized, and with --verify continues from both.
\* --output may name the first artifact again.  The model is at the target number
\* type, or at F16 when it cannot be loaded there.
Quant(p, f, g, context, question, dtype, target) ==
    /\ dtype \in {target, F16}
    /\ Begin(p, [Command("quant", <<f, g>>, <<f, g>>, context, question,
                         Prefill(Cells(<<>>, dtype), context))
                 EXCEPT !.phase = "truncate", !.target = target, !.whole = f # g])

Infer(p, f, question) ==
    Begin(p, [Command("infer", <<>>, <<f>>, <<>>, question, Empty)
              EXCEPT !.phase = "loadData", !.alone = f \in quiet])

\* The file that comes, plain or quantized, has no sidecar.
Download(p, f, cache, quant) ==
    Begin(p, [Command("download", <<f>>, <<>>, cache.good, <<>>,
                      IF quant THEN Quantized(cache) ELSE cache)
              EXCEPT !.phase = "truncate", !.quant = quant])

Upload(p, f) ==
    Begin(p, [Command("upload", <<>>, <<f>>, <<>>, <<>>, Empty)
              EXCEPT !.phase = "declare", !.alone = f \in quiet])

\* Artifacts that rank_artifacts keeps: a file whose sidecar can be read.
Matches == {f \in Path : data[f] # NoFile /\ side[f] \notin {NoFile, Torn}}

\* The longest common prefix first, then the most tokens; among equals the
\* order of the directory decides.
Best(query) ==
    LET Common(f) == CommonPrefix(query, side[f].tokens)
        Before(f, g) == \/ Common(f) > Common(g)
                        \/ /\ Common(f) = Common(g)
                           /\ Len(side[f].tokens) > Len(side[g].tokens)
    IN  {f \in Matches : \A g \in Matches : ~Before(g, f)}

\* Where there is no .kv file at all, search gives up.
SearchNothing(p) ==
    /\ proc[p].phase = "idle"
    /\ begun < MaxBegun
    /\ \A f \in Path : data[f] = NoFile
    /\ begun' = begun + 1
    /\ failed' = failed \union {<<"search", "empty">>}
    /\ UNCHANGED <<data, side, proc, kills, quiet>>

\* No artifact of the model, or none that shares a token: the query is prefilled.
SearchScratch(p, query) ==
    /\ \E f \in Path : data[f] # NoFile
    /\ Begin(p, Command("search", <<>>, <<>>, <<>>, query, Empty))
    /\ \A f \in Best(query) : CommonPrefix(query, side[f].tokens) = 0

SearchMatch(p, query) ==
    /\ proc[p].phase = "idle"
    /\ \E f \in Best(query) :
          LET n == CommonPrefix(query, side[f].tokens) IN
          /\ n > 0
          /\ Begin(p, [Command("search", <<>>, <<f>>, Cut(query, n),
                               SubSeq(query, n + 1, Len(query)), Empty)
                       EXCEPT !.phase = "loadData",
                              !.alone = f \in quiet,
                              !.whole = n = Len(side[f].tokens) /\ n < Len(query)])

(***************************************************************************)
(* Saving                                                                  *)
(***************************************************************************)
\* The file is created or truncated.  Whoever else has to do with it is not
\* alone any more, nor is this process if another one is writing.
Truncate(p) ==
    LET f == Head(proc[p].saves)
        others == {q \in Proc \ {p} : Uses(q, f)}
        clash == \E q \in Proc \ {p} : Writing(q, f)
    IN  /\ proc[p].phase = "truncate"
        /\ data' = [data EXCEPT ![f] = Torn]
        /\ proc' = [q \in Proc |->
                       IF q = p THEN [proc[p] EXCEPT !.phase = "fill",
                                                     !.alone = @ /\ ~clash]
                       ELSE IF q \in others THEN [proc[q] EXCEPT !.alone = FALSE]
                       ELSE proc[q]]
        /\ quiet' = quiet \ {f}
        /\ UNCHANGED <<side, begun, kills, failed>>

\* What comes after a saved artifact: the quantized one, or the loads, which
\* quant does only with --verify.
AfterSave(h) ==
    IF Len(h.saves) > 1
    THEN {[h EXCEPT !.phase = "truncate", !.saves = Tail(@), !.quant = TRUE,
                    !.cache = Quantized(@)]}
    ELSE {[h EXCEPT !.phase = "loadData", !.saves = <<>>, !.quant = FALSE, !.cache = Empty]}
         \union (IF h.job = "quant" THEN {Idle} ELSE {})

\* The tensors are written.  A download is done with that.
Fill(p) ==
    LET h == proc[p] IN
    /\ h.phase = "fill"
    /\ data' = [data EXCEPT ![Head(h.saves)] = [cache |-> h.cache, quant |-> h.quant]]
    /\ Go(p, IF h.job = "download" THEN Idle ELSE [h EXCEPT !.phase = "truncateSide"])
    /\ UNCHANGED <<side, begun, kills, quiet>>

TruncateSide(p) ==
    /\ proc[p].phase = "truncateSide"
    /\ side' = [side EXCEPT ![Head(proc[p].saves)] = Torn]
    /\ Go(p, [proc[p] EXCEPT !.phase = "fillSide"])
    /\ UNCHANGED <<data, begun, kills, quiet>>

FillSideWith(p, sidecar) ==
    LET h == proc[p] IN
    /\ h.phase = "fillSide"
    /\ side' = [side EXCEPT ![Head(h.saves)] = sidecar]
    /\ \E next \in AfterSave(h) : Go(p, next)
    /\ quiet' = IF h.alone THEN quiet \union {Head(h.saves)} ELSE quiet
    /\ UNCHANGED <<data, begun, kills>>

\* What the sidecar says; of quantized tensors, what they are to be dequantized to.
Describes(h) == [tokens |-> h.text, quant |-> h.quant,
                 dtype |-> IF h.quant THEN h.target ELSE h.cache.dtype]

\* Mutants: the sidecar holds the tokens of the question too, has no quantized
\* flag, or calls every artifact plain.
FillSideWithQuestion(p) ==
    FillSideWith(p, [Describes(proc[p]) EXCEPT !.tokens = @ \o proc[p].query])
FillSideUnflagged(p) == FillSideWith(p, [Describes(proc[p]) EXCEPT !.quant = NoFile])
FillSidePlain(p) == FillSideWith(p, [Describes(proc[p]) EXCEPT !.quant = FALSE])

FillSide(p) == FillSideWith(p, Describes(proc[p]))

(***************************************************************************)
(* Loading and continuing                                                  *)
(***************************************************************************)
\* infer copies the bytes to a file of its own, which has no sidecar, and takes
\* the number of cells in it for the offset.
LoadData(p) ==
    LET h == proc[p]
        d == data[Head(h.loads)]
    IN  /\ h.phase = "loadData"
        /\ IF d \in {NoFile, Torn} THEN Fail(p, "file")
           ELSE Go(p, IF h.job = "infer"
                      THEN [h EXCEPT !.phase = "continue", !.cache = d.cache, !.quant = d.quant,
                                     !.text = d.cache.good, !.loads = <<>>]
                      ELSE [h EXCEPT !.phase = "loadSide", !.cache = d.cache, !.quant = d.quant])
        /\ UNCHANGED <<data, side, begun, kills, quiet>>

\* The sidecar, where there is one, says under which names the tensors are, and
\* to which number type quantized ones are dequantized: without it, to F16.
LoadSide(p) ==
    LET h == proc[p]
        s == side[Head(h.loads)]
    IN  /\ h.phase = "loadSide"
        /\ IF s = Torn \/ (s # NoFile /\ s.quant # h.quant) THEN Fail(p, "file")
           ELSE Go(p, [h EXCEPT !.phase = "continue", !.loads = Tail(@),
                                !.cache.dtype = IF s # NoFile /\ h.quant THEN s.dtype ELSE @])
        /\ UNCHANGED <<data, side, begun, kills, quiet>>

\* Continues with tokens at the offset; search forks candidates from there.  The
\* new cells are appended to tensors of the same number type, or not at all.
ContinueAt(p, tokens, offset) ==
    LET h == proc[p]
        cache == Forward(h.cache, tokens, offset)
    IN  /\ h.phase = "continue"
        /\ IF h.cache.dtype # h.dtype THEN Fail(p, "type")
           ELSE IF Refuses(h.cache, tokens, offset) THEN Fail(p, "mask")
           ELSE \E n \in IF h.job = "search" THEN 1..MaxTree ELSE {1} :
                    Go(p, [h EXCEPT !.phase = "generate", !.text = @ \o h.query,
                                    !.cache = cache, !.snapshot = cache,
                                    !.made = 0, !.left = n])
        /\ UNCHANGED <<data, side, begun, kills, quiet>>

\* Mutant: the continuation starts at position 0.
ContinueAtZero(p) == ContinueAt(p, proc[p].query, 0)

\* The question goes after the text that the cache should hold, for infer after
\* the cells there are; a query that ends with the matched prefix has its last
\* token forwarded again.
Continue(p) ==
    LET h == proc[p] IN
    IF h.query = <<>>
    THEN ContinueAt(p, <<h.text[Len(h.text)]>>, Len(h.text) - 1)
    ELSE ContinueAt(p, h.query, IF h.job = "infer" THEN Size(h.cache) ELSE Len(h.text))

\* Each time the token with the highest logit is forwarded; which one that is
\* makes no difference here.
Decoded(n) == [i \in 1..n |-> CHOOSE t \in Token : TRUE]

\* A candidate of n tokens, decoded one by one after the prompt.
CandidateFrom(p, cache) ==
    LET h == proc[p]
        prompt == Cut(h.text, Len(h.text) - h.made)
    IN  /\ h.phase = "generate"
        /\ h.left > 0
        /\ \E n \in 1..MaxNew :
               Go(p, [h EXCEPT !.text = prompt \o Decoded(n), !.made = n, !.left = @ - 1,
                               !.cache = Forward(cache, Decoded(n), Len(prompt))])
        /\ UNCHANGED <<data, side, begun, kills, quiet>>

\* Mutant: a candidate goes on with the cache of the one before.
CandidateUnrestored(p) == CandidateFrom(p, proc[p].cache)

\* Every candidate starts from the snapshot.
Candidate(p) == CandidateFrom(p, proc[p].snapshot)

\* The answers of quant --verify, one from each artifact, may differ if the caches
\* they were computed from do.
MayMismatch(h) == h.job = "quant" /\ h.loads = <<>> /\ h.snapshot # h.first

\* The last candidate, or the answer, is complete: quant --verify turns to the
\* quantized artifact, and in the end gives up if the answers differ; everything
\* else is done.
Finish(p) ==
    LET h == proc[p]
        context == Cut(h.text, Len(h.text) - h.made - Len(h.query))
    IN  /\ h.phase = "generate"
        /\ h.left = 0
        /\ \/ h.loads = <<>> /\ Go(p, Idle)
           \/ MayMismatch(h) /\ Fail(p, "mismatch")
           \/ h.loads # <<>> /\ Go(p, [h EXCEPT !.phase = "loadData", !.text = context,
                                              !.first = h.snapshot, !.made = 0,
                                              !.cache = Empty, !.snapshot = Empty])
        /\ UNCHANGED <<data, side, begun, kills, quiet>>

(***************************************************************************)
(* Uploading                                                               *)
(***************************************************************************)
Declare(p, cells, quant) ==
    Go(p, [proc[p] EXCEPT !.phase = "hash", !.declared.cells = cells, !.declared.quant = quant])

\* The sidecar is believed, if there is one; else the header of the data file,
\* which may be there, and declare something, before the tensors are.
ReadMetadata(p) ==
    LET d == data[Head(proc[p].loads)]
        s == side[Head(proc[p].loads)]
    IN  /\ proc[p].phase = "declare"
        /\ \/ s \notin {NoFile, Torn} /\ Declare(p, Len(s.tokens), s.quant)
           \/ s = NoFile /\ d \notin {NoFile, Torn} /\ Declare(p, Size(d.cache), d.quant)
           \/ s = NoFile /\ d = Torn /\ Declare(p, 0, FALSE)
           \/ (s = Torn \/ (s = NoFile /\ d \in {NoFile, Torn})) /\ Fail(p, "file")
        /\ UNCHANGED <<data, side, begun, kills, quiet>>

\* Whatever the file holds is hashed, and declared to the backend.
Hash(p) ==
    LET d == data[Head(proc[p].loads)] IN
    /\ proc[p].phase = "hash"
    /\ IF d = NoFile THEN Fail(p, "file")
       ELSE Go(p, [proc[p] EXCEPT !.phase = "put", !.declared.hashed = d])
    /\ UNCHANGED <<data, side, begun, kills, quiet>>

\* The file is read again and sent, and the backend compares the hash
\* (ConfirmVerify in ArtifactLifecycle).  Two torn files may differ.
Put(p) ==
    LET d == data[Head(proc[p].loads)]
        hashed == proc[p].declared.hashed
    IN  /\ proc[p].phase = "put"
        /\ \/ d = hashed /\ Go(p, [proc[p] EXCEPT !.phase = "uploaded"])
           \/ (d # hashed \/ d = Torn) /\ Fail(p, "file")
        /\ UNCHANGED <<data, side, begun, kills, quiet>>

Uploaded(p) ==
    /\ proc[p].phase = "uploaded"
    /\ Go(p, Idle)
    /\ UNCHANGED <<data, side, begun, kills, quiet>>

Kill(p) ==
    /\ proc[p].phase # "idle"
    /\ kills < MaxKills
    /\ kills' = kills + 1
    /\ Go(p, Idle)
    /\ UNCHANGED <<data, side, begun, quiet>>

Next ==
    \E p \in Proc :
        \/ \E f \in Path, c \in Context, q \in Question :
              \/ Verify(p, f, c, q)
              \/ \E g \in Path, dtype, target \in Float :
                    Quant(p, f, g, c, q, dtype, target)
        \/ \E f \in Path, q \in Question : Infer(p, f, q)
        \/ \E f \in Path, cache \in Foreign, quant \in BOOLEAN : Download(p, f, cache, quant)
        \/ \E f \in Path : Upload(p, f)
        \/ SearchNothing(p)
        \/ \E q \in Query : SearchScratch(p, q) \/ SearchMatch(p, q)
        \/ Truncate(p)
        \/ Fill(p)
        \/ TruncateSide(p)
        \/ FillSide(p)
        \/ LoadData(p)
        \/ LoadSide(p)
        \/ Continue(p)
        \/ Candidate(p)
        \/ Finish(p)
        \/ ReadMetadata(p)
        \/ Hash(p)
        \/ Put(p)
        \/ Uploaded(p)
        \/ Kill(p)

Spec == Init /\ [][Next]_vars

(***************************************************************************)
(* Properties                                                              *)
(***************************************************************************)
\* The cells are those of a prefill from scratch of all that has been said, at the
\* model's number type, or, from a quantized artifact, approximations of those very
\* cells.  From a plain one the next token is the one that a prefill yields.
Exact(h) ==
    /\ h.cache.good = h.text
    /\ h.cache.bad = 0
    /\ h.cache.dtype = h.dtype
    /\ h.cache.rounded = h.quant

\* After a save that no other process overlapped and nothing killed, the sidecar
\* describes the data file beside it, whatever was at the path before; and it
\* stays so until the next process writes there.  An upload that begins then, and
\* that nobody disturbs, shares an artifact that is what it declares.  The cells of
\* a quantized one approximate those of the tokens it names.
QuietPathsAgree ==
    /\ \A f \in quiet :
          /\ data[f] \notin {NoFile, Torn}
          /\ side[f] \notin {NoFile, Torn}
          /\ data[f].cache.good = side[f].tokens
          /\ data[f].cache.bad = 0
          /\ data[f].cache.rounded = side[f].quant
          /\ data[f].quant = side[f].quant
          /\ side[f].quant \/ side[f].dtype = data[f].cache.dtype
    /\ \A p \in Proc : LET told == proc[p].declared IN
          proc[p].phase = "uploaded" /\ proc[p].alone =>
              /\ told.hashed \notin {NoFile, Torn}
              /\ told.hashed.cache.bad = 0
              /\ told.cells = Size(told.hashed.cache)
              /\ told.quant = told.hashed.quant

\* verify continues token-exactly from what it loads (README.md:12), and quant
\* --verify compares just that, from its first artifact, with what approximations
\* of the same cells yield, unless another process writes to their paths meanwhile
\* or --output names the first artifact.
VerifyExact ==
    \A p \in Proc : LET h == proc[p] IN
        h.job \in {"verify", "quant"} /\ h.alone /\ h.whole /\ h.phase = "generate" =>
            /\ Exact(h)
            /\ h.quant <=> h.job = "quant" /\ h.loads = <<>>

\* infer continues exactly the cache in the bytes it read, or what is left of it
\* if they are quantized, whoever wrote them and whatever sidecar, stale or torn,
\* lies beside them.
InferExact ==
    \A p \in Proc : proc[p].job = "infer" /\ proc[p].phase = "generate" => Exact(proc[p])

\* Every candidate of search --tree is what a prefill of the query yields, or what
\* approximations of its cells do, when the artifact is wholly matched by a proper
\* prefix of the query, or none is used, and its files were saved, and stayed,
\* undisturbed.
WholeMatchExact ==
    \A p \in Proc : LET h == proc[p] IN
        h.job = "search" /\ h.alone /\ h.whole /\ h.phase = "generate" => Exact(h)

\* What a process saved it can load and continue from or upload, and so can every
\* later one, whatever a killed process, an overlapping save or a download had left
\* at the path before.  Commands that nobody disturbs fail only as they say: an
\* artifact of one number type does not fit a model of another, which verify never
\* meets; the answers of quant --verify differ; there is nothing to search in.
UndisturbedSucceeds ==
    failed \subseteq {<<"infer", "type">>, <<"search", "type">>, <<"quant", "type">>,
                     <<"quant", "mismatch">>, <<"search", "empty">>}

\* What the design of the search says of every match: it generates candidates
\* from the shared prefix, paying for the prefix only once
\* (docs/superpowers/specs/2026-07-12-kv-cache-tree-search-design.md:6-8).
TreeExact ==
    \A p \in Proc : LET h == proc[p] IN
        h.job = "search" /\ h.alone /\ h.phase = "generate" => Exact(h)
=============================================================================
