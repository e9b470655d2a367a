-------------------------- MODULE KvReuse_proofs --------------------------
(***************************************************************************)
(* The properties of KvReuse that TLC checks for two processes and two     *)
(* paths hold for every number of both, every set of tokens and every      *)
(* bound.  The inductive invariant says of each process what it knows of   *)
(* the files it is about to read, as long as nobody has disturbed it.      *)
(***************************************************************************)
EXTENDS KvReuse, FiniteSetTheorems, SequenceTheorems, TLAPS

(***************************************************************************)
(* The inductive invariant                                                 *)
(***************************************************************************)
Among(s, f) == \E i \in 1..Len(s) : s[i] = f

Saving == {"truncate", "fill", "truncateSide", "fillSide"}
Sharing == {"declare", "hash", "put", "uploaded"}

\* Writing, of what is in a slot.
Writes(h, f) == h.phase \in {"fill", "truncateSide", "fillSide"} /\ Head(h.saves) = f

\* The text the artifact was made of, before the query and the answer.
ContextOf(h) ==
    IF h.phase = "generate" THEN Cut(h.text, Len(h.text) - h.made - Len(h.query))
    ELSE h.text

\* The cells are those of the text, or approximate them.
Holds(cache, text, rounded) ==
    cache.good = text /\ cache.bad = 0 /\ cache.rounded = rounded

\* A sidecar describes the data file.
Agrees(d, s) ==
    /\ Holds(d.cache, s.tokens, s.quant)
    /\ d.quant = s.quant
    /\ s.quant \/ s.dtype = d.cache.dtype

\* verify saves one artifact, at F16, and quant two, of which the second is quantized.
Plan(h) ==
    /\ h.job = "verify" =>
          \E f \in Path : h.loads = <<f>> /\ h.saves = <<f>> /\ ~h.quant /\ h.cache.dtype = F16
    /\ h.job = "quant" =>
          \E f, g \in Path :
              /\ h.loads = <<f, g>> /\ (h.whole => f # g)
              /\ (h.saves = <<f, g>> /\ ~h.quant) \/ (h.saves = <<g>> /\ h.quant)

\* What the phase of a command says of its other fields.
Shape(h) ==
    /\ h.phase \in Saving =>
          /\ h.saves # <<>>
          /\ h.job \in {"verify", "quant", "download"}
          /\ h.job # "download" => h.loads # <<>>
          /\ Holds(h.cache, h.text, h.quant)
          /\ Plan(h)
    /\ h.job = "verify" => h.dtype = F16
    /\ h.phase \in {"truncateSide", "fillSide"} => h.job # "download"
    /\ h.phase \notin Saving => h.saves = <<>>
    /\ h.phase \in {"loadData", "loadSide"} \union Sharing => h.loads # <<>>
    /\ h.phase \in Sharing => h.job = "upload"
    /\ h.phase \in {"loadData", "loadSide", "continue", "generate"} =>
          h.job \in {"verify", "quant", "infer", "search"}
    /\ h.phase = "loadSide" => h.job # "infer"
    /\ h.phase # "idle" /\ h.job \in {"verify", "quant", "infer"} => h.query # <<>>
    /\ h.job \notin {"search", "quant"} => h.whole
    /\ h.job = "search" =>
          /\ Len(h.loads) <= 1
          /\ h.phase \in {"continue", "generate"} => h.loads = <<>>
          /\ h.query = <<>> => h.text # <<>> /\ ~h.whole
    /\ h.phase = "generate" => h.text # <<>> /\ h.made + Len(h.query) <= Len(h.text)

\* The last artifact that quant reads is the quantized one.
Last(h, n) == h.job = "quant" /\ n = Len(h.loads)

\* infer, and every command that nobody disturbs, has the cells of its text, or their
\* approximations when it has read a quantized artifact; verify reads none, nor quant
\* at first.
Follows(h) ==
    h.job = "infer" \/ (h.alone /\ h.whole) =>
        /\ h.phase \in {"loadSide", "continue", "generate"} => Holds(h.cache, h.text, h.quant)
        /\ h.job = "verify" /\ h.phase \in {"loadSide", "continue"} =>
              ~h.quant /\ h.cache.dtype = F16
        /\ h.job \in {"verify", "quant"} /\ h.phase \in {"continue", "generate"} =>
              (h.quant <=> Last(h, 0))
        /\ h.phase = "generate" =>
              /\ Holds(h.snapshot, Cut(h.text, Len(h.text) - h.made), h.quant)
              /\ h.cache.dtype = h.dtype /\ h.snapshot.dtype = h.dtype

\* What an undisturbed verify or quant knows of the n-th path it has yet to read.
Foreseen(h, n) ==
    /\ side[h.loads[n]].tokens = ContextOf(h)
    /\ h.job \in {"verify", "quant"} => (side[h.loads[n]].quant <=> Last(h, n))
    /\ h.job = "verify" => side[h.loads[n]].dtype = F16

\* What an undisturbed command relies on: the paths it has yet to read, and has
\* not to write before, are quiet and hold its text, and what it has read of
\* the first one is still there.
Known(h) ==
    h.alone =>
        /\ \A i \in 1..Len(h.loads) : ~Among(h.saves, h.loads[i]) =>
              /\ h.loads[i] \in quiet
              /\ h.whole /\ h.job \notin {"infer", "upload"} => Foreseen(h, i)
        /\ h.phase = "loadSide" => h.quant = data[Head(h.loads)].quant
        /\ h.phase \in {"hash", "put", "uploaded"} =>
              /\ h.declared.cells = Len(side[Head(h.loads)].tokens)
              /\ h.declared.quant = side[Head(h.loads)].quant
        /\ h.phase \in {"put", "uploaded"} => h.declared.hashed = data[Head(h.loads)]

\* What an undisturbed command has written of an artifact is still there.
Kept(h) ==
    h.alone /\ h.phase \in {"truncateSide", "fillSide"} =>
        data[Head(h.saves)] = [cache |-> h.cache, quant |-> h.quant]

\* A quiet path has both files, they agree, and nobody is writing them.
QuietFiles ==
    \A f \in quiet :
        /\ data[f] \notin {NoFile, Torn}
        /\ side[f] \notin {NoFile, Torn}
        /\ Agrees(data[f], side[f])
        /\ \A q \in Proc : ~Writes(proc[q], f)

\* A data file holds cells of a prefill only, and approximations if it is quantized.
Proper(d) == d.cache.bad = 0 /\ d.cache.rounded = d.quant
FilesExact == \A f \in Path : data[f] \notin {NoFile, Torn} => Proper(data[f])

\* Nobody else writes where an undisturbed command is writing.
LoneWriters ==
    \A p, q \in Proc : \A f \in Path :
        p # q /\ proc[p].alone /\ Writes(proc[p], f) => ~Writes(proc[q], f)

Procs == \A p \in Proc : Shape(proc[p]) /\ Follows(proc[p]) /\ Known(proc[p]) /\ Kept(proc[p])

IInv == TypeOK /\ UndisturbedSucceeds /\ FilesExact /\ QuietFiles /\ LoneWriters /\ Procs

-----------------------------------------------------------------------------
(***************************************************************************)
(* Sequences                                                               *)
(***************************************************************************)
\* Cut gives the first n elements.
LEMMA CutProperties ==
    ASSUME NEW s \in Seq(Token), NEW n \in Nat, n <= Len(s)
    PROVE  /\ Cut(s, n) \in Seq(Token)
           /\ Len(Cut(s, n)) = n
           /\ \A i \in 1..n : Cut(s, n)[i] = s[i]
<1>1. Len(s) \in Nat
  BY LenProperties
<1>2. \A i \in 1..n : s[i] \in Token
  BY <1>1, ElementOfSeq
<1>3. /\ SubSeq(s, 1, n) \in Seq(Token)
      /\ Len(SubSeq(s, 1, n)) = IF 1 <= n THEN n - 1 + 1 ELSE 0
      /\ \A i \in 1 .. n - 1 + 1 : SubSeq(s, 1, n)[i] = s[1 + i - 1]
  BY <1>2, SubSeqProperties
<1>4. \A i \in 1..n : i \in 1 .. n - 1 + 1 /\ 1 + i - 1 = i
  OBVIOUS
<1>5. Len(SubSeq(s, 1, n)) = n
  BY <1>3
<1> QED
  BY <1>3, <1>4, <1>5 DEF Cut

\* What is appended does not change a cut before it.
LEMMA CutOfConcat ==
    ASSUME NEW s \in Seq(Token), NEW t \in Seq(Token), NEW n \in Nat, n <= Len(s)
    PROVE  /\ Cut(s \o t, n) = Cut(s, n)
           /\ Cut(s, Len(s)) = s
<1>1. Len(s) \in Nat /\ Len(t) \in Nat
  BY LenProperties
<1>2. /\ s \o t \in Seq(Token)
      /\ Len(s \o t) = Len(s) + Len(t)
      /\ \A i \in 1 .. Len(s) + Len(t) : (s \o t)[i] = IF i <= Len(s) THEN s[i] ELSE t[i - Len(s)]
  BY ConcatProperties
<1>3. n <= Len(s \o t)
  BY <1>1, <1>2
<1>4. \A i \in 1..n : (s \o t)[i] = s[i]
  BY <1>1, <1>2
<1>5. /\ Cut(s \o t, n) \in Seq(Token) /\ Len(Cut(s \o t, n)) = n
      /\ \A i \in 1..n : Cut(s \o t, n)[i] = (s \o t)[i]
  BY <1>2, <1>3, CutProperties
<1>6. /\ Cut(s, n) \in Seq(Token) /\ Len(Cut(s, n)) = n
      /\ \A i \in 1..n : Cut(s, n)[i] = s[i]
  BY CutProperties
<1>7. Cut(s \o t, n) = Cut(s, n)
  BY <1>4, <1>5, <1>6, SeqEqual
<1>8. Cut(s, Len(s)) = s
  BY SubSeqFull DEF Cut
<1> QED
  BY <1>7, <1>8

\* A cut of a cut.
LEMMA CutOfCut ==
    ASSUME NEW s \in Seq(Token), NEW m \in Nat, NEW n \in Nat, m <= n, n <= Len(s)
    PROVE  Cut(Cut(s, n), m) = Cut(s, m)
<1>1. Len(s) \in Nat
  BY LenProperties
<1>2. m <= Len(s)
  BY <1>1
<1>3. /\ Cut(s, n) \in Seq(Token) /\ Len(Cut(s, n)) = n
      /\ \A i \in 1..n : Cut(s, n)[i] = s[i]
  BY CutProperties
<1>4. /\ Cut(s, m) \in Seq(Token) /\ Len(Cut(s, m)) = m
      /\ \A i \in 1..m : Cut(s, m)[i] = s[i]
  BY <1>2, CutProperties
<1>5. /\ Cut(Cut(s, n), m) \in Seq(Token) /\ Len(Cut(Cut(s, n), m)) = m
      /\ \A i \in 1..m : Cut(Cut(s, n), m)[i] = Cut(s, n)[i]
  BY <1>3, CutProperties
<1>6. \A i \in 1..m : i \in 1..n
  OBVIOUS
<1> QED
  BY <1>3, <1>4, <1>5, <1>6, SeqEqual

\* Forwarding text after the cells of what comes before it gives the cells of both.
LEMMA ForwardExact ==
    ASSUME NEW c \in Cache, NEW s \in Seq(Token), NEW quant, Holds(c, s, quant),
           NEW t \in Seq(Token)
    PROVE  /\ Holds(Forward(c, t, Len(s)), s \o t, quant)
           /\ Size(c) = Len(s)
<1>1. Len(s) \in Nat
  BY LenProperties
<1>2. c.good = s /\ c.bad = 0 /\ c.rounded = quant
  BY DEF Holds
<1>3. Size(c) = Len(s)
  BY <1>1, <1>2 DEF Size
<1>4. Forward(c, t, Len(s)) = [c EXCEPT !.good = s \o t]
  BY <1>2, <1>3 DEF Forward
<1> QED
  BY <1>2, <1>3, <1>4 DEF Holds, Cache

\* A forward pass yields a cache, of the same number type.
LEMMA ForwardType ==
    ASSUME NEW c \in Cache, NEW t \in Seq(Token), NEW n \in Nat
    PROVE  Forward(c, t, n) \in Cache /\ Forward(c, t, n).dtype = c.dtype
<1>1. c.good \in Seq(Token) /\ c.bad \in Nat /\ Len(t) \in Nat
  BY LenProperties DEF Cache
<1>2. c.good \o t \in Seq(Token) /\ c.bad + Len(t) \in Nat
  BY <1>1, ConcatProperties
<1>3. /\ [c EXCEPT !.good = @ \o t] \in Cache
      /\ [c EXCEPT !.good = @ \o t].dtype = c.dtype
  BY <1>1, <1>2 DEF Cache
<1>4. /\ [c EXCEPT !.bad = @ + Len(t)] \in Cache
      /\ [c EXCEPT !.bad = @ + Len(t)].dtype = c.dtype
  BY <1>1, <1>2 DEF Cache
<1> QED
  BY <1>3, <1>4 DEF Forward

\* The cache of a text, and the size of every cache.
LEMMA CellsType ==
    /\ \A s \in Seq(Token), t \in Float :
          Cells(s, t) \in Cache /\ Holds(Cells(s, t), s, FALSE) /\ Cells(s, t).dtype = t
    /\ Empty \in Cache /\ Holds(Empty, <<>>, FALSE) /\ Empty.dtype = F16
    /\ \A c \in Cache : Size(c) \in Nat
<1>1. \A s \in Seq(Token), t \in Float :
         Cells(s, t) \in Cache /\ Holds(Cells(s, t), s, FALSE) /\ Cells(s, t).dtype = t
  BY DEF Cells, Cache, Holds
<1>2. <<>> \in Seq(Token) /\ F16 \in Float
  BY EmptySeq, KvReuseAssumption
<1>3. ASSUME NEW c \in Cache PROVE Size(c) \in Nat
  <2>1. Len(c.good) \in Nat /\ c.bad \in Nat
    BY LenProperties DEF Cache
  <2> QED
    BY <2>1 DEF Size
<1> QED
  BY <1>1, <1>2, <1>3 DEF Empty

\* What is quantized approximates what it was.
LEMMA QuantizedType ==
    ASSUME NEW c \in Cache, NEW s, NEW quant, Holds(c, s, quant)
    PROVE  Quantized(c) \in Cache /\ Holds(Quantized(c), s, TRUE)
<1>1. F16 \in Float
  BY KvReuseAssumption
<1> QED
  BY <1>1 DEF Quantized, Cache, Holds

\* What is prefilled from scratch is exact.
LEMMA PrefillExact ==
    ASSUME NEW before, before.dtype \in Float, NEW s \in Seq(Token)
    PROVE  /\ Prefill(before, s) \in Cache
           /\ Holds(Prefill(before, s), s, FALSE)
           /\ Prefill(before, s).dtype = before.dtype
<1> DEFINE c == Cells(<<>>, before.dtype)
<1>1. <<>> \in Seq(Token) /\ Len(<<>>) = 0 /\ <<>> \o s = s
  BY EmptySeq, ConcatEmptySeq
<1>2. c \in Cache /\ Holds(c, <<>>, FALSE) /\ c.dtype = before.dtype
  BY <1>1, CellsType
<1>3. Prefill(before, s) = Forward(c, s, 0)
  BY DEF Prefill
<1> HIDE DEF c
<1>4. Holds(Forward(c, s, Len(<<>>)), <<>> \o s, FALSE)
  BY <1>1, <1>2, ForwardExact
<1>5. Forward(c, s, 0) \in Cache /\ Forward(c, s, 0).dtype = c.dtype
  BY <1>2, ForwardType
<1> QED
  BY <1>1, <1>2, <1>3, <1>4, <1>5

\* A query that shares as many tokens with an artifact as this has begins with it.
LEMMA WholeMatch ==
    ASSUME NEW s \in Seq(Token), NEW t \in Seq(Token)
    PROVE  /\ CommonPrefix(s, t) \in Nat
           /\ CommonPrefix(s, t) <= Len(s)
           /\ CommonPrefix(s, t) = Len(t) /\ t # <<>> => Cut(s, Len(t)) = t
<1> DEFINE common == {n \in 1..Len(s) : n <= Len(t) /\ Cut(s, n) = Cut(t, n)}
<1>1. Len(s) \in Nat /\ Len(t) \in Nat
  BY LenProperties
<1>2. /\ IsFiniteSet(1..Len(s)) /\ Cardinality(1..Len(s)) = Len(s)
      /\ IsFiniteSet(1..Len(t)) /\ Cardinality(1..Len(t)) = Len(t)
  <2>1. ASSUME NEW n \in Nat PROVE IsFiniteSet(1..n) /\ Cardinality(1..n) = n
    <3>1. IsFiniteSet(1..n) /\ Cardinality(1..n) = IF 1 > n THEN 0 ELSE n - 1 + 1
      BY FS_Interval
    <3> QED
      BY <3>1
  <2> QED
    BY <1>1, <2>1
<1>3. common \subseteq 1..Len(s) /\ common \subseteq 1..Len(t)
  BY <1>1
<1>4. CommonPrefix(s, t) = Cardinality(common)
  BY DEF CommonPrefix
<1>5. \A n \in common : Cut(s, n) = Cut(t, n)
  OBVIOUS
<1> HIDE DEF common
<1>6. IsFiniteSet(common) /\ Cardinality(common) <= Len(s)
  BY <1>2, <1>3, FS_Subset
<1>7. Cardinality(common) \in Nat
  BY <1>6, FS_CardinalityType
<1>8. ASSUME Cardinality(common) = Len(t), t # <<>> PROVE Cut(s, Len(t)) = t
  <2>1. common = 1..Len(t)
    BY <1>2, <1>3, <1>8, FS_Subset
  <2>2. Len(t) \in common
    BY <1>1, <1>8, <2>1, EmptySeq
  <2>3. Cut(t, Len(t)) = t
    BY SubSeqFull DEF Cut
  <2> QED
    BY <1>5, <2>2, <2>3
<1> QED
  BY <1>4, <1>6, <1>7, <1>8

-----------------------------------------------------------------------------
(***************************************************************************)
(* Steps that write no file                                                *)
(***************************************************************************)
Quiescent(h) == h.phase \notin {"fill", "truncateSide", "fillSide"}

\* An idle slot owes nothing.
LEMMA IdleSound ==
    /\ Idle \in Process
    /\ Quiescent(Idle) /\ Shape(Idle) /\ Follows(Idle) /\ Known(Idle)
<1> DEFINE h == Idle
<1>1. /\ <<>> \in Seq(Path) /\ <<>> \in Seq(Token) /\ Len(<<>>) = 0
  BY EmptySeq
<1>2. Empty \in Cache
  BY CellsType
<1>3. Nothing \in Declared
  BY DEF Nothing, Declared
<1>4. Idle \in Process
  BY <1>1, <1>2, <1>3, CellsType, KvReuseAssumption DEF Idle, Command, Process, Phase, Job
<1>5. /\ h.phase = "idle" /\ h.job = "verify" /\ h.saves = <<>> /\ h.loads = <<>> /\ h.whole
      /\ h.dtype = F16
  BY CellsType DEF Idle, Command
<1> HIDE DEF h
<1>6. Quiescent(h) /\ Follows(h)
  BY <1>5 DEF Quiescent, Follows
<1>7. Shape(h)
  BY <1>5 DEF Shape, Saving, Sharing
<1>8. Known(h)
  <2>1. \A i \in 1..Len(h.loads) : FALSE
    BY <1>1, <1>5
  <2> QED
    BY <1>5, <2>1 DEF Known
<1> QED
  BY <1>4, <1>6, <1>7, <1>8 DEF h

\* What the files say of the commands that do not move, when they do not change.
LEMMA OthersKnow ==
    ASSUME IInv, UNCHANGED <<data, side, quiet>>, NEW q \in Proc, proc'[q] = proc[q]
    PROVE  (Shape(proc[q]) /\ Follows(proc[q]) /\ Known(proc[q]) /\ Kept(proc[q]))'
<1>1. Shape(proc[q]) /\ Follows(proc[q]) /\ Known(proc[q]) /\ Kept(proc[q])
  BY DEF IInv, Procs
<1>2. Shape(proc[q])'
  BY <1>1 DEF Shape, Plan, Holds
<1>3. Follows(proc[q])'
  BY <1>1 DEF Follows, Last, Holds
<1>4. Known(proc[q])'
  BY <1>1 DEF Known, Foreseen, Last, Among, ContextOf
<1>5. Kept(proc[q])'
  BY <1>1 DEF Kept
<1> QED
  BY <1>2, <1>3, <1>4, <1>5

\* A command goes on and writes nothing.
LEMMA QuietStep ==
    ASSUME IInv, NEW p \in Proc, NEW h \in Process,
           proc' = [proc EXCEPT ![p] = h],
           UNCHANGED <<data, side, quiet>>, UndisturbedSucceeds',
           begun' \in 0..MaxBegun, kills' \in 0..MaxKills,
           Quiescent(h), Shape(h), Follows(h), Known(h)
    PROVE  IInv'
<1>1. /\ proc' \in [Proc -> Process]
      /\ proc'[p] = h
      /\ \A q \in Proc \ {p} : proc'[q] = proc[q]
  BY DEF IInv, TypeOK
<1>2. TypeOK'
  <2>1. failed' \subseteq Job \X Cause
    BY DEF UndisturbedSucceeds, Job, Cause
  <2> QED
    BY <1>1, <2>1 DEF IInv, TypeOK
<1>3. FilesExact'
  BY DEF IInv, FilesExact
<1>4. \A f : ~Writes(proc'[p], f)
  BY <1>1 DEF Quiescent, Writes
<1>5. QuietFiles'
  BY <1>1, <1>4 DEF IInv, QuietFiles, Writes
<1>6. LoneWriters'
  BY <1>1, <1>4 DEF IInv, LoneWriters, Writes
<1>7. ASSUME NEW q \in Proc
      PROVE  (Shape(proc[q]) /\ Follows(proc[q]) /\ Known(proc[q]) /\ Kept(proc[q]))'
  <2>1. CASE q # p
    BY <1>1, <2>1, OthersKnow
  <2>2. CASE q = p
    <3>1. Shape(proc'[p]) /\ Follows(proc'[p])
      BY <1>1
    <3>2. Known(proc[p])'
      BY <1>1 DEF Known, Foreseen, Last, Among, ContextOf
    <3>3. Kept(proc[p])'
      BY <1>1 DEF Quiescent, Kept
    <3> QED
      BY <2>2, <3>1, <3>2, <3>3
  <2> QED
    BY <2>1, <2>2
<1> QED
  BY <1>2, <1>3, <1>5, <1>6, <1>7 DEF IInv, Procs

\* A command that somebody disturbed, or a search that matches part of an artifact,
\* may fail, and others may as they say.
LEMMA FailStep ==
    ASSUME IInv, NEW p \in Proc, NEW cause, Fail(p, cause),
           proc[p].alone /\ proc[p].whole =>
              <<proc[p].job, cause>> \in
                 {<<"infer", "type">>, <<"search", "type">>, <<"quant", "type">>,
                  <<"quant", "mismatch">>, <<"search", "empty">>},
           UNCHANGED <<data, side, begun, kills, quiet>>
    PROVE  IInv'
<1>1. begun' \in 0..MaxBegun /\ kills' \in 0..MaxKills
  BY DEF IInv, TypeOK
<1>2. proc' = [proc EXCEPT ![p] = Idle]
  BY DEF Fail
<1>3. UndisturbedSucceeds'
  BY DEF Fail, IInv, UndisturbedSucceeds
<1> QED
  BY <1>1, <1>2, <1>3, IdleSound, QuietStep

-----------------------------------------------------------------------------
(***************************************************************************)
(* Commands that begin                                                     *)
(***************************************************************************)
\* A command that is sound begins.
LEMMA BeginStep ==
    ASSUME IInv, NEW p \in Proc, NEW h \in Process, Begin(p, h),
           Quiescent(h), Shape(h), Follows(h), Known(h)
    PROVE  IInv'
<1>1. begun' \in 0..MaxBegun /\ kills' \in 0..MaxKills
  BY KvReuseAssumption DEF Begin, IInv, TypeOK
<1>2. proc' = [proc EXCEPT ![p] = h] /\ UNCHANGED <<data, side, quiet, failed>>
  BY DEF Begin, Go
<1>3. UndisturbedSucceeds'
  BY <1>2 DEF IInv, UndisturbedSucceeds
<1> QED
  BY <1>1, <1>2, <1>3, QuietStep

\* What a command has when it begins, and takes no part of its arguments.
LEMMA CommandTypes ==
    Nothing \in Declared /\ Empty \in Cache /\ Empty.dtype = F16 /\ F16 \in Float
BY CellsType, KvReuseAssumption DEF Nothing, Declared

\* The texts of the commands are tokens, and not empty.
LEMMA Texts ==
    \A t \in Context \union Question \union Query : t \in Seq(Token) /\ t # <<>>
BY KvReuseAssumption

\* Sequences of paths that commands are given.
LEMMA Paths ==
    ASSUME NEW f \in Path, NEW g \in Path
    PROVE  /\ <<>> \in Seq(Path) /\ <<f>> \in Seq(Path) /\ <<f, g>> \in Seq(Path)
           /\ Len(<<>>) = 0 /\ Len(<<f>>) = 1 /\ Len(<<f, g>>) = 2
           /\ <<f>> # <<>> /\ <<f, g>> # <<>>
           /\ Head(<<f>>) = f /\ <<f>>[1] = f
           /\ <<f, g>>[1] = f /\ <<f, g>>[2] = g
OBVIOUS

\* A command that first saves every path that it loads.
LEMMA SavingSound ==
    ASSUME NEW h \in Process, h.phase = "truncate", h.saves # <<>>,
           h.job \in {"verify", "quant", "download"},
           h.job # "download" => h.loads # <<>> /\ h.query # <<>>,
           Holds(h.cache, h.text, h.quant), Plan(h), h.job = "verify" => h.dtype = F16,
           h.job # "quant" => h.whole,
           \A i \in 1..Len(h.loads) : Among(h.saves, h.loads[i])
    PROVE  Quiescent(h) /\ Shape(h) /\ Follows(h) /\ Known(h)
<1>1. Quiescent(h) /\ Follows(h)
  BY DEF Quiescent, Follows
<1>2. Shape(h)
  BY DEF Shape, Saving, Sharing
<1>3. Known(h)
  BY DEF Known
<1> QED
  BY <1>1, <1>2, <1>3

\* verify begins.
LEMMA VerifyStep ==
    ASSUME IInv, NEW p \in Proc, NEW f \in Path, NEW t \in Context, NEW q \in Question,
           Verify(p, f, t, q)
    PROVE  IInv'
<1> DEFINE cache == Prefill(Cells(t \o q, F16), t)
           c == Command("verify", <<f>>, <<f>>, t, q, cache)
           h == [c EXCEPT !.phase = "truncate"]
<1>1. t \in Seq(Token) /\ q \in Seq(Token) /\ q # <<>>
  BY Texts
<1>2. cache \in Cache /\ Holds(cache, t, FALSE) /\ cache.dtype = F16
  <2>1. t \o q \in Seq(Token)
    BY <1>1, ConcatProperties
  <2>2. Cells(t \o q, F16).dtype = F16 /\ F16 \in Float
    BY <2>1, CellsType, CommandTypes
  <2> QED
    BY <1>1, <2>2, PrefillExact
<1>3. Begin(p, h)
  BY DEF Verify
<1> HIDE DEF cache
<1>4. c = Command("verify", <<f>>, <<f>>, t, q, cache) /\ "verify" \in Job
  BY DEF Job
<1> HIDE DEF c
<1>5. /\ c \in Process /\ c.job = "verify" /\ c.saves = <<f>> /\ c.loads = <<f>>
      /\ c.text = t /\ c.query = q /\ c.cache = cache /\ c.whole
      /\ c.quant = FALSE /\ c.dtype = F16
  <2>1. <<f>> \in Seq(Path)
    BY Paths
  <2> QED
    BY <1>1, <1>2, <1>4, <2>1, CommandTypes DEF Command, Process, Phase, Job
<1>6. /\ h \in Process /\ h.phase = "truncate" /\ h.job = "verify" /\ h.saves = <<f>>
      /\ h.loads = <<f>> /\ h.text = t /\ h.query = q /\ h.cache = cache /\ h.whole
      /\ h.quant = FALSE /\ h.dtype = F16
  BY <1>5 DEF Process, Phase
<1> HIDE DEF h
<1>7. \A i \in 1..Len(h.loads) : Among(h.saves, h.loads[i])
  BY <1>6, Paths DEF Among
<1>8. Plan(h) /\ Holds(h.cache, h.text, h.quant)
  BY <1>2, <1>6 DEF Plan
<1>9. Quiescent(h) /\ Shape(h) /\ Follows(h) /\ Known(h)
  BY <1>1, <1>6, <1>7, <1>8, Paths, SavingSound
<1> QED
  BY <1>3, <1>6, <1>9, BeginStep

\* quant begins.
LEMMA QuantStep ==
    ASSUME IInv, NEW p \in Proc, NEW f \in Path, NEW g \in Path, NEW t \in Context,
           NEW q \in Question, NEW dtype \in Float, NEW target \in Float,
           Quant(p, f, g, t, q, dtype, target)
    PROVE  IInv'
<1> DEFINE cache == Prefill(Cells(<<>>, dtype), t)
           c == Command("quant", <<f, g>>, <<f, g>>, t, q, cache)
           h == [c EXCEPT !.phase = "truncate", !.target = target, !.whole = f # g]
<1>1. t \in Seq(Token) /\ q \in Seq(Token) /\ q # <<>>
  BY Texts
<1>2. cache \in Cache /\ Holds(cache, t, FALSE) /\ cache.dtype = dtype
  <2>1. Cells(<<>>, dtype).dtype = dtype
    BY EmptySeq, CellsType
  <2> QED
    BY <1>1, <2>1, PrefillExact
<1>3. Begin(p, h)
  BY DEF Quant
<1> HIDE DEF cache
<1>4. c = Command("quant", <<f, g>>, <<f, g>>, t, q, cache) /\ "quant" \in Job
  BY DEF Job
<1> HIDE DEF c
<1>5. /\ c \in Process /\ c.job = "quant" /\ c.saves = <<f, g>> /\ c.loads = <<f, g>>
      /\ c.text = t /\ c.query = q /\ c.cache = cache /\ c.quant = FALSE
  <2>1. <<f, g>> \in Seq(Path)
    BY Paths
  <2> QED
    BY <1>1, <1>2, <1>4, <2>1, CommandTypes DEF Command, Process, Phase, Job
<1>6. (f # g) \in BOOLEAN
  OBVIOUS
<1>7. /\ h \in Process /\ h.phase = "truncate" /\ h.job = "quant" /\ h.saves = <<f, g>>
      /\ h.loads = <<f, g>> /\ h.text = t /\ h.query = q /\ h.cache = cache
      /\ h.quant = FALSE /\ (h.whole <=> f # g)
  BY <1>5, <1>6 DEF Process, Phase
<1> HIDE DEF h
<1>8. \A i \in 1..Len(h.loads) : Among(h.saves, h.loads[i])
  BY <1>7 DEF Among
<1>9. Plan(h) /\ Holds(h.cache, h.text, h.quant)
  <2>1. /\ h.loads = <<f, g>> /\ (h.whole => f # g)
        /\ (h.saves = <<f, g>> /\ ~h.quant) \/ (h.saves = <<g>> /\ h.quant)
    BY <1>7
  <2>2. h.job # "verify" /\ Holds(h.cache, h.text, h.quant)
    BY <1>2, <1>7
  <2> QED
    BY ONLY <2>1, <2>2, f \in Path, g \in Path, Zenon DEF Plan
<1>10. h.saves # <<>> /\ h.loads # <<>> /\ h.query # <<>>
  BY <1>1, <1>7, Paths
<1>11. /\ h.job \in {"verify", "quant", "download"} /\ (h.job # "quant" => h.whole)
       /\ (h.job = "verify" => h.dtype = F16)
  BY <1>7
<1>12. Quiescent(h) /\ Shape(h) /\ Follows(h) /\ Known(h)
  BY <1>7, <1>8, <1>9, <1>10, <1>11, SavingSound
<1> QED
  BY <1>3, <1>7, <1>12, BeginStep

\* download begins.
LEMMA DownloadStep ==
    ASSUME IInv, NEW p \in Proc, NEW f \in Path, NEW foreign \in Foreign,
           NEW quant \in BOOLEAN, Download(p, f, foreign, quant)
    PROVE  IInv'
<1> DEFINE t == foreign.good
           cache == IF quant THEN Quantized(foreign) ELSE foreign
           c == Command("download", <<f>>, <<>>, t, <<>>, cache)
           h == [c EXCEPT !.phase = "truncate", !.quant = quant]
<1>1. foreign \in Cache /\ Holds(foreign, t, FALSE) /\ t \in Seq(Token) /\ <<>> \in Seq(Token)
  <2>1. PICK d \in Context, dtype \in Float : foreign = Cells(d, dtype)
    BY ForeignAssumption
  <2>2. d \in Seq(Token)
    BY Texts
  <2>3. foreign \in Cache /\ Holds(foreign, d, FALSE)
    BY <2>1, <2>2, CellsType
  <2> QED
    BY <2>2, <2>3, EmptySeq DEF Holds
<1> HIDE DEF t
<1>2. cache \in Cache /\ Holds(cache, t, quant)
  <2>1. Quantized(foreign) \in Cache /\ Holds(Quantized(foreign), t, TRUE)
    BY <1>1, QuantizedType
  <2> QED
    BY <1>1, <2>1
<1>3. Begin(p, h)
  BY DEF Download, t
<1> HIDE DEF cache
<1>4. c = Command("download", <<f>>, <<>>, t, <<>>, cache) /\ "download" \in Job
  BY DEF Job
<1> HIDE DEF c
<1>5. /\ c \in Process /\ c.job = "download" /\ c.saves = <<f>> /\ c.loads = <<>>
      /\ c.text = t /\ c.cache = cache /\ c.whole
  <2>1. <<f>> \in Seq(Path) /\ <<>> \in Seq(Path)
    BY Paths
  <2>2. cache.dtype \in Float
    BY <1>2 DEF Cache
  <2> QED
    BY <1>1, <1>2, <1>4, <2>1, <2>2, CommandTypes DEF Command, Process, Phase, Job
<1>6. /\ h \in Process /\ h.phase = "truncate" /\ h.job = "download" /\ h.saves = <<f>>
      /\ h.loads = <<>> /\ h.text = t /\ h.cache = cache /\ h.whole /\ h.quant = quant
  BY <1>5 DEF Process, Phase
<1> HIDE DEF h
<1>7. \A i \in 1..Len(h.loads) : Among(h.saves, h.loads[i])
  BY <1>6, Paths
<1>8. Plan(h) /\ Holds(h.cache, h.text, h.quant)
  BY <1>2, <1>6 DEF Plan
<1>9. Quiescent(h) /\ Shape(h) /\ Follows(h) /\ Known(h)
  BY <1>6, <1>7, <1>8, Paths, SavingSound
<1> QED
  BY <1>3, <1>6, <1>9, BeginStep

\* infer begins.
LEMMA InferStep ==
    ASSUME IInv, NEW p \in Proc, NEW f \in Path, NEW q \in Question, Infer(p, f, q)
    PROVE  IInv'
<1> DEFINE c == Command("infer", <<>>, <<f>>, <<>>, q, Empty)
           h == [c EXCEPT !.phase = "loadData", !.alone = f \in quiet]
<1>1. q \in Seq(Token) /\ q # <<>> /\ <<>> \in Seq(Token)
  BY Texts, EmptySeq
<1>2. c = Command("infer", <<>>, <<f>>, <<>>, q, Empty)
  OBVIOUS
<1>3. Begin(p, h)
  BY DEF Infer
<1> HIDE DEF c
<1>4. /\ c \in Process /\ c.job = "infer" /\ c.saves = <<>> /\ c.loads = <<f>>
      /\ c.query = q /\ c.whole
  <2>1. <<>> \in Seq(Path) /\ <<f>> \in Seq(Path)
    BY Paths
  <2> QED
    BY <1>1, <1>2, <2>1, CommandTypes DEF Command, Process, Phase, Job
<1>5. (f \in quiet) \in BOOLEAN
  OBVIOUS
<1>6. /\ h \in Process /\ h.phase = "loadData" /\ h.job = "infer" /\ h.saves = <<>>
      /\ h.loads = <<f>> /\ h.query = q /\ h.whole /\ (h.alone <=> f \in quiet)
  BY <1>4, <1>5 DEF Process, Phase
<1> HIDE DEF h
<1>7. \A i \in 1..Len(h.loads) : h.loads[i] = f
  BY <1>6, Paths
<1>8. Quiescent(h) /\ Follows(h)
  BY <1>6 DEF Quiescent, Follows
<1>9. Shape(h)
  BY <1>1, <1>6, Paths DEF Shape, Saving, Sharing
<1>10. Known(h)
  BY <1>6, <1>7 DEF Known
<1> QED
  BY <1>3, <1>6, <1>8, <1>9, <1>10, BeginStep

\* upload begins.
LEMMA UploadStep ==
    ASSUME IInv, NEW p \in Proc, NEW f \in Path, Upload(p, f)
    PROVE  IInv'
<1> DEFINE c == Command("upload", <<>>, <<f>>, <<>>, <<>>, Empty)
           h == [c EXCEPT !.phase = "declare", !.alone = f \in quiet]
<1>1. c = Command("upload", <<>>, <<f>>, <<>>, <<>>, Empty) /\ <<>> \in Seq(Token)
  BY EmptySeq
<1>2. Begin(p, h)
  BY DEF Upload
<1> HIDE DEF c
<1>3. /\ c \in Process /\ c.job = "upload" /\ c.saves = <<>> /\ c.loads = <<f>> /\ c.whole
  <2>1. <<>> \in Seq(Path) /\ <<f>> \in Seq(Path)
    BY Paths
  <2> QED
    BY <1>1, <2>1, CommandTypes DEF Command, Process, Phase, Job
<1>4. (f \in quiet) \in BOOLEAN
  OBVIOUS
<1>5. /\ h \in Process /\ h.phase = "declare" /\ h.job = "upload" /\ h.saves = <<>>
      /\ h.loads = <<f>> /\ h.whole /\ (h.alone <=> f \in quiet)
  BY <1>3, <1>4 DEF Process, Phase
<1> HIDE DEF h
<1>6. \A i \in 1..Len(h.loads) : h.loads[i] = f
  BY <1>5, Paths
<1>7. Quiescent(h) /\ Follows(h)
  BY <1>5 DEF Quiescent, Follows
<1>8. Shape(h)
  BY <1>5, Paths DEF Shape, Saving, Sharing
<1>9. Known(h)
  BY <1>5, <1>6 DEF Known
<1> QED
  BY <1>2, <1>5, <1>7, <1>8, <1>9, BeginStep

\* search finds no file and gives up.
LEMMA NothingStep ==
    ASSUME IInv, NEW p \in Proc, SearchNothing(p)
    PROVE  IInv'
<1> DEFINE h == proc[p]
<1>1. h \in Process /\ Shape(h) /\ Follows(h) /\ Known(h) /\ h.phase = "idle"
  BY DEF IInv, TypeOK, Procs, SearchNothing
<1>2. begun' \in 0..MaxBegun /\ kills' \in 0..MaxKills
  BY KvReuseAssumption DEF SearchNothing, IInv, TypeOK
<1>3. UndisturbedSucceeds'
  BY DEF SearchNothing, IInv, UndisturbedSucceeds
<1>4. proc' = [proc EXCEPT ![p] = h] /\ UNCHANGED <<data, side, quiet>>
  BY DEF SearchNothing, IInv, TypeOK
<1>5. Quiescent(h)
  BY <1>1 DEF Quiescent
<1> HIDE DEF h
<1> QED
  BY <1>1, <1>2, <1>3, <1>4, <1>5, QuietStep

\* search begins and has nothing to load.
LEMMA ScratchStep ==
    ASSUME IInv, NEW p \in Proc, NEW q \in Query, SearchScratch(p, q)
    PROVE  IInv'
<1> DEFINE h == Command("search", <<>>, <<>>, <<>>, q, Empty)
<1>1. q \in Seq(Token) /\ q # <<>> /\ <<>> \in Seq(Token)
  BY Texts, EmptySeq
<1>2. h = Command("search", <<>>, <<>>, <<>>, q, Empty)
  OBVIOUS
<1>3. Begin(p, h)
  BY DEF SearchScratch
<1> HIDE DEF h
<1>4. /\ h \in Process /\ h.phase = "continue" /\ h.job = "search" /\ h.saves = <<>>
      /\ h.loads = <<>> /\ h.text = <<>> /\ h.query = q /\ h.cache = Empty
      /\ h.quant = FALSE
  <2>1. <<>> \in Seq(Path)
    BY EmptySeq
  <2> QED
    BY <1>1, <1>2, <2>1, CommandTypes DEF Command, Process, Phase, Job
<1>5. Len(<<>>) = 0
  BY EmptySeq
<1>6. Quiescent(h)
  BY <1>4 DEF Quiescent
<1>7. Follows(h)
  BY <1>4, CellsType DEF Follows
<1>8. Shape(h)
  BY <1>1, <1>4, <1>5 DEF Shape, Saving, Sharing
<1>9. Known(h)
  BY <1>4, <1>5 DEF Known
<1> QED
  BY <1>3, <1>4, <1>6, <1>7, <1>8, <1>9, BeginStep

\* search begins with an artifact that it is going to load.
LEMMA MatchStep ==
    ASSUME IInv, NEW p \in Proc, NEW q \in Query, SearchMatch(p, q)
    PROVE  IInv'
<1>1. PICK f \in Best(q) :
          LET n == CommonPrefix(q, side[f].tokens) IN
          /\ n > 0
          /\ Begin(p, [Command("search", <<>>, <<f>>, Cut(q, n),
                               SubSeq(q, n + 1, Len(q)), Empty)
                       EXCEPT !.phase = "loadData",
                              !.alone = f \in quiet,
                              !.whole = n = Len(side[f].tokens) /\ n < Len(q)])
  BY DEF SearchMatch
<1> DEFINE n == CommonPrefix(q, side[f].tokens)
           rest == SubSeq(q, n + 1, Len(q))
           whole == n = Len(side[f].tokens) /\ n < Len(q)
           c == Command("search", <<>>, <<f>>, Cut(q, n), rest, Empty)
           h == [c EXCEPT !.phase = "loadData", !.alone = f \in quiet, !.whole = whole]
<1>2. f \in Path /\ side[f].tokens \in Seq(Token)
  BY DEF Best, Matches, IInv, TypeOK, Sidecar
<1>3. q \in Seq(Token) /\ q # <<>> /\ <<>> \in Seq(Token) /\ Len(q) \in Nat
  BY Texts, EmptySeq, LenProperties
<1>4. /\ n \in Nat /\ n > 0 /\ n <= Len(q)
      /\ n = Len(side[f].tokens) /\ side[f].tokens # <<>> => Cut(q, n) = side[f].tokens
  BY <1>1, <1>2, <1>3, WholeMatch
<1>5. whole \in BOOLEAN /\ (whole => n = Len(side[f].tokens) /\ n < Len(q))
  OBVIOUS
<1>6. n = Len(side[f].tokens) => Cut(q, n) = side[f].tokens
  <2>1. side[f].tokens = <<>> => Len(side[f].tokens) = 0
    BY EmptySeq
  <2> QED
    BY <1>4, <2>1
<1>7. Begin(p, h)
  BY <1>1
<1>8. /\ rest = SubSeq(q, n + 1, Len(q))
      /\ c = Command("search", <<>>, <<f>>, Cut(q, n), rest, Empty)
  OBVIOUS
<1> HIDE DEF n, rest, whole, c
<1>9. Cut(q, n) \in Seq(Token) /\ Len(Cut(q, n)) = n
  BY <1>3, <1>4, CutProperties
<1>10. rest \in Seq(Token) /\ (n < Len(q) => Len(rest) > 0)
  <2>1. n + 1 \in Int /\ Len(q) \in Int
    BY <1>3, <1>4
  <2>2. \A i \in n + 1 .. Len(q) : i \in 1..Len(q)
    BY <1>3, <1>4
  <2>3. \A i \in n + 1 .. Len(q) : q[i] \in Token
    BY <1>3, <2>2, ElementOfSeq
  <2>4. /\ SubSeq(q, n + 1, Len(q)) \in Seq(Token)
        /\ Len(SubSeq(q, n + 1, Len(q))) =
              IF n + 1 <= Len(q) THEN Len(q) - (n + 1) + 1 ELSE 0
    BY <2>1, <2>3, SubSeqProperties
  <2> QED
    BY <1>3, <1>4, <1>8, <2>4
<1>11. /\ c \in Process /\ c.job = "search" /\ c.saves = <<>> /\ c.loads = <<f>>
       /\ c.text = Cut(q, n) /\ c.query = rest
  <2>1. <<>> \in Seq(Path) /\ <<f>> \in Seq(Path)
    BY <1>2, Paths
  <2> QED
    BY <1>8, <1>9, <1>10, <2>1, CommandTypes DEF Command, Process, Phase, Job
<1>12. (f \in quiet) \in BOOLEAN
  OBVIOUS
<1>13. /\ h \in Process /\ h.phase = "loadData" /\ h.job = "search" /\ h.saves = <<>>
       /\ h.loads = <<f>> /\ h.text = Cut(q, n) /\ h.query = rest
       /\ (h.whole <=> whole) /\ (h.alone <=> f \in quiet)
  BY <1>5, <1>11, <1>12 DEF Process, Phase
<1> HIDE DEF h
<1>14. Len(<<>>) = 0 /\ Len(<<f>>) = 1 /\ <<f>> # <<>> /\ <<f>>[1] = f
  BY <1>2, Paths
<1>15. \A i \in 1..Len(h.loads) : h.loads[i] = f
  BY <1>13, <1>14
<1>16. Quiescent(h) /\ Follows(h)
  BY <1>13 DEF Quiescent, Follows
<1>17. h.text # <<>> /\ (h.query = <<>> => ~h.whole)
  BY <1>4, <1>5, <1>9, <1>10, <1>13, <1>14
<1>18. Shape(h)
  BY <1>13, <1>14, <1>17 DEF Shape, Saving, Sharing
<1>19. Known(h)
  BY <1>5, <1>6, <1>13, <1>15 DEF Known, Foreseen, ContextOf
<1> QED
  BY <1>7, <1>13, <1>16, <1>18, <1>19, BeginStep

-----------------------------------------------------------------------------
(***************************************************************************)
(* Loading                                                                 *)
(***************************************************************************)
\* A command goes on, and nothing else changes.
LEMMA GoStep ==
    ASSUME IInv, NEW p \in Proc, NEW h \in Process, Go(p, h),
           UNCHANGED <<data, side, begun, kills, quiet>>,
           Quiescent(h), Shape(h), Follows(h), Known(h)
    PROVE  IInv'
<1>1. begun' \in 0..MaxBegun /\ kills' \in 0..MaxKills
  BY DEF IInv, TypeOK
<1>2. proc' = [proc EXCEPT ![p] = h] /\ UNCHANGED failed
  BY DEF Go
<1>3. UndisturbedSucceeds'
  BY <1>2 DEF IInv, UndisturbedSucceeds
<1> QED
  BY <1>1, <1>2, <1>3, QuietStep

\* A command is of its type, and sound.
LEMMA Sound ==
    ASSUME IInv, NEW p \in Proc
    PROVE  /\ proc[p] \in Process
           /\ Shape(proc[p]) /\ Follows(proc[p]) /\ Known(proc[p]) /\ Kept(proc[p])
BY DEF IInv, TypeOK, Procs

\* The first path that a command loads.
LEMMA First ==
    ASSUME NEW h \in Process, h.loads # <<>>
    PROVE  /\ Head(h.loads) \in Path
           /\ 1 \in 1..Len(h.loads)
           /\ Head(h.loads) = h.loads[1]
<1>1. h.loads \in Seq(Path)
  BY DEF Process
<1>2. Len(h.loads) \in Nat \ {0}
  BY <1>1, EmptySeq
<1>3. Head(h.loads) = h.loads[1]
  BY <1>1, <1>2
<1>4. 1 \in 1..Len(h.loads)
  BY <1>2
<1> QED
  BY <1>1, <1>3, <1>4, ElementOfSeq

\* What an undisturbed command that has saved everything is about to read.
LEMMA Reads ==
    ASSUME IInv, NEW p \in Proc, proc[p].alone, proc[p].loads # <<>>, proc[p].saves = <<>>
    PROVE  LET f == Head(proc[p].loads) IN
           /\ f \in Path /\ f \in quiet
           /\ data[f] \in Data /\ side[f] \in Sidecar
           /\ data[f] \notin {NoFile, Torn} /\ side[f] \notin {NoFile, Torn}
           /\ Agrees(data[f], side[f])
           /\ proc[p].whole /\ proc[p].job \notin {"infer", "upload"} => Foreseen(proc[p], 1)
<1> DEFINE f == Head(proc[p].loads)
<1>1. proc[p] \in Process /\ Known(proc[p])
  BY Sound
<1>2. f \in Path /\ 1 \in 1..Len(proc[p].loads) /\ f = proc[p].loads[1]
  BY <1>1, First
<1>3. ~Among(proc[p].saves, f)
  <2>1. Len(<<>>) = 0
    BY EmptySeq
  <2> QED
    BY <2>1 DEF Among
<1> HIDE DEF f
<1>4. /\ f \in quiet
      /\ proc[p].whole /\ proc[p].job \notin {"infer", "upload"} => Foreseen(proc[p], 1)
  BY <1>1, <1>2, <1>3 DEF Known
<1>5. /\ data[f] \notin {NoFile, Torn} /\ side[f] \notin {NoFile, Torn}
      /\ Agrees(data[f], side[f])
  BY <1>4 DEF IInv, QuietFiles
<1>6. data[f] \in Data /\ side[f] \in Sidecar
  BY <1>2, <1>5 DEF IInv, TypeOK
<1> QED
  BY <1>2, <1>4, <1>5, <1>6 DEF f

\* infer reads a file.
LEMMA LoadDataInfer ==
    ASSUME IInv, NEW p \in Proc, LoadData(p), proc[p].job = "infer",
           data[Head(proc[p].loads)] \notin {NoFile, Torn}
    PROVE  IInv'
<1> DEFINE d == data[Head(proc[p].loads)]
           h == [proc[p] EXCEPT !.phase = "continue", !.cache = d.cache, !.quant = d.quant,
                                !.text = d.cache.good, !.loads = <<>>]
<1>1. /\ proc[p] \in Process /\ Shape(proc[p]) /\ Known(proc[p])
      /\ proc[p].phase = "loadData"
  BY Sound DEF LoadData
<1>2. Head(proc[p].loads) \in Path
  BY <1>1, First DEF Shape
<1>3. d \in Data /\ Proper(d)
  BY <1>2 DEF IInv, TypeOK, FilesExact
<1>4. Go(p, h) /\ UNCHANGED <<data, side, begun, kills, quiet>>
  BY DEF LoadData
<1> HIDE DEF d
<1>5. /\ d.cache \in Cache /\ d.cache.good \in Seq(Token) /\ d.quant \in BOOLEAN
      /\ Holds(d.cache, d.cache.good, d.quant)
  BY <1>3 DEF Data, Cache, Proper, Holds
<1>6. <<>> \in Seq(Path) /\ Len(<<>>) = 0
  BY EmptySeq
<1>7. /\ h \in Process /\ h.phase = "continue" /\ h.job = "infer" /\ h.loads = <<>>
      /\ h.saves = proc[p].saves /\ h.query = proc[p].query /\ h.whole = proc[p].whole
      /\ Holds(h.cache, h.text, h.quant)
  BY <1>1, <1>5, <1>6 DEF Process, Phase
<1> HIDE DEF h
<1>8. Quiescent(h) /\ Follows(h)
  BY <1>7 DEF Quiescent, Follows
<1>9. Shape(h)
  BY <1>1, <1>7 DEF Shape, Saving, Sharing
<1>10. Known(h)
  BY <1>6, <1>7 DEF Known
<1> QED
  BY <1>4, <1>7, <1>8, <1>9, <1>10, GoStep

\* Every other command reads the data file, and goes on to the sidecar.
LEMMA LoadDataOther ==
    ASSUME IInv, NEW p \in Proc, LoadData(p), proc[p].job # "infer",
           data[Head(proc[p].loads)] \notin {NoFile, Torn}
    PROVE  IInv'
<1> DEFINE d == data[Head(proc[p].loads)]
           h == [proc[p] EXCEPT !.phase = "loadSide", !.cache = d.cache, !.quant = d.quant]
<1>1. /\ proc[p] \in Process /\ Shape(proc[p]) /\ Known(proc[p])
      /\ proc[p].phase = "loadData"
  BY Sound DEF LoadData
<1>2. Head(proc[p].loads) \in Path /\ proc[p].loads # <<>> /\ proc[p].saves = <<>>
      /\ proc[p].job \in {"verify", "quant", "search"}
  BY <1>1, First DEF Shape, Saving
<1>3. d \in Data
  BY <1>2 DEF IInv, TypeOK
<1>4. Go(p, h) /\ UNCHANGED <<data, side, begun, kills, quiet>>
  BY DEF LoadData
<1>5. proc[p].alone /\ proc[p].whole =>
         /\ Holds(d.cache, proc[p].text, d.quant)
         /\ proc[p].job = "verify" => ~d.quant /\ d.cache.dtype = F16
  <2>1. ASSUME proc[p].alone, proc[p].whole
        PROVE  /\ Agrees(d, side[Head(proc[p].loads)])
               /\ Foreseen(proc[p], 1)
               /\ Head(proc[p].loads) = proc[p].loads[1]
    BY <1>1, <1>2, <2>1, Reads, First
  <2> HIDE DEF d
  <2> QED
    BY <1>1, <2>1 DEF Agrees, Foreseen, Last, ContextOf, Holds
<1>6. d = data[Head(proc[p].loads)]
  OBVIOUS
<1> HIDE DEF d
<1>7. d.cache \in Cache /\ d.quant \in BOOLEAN
  BY <1>3 DEF Data
<1>8. /\ h \in Process /\ h.phase = "loadSide" /\ h.job = proc[p].job
      /\ h.loads = proc[p].loads /\ h.saves = proc[p].saves /\ h.query = proc[p].query
      /\ h.text = proc[p].text /\ h.whole = proc[p].whole /\ h.alone = proc[p].alone
      /\ h.cache = d.cache /\ h.quant = d.quant /\ h.dtype = proc[p].dtype
  BY <1>1, <1>7 DEF Process, Phase
<1> HIDE DEF h
<1>9. Quiescent(h) /\ Follows(h)
  BY <1>2, <1>5, <1>8 DEF Quiescent, Follows
<1>10. Shape(h)
  BY <1>1, <1>2, <1>8 DEF Shape, Saving, Sharing
<1>11. Known(h)
  BY <1>1, <1>6, <1>8 DEF Known, Foreseen, Last, ContextOf
<1> QED
  BY <1>4, <1>8, <1>9, <1>10, <1>11, GoStep

\* A data file that is not there, or torn, fails a command that was disturbed.
LEMMA LoadDataStep ==
    ASSUME IInv, NEW p \in Proc, LoadData(p)
    PROVE  IInv'
<1>1. CASE data[Head(proc[p].loads)] \in {NoFile, Torn}
  <2>1. Shape(proc[p]) /\ proc[p].phase = "loadData"
    BY Sound DEF LoadData
  <2>2. proc[p].loads # <<>> /\ proc[p].saves = <<>>
    BY <2>1 DEF Shape, Saving
  <2>3. ~proc[p].alone
    BY <1>1, <2>2, Reads
  <2> QED
    BY <1>1, <2>3, FailStep DEF LoadData
<1> QED
  BY <1>1, LoadDataInfer, LoadDataOther

\* The names in the sidecar fit those in the file.
LEMMA LoadSideGoes ==
    ASSUME IInv, NEW p \in Proc, LoadSide(p),
           ~(side[Head(proc[p].loads)] = Torn \/
                (side[Head(proc[p].loads)] # NoFile
                    /\ side[Head(proc[p].loads)].quant # proc[p].quant))
    PROVE  IInv'
<1> DEFINE s == side[Head(proc[p].loads)]
           dtype == IF s # NoFile /\ proc[p].quant THEN s.dtype ELSE proc[p].cache.dtype
           cache == [proc[p].cache EXCEPT !.dtype = dtype]
           h == [proc[p] EXCEPT !.phase = "continue", !.loads = Tail(@), !.cache = cache]
<1>1. /\ proc[p] \in Process /\ Shape(proc[p]) /\ Known(proc[p]) /\ Follows(proc[p])
      /\ proc[p].phase = "loadSide"
  BY Sound DEF LoadSide
<1>2. Go(p, h) /\ UNCHANGED <<data, side, begun, kills, quiet>>
  BY DEF LoadSide
<1>3. /\ proc[p].loads # <<>> /\ proc[p].loads \in Seq(Path) /\ proc[p].saves = <<>>
      /\ proc[p].job \in {"verify", "quant", "search"}
  BY <1>1 DEF Shape, Saving, Process
<1>4. /\ Tail(proc[p].loads) \in Seq(Path)
      /\ Len(proc[p].loads) \in Nat
      /\ Len(Tail(proc[p].loads)) = Len(proc[p].loads) - 1
      /\ \A i \in 1..Len(Tail(proc[p].loads)) : Tail(proc[p].loads)[i] = proc[p].loads[i + 1]
  BY <1>3, HeadTailProperties, LenProperties
<1>5. dtype \in Float
  <2>1. Head(proc[p].loads) \in Path
    BY <1>1, <1>3, First
  <2>2. s \in Sidecar \union {NoFile, Torn} /\ s # Torn
    BY <2>1 DEF IInv, TypeOK
  <2>3. s # NoFile => s.dtype \in Float
    BY <2>2 DEF Sidecar
  <2>4. proc[p].cache.dtype \in Float
    BY <1>1 DEF Process, Cache
  <2> QED
    BY <2>3, <2>4
<1>6. proc[p].alone /\ proc[p].whole /\ proc[p].job \in {"verify", "quant"} =>
         (proc[p].quant <=> Last(proc[p], 1))
  <2>1. ASSUME proc[p].alone, proc[p].whole, proc[p].job \in {"verify", "quant"}
        PROVE  /\ Agrees(data[Head(proc[p].loads)], s)
               /\ Foreseen(proc[p], 1)
               /\ Head(proc[p].loads) = proc[p].loads[1]
               /\ proc[p].quant = data[Head(proc[p].loads)].quant
    BY <1>1, <1>3, <2>1, Reads, First DEF Known
  <2> QED
    BY <2>1 DEF Agrees, Foreseen
<1>7. ~proc[p].quant => dtype = proc[p].cache.dtype
  OBVIOUS
<1> HIDE DEF s, dtype
<1>8. cache \in Cache /\ cache.dtype = dtype
      /\ \A text, quant : Holds(proc[p].cache, text, quant) => Holds(cache, text, quant)
  BY <1>1, <1>5 DEF Process, Cache, Holds
<1> HIDE DEF cache
<1>9. /\ h \in Process /\ h.phase = "continue" /\ h.job = proc[p].job
      /\ h.loads = Tail(proc[p].loads) /\ h.saves = proc[p].saves
      /\ h.query = proc[p].query /\ h.text = proc[p].text /\ h.whole = proc[p].whole
      /\ h.alone = proc[p].alone /\ h.cache = cache /\ h.quant = proc[p].quant
      /\ h.dtype = proc[p].dtype
  BY <1>1, <1>4, <1>8 DEF Process, Phase
<1> HIDE DEF h
<1>10. Last(h, 0) <=> Last(proc[p], 1)
  BY <1>4, <1>9 DEF Last
<1>11. Quiescent(h) /\ Follows(h)
  BY <1>1, <1>3, <1>6, <1>7, <1>8, <1>9, <1>10 DEF Quiescent, Follows
<1>12. h.job = "search" => h.loads = <<>>
  <2>1. h.job = "search" => Len(h.loads) = 0
    <3>1. Len(h.loads) \in Nat
      BY <1>4, <1>9, LenProperties
    <3>2. h.job = "search" => Len(proc[p].loads) <= 1
      BY <1>1, <1>9 DEF Shape
    <3>3. Len(h.loads) = Len(proc[p].loads) - 1
      BY <1>4, <1>9
    <3>4. Len(proc[p].loads) \in Nat
      BY <1>4
    <3>5. \A m, n \in Nat : m = n - 1 /\ n <= 1 => m = 0
      OBVIOUS
    <3> QED
      BY <3>1, <3>2, <3>3, <3>4, <3>5
  <2> QED
    BY <1>4, <1>9, <2>1, EmptySeq
<1>13. h.loads = <<>> => Len(h.loads) = 0
  BY EmptySeq
<1>14. Shape(h)
  BY <1>1, <1>9, <1>12, <1>13 DEF Shape, Saving, Sharing
<1>15. ASSUME h.alone, NEW i \in 1..Len(h.loads), ~Among(h.saves, h.loads[i])
       PROVE  /\ h.loads[i] \in quiet
              /\ h.whole /\ h.job \notin {"infer", "upload"} => Foreseen(h, i)
  <2>1. i + 1 \in 1..Len(proc[p].loads) /\ h.loads[i] = proc[p].loads[i + 1]
    BY <1>4, <1>9, <1>15
  <2>2. ContextOf(h) = ContextOf(proc[p])
    BY <1>1, <1>9 DEF ContextOf
  <2>3. Last(h, i) <=> Last(proc[p], i + 1)
    BY <1>4, <1>9, <1>15 DEF Last
  <2>4. /\ proc[p].loads[i + 1] \in quiet
        /\ h.whole /\ h.job \notin {"infer", "upload"} => Foreseen(proc[p], i + 1)
    BY <1>1, <1>9, <1>15, <2>1 DEF Known
  <2> QED
    BY <1>9, <2>1, <2>2, <2>3, <2>4 DEF Foreseen
<1>16. Known(h)
  BY <1>9, <1>15 DEF Known
<1> QED
  BY <1>2, <1>9, <1>11, <1>14, <1>16, GoStep

\* So does a sidecar that does not fit.
LEMMA LoadSideStep ==
    ASSUME IInv, NEW p \in Proc, LoadSide(p)
    PROVE  IInv'
<1> DEFINE s == side[Head(proc[p].loads)]
           bad == s = Torn \/ (s # NoFile /\ s.quant # proc[p].quant)
<1>1. CASE bad
  <2>1. Shape(proc[p]) /\ Known(proc[p]) /\ proc[p].phase = "loadSide"
    BY Sound DEF LoadSide
  <2>2. proc[p].loads # <<>> /\ proc[p].saves = <<>>
    BY <2>1 DEF Shape, Saving
  <2>3. proc[p].alone => s \notin {NoFile, Torn} /\ data[Head(proc[p].loads)].quant = s.quant
    BY <2>2, Reads DEF Agrees
  <2>4. proc[p].alone => proc[p].quant = data[Head(proc[p].loads)].quant
    BY <2>1 DEF Known
  <2>5. ~proc[p].alone
    BY <1>1, <2>3, <2>4
  <2> QED
    BY <1>1, <2>5, FailStep DEF LoadSide
<1>2. CASE ~bad
  BY <1>2, LoadSideGoes
<1> QED
  BY <1>1, <1>2

-----------------------------------------------------------------------------
(***************************************************************************)
(* Continuing                                                              *)
(***************************************************************************)
\* What is forwarded follows the cells of the text, if those are exact.
LEMMA ContinueAtGoes ==
    ASSUME IInv, NEW p \in Proc, NEW tokens \in Seq(Token), NEW offset \in Nat,
           ContinueAt(p, tokens, offset), ~Refuses(proc[p].cache, tokens, offset),
           proc[p].cache.dtype = proc[p].dtype,
           proc[p].query = <<>> => proc[p].text # <<>>,
           proc[p].job = "infer" \/ (proc[p].alone /\ proc[p].whole) =>
              tokens = proc[p].query /\ offset = Len(proc[p].text)
    PROVE  IInv'
<1> DEFINE text == proc[p].text
           query == proc[p].query
           after == text \o query
           cache == Forward(proc[p].cache, tokens, offset)
<1>1. /\ proc[p] \in Process /\ Shape(proc[p]) /\ Known(proc[p]) /\ Follows(proc[p])
      /\ proc[p].phase = "continue"
  BY Sound DEF ContinueAt
<1>2. PICK n \in (IF proc[p].job = "search" THEN 1..MaxTree ELSE {1}) :
          Go(p, [proc[p] EXCEPT !.phase = "generate", !.text = @ \o proc[p].query,
                                !.cache = cache, !.snapshot = cache, !.made = 0, !.left = n])
  BY DEF ContinueAt
<1> DEFINE h == [proc[p] EXCEPT !.phase = "generate", !.text = after, !.cache = cache,
                                !.snapshot = cache, !.made = 0, !.left = n]
<1>3. Go(p, h) /\ UNCHANGED <<data, side, begun, kills, quiet>>
  BY <1>2 DEF ContinueAt
<1>4. n \in Nat
  BY <1>2, KvReuseAssumption
<1>5. text \in Seq(Token) /\ query \in Seq(Token) /\ Len(text) \in Nat /\ Len(query) \in Nat
  BY <1>1, LenProperties DEF Process
<1>6. after \in Seq(Token) /\ Len(after) = Len(text) + Len(query)
  BY <1>5, ConcatProperties
<1>7. after # <<>>
  <2>1. text # <<>> \/ query # <<>>
    OBVIOUS
  <2>2. Len(text) > 0 \/ Len(query) > 0
    BY <1>5, <2>1, EmptySeq
  <2> QED
    BY <1>5, <1>6, <2>2, EmptySeq
<1>8. proc[p].cache \in Cache
  BY <1>1 DEF Process
<1>9. cache \in Cache /\ cache.dtype = proc[p].dtype
  BY <1>8, ForwardType
<1>10. proc[p].job = "infer" \/ (proc[p].alone /\ proc[p].whole) =>
          Holds(cache, after, proc[p].quant)
  <2>1. Holds(proc[p].cache, text, proc[p].quant) =>
           Holds(Forward(proc[p].cache, query, Len(text)), after, proc[p].quant)
    BY <1>5, <1>8, ForwardExact
  <2> QED
    BY <1>1, <2>1 DEF Follows
<1>11. Cut(after, Len(after) - 0) = after
  <2>1. Len(after) - 0 = Len(after)
    BY <1>5, <1>6
  <2>2. Cut(after, Len(after)) = after
    BY <1>6, SubSeqFull DEF Cut
  <2> QED
    BY <2>1, <2>2
<1>12. Cut(after, Len(after) - 0 - Len(query)) = text
  <2>1. Len(after) - 0 - Len(query) = Len(text)
    BY <1>5, <1>6
  <2> QED
    BY <1>5, <2>1, CutOfConcat
<1>13. text = proc[p].text /\ query = proc[p].query
  OBVIOUS
<1> HIDE DEF text, query, after, cache
<1>14. /\ h \in Process /\ h.phase = "generate" /\ h.job = proc[p].job
       /\ h.loads = proc[p].loads /\ h.saves = proc[p].saves /\ h.query = query
       /\ h.text = after /\ h.whole = proc[p].whole /\ h.alone = proc[p].alone
       /\ h.cache = cache /\ h.snapshot = cache /\ h.made = 0
       /\ h.quant = proc[p].quant /\ h.dtype = proc[p].dtype
  BY <1>1, <1>4, <1>6, <1>9, <1>13 DEF Process, Phase
<1> HIDE DEF h
<1>15. Quiescent(h)
  BY <1>14 DEF Quiescent
<1>16. Follows(h)
  BY <1>1, <1>9, <1>10, <1>11, <1>14 DEF Follows, Last
<1>17. 0 + Len(query) <= Len(after)
  BY <1>5, <1>6
<1>18. Shape(h)
  BY <1>1, <1>7, <1>13, <1>14, <1>17 DEF Shape, Saving, Sharing
<1>19. ContextOf(h) = ContextOf(proc[p])
  BY <1>1, <1>12, <1>13, <1>14 DEF ContextOf
<1>20. Known(h)
  BY <1>1, <1>14, <1>19 DEF Known, Foreseen, Last
<1> QED
  BY <1>3, <1>14, <1>15, <1>16, <1>18, <1>20, GoStep

\* What the mask refuses no undisturbed command forwards, and only verify's caches are
\* sure to fit the model's number type.
LEMMA ContinueAtStep ==
    ASSUME IInv, NEW p \in Proc, NEW tokens \in Seq(Token), NEW offset \in Nat,
           ContinueAt(p, tokens, offset),
           proc[p].query = <<>> => proc[p].text # <<>>,
           proc[p].job = "infer" \/ (proc[p].alone /\ proc[p].whole) =>
              tokens = proc[p].query /\ offset = Len(proc[p].text)
    PROVE  IInv'
<1>1. /\ proc[p] \in Process /\ Shape(proc[p]) /\ Follows(proc[p])
      /\ proc[p].phase = "continue" /\ UNCHANGED <<data, side, begun, kills, quiet>>
  BY Sound DEF ContinueAt
<1>2. CASE proc[p].cache.dtype # proc[p].dtype
  <2>1. Fail(p, "type")
    BY <1>2 DEF ContinueAt
  <2>2. proc[p].job \in {"verify", "quant", "infer", "search"}
    BY <1>1 DEF Shape
  <2>3. proc[p].alone /\ proc[p].whole => proc[p].job # "verify"
    BY <1>1, <1>2 DEF Shape, Follows
  <2> QED
    BY <1>1, <2>1, <2>2, <2>3, FailStep
<1>3. CASE proc[p].cache.dtype = proc[p].dtype /\ Refuses(proc[p].cache, tokens, offset)
  <2>1. Fail(p, "mask")
    BY <1>3 DEF ContinueAt
  <2>2. ASSUME proc[p].alone, proc[p].whole PROVE FALSE
    <3>1. /\ Holds(proc[p].cache, proc[p].text, proc[p].quant)
          /\ proc[p].text \in Seq(Token) /\ proc[p].cache \in Cache
      BY <1>1, <2>2 DEF Follows, Process
    <3>2. <<>> \in Seq(Token)
      BY EmptySeq
    <3>3. Size(proc[p].cache) = Len(proc[p].text)
      BY <3>1, <3>2, ForwardExact
    <3> QED
      BY <1>3, <2>2, <3>3 DEF Refuses
  <2> QED
    BY <1>1, <2>1, <2>2, FailStep
<1>4. CASE proc[p].cache.dtype = proc[p].dtype /\ ~Refuses(proc[p].cache, tokens, offset)
  BY <1>4, ContinueAtGoes
<1> QED
  BY <1>2, <1>3, <1>4

\* A command continues with its query, or with the last token again.
LEMMA ContinueStep ==
    ASSUME IInv, NEW p \in Proc, Continue(p)
    PROVE  IInv'
<1> DEFINE text == proc[p].text
           query == proc[p].query
           offset == IF proc[p].job = "infer" THEN Size(proc[p].cache) ELSE Len(text)
<1>1. proc[p] \in Process /\ Shape(proc[p]) /\ Follows(proc[p]) /\ proc[p].phase = "continue"
  BY Sound DEF Continue, ContinueAt
<1>2. text \in Seq(Token) /\ query \in Seq(Token) /\ Len(text) \in Nat
  BY <1>1, LenProperties DEF Process
<1>3. CASE query = <<>>
  <2>1. proc[p].job = "search" /\ text # <<>> /\ ~proc[p].whole
    BY <1>1, <1>3 DEF Shape
  <2>2. Len(text) - 1 \in Nat /\ Len(text) \in 1..Len(text)
    BY <1>2, <2>1, EmptySeq
  <2>3. text[Len(text)] \in Token
    BY <1>2, <2>2, ElementOfSeq
  <2>4. <<text[Len(text)]>> \in Seq(Token)
    BY <2>3
  <2>5. ContinueAt(p, <<text[Len(text)]>>, Len(text) - 1)
    BY <1>3 DEF Continue
  <2> QED
    BY <2>1, <2>2, <2>4, <2>5, ContinueAtStep
<1>4. CASE query # <<>>
  <2>1. Size(proc[p].cache) \in Nat
    BY <1>1, CellsType DEF Process
  <2>2. offset \in Nat
    BY <1>2, <2>1
  <2>3. proc[p].job = "infer" => Size(proc[p].cache) = Len(text)
    <3>1. proc[p].job = "infer" => Holds(proc[p].cache, text, proc[p].quant)
      BY <1>1 DEF Follows
    <3>2. proc[p].cache \in Cache
      BY <1>1 DEF Process
    <3> QED
      BY <1>2, <3>1, <3>2, ForwardExact
  <2>4. ContinueAt(p, query, offset)
    BY <1>4 DEF Continue
  <2>5. proc[p].job = "infer" \/ (proc[p].alone /\ proc[p].whole) => offset = Len(text)
    BY <2>3
  <2> HIDE DEF offset
  <2> QED
    BY <1>2, <1>4, <2>2, <2>4, <2>5, ContinueAtStep
<1> QED
  BY <1>3, <1>4

\* A candidate of search, or an answer.
LEMMA CandidateStep ==
    ASSUME IInv, NEW p \in Proc, Candidate(p)
    PROVE  IInv'
<1> DEFINE text == proc[p].text
           query == proc[p].query
           made == proc[p].made
           prompt == Cut(text, Len(text) - made)
<1>1. /\ proc[p] \in Process /\ Shape(proc[p]) /\ Known(proc[p]) /\ Follows(proc[p])
      /\ proc[p].phase = "generate" /\ proc[p].left > 0
  BY Sound DEF Candidate, CandidateFrom
<1>2. PICK n \in 1..MaxNew :
          Go(p, [proc[p] EXCEPT !.text = prompt \o Decoded(n), !.made = n, !.left = @ - 1,
                                !.cache = Forward(proc[p].snapshot, Decoded(n), Len(prompt))])
  BY DEF Candidate, CandidateFrom
<1> DEFINE after == prompt \o Decoded(n)
           cache == Forward(proc[p].snapshot, Decoded(n), Len(prompt))
           h == [proc[p] EXCEPT !.text = after, !.made = n, !.left = @ - 1, !.cache = cache]
<1>3. Go(p, h) /\ UNCHANGED <<data, side, begun, kills, quiet>>
  BY <1>2 DEF Candidate, CandidateFrom
<1>4. n \in Nat /\ n >= 1
  BY KvReuseAssumption
<1>5. /\ text = proc[p].text /\ query = proc[p].query /\ made = proc[p].made
       /\ prompt = Cut(text, Len(text) - made)
       /\ after = prompt \o Decoded(n)
       /\ cache = Forward(proc[p].snapshot, Decoded(n), Len(prompt))
  OBVIOUS
<1> HIDE DEF text, query, made, prompt, after, cache
<1>6. text \in Seq(Token) /\ query \in Seq(Token) /\ Len(text) \in Nat /\ Len(query) \in Nat
      /\ made \in Nat /\ proc[p].left \in Nat
  BY <1>1, <1>5, LenProperties DEF Process
<1>7. text # <<>> /\ made + Len(query) <= Len(text)
  BY <1>1, <1>5 DEF Shape
<1>8. Decoded(n) \in Seq(Token) /\ Len(Decoded(n)) = n
  <2>1. Len(text) > 0
    BY <1>6, <1>7, EmptySeq
  <2>2. 1 \in 1..Len(text)
    BY <1>6, <2>1
  <2>3. text[1] \in Token
    BY <1>6, <2>2, ElementOfSeq
  <2>4. (CHOOSE t \in Token : TRUE) \in Token
    BY <2>3
  <2> QED
    BY <1>4, <2>4 DEF Decoded
<1>9. Len(text) - made \in Nat /\ Len(text) - made <= Len(text)
  BY <1>6, <1>7
<1>10. prompt \in Seq(Token) /\ Len(prompt) = Len(text) - made
  BY <1>5, <1>6, <1>9, CutProperties
<1>11. after \in Seq(Token) /\ Len(after) = Len(prompt) + n
  <2>1. /\ prompt \o Decoded(n) \in Seq(Token)
        /\ Len(prompt \o Decoded(n)) = Len(prompt) + Len(Decoded(n))
    BY <1>8, <1>10, ConcatProperties
  <2> QED
    BY <1>5, <1>8, <2>1
<1>12. after # <<>>
  BY <1>4, <1>9, <1>10, <1>11, EmptySeq
<1>13. n + Len(query) <= Len(after)
  BY <1>4, <1>6, <1>7, <1>10, <1>11
<1>14. Len(prompt) \in Nat
  BY <1>9, <1>10
<1>15. proc[p].snapshot \in Cache
  BY <1>1 DEF Process
<1>16. cache \in Cache /\ cache.dtype = proc[p].snapshot.dtype
  BY <1>5, <1>8, <1>14, <1>15, ForwardType
<1>17. proc[p].job = "infer" \/ (proc[p].alone /\ proc[p].whole) =>
          /\ Holds(proc[p].snapshot, prompt, proc[p].quant)
          /\ Holds(cache, after, proc[p].quant)
  <2>1. Holds(proc[p].snapshot, prompt, proc[p].quant) => Holds(cache, after, proc[p].quant)
    BY <1>5, <1>8, <1>10, <1>15, ForwardExact
  <2> QED
    BY <1>1, <1>5, <2>1 DEF Follows
<1>18. Cut(after, Len(after) - n) = prompt
  <2>1. Len(after) - n = Len(prompt) /\ Len(prompt) <= Len(prompt)
    BY <1>4, <1>11, <1>14
  <2> QED
    BY <1>5, <1>8, <1>10, <1>14, <2>1, CutOfConcat
<1>19. Cut(after, Len(after) - n - Len(query)) = Cut(text, Len(text) - made - Len(query))
  <2> DEFINE k == Len(text) - made - Len(query)
  <2>1. k \in Nat /\ k <= Len(prompt) /\ k <= Len(text) - made
    BY <1>6, <1>7, <1>10
  <2>2. Len(after) - n - Len(query) = k
    BY <1>4, <1>6, <1>10, <1>11
  <2> HIDE DEF k
  <2>3. Cut(after, k) = Cut(prompt, k)
    BY <1>5, <1>8, <1>10, <2>1, CutOfConcat
  <2>4. Cut(prompt, k) = Cut(text, k)
    BY <1>5, <1>6, <1>9, <2>1, CutOfCut
  <2> QED
    BY <2>2, <2>3, <2>4 DEF k
<1>20. proc[p].left - 1 \in Nat
  BY <1>1, <1>6
<1>21. /\ h \in Process /\ h.phase = "generate" /\ h.job = proc[p].job
       /\ h.loads = proc[p].loads /\ h.saves = proc[p].saves /\ h.query = query
       /\ h.text = after /\ h.whole = proc[p].whole /\ h.alone = proc[p].alone
       /\ h.cache = cache /\ h.snapshot = proc[p].snapshot /\ h.made = n
       /\ h.quant = proc[p].quant /\ h.dtype = proc[p].dtype
  BY <1>1, <1>4, <1>5, <1>11, <1>16, <1>20 DEF Process
<1> HIDE DEF h
<1>22. Quiescent(h)
  BY <1>21 DEF Quiescent
<1>23. Follows(h)
  BY <1>1, <1>16, <1>17, <1>18, <1>21 DEF Follows, Last
<1>24. Shape(h)
  BY <1>1, <1>5, <1>12, <1>13, <1>21 DEF Shape, Saving, Sharing
<1>25. ContextOf(h) = ContextOf(proc[p])
  BY <1>1, <1>5, <1>19, <1>21 DEF ContextOf
<1>26. Known(h)
  BY <1>1, <1>21, <1>25 DEF Known, Foreseen, Last
<1> QED
  BY <1>3, <1>21, <1>22, <1>23, <1>24, <1>26, GoStep

\* An answer is complete; quant turns to the second artifact.
LEMMA FinishStep ==
    ASSUME IInv, NEW p \in Proc, Finish(p)
    PROVE  IInv'
<1> DEFINE context == Cut(proc[p].text, Len(proc[p].text) - proc[p].made - Len(proc[p].query))
           h == [proc[p] EXCEPT !.phase = "loadData", !.text = context,
                                !.first = proc[p].snapshot, !.made = 0,
                                !.cache = Empty, !.snapshot = Empty]
<1>1. /\ proc[p] \in Process /\ Shape(proc[p]) /\ Known(proc[p])
      /\ proc[p].phase = "generate"
  BY Sound DEF Finish
<1>2. UNCHANGED <<data, side, begun, kills, quiet>>
  BY DEF Finish
<1>3. CASE Go(p, Idle)
  BY <1>2, <1>3, IdleSound, GoStep
<1>4. CASE MayMismatch(proc[p]) /\ Fail(p, "mismatch")
  <2>1. proc[p].job = "quant"
    BY <1>4 DEF MayMismatch
  <2> QED
    BY <1>2, <1>4, <2>1, FailStep
<1>5. CASE proc[p].loads # <<>> /\ Go(p, h)
  <2>1. Go(p, h)
    BY <1>5
  <2>2. /\ proc[p].text \in Seq(Token) /\ Len(proc[p].text) \in Nat
        /\ proc[p].made \in Nat /\ Len(proc[p].query) \in Nat
    BY <1>1, LenProperties DEF Process
  <2>3. proc[p].made + Len(proc[p].query) <= Len(proc[p].text) /\ proc[p].job # "search"
    BY <1>1, <1>5 DEF Shape
  <2> DEFINE k == Len(proc[p].text) - proc[p].made - Len(proc[p].query)
  <2>4. k \in Nat /\ k <= Len(proc[p].text)
    <3>1. \A a, b, c \in Nat : b + c <= a => a - b - c \in Nat /\ a - b - c <= a
      OBVIOUS
    <3> QED
      BY <2>2, <2>3, <3>1
  <2>5. Cut(proc[p].text, k) \in Seq(Token)
    <3> HIDE DEF k
    <3> QED
      BY <2>2, <2>4, CutProperties
  <2>6. context \in Seq(Token) /\ context = ContextOf(proc[p])
    BY <1>1, <2>5 DEF ContextOf
  <2> HIDE DEF context, k
  <2>7. /\ h \in Process /\ h.phase = "loadData" /\ h.job = proc[p].job
        /\ h.loads = proc[p].loads /\ h.saves = proc[p].saves /\ h.query = proc[p].query
        /\ h.text = context /\ h.whole = proc[p].whole /\ h.alone = proc[p].alone
        /\ h.dtype = proc[p].dtype
    BY <1>1, <2>6, CommandTypes DEF Process, Phase
  <2> HIDE DEF h
  <2>8. Quiescent(h) /\ Follows(h)
    BY <2>7 DEF Quiescent, Follows
  <2>9. Shape(h)
    BY <1>1, <1>5, <2>3, <2>7 DEF Shape, Saving, Sharing
  <2>10. ContextOf(h) = ContextOf(proc[p])
    BY <2>6, <2>7 DEF ContextOf
  <2>11. Known(h)
    BY <1>1, <2>7, <2>10 DEF Known, Foreseen, Last
  <2> QED
    BY <1>2, <2>1, <2>7, <2>8, <2>9, <2>11, GoStep
<1> QED
  BY <1>3, <1>4, <1>5 DEF Finish

-----------------------------------------------------------------------------
(***************************************************************************)
(* Uploading                                                               *)
(***************************************************************************)
\* A command that is sharing reads one path, and has nothing to save.
LEMMA Sharer ==
    ASSUME IInv, NEW p \in Proc, proc[p].phase \in Sharing
    PROVE  /\ proc[p] \in Process /\ Shape(proc[p]) /\ Known(proc[p])
           /\ proc[p].job = "upload" /\ proc[p].whole
           /\ proc[p].loads # <<>> /\ proc[p].saves = <<>>
           /\ Head(proc[p].loads) \in Path
<1>1. proc[p] \in Process /\ Shape(proc[p]) /\ Known(proc[p])
  BY Sound
<1>2. /\ proc[p].job = "upload" /\ proc[p].whole
      /\ proc[p].loads # <<>> /\ proc[p].saves = <<>>
  BY <1>1 DEF Shape, Sharing, Saving
<1> QED
  BY <1>1, <1>2, First

\* An upload goes on to a phase in which it still knows what it declared.
LEMMA ShareGoes ==
    ASSUME IInv, NEW p \in Proc, proc[p].phase \in Sharing, NEW h \in Process, Go(p, h),
           UNCHANGED <<data, side, begun, kills, quiet>>,
           h.phase \in {"hash", "put", "uploaded"},
           h.job = proc[p].job, h.loads = proc[p].loads, h.saves = proc[p].saves,
           h.whole = proc[p].whole, h.alone = proc[p].alone,
           h.alone =>
              /\ h.declared.cells = Len(side[Head(h.loads)].tokens)
              /\ h.declared.quant = side[Head(h.loads)].quant
              /\ h.phase \in {"put", "uploaded"} => h.declared.hashed = data[Head(h.loads)]
    PROVE  IInv'
<1>1. /\ proc[p] \in Process /\ Shape(proc[p]) /\ Known(proc[p])
      /\ proc[p].job = "upload" /\ proc[p].whole
      /\ proc[p].loads # <<>> /\ proc[p].saves = <<>>
  BY Sharer
<1>2. Quiescent(h) /\ Follows(h)
  BY <1>1 DEF Quiescent, Follows
<1>3. Shape(h)
  BY <1>1 DEF Shape, Saving, Sharing
<1>4. Known(h)
  BY <1>1 DEF Known
<1> QED
  BY <1>2, <1>3, <1>4, GoStep

\* What is declared of a file is of its type.
LEMMA DeclareStep ==
    ASSUME IInv, NEW p \in Proc, proc[p].phase = "declare",
           UNCHANGED <<data, side, begun, kills, quiet>>,
           NEW cells \in Nat, NEW quant \in BOOLEAN, Declare(p, cells, quant),
           proc[p].alone => /\ cells = Len(side[Head(proc[p].loads)].tokens)
                            /\ quant = side[Head(proc[p].loads)].quant
    PROVE  IInv'
<1> DEFINE h == [proc[p] EXCEPT !.phase = "hash", !.declared.cells = cells,
                                !.declared.quant = quant]
<1>1. Go(p, h)
  BY DEF Declare
<1>2. proc[p].phase \in Sharing
  BY DEF Sharing
<1>3. proc[p] \in Process
  BY <1>2, Sharer
<1>4. proc[p].declared \in Declared
  BY <1>3 DEF Process
<1>5. [[proc[p].declared EXCEPT !.cells = cells] EXCEPT !.quant = quant] \in Declared
  BY <1>4 DEF Declared
<1>6. /\ h \in Process /\ h.phase = "hash" /\ h.job = proc[p].job
      /\ h.loads = proc[p].loads /\ h.saves = proc[p].saves
      /\ h.whole = proc[p].whole /\ h.alone = proc[p].alone
      /\ h.declared.cells = cells /\ h.declared.quant = quant
  BY <1>3, <1>4, <1>5 DEF Process, Phase, Declared
<1> HIDE DEF h
<1> QED
  BY <1>1, <1>2, <1>6, ShareGoes

\* The sidecar is believed; without one a torn file may be.
LEMMA ReadMetadataStep ==
    ASSUME IInv, NEW p \in Proc, ReadMetadata(p)
    PROVE  IInv'
<1> DEFINE f == Head(proc[p].loads)
           d == data[f]
           s == side[f]
<1>1. proc[p].phase = "declare" /\ proc[p].phase \in Sharing
  BY DEF ReadMetadata, Sharing
<1>2. /\ proc[p].job = "upload" /\ proc[p].whole /\ f \in Path
      /\ proc[p].loads # <<>> /\ proc[p].saves = <<>>
  BY <1>1, Sharer
<1>3. UNCHANGED <<data, side, begun, kills, quiet>>
  BY DEF ReadMetadata
<1>4. d \in Data \union {NoFile, Torn} /\ s \in Sidecar \union {NoFile, Torn}
  BY <1>2 DEF IInv, TypeOK
<1>5. proc[p].alone => d \notin {NoFile, Torn} /\ s \notin {NoFile, Torn}
  BY <1>2, Reads
<1>6. CASE s \notin {NoFile, Torn} /\ Declare(p, Len(s.tokens), s.quant)
  <2>1. s.tokens \in Seq(Token) /\ s.quant \in BOOLEAN
    BY <1>4, <1>6 DEF Sidecar
  <2>2. Len(s.tokens) \in Nat
    BY <2>1, LenProperties
  <2> QED
    BY <1>1, <1>3, <1>6, <2>1, <2>2, DeclareStep
<1>7. CASE s = NoFile /\ d \notin {NoFile, Torn} /\ Declare(p, Size(d.cache), d.quant)
  <2>1. d.cache \in Cache /\ d.quant \in BOOLEAN
    BY <1>4, <1>7 DEF Data
  <2>2. Size(d.cache) \in Nat
    BY <2>1, CellsType
  <2>3. ~proc[p].alone
    BY <1>5, <1>7
  <2> QED
    BY <1>1, <1>3, <1>7, <2>1, <2>2, <2>3, DeclareStep
<1>8. CASE s = NoFile /\ d = Torn /\ Declare(p, 0, FALSE)
  <2>1. ~proc[p].alone
    BY <1>5, <1>8
  <2> QED
    BY <1>1, <1>3, <1>8, <2>1, DeclareStep
<1>9. CASE (s = Torn \/ (s = NoFile /\ d \in {NoFile, Torn})) /\ Fail(p, "file")
  <2>1. ~proc[p].alone
    BY <1>5, <1>9
  <2> QED
    BY <1>3, <1>9, <2>1, FailStep
<1> QED
  BY <1>6, <1>7, <1>8, <1>9 DEF ReadMetadata

\* The hash is of what the file holds then.
LEMMA HashStep ==
    ASSUME IInv, NEW p \in Proc, Hash(p)
    PROVE  IInv'
<1> DEFINE f == Head(proc[p].loads)
           d == data[f]
           h == [proc[p] EXCEPT !.phase = "put", !.declared.hashed = d]
<1>1. proc[p].phase = "hash" /\ proc[p].phase \in Sharing
  BY DEF Hash, Sharing
<1>2. /\ proc[p] \in Process /\ Known(proc[p])
      /\ proc[p].job = "upload" /\ proc[p].whole /\ f \in Path
      /\ proc[p].loads # <<>> /\ proc[p].saves = <<>>
  BY <1>1, Sharer
<1>3. UNCHANGED <<data, side, begun, kills, quiet>>
  BY DEF Hash
<1>4. CASE d = NoFile
  <2>1. ~proc[p].alone
    BY <1>2, <1>4, Reads
  <2> QED
    BY <1>3, <1>4, <2>1, FailStep DEF Hash
<1>5. CASE d # NoFile
  <2>1. Go(p, h)
    BY <1>5 DEF Hash
  <2>2. d \in Data \union {NoFile, Torn}
    BY <1>2 DEF IInv, TypeOK
  <2>3. d = data[Head(proc[p].loads)]
    OBVIOUS
  <2> HIDE DEF d
  <2>4. proc[p].declared \in Declared
    BY <1>2 DEF Process
  <2>5. [proc[p].declared EXCEPT !.hashed = d] \in Declared
    BY <2>2, <2>4 DEF Declared
  <2>6. /\ h \in Process /\ h.phase = "put" /\ h.job = proc[p].job
        /\ h.loads = proc[p].loads /\ h.saves = proc[p].saves
        /\ h.whole = proc[p].whole /\ h.alone = proc[p].alone
        /\ h.declared.cells = proc[p].declared.cells
        /\ h.declared.quant = proc[p].declared.quant /\ h.declared.hashed = d
    BY <1>2, <2>4, <2>5 DEF Process, Phase, Declared
  <2>7. proc[p].alone => /\ proc[p].declared.cells = Len(side[f].tokens)
                         /\ proc[p].declared.quant = side[f].quant
    BY <1>1, <1>2 DEF Known
  <2> HIDE DEF h
  <2> QED
    BY <1>1, <1>3, <2>1, <2>3, <2>6, <2>7, ShareGoes
<1> QED
  BY <1>4, <1>5

\* What an undisturbed upload sends is what it hashed.
LEMMA PutStep ==
    ASSUME IInv, NEW p \in Proc, Put(p)
    PROVE  IInv'
<1> DEFINE f == Head(proc[p].loads)
           h == [proc[p] EXCEPT !.phase = "uploaded"]
<1>1. proc[p].phase = "put" /\ proc[p].phase \in Sharing
  BY DEF Put, Sharing
<1>2. /\ proc[p] \in Process /\ Known(proc[p])
      /\ proc[p].job = "upload" /\ proc[p].whole
      /\ proc[p].loads # <<>> /\ proc[p].saves = <<>>
  BY <1>1, Sharer
<1>3. UNCHANGED <<data, side, begun, kills, quiet>>
  BY DEF Put
<1>4. proc[p].alone => /\ proc[p].declared.cells = Len(side[f].tokens)
                       /\ proc[p].declared.quant = side[f].quant
                       /\ proc[p].declared.hashed = data[f]
  BY <1>1, <1>2 DEF Known
<1>5. CASE Go(p, h)
  <2>1. /\ h \in Process /\ h.phase = "uploaded" /\ h.job = proc[p].job
        /\ h.loads = proc[p].loads /\ h.saves = proc[p].saves
        /\ h.whole = proc[p].whole /\ h.alone = proc[p].alone
        /\ h.declared = proc[p].declared
    BY <1>2 DEF Process, Phase
  <2> HIDE DEF h
  <2> QED
    BY <1>1, <1>3, <1>4, <1>5, <2>1, ShareGoes
<1>6. CASE (data[f] # proc[p].declared.hashed \/ data[f] = Torn) /\ Fail(p, "file")
  <2>1. proc[p].alone => data[f] # Torn
    BY <1>2, Reads
  <2>2. ~proc[p].alone
    BY <1>4, <1>6, <2>1
  <2> QED
    BY <1>3, <1>6, <2>2, FailStep
<1> QED
  BY <1>5, <1>6 DEF Put

\* An upload ends, and a process is killed.
LEMMA EndStep ==
    ASSUME IInv, NEW p \in Proc, Uploaded(p) \/ Kill(p)
    PROVE  IInv'
<1>1. CASE Uploaded(p)
  BY <1>1, IdleSound, GoStep DEF Uploaded
<1>2. CASE Kill(p)
  <2>1. begun' \in 0..MaxBegun /\ kills' \in 0..MaxKills
    BY <1>2, KvReuseAssumption DEF Kill, IInv, TypeOK
  <2>2. /\ proc' = [proc EXCEPT ![p] = Idle]
        /\ UNCHANGED <<data, side, quiet, failed>>
    BY <1>2 DEF Kill, Go
  <2>3. UndisturbedSucceeds'
    BY <2>2 DEF IInv, UndisturbedSucceeds
  <2> QED
    BY <2>1, <2>2, <2>3, IdleSound, QuietStep
<1> QED
  BY <1>1, <1>2

-----------------------------------------------------------------------------
(***************************************************************************)
(* Saving                                                                  *)
(***************************************************************************)
\* Whoever has yet to write or read a path uses it.
LEMMA UsesPath ==
    ASSUME TypeOK, NEW q \in Proc, NEW f,
           Among(proc[q].saves, f) \/ Among(proc[q].loads, f)
    PROVE  Uses(q, f)
<1> DEFINE s == proc[q].saves
           t == proc[q].loads
<1>1. s \in Seq(Path) /\ t \in Seq(Path)
  BY DEF TypeOK, Process
<1>2. Among(s, f) \/ Among(t, f)
  OBVIOUS
<1>3. Uses(q, f) <=> \E i \in 1..Len(s \o t) : (s \o t)[i] = f
  BY DEF Uses
<1> HIDE DEF s, t
<1>4. Len(s) \in Nat /\ Len(t) \in Nat
  BY <1>1, LenProperties
<1>5. /\ Len(s \o t) = Len(s) + Len(t)
      /\ \A i \in 1 .. Len(s) + Len(t) : (s \o t)[i] = IF i <= Len(s) THEN s[i] ELSE t[i - Len(s)]
  BY <1>1, ConcatProperties
<1>6. CASE Among(s, f)
  <2>1. PICK i \in 1..Len(s) : s[i] = f
    BY <1>6 DEF Among
  <2>2. i \in 1 .. Len(s) + Len(t) /\ i <= Len(s)
    BY <1>4
  <2> QED
    BY <1>3, <1>5, <2>1, <2>2
<1>7. CASE Among(t, f)
  <2>1. PICK i \in 1..Len(t) : t[i] = f
    BY <1>7 DEF Among
  <2>2. /\ Len(s) + i \in 1 .. Len(s) + Len(t)
        /\ ~(Len(s) + i <= Len(s))
        /\ Len(s) + i - Len(s) = i
    BY <1>4
  <2>3. (s \o t)[Len(s) + i] = f
    BY <1>5, <2>1, <2>2
  <2> QED
    BY <1>3, <1>5, <2>2, <2>3
<1> QED
  BY <1>2, <1>6, <1>7

\* The path that is written next is one of those to be saved.
LEMMA NextSaved ==
    ASSUME NEW h \in Process, Shape(h), h.phase \in Saving
    PROVE  /\ h.saves # <<>> /\ h.saves \in Seq(Path)
           /\ Head(h.saves) \in Path /\ Head(h.saves) = h.saves[1]
           /\ Among(h.saves, Head(h.saves))
<1>1. h.saves \in Seq(Path) /\ h.saves # <<>>
  BY DEF Process, Shape
<1>2. Len(h.saves) \in Nat \ {0}
  BY <1>1, EmptySeq
<1>3. 1 \in 1..Len(h.saves) /\ Head(h.saves) = h.saves[1]
  BY <1>1, <1>2
<1>4. h.saves[1] \in Path
  BY <1>1, <1>3, ElementOfSeq
<1> QED
  BY <1>1, <1>3, <1>4 DEF Among

\* Of a process that does not use a path nothing changes when it is truncated,
\* and of one that does only that it is not alone any more.
LEMMA Bystanders ==
    ASSUME IInv, NEW p \in Proc, Truncate(p), NEW q \in Proc, q # p
    PROVE  /\ proc'[q] = IF Uses(q, Head(proc[p].saves))
                         THEN [proc[q] EXCEPT !.alone = FALSE] ELSE proc[q]
           /\ (Shape(proc[q]) /\ Follows(proc[q]) /\ Known(proc[q]) /\ Kept(proc[q]))'
<1> DEFINE f == Head(proc[p].saves)
           h == proc[q]
<1>1. h \in Process /\ Shape(h) /\ Follows(h) /\ Known(h) /\ Kept(h) /\ TypeOK
  BY Sound DEF IInv
<1>2. proc'[q] = IF Uses(q, f) THEN [h EXCEPT !.alone = FALSE] ELSE h
  BY DEF Truncate
<1>3. /\ data' = [data EXCEPT ![f] = Torn] /\ data \in [Path -> Data \union {NoFile, Torn}]
      /\ side' = side /\ quiet' = quiet \ {f}
  BY <1>1 DEF Truncate, TypeOK
<1> HIDE DEF f
<1>4. CASE Uses(q, f)
  <2> DEFINE k == [h EXCEPT !.alone = FALSE]
  <2>1. /\ ~k.alone /\ k.phase = h.phase /\ k.job = h.job /\ k.saves = h.saves
        /\ k.loads = h.loads /\ k.text = h.text /\ k.query = h.query /\ k.cache = h.cache
        /\ k.snapshot = h.snapshot /\ k.made = h.made /\ k.whole = h.whole
        /\ k.quant = h.quant /\ k.dtype = h.dtype
    BY <1>1 DEF Process
  <2>2. proc'[q] = k
    BY <1>2, <1>4
  <2> HIDE DEF k
  <2>3. Shape(proc[q])'
    BY <1>1, <2>1, <2>2 DEF Shape, Plan
  <2>4. Follows(proc[q])'
    BY <1>1, <2>1, <2>2 DEF Follows, Last
  <2>5. Known(proc[q])' /\ Kept(proc[q])'
    BY <2>1, <2>2 DEF Known, Kept
  <2> QED
    BY <1>2, <2>3, <2>4, <2>5 DEF f
<1>5. CASE ~Uses(q, f)
  <2>1. proc'[q] = h
    BY <1>2, <1>5
  <2>2. ~Among(h.saves, f) /\ ~Among(h.loads, f)
    BY <1>1, <1>5, UsesPath
  <2>3. Shape(proc[q])' /\ Follows(proc[q])'
    BY <1>1, <2>1 DEF Shape, Plan, Follows, Last
  <2>4. \A i \in 1..Len(h.loads) : h.loads[i] # f
    BY <2>2 DEF Among
  <2>5. h.loads # <<>> => Head(h.loads) # f /\ Head(h.loads) \in Path
    BY <1>1, <2>4, First
  <2>6. h.phase \in {"loadSide", "hash", "put", "uploaded"} => h.loads # <<>>
    BY <1>1 DEF Shape, Sharing
  <2>7. Known(proc[q])'
    BY <1>1, <1>3, <2>1, <2>4, <2>5, <2>6 DEF Known, Foreseen, Last, Among, ContextOf
  <2>8. h.phase \in {"truncateSide", "fillSide"} =>
           Head(h.saves) # f /\ Head(h.saves) \in Path
    BY <1>1, <2>2, NextSaved DEF Saving
  <2>9. Kept(proc[q])'
    BY <1>1, <1>3, <2>1, <2>8 DEF Kept
  <2> QED
    BY <1>2, <2>3, <2>7, <2>9 DEF f
<1> QED
  BY <1>4, <1>5

\* A file is truncated.
LEMMA TruncateStep ==
    ASSUME IInv, NEW p \in Proc, Truncate(p)
    PROVE  IInv'
<1> DEFINE f == Head(proc[p].saves)
           clash == \E q \in Proc \ {p} : Writing(q, f)
           h == [proc[p] EXCEPT !.phase = "fill", !.alone = @ /\ ~clash]
<1>1. /\ proc[p] \in Process /\ Shape(proc[p]) /\ Known(proc[p])
      /\ proc[p].phase = "truncate" /\ proc[p].phase \in Saving
  BY Sound DEF Truncate, Saving
<1>2. f \in Path /\ Among(proc[p].saves, f)
  BY <1>1, NextSaved
<1>3. /\ data' = [data EXCEPT ![f] = Torn] /\ data \in [Path -> Data \union {NoFile, Torn}]
      /\ side' = side /\ quiet' = quiet \ {f} /\ UNCHANGED <<begun, kills, failed>>
  BY DEF Truncate, IInv, TypeOK
<1>4. proc'[p] = h
  BY DEF Truncate
<1>5. proc[p].alone \in BOOLEAN /\ clash \in BOOLEAN
  BY <1>1 DEF Process
<1>6. clash <=> \E q \in Proc \ {p} : Writes(proc[q], f)
  BY DEF Writing, Writes
<1> HIDE DEF clash
<1>7. (proc[p].alone /\ ~clash) \in BOOLEAN
  OBVIOUS
<1>8. /\ h \in Process /\ h.phase = "fill" /\ h.job = proc[p].job
      /\ h.saves = proc[p].saves /\ h.loads = proc[p].loads /\ h.text = proc[p].text
      /\ h.query = proc[p].query /\ h.cache = proc[p].cache /\ h.whole = proc[p].whole
      /\ h.quant = proc[p].quant /\ h.dtype = proc[p].dtype
      /\ (h.alone => proc[p].alone /\ ~clash)
  BY <1>1, <1>7 DEF Process, Phase
<1> HIDE DEF h
<1>9. f = Head(proc[p].saves)
  OBVIOUS
<1>10. ASSUME NEW q \in Proc, q # p
       PROVE  /\ proc'[q] \in Process
              /\ proc'[q].phase = proc[q].phase /\ proc'[q].saves = proc[q].saves
              /\ proc'[q].alone => proc[q].alone /\ ~Uses(q, f)
  <2>1. proc[q] \in Process
    BY Sound
  <2>2. proc'[q] = IF Uses(q, f) THEN [proc[q] EXCEPT !.alone = FALSE] ELSE proc[q]
    BY <1>9, <1>10, Bystanders
  <2> QED
    BY <2>1, <2>2 DEF Process
<1>11. TypeOK'
  <2>1. proc' \in [Proc -> Process]
    <3>1. \A q \in Proc : proc'[q] \in Process
      BY <1>4, <1>8, <1>10
    <3> QED
      BY <3>1 DEF Truncate
  <2> QED
    BY <1>3, <2>1 DEF IInv, TypeOK
<1> HIDE DEF f
<1>12. UndisturbedSucceeds' /\ FilesExact'
  BY <1>3 DEF IInv, UndisturbedSucceeds, FilesExact
<1>13. \A g : Writes(proc'[p], g) => g = f
  BY <1>4, <1>8, <1>9 DEF Writes
<1>14. \A q \in Proc, g \in Path : q # p => (Writes(proc'[q], g) <=> Writes(proc[q], g))
  BY <1>10 DEF Writes
<1>15. QuietFiles'
  <2> SUFFICES ASSUME NEW g \in quiet, g # f
               PROVE  /\ data'[g] \notin {NoFile, Torn}
                      /\ side'[g] \notin {NoFile, Torn}
                      /\ Agrees(data'[g], side'[g])
                      /\ \A q \in Proc : ~Writes(proc'[q], g)
    BY <1>3 DEF QuietFiles, Writes
  <2>1. g \in Path /\ data'[g] = data[g] /\ side'[g] = side[g]
    BY <1>3 DEF IInv, TypeOK
  <2> QED
    BY <1>13, <1>14, <2>1 DEF IInv, QuietFiles
<1>16. LoneWriters'
  <2> SUFFICES ASSUME NEW x \in Proc, NEW y \in Proc, NEW g \in Path, x # y,
                      proc'[x].alone, Writes(proc'[x], g), Writes(proc'[y], g)
               PROVE  FALSE
    BY DEF LoneWriters, Writes
  <2>1. CASE x = p
    BY <1>4, <1>6, <1>8, <1>13, <1>14, <2>1
  <2>2. CASE x # p /\ y = p
    <3>1. g = f /\ Writes(proc[x], f)
      BY <1>13, <1>14, <2>2
    <3>2. Among(proc[x].saves, f)
      BY <3>1, Sound, NextSaved DEF Writes, Saving
    <3>3. Uses(x, f)
      BY <3>2, UsesPath DEF IInv
    <3> QED
      BY <1>10, <2>2, <3>3
  <2>3. CASE x # p /\ y # p
    BY <1>10, <1>14, <2>3 DEF IInv, LoneWriters
  <2> QED
    BY <2>1, <2>2, <2>3
<1>17. (Shape(proc[p]) /\ Follows(proc[p]) /\ Known(proc[p]) /\ Kept(proc[p]))'
  <2>1. Shape(proc[p])'
    BY <1>1, <1>4, <1>8 DEF Shape, Plan, Saving, Sharing
  <2>2. Follows(proc[p])' /\ Kept(proc[p])'
    BY <1>4, <1>8 DEF Follows, Kept
  <2>3. Known(proc[p])'
    BY <1>1, <1>2, <1>3, <1>4, <1>8 DEF Known, Foreseen, Last, Among, ContextOf
  <2> QED
    BY <2>1, <2>2, <2>3
<1>18. \A q \in Proc : (Shape(proc[q]) /\ Follows(proc[q]) /\ Known(proc[q]) /\ Kept(proc[q]))'
  BY <1>17, Bystanders
<1> QED
  BY <1>11, <1>12, <1>15, <1>16, <1>18 DEF IInv, Procs

\* The process that is writing at f goes on, and changes nothing but the files
\* at f; if f is quiet then, it has ended an undisturbed save.
LEMMA WriterStep ==
    ASSUME IInv, NEW p \in Proc, NEW f \in Path, Writes(proc[p], f), NEW h \in Process,
           proc' = [proc EXCEPT ![p] = h],
           UNCHANGED <<begun, kills, failed>>,
           data' \in [Path -> Data \union {NoFile, Torn}],
           side' \in [Path -> Sidecar \union {NoFile, Torn}],
           \A g \in Path : g # f => data'[g] = data[g] /\ side'[g] = side[g],
           data'[f] \notin {NoFile, Torn} => Proper(data'[f]),
           quiet' \in {quiet, quiet \union {f}},
           f \in quiet' =>
              /\ proc[p].alone /\ ~Writes(h, f)
              /\ data'[f] \notin {NoFile, Torn}
              /\ side'[f] \notin {NoFile, Torn}
              /\ Agrees(data'[f], side'[f]),
           \A g : Writes(h, g) => g = f /\ h.alone = proc[p].alone,
           Shape(h), Follows(h), Known(h)', Kept(h)'
    PROVE  IInv'
<1>1. /\ proc' \in [Proc -> Process]
      /\ proc'[p] = h
      /\ \A q \in Proc \ {p} : proc'[q] = proc[q]
  BY DEF IInv, TypeOK
<1>2. TypeOK'
  BY <1>1 DEF IInv, TypeOK
<1>3. UndisturbedSucceeds' /\ FilesExact'
  BY DEF IInv, UndisturbedSucceeds, FilesExact
<1>4. f \notin quiet
  BY DEF IInv, QuietFiles
<1>5. \A q \in Proc, g \in Path : Writes(proc'[q], g) => Writes(proc[q], g)
  BY <1>1
<1>6. QuietFiles'
  <2> SUFFICES ASSUME NEW g \in quiet'
               PROVE  /\ data'[g] \notin {NoFile, Torn}
                      /\ side'[g] \notin {NoFile, Torn}
                      /\ Agrees(data'[g], side'[g])
                      /\ \A q \in Proc : ~Writes(proc'[q], g)
    BY DEF QuietFiles, Writes
  <2>1. CASE g = f
    <3>1. \A q \in Proc \ {p} : ~Writes(proc[q], f)
      BY <2>1 DEF IInv, LoneWriters
    <3> QED
      BY <1>1, <2>1, <3>1
  <2>2. CASE g # f
    <3>1. g \in quiet /\ g \in Path
      BY <2>2 DEF IInv, TypeOK
    <3>2. data'[g] = data[g] /\ side'[g] = side[g]
      BY <2>2, <3>1
    <3> QED
      BY <1>5, <3>1, <3>2 DEF IInv, QuietFiles
  <2> QED
    BY <2>1, <2>2
<1>7. LoneWriters'
  <2> SUFFICES ASSUME NEW x \in Proc, NEW y \in Proc, NEW g \in Path, x # y,
                      proc'[x].alone, Writes(proc'[x], g), Writes(proc'[y], g)
               PROVE  FALSE
    BY DEF LoneWriters, Writes
  <2>1. Writes(proc[x], g) /\ Writes(proc[y], g)
    BY <1>5
  <2>2. proc[x].alone
    BY <1>1
  <2> QED
    BY <2>1, <2>2 DEF IInv, LoneWriters
<1>8. ASSUME NEW q \in Proc, q # p
      PROVE  (Shape(proc[q]) /\ Follows(proc[q]) /\ Known(proc[q]) /\ Kept(proc[q]))'
  <2>1. /\ proc[q] \in Process /\ Shape(proc[q]) /\ Follows(proc[q])
        /\ Known(proc[q]) /\ Kept(proc[q])
    BY Sound
  <2>2. proc'[q] = proc[q]
    BY <1>1, <1>8
  <2>3. Shape(proc[q])' /\ Follows(proc[q])'
    BY <2>1, <2>2 DEF Shape, Plan, Follows, Last
  <2>4. \A g \in quiet : g \in quiet' /\ data'[g] = data[g] /\ side'[g] = side[g]
    BY <1>4 DEF IInv, TypeOK
  <2>5. proc[q].alone /\ proc[q].phase \in {"loadSide", "hash", "put", "uploaded"} =>
           Head(proc[q].loads) \in quiet
    <3>1. proc[q].phase \in {"loadSide", "hash", "put", "uploaded"} =>
             proc[q].loads # <<>> /\ proc[q].saves = <<>>
      BY <2>1 DEF Shape, Saving, Sharing
    <3> QED
      BY <3>1, Reads
  <2>6. Known(proc[q])'
    <3>1. ASSUME proc[q].alone, NEW i \in 1..Len(proc[q].loads),
                 ~Among(proc[q].saves, proc[q].loads[i])
          PROVE  /\ proc[q].loads[i] \in quiet'
                 /\ side'[proc[q].loads[i]] = side[proc[q].loads[i]]
                 /\ proc[q].whole /\ proc[q].job \notin {"infer", "upload"} =>
                       Foreseen(proc[q], i)
      BY <2>1, <2>4, <3>1 DEF Known
    <3>2. ASSUME proc[q].alone, NEW i \in 1..Len(proc[q].loads),
                 ~Among(proc[q].saves, proc[q].loads[i])
          PROVE  /\ proc[q].loads[i] \in quiet'
                 /\ proc[q].whole /\ proc[q].job \notin {"infer", "upload"} =>
                       Foreseen(proc[q], i)'
      BY <2>2, <3>1, <3>2 DEF Foreseen, Last, ContextOf
    <3> QED
      BY <2>1, <2>2, <2>4, <2>5, <3>2 DEF Known, Among
  <2>7. ASSUME proc[q].alone, proc[q].phase \in {"truncateSide", "fillSide"}
        PROVE  data'[Head(proc[q].saves)] = data[Head(proc[q].saves)]
    <3>1. Head(proc[q].saves) \in Path /\ Writes(proc[q], Head(proc[q].saves))
      BY <2>1, <2>7, NextSaved DEF Saving, Writes
    <3>2. Head(proc[q].saves) # f
      BY <1>8, <2>7, <3>1 DEF IInv, LoneWriters
    <3> QED
      BY <3>1, <3>2
  <2>8. Kept(proc[q])'
    BY <2>1, <2>2, <2>7 DEF Kept
  <2> QED
    BY <2>3, <2>6, <2>8
<1>9. (Shape(proc[p]) /\ Follows(proc[p]) /\ Known(proc[p]) /\ Kept(proc[p]))'
  <2>1. Shape(proc[p])' /\ Follows(proc[p])'
    BY <1>1
  <2>2. Known(proc[p])'
    BY <1>1 DEF Known, Foreseen, Last, Among, ContextOf
  <2>3. Kept(proc[p])'
    BY <1>1 DEF Kept
  <2> QED
    BY <2>1, <2>2, <2>3
<1> QED
  BY <1>2, <1>3, <1>6, <1>7, <1>8, <1>9 DEF IInv, Procs

\* Where a process that writes does.
LEMMA Writer ==
    ASSUME IInv, NEW p \in Proc, proc[p].phase \in {"fill", "truncateSide", "fillSide"}
    PROVE  /\ proc[p] \in Process /\ Shape(proc[p]) /\ Known(proc[p]) /\ Kept(proc[p])
           /\ Head(proc[p].saves) \in Path /\ Writes(proc[p], Head(proc[p].saves))
           /\ Head(proc[p].saves) \notin quiet
           /\ Holds(proc[p].cache, proc[p].text, proc[p].quant)
<1>1. proc[p] \in Process /\ Shape(proc[p]) /\ Known(proc[p]) /\ Kept(proc[p])
  BY Sound
<1>2. Head(proc[p].saves) \in Path /\ Writes(proc[p], Head(proc[p].saves))
  BY <1>1, NextSaved DEF Saving, Writes
<1>3. Head(proc[p].saves) \notin quiet
  BY <1>2 DEF IInv, QuietFiles
<1>4. Holds(proc[p].cache, proc[p].text, proc[p].quant)
  BY <1>1 DEF Shape, Saving
<1> QED
  BY <1>1, <1>2, <1>3, <1>4

\* The tensors are written.
LEMMA FillStep ==
    ASSUME IInv, NEW p \in Proc, Fill(p)
    PROVE  IInv'
<1> DEFINE f == Head(proc[p].saves)
           d == [cache |-> proc[p].cache, quant |-> proc[p].quant]
<1>1. proc[p].phase = "fill"
  BY DEF Fill
<1>2. /\ proc[p] \in Process /\ Shape(proc[p]) /\ Known(proc[p])
      /\ f \in Path /\ Writes(proc[p], f) /\ f \notin quiet
      /\ Holds(proc[p].cache, proc[p].text, proc[p].quant)
  BY <1>1, Writer
<1>3. d \in Data /\ Proper(d)
  BY <1>2 DEF Data, Process, Holds, Proper
<1>4. data' = [data EXCEPT ![f] = d]
  BY DEF Fill
<1>5. /\ UNCHANGED <<side, begun, kills, quiet, failed>>
      /\ proc' = [proc EXCEPT ![p] = IF proc[p].job = "download" THEN Idle
                                     ELSE [proc[p] EXCEPT !.phase = "truncateSide"]]
  BY DEF Fill, Go
<1>6. d = [cache |-> proc[p].cache, quant |-> proc[p].quant] /\ f = Head(proc[p].saves)
  OBVIOUS
<1> HIDE DEF d, f
<1>7. /\ data' \in [Path -> Data \union {NoFile, Torn}]
      /\ side' \in [Path -> Sidecar \union {NoFile, Torn}]
      /\ data'[f] = d
      /\ \A g \in Path : g # f => data'[g] = data[g] /\ side'[g] = side[g]
  BY <1>2, <1>3, <1>4, <1>5 DEF IInv, TypeOK
<1>8. CASE proc[p].job = "download"
  <2>1. PICK h \in Process : h = Idle
    BY IdleSound
  <2>2. proc' = [proc EXCEPT ![p] = h]
    BY <1>5, <1>8, <2>1
  <2>3. h \in Process /\ Shape(h) /\ Follows(h) /\ Known(h) /\ Quiescent(h)
    BY <2>1, IdleSound
  <2>4. \A g : ~Writes(h, g)
    BY <2>3 DEF Quiescent, Writes
  <2>5. h.loads = <<>> /\ h.phase = "idle"
    BY <2>1 DEF Idle, Command
  <2>6. Known(h)' /\ Kept(h)'
    <3>1. Len(<<>>) = 0
      BY EmptySeq
    <3> QED
      BY <2>5, <3>1 DEF Known, Kept
  <2> QED
    BY <1>2, <1>3, <1>5, <1>7, <2>2, <2>3, <2>4, <2>6, WriterStep
<1>9. CASE proc[p].job # "download"
  <2>1. PICK h \in Process : h = [proc[p] EXCEPT !.phase = "truncateSide"]
    BY <1>2 DEF Process, Phase
  <2>2. proc' = [proc EXCEPT ![p] = h]
    BY <1>5, <1>9, <2>1
  <2>3. /\ h \in Process /\ h.phase = "truncateSide" /\ h.job = proc[p].job
        /\ h.saves = proc[p].saves /\ h.loads = proc[p].loads /\ h.text = proc[p].text
        /\ h.query = proc[p].query /\ h.cache = proc[p].cache /\ h.quant = proc[p].quant
        /\ h.whole = proc[p].whole /\ h.alone = proc[p].alone /\ h.dtype = proc[p].dtype
    BY <1>2, <2>1 DEF Process, Phase
  <2>4. \A g : Writes(h, g) => g = f /\ h.alone = proc[p].alone
    BY <1>6, <2>3 DEF Writes
  <2>5. Shape(h)
    BY <1>1, <1>2, <1>9, <2>3 DEF Shape, Plan, Saving, Sharing
  <2>6. Follows(h)
    BY <2>3 DEF Follows
  <2>7. Known(h)'
    BY <1>1, <1>2, <1>5, <2>3 DEF Known, Foreseen, Last, Among, ContextOf
  <2>8. Kept(h)'
    BY <1>6, <1>7, <2>3 DEF Kept
  <2> QED
    BY <1>2, <1>3, <1>5, <1>7, <2>2, <2>3, <2>4, <2>5, <2>6, <2>7, <2>8, WriterStep
<1> QED
  BY <1>8, <1>9

\* The sidecar is truncated.
LEMMA TruncateSideStep ==
    ASSUME IInv, NEW p \in Proc, TruncateSide(p)
    PROVE  IInv'
<1> DEFINE f == Head(proc[p].saves)
<1>1. proc[p].phase = "truncateSide"
  BY DEF TruncateSide
<1>2. /\ proc[p] \in Process /\ Shape(proc[p]) /\ Known(proc[p]) /\ Kept(proc[p])
      /\ f \in Path /\ Writes(proc[p], f) /\ f \notin quiet
  BY <1>1, Writer
<1>3. side' = [side EXCEPT ![f] = Torn] /\ UNCHANGED <<data, begun, kills, quiet, failed>>
      /\ proc' = [proc EXCEPT ![p] = [proc[p] EXCEPT !.phase = "fillSide"]]
  BY DEF TruncateSide, Go
<1>4. f = Head(proc[p].saves)
  OBVIOUS
<1> HIDE DEF f
<1>5. /\ data' \in [Path -> Data \union {NoFile, Torn}]
      /\ side' \in [Path -> Sidecar \union {NoFile, Torn}]
      /\ \A g \in Path : g # f => data'[g] = data[g] /\ side'[g] = side[g]
  BY <1>3 DEF IInv, TypeOK
<1>6. data'[f] \notin {NoFile, Torn} => Proper(data'[f])
  BY <1>2, <1>3 DEF IInv, FilesExact
<1>7. PICK h \in Process : h = [proc[p] EXCEPT !.phase = "fillSide"]
  BY <1>2 DEF Process, Phase
<1>8. proc' = [proc EXCEPT ![p] = h]
  BY <1>3, <1>7
<1>9. /\ h \in Process /\ h.phase = "fillSide" /\ h.job = proc[p].job
      /\ h.saves = proc[p].saves /\ h.loads = proc[p].loads /\ h.text = proc[p].text
      /\ h.query = proc[p].query /\ h.cache = proc[p].cache /\ h.quant = proc[p].quant
      /\ h.whole = proc[p].whole /\ h.alone = proc[p].alone /\ h.dtype = proc[p].dtype
  BY <1>2, <1>7 DEF Process, Phase
<1>10. \A g : Writes(h, g) => g = f /\ h.alone = proc[p].alone
  BY <1>4, <1>9 DEF Writes
<1>11. Shape(h)
  BY <1>1, <1>2, <1>9 DEF Shape, Plan, Saving, Sharing
<1>12. Follows(h)
  BY <1>9 DEF Follows
<1>13. Known(h)'
  <2>1. \A i \in 1..Len(proc[p].loads) :
           proc[p].alone /\ ~Among(proc[p].saves, proc[p].loads[i]) =>
              /\ proc[p].loads[i] \in quiet
              /\ side'[proc[p].loads[i]] = side[proc[p].loads[i]]
    BY <1>2, <1>3, <1>5 DEF Known, IInv, TypeOK
  <2> QED
    BY <1>1, <1>2, <1>3, <1>9, <2>1 DEF Known, Foreseen, Last, Among, ContextOf
<1>14. Kept(h)'
  BY <1>1, <1>2, <1>3, <1>9 DEF Kept
<1> QED
  BY <1>2, <1>3, <1>5, <1>6, <1>8, <1>9, <1>10, <1>11, <1>12, <1>13, <1>14, WriterStep

\* The paths that are still to be saved after the first one.
LEMMA RestSaved ==
    ASSUME NEW h \in Process, Shape(h), h.phase \in Saving
    PROVE  /\ Tail(h.saves) \in Seq(Path)
           /\ Len(h.saves) > 1 => Tail(h.saves) # <<>>
           /\ \A e : Among(h.saves, e) =>
                 e = Head(h.saves) \/ (Len(h.saves) > 1 /\ Among(Tail(h.saves), e))
<1>1. h.saves # <<>> /\ h.saves \in Seq(Path) /\ Head(h.saves) = h.saves[1]
  BY NextSaved
<1> DEFINE s == h.saves
<1>2. /\ Tail(s) \in Seq(Path) /\ Len(Tail(s)) = Len(s) - 1 /\ Len(s) \in Nat
      /\ \A i \in 1..Len(Tail(s)) : Tail(s)[i] = s[i + 1]
  BY <1>1, HeadTailProperties, LenProperties
<1>3. Len(s) > 1 => Tail(s) # <<>>
  <2>1. Tail(s) = <<>> => Len(Tail(s)) = 0
    BY EmptySeq
  <2>2. \A m, n \in Nat : m = n - 1 /\ n > 1 => m # 0
    OBVIOUS
  <2>3. Len(Tail(s)) \in Nat
    BY <1>2, LenProperties
  <2> QED
    BY <1>2, <2>1, <2>2, <2>3
<1>4. ASSUME NEW e, Among(s, e), e # s[1]
      PROVE  Len(s) > 1 /\ Among(Tail(s), e)
  <2>1. PICK i \in 1..Len(s) : s[i] = e
    BY <1>4 DEF Among
  <2>2. i # 1
    BY <1>4, <2>1
  <2>3. Len(s) > 1 /\ i - 1 \in 1..Len(s) - 1 /\ i - 1 + 1 = i
    BY <1>2, <2>2
  <2>4. i - 1 \in 1..Len(Tail(s))
    BY <1>2, <2>3
  <2>5. Tail(s)[i - 1] = e
    BY <1>2, <2>1, <2>3, <2>4
  <2> QED
    BY <2>3, <2>4, <2>5 DEF Among
<1> QED
  BY <1>1, <1>2, <1>3, <1>4

\* quant's second artifact is the quantized one.
LEMMA Planned ==
    ASSUME NEW h \in Process, Plan(h), h.job \in {"verify", "quant"}
    PROVE  /\ h.whole => \A i \in 1..Len(h.loads) :
                 h.loads[i] = Head(h.saves) => (h.quant <=> Last(h, i))
           /\ Len(h.saves) > 1 =>
                 /\ h.job = "quant"
                 /\ \E f, g \in Path : /\ h.loads = <<f, g>> /\ (h.whole => f # g)
                                      /\ Tail(h.saves) = <<g>>
<1>1. CASE h.job = "verify"
  <2>1. PICK f \in Path : h.loads = <<f>> /\ h.saves = <<f>> /\ ~h.quant
    BY <1>1 DEF Plan
  <2>2. Len(h.saves) = 1
    BY <2>1, Paths
  <2> QED
    BY <1>1, <2>1, <2>2 DEF Last
<1>2. CASE h.job = "quant"
  <2>1. PICK f \in Path, g \in Path :
           /\ h.loads = <<f, g>> /\ (h.whole => f # g)
           /\ (h.saves = <<f, g>> /\ ~h.quant) \/ (h.saves = <<g>> /\ h.quant)
    BY <1>2 DEF Plan
  <2>2. ASSUME h.whole, NEW i \in 1..Len(h.loads), h.loads[i] = Head(h.saves)
        PROVE  h.quant <=> Last(h, i)
    <3>1. Len(h.loads) = 2 /\ h.loads[1] = f /\ h.loads[2] = g /\ f # g /\ i \in {1, 2}
      BY <2>1, <2>2, Paths
    <3>2. Last(h, i) <=> i = 2
      BY <1>2, <3>1 DEF Last
    <3>3. Head(h.saves) = IF h.quant THEN g ELSE f
      BY <2>1, Paths
    <3> QED
      BY <2>2, <3>1, <3>2, <3>3
  <2>3. Len(h.saves) > 1 => Tail(h.saves) = <<g>>
    <3>1. Tail(<<f, g>>) = <<g>> /\ Len(<<g>>) = 1
      OBVIOUS
    <3>2. CASE h.saves = <<f, g>>
      BY <3>1, <3>2, Zenon
    <3>3. CASE h.saves = <<g>>
      <4>1. Len(h.saves) = 1
        BY <3>1, <3>3, Zenon
      <4> QED
        BY <4>1
    <3> QED
      BY <2>1, <3>2, <3>3, Zenon
  <2> QED
    BY <1>2, <2>1, <2>2, <2>3
<1> QED
  BY <1>1, <1>2

\* What comes after a saved artifact is sound, once the path it is at is quiet.
LEMMA NextSound ==
    ASSUME IInv, NEW p \in Proc, proc[p].phase = "fillSide", NEW h \in Process,
           h \in AfterSave(proc[p]), quiet \subseteq quiet',
           \A g \in quiet : side'[g] = side[g],
           proc[p].alone => /\ Head(proc[p].saves) \in quiet'
                            /\ side'[Head(proc[p].saves)] = Describes(proc[p])
    PROVE  Quiescent(h) /\ Shape(h) /\ Follows(h) /\ Known(h)' /\ Kept(h)'
<1> DEFINE f == Head(proc[p].saves)
<1>1. /\ proc[p] \in Process /\ Shape(proc[p]) /\ Known(proc[p]) /\ proc[p].phase \in Saving
      /\ Holds(proc[p].cache, proc[p].text, proc[p].quant)
  BY Writer DEF Saving
<1>2. /\ proc[p].job \in {"verify", "quant"} /\ proc[p].loads # <<>> /\ proc[p].saves # <<>>
      /\ (proc[p].job = "verify" => proc[p].whole /\ proc[p].dtype = F16)
      /\ proc[p].query # <<>> /\ Plan(proc[p])
  BY <1>1 DEF Shape, Saving
<1>3. ASSUME proc[p].alone, NEW i \in 1..Len(proc[p].loads),
             ~(Len(proc[p].saves) > 1 /\ Among(Tail(proc[p].saves), proc[p].loads[i]))
      PROVE  /\ proc[p].loads[i] \in quiet'
             /\ proc[p].whole =>
                   /\ side'[proc[p].loads[i]].tokens = proc[p].text
                   /\ side'[proc[p].loads[i]].quant <=> Last(proc[p], i)
                   /\ proc[p].job = "verify" => side'[proc[p].loads[i]].dtype = F16
  <2>1. CASE proc[p].loads[i] = f
    <3>1. f \in quiet' /\ side'[f] = Describes(proc[p])
      BY <1>3
    <3>2. /\ side'[f].tokens = proc[p].text /\ side'[f].quant = proc[p].quant
          /\ ~proc[p].quant => side'[f].dtype = proc[p].cache.dtype
      BY <3>1 DEF Describes
    <3>3. proc[p].job = "verify" => ~proc[p].quant /\ proc[p].cache.dtype = F16
      BY <1>2 DEF Plan
    <3>4. proc[p].whole => (proc[p].quant <=> Last(proc[p], i))
      BY <1>1, <1>2, <2>1, Planned
    <3> QED
      BY <2>1, <3>1, <3>2, <3>3, <3>4
  <2>2. CASE proc[p].loads[i] # f
    <3>1. ~Among(proc[p].saves, proc[p].loads[i])
      BY <1>1, <1>3, <2>2, RestSaved
    <3>2. ContextOf(proc[p]) = proc[p].text
      BY DEF ContextOf
    <3>3. /\ proc[p].loads[i] \in quiet
          /\ proc[p].whole => Foreseen(proc[p], i)
      BY <1>1, <1>2, <1>3, <3>1 DEF Known
    <3> QED
      BY <1>2, <3>2, <3>3 DEF Foreseen
  <2> QED
    BY <2>1, <2>2
<1>4. ASSUME h.loads = proc[p].loads, h.job = proc[p].job, h.text = proc[p].text,
             h.whole = proc[p].whole, h.alone => proc[p].alone,
             h.phase \in {"truncate", "loadData"},
             \A e : Len(proc[p].saves) > 1 /\ Among(Tail(proc[p].saves), e) => Among(h.saves, e)
      PROVE  Known(h)'
  <2>1. ASSUME h.alone, NEW i \in 1..Len(h.loads), ~Among(h.saves, h.loads[i])
        PROVE  /\ h.loads[i] \in quiet'
               /\ h.whole => Foreseen(h, i)'
    <3>1. /\ h.loads[i] \in quiet'
          /\ h.whole =>
                /\ side'[h.loads[i]].tokens = h.text
                /\ side'[h.loads[i]].quant <=> Last(h, i)
                /\ h.job = "verify" => side'[h.loads[i]].dtype = F16
      BY <1>3, <1>4, <2>1 DEF Last
    <3> QED
      BY <1>4, <3>1 DEF Foreseen, Last, ContextOf
  <2> QED
    BY <1>4, <2>1 DEF Known, Among
<1>5. CASE Len(proc[p].saves) > 1
            /\ h = [proc[p] EXCEPT !.phase = "truncate", !.saves = Tail(@), !.quant = TRUE,
                                   !.cache = Quantized(@)]
  <2>1. /\ h.phase = "truncate" /\ h.job = proc[p].job /\ h.saves = Tail(proc[p].saves)
        /\ h.loads = proc[p].loads /\ h.text = proc[p].text /\ h.query = proc[p].query
        /\ h.cache = Quantized(proc[p].cache) /\ h.whole = proc[p].whole
        /\ h.alone = proc[p].alone /\ h.quant = TRUE /\ h.dtype = proc[p].dtype
    BY <1>1, <1>5 DEF Process
  <2>2. h.saves # <<>>
    BY <1>1, <1>5, <2>1, RestSaved
  <2>3. Quiescent(h) /\ Follows(h) /\ Kept(h)'
    BY <2>1 DEF Quiescent, Follows, Kept
  <2>4. Holds(h.cache, h.text, h.quant)
    <3>1. proc[p].cache \in Cache
      BY <1>1 DEF Process
    <3> QED
      BY <1>1, <2>1, <3>1, QuantizedType
  <2>5. Plan(h)
    <3>1. proc[p].job = "quant"
      BY <1>1, <1>2, <1>5, Planned
    <3>2. PICK x \in Path, y \in Path :
             /\ proc[p].loads = <<x, y>> /\ (proc[p].whole => x # y)
             /\ Tail(proc[p].saves) = <<y>>
      BY <1>1, <1>2, <1>5, Planned
    <3>3. h.loads = <<x, y>> /\ (h.whole => x # y) /\ h.saves = <<y>> /\ h.quant
      BY <2>1, <3>2
    <3> QED
      BY <2>1, <3>1, <3>3, Zenon DEF Plan
  <2>6. Shape(h)
    BY <1>1, <1>2, <2>1, <2>2, <2>4, <2>5 DEF Shape, Saving, Sharing
  <2>7. Known(h)'
    BY <1>4, <2>1
  <2> QED
    BY <2>3, <2>6, <2>7
<1>6. CASE ~(Len(proc[p].saves) > 1)
            /\ h = [proc[p] EXCEPT !.phase = "loadData", !.saves = <<>>, !.quant = FALSE,
                                   !.cache = Empty]
  <2>1. /\ h.phase = "loadData" /\ h.job = proc[p].job /\ h.saves = <<>>
        /\ h.loads = proc[p].loads /\ h.text = proc[p].text /\ h.query = proc[p].query
        /\ h.whole = proc[p].whole /\ h.alone = proc[p].alone /\ h.dtype = proc[p].dtype
    BY <1>1, <1>6 DEF Process
  <2>2. Quiescent(h) /\ Follows(h) /\ Kept(h)'
    BY <2>1 DEF Quiescent, Follows, Kept
  <2>3. Shape(h)
    BY <1>1, <1>2, <2>1 DEF Shape, Saving, Sharing
  <2>4. Known(h)'
    BY <1>4, <1>6, <2>1
  <2> QED
    BY <2>2, <2>3, <2>4
<1>7. CASE h = Idle
  <2>1. Quiescent(h) /\ Shape(h) /\ Follows(h)
    BY <1>7, IdleSound
  <2>2. h.loads = <<>> /\ h.phase = "idle" /\ Len(<<>>) = 0
    BY <1>7, EmptySeq DEF Idle, Command
  <2>3. Known(h)' /\ Kept(h)'
    BY <2>2 DEF Known, Kept
  <2> QED
    BY <2>1, <2>3
<1> QED
  BY <1>5, <1>6, <1>7 DEF AfterSave

\* The sidecar is written.
LEMMA FillSideStep ==
    ASSUME IInv, NEW p \in Proc, FillSide(p)
    PROVE  IInv'
<1> DEFINE f == Head(proc[p].saves)
           s == Describes(proc[p])
<1>1. proc[p].phase = "fillSide"
  BY DEF FillSide, FillSideWith
<1>2. /\ proc[p] \in Process /\ Shape(proc[p]) /\ Kept(proc[p])
      /\ f \in Path /\ Writes(proc[p], f) /\ f \notin quiet
      /\ Holds(proc[p].cache, proc[p].text, proc[p].quant)
  BY <1>1, Writer
<1>3. /\ side' = [side EXCEPT ![f] = s]
      /\ quiet' = IF proc[p].alone THEN quiet \union {f} ELSE quiet
      /\ UNCHANGED <<data, begun, kills, failed>>
  BY DEF FillSide, FillSideWith, Go
<1>4. PICK h \in AfterSave(proc[p]) : proc' = [proc EXCEPT ![p] = h]
  BY DEF FillSide, FillSideWith, Go
<1>5. /\ s \in Sidecar /\ s.tokens = proc[p].text /\ s.quant = proc[p].quant
      /\ s.quant \/ s.dtype = proc[p].cache.dtype
  BY <1>2 DEF Describes, Sidecar, Process, Cache
<1>6. f = Head(proc[p].saves) /\ s = Describes(proc[p])
  OBVIOUS
<1> HIDE DEF f, s
<1>7. h \in Process
  <2>1. Tail(proc[p].saves) \in Seq(Path) /\ <<>> \in Seq(Path)
    BY <1>1, <1>2, RestSaved, EmptySeq DEF Saving
  <2>2. [proc[p] EXCEPT !.phase = "truncate", !.saves = Tail(@), !.quant = TRUE,
                        !.cache = Quantized(@)] \in Process
    <3>1. proc[p].cache \in Cache
      BY <1>2 DEF Process
    <3>2. Quantized(proc[p].cache) \in Cache
      BY <1>2, <3>1, QuantizedType
    <3> QED
      BY <1>2, <2>1, <3>2 DEF Process, Phase
  <2>3. [proc[p] EXCEPT !.phase = "loadData", !.saves = <<>>, !.quant = FALSE,
                        !.cache = Empty] \in Process
    BY <1>2, <2>1, CommandTypes DEF Process, Phase
  <2> QED
    BY <2>2, <2>3, IdleSound DEF AfterSave
<1>8. /\ data' \in [Path -> Data \union {NoFile, Torn}]
      /\ side' \in [Path -> Sidecar \union {NoFile, Torn}]
      /\ side'[f] = s
      /\ \A g \in Path : g # f => data'[g] = data[g] /\ side'[g] = side[g]
  BY <1>2, <1>3, <1>5 DEF IInv, TypeOK
<1>9. data'[f] \notin {NoFile, Torn} => Proper(data'[f])
  BY <1>2, <1>3 DEF IInv, FilesExact
<1>10. quiet \subseteq quiet' /\ quiet' \in {quiet, quiet \union {f}}
  BY <1>3
<1>11. \A g \in quiet : side'[g] = side[g]
  BY <1>2, <1>8 DEF IInv, TypeOK
<1>12. /\ Quiescent(h) /\ Shape(h) /\ Follows(h) /\ Known(h)' /\ Kept(h)'
  BY <1>1, <1>3, <1>5, <1>6, <1>7, <1>8, <1>10, <1>11, NextSound
<1>13. \A g : ~Writes(h, g)
  BY <1>12 DEF Quiescent, Writes
<1>14. ASSUME f \in quiet'
       PROVE  /\ proc[p].alone
              /\ data'[f] \notin {NoFile, Torn}
              /\ side'[f] \notin {NoFile, Torn}
              /\ Agrees(data'[f], side'[f])
  <2>1. proc[p].alone
    BY <1>2, <1>3, <1>14
  <2>2. data[f] = [cache |-> proc[p].cache, quant |-> proc[p].quant]
    BY <1>1, <1>2, <1>6, <2>1 DEF Kept
  <2>3. data[f] \in Data
    BY <1>2, <2>2 DEF Data, Process
  <2>4. data[f] \notin {NoFile, Torn} /\ s \notin {NoFile, Torn}
    BY <1>5, <2>3, FilesAssumption
  <2>5. Agrees(data[f], s)
    BY <1>2, <1>5, <2>2 DEF Agrees, Holds
  <2> QED
    BY <1>3, <1>8, <2>1, <2>4, <2>5
<1> QED
  BY <1>2, <1>3, <1>4, <1>7, <1>8, <1>9, <1>10, <1>12, <1>13, <1>14, WriterStep

-----------------------------------------------------------------------------
(***************************************************************************)
(* The theorems                                                            *)
(***************************************************************************)
\* Nothing is there at first, and nobody has begun.
LEMMA InitIInv == Init => IInv
<1> SUFFICES ASSUME Init PROVE IInv
  OBVIOUS
<1>1. TypeOK
  <2>1. 0 \in 0..MaxBegun /\ 0 \in 0..MaxKills
    BY KvReuseAssumption
  <2> QED
    BY <2>1, IdleSound DEF Init, TypeOK
<1>2. FilesExact /\ QuietFiles /\ UndisturbedSucceeds
  BY DEF Init, FilesExact, QuietFiles, UndisturbedSucceeds
<1>3. \A p \in Proc : proc[p] = Idle
  BY DEF Init
<1>4. LoneWriters
  BY <1>3, IdleSound DEF LoneWriters, Quiescent, Writes
<1>5. Procs
  <2>1. Kept(Idle)
    BY DEF Kept, Idle, Command
  <2> QED
    BY <1>3, <2>1, IdleSound DEF Procs
<1> QED
  BY <1>1, <1>2, <1>4, <1>5 DEF IInv

\* Every step of every command keeps the invariant.
LEMMA NextIInv == IInv /\ [Next]_vars => IInv'
<1> SUFFICES ASSUME IInv, [Next]_vars PROVE IInv'
  OBVIOUS
<1>1. CASE UNCHANGED vars
  <2>1. TypeOK' /\ UndisturbedSucceeds' /\ FilesExact' /\ QuietFiles' /\ LoneWriters'
    BY <1>1 DEF vars, IInv, TypeOK, UndisturbedSucceeds, FilesExact, QuietFiles, LoneWriters,
                Writes
  <2>2. Procs'
    BY <1>1, OthersKnow DEF vars, Procs
  <2> QED
    BY <2>1, <2>2 DEF IInv
<1>2. ASSUME NEW p \in Proc, NEW f \in Path, NEW c \in Context, NEW q \in Question,
             \/ Verify(p, f, c, q)
             \/ \E g \in Path, dtype, target \in Float :
                   Quant(p, f, g, c, q, dtype, target)
      PROVE  IInv'
  BY <1>2, VerifyStep, QuantStep
<1>3. ASSUME NEW p \in Proc, NEW f \in Path, NEW q \in Question, Infer(p, f, q)
      PROVE  IInv'
  BY <1>3, InferStep
<1>4. ASSUME NEW p \in Proc, NEW f \in Path, NEW cache \in Foreign, NEW quant \in BOOLEAN,
             Download(p, f, cache, quant)
      PROVE  IInv'
  BY <1>4, DownloadStep
<1>5. ASSUME NEW p \in Proc, NEW f \in Path, Upload(p, f) PROVE IInv'
  BY <1>5, UploadStep
<1>6. ASSUME NEW p \in Proc, NEW q \in Query, SearchScratch(p, q) \/ SearchMatch(p, q)
      PROVE  IInv'
  BY <1>6, ScratchStep, MatchStep
<1>7. ASSUME NEW p \in Proc, Truncate(p) \/ Fill(p) \/ TruncateSide(p) \/ FillSide(p)
      PROVE  IInv'
  BY <1>7, TruncateStep, FillStep, TruncateSideStep, FillSideStep
<1>8. ASSUME NEW p \in Proc,
             LoadData(p) \/ LoadSide(p) \/ Continue(p) \/ Candidate(p) \/ Finish(p)
      PROVE  IInv'
  BY <1>8, LoadDataStep, LoadSideStep, ContinueStep, CandidateStep, FinishStep
<1>9. ASSUME NEW p \in Proc, ReadMetadata(p) \/ Hash(p) \/ Put(p) \/ Uploaded(p) \/ Kill(p)
      PROVE  IInv'
  BY <1>9, ReadMetadataStep, HashStep, PutStep, EndStep
<1>10. ASSUME NEW p \in Proc, SearchNothing(p) PROVE IInv'
  BY <1>10, NothingStep
<1> QED
  BY <1>1, <1>2, <1>3, <1>4, <1>5, <1>6, <1>7, <1>8, <1>9, <1>10 DEF Next

\* The invariant is one of every run of any number of processes at any number of paths.
THEOREM Invariance == Spec => []IInv
BY InitIInv, NextIInv, PTL DEF Spec

\* Files, sidecars and commands are always of their types.
THEOREM TypeCorrect == Spec => []TypeOK
<1>1. IInv => TypeOK
  BY DEF IInv
<1> QED
  BY <1>1, Invariance, PTL

\* A save that nothing overlaps or kills leaves a data file and a sidecar that
\* agree, until the next one begins, and an undisturbed upload shares what it declares.
THEOREM QuietPathsAgreeHolds == Spec => []QuietPathsAgree
<1>1. IInv => QuietPathsAgree
  <2> SUFFICES ASSUME IInv PROVE QuietPathsAgree
    OBVIOUS
  <2>1. ASSUME NEW p \in Proc, proc[p].phase = "uploaded", proc[p].alone
        PROVE  LET told == proc[p].declared IN
               /\ told.hashed \notin {NoFile, Torn}
               /\ told.hashed.cache.bad = 0
               /\ told.cells = Size(told.hashed.cache)
               /\ told.quant = told.hashed.quant
    <3> DEFINE f == Head(proc[p].loads)
    <3>1. proc[p].phase \in Sharing
      BY <2>1 DEF Sharing
    <3>2. Known(proc[p]) /\ proc[p].loads # <<>> /\ proc[p].saves = <<>>
      BY <3>1, Sharer
    <3>3. /\ side[f] \in Sidecar /\ data[f] \notin {NoFile, Torn}
          /\ data[f] \in Data /\ Agrees(data[f], side[f])
      BY <2>1, <3>2, Reads
    <3>4. /\ proc[p].declared.cells = Len(side[f].tokens)
          /\ proc[p].declared.quant = side[f].quant
          /\ proc[p].declared.hashed = data[f]
      BY <2>1, <3>2 DEF Known
    <3> HIDE DEF f
    <3>5. /\ data[f].cache.good = side[f].tokens /\ data[f].cache.bad = 0
          /\ data[f].quant = side[f].quant
      BY <3>3 DEF Agrees, Holds
    <3>6. Size(data[f].cache) = Len(side[f].tokens)
      <4>1. Len(side[f].tokens) \in Nat
        BY <3>3, LenProperties DEF Sidecar
      <4> QED
        BY <3>5, <4>1 DEF Size
    <3> QED
      BY <3>3, <3>4, <3>5, <3>6
  <2> QED
    BY <2>1 DEF QuietPathsAgree, IInv, QuietFiles, Agrees, Holds
<1> QED
  BY <1>1, Invariance, PTL

\* verify continues token-exactly, and so does quant --verify from its first artifact;
\* from its second one it continues approximations of the same cells, unless another
\* process writes to their paths or both artifacts have one.
THEOREM VerifyExactHolds == Spec => []VerifyExact
<1>1. IInv => VerifyExact
  <2> SUFFICES ASSUME IInv, NEW p \in Proc, proc[p].job \in {"verify", "quant"},
                      proc[p].alone, proc[p].whole, proc[p].phase = "generate"
               PROVE  /\ Exact(proc[p])
                      /\ proc[p].quant <=> proc[p].job = "quant" /\ proc[p].loads = <<>>
    BY DEF VerifyExact
  <2>1. proc[p] \in Process /\ Follows(proc[p])
    BY Sound
  <2>2. Exact(proc[p]) /\ (proc[p].quant <=> Last(proc[p], 0))
    <3>1. proc[p].text \in Seq(Token)
      BY <2>1 DEF Process
    <3>2. /\ Holds(proc[p].cache, proc[p].text, proc[p].quant)
          /\ proc[p].cache.dtype = proc[p].dtype
          /\ proc[p].quant <=> Last(proc[p], 0)
      BY <2>1 DEF Follows
    <3> QED
      BY <3>2 DEF Holds, Exact
  <2>3. 0 = Len(proc[p].loads) <=> proc[p].loads = <<>>
    <3>1. proc[p].loads \in Seq(Path)
      BY <2>1 DEF Process
    <3> QED
      BY <3>1, EmptySeq
  <2> QED
    BY <2>2, <2>3 DEF Last
<1> QED
  BY <1>1, Invariance, PTL

\* infer continues exactly the cache in the bytes that it read, or what quantizing has
\* left of it.
THEOREM InferExactHolds == Spec => []InferExact
<1>1. IInv => InferExact
  BY DEF IInv, Procs, Follows, InferExact, Exact, Holds
<1> QED
  BY <1>1, Invariance, PTL

\* A search that matches a whole artifact, or none, yields what a prefill does, or,
\* from a quantized artifact, what approximations of its cells do.
THEOREM WholeMatchExactHolds == Spec => []WholeMatchExact
<1>1. IInv => WholeMatchExact
  BY DEF IInv, Procs, Follows, WholeMatchExact, Exact, Holds
<1> QED
  BY <1>1, Invariance, PTL

\* A command that nobody disturbs fails only because an artifact's number type is not
\* the model's, because the answers that quant --verify compares differ, or because
\* there is nothing to search in.
THEOREM UndisturbedSucceedsHolds == Spec => []UndisturbedSucceeds
<1>1. IInv => UndisturbedSucceeds
  BY DEF IInv
<1> QED
  BY <1>1, Invariance, PTL
=============================================================================
