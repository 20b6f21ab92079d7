--------------------------- MODULE LmStage_proofs ---------------------------
(***************************************************************************)
(* Proofs about LmStage for every vocabulary, prompt, budget, number of    *)
(* injections and sequence capacity.                                       *)
(***************************************************************************)
EXTENDS LmStage, TLAPS, FiniteSetTheorems, FunctionTheorems, SequenceTheorems

-----------------------------------------------------------------------------
(***************************************************************************)
(* What the operations on the KV memory do to its two sequences.           *)
(***************************************************************************)

Memory == [{0, 1} -> SUBSET Cells]

LEMMA NQNat == NQ \in Nat /\ NQ = 2 * NIter
BY LmStageAssumption DEF NQ

LEMMA BranchedMemory ==
  ASSUME NEW m \in Memory, NEW p \in Nat
  PROVE  /\ Branched(m, p) \in Memory
         /\ Branched(m, p)[0] = m[0]
         /\ Branched(m, p)[1] = {c \in m[0] : c.pos < p + 1}
<1> DEFINE m1 == SeqRm(m, 1, 0)
           m2 == SeqCp(m1, 0, 1)
<1>1. /\ m1 \in Memory /\ m1[0] = m[0]
      /\ m1[1] = {c \in m[1] : c.pos < 0}
  BY DEF Memory, SeqRm
<1>2. /\ m2 \in Memory /\ m2[0] = m[0]
      /\ m2[1] = {c \in m[1] : c.pos < 0} \cup m[0]
  BY <1>1 DEF Memory, SeqCp
<1>3. m2[1] = m[0]
  BY <1>2 DEF Memory, Cells
<1>4. Branched(m, p) = [m2 EXCEPT ![1] = {c \in m2[1] : c.pos < p + 1}]
  BY DEF Branched, TrimFrom, SeqRm
<1>5. QED
  BY <1>2, <1>3, <1>4 DEF Memory

LEMMA DecodedMemory ==
  ASSUME NEW m \in Memory, NEW s \in {0, 1}, NEW batch \in SUBSET Cells
  PROVE  /\ Decoded(m, s, batch) \in Memory
         /\ Decoded(m, s, batch)[s] = m[s] \cup batch
         /\ Decoded(m, s, batch)[1 - s] = m[1 - s]
BY DEF Memory, Decoded

LEMMA CellTypes ==
  /\ PrefillCells \in SUBSET Cells
  /\ \A p \in Nat, t \in Vocab : Cell(p, t) \in Cells
  /\ \A p \in Nat : Batch(p) \in SUBSET Cells
<1>1. PrefillCells \in SUBSET Cells
  BY LmStageAssumption DEF Cells
<1>2. \A p \in Nat, t \in Vocab : Cell(p, t) \in Cells
  BY DEF Cells, Cell
<1>3. \A i \in 0 .. NQ + 1 :
        BatchItem(i) \in {MaskStart, MaskEnd} \cup {MaskQuery(j) : j \in 0 .. NQ - 1}
  BY NQNat DEF BatchItem
<1>4. \A p \in Nat : Batch(p) \in SUBSET Cells
  BY <1>3, NQNat DEF Batch, BatchBase, Cell, Cells
<1>5. QED
  BY <1>1, <1>2, <1>4

LEMMA EmbeddingsTypes ==
  ASSUME NEW m \in Memory, NEW base \in Nat, NEW marks, NEW k
  PROVE  EmbeddingsIth(m, 1, base, marks, k) \in Rows
<1>1. \A p : HiddenAt(m, 1, p) \in Rows
  BY DEF Memory, HiddenAt, Rows
<1>2. NaN \in Rows /\ Null \in Rows
  BY DEF Rows
<1>3. CASE ReadBy = "token"
  <2>1. EmbeddingsIth(m, 1, base, marks, k)
          \in {HiddenAt(m, 1, base + k), Null}
    BY <1>3 DEF EmbeddingsIth
  <2>2. QED
    BY <1>1, <1>2, <2>1
<1>4. CASE ReadBy = "row"
  <2>1. EmbeddingsIth(m, 1, base, marks, k)
          \in {HiddenAt(m, 1, base + MarkedRow(marks, k)), NaN, Null}
    BY <1>4 DEF EmbeddingsIth
  <2>2. QED
    BY <1>1, <1>2, <2>1
<1>5. QED
  BY <1>3, <1>4, LmStageAssumption

-----------------------------------------------------------------------------
(***************************************************************************)
(* Types, and how far each loop is at each point of the stage.             *)
(***************************************************************************)

Progress ==
  /\ pc = "setup" => gen = <<>>
  /\ pc = "generate" => npast = NPast0 + Len(gen)
  /\ pc \in {"setup", "generate"} => phrases = <<>>
  /\ pc \in {"setup", "generate", "scan"} => iter = 0 /\ segOuts = <<>>
  /\ pc \in {"branch", "inject", "read"} => iter < NIter
  /\ pc = "push" => iter = NIter
  /\ Len(segOuts) <= Len(phrases)
  /\ pc \in {"inject", "read", "push"} => Len(segOuts) < Len(phrases)
  /\ pc = "read" => out \in [{0, 1} -> Rows]

Typed == TypeOK /\ Progress

LEMMA CurrentType ==
  ASSUME TypeOK, Len(segOuts) < Len(phrases)
  PROVE  Current \in [tokens : Seq(Vocab), refEnd : Nat]
<1>1. Len(segOuts) + 1 \in 1 .. Len(phrases)
  BY DEF TypeOK
<1>2. QED
  BY <1>1, ElementOfSeq DEF TypeOK, Current

LEMMA TypedInit == Init => Typed
<1> SUFFICES ASSUME Init PROVE Typed
  OBVIOUS
<1>1. EmptySegOut \in [0 .. NQ - 1 -> Rows \cup {ZeroRow}]
  BY DEF EmptySegOut
<1>2. QED
  BY <1>1, LmStageAssumption DEF Init, Typed, TypeOK, Progress

LEMMA TypedSetup == Typed /\ Setup => Typed'
<1> SUFFICES ASSUME Typed, Setup PROVE Typed'
  OBVIOUS
<1>1. kv' \in Memory
  BY CellTypes DEF Setup, Typed, TypeOK, Memory
<1>2. npast' \in Nat /\ live' \subseteq {"model", "ctx", "mtmd", "bitmap", "chunks", "bat", "pb"}
  BY SMTT(30), LmStageAssumption DEF Setup, Typed, TypeOK, Acquired
<1>3. QED
  BY <1>1, <1>2 DEF Setup, Typed, TypeOK, Progress, Memory

LEMMA TypedGenerate ==
  ASSUME Typed, NEW t \in Vocab, Generate(t)
  PROVE  Typed'
<1>1. /\ gen' \in Seq(Vocab) /\ Len(gen') = Len(gen) + 1
  BY DEF Generate, Typed, TypeOK
<1>2. npast' \in Nat /\ kv' \in Memory
  <2>1. npast \in Nat /\ kv \in Memory
    BY DEF Typed, TypeOK, Memory
  <2>2. {GenCell(npast, t)} \in SUBSET Cells
    BY <2>1, CellTypes DEF GenCell
  <2>3. Decoded(kv, 0, {GenCell(npast, t)}) \in Memory
    BY <2>1, <2>2, DecodedMemory
  <2>4. npast' \in {npast, npast + 1} /\ kv' \in {kv, Decoded(kv, 0, {GenCell(npast, t)})}
    BY DEF Generate
  <2>5. QED
    BY <2>1, <2>3, <2>4
<1>3. TypeOK'
  BY <1>1, <1>2 DEF Generate, Typed, TypeOK, Memory
<1>4. Progress'
  BY <1>1, LmStageAssumption DEF Generate, Typed, TypeOK, Progress
<1>5. QED
  BY <1>3, <1>4 DEF Typed

LEMMA TypedScanStep == Typed /\ ScanStep => Typed'
<1> SUFFICES ASSUME Typed, ScanStep PROVE Typed'
  OBVIOUS
<1>1. ASSUME NEW j \in scan + 1 .. Len(gen) + 1, j <= Len(gen)
      PROVE  PhraseAt(scan, j) \in [tokens : Seq(Vocab), refEnd : Nat]
  <2>1. SubSeq(gen, scan + 1, j - 1) \in Seq(Vocab)
    BY <1>1, SubSeqProperties DEF Typed, TypeOK
  <2>2. RefEndPos(j) \in Nat
    BY SMTT(30), <1>1, LmStageAssumption DEF Typed, TypeOK, RefEndPos
  <2>3. QED
    BY <2>1, <2>2 DEF PhraseAt
<1>2. /\ phrases' \in Seq([tokens : Seq(Vocab), refEnd : Nat])
      /\ Len(phrases') >= Len(phrases)
  <2>1. CASE UNCHANGED phrases
    BY <2>1 DEF Typed, TypeOK
  <2>2. ASSUME NEW j \in scan + 1 .. Len(gen) + 1, j <= Len(gen),
               phrases' = Append(phrases, PhraseAt(scan, j))
        PROVE  <1>2!1 /\ <1>2!2
    BY <1>1, <2>2 DEF Typed, TypeOK
  <2>3. QED
    BY <2>1, <2>2 DEF ScanStep
<1>3. scan' \in Nat \ {0}
  BY DEF ScanStep, ScanAfter, Typed, TypeOK
<1>4. QED
  BY SMTT(30), <1>2, <1>3 DEF ScanStep, Typed, TypeOK, Progress

LEMMA TypedBranch == Typed /\ Branch => Typed'
<1> SUFFICES ASSUME Typed, Branch PROVE Typed'
  OBVIOUS
<1>1. Current \in [tokens : Seq(Vocab), refEnd : Nat]
  BY CurrentType DEF Branch, Typed
<1>2. kv' \in Memory
  BY <1>1, BranchedMemory DEF Branch, Typed, TypeOK, Memory
<1>3. QED
  BY <1>2 DEF Branch, Typed, TypeOK, Progress, Memory

LEMMA TypedInject == Typed /\ Inject => Typed'
<1> SUFFICES ASSUME Typed, Inject PROVE Typed'
  OBVIOUS
<1>1. Current \in [tokens : Seq(Vocab), refEnd : Nat]
  BY CurrentType DEF Inject, Typed, Progress
<1>2. kv' \in Memory
  <2>1. kv \in Memory /\ Batch(Current.refEnd) \in SUBSET Cells
    BY <1>1, CellTypes DEF Typed, TypeOK, Memory
  <2>2. QED
    BY <2>1, DecodedMemory DEF Inject, InjectSeq
<1>3. pc' = "read" => out' \in [{0, 1} -> Rows]
  BY <1>1, <1>2, EmbeddingsTypes DEF Inject, InjectSeq, BatchBase
<1>4. pc' # "read" => UNCHANGED out
  BY DEF Inject
<1>5. QED
  BY <1>2, <1>3, <1>4 DEF Inject, Typed, TypeOK, Progress, Memory

LEMMA TypedReadRows == Typed /\ ReadRows => Typed'
<1> SUFFICES ASSUME Typed, ReadRows PROVE Typed'
  OBVIOUS
<1>1. out[0] \in Rows /\ out[1] \in Rows
  BY DEF Typed, Progress, ReadRows
<1>2. segOut' \in [0 .. NQ - 1 -> Rows \cup {ZeroRow}]
  BY <1>1 DEF ReadRows, Typed, TypeOK
<1>3. /\ iter' \in 0 .. NIter
      /\ pc' = "push" => iter' = NIter
      /\ pc' = "branch" => iter' < NIter
  BY LmStageAssumption DEF ReadRows, Typed, TypeOK, Progress
<1>4. pc' \in {"branch", "push", "failed"} /\ live' \subseteq live
  BY DEF ReadRows, Typed, TypeOK
<1>5. TypeOK'
  BY <1>2, <1>3, <1>4 DEF ReadRows, Typed, TypeOK
<1>6. Progress'
  BY <1>3, <1>4 DEF ReadRows, Typed, Progress
<1>7. QED
  BY <1>5, <1>6 DEF Typed

LEMMA TypedPushSegOut == Typed /\ PushSegOut => Typed'
<1> SUFFICES ASSUME Typed, PushSegOut PROVE Typed'
  OBVIOUS
<1>1. EmptySegOut \in [0 .. NQ - 1 -> Rows \cup {ZeroRow}]
  BY DEF EmptySegOut
<1>2. QED
  BY <1>1, LmStageAssumption DEF PushSegOut, Typed, TypeOK, Progress

LEMMA TypedStep == Typed /\ [Next]_vars => Typed'
<1> SUFFICES ASSUME Typed, [Next]_vars PROVE Typed'
  OBVIOUS
<1>1. CASE BudgetSpent \/ NoLogits
  BY <1>1 DEF BudgetSpent, NoLogits, Typed, TypeOK, Progress
<1>2. CASE TextOnly \/ CannotDetokenize
  BY <1>2 DEF TextOnly, CannotDetokenize, Typed, TypeOK, Progress
<1>3. CASE LoadQueries
  BY <1>3, LmStageAssumption DEF LoadQueries, Typed, TypeOK, Progress
<1>4. CASE Finish
  BY <1>4 DEF Finish, Typed, TypeOK, Progress
<1>5. CASE UNCHANGED vars \/ Stopped
  BY <1>5 DEF Stopped, vars, Typed, TypeOK, Progress
<1>6. QED
  BY <1>1, <1>2, <1>3, <1>4, <1>5, TypedSetup, TypedGenerate, TypedScanStep,
     TypedBranch, TypedInject, TypedReadRows, TypedPushSegOut
     DEF Next

(* The values of every variable stay in their types, and the indices of the *)
(* three nested loops of stage 3 in their bounds.                           *)
THEOREM TypeCorrect == Spec => []TypeOK
<1>1. Spec => []Typed
  BY TypedInit, TypedStep, PTL DEF Spec
<1>2. Typed => TypeOK
  BY DEF Typed
<1>3. QED
  BY <1>1, <1>2, PTL

-----------------------------------------------------------------------------
(***************************************************************************)
(* The answer in sequence 0: written while it is generated, then frozen.   *)
(***************************************************************************)

LEMMA BranchFrozen ==
  ASSUME Typed, Branch
  PROVE  kv'[0] = kv[0] /\ kv'[1] = {c \in kv[0] : c.pos < Current.refEnd + 1}
<1>1. Current.refEnd \in Nat
  BY CurrentType DEF Branch, Typed
<1>2. QED
  BY <1>1, BranchedMemory DEF Branch, Typed, TypeOK, Memory

LEMMA InjectFrozen ==
  ASSUME Typed, Inject
  PROVE  /\ kv'[0] = kv[0]
         /\ pc' = "read" => kv'[1] = kv[1] \cup Batch(Current.refEnd)
<1>1. Current.refEnd \in Nat
  BY CurrentType DEF Inject, Typed, Progress
<1>2. kv \in Memory /\ Batch(Current.refEnd) \in SUBSET Cells
  BY <1>1, CellTypes DEF Typed, TypeOK, Memory
<1>3. QED
  BY <1>2, DecodedMemory DEF Inject, InjectSeq

LEMMA Frozen ==
  ASSUME Typed, [Next]_vars, pc \notin {"setup", "generate"}
  PROVE  gen' = gen /\ npast' = npast /\ kv'[0] = kv[0]
<1>1. CASE Branch
  BY <1>1, BranchFrozen DEF Branch
<1>2. CASE Inject
  BY <1>2, InjectFrozen DEF Inject
<1>3. CASE ~ Branch /\ ~ Inject
  BY <1>3 DEF Next, vars, Setup, Generate, NoLogits, BudgetSpent, ScanStep,
     CannotDetokenize, TextOnly, LoadQueries, ReadRows, PushSegOut, Finish, Stopped
<1>4. QED
  BY <1>1, <1>2, <1>3

(* Once the answer is complete, no step of the extraction or of the        *)
(* injections changes it or its cells.                                     *)
THEOREM AnswerStaysFrozen == Spec => AnswerFrozen
<1>1. Typed /\ [Next]_vars =>
        [pc \notin {"setup", "generate"} => gen' = gen /\ kv'[0] = kv[0]]_vars
  BY Frozen
<1>2. Spec => []Typed
  BY TypedInit, TypedStep, PTL DEF Spec
<1>3. QED
  BY <1>1, <1>2, PTL DEF Spec, AnswerFrozen

AnswerCells(r, n) == {Cell(NPast0 + j - 1, r[j]) : j \in 1 .. n}

LEMMA AnswerSetup ==
  ASSUME Typed, Setup
  PROVE  AnswerInKv'
<1>1. CASE pc' = "failed"
  BY <1>1 DEF AnswerInKv
<1>2. CASE pc' = "generate"
  <2>1. gen' = <<>> /\ npast' = NPast0 /\ kv'[0] = PrefillCells
    BY <1>2 DEF Setup, Typed, TypeOK, Progress
  <2>2. npast' - NPast0 = 0 /\ Len(gen') = 0
    BY <2>1, LmStageAssumption
  <2>3. {Cell(NPast0 + j - 1, gen'[j]) : j \in 1 .. npast' - NPast0} = {}
    BY <2>2
  <2>4. QED
    BY <2>1, <2>2, <2>3 DEF AnswerInKv
<1>3. QED
  BY <1>1, <1>2 DEF Setup

LEMMA AnswerGenerate ==
  ASSUME Typed, AnswerInKv, NEW t \in Vocab, Generate(t)
  PROVE  AnswerInKv'
<1> DEFINE n == Len(gen)
<1>1. /\ gen' \in Seq(Vocab) /\ Len(gen') = n + 1 /\ n \in Nat
      /\ gen'[n + 1] = t
      /\ \A j \in 1 .. n : gen'[j] = gen[j]
  BY DEF Generate, Typed, TypeOK
<1>2. npast = NPast0 + n /\ npast - NPast0 = n
  BY <1>1, LmStageAssumption DEF Generate, Typed, Progress
<1>3. kv[0] = PrefillCells \cup AnswerCells(gen, n)
  BY <1>2 DEF AnswerInKv, AnswerCells, Generate
<1>4. AnswerCells(gen', n) = AnswerCells(gen, n)
  BY <1>1 DEF AnswerCells
<1>5. CASE t \in StopTokens
  <2>1. npast' = npast /\ kv'[0] = kv[0]
    BY <1>5 DEF Generate
  <2>2. QED
    BY <1>1, <1>2, <1>3, <1>4, <1>5, <2>1 DEF AnswerInKv, AnswerCells
<1>6. CASE t \notin StopTokens /\ pc' # "failed"
  <2>1. npast' = npast + 1 /\ kv' = Decoded(kv, 0, {GenCell(npast, t)})
    BY <1>6 DEF Generate
  <2>2. GenCell(npast, t) \in Cells
    BY CellTypes DEF GenCell, Typed, TypeOK
  <2>3. kv'[0] = kv[0] \cup {GenCell(npast, t)}
    BY <2>1, <2>2, DecodedMemory DEF Typed, TypeOK, Memory
  <2>4. AnswerCells(gen', n + 1) = AnswerCells(gen', n) \cup {GenCell(npast, t)}
    BY <1>1, <1>2 DEF AnswerCells, GenCell
  <2>5. npast' - NPast0 = n + 1
    BY <1>1, <1>2, <2>1, LmStageAssumption
  <2>6. QED
    BY <1>1, <1>3, <1>4, <2>3, <2>4, <2>5 DEF AnswerInKv, AnswerCells
<1>7. QED
  BY <1>5, <1>6 DEF AnswerInKv

LEMMA AnswerStep ==
  ASSUME Typed, AnswerInKv, [Next]_vars
  PROVE  AnswerInKv'
<1>1. CASE pc = "setup"
  BY <1>1, AnswerSetup DEF Next, vars, AnswerInKv, Generate, NoLogits, BudgetSpent,
     ScanStep, CannotDetokenize, TextOnly, LoadQueries, Branch, Inject, ReadRows,
     PushSegOut, Finish, Stopped, Terminal
<1>2. CASE pc = "generate"
  <2>1. CASE UNCHANGED <<gen, npast, kv>>
    BY <1>2, <2>1 DEF AnswerInKv
  <2>2. QED
    BY <1>2, <2>1, AnswerGenerate DEF Next, vars, Setup, NoLogits, BudgetSpent,
       ScanStep, CannotDetokenize, TextOnly, LoadQueries, Branch, Inject, ReadRows,
       PushSegOut, Finish, Stopped, Terminal
<1>3. CASE pc = "failed"
  BY <1>3 DEF Next, vars, AnswerInKv, Setup, Generate, NoLogits, BudgetSpent,
     ScanStep, CannotDetokenize, TextOnly, LoadQueries, Branch, Inject, ReadRows,
     PushSegOut, Finish, Stopped, Terminal
<1>4. CASE pc \notin {"setup", "generate", "failed"}
  BY <1>4, Frozen DEF AnswerInKv
<1>5. QED
  BY <1>1, <1>2, <1>3, <1>4

(* Sequence 0 always holds the prompt and then the answer, token j at      *)
(* position n_past_prefill + j, all but a final stop token.                *)
THEOREM AnswerAlwaysInKv == Spec => []AnswerInKv
<1>1. Init => AnswerInKv
  BY DEF Init, AnswerInKv
<1>2. Spec => []Typed
  BY TypedInit, TypedStep, PTL DEF Spec
<1>3. QED
  BY <1>1, <1>2, AnswerStep, PTL DEF Spec

-----------------------------------------------------------------------------
(***************************************************************************)
(* The phrases: tokens and position agree with the answer.                 *)
(***************************************************************************)

EndIndex(p) == p.refEnd - NPast0 + 1

PhrasesOK ==
  \A i \in 1 .. Len(phrases) : EndIndex(phrases[i]) \in 1 .. npast - NPast0

PhraseInKv(p) ==
  LET n == Len(p.tokens)
  IN /\ Cell(p.refEnd, RefEnd) \in kv[0]
     /\ \A m \in 1 .. n : Cell(p.refEnd - n - 1 + m, p.tokens[m]) \in kv[0]
     /\ Cell(p.refEnd - n - 1, RefStart) \in kv[0]

AnswerInv == Typed /\ AnswerInKv
PhraseInv == PhrasesOK /\ PhraseMatchesKv

LEMMA PhraseMatchesEach ==
  PhraseMatchesKv <=> \A i \in 1 .. Len(phrases) : PhraseInKv(phrases[i])
BY DEF PhraseMatchesKv, PhraseInKv

LEMMA DecodedTokens ==
  ASSUME AnswerInv, pc \notin {"setup", "failed"}
  PROVE  /\ \A j \in 1 .. Len(gen) : gen[j] \notin StopTokens => j <= npast - NPast0
         /\ \A j \in 1 .. npast - NPast0 :
              j \in 1 .. Len(gen) /\ Cell(NPast0 + j - 1, gen[j]) \in kv[0]
<1>1. npast - NPast0 \in {Len(gen), Len(gen) - 1} /\ Len(gen) \in Nat
  BY DEF AnswerInv, AnswerInKv, Typed, TypeOK
<1>2. QED
  BY <1>1 DEF AnswerInv, AnswerInKv

LEMMA NewPhrase ==
  ASSUME AnswerInv, pc = "scan", scan <= Len(gen), gen[scan] = RefStart,
         NEW j \in scan + 1 .. Len(gen), StopsAt(scan, j)
  PROVE  LET p == PhraseAt(scan, j)
         IN EndIndex(p) \in 1 .. npast - NPast0 /\ PhraseInKv(p)
<1> DEFINE p == PhraseAt(scan, j)
           n == Len(p.tokens)
<1>1. scan \in Nat \ {0} /\ Len(gen) \in Nat /\ NPast0 \in Nat /\ npast \in Nat
  BY LmStageAssumption DEF AnswerInv, Typed, TypeOK
<1>2. /\ n = j - 1 - scan
      /\ \A m \in 1 .. n : p.tokens[m] = gen[scan + m]
  BY <1>1, SubSeqProperties DEF PhraseAt, AnswerInv, Typed, TypeOK
<1>3. p.refEnd = NPast0 + (j - 1)
  BY DEF PhraseAt, RefEndPos
<1>4. gen[j] = RefEnd /\ j \in 1 .. npast - NPast0
  BY <1>1, DecodedTokens, LmStageAssumption DEF StopsAt
<1>5. \A m \in scan .. j : Cell(NPast0 + m - 1, gen[m]) \in kv[0]
  BY <1>1, <1>4, DecodedTokens
<1>6. EndIndex(p) = j
  BY <1>1, <1>3 DEF EndIndex
<1>7. Cell(p.refEnd, RefEnd) \in kv[0]
  BY <1>1, <1>3, <1>4, <1>5
<1>8. \A m \in 1 .. n : Cell(p.refEnd - n - 1 + m, p.tokens[m]) \in kv[0]
  <2> SUFFICES ASSUME NEW m \in 1 .. n
               PROVE  Cell(p.refEnd - n - 1 + m, p.tokens[m]) \in kv[0]
    OBVIOUS
  <2>1. /\ p.refEnd - n - 1 + m = NPast0 + (scan + m) - 1
        /\ scan + m \in scan .. j
    BY <1>1, <1>2, <1>3
  <2>2. QED
    BY <1>2, <1>5, <2>1
<1>9. Cell(p.refEnd - n - 1, RefStart) \in kv[0]
  <2>1. p.refEnd - n - 1 = NPast0 + scan - 1 /\ scan \in scan .. j
    BY <1>1, <1>2, <1>3
  <2>2. QED
    BY <1>5, <2>1
<1>10. QED
  BY <1>4, <1>6, <1>7, <1>8, <1>9 DEF PhraseInKv

LEMMA PhraseStep ==
  ASSUME AnswerInv, PhraseInv, [Next]_vars
  PROVE  PhraseInv'
<1>1. CASE pc \in {"setup", "generate"}
  <2>1. phrases' = <<>>
    BY <1>1 DEF AnswerInv, Typed, Progress, Next, vars, Setup, Generate, NoLogits,
       BudgetSpent, ScanStep, CannotDetokenize, TextOnly, LoadQueries, Branch,
       Inject, ReadRows, PushSegOut, Finish, Stopped
  <2>2. QED
    BY <2>1 DEF PhraseInv, PhrasesOK, PhraseMatchesKv
<1>2. CASE pc \notin {"setup", "generate"} /\ UNCHANGED phrases
  BY <1>2, Frozen DEF AnswerInv, PhraseInv, PhrasesOK, EndIndex, PhraseMatchesKv
<1>3. CASE ScanStep /\ ~ UNCHANGED phrases
  <2>1. PICK j \in scan + 1 .. Len(gen) :
          /\ StopsAt(scan, j)
          /\ phrases' = Append(phrases, PhraseAt(scan, j))
    BY <1>3 DEF ScanStep, AnswerInv, Typed, TypeOK
  <2>2. EndIndex(PhraseAt(scan, j)) \in 1 .. npast - NPast0 /\ PhraseInKv(PhraseAt(scan, j))
    BY <1>3, <2>1, NewPhrase DEF ScanStep
  <2>3. npast' = npast /\ kv' = kv
    BY <1>3 DEF ScanStep
  <2>4. /\ Len(phrases') = Len(phrases) + 1 /\ Len(phrases) \in Nat
        /\ \A i \in 1 .. Len(phrases) : phrases'[i] = phrases[i]
        /\ phrases'[Len(phrases) + 1] = PhraseAt(scan, j)
    BY <2>1 DEF AnswerInv, Typed, TypeOK
  <2>5. PhrasesOK'
    BY <2>2, <2>3, <2>4 DEF PhraseInv, PhrasesOK, EndIndex
  <2>6. \A i \in 1 .. Len(phrases') : PhraseInKv(phrases'[i])
    BY <2>2, <2>4, PhraseMatchesEach DEF PhraseInv
  <2>7. PhraseMatchesKv'
    BY <2>3, <2>6 DEF PhraseMatchesKv, PhraseInKv
  <2>8. QED
    BY <2>5, <2>7 DEF PhraseInv
<1>4. QED
  BY <1>1, <1>2, <1>3 DEF Next, vars, Setup, Generate, NoLogits, BudgetSpent,
     CannotDetokenize, TextOnly, LoadQueries, Branch, Inject, ReadRows, PushSegOut,
     Finish, Stopped

LEMMA PhraseInvAlways == Spec => [](AnswerInv /\ PhraseInv)
<1>1. Init => AnswerInv /\ PhraseInv
  BY TypedInit DEF Init, AnswerInv, AnswerInKv, PhraseInv, PhrasesOK, PhraseMatchesKv
<1>2. AnswerInv /\ [Next]_vars => AnswerInv'
  BY TypedStep, AnswerStep DEF AnswerInv
<1>3. QED
  BY <1>1, <1>2, PhraseStep, PTL DEF Spec

(* The tokens of a phrase are those that end, in sequence 0, where its mask *)
(* queries will be injected.                                                *)
THEOREM PhrasesMatchKv == Spec => []PhraseMatchesKv
BY PhraseInvAlways, PTL DEF PhraseInv

-----------------------------------------------------------------------------
(***************************************************************************)
(* The rows: what an injection leaves at its two marks.                    *)
(***************************************************************************)

(* The context as tools/instructsam.cpp sets it up and reads it. *)
RowConvention == ReadBy = "row" /\ NSeqMax >= 2

LEMMA TwoMarks ==
  ASSUME NEW a \in Nat, NEW marks, marks = {a, a + 1}
  PROVE  /\ Cardinality(marks) = 2
         /\ MarkedRow(marks, 0) = a
         /\ MarkedRow(marks, 1) = a + 1
<1>1. Cardinality(marks) = 2
  <2>1. IsFiniteSet({a}) /\ Cardinality({a}) = 1
    BY FS_Singleton
  <2>2. marks = {a} \cup {a + 1} /\ a + 1 \notin {a}
    OBVIOUS
  <2>3. QED
    BY <2>1, <2>2, FS_AddElement
<1>2. {x \in marks : x < a} = {} /\ {x \in marks : x < a + 1} = {a}
  OBVIOUS
<1>3. /\ Cardinality({x \in marks : x < a}) = 0
      /\ Cardinality({x \in marks : x < a + 1}) = 1
  BY <1>2, FS_EmptySet, FS_Singleton
<1>4. \A m \in marks : Cardinality({x \in marks : x < m}) = m - a
  BY <1>3
<1>5. MarkedRow(marks, 0) = a
  <2>1. \A m \in marks : Cardinality({x \in marks : x < m}) = 0 <=> m = a
    BY <1>4
  <2>2. a \in marks
    OBVIOUS
  <2>3. QED
    BY <2>1, <2>2, Zenon DEF MarkedRow
<1>6. MarkedRow(marks, 1) = a + 1
  <2>1. \A m \in marks : Cardinality({x \in marks : x < m}) = 1 <=> m = a + 1
    BY <1>4
  <2>2. a + 1 \in marks
    OBVIOUS
  <2>3. QED
    BY <2>1, <2>2, Zenon DEF MarkedRow
<1>7. QED
  BY <1>1, <1>5, <1>6

PrefixCells(e) == PrefillCells \cup AnswerCells(gen, e)

LEMMA PrefixOfAnswer ==
  ASSUME AnswerInv, pc \notin {"setup", "failed"}, NEW e \in 1 .. npast - NPast0
  PROVE  {c \in kv[0] : c.pos < NPast0 + e} = PrefixCells(e)
<1>1. kv[0] = PrefillCells \cup AnswerCells(gen, npast - NPast0)
  BY DEF AnswerInv, AnswerInKv, AnswerCells
<1>2. \A c \in PrefillCells : c.pos < NPast0 + e
  BY LmStageAssumption
<1>3. {c \in AnswerCells(gen, npast - NPast0) : c.pos < NPast0 + e} = AnswerCells(gen, e)
  <2>1. npast - NPast0 \in Nat /\ NPast0 \in Nat
    BY LmStageAssumption DEF AnswerInv, Typed, TypeOK
  <2>2. \A j \in 1 .. npast - NPast0 :
          Cell(NPast0 + j - 1, gen[j]).pos < NPast0 + e <=> j \in 1 .. e
    BY <2>1 DEF Cell
  <2>3. 1 .. e \subseteq 1 .. npast - NPast0
    BY <2>1
  <2>4. QED
    BY <2>2, <2>3 DEF AnswerCells
<1>4. QED
  BY <1>1, <1>2, <1>3 DEF PrefixCells

QueryCells(p, k) ==
  {Cell(p + 1, MaskStart)} \cup {Cell(p + 2 + j, MaskQuery(j)) : j \in 0 .. k}

LEMMA BatchUpTo ==
  ASSUME NEW p \in Nat, NEW k \in 0 .. NQ - 1
  PROVE  {c \in Batch(p) : c.pos <= p + 2 + k} = QueryCells(p, k)
<1>1. Batch(p) = {Cell(p + 1 + i, BatchItem(i)) : i \in 0 .. NQ + 1}
  BY DEF Batch, BatchBase
<1>2. {c \in Batch(p) : c.pos <= p + 2 + k}
        = {Cell(p + 1 + i, BatchItem(i)) : i \in 0 .. k + 1}
  BY <1>1, NQNat DEF Cell
<1>3. BatchItem(0) = MaskStart /\ \A j \in 0 .. k : BatchItem(j + 1) = MaskQuery(j)
  BY NQNat DEF BatchItem
<1>4. \A i \in 0 .. k + 1 : i = 0 \/ i - 1 \in 0 .. k
  OBVIOUS
<1>5. \A i \in 0 .. k + 1 : Cell(p + 1 + i, BatchItem(i)) \in QueryCells(p, k)
  <2> SUFFICES ASSUME NEW i \in 0 .. k + 1
               PROVE  Cell(p + 1 + i, BatchItem(i)) \in QueryCells(p, k)
    OBVIOUS
  <2>1. CASE i = 0
    BY <2>1, <1>3 DEF QueryCells
  <2>2. CASE i - 1 \in 0 .. k
    <3>1. BatchItem(i) = MaskQuery(i - 1) /\ p + 1 + i = p + 2 + (i - 1)
      BY <2>2, <1>3
    <3>2. QED
      BY <2>2, <3>1 DEF QueryCells
  <2>3. QED
    BY <2>1, <2>2, <1>4
<1>6. \A c \in QueryCells(p, k) :
        \E i \in 0 .. k + 1 : c = Cell(p + 1 + i, BatchItem(i))
  <2>1. Cell(p + 1, MaskStart) = Cell(p + 1 + 0, BatchItem(0)) /\ 0 \in 0 .. k + 1
    BY <1>3
  <2>2. ASSUME NEW j \in 0 .. k
        PROVE  \E i \in 0 .. k + 1 :
                 Cell(p + 2 + j, MaskQuery(j)) = Cell(p + 1 + i, BatchItem(i))
    <3>1. j + 1 \in 0 .. k + 1 /\ p + 2 + j = p + 1 + (j + 1)
      OBVIOUS
    <3>2. QED
      BY <1>3, <3>1
  <2>3. QED
    BY <2>1, <2>2 DEF QueryCells
<1>7. QED
  BY <1>2, <1>5, <1>6

LEMMA ContractOutput ==
  ASSUME NEW e, NEW k
  PROVE  Contract!SegOutput(gen, e, k) = PrefixCells(e) \cup QueryCells(NPast0 + e - 1, k)
BY DEF Contract!SegOutput, Contract!PosOf, PrefixCells, AnswerCells, QueryCells, Cell

RowsInv ==
  /\ pc = "inject" => kv[1] = {c \in kv[0] : c.pos < Current.refEnd + 1}
  /\ pc = "read" =>
       \A k \in {0, 1} :
         out[k] = Contract!SegOutput(gen, EndIndex(Current), SlotOf(iter, k))
  /\ pc \in {"branch", "inject", "read", "push"} =>
       \A k \in 0 .. 2 * iter - 1 :
         segOut[k] = Contract!SegOutput(gen, EndIndex(Current), k)

StageInv == AnswerInv /\ PhraseInv

LEMMA CurrentOK ==
  ASSUME StageInv, Len(segOuts) < Len(phrases)
  PROVE  /\ Current.refEnd \in Nat
         /\ EndIndex(Current) \in 1 .. npast - NPast0
         /\ Current.refEnd = NPast0 + EndIndex(Current) - 1
<1>1. Current.refEnd \in Nat
  BY CurrentType DEF StageInv, AnswerInv, Typed
<1>2. Len(segOuts) + 1 \in 1 .. Len(phrases)
  BY DEF StageInv, AnswerInv, Typed, TypeOK
<1>3. EndIndex(Current) \in 1 .. npast - NPast0
  BY <1>2 DEF StageInv, PhraseInv, PhrasesOK, Current
<1>4. QED
  BY <1>1, <1>3, LmStageAssumption DEF EndIndex

LEMMA InjectRows ==
  ASSUME RowConvention, StageInv, RowsInv, Inject, pc' = "read",
         NEW k \in {0, 1}
  PROVE  out'[k] = Contract!SegOutput(gen, EndIndex(Current), SlotOf(iter, k))
<1> DEFINE e == EndIndex(Current)
           p == Current.refEnd
           marks == Marks(iter)
<1>1. /\ pc = "inject" /\ iter \in 0 .. NIter - 1
      /\ Len(segOuts) < Len(phrases)
  BY LmStageAssumption DEF Inject, StageInv, AnswerInv, Typed, TypeOK, Progress
<1>2. /\ p \in Nat /\ e \in 1 .. npast - NPast0 /\ p = NPast0 + e - 1
  BY <1>1, CurrentOK
<1>3. kv[1] = PrefixCells(e)
  <2>1. kv[1] = {c \in kv[0] : c.pos < NPast0 + e}
    BY <1>1, <1>2, LmStageAssumption DEF RowsInv
  <2>2. QED
    BY <1>1, <1>2, <2>1, PrefixOfAnswer DEF StageInv
<1>4. kv'[1] = PrefixCells(e) \cup Batch(p)
  BY <1>3, InjectFrozen DEF StageInv, AnswerInv
<1>5. /\ Cardinality(marks) = 2
      /\ MarkedRow(marks, k) = 1 + SlotOf(iter, k)
  <2>1. 1 + 2 * iter \in Nat /\ marks = {1 + 2 * iter, (1 + 2 * iter) + 1}
    BY <1>1 DEF Marks
  <2>2. QED
    BY <1>1, <2>1, TwoMarks DEF SlotOf
<1>6. out'[k] = EmbeddingsIth(kv', 1, p + 1, marks, k)
  BY DEF Inject, InjectSeq, BatchBase
<1>7. out'[k] = HiddenAt(kv', 1, p + 1 + (1 + SlotOf(iter, k)))
  <2>1. /\ ReadBy = "row" /\ ReadBy # "token"
        /\ k \in 0 .. Cardinality(marks) - 1 /\ ~ (k >= NSeqMax)
    BY <1>5, LmStageAssumption DEF RowConvention
  <2>2. out'[k] = HiddenAt(kv', 1, p + 1 + MarkedRow(marks, k))
    BY <1>6, <2>1 DEF EmbeddingsIth
  <2>3. QED
    BY <1>5, <2>2
<1>8. SlotOf(iter, k) \in 0 .. NQ - 1
  BY <1>1, NQNat, LmStageAssumption DEF SlotOf
<1>9. out'[k] = {c \in PrefixCells(e) \cup Batch(p) : c.pos <= p + 2 + SlotOf(iter, k)}
  <2>1. p + 1 + (1 + SlotOf(iter, k)) = p + 2 + SlotOf(iter, k)
    BY <1>2, <1>8
  <2>2. QED
    BY <1>4, <1>7, <2>1 DEF HiddenAt
<1>10. \A c \in PrefixCells(e) : c.pos <= p + 2 + SlotOf(iter, k)
  <2>1. \A c \in PrefixCells(e) : c \in kv[0] /\ c.pos < NPast0 + e
    BY <1>1, <1>2, PrefixOfAnswer DEF StageInv
  <2>2. \A c \in kv[0] : c.pos \in Nat
    BY DEF StageInv, AnswerInv, Typed, TypeOK, Cells
  <2>3. QED
    BY <1>2, <1>8, <2>1, <2>2, LmStageAssumption
<1>11. {c \in Batch(p) : c.pos <= p + 2 + SlotOf(iter, k)} = QueryCells(p, SlotOf(iter, k))
  BY <1>2, <1>8, BatchUpTo
<1>12. out'[k] = PrefixCells(e) \cup QueryCells(p, SlotOf(iter, k))
  BY <1>9, <1>10, <1>11
<1>13. QED
  BY <1>2, <1>12, ContractOutput

LEMMA RowsStep ==
  ASSUME RowConvention, StageInv, RowsInv, [Next]_vars
  PROVE  RowsInv'
<1> USE DEF EndIndex
<1>1. CASE Branch
  <2>1. /\ gen' = gen /\ phrases' = phrases /\ segOuts' = segOuts
        /\ iter' = iter /\ segOut' = segOut /\ pc = "branch" /\ pc' = "inject"
        /\ kv'[0] = kv[0] /\ kv'[1] = {c \in kv[0] : c.pos < Current.refEnd + 1}
    BY <1>1, BranchFrozen DEF Branch, StageInv, AnswerInv
  <2>2. QED
    BY <2>1 DEF RowsInv, Current
<1>2. CASE Inject
  <2>1. /\ gen' = gen /\ phrases' = phrases /\ segOuts' = segOuts
        /\ iter' = iter /\ segOut' = segOut /\ pc = "inject"
        /\ pc' \in {"read", "failed"}
    BY <1>2 DEF Inject
  <2>2. Current' = Current
    BY <2>1 DEF Current
  <2>3. pc' = "read" => \A k \in {0, 1} :
          out'[k] = Contract!SegOutput(gen, EndIndex(Current), SlotOf(iter, k))
    BY <1>2, InjectRows
  <2>4. QED
    BY <2>1, <2>2, <2>3 DEF RowsInv
<1>3. CASE ReadRows
  <2>1. /\ gen' = gen /\ phrases' = phrases /\ segOuts' = segOuts /\ pc = "read"
        /\ pc' \in {"branch", "push", "failed"}
    BY <1>3 DEF ReadRows
  <2>2. Current' = Current
    BY <2>1 DEF Current
  <2>3. CASE pc' = "failed"
    BY <2>3 DEF RowsInv
  <2>4. CASE pc' # "failed"
    <3>1. /\ iter' = iter + 1
          /\ segOut' = [segOut EXCEPT ![SlotOf(iter, 0)] = out[0],
                                      ![SlotOf(iter, 1)] = out[1]]
      BY <1>3, <2>4 DEF ReadRows
    <3>2. iter \in 0 .. NIter - 1 /\ DOMAIN segOut = 0 .. NQ - 1
      BY <2>1, LmStageAssumption DEF StageInv, AnswerInv, Typed, TypeOK, Progress
    <3>3. /\ SlotOf(iter, 0) = 2 * iter /\ SlotOf(iter, 1) = 2 * iter + 1
          /\ 2 * iter' - 1 = 2 * iter + 1
          /\ 2 * iter \in 0 .. NQ - 1 /\ 2 * iter + 1 \in 0 .. NQ - 1
      <4>1. SlotOf(iter, 0) = 2 * iter /\ SlotOf(iter, 1) = 2 * iter + 1
        BY <3>2 DEF SlotOf
      <4>2. iter' = iter + 1
        BY <3>1
      <4>3. iter \in Nat /\ NIter \in Nat /\ iter + 1 <= NIter
        BY <3>2, LmStageAssumption
      <4>4. NQ \in Nat /\ 2 * iter + 1 <= NQ - 1
        BY <4>3, NQNat
      <4>5. QED
        BY <4>1, <4>2, <4>3, <4>4
    <3>4. /\ segOut'[2 * iter] = out[0] /\ segOut'[2 * iter + 1] = out[1]
          /\ \A k \in 0 .. 2 * iter - 1 : segOut'[k] = segOut[k]
      <4>1. /\ SlotOf(iter, 0) \in DOMAIN segOut /\ SlotOf(iter, 1) \in DOMAIN segOut
            /\ SlotOf(iter, 0) # SlotOf(iter, 1)
            /\ \A k \in 0 .. 2 * iter - 1 :
                 k \in DOMAIN segOut /\ k # SlotOf(iter, 0) /\ k # SlotOf(iter, 1)
        <5>1. iter \in Nat /\ NQ \in Nat
          BY <3>2, NQNat, LmStageAssumption
        <5>2. QED
          BY <3>2, <3>3, <5>1
      <4>2. segOut \in [DOMAIN segOut -> Rows \cup {ZeroRow}]
        BY DEF StageInv, AnswerInv, Typed, TypeOK
      <4>3. /\ segOut'[SlotOf(iter, 0)] = out[0] /\ segOut'[SlotOf(iter, 1)] = out[1]
            /\ \A k \in DOMAIN segOut :
                 k # SlotOf(iter, 0) /\ k # SlotOf(iter, 1) => segOut'[k] = segOut[k]
        BY <3>1, <4>1, <4>2
      <4>4. QED
        BY <3>3, <4>1, <4>3
    <3>5. \A k \in 0 .. 2 * iter' - 1 :
            k \in 0 .. 2 * iter - 1 \/ k = 2 * iter \/ k = 2 * iter + 1
      BY <3>2, <3>3
    <3>6. \A k \in 0 .. 2 * iter' - 1 :
            segOut'[k] = Contract!SegOutput(gen, EndIndex(Current), k)
      BY <2>1, <3>3, <3>4, <3>5 DEF RowsInv
    <3>7. QED
      BY <2>1, <2>2, <2>4, <3>6 DEF RowsInv
  <2>5. QED
    BY <2>3, <2>4
<1>4. CASE PushSegOut \/ LoadQueries
  <2>1. iter' = 0 /\ pc' \in {"branch", "failed"}
    BY <1>4 DEF PushSegOut, LoadQueries, StageInv, AnswerInv, Typed, Progress
  <2>2. QED
    BY <2>1 DEF RowsInv
<1>5. CASE UNCHANGED vars \/ Stopped
  <2>1. UNCHANGED vars
    BY <1>5 DEF Stopped
  <2>2. QED
    BY <2>1 DEF RowsInv, vars, Current
<1>6. CASE ~ Branch /\ ~ Inject /\ ~ ReadRows /\ ~ PushSegOut /\ ~ LoadQueries
           /\ ~ Stopped /\ ~ UNCHANGED vars
  <2>1. pc' \notin {"branch", "inject", "read", "push"}
    BY <1>6 DEF Next, Setup, Generate, NoLogits, BudgetSpent, ScanStep,
       CannotDetokenize, TextOnly, Finish
  <2>2. QED
    BY <2>1 DEF RowsInv
<1>7. QED
  BY <1>1, <1>2, <1>3, <1>4, <1>5, <1>6

LEMMA FaithfulStep ==
  ASSUME StageInv, RowsInv, SegOutsFaithful, [Next]_vars, (Typed)'
  PROVE  SegOutsFaithful'
<1> USE DEF EndIndex
<1>1. CASE pc \in {"setup", "generate", "scan"}
  <2>1. segOuts' = <<>>
    BY <1>1 DEF Next, vars, StageInv, AnswerInv, Typed, Progress, Setup, Generate,
       NoLogits, BudgetSpent, ScanStep, CannotDetokenize, TextOnly, LoadQueries,
       Branch, Inject, ReadRows, PushSegOut, Finish, Stopped
  <2>2. Len(segOuts') <= Len(phrases')
    BY DEF Typed, Progress
  <2>3. QED
    BY <2>1, <2>2 DEF SegOutsFaithful
<1>2. CASE PushSegOut
  <2>1. /\ gen' = gen /\ phrases' = phrases /\ segOuts' = Append(segOuts, segOut)
        /\ pc = "push" /\ iter = NIter /\ 2 * iter - 1 = NQ - 1
    BY <1>2, NQNat DEF PushSegOut, StageInv, AnswerInv, Typed, Progress
  <2>2. /\ Len(segOuts) \in Nat /\ Len(segOuts') = Len(segOuts) + 1
        /\ \A i \in 1 .. Len(segOuts) : segOuts'[i] = segOuts[i]
        /\ segOuts'[Len(segOuts) + 1] = segOut
    BY <2>1 DEF StageInv, AnswerInv, Typed, TypeOK
  <2>3. \A k \in 0 .. NQ - 1 :
          segOut[k] = Contract!SegOutput(gen, EndIndex(phrases[Len(segOuts) + 1]), k)
    BY <2>1 DEF RowsInv, Current
  <2>4. Len(segOuts') <= Len(phrases')
    BY DEF Typed, Progress
  <2>5. QED
    BY <2>1, <2>2, <2>3, <2>4 DEF SegOutsFaithful
<1>3. CASE pc \notin {"setup", "generate", "scan"} /\ ~ PushSegOut
  <2>1. UNCHANGED <<gen, phrases, segOuts>>
    BY <1>3 DEF Next, vars, Setup, Generate, NoLogits, BudgetSpent, ScanStep,
       CannotDetokenize, TextOnly, LoadQueries, Branch, Inject, ReadRows, Finish, Stopped
  <2>2. QED
    BY <2>1 DEF SegOutsFaithful
<1>4. QED
  BY <1>1, <1>2, <1>3

(* If llama_get_embeddings_ith counts marked rows and the context keeps at *)
(* least two of them, every slot of every finished phrase holds the hidden *)
(* state of its own mask query on the prefix that ends with the phrase.    *)
THEOREM OutputsAreFaithful ==
  ASSUME RowConvention
  PROVE  Spec => []SegOutsFaithful
<1>1. Init => RowsInv /\ SegOutsFaithful
  BY DEF Init, RowsInv, SegOutsFaithful
<1>2. Spec => []StageInv
  BY PhraseInvAlways, PTL DEF StageInv
<1>3. StageInv /\ RowsInv /\ [Next]_vars => RowsInv'
  BY RowsStep
<1>4. StageInv /\ RowsInv /\ SegOutsFaithful /\ [Next]_vars => SegOutsFaithful'
  BY FaithfulStep, TypedStep DEF StageInv, AnswerInv
<1>5. QED
  BY <1>1, <1>2, <1>3, <1>4, PTL DEF Spec

-----------------------------------------------------------------------------
(***************************************************************************)
(* What the stage has acquired and not freed.                              *)
(***************************************************************************)

LiveInv ==
  /\ pc \in {"scan", "branch", "push"} => live \subseteq CleanedUp
  /\ pc \in {"generate"} => live \subseteq CleanedUp \cup {"bat"}
  /\ pc \in {"inject", "read"} => live \subseteq CleanedUp \cup {"pb"}
  /\ NothingLeftLive

LEMMA LiveStep == LiveInv /\ [Next]_vars => LiveInv'
<1> SUFFICES ASSUME LiveInv, [Next]_vars PROVE LiveInv'
  OBVIOUS
<1> USE DEF LiveInv, NothingLeftLive
<1>1. CASE Setup
  <2>1. {Acquired[i] : i \in 1 .. 5} \subseteq CleanedUp
    BY DEF Acquired, CleanedUp
  <2>2. QED
    BY <1>1, <2>1 DEF Setup
<1>2. ASSUME NEW t \in Vocab, Generate(t) PROVE LiveInv'
  BY <1>2 DEF Generate
<1>3. CASE BudgetSpent \/ NoLogits \/ ScanStep \/ CannotDetokenize \/ TextOnly \/ LoadQueries
  BY <1>3 DEF BudgetSpent, NoLogits, ScanStep, CannotDetokenize, TextOnly, LoadQueries
<1>4. CASE Branch \/ Inject \/ ReadRows \/ PushSegOut \/ Finish
  BY <1>4 DEF Branch, Inject, ReadRows, PushSegOut, Finish
<1>5. CASE Stopped \/ UNCHANGED vars
  BY <1>5 DEF Stopped, vars
<1>6. QED
  BY <1>1, <1>2, <1>3, <1>4, <1>5 DEF Next

(* A run that ends with a text answer, or goes on to the masks, has freed   *)
(* the model, the context, the projector, the image and the batches.        *)
THEOREM EverythingFreed == Spec => []NothingLeftLive
<1>1. Init => LiveInv
  BY DEF Init, LiveInv, NothingLeftLive
<1>2. LiveInv => NothingLeftLive
  BY DEF LiveInv
<1>3. QED
  BY <1>1, <1>2, LiveStep, PTL DEF Spec

-----------------------------------------------------------------------------
(***************************************************************************)
(* LmStage implements SegContract.  The phrases that the extraction loop    *)
(* has recorded are those that the answer marks up to where the loop has    *)
(* come; the outputs pushed for a phrase are those of OutputsAreFaithful.   *)
(***************************************************************************)

(***************************************************************************)
(* The extraction loop.                                                    *)
(***************************************************************************)

Scanned ==
  /\ \A i \in 1 .. Len(phrases) :
       EndIndex(phrases[i]) \in Contract!PhraseEnds(gen) /\ EndIndex(phrases[i]) < scan
  /\ \A i, j \in 1 .. Len(phrases) : i < j => EndIndex(phrases[i]) < EndIndex(phrases[j])
  /\ \A e \in Contract!PhraseEnds(gen) :
       e < scan => \E i \in 1 .. Len(phrases) : EndIndex(phrases[i]) = e
  /\ scan <= Len(gen) =>
       \A m \in 1 .. scan - 1 : gen[m] = RefStart => \E n \in m + 1 .. scan - 1 : gen[n] = RefEnd

ScanInv ==
  /\ pc \in {"setup", "generate"} => scan = 1
  /\ pc \notin {"setup", "generate", "failed"} => Scanned
  /\ pc \in {"branch", "inject", "read", "push"} => scan > Len(gen) /\ phrases # <<>>

LEMMA EndsInAnswer ==
  ASSUME Typed
  PROVE  /\ Len(gen) \in Nat /\ scan \in Nat \ {0} /\ Len(phrases) \in Nat
         /\ \A e \in Contract!PhraseEnds(gen) : e \in 1 .. Len(gen) /\ e \in Nat
BY DEF Typed, TypeOK, Contract!PhraseEnds

(* A start marker with an end marker after it: a phrase more. *)
LEMMA ScanPhrase ==
  ASSUME Typed, Scanned, scan <= Len(gen), gen[scan] = RefStart, gen' = gen,
         NEW j \in scan + 1 .. Len(gen), StopsAt(scan, j),
         phrases' = Append(phrases, PhraseAt(scan, j)), scan' = j + 1
  PROVE  Scanned'
<1>1. /\ Len(gen) \in Nat /\ scan \in Nat \ {0} /\ Len(phrases) \in Nat /\ j \in Nat
      /\ NPast0 \in Nat
  BY EndsInAnswer, LmStageAssumption
<1>2. /\ Len(phrases') = Len(phrases) + 1
      /\ \A i \in 1 .. Len(phrases) : phrases'[i] = phrases[i]
      /\ phrases'[Len(phrases) + 1] = PhraseAt(scan, j)
  BY DEF Typed, TypeOK
<1>3. EndIndex(PhraseAt(scan, j)) = j
  BY <1>1 DEF EndIndex, PhraseAt, RefEndPos
<1>4. /\ \A i \in 1 .. Len(phrases) : EndIndex(phrases'[i]) = EndIndex(phrases[i])
      /\ EndIndex(phrases'[Len(phrases) + 1]) = j
  BY <1>2, <1>3
<1>5. \A i \in 1 .. Len(phrases') : i \in 1 .. Len(phrases) \/ i = Len(phrases) + 1
  BY <1>1, <1>2
<1>6. gen[j] = RefEnd /\ \A l \in scan + 1 .. j - 1 : gen[l] # RefEnd
  BY <1>1 DEF StopsAt
<1>7. j \in Contract!PhraseEnds(gen)
  <2>1. /\ scan < j /\ scan \in 1 .. j /\ j \in 1 .. Len(gen)
        /\ \A m \in 1 .. scan - 1 : gen[m] = RefStart => \E n \in m + 1 .. scan - 1 : gen[n] = RefEnd
    BY <1>1 DEF Scanned
  <2>2. Contract!IsPhrase(gen, scan, j)
    BY <1>6, <2>1 DEF Contract!IsPhrase
  <2>3. QED
    BY <2>1, <2>2 DEF Contract!PhraseEnds
<1>8. \A i \in 1 .. Len(phrases) :
        /\ EndIndex(phrases[i]) \in Contract!PhraseEnds(gen)
        /\ EndIndex(phrases[i]) < scan /\ EndIndex(phrases[i]) \in Nat
  BY EndsInAnswer DEF Scanned
<1>9. \A i \in 1 .. Len(phrases') :
        EndIndex(phrases'[i]) \in Contract!PhraseEnds(gen) /\ EndIndex(phrases'[i]) < j + 1
  <2>1. \A i \in 1 .. Len(phrases) : EndIndex(phrases[i]) < j + 1
    BY <1>1, <1>8
  <2>2. QED
    BY <1>1, <1>4, <1>5, <1>7, <1>8, <2>1
<1>10. \A i, k \in 1 .. Len(phrases') : i < k => EndIndex(phrases'[i]) < EndIndex(phrases'[k])
  <2>1. SUFFICES ASSUME NEW i \in 1 .. Len(phrases'), NEW k \in 1 .. Len(phrases'), i < k
                 PROVE  EndIndex(phrases'[i]) < EndIndex(phrases'[k])
    OBVIOUS
  <2>2. i \in 1 .. Len(phrases)
    BY <1>1, <1>2, <2>1
  <2>3. CASE k \in 1 .. Len(phrases)
    BY <1>4, <2>1, <2>2, <2>3 DEF Scanned
  <2>4. CASE k = Len(phrases) + 1
    <3>1. EndIndex(phrases[i]) < scan /\ EndIndex(phrases[i]) \in Nat
      BY <1>8, <2>2
    <3>2. QED
      BY <1>1, <1>4, <2>2, <2>4, <3>1
  <2>5. QED
    BY <1>5, <2>3, <2>4
<1>11. \A e \in Contract!PhraseEnds(gen) :
         e < j + 1 => \E i \in 1 .. Len(phrases') : EndIndex(phrases'[i]) = e
  <2>1. SUFFICES ASSUME NEW e \in Contract!PhraseEnds(gen), e < j + 1
                 PROVE  \E i \in 1 .. Len(phrases') : EndIndex(phrases'[i]) = e
    OBVIOUS
  <2>2. e \in 1 .. Len(gen) /\ gen[e] = RefEnd
    BY DEF Contract!PhraseEnds, Contract!IsPhrase
  <2>3. e # scan
    BY <2>2, LmStageAssumption
  <2>4. CASE e < scan
    <3>1. PICK i \in 1 .. Len(phrases) : EndIndex(phrases[i]) = e
      BY <2>4 DEF Scanned
    <3>2. i \in 1 .. Len(phrases')
      BY <1>1, <1>2
    <3>3. QED
      BY <1>4, <3>1, <3>2
  <2>5. CASE e > scan
    <3>1. e = j
      BY <1>1, <1>6, <2>1, <2>2, <2>5
    <3>2. Len(phrases) + 1 \in 1 .. Len(phrases')
      BY <1>1, <1>2
    <3>3. QED
      BY <1>4, <3>1, <3>2
  <2>6. QED
    BY <1>1, <2>2, <2>3, <2>4, <2>5
<1>12. \A m \in 1 .. (j + 1) - 1 :
         gen[m] = RefStart => \E n \in m + 1 .. (j + 1) - 1 : gen[n] = RefEnd
  <2>1. SUFFICES ASSUME NEW m \in 1 .. (j + 1) - 1, gen[m] = RefStart
                 PROVE  \E n \in m + 1 .. (j + 1) - 1 : gen[n] = RefEnd
    OBVIOUS
  <2>2. m # j
    BY <1>6, <2>1, LmStageAssumption
  <2>3. j \in m + 1 .. (j + 1) - 1
    BY <1>1, <2>2
  <2>4. QED
    BY <1>6, <2>3
<1>13. QED
  BY <1>9, <1>10, <1>11, <1>12 DEF Scanned

(* A start marker that nothing closes: no phrase ends behind it. *)
LEMMA ScanUnclosed ==
  ASSUME Typed, Scanned, scan <= Len(gen), gen[scan] = RefStart, gen' = gen,
         StopsAt(scan, Len(gen) + 1), phrases' = phrases, scan' = Len(gen) + 2
  PROVE  Scanned'
<1>1. Len(gen) \in Nat /\ scan \in Nat \ {0}
  BY EndsInAnswer
<1>3. \A e \in Contract!PhraseEnds(gen) : e < scan
  <2>1. SUFFICES ASSUME NEW e \in Contract!PhraseEnds(gen) PROVE e < scan
    OBVIOUS
  <2>2. e \in 1 .. Len(gen) /\ gen[e] = RefEnd
    BY DEF Contract!PhraseEnds, Contract!IsPhrase
  <2>3. e # scan
    BY <2>2, LmStageAssumption
  <2>4. \A l \in scan + 1 .. Len(gen) : gen[l] # RefEnd
    BY <1>1 DEF StopsAt
  <2>5. QED
    BY <1>1, <2>2, <2>3, <2>4
<1>4. \A e \in Contract!PhraseEnds(gen) : e < Len(gen) + 2
  BY <1>1, EndsInAnswer
<1>5. QED
  BY <1>1, <1>3, <1>4 DEF Scanned

(* A token that opens no phrase closes none either: no phrase is open. *)
LEMMA ScanOther ==
  ASSUME Typed, Scanned, scan <= Len(gen), gen[scan] # RefStart, gen' = gen,
         phrases' = phrases, scan' = scan + 1
  PROVE  Scanned'
<1>1. Len(gen) \in Nat /\ scan \in Nat \ {0} /\ Len(phrases) \in Nat
  BY EndsInAnswer
<1>3. \A m \in 1 .. scan - 1 : gen[m] = RefStart => \E n \in m + 1 .. scan - 1 : gen[n] = RefEnd
  BY DEF Scanned
<1>4. scan \notin Contract!PhraseEnds(gen)
  <2>1. SUFFICES ASSUME NEW s \in 1 .. scan, Contract!IsPhrase(gen, s, scan)
                 PROVE  FALSE
    BY DEF Contract!PhraseEnds
  <2>2. /\ gen[s] = RefStart /\ s \in 1 .. scan - 1
        /\ \A m \in s + 1 .. scan - 1 : gen[m] # RefEnd
    BY <1>1, <2>1 DEF Contract!IsPhrase
  <2>3. QED
    BY <1>3, <2>2
<1>5. \A e \in Contract!PhraseEnds(gen) : e < scan + 1 => e < scan
  <2>1. \A e \in Contract!PhraseEnds(gen) : e # scan /\ e \in Nat
    BY <1>4, EndsInAnswer
  <2>2. QED
    BY <1>1, <2>1
<1>6. \A i \in 1 .. Len(phrases) : EndIndex(phrases[i]) < scan + 1
  <2>1. \A i \in 1 .. Len(phrases) : EndIndex(phrases[i]) < scan /\ EndIndex(phrases[i]) \in Nat
    BY EndsInAnswer DEF Scanned
  <2>2. QED
    BY <1>1, <2>1
<1>7. ASSUME NEW m \in 1 .. (scan + 1) - 1, gen[m] = RefStart
      PROVE  \E n \in m + 1 .. (scan + 1) - 1 : gen[n] = RefEnd
  <2>1. m \in 1 .. scan - 1
    BY <1>1, <1>7
  <2>2. PICK n \in m + 1 .. scan - 1 : gen[n] = RefEnd
    BY <1>3, <1>7, <2>1
  <2>3. n \in m + 1 .. (scan + 1) - 1
    BY <1>1
  <2>4. QED
    BY <2>2, <2>3
<1>8. QED
  BY <1>5, <1>6, <1>7 DEF Scanned

LEMMA ScanStepOK ==
  ASSUME Typed, ScanInv, ScanStep
  PROVE  Scanned'
<1>1. pc = "scan" /\ scan <= Len(gen) /\ gen' = gen /\ Scanned
  BY DEF ScanStep, ScanInv
<1>2. Len(gen) \in Nat /\ scan \in Nat \ {0}
  BY EndsInAnswer
<1>3. CASE gen[scan] # RefStart
  BY <1>1, <1>3, ScanOther DEF ScanStep
<1>4. CASE gen[scan] = RefStart
  <2>1. PICK j \in scan + 1 .. Len(gen) + 1 :
          /\ StopsAt(scan, j) /\ scan' = j + 1
          /\ phrases' = IF j <= Len(gen) THEN Append(phrases, PhraseAt(scan, j)) ELSE phrases
    BY <1>4 DEF ScanStep, ScanAfter
  <2>2. CASE j <= Len(gen)
    <3>1. j \in scan + 1 .. Len(gen) /\ phrases' = Append(phrases, PhraseAt(scan, j))
      BY <1>2, <2>1, <2>2
    <3>2. QED
      BY <1>1, <1>4, <2>1, <3>1, ScanPhrase
  <2>3. CASE ~ (j <= Len(gen))
    <3>1. j = Len(gen) + 1 /\ scan' = Len(gen) + 2 /\ phrases' = phrases
      BY <1>2, <2>1, <2>3
    <3>2. QED
      BY <1>1, <1>4, <2>1, <3>1, ScanUnclosed
  <2>4. QED
    BY <2>2, <2>3
<1>5. QED
  BY <1>3, <1>4

LEMMA ScanStart ==
  ASSUME Typed, scan = 1, phrases = <<>>
  PROVE  Scanned
BY EndsInAnswer DEF Scanned

LEMMA ScanInvStep ==
  ASSUME Typed, Typed', ScanInv, [Next]_vars
  PROVE  ScanInv'
<1>1. CASE Setup \/ (\E t \in Vocab : Generate(t)) \/ NoLogits \/ BudgetSpent
  <2>1. pc \in {"setup", "generate"} /\ scan' = 1 /\ phrases' = <<>>
    BY <1>1 DEF Setup, Generate, NoLogits, BudgetSpent, ScanInv, Typed, Progress
  <2>2. pc' \in {"setup", "generate", "scan", "failed"}
    BY <1>1 DEF Setup, Generate, NoLogits, BudgetSpent
  <2>3. Scanned'
    <3>1. \A e \in Contract!PhraseEnds(gen') : e \in Nat /\ e >= 1
      BY DEF Typed, TypeOK, Contract!PhraseEnds
    <3>2. QED
      BY <2>1, <3>1 DEF Scanned
  <2>4. QED
    BY <2>1, <2>2, <2>3 DEF ScanInv
<1>2. CASE ScanStep
  BY <1>2, ScanStepOK DEF ScanInv, ScanStep
<1>3. CASE LoadQueries
  <2>1. UNCHANGED <<gen, scan, phrases>> /\ pc = "scan" /\ scan > Len(gen) /\ phrases # <<>>
    BY <1>3, EndsInAnswer DEF LoadQueries
  <2>2. Scanned'
    BY <2>1 DEF Scanned, ScanInv
  <2>3. QED
    BY <1>3, <2>1, <2>2 DEF ScanInv, LoadQueries
<1>4. CASE CannotDetokenize \/ TextOnly
  <2>1. UNCHANGED <<gen, scan, phrases>> /\ pc = "scan" /\ pc' \in {"failed", "text"}
    BY <1>4 DEF CannotDetokenize, TextOnly
  <2>2. Scanned'
    BY <2>1 DEF Scanned, ScanInv
  <2>3. QED
    BY <2>1, <2>2 DEF ScanInv
<1>5. CASE Branch \/ Inject \/ ReadRows \/ PushSegOut \/ Finish
  <2>1. /\ UNCHANGED <<gen, scan, phrases>> /\ pc \in {"branch", "inject", "read", "push"}
        /\ pc' \notin {"setup", "generate"}
    BY <1>5 DEF Branch, Inject, ReadRows, PushSegOut, Finish
  <2>2. Scanned' /\ scan' > Len(gen') /\ phrases' # <<>>
    BY <2>1 DEF Scanned, ScanInv
  <2>3. QED
    BY <2>1, <2>2 DEF ScanInv
<1>6. CASE Stopped \/ UNCHANGED vars
  BY <1>6 DEF Stopped, vars, ScanInv, Scanned
<1>7. QED
  BY <1>1, <1>2, <1>3, <1>4, <1>5, <1>6 DEF Next

-----------------------------------------------------------------------------
(***************************************************************************)
(* Counting phrases.                                                       *)
(***************************************************************************)

EndsUpTo(k) == {EndIndex(phrases[i]) : i \in 1 .. k}

(* SegContract has a Cardinality of its own, the same one. *)
LEMMA SameCardinality == \A S : Contract!Cardinality(S) = Cardinality(S)
BY DEF Contract!Cardinality, Cardinality

LEMMA CountEnds ==
  ASSUME Typed, Scanned, NEW k \in 0 .. Len(phrases)
  PROVE  Cardinality(EndsUpTo(k)) = k
<1> DEFINE f == [i \in 1 .. k |-> EndIndex(phrases[i])]
<1>1. k \in Nat /\ Len(phrases) \in Nat
  BY EndsInAnswer
<1>2. \A i \in 1 .. k : i \in 1 .. Len(phrases) /\ EndIndex(phrases[i]) \in Nat
  BY <1>1, EndsInAnswer DEF Scanned
<1>3. ASSUME NEW i \in 1 .. k, NEW j \in 1 .. k, f[i] = f[j]
      PROVE  i = j
  <2>1. EndIndex(phrases[i]) = EndIndex(phrases[j]) /\ EndIndex(phrases[i]) \in Nat
    BY <1>2, <1>3
  <2>2. /\ i < j => EndIndex(phrases[i]) < EndIndex(phrases[j])
        /\ j < i => EndIndex(phrases[j]) < EndIndex(phrases[i])
    BY <1>2 DEF Scanned
  <2>3. ~ (i < j) /\ ~ (j < i)
    BY <2>1, <2>2
  <2>4. QED
    BY <1>1, <2>3
<1>4. f \in [1 .. k -> EndsUpTo(k)]
  BY DEF EndsUpTo
<1>5. \A e \in EndsUpTo(k) : \E i \in 1 .. k : f[i] = e
  BY DEF EndsUpTo
<1> HIDE DEF f
<1>6. f \in Bijection(1 .. k, EndsUpTo(k))
  BY <1>3, <1>4, <1>5, Fun_IsBij
<1>7. ExistsBijection(1 .. k, EndsUpTo(k))
  BY <1>6 DEF ExistsBijection
<1>8. QED
  BY <1>1, <1>7, FS_CountingElements

(* When the loop is through, the recorded phrases are all there are.        *)
LEMMA AllEnds ==
  ASSUME Typed, Scanned, scan > Len(gen)
  PROVE  Contract!PhraseEnds(gen) = EndsUpTo(Len(phrases))
<1>1. \A e \in Contract!PhraseEnds(gen) : e < scan
  BY EndsInAnswer
<1>2. QED
  BY <1>1 DEF Scanned, EndsUpTo

LEMMA EndsBefore ==
  ASSUME Typed, Scanned, scan > Len(gen), NEW k \in 1 .. Len(phrases)
  PROVE  {e \in Contract!PhraseEnds(gen) : e < EndIndex(phrases[k])} = EndsUpTo(k - 1)
<1>1. Len(phrases) \in Nat /\ k \in Nat
  BY EndsInAnswer
<1>2. \A i \in 1 .. Len(phrases) : EndIndex(phrases[i]) \in Nat
  BY EndsInAnswer DEF Scanned
<1>3. ASSUME NEW i \in 1 .. Len(phrases)
      PROVE  EndIndex(phrases[i]) < EndIndex(phrases[k]) <=> i \in 1 .. k - 1
  <2>1. /\ i < k => EndIndex(phrases[i]) < EndIndex(phrases[k])
        /\ k < i => EndIndex(phrases[k]) < EndIndex(phrases[i])
    BY DEF Scanned
  <2>2. i < k \/ i = k \/ k < i
    BY <1>1
  <2>3. EndIndex(phrases[i]) < EndIndex(phrases[k]) <=> i < k
    BY <1>2, <2>1, <2>2
  <2>4. QED
    BY <1>1, <2>3
<1>4. 1 .. k - 1 \subseteq 1 .. Len(phrases)
  BY <1>1
<1>5. QED
  BY <1>3, <1>4, AllEnds DEF EndsUpTo

-----------------------------------------------------------------------------
(***************************************************************************)
(* Every step is a step of the contract, or none.                          *)
(***************************************************************************)

RefineInv == StageInv /\ RowsInv /\ SegOutsFaithful /\ ScanInv

LEMMA RefineTyped == RefineInv => Typed
BY DEF RefineInv, StageInv, AnswerInv

LEMMA AnsweringRefined ==
  ASSUME Typed, Setup \/ (\E t \in Vocab : Generate(t)) \/ NoLogits \/ BudgetSpent
  PROVE  Contract!Next
<1>1. /\ status = "answering" /\ status' \in {"answering", "delivering", "failed"}
      /\ segOuts' = segOuts
  BY DEF Setup, Generate, NoLogits, BudgetSpent, status
<1>2. gen' = gen \/ \E t \in Vocab : gen' = Append(gen, t)
  BY DEF Setup, Generate, NoLogits, BudgetSpent
<1>3. QED
  BY <1>1, <1>2 DEF Contract!Next, Contract!Answer

LEMMA FailureRefined ==
  ASSUME UNCHANGED <<gen, segOuts>>, pc \in {"scan", "branch", "inject", "read", "push"},
         pc' \in {"scan", "branch", "inject", "read", "push", "failed"}
  PROVE  [Contract!Next]_Contract!vars
<1>1. status = "delivering" /\ status' \in {"delivering", "failed"}
  BY DEF status
<1>2. QED
  BY <1>1 DEF Contract!Next, Contract!Fail, Contract!vars

LEMMA TextRefined ==
  ASSUME RefineInv, TextOnly
  PROVE  Contract!Next
<1>1. /\ pc = "scan" /\ scan > Len(gen) /\ phrases = <<>> /\ pc' = "text"
      /\ UNCHANGED <<gen, segOuts>> /\ Typed /\ Scanned /\ segOuts = <<>>
  BY RefineTyped, EndsInAnswer DEF TextOnly, RefineInv, ScanInv, Typed, Progress
<1>2. Contract!PhraseEnds(gen) = {}
  BY <1>1, AllEnds DEF EndsUpTo
<1>3. Len(segOuts) = Contract!Cardinality(Contract!PhraseEnds(gen))
  BY <1>1, <1>2, SameCardinality, FS_EmptySet
<1>4. status = "delivering" /\ status' = "text"
  BY <1>1 DEF status
<1>5. QED
  BY <1>1, <1>2, <1>3, <1>4 DEF Contract!Next, Contract!Complete

LEMMA FinishRefined ==
  ASSUME RefineInv, Finish
  PROVE  Contract!Next
<1>1. /\ pc = "branch" /\ scan > Len(gen) /\ phrases # <<>> /\ pc' = "detr"
      /\ UNCHANGED <<gen, segOuts>> /\ Typed /\ Scanned /\ Len(segOuts) = Len(phrases)
  BY RefineTyped DEF Finish, RefineInv, ScanInv
<1>2. Len(phrases) \in Nat /\ Len(phrases) > 0
  BY <1>1 DEF Typed, TypeOK
<1>3. Contract!PhraseEnds(gen) = EndsUpTo(Len(phrases))
  BY <1>1, AllEnds
<1>4. Cardinality(EndsUpTo(Len(phrases))) = Len(phrases)
  <2>1. Len(phrases) \in 0 .. Len(phrases)
    BY <1>2
  <2>2. QED
    BY <1>1, <2>1, CountEnds
<1>5. Contract!PhraseEnds(gen) # {}
  BY <1>2, <1>3 DEF EndsUpTo
<1>6. status = "delivering" /\ status' = "complete"
  BY <1>1 DEF status
<1>7. QED
  BY <1>1, <1>3, <1>4, <1>5, <1>6, SameCardinality DEF Contract!Next, Contract!Complete

LEMMA PushRefined ==
  ASSUME RefineInv, PushSegOut
  PROVE  Contract!Next
<1> DEFINE k == Len(segOuts) + 1
           e == EndIndex(phrases[k])
<1>1. /\ pc = "push" /\ pc' = "branch" /\ gen' = gen
      /\ segOuts' = Append(segOuts, segOut)
      /\ Typed /\ Scanned /\ scan > Len(gen) /\ iter = NIter
      /\ Len(segOuts) < Len(phrases)
  BY RefineTyped DEF PushSegOut, RefineInv, ScanInv, Typed, Progress
<1>2. Len(segOuts) \in Nat /\ Len(phrases) \in Nat /\ k \in 1 .. Len(phrases) /\ k - 1 = Len(segOuts)
  BY <1>1 DEF Typed, TypeOK
<1>3. e \in Contract!PhraseEnds(gen)
  BY <1>1, <1>2 DEF Scanned
<1>4. Contract!Cardinality({f \in Contract!PhraseEnds(gen) : f < e}) = Len(segOuts)
  <2>1. {f \in Contract!PhraseEnds(gen) : f < e} = EndsUpTo(k - 1)
    BY <1>1, <1>2, EndsBefore
  <2>2. k - 1 \in 0 .. Len(phrases)
    BY <1>2
  <2>3. QED
    BY <1>1, <1>2, <2>1, <2>2, CountEnds, SameCardinality
<1>5. segOut = Contract!PhraseOutput(gen, e)
  <2>1. NQ \in Nat /\ 2 * iter - 1 = NQ - 1
    BY <1>1, NQNat
  <2>2. segOut \in [0 .. NQ - 1 -> Rows \cup {ZeroRow}]
    BY <1>1 DEF Typed, TypeOK
  <2>3. \A i \in 0 .. NQ - 1 : segOut[i] = Contract!SegOutput(gen, e, i)
    BY <1>1, <2>1 DEF RefineInv, RowsInv, Current
  <2>4. QED
    BY <2>2, <2>3 DEF Contract!PhraseOutput
<1>6. status = "delivering" /\ status' = status
  BY <1>1 DEF status
<1> HIDE DEF e
<1>7. Contract!Deliver
  BY <1>1, <1>3, <1>4, <1>5, <1>6 DEF Contract!Deliver
<1>8. QED
  BY <1>7 DEF Contract!Next

LEMMA StepRefined ==
  ASSUME RefineInv, [Next]_vars
  PROVE  [Contract!Next]_Contract!vars
<1>1. Typed
  BY RefineTyped
<1>2. CASE Setup \/ (\E t \in Vocab : Generate(t)) \/ NoLogits \/ BudgetSpent
  BY <1>1, <1>2, AnsweringRefined
<1>3. CASE ScanStep \/ CannotDetokenize \/ LoadQueries
  BY <1>3, FailureRefined DEF ScanStep, CannotDetokenize, LoadQueries
<1>4. CASE Branch \/ Inject \/ ReadRows
  BY <1>4, FailureRefined DEF Branch, Inject, ReadRows
<1>5. CASE TextOnly
  BY <1>5, TextRefined
<1>6. CASE Finish
  BY <1>6, FinishRefined
<1>7. CASE PushSegOut
  BY <1>7, PushRefined
<1>8. CASE Stopped \/ UNCHANGED vars
  <2>1. UNCHANGED <<pc, gen, segOuts>>
    BY <1>8 DEF Stopped, vars
  <2>2. QED
    BY <2>1 DEF status, Contract!vars
<1>9. QED
  BY <1>2, <1>3, <1>4, <1>5, <1>6, <1>7, <1>8 DEF Next

(* Stage 3, with its KV memory, its branches and its five injections per    *)
(* phrase, delivers what SegContract says, which knows none of them: the    *)
(* phrases of the answer, all of them and in order, each with the outputs   *)
(* of its own queries.  Rows are counted as the comment in main says.       *)
THEOREM StageImplementsContract ==
  ASSUME RowConvention
  PROVE  Spec => ImplementsContract
<1>1. Init => Contract!Init
  BY DEF Init, Contract!Init, status
<1>2. Init => RowsInv /\ SegOutsFaithful /\ ScanInv
  BY DEF Init, RowsInv, SegOutsFaithful, ScanInv
<1>3. Spec => []StageInv
  BY PhraseInvAlways, PTL DEF StageInv
<1>4. StageInv /\ RowsInv /\ [Next]_vars => RowsInv'
  BY RowsStep
<1>5. StageInv /\ RowsInv /\ SegOutsFaithful /\ [Next]_vars => SegOutsFaithful'
  BY FaithfulStep, TypedStep DEF StageInv, AnswerInv
<1>6. StageInv /\ ScanInv /\ [Next]_vars => ScanInv'
  BY ScanInvStep, TypedStep DEF StageInv, AnswerInv
<1>7. StageInv /\ RowsInv /\ SegOutsFaithful /\ ScanInv /\ [Next]_vars
        => [Contract!Next]_Contract!vars
  BY StepRefined DEF RefineInv
<1>8. QED
  BY <1>1, <1>2, <1>3, <1>4, <1>5, <1>6, <1>7, PTL
     DEF Spec, ImplementsContract, Contract!Spec
=============================================================================
