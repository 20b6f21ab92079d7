------------------------------ MODULE LmStage ------------------------------
(***************************************************************************)
(* Stage 3 of tools/instructsam.cpp: the prompt is evaluated into sequence *)
(* 0 of the llama context, the answer is decoded greedily onto it, the     *)
(* phrases of the answer are extracted, and for each phrase the mask       *)
(* queries are injected five times on sequence 1, a trimmed branch of      *)
(* sequence 0, two outputs being read each time.                           *)
(***************************************************************************)
EXTENDS Integers, Sequences, FiniteSets, LlamaMemory

CONSTANTS
  Vocab,             \* the vocabulary
  RefStart, RefEnd,  \* <|object_ref_start|>, <|object_ref_end|>
  StopTokens,        \* <|im_end|> and the end-of-sequence token
  MaxNewTokens,      \* --max-new-tokens
  PrefillCells,      \* cells the prompt and the image take in sequence 0
  NPast0,            \* n_past after the prompt
  NIter,             \* injections per phrase (5), each reading two outputs
  MaskStart, MaskEnd, MaskQuery(_),  \* the injected embeddings
  ZeroRow            \* what a zero-filled slot of seg_out holds

NQ == 2 * NIter      \* mask queries per phrase (10)

ASSUME LmStageAssumption ==
  /\ {RefStart, RefEnd} \subseteq Vocab /\ StopTokens \subseteq Vocab
  /\ RefStart # RefEnd /\ {RefStart, RefEnd} \cap StopTokens = {}
  /\ MaxNewTokens \in Int
  /\ NPast0 \in Nat /\ NIter \in Nat \ {0}
  /\ \A c \in PrefillCells :
       c.pos \in 0 .. NPast0 - 1 /\ c = [pos |-> c.pos, item |-> c.item]
  /\ NSeqMax \in Nat \ {0} /\ SeqCap \in Nat /\ ReadBy \in {"row", "token"}

VARIABLES
  pc,
  gen,      \* gen_tokens
  npast,    \* n_past
  kv,       \* the KV memory: the cells of sequences 0 and 1
  scan,     \* index of the phrase extraction loop (from 1)
  phrases,  \* phrase_tokens with phrase_ref_end_pos
  iter,     \* injections done for the current phrase
  out,      \* rows the last injection left for llama_get_embeddings_ith
  segOut,   \* seg_out: one entry per mask query of the current phrase
  segOuts,  \* seg_outs: the finished phrases
  live      \* the llama and mtmd objects not yet freed

vars == <<pc, gen, npast, kv, scan, phrases, iter, out, segOut, segOuts, live>>

EmptySegOut == [k \in 0 .. NQ - 1 |-> ZeroRow]

Acquired == <<"model", "ctx", "mtmd", "bitmap", "chunks">>

\* Faulty: the image is not freed.
CleanedUpButBitmap == {"chunks", "mtmd", "ctx", "model"}
CleanedUp == {"chunks", "bitmap", "mtmd", "ctx", "model"}

Init ==
  /\ pc = "setup"
  /\ gen = <<>> /\ npast = 0
  /\ kv = [s \in {0, 1} |-> {}]
  /\ scan = 1 /\ phrases = <<>>
  /\ iter = 0 /\ out = <<>> /\ segOut = EmptySegOut /\ segOuts = <<>>
  /\ live = {}

(* Load the model, make the context and the projector, tokenise and         *)
(* evaluate the prompt.  Each step throws when it fails, freeing nothing.   *)
Setup ==
  /\ pc = "setup"
  /\ UNCHANGED <<gen, scan, phrases, iter, out, segOut, segOuts>>
  /\ \/ /\ pc' = "generate"
        /\ kv' = [kv EXCEPT ![0] = PrefillCells]
        /\ npast' = NPast0
        /\ live' = {Acquired[i] : i \in 1 .. 5} \cup {"bat"}
     \/ /\ pc' = "failed"
        /\ \E n \in 0 .. 5 : live' = {Acquired[i] : i \in 1 .. n}
        /\ UNCHANGED <<kv, npast>>

\* Faulty: the position is advanced before it is used.
GenCellLate(p, t) == Cell(p + 1, t)

GenCell(p, t) == Cell(p, t)

(* One turn of the decoding loop.  The argmax token is recorded; a stop     *)
(* token ends the loop before it is decoded, any other token is decoded at  *)
(* position n_past++, and a decode that fails, as it must when the sequence *)
(* is full, throws.                                                         *)
Generate(t) ==
  /\ pc = "generate" /\ Len(gen) < MaxNewTokens
  /\ gen' = Append(gen, t)
  /\ \/ /\ t \in StopTokens
        /\ pc' = "scan" /\ live' = live \ {"bat"}
        /\ UNCHANGED <<npast, kv>>
     \/ /\ t \notin StopTokens /\ Fits(kv, 0, 1)
        /\ kv' = Decoded(kv, 0, {GenCell(npast, t)})
        /\ npast' = npast + 1
        /\ UNCHANGED <<pc, live>>
     \/ /\ t \notin StopTokens
        /\ npast' = npast + 1
        /\ pc' = "failed" /\ UNCHANGED <<kv, live>>
  /\ UNCHANGED <<scan, phrases, iter, out, segOut, segOuts>>

(* There are no logits to take the argmax of: the loop throws. *)
NoLogits ==
  /\ pc = "generate" /\ Len(gen) < MaxNewTokens
  /\ pc' = "failed"
  /\ UNCHANGED <<gen, npast, kv, scan, phrases, iter, out, segOut, segOuts, live>>

(* The loop ran --max-new-tokens times (not at all if that is not positive). *)
BudgetSpent ==
  /\ pc = "generate" /\ Len(gen) >= MaxNewTokens
  /\ pc' = "scan" /\ live' = live \ {"bat"}
  /\ UNCHANGED <<gen, npast, kv, scan, phrases, iter, out, segOut, segOuts>>

(* The inner loop, from the start marker at i, stops at j: at the first end *)
(* marker after i, or past the answer if there is none.                     *)
StopsAt(i, j) ==
  /\ \A l \in i + 1 .. j - 1 : gen[l] # RefEnd
  /\ j <= Len(gen) => gen[j] = RefEnd

\* Faulty: an index of the answer counted from one is taken for an offset.
RefEndPosLate(j) == NPast0 + j

(* The token at index j of the answer lives at this position of sequence 0. *)
RefEndPos(j) == NPast0 + (j - 1)

PhraseAt(i, j) ==
  [tokens |-> SubSeq(gen, i + 1, j - 1), refEnd |-> RefEndPos(j)]

\* Faulty: a start marker that nothing closes does not end the loop.
ScanAfterUnclosed(i, j) == IF j > Len(gen) THEN i ELSE j + 1

(* Where the outer loop goes on after the markers at i and j (i = j; ++i). *)
ScanAfter(i, j) == j + 1

(* One turn of the extraction loop. *)
ScanStep ==
  /\ pc = "scan" /\ scan <= Len(gen)
  /\ \/ /\ gen[scan] = RefStart
        /\ \E j \in scan + 1 .. Len(gen) + 1 :
             /\ StopsAt(scan, j)
             /\ phrases' = IF j <= Len(gen)
                             THEN Append(phrases, PhraseAt(scan, j))
                             ELSE phrases
             /\ scan' = ScanAfter(scan, j)
     \/ gen[scan] # RefStart /\ scan' = scan + 1 /\ UNCHANGED phrases
  /\ UNCHANGED <<pc, gen, npast, kv, iter, out, segOut, segOuts, live>>

(* The whole answer, before the loop, or the phrase at hand has no text:    *)
(* InstructsamTokenizer::detokenize throws.                                 *)
CannotDetokenize ==
  /\ pc = "scan"
  /\ \/ scan = 1
     \/ /\ scan <= Len(gen) /\ gen[scan] = RefStart
        /\ \E j \in scan + 1 .. Len(gen) : gen[j] = RefEnd
  /\ pc' = "failed"
  /\ UNCHANGED <<gen, npast, kv, scan, phrases, iter, out, segOut, segOuts, live>>

(* No phrase: the answer is printed, everything is freed, main returns 0. *)
TextOnly ==
  /\ pc = "scan" /\ scan > Len(gen) /\ phrases = <<>>
  /\ pc' = "text" /\ live' = live \ CleanedUp
  /\ UNCHANGED <<gen, npast, kv, scan, phrases, iter, out, segOut, segOuts>>

(* The mask queries are read and checked, and the embeddings of the mask    *)
(* tokens are looked up; a bad file or an unsupported embedding type throws. *)
LoadQueries ==
  /\ pc = "scan" /\ scan > Len(gen) /\ phrases # <<>>
  /\ pc' \in {"branch", "failed"}
  /\ UNCHANGED <<gen, npast, kv, scan, phrases, iter, out, segOut, segOuts, live>>

Current == phrases[Len(segOuts) + 1]

\* Faulty: one token of what follows the phrase is left in the branch.
TrimFromLate(p) == p + 2

TrimFrom(p) == p + 1

\* Faulty: the branch of the injection before is not dropped first.
BranchedOver(m, p) == SeqRm(SeqCp(m, 0, 1), 1, TrimFrom(p))

(* A fresh branch of sequence 0, trimmed to just past the phrase. *)
Branched(m, p) ==
  SeqRm(SeqCp(SeqRm(m, 1, 0), 0, 1), 1, TrimFrom(p))

Branch ==
  /\ pc = "branch" /\ Len(segOuts) < Len(phrases)
  /\ kv' = Branched(kv, Current.refEnd)
  /\ pc' = "inject" /\ live' = live \cup {"pb"}
  /\ UNCHANGED <<gen, npast, scan, phrases, iter, out, segOut, segOuts>>

BatchItem(i) ==
  IF i = 0 THEN MaskStart ELSE IF i = NQ + 1 THEN MaskEnd ELSE MaskQuery(i - 1)

BatchBase(p) == p + 1

Batch(p) == {Cell(BatchBase(p) + i, BatchItem(i)) : i \in 0 .. NQ + 1}

\* Faulty: <mask_start> at index 0 of the batch is forgotten.
MarksFromZero(n) == {2 * n, 2 * n + 1}

(* The batch indices asked for in injection n: mask queries 2n and 2n + 1. *)
Marks(n) == {1 + 2 * n, 1 + 2 * n + 1}

\* Faulty: the queries are decoded into the sequence that holds the answer.
InjectSeqAnswer == 0

InjectSeq == 1

Inject ==
  /\ pc = "inject"
  /\ \/ /\ Fits(kv, InjectSeq, NQ + 2)
        /\ kv' = Decoded(kv, InjectSeq, Batch(Current.refEnd))
        /\ out' = [k \in {0, 1} |->
                     EmbeddingsIth(kv', InjectSeq,
                       BatchBase(Current.refEnd), Marks(iter), k)]
        /\ pc' = "read"
     \/ pc' = "failed" /\ UNCHANGED <<kv, out>>
  /\ UNCHANGED <<gen, npast, scan, phrases, iter, segOut, segOuts, live>>

(* The slot of seg_out that row k of injection n is copied to. *)
SlotOf(n, k) == 2 * n + k

(* The two rows are copied out; the first one that is null throws. *)
ReadRows ==
  /\ pc = "read"
  /\ \/ /\ Null \notin {out[0], out[1]}
        /\ segOut' = [segOut EXCEPT ![SlotOf(iter, 0)] = out[0],
                                    ![SlotOf(iter, 1)] = out[1]]
        /\ pc' = IF iter + 1 < NIter THEN "branch" ELSE "push"
        /\ iter' = iter + 1 /\ live' = live \ {"pb"}
     \/ /\ segOut' = segOut
        /\ pc' = "failed" /\ UNCHANGED <<iter, live>>
     \/ /\ out[0] # Null
        /\ segOut' = [segOut EXCEPT ![SlotOf(iter, 0)] = out[0]]
        /\ pc' = "failed" /\ UNCHANGED <<iter, live>>
  /\ UNCHANGED <<gen, npast, kv, scan, phrases, out, segOuts>>

\* Faulty: the count of injections is not restarted for the next phrase.
PushSegOutKeepingIter ==
  /\ pc = "push"
  /\ segOuts' = Append(segOuts, segOut)
  /\ segOut' = EmptySegOut
  /\ pc' = "branch"
  /\ UNCHANGED <<gen, npast, kv, scan, phrases, iter, out, live>>

(* seg_outs.push_back, and a new zero-filled seg_out for the next phrase. *)
PushSegOut ==
  /\ pc = "push"
  /\ segOuts' = Append(segOuts, segOut)
  /\ segOut' = EmptySegOut /\ iter' = 0
  /\ pc' = "branch"
  /\ UNCHANGED <<gen, npast, kv, scan, phrases, out, live>>

(* Every phrase has its outputs: free everything and go on to the masks. *)
Finish ==
  /\ pc = "branch" /\ Len(segOuts) = Len(phrases)
  /\ pc' = "detr" /\ live' = live \ CleanedUp
  /\ UNCHANGED <<gen, npast, kv, scan, phrases, iter, out, segOut, segOuts>>

Terminal == pc \in {"detr", "text", "failed"}

Stopped == Terminal /\ UNCHANGED vars

Next ==
  \/ Setup \/ (\E t \in Vocab : Generate(t)) \/ NoLogits \/ BudgetSpent
  \/ ScanStep \/ CannotDetokenize \/ TextOnly \/ LoadQueries
  \/ Branch \/ Inject \/ ReadRows \/ PushSegOut \/ Finish
  \/ Stopped

Spec == Init /\ [][Next]_vars

(* The stage is straight-line code: it never waits for anything. *)
FairSpec == Spec /\ WF_vars(Next)

-----------------------------------------------------------------------------
(***************************************************************************)
(* Properties.                                                             *)
(***************************************************************************)

status ==
  CASE pc \in {"setup", "generate"} -> "answering"
    [] pc = "failed" -> "failed"
    [] pc = "text"   -> "text"
    [] pc = "detr"   -> "complete"
    [] OTHER         -> "delivering"

Contract == INSTANCE SegContract WITH response <- gen, delivered <- segOuts

(* The stage delivers what SegContract promises: exactly the phrases the   *)
(* answer marks, in order, each with the hidden states of the ten queries  *)
(* read right after it, whatever the answer went on to say and whatever    *)
(* earlier injections left in the KV memory.                               *)
ImplementsContract == Contract!Spec

Cells == [pos : Nat, item : Vocab \cup {c.item : c \in PrefillCells}
                             \cup {MaskStart, MaskEnd} \cup {MaskQuery(i) : i \in 0 .. NQ - 1}]
Rows == (SUBSET Cells) \cup {NaN, Null}

TypeOK ==
  /\ pc \in {"setup", "generate", "scan", "branch", "inject", "read", "push",
             "detr", "text", "failed"}
  /\ gen \in Seq(Vocab) /\ npast \in Nat
  /\ kv \in [{0, 1} -> SUBSET Cells]
  /\ scan \in Nat \ {0}
  /\ phrases \in Seq([tokens : Seq(Vocab), refEnd : Nat])
  /\ iter \in 0 .. NIter
  /\ out \in {<<>>} \cup [{0, 1} -> Rows]
  /\ segOut \in [0 .. NQ - 1 -> Rows \cup {ZeroRow}]
  /\ segOuts \in Seq([0 .. NQ - 1 -> Rows \cup {ZeroRow}])
  /\ live \subseteq {"model", "ctx", "mtmd", "bitmap", "chunks", "bat", "pb"}

(* Sequence 0 holds the prompt and then the answer, token j of the answer  *)
(* at position n_past_prefill + j, all but a final stop token, which the   *)
(* loop records but never decodes.                                         *)
AnswerInKv ==
  pc \notin {"setup", "failed"} =>
    /\ npast - NPast0 \in {Len(gen), Len(gen) - 1}
    /\ npast - NPast0 # Len(gen) => gen[Len(gen)] \in StopTokens
    /\ kv[0] = PrefillCells \cup
                 {Cell(NPast0 + j - 1, gen[j]) : j \in 1 .. npast - NPast0}

(* The tokens of a phrase, which become its text features, are the ones    *)
(* that end at the position its mask queries are injected after: the two   *)
(* halves of the pipeline speak of the same phrase.                        *)
PhraseMatchesKv ==
  \A i \in 1 .. Len(phrases) :
    LET p == phrases[i]
        n == Len(p.tokens)
    IN /\ Cell(p.refEnd, RefEnd) \in kv[0]
       /\ \A m \in 1 .. n : Cell(p.refEnd - n - 1 + m, p.tokens[m]) \in kv[0]
       /\ Cell(p.refEnd - n - 1, RefStart) \in kv[0]

(* Every finished slot of every phrase holds the hidden state of its own   *)
(* mask query on the prefix that ends with the phrase: never a row of      *)
(* another injection, of another phrase, of a later token, or NaN.         *)
SegOutsFaithful ==
  /\ Len(segOuts) <= Len(phrases)
  /\ \A i \in 1 .. Len(segOuts) : \A k \in 0 .. NQ - 1 :
       segOuts[i][k] = Contract!SegOutput(gen, phrases[i].refEnd - NPast0 + 1, k)

(* Both ways out of the stage that are not exceptions free everything. *)
NothingLeftLive == pc \in {"text", "detr"} => live = {}

(* Once the answer is complete no step touches sequence 0, so that every   *)
(* phrase is branched off the same answer.                                 *)
AnswerFrozen ==
  [][pc \notin {"setup", "generate"} => gen' = gen /\ kv'[0] = kv[0]]_vars

(* The stage ends: with masks to compute, a text answer, or an exception. *)
Terminates == <>Terminal

=============================================================================
