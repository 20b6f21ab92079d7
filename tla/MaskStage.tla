----------------------------- MODULE MaskStage -----------------------------
(***************************************************************************)
(* main of tools/instructsam.cpp from its options to its exit code.  The   *)
(* language-model stage is one step here, and delivers what SegContract    *)
(* says, which LmStage implements.  For each phrase the text tensor and    *)
(* its mask are built and run through the DETR encoder, the DETR decoder,  *)
(* the prompt cross-attention and the scoring head; then pred_masks.f32,   *)
(* one PNG per phrase and the overlay are written, into a directory that   *)
(* is taken to be empty.                                                   *)
(*                                                                         *)
(* Tensors are abstracted to what they are computed from.  An attention    *)
(* over the text is the set of rows that its mask leaves visible; a mask   *)
(* tensor is the record of its queries and of the rows that every          *)
(* attention on its way saw.                                               *)
(***************************************************************************)
EXTENDS Integers, Sequences, FiniteSets

CONSTANTS
  Tokens,                     \* the vocabulary without the end marker
  RefStart, RefEnd, PadToken, \* 151646, 151647, and token 0 used as padding
  PhraseMax,                  \* rows of the text tensor (kPhraseMax, 32)
  NSlots,                     \* mask slots per phrase (10)
  MaxScore,                   \* bound: scores are 0 .. MaxScore
  NaN,
  Answers,                    \* what the language model may answer
  MaskStart, MaskQuery(_), PrefillCells, NPast0  \* as in SegContract

ASSUME MaskStageAssumption ==
  /\ PhraseMax \in Nat \ {0, 1} /\ NSlots \in Nat \ {0} /\ MaxScore \in Nat
  /\ Answers \subseteq Seq(Tokens \cup {RefEnd})
  /\ RefStart \in Tokens /\ RefEnd \notin Tokens /\ PadToken \notin Tokens \cup {RefEnd}
  /\ NPast0 \in Nat
  /\ NaN \notin 0 .. MaxScore

VARIABLES
  pc,
  answer,        \* gen_tokens
  phraseTokens,  \* phrase_tokens, as stage 3 left it
  segOuts,       \* seg_outs, as stage 3 left it
  text,          \* phrase_padded: the token embedded in each row
  mask,          \* text_mask: 1 or 0 for each row
  seen,          \* for each attention of the current phrase, the rows it saw
  masks,         \* per_obj_masks
  scores,        \* per_obj_cls_scores
  blob,          \* phrases whose masks pred_masks.f32 holds, or Cut
  pngs,          \* <<phrase, slot>> of the PNGs on disk
  shown,         \* per_obj_binary: slots of the phrases gone through
  overlay,       \* the slots overlay.png shows
  overrun        \* a phrase was written past the end of the text tensor

lmVars == <<answer, phraseTokens, segOuts>>
vars == <<pc, lmVars, text, mask, seen, masks, scores, blob, pngs, shown,
          overlay, overrun>>

Rows == 0 .. PhraseMax - 1
Slots == 0 .. NSlots - 1
Readers == {"encoder", "decoder", "prompt", "pool"}

NoRows == [r \in Readers |-> {}]

Init ==
  /\ pc = "load"
  /\ answer = <<>> /\ phraseTokens = <<>> /\ segOuts = <<>>
  /\ text = [i \in Rows |-> PadToken] /\ mask = [i \in Rows |-> 0]
  /\ seen = NoRows
  /\ masks = <<>> /\ scores = <<>>
  /\ blob = <<>> /\ pngs = {} /\ shown = <<>> /\ overlay = <<>>
  /\ overrun = FALSE

laterVars == <<text, mask, seen, masks, scores, blob, pngs, shown, overlay, overrun>>

(* --help ends main with 0, a grounding or language model that cannot be   *)
(* opened with 2 or 3; a weight or a tokenizer that is missing throws.     *)
Load ==
  /\ pc = "load"
  /\ pc' \in {"preprocess", "help", "nogrounding", "nolm", "failed"}
  /\ UNCHANGED lmVars /\ UNCHANGED laterVars

(* load_image_pixel_values *)
Preprocess ==
  /\ pc = "preprocess"
  /\ pc' \in {"vision", "failed"}
  /\ UNCHANGED lmVars /\ UNCHANGED laterVars

(* The features are read from three files or, with --run-vision, computed. *)
VisionStage ==
  /\ pc = "vision"
  /\ pc' \in {"language", "failed"}
  /\ UNCHANGED lmVars /\ UNCHANGED laterVars

Contract == INSTANCE SegContract
              WITH Vocab <- Tokens \cup {RefEnd}, NQ <- NSlots,
                   status <- pc, response <- answer, delivered <- segOuts

(* The end markers of the phrases of response r, in order. *)
InOrder(r, ends) ==
  /\ {ends[i] : i \in DOMAIN ends} = Contract!PhraseEnds(r)
  /\ \A i, j \in DOMAIN ends : i < j => ends[i] < ends[j]

StartOf(r, e) == CHOOSE s \in 1 .. e : Contract!IsPhrase(r, s, e)

PhraseTokens(r, ends) ==
  [i \in 1 .. Len(ends) |-> SubSeq(r, StartOf(r, ends[i]) + 1, ends[i] - 1)]

SegOuts(r, ends) == [i \in 1 .. Len(ends) |-> Contract!PhraseOutput(r, ends[i])]

(* Stage 3 delivers the phrases of the answer in order, each with the       *)
(* outputs of the contract; without any, main prints it and returns 0.      *)
Language ==
  /\ pc = "language"
  /\ \/ \E r \in Answers :
          \E ends \in [1 .. Cardinality(Contract!PhraseEnds(r)) -> Contract!PhraseEnds(r)] :
            /\ InOrder(r, ends)
            /\ answer' = r
            /\ phraseTokens' = PhraseTokens(r, ends) /\ segOuts' = SegOuts(r, ends)
            /\ pc' = IF ends = <<>> THEN "text" ELSE "embed"
     \/ pc' = "failed" /\ UNCHANGED lmVars
  /\ UNCHANGED laterVars

Obj == Len(masks) + 1

(* The ids of a phrase: the markers are put back around its tokens. *)
PhraseIds(tokens) == <<RefStart>> \o tokens \o <<RefEnd>>

TextRows(ids) == [i \in Rows |-> IF i < Len(ids) THEN ids[i + 1] ELSE PadToken]

\* Faulty: the closing marker is not counted as valid.
TextMaskShort(ids) == [i \in Rows |-> IF i < Len(ids) - 1 THEN 1 ELSE 0]

TextMask(ids) == [i \in Rows |-> IF i < Len(ids) THEN 1 ELSE 0]

(* Rows past the end of the tensor are written without a check: the process *)
(* is lost there, or goes on with the rows that exist.                      *)
Embed ==
  /\ pc = "embed" /\ Obj <= Len(phraseTokens)
  /\ LET ids == PhraseIds(phraseTokens[Obj])
     IN /\ text' = TextRows(ids) /\ mask' = TextMask(ids)
        /\ overrun' = (overrun \/ Len(ids) > PhraseMax)
        /\ pc' = "encode" \/ (Len(ids) > PhraseMax /\ pc' = "failed")
  /\ seen' = NoRows
  /\ UNCHANGED <<lmVars, masks, scores, blob, pngs, shown, overlay>>

(* InstructsamDetrEncoder::run: text_mask above 0.5 is attended to. *)
EncoderSees(m) == {i \in Rows : m[i] = 1}

(* InstructsamDecoder::run: text_mask above 0.5 gets minus infinity. *)
DecoderSees(m) == {i \in Rows : m[i] # 1}

\* Faulty: the padding is attended to as well.
PromptSeesAll(m) == Rows

(* InstructsamPromptCrossAttn::run: prompt_mask above 0.5 is attended to. *)
PromptSees(m) == {i \in Rows : m[i] = 1}

(* dot_prod_scoring: rows whose text_mask is zero are left out of the mean. *)
PoolSees(m) == {i \in Rows : m[i] # 0}

See(reader, rows) == seen' = [seen EXCEPT ![reader] = rows]

Encode ==
  /\ pc = "encode"
  /\ See("encoder", EncoderSees(mask))
  /\ pc' = "decode"
  /\ UNCHANGED <<lmVars, text, mask, masks, scores, blob, pngs, shown, overlay, overrun>>

Decode ==
  /\ pc = "decode"
  /\ See("decoder", DecoderSees(mask))
  /\ pc' = "prompt"
  /\ UNCHANGED <<lmVars, text, mask, masks, scores, blob, pngs, shown, overlay, overrun>>

PromptCrossAttn ==
  /\ pc = "prompt"
  /\ See("prompt", PromptSees(mask))
  /\ pc' = "score"
  /\ UNCHANGED <<lmVars, text, mask, masks, scores, blob, pngs, shown, overlay, overrun>>

(* A softmax over no row at all is not a number, and nor is then any query. *)
QueriesAreNaN == seen["decoder"] = {}

ClsScores ==
  IF QueriesAreNaN THEN {[s \in Slots |-> NaN]} ELSE [Slots -> 0 .. MaxScore]

\* Faulty: the queries of the last phrase are used for every phrase.
QueriesOfLast(i) == segOuts[Len(segOuts)]

(* seg_outs[pi], which mask_hidden_fcs makes the queries of the decoder. *)
QueriesOf(i) == segOuts[i]

(* Pixel decoder, mask tail and scoring head; then per_obj_cls_scores and   *)
(* per_obj_masks each get the entry of this phrase.  What throws in between *)
(* ends main, which looks at neither of them again (Throw).                 *)
Score ==
  /\ pc = "score"
  /\ See("pool", PoolSees(mask))
  /\ \E cls \in ClsScores : scores' = Append(scores, cls)
  /\ masks' = Append(masks, [text |-> text, queries |-> QueriesOf(Obj), seen |-> seen'])
  /\ pc' = "embed"
  /\ UNCHANGED <<lmVars, text, mask, blob, pngs, shown, overlay, overrun>>

(* A component throws, or the blob cannot be opened; nothing is undone. *)
Throw ==
  /\ pc \in {"embed", "encode", "decode", "prompt", "score"}
  /\ pc' = "failed"
  /\ UNCHANGED <<lmVars, text, mask, seen, masks, scores, blob, pngs, shown, overlay, overrun>>

\* Faulty: the blob is written as soon as there is a mask to write.
AllScoredOrSome == masks # <<>>

AllScored == Obj > Len(phraseTokens)

(* The place of a mask that is in the file in part. *)
Cut == 0

Written(n) == [i \in 1 .. n |-> i]

(* write_bin_f32 throws when the write fails, leaving what got written, but *)
(* looks at the stream only before its destructor writes what it still has: *)
(* of the last mask the end may be lost, and nobody is told.                *)
WriteBlob ==
  /\ pc = "embed" /\ AllScored
  /\ \/ blob' = Written(Len(masks)) /\ pc' = "image"
     \/ blob' = [Written(Len(masks)) EXCEPT ![Len(masks)] = Cut] /\ pc' = "image"
     \/ /\ \E n \in 0 .. Len(masks) - 1 : blob' = Written(n)
        /\ pc' = "failed"
  /\ UNCHANGED <<lmVars, text, mask, seen, masks, scores, pngs, shown, overlay, overrun>>

(* stbi_load: without the image no PNG is written, and main still returns 0. *)
LoadImage ==
  /\ pc = "image"
  /\ pc' \in {"png", "noimage"}
  /\ UNCHANGED <<lmVars, text, mask, seen, masks, scores, blob, pngs, shown, overlay, overrun>>

Greater(x, y) == x # NaN /\ y # NaN /\ x > y

\* Faulty: a later slot with the same score wins, and NaN wins over all.
BestSlotLast(cls) ==
  LET best[s \in Slots] == IF s = 0 THEN 0
                           ELSE IF Greater(cls[best[s - 1]], cls[s]) THEN best[s - 1] ELSE s
  IN best[NSlots - 1]

(* The argmax loop: a slot wins if its score is above the best one so far. *)
BestSlot(cls) ==
  LET best[s \in Slots] == IF s = 0 THEN 0
                           ELSE IF Greater(cls[s], cls[best[s - 1]]) THEN s ELSE best[s - 1]
  IN best[NSlots - 1]

(* The result of stbi_write_png is not looked at: the file may be missing. *)
WritePng ==
  /\ pc = "png" /\ Len(shown) < Len(phraseTokens)
  /\ LET i == Len(shown) + 1
         slot == BestSlot(scores[i])
     IN /\ shown' = Append(shown, slot)
        /\ pngs' \in {pngs, pngs \cup {<<i, slot>>}}
  /\ UNCHANGED <<pc, lmVars, text, mask, seen, masks, scores, blob, overlay, overrun>>

WriteOverlay ==
  /\ pc = "png" /\ Len(shown) = Len(phraseTokens)
  /\ overlay' \in {overlay, shown}
  /\ pc' = "done"
  /\ UNCHANGED <<lmVars, text, mask, seen, masks, scores, blob, pngs, shown, overrun>>

ExitsZero == pc \in {"help", "text", "noimage", "done"}

Terminal == ExitsZero \/ pc \in {"nogrounding", "nolm", "failed"}

Stopped == Terminal /\ UNCHANGED vars

Next ==
  \/ Load \/ Preprocess \/ VisionStage \/ Language
  \/ Embed \/ Encode \/ Decode \/ PromptCrossAttn \/ Score \/ Throw
  \/ WriteBlob \/ LoadImage \/ WritePng \/ WriteOverlay
  \/ Stopped

Spec == Init /\ [][Next]_vars

-----------------------------------------------------------------------------
(***************************************************************************)
(* Properties.                                                             *)
(***************************************************************************)

Scores == [Slots -> 0 .. MaxScore] \cup {[s \in Slots |-> NaN]}
BestSlots == {BestSlot(c) : c \in Scores}
Words == Tokens \cup {RefEnd}

TypeOK ==
  /\ pc \in {"load", "preprocess", "vision", "language", "embed", "encode", "decode",
             "prompt", "score", "image", "png", "help", "nogrounding", "nolm", "text",
             "done", "noimage", "failed"}
  /\ answer \in Seq(Words) /\ phraseTokens \in Seq(Seq(Words))
  /\ text \in [Rows -> Words \cup {PadToken}] /\ mask \in [Rows -> {0, 1}]
  /\ seen \in [Readers -> SUBSET Rows]
  /\ masks \in Seq([text : [Rows -> Words \cup {PadToken}],
                    queries : {segOuts[i] : i \in DOMAIN segOuts},
                    seen : [Readers -> SUBSET Rows]])
  /\ scores \in Seq(Scores)
  /\ blob \in Seq(Nat) /\ shown \in Seq(BestSlots) /\ overlay \in Seq(BestSlots)
  /\ pngs \subseteq (1 .. Len(phraseTokens)) \X BestSlots
  /\ overrun \in BOOLEAN

(* The two halves of the pipeline meet in one mask: its queries are the     *)
(* hidden states read after the i-th phrase of the answer, and its text is  *)
(* what the answer says from the start marker of that phrase to its end.    *)
MaskIsOfItsPhrase ==
  \A i \in 1 .. Len(masks) : \E s, e \in 1 .. Len(answer) :
    /\ Contract!IsPhrase(answer, s, e)
    /\ Cardinality({f \in Contract!PhraseEnds(answer) : f < e}) = i - 1
    /\ masks[i].queries = Contract!PhraseOutput(answer, e)
    /\ ~ overrun => \A k \in s .. e : masks[i].text[k - s] = answer[k]

(* The ids that an attention of phrase i took part in, in order. *)
SeenIds(i, reader) ==
  LET rows == masks[i].seen[reader]
  IN {<<r, masks[i].text[r]>> : r \in rows}

PhrasePairs(i) ==
  LET ids == PhraseIds(phraseTokens[i]) IN {<<k - 1, ids[k]>> : k \in DOMAIN ids}

(* The encoder, the prompt cross-attention and the scoring head all read   *)
(* the same tensor, 1.0 = valid, and each of them sees exactly the phrase  *)
(* with its two markers and none of the padding.                           *)
PhraseIsSeen ==
  ~ overrun =>
    \A i \in 1 .. Len(masks) : \A reader \in {"encoder", "prompt", "pool"} :
      SeenIds(i, reader) = PhrasePairs(i)

(* tools/instructsam.cpp:167: "text_mask: [T] 1.0 = valid, 0.0 = pad": the *)
(* decoder, which is handed the same tensor, sees the phrase too.          *)
DecoderSeesPhrase ==
  ~ overrun => \A i \in 1 .. Len(masks) : SeenIds(i, "decoder") = PhrasePairs(i)

(* Scores that are not numbers come from the phrases that fill the text     *)
(* tensor to its last row, and from no other.                               *)
NaNOnlyFromFullPhrases ==
  \A i \in 1 .. Len(scores) :
    (\E s \in Slots : scores[i][s] = NaN)
      <=> Len(PhraseIds(phraseTokens[i])) >= PhraseMax

(* The slot shown for a phrase is the first of those its scores put on top. *)
BestSlotShown ==
  \A i \in 1 .. Len(shown) :
    /\ \A s \in Slots : ~ Greater(scores[i][s], scores[i][shown[i]])
    /\ \A s \in 0 .. shown[i] - 1 : Greater(scores[i][shown[i]], scores[i][s])

(* When the blob must be there. *)
Owed ==
  \/ blob # <<>> /\ pc # "failed"
  \/ pngs # {} \/ overlay # <<>>
  \/ ExitsZero /\ Contract!PhraseEnds(answer) # {}

(* The blob holds the masks of n phrases in order, but for an end that was  *)
(* lost when the file was closed.                                           *)
BlobHolds(n) ==
  /\ DOMAIN blob = 1 .. n
  /\ \A i \in 1 .. n : blob[i] = i \/ (i = n /\ blob[i] = Cut)

(* What is on disk is consistent at every moment, a failure included: main  *)
(* returns 0 after an answer with phrases only when the blob has a mask for *)
(* each of them, the last one perhaps cut; a blob that lacks a phrase is    *)
(* left by a run that fails and by no other, no PNG or overlay is there     *)
(* without the blob, and no PNG is of a slot other than the one the overlay *)
(* shows.                                                                   *)
FilesConsistent ==
  /\ Owed => BlobHolds(Cardinality(Contract!PhraseEnds(answer)))
  /\ overlay # <<>> => Len(overlay) = Len(phraseTokens)
  /\ overlay # <<>> => \A p \in pngs : overlay[p[1]] = p[2]
=============================================================================
