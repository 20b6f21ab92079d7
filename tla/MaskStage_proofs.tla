-------------------------- MODULE MaskStage_proofs --------------------------
(***************************************************************************)
(* Proofs about MaskStage for every vocabulary, every set of answers, and  *)
(* text tensors and mask slots of any number.                              *)
(***************************************************************************)
EXTENDS MaskStage, Lemmas, FiniteSetTheorems, SequenceTheorems

-----------------------------------------------------------------------------
(***************************************************************************)
(* Phrases of an answer, counted.                                          *)
(***************************************************************************)

PhraseEnds(r) == Contract!PhraseEnds(r)
IsPhrase(r, s, e) == Contract!IsPhrase(r, s, e)

Ends(r) == {ends \in [1 .. Cardinality(PhraseEnds(r)) -> PhraseEnds(r)] : InOrder(r, ends)}

LEMMA PhraseEndsFinite ==
  ASSUME NEW r \in Seq(Words)
  PROVE  /\ PhraseEnds(r) \subseteq 1 .. Len(r)
         /\ IsFiniteSet(PhraseEnds(r)) /\ Cardinality(PhraseEnds(r)) \in Nat
<1>1. Len(r) \in Nat /\ IsFiniteSet(1 .. Len(r))
  BY FS_Interval, LenProperties
<1>2. PhraseEnds(r) \subseteq 1 .. Len(r)
  BY DEF PhraseEnds, Contract!PhraseEnds
<1>3. QED
  BY <1>1, <1>2, FS_Subset, FS_CardinalityType

LEMMA EndsCounted ==
  ASSUME NEW r \in Seq(Words), NEW ends \in Ends(r), NEW i \in DOMAIN ends
  PROVE  /\ ends[i] \in PhraseEnds(r)
         /\ Cardinality({f \in PhraseEnds(r) : f < ends[i]}) = i - 1
<1> DEFINE n == Cardinality(PhraseEnds(r))
           F == {f \in PhraseEnds(r) : f < ends[i]}
           g == [j \in 1 .. i - 1 |-> ends[j]]
<1>1. n \in Nat /\ PhraseEnds(r) \subseteq 1 .. Len(r) /\ Len(r) \in Nat
  BY PhraseEndsFinite, LenProperties
<1>2. /\ DOMAIN ends = 1 .. n /\ i \in 1 .. n
      /\ \A j \in 1 .. n : ends[j] \in PhraseEnds(r) /\ ends[j] \in Int
      /\ PhraseEnds(r) = {ends[j] : j \in 1 .. n}
      /\ \A j, k \in 1 .. n : j < k => ends[j] < ends[k]
  BY <1>1 DEF Ends, InOrder, PhraseEnds
<1> HIDE DEF n
<1>3. \A j \in 1 .. i - 1 : j \in 1 .. n /\ j < i
  BY <1>1, <1>2
<1>4. g \in [1 .. i - 1 -> F]
  BY <1>2, <1>3
<1>5. \A j, k \in 1 .. i - 1 : g[j] = g[k] => j = k
  <2>1. SUFFICES ASSUME NEW j \in 1 .. i - 1, NEW k \in 1 .. i - 1, ends[j] = ends[k]
                 PROVE  j = k
    OBVIOUS
  <2>2. j \in 1 .. n /\ k \in 1 .. n /\ ends[j] \in Int /\ ends[k] \in Int
    BY <1>2, <1>3
  <2>3. (j < k => ends[j] < ends[k]) /\ (k < j => ends[k] < ends[j])
    BY <1>2, <2>2
  <2>4. j \in Int /\ k \in Int /\ ~ (ends[j] < ends[k]) /\ ~ (ends[k] < ends[j])
    BY <1>1, <2>1, <2>2
  <2>5. QED
    BY <2>3, <2>4
<1>6. \A f \in F : \E j \in 1 .. i - 1 : g[j] = f
  <2>1. SUFFICES ASSUME NEW f \in F PROVE \E j \in 1 .. i - 1 : ends[j] = f
    OBVIOUS
  <2>2. PICK j \in 1 .. n : ends[j] = f
    BY <1>2
  <2>3. ends[j] < ends[i] /\ ends[i] \in Int /\ ends[j] \in Int
    BY <1>2, <2>2
  <2>4. i < j => ends[i] < ends[j]
    BY <1>2
  <2>5. ~ (ends[i] < ends[j]) /\ ends[i] # ends[j]
    BY <2>3
  <2>6. j \in Int /\ i \in Int /\ j # i /\ ~ (i < j)
    BY <1>1, <1>2, <2>4, <2>5
  <2>7. j \in 1 .. i - 1
    BY <2>6
  <2>8. QED
    BY <2>2, <2>7
<1>7. g \in Bijection(1 .. i - 1, F)
  BY <1>4, <1>5, <1>6 DEF Bijection, Injection, Surjection, IsInjective
<1>8. QED
  BY <1>2, <1>7, FS_CountingElements DEF ExistsBijection

(* A phrase as it is delivered: the tokens between its markers. *)
LEMMA StartsAtMarker ==
  ASSUME NEW r \in Seq(Words), NEW e \in PhraseEnds(r)
  PROVE  StartOf(r, e) \in 1 .. e /\ IsPhrase(r, StartOf(r, e), e)
BY DEF PhraseEnds, IsPhrase, StartOf, Contract!PhraseEnds

LEMMA PhraseTokensAre ==
  ASSUME NEW r \in Seq(Words), NEW e \in PhraseEnds(r)
  PROVE  LET s == StartOf(r, e)
             tokens == SubSeq(r, s + 1, e - 1)
         IN /\ tokens \in Seq(Words) /\ Len(tokens) = e - s - 1
            /\ \A k \in 1 .. e - s - 1 : tokens[k] = r[s + k]
            /\ s \in Nat /\ e \in 1 .. Len(r) /\ 1 <= s /\ s < e
            /\ r[s] = RefStart /\ r[e] = RefEnd
<1> DEFINE s == StartOf(r, e)
<1>1. e \in 1 .. Len(r) /\ Len(r) \in Nat
  BY PhraseEndsFinite, LenProperties
<1>2. s \in 1 .. e /\ s < e /\ r[s] = RefStart /\ r[e] = RefEnd
  BY StartsAtMarker DEF IsPhrase, Contract!IsPhrase
<1> HIDE DEF s
<1>3. s + 1 \in 1 .. Len(r) + 1 /\ e - 1 \in s .. Len(r)
  BY <1>1, <1>2
<1>4. /\ SubSeq(r, s + 1, e - 1) \in Seq(Words)
      /\ Len(SubSeq(r, s + 1, e - 1)) = e - s - 1
      /\ \A k \in 1 .. e - s - 1 : SubSeq(r, s + 1, e - 1)[k] = r[s + k]
  BY <1>1, <1>2, <1>3
<1>5. QED
  BY <1>1, <1>2, <1>4 DEF s

LEMMA PhraseIdsAre ==
  ASSUME NEW tokens \in Seq(Words)
  PROVE  /\ PhraseIds(tokens) \in Seq(Words) /\ Len(PhraseIds(tokens)) = Len(tokens) + 2
         /\ PhraseIds(tokens)[1] = RefStart
         /\ PhraseIds(tokens)[Len(tokens) + 2] = RefEnd
         /\ \A k \in 1 .. Len(tokens) : PhraseIds(tokens)[k + 1] = tokens[k]
<1>1. RefStart \in Words /\ RefEnd \in Words
  BY MaskStageAssumption DEF Words
<1>2. QED
  BY <1>1 DEF PhraseIds

-----------------------------------------------------------------------------
(***************************************************************************)
(* The inductive invariant.                                                *)
(***************************************************************************)

(* What stage 3 has delivered: the phrases of an answer, in order. *)
Delivered ==
  \E ends \in Ends(answer) :
    phraseTokens = PhraseTokens(answer, ends) /\ segOuts = SegOuts(answer, ends)

Ids(i) == PhraseIds(phraseTokens[i])

Seen(m) == [reader \in Readers |-> IF reader = "decoder" THEN DecoderSees(m) ELSE PromptSees(m)]

MaskOf(i) ==
  [text |-> TextRows(Ids(i)), queries |-> segOuts[i], seen |-> Seen(TextMask(Ids(i)))]

Prelude == {"load", "preprocess", "vision", "language"}
Networks == {"encode", "decode", "prompt", "score"}
Outputs == {"image", "png", "noimage", "done"}

(* How far the current phrase has come. *)
Current ==
  /\ pc \in Networks =>
       /\ Obj <= Len(phraseTokens) /\ text = TextRows(Ids(Obj)) /\ mask = TextMask(Ids(Obj))
       /\ Len(Ids(Obj)) > PhraseMax => overrun
  /\ pc \in {"decode", "prompt", "score"} => seen["encoder"] = PromptSees(mask)
  /\ pc \in {"prompt", "score"} => seen["decoder"] = DecoderSees(mask)
  /\ pc = "score" => seen["prompt"] = PromptSees(mask)

(* What the phrases before it have left. *)
Finished ==
  /\ Len(masks) = Len(scores) /\ Len(masks) <= Len(phraseTokens)
  /\ \A i \in 1 .. Len(masks) :
       /\ masks[i] = MaskOf(i)
       /\ Len(Ids(i)) > PhraseMax => overrun
       /\ (\E s \in Slots : scores[i][s] = NaN) <=> DecoderSees(TextMask(Ids(i))) = {}

(* What is on disk at each point of main. *)
OnDisk ==
  /\ pc \in Prelude \cup {"help", "text"} => phraseTokens = <<>> /\ masks = <<>>
  /\ pc \in Prelude \cup Networks \cup {"embed", "help", "text", "nogrounding", "nolm"} =>
       blob = <<>>
  /\ pc \in Outputs =>
       Len(masks) = Len(phraseTokens) /\ BlobHolds(Len(masks))
  /\ pc \notin {"png", "done"} => shown = <<>> /\ pngs = {}
  /\ pc # "done" => overlay = <<>>
  /\ Len(shown) <= Len(phraseTokens)
  /\ \A p \in pngs : p[1] \in 1 .. Len(shown) /\ p[2] = shown[p[1]]
  /\ overlay # <<>> => overlay = shown /\ Len(shown) = Len(phraseTokens)

IInv == TypeOK /\ Delivered /\ Current /\ Finished /\ OnDisk

LEMMA NothingDelivered ==
  /\ Ends(<<>>) = {<<>>} /\ PhraseEnds(<<>>) = {}
  /\ PhraseTokens(<<>>, <<>>) = <<>> /\ SegOuts(<<>>, <<>>) = <<>>
<1>1. PhraseEnds(<<>>) = {}
  BY DEF PhraseEnds, Contract!PhraseEnds
<1>2. Cardinality(PhraseEnds(<<>>)) = 0
  BY <1>1, FS_EmptySet
<1>3. [1 .. 0 -> {}] = {<<>>}
  <2>1. 1 .. 0 = {}
    OBVIOUS
  <2>2. \A f \in [{} -> {}] : f = <<>>
    <3>1. SUFFICES ASSUME NEW f \in [{} -> {}] PROVE f = <<>>
      OBVIOUS
    <3>2. f = [x \in {} |-> f[x]] /\ <<>> = [x \in {} |-> f[x]]
      OBVIOUS
    <3>3. QED
      BY <3>2
  <2>3. <<>> \in [{} -> {}]
    OBVIOUS
  <2>4. QED
    BY <2>1, <2>2, <2>3
<1>4. InOrder(<<>>, <<>>)
  BY <1>1 DEF InOrder, PhraseEnds
<1>5. Ends(<<>>) = {<<>>}
  BY <1>1, <1>2, <1>3, <1>4 DEF Ends
<1>6. QED
  BY <1>1, <1>5 DEF PhraseTokens, SegOuts

LEMMA EmptySequences ==
  ASSUME NEW S
  PROVE  <<>> \in Seq(S) /\ Len(<<>>) = 0
OBVIOUS

LEMMA InitInv == Init => IInv
<1> SUFFICES ASSUME Init PROVE IInv
  OBVIOUS
<1>1. TypeOK
  <2>1. /\ text \in [Rows -> Words \cup {PadToken}] /\ mask \in [Rows -> {0, 1}]
        /\ seen \in [Readers -> SUBSET Rows]
    BY DEF Init, NoRows
  <2>2. QED
    BY <2>1, EmptySequences DEF Init, TypeOK
<1>2. Delivered
  BY NothingDelivered DEF Init, Delivered
<1>3. Current /\ OnDisk
  BY DEF Init, Current, OnDisk, Networks, Outputs, Prelude
<1>4. Finished
  BY DEF Init, Finished
<1>5. QED
  BY <1>1, <1>2, <1>3, <1>4 DEF IInv

-----------------------------------------------------------------------------
(***************************************************************************)
(* Every step keeps it.                                                    *)
(***************************************************************************)

LEMMA DeliveredTypes ==
  ASSUME TypeOK, Delivered
  PROVE  /\ Len(phraseTokens) \in Nat /\ DOMAIN segOuts = 1 .. Len(phraseTokens)
         /\ \A i \in 1 .. Len(phraseTokens) :
              /\ phraseTokens[i] \in Seq(Words)
              /\ Ids(i) \in Seq(Words) /\ Len(Ids(i)) = Len(phraseTokens[i]) + 2
              /\ TextRows(Ids(i)) \in [Rows -> Words \cup {PadToken}]
              /\ TextMask(Ids(i)) \in [Rows -> {0, 1}]
<1>1. PICK ends \in Ends(answer) :
        phraseTokens = PhraseTokens(answer, ends) /\ segOuts = SegOuts(answer, ends)
  BY DEF Delivered
<1>2. Len(ends) \in Nat
  BY PhraseEndsFinite DEF Ends, TypeOK
<1>3. Len(phraseTokens) = Len(ends) /\ DOMAIN segOuts = 1 .. Len(ends)
  BY <1>1, <1>2 DEF PhraseTokens, SegOuts
<1>4. ASSUME NEW i \in 1 .. Len(phraseTokens)
      PROVE  /\ phraseTokens[i] \in Seq(Words)
             /\ Ids(i) \in Seq(Words) /\ Len(Ids(i)) = Len(phraseTokens[i]) + 2
             /\ TextRows(Ids(i)) \in [Rows -> Words \cup {PadToken}]
             /\ TextMask(Ids(i)) \in [Rows -> {0, 1}]
  <2>1. phraseTokens[i] \in Seq(Words)
    BY DEF TypeOK
  <2>2. Ids(i) \in Seq(Words) /\ Len(Ids(i)) = Len(phraseTokens[i]) + 2
    BY <2>1, PhraseIdsAre DEF Ids
  <2>3. Len(Ids(i)) \in Nat /\ \A k \in 1 .. Len(Ids(i)) : Ids(i)[k] \in Words
    BY <2>2
  <2>4. \A k \in Rows : k < Len(Ids(i)) => k + 1 \in 1 .. Len(Ids(i))
    BY <2>3, MaskStageAssumption DEF Rows
  <2>5. QED
    BY <2>1, <2>2, <2>3, <2>4 DEF TextRows, TextMask
<1>5. QED
  BY <1>2, <1>3, <1>4

(* The four ways of the text mask into an attention are of rows. *)
LEMMA SeenTypes ==
  ASSUME NEW m \in [Rows -> {0, 1}]
  PROVE  /\ EncoderSees(m) = PromptSees(m) /\ PoolSees(m) = PromptSees(m)
         /\ PromptSees(m) \subseteq Rows /\ DecoderSees(m) \subseteq Rows
BY DEF EncoderSees, PromptSees, PoolSees, DecoderSees

LEMMA PreludeStep ==
  ASSUME IInv, Load \/ Preprocess \/ VisionStage
  PROVE  IInv'
<1> USE DEF lmVars, laterVars
<1>1. /\ pc \in Prelude \ {"language"}
      /\ pc' \in Prelude \cup {"help", "nogrounding", "nolm", "failed"}
      /\ UNCHANGED lmVars /\ UNCHANGED laterVars
  BY DEF Load, Preprocess, VisionStage, Prelude
<1>2. TypeOK' /\ Delivered' /\ Finished'
  BY <1>1 DEF IInv, TypeOK, Delivered, Finished, MaskOf, Ids, Prelude
<1>3. Current' /\ OnDisk'
  BY <1>1 DEF IInv, Current, OnDisk, Prelude, Networks, Outputs
<1>4. QED
  BY <1>2, <1>3 DEF IInv

LEMMA LanguageStep ==
  ASSUME IInv, Language
  PROVE  IInv'
<1> USE DEF lmVars, laterVars
<1>1. pc = "language" /\ UNCHANGED laterVars
  BY DEF Language
<1>2. /\ phraseTokens = <<>> /\ masks = <<>> /\ blob = <<>> /\ pngs = {}
      /\ shown = <<>> /\ overlay = <<>> /\ Len(masks) = 0 /\ Len(scores) = 0
  BY <1>1 DEF IInv, OnDisk, Finished, Prelude
<1>3. CASE pc' = "failed" /\ UNCHANGED lmVars
  <2>1. TypeOK' /\ Delivered' /\ Finished'
    <3>1. TypeOK'
      BY <1>1, <1>3 DEF IInv, TypeOK
    <3>2. Delivered'
      BY <1>1, <1>3 DEF IInv, Delivered
    <3>3. Finished'
      BY <1>1, <1>3 DEF IInv, Finished, MaskOf, Ids
    <3>4. QED
      BY <3>1, <3>2, <3>3
  <2>2. Current' /\ OnDisk'
    BY <1>1, <1>2, <1>3 DEF IInv, Current, OnDisk, Prelude, Networks, Outputs
  <2>3. QED
    BY <2>1, <2>2 DEF IInv
<1>4. ASSUME NEW r \in Answers, NEW ends \in Ends(r), answer' = r,
             phraseTokens' = PhraseTokens(r, ends), segOuts' = SegOuts(r, ends),
             pc' = IF ends = <<>> THEN "text" ELSE "embed"
      PROVE  IInv'
  <2>1. r \in Seq(Words)
    BY MaskStageAssumption DEF Words
  <2>2. Delivered'
    BY <1>4 DEF Delivered
  <2>3. Len(ends) \in Nat /\ \A i \in 1 .. Len(ends) : ends[i] \in PhraseEnds(r)
    BY <2>1, PhraseEndsFinite DEF Ends
  <2>4. \A i \in 1 .. Len(ends) :
          SubSeq(r, StartOf(r, ends[i]) + 1, ends[i] - 1) \in Seq(Words)
    BY <2>1, <2>3, PhraseTokensAre
  <2>5. phraseTokens' \in Seq(Seq(Words)) /\ Len(phraseTokens') = Len(ends)
    BY <1>4, <2>3, <2>4 DEF PhraseTokens
  <2>6. TypeOK'
    <3>1. pngs' \subseteq (1 .. Len(phraseTokens')) \X BestSlots
      BY <1>1, <1>2
    <3>2. masks' \in Seq([text : [Rows -> Words \cup {PadToken}],
                          queries : {segOuts'[i] : i \in DOMAIN segOuts'},
                          seen : [Readers -> SUBSET Rows]])
      BY <1>1, <1>2, EmptySequences
    <3>3. pc' \in {"text", "embed"}
      BY <1>4
    <3>4. QED
      BY <1>1, <1>4, <2>1, <2>5, <3>1, <3>2, <3>3 DEF IInv, TypeOK
  <2>7. Finished'
    BY <1>1, <1>2, <2>3, <2>5 DEF Finished
  <2>8. Current'
    BY <1>4 DEF Current, Networks
  <2>9. OnDisk'
    <3>1. ends = <<>> => phraseTokens' = <<>>
      BY <1>4 DEF PhraseTokens
    <3>2. QED
      BY <1>1, <1>2, <1>4, <2>3, <2>5, <3>1 DEF IInv, OnDisk, Prelude, Networks, Outputs
  <2>10. QED
    BY <2>2, <2>6, <2>7, <2>8, <2>9 DEF IInv
<1>5. QED
  BY <1>3, <1>4 DEF Language, Ends, PhraseEnds

(* A step that leaves alone what was delivered, filed and written. *)
LEMMA FiledKept ==
  ASSUME IInv, UNCHANGED <<lmVars, masks, scores, blob, pngs, shown, overlay>>,
         overrun => overrun'
  PROVE  Delivered' /\ Finished'
BY DEF IInv, Delivered, Finished, MaskOf, Ids, lmVars

LEMMA EmbedStep ==
  ASSUME IInv, Embed
  PROVE  IInv'
<1>1. /\ pc = "embed" /\ Obj <= Len(phraseTokens) /\ seen' = NoRows
      /\ text' = TextRows(Ids(Obj)) /\ mask' = TextMask(Ids(Obj))
      /\ overrun' = (overrun \/ Len(Ids(Obj)) > PhraseMax)
      /\ pc' \in {"encode", "failed"}
      /\ UNCHANGED <<lmVars, masks, scores, blob, pngs, shown, overlay>>
  BY DEF Embed, Ids
<1>2. Obj \in 1 .. Len(phraseTokens) /\ overrun \in BOOLEAN
  BY <1>1, DeliveredTypes DEF IInv, TypeOK, Obj
<1>3. Delivered' /\ Finished'
  BY <1>1, <1>2, FiledKept
<1>4. /\ text' \in [Rows -> Words \cup {PadToken}] /\ mask' \in [Rows -> {0, 1}]
      /\ seen' \in [Readers -> SUBSET Rows] /\ overrun' \in BOOLEAN
  BY <1>1, <1>2, DeliveredTypes DEF IInv, NoRows
<1>5. TypeOK'
  BY <1>1, <1>4 DEF IInv, TypeOK, lmVars
<1>6. Current'
  BY <1>1, <1>2 DEF Current, Obj, Ids, lmVars, Networks
<1>7. OnDisk'
  BY <1>1 DEF IInv, OnDisk, lmVars, Prelude, Networks, Outputs
<1>8. QED
  BY <1>3, <1>5, <1>6, <1>7 DEF IInv

(* The networks of a phrase record what they saw. *)
LEMMA NetworkStep ==
  ASSUME IInv, Encode \/ Decode \/ PromptCrossAttn
  PROVE  IInv'
<1> USE DEF Readers
<1>1. /\ pc \in Networks \ {"score"} /\ pc' \in Networks
      /\ UNCHANGED <<lmVars, text, mask, masks, scores, blob, pngs, shown, overlay, overrun>>
  BY DEF Encode, Decode, PromptCrossAttn, Networks
<1>2. Delivered' /\ Finished'
  BY <1>1, FiledKept
<1>3. mask \in [Rows -> {0, 1}] /\ seen \in [Readers -> SUBSET Rows]
  BY DEF IInv, TypeOK
<1>4. seen' \in [Readers -> SUBSET Rows]
  BY <1>3, SeenTypes DEF Encode, Decode, PromptCrossAttn, See
<1>5. TypeOK'
  BY <1>1, <1>4 DEF IInv, TypeOK, lmVars, Networks
<1>6. Current'
  <2>1. /\ Obj' <= Len(phraseTokens') /\ text' = TextRows(Ids(Obj))'
        /\ mask' = TextMask(Ids(Obj))' /\ (Len(Ids(Obj)) > PhraseMax => overrun)'
    BY <1>1 DEF IInv, Current, Obj, Ids, lmVars
  <2>2. CASE Encode
    BY <1>3, <2>1, <2>2, SeenTypes DEF Current, Encode, See, Networks
  <2>3. CASE Decode
    <3>1. pc' = "prompt" /\ mask' = mask /\ seen["encoder"] = PromptSees(mask)
          /\ seen' = [seen EXCEPT !["decoder"] = DecoderSees(mask)]
      BY <2>3 DEF Decode, See, IInv, Current
    <3>2. QED
      BY <1>3, <2>1, <3>1 DEF Current, Networks
  <2>4. CASE PromptCrossAttn
    <3>1. pc' = "score" /\ mask' = mask /\ seen["encoder"] = PromptSees(mask)
          /\ seen["decoder"] = DecoderSees(mask)
          /\ seen' = [seen EXCEPT !["prompt"] = PromptSees(mask)]
      BY <2>4 DEF PromptCrossAttn, See, IInv, Current
    <3>2. QED
      BY <1>3, <2>1, <3>1 DEF Current, Networks
  <2>5. QED
    BY <2>2, <2>3, <2>4
<1>7. OnDisk'
  BY <1>1 DEF IInv, OnDisk, lmVars, Prelude, Networks, Outputs
<1>8. QED
  BY <1>2, <1>5, <1>6, <1>7 DEF IInv

LEMMA ScoresAreNaN ==
  ASSUME NEW c \in ClsScores
  PROVE  c \in Scores /\ ((\E s \in Slots : c[s] = NaN) <=> QueriesAreNaN)
<1>1. 0 \in Slots
  BY MaskStageAssumption DEF Slots
<1>2. CASE QueriesAreNaN
  BY <1>1, <1>2 DEF ClsScores, Scores
<1>3. CASE ~ QueriesAreNaN
  BY <1>3, MaskStageAssumption DEF ClsScores, Scores
<1>4. QED
  BY <1>2, <1>3

LEMMA ScoreStep ==
  ASSUME IInv, Score
  PROVE  IInv'
<1>1. /\ pc = "score" /\ pc' = "embed"
      /\ seen' = [seen EXCEPT !["pool"] = PoolSees(mask)]
      /\ masks' = Append(masks, [text |-> text, queries |-> segOuts[Obj], seen |-> seen'])
      /\ UNCHANGED <<lmVars, text, mask, blob, pngs, shown, overlay, overrun>>
  BY DEF Score, See, QueriesOf
<1>2. PICK cls \in ClsScores : scores' = Append(scores, cls)
  BY DEF Score
<1>3. /\ Obj \in 1 .. Len(phraseTokens) /\ Obj = Len(masks) + 1 /\ Len(masks) \in Nat
      /\ text = TextRows(Ids(Obj)) /\ mask = TextMask(Ids(Obj))
      /\ Len(Ids(Obj)) > PhraseMax => overrun
      /\ seen["encoder"] = PromptSees(mask) /\ seen["decoder"] = DecoderSees(mask)
      /\ seen["prompt"] = PromptSees(mask)
  BY <1>1, DeliveredTypes DEF IInv, Current, Obj, TypeOK, Networks
<1>4. seen \in [Readers -> SUBSET Rows] /\ mask \in [Rows -> {0, 1}]
  BY DEF IInv, TypeOK
<1>5. seen' = Seen(mask) /\ seen' \in [Readers -> SUBSET Rows]
  BY <1>1, <1>3, <1>4, SeenTypes DEF Seen, Readers
<1>6. masks' = Append(masks, MaskOf(Obj))
  BY <1>1, <1>3, <1>5 DEF MaskOf
<1> DEFINE Filed == [text : [Rows -> Words \cup {PadToken}],
                     queries : {segOuts[i] : i \in DOMAIN segOuts},
                     seen : [Readers -> SUBSET Rows]]
<1>7. MaskOf(Obj) \in Filed
  <2>1. segOuts[Obj] \in {segOuts[i] : i \in DOMAIN segOuts}
    BY <1>3, DeliveredTypes DEF IInv
  <2>2. text \in [Rows -> Words \cup {PadToken}] /\ Seen(mask) \in [Readers -> SUBSET Rows]
    BY <1>5 DEF IInv, TypeOK
  <2>3. QED
    BY <1>3, <2>1, <2>2 DEF MaskOf
<1> HIDE DEF Filed
<1>8. masks \in Seq(Filed) /\ scores \in Seq(Scores) /\ cls \in Scores
  BY ScoresAreNaN DEF IInv, TypeOK, Filed
<1>9. masks' \in Seq(Filed) /\ scores' \in Seq(Scores)
  BY <1>2, <1>6, <1>7, <1>8
<1>10. TypeOK'
  BY <1>1, <1>5, <1>9 DEF IInv, TypeOK, lmVars, Filed
<1>11. Delivered'
  BY <1>1 DEF IInv, Delivered, lmVars
<1>12. Finished'
  <2>1. /\ Len(masks) = Len(scores) /\ Len(masks') = Len(masks) + 1
        /\ Len(scores') = Len(scores) + 1
    BY <1>2, <1>6, <1>8 DEF IInv, Finished
  <2>2. UNCHANGED <<phraseTokens, segOuts, overrun>>
    BY <1>1 DEF lmVars
  <2>3. ASSUME NEW i \in 1 .. Len(masks)
        PROVE  masks'[i] = masks[i] /\ scores'[i] = scores[i]
    BY <1>2, <1>6, <1>8, <2>1
  <2>4. masks'[Obj] = MaskOf(Obj) /\ scores'[Obj] = cls
    BY <1>2, <1>3, <1>6, <1>8, <2>1
  <2>5. (\E s \in Slots : cls[s] = NaN) <=> DecoderSees(TextMask(Ids(Obj))) = {}
    BY <1>3, ScoresAreNaN DEF QueriesAreNaN
  <2>6. ASSUME NEW i \in 1 .. Len(masks')
        PROVE  /\ masks'[i] = MaskOf(i)
               /\ Len(Ids(i)) > PhraseMax => overrun
               /\ (\E s \in Slots : scores'[i][s] = NaN)
                    <=> DecoderSees(TextMask(Ids(i))) = {}
    <3>1. CASE i \in 1 .. Len(masks)
      BY <2>3, <3>1 DEF IInv, Finished
    <3>2. CASE i = Obj
      BY <1>3, <2>4, <2>5, <3>2
    <3>3. QED
      BY <1>3, <2>1, <3>1, <3>2
  <2>7. \A i \in 1 .. Len(masks') : MaskOf(i)' = MaskOf(i) /\ Ids(i)' = Ids(i)
    BY <2>2 DEF MaskOf, Ids
  <2>8. QED
    BY <1>3, <2>1, <2>2, <2>6, <2>7 DEF Finished
<1>13. Current'
  BY <1>1 DEF Current, Networks
<1>14. OnDisk'
  BY <1>1 DEF IInv, OnDisk, lmVars, Prelude, Networks, Outputs
<1>15. QED
  BY <1>10, <1>11, <1>12, <1>13, <1>14 DEF IInv

LEMMA ThrowStep ==
  ASSUME IInv, Throw
  PROVE  IInv'
<1>1. /\ pc \in Networks \cup {"embed"} /\ pc' = "failed"
      /\ UNCHANGED <<lmVars, text, mask, seen, masks, scores, blob, pngs, shown, overlay, overrun>>
  BY DEF Throw, Networks
<1>2. Delivered' /\ Finished'
  BY <1>1, FiledKept
<1>3. TypeOK' /\ Current' /\ OnDisk'
  BY <1>1 DEF IInv, TypeOK, Current, OnDisk, lmVars, Prelude, Networks, Outputs
<1>4. QED
  BY <1>2, <1>3 DEF IInv

LEMMA WriteBlobStep ==
  ASSUME IInv, WriteBlob
  PROVE  IInv'
<1>1. /\ pc = "embed" /\ Obj > Len(phraseTokens) /\ pc' \in {"image", "failed"}
      /\ UNCHANGED <<lmVars, text, mask, seen, masks, scores, pngs, shown, overlay, overrun>>
  BY DEF WriteBlob, AllScored
<1>2. /\ Len(masks) \in Nat /\ Len(phraseTokens) \in Nat /\ Len(masks) <= Len(phraseTokens)
  BY DEF IInv, TypeOK, Finished
<1>3. Len(masks) = Len(phraseTokens)
  BY <1>1, <1>2 DEF Obj
<1>4. masks' = masks
  BY <1>1
<1>5. blob' \in Seq(Nat) /\ (pc' = "image" => BlobHolds(Len(masks))')
  <2>1. CASE blob' = Written(Len(masks))
    BY <1>2, <1>4, <2>1 DEF Written, BlobHolds
  <2>2. CASE blob' = [Written(Len(masks)) EXCEPT ![Len(masks)] = Cut]
    <3>1. DOMAIN blob' = 1 .. Len(masks)
      BY <2>2 DEF Written
    <3>2. \A i \in 1 .. Len(masks) : blob'[i] = IF i = Len(masks) THEN Cut ELSE i
      BY <2>2 DEF Written
    <3>3. blob' = [i \in 1 .. Len(masks) |-> blob'[i]]
      BY <2>2 DEF Written
    <3>4. \A i \in 1 .. Len(masks) : blob'[i] \in Nat
      BY <1>2, <3>2 DEF Cut
    <3>5. blob' \in Seq(Nat)
      BY <1>2, <3>3, <3>4
    <3>6. QED
      BY <1>4, <3>1, <3>2, <3>5 DEF BlobHolds
  <2>3. CASE pc' = "failed" /\ \E n \in 0 .. Len(masks) - 1 : blob' = Written(n)
    BY <1>2, <2>3 DEF Written
  <2>4. QED
    BY <2>1, <2>2, <2>3 DEF WriteBlob
<1>6. Delivered' /\ Finished'
  BY <1>1 DEF IInv, Delivered, Finished, MaskOf, Ids, lmVars
<1>7. TypeOK' /\ Current'
  BY <1>1, <1>5 DEF IInv, TypeOK, Current, lmVars, Networks
<1>8. OnDisk'
  BY <1>1, <1>3, <1>5 DEF IInv, OnDisk, lmVars, Prelude, Networks, Outputs
<1>9. QED
  BY <1>6, <1>7, <1>8 DEF IInv

LEMMA LoadImageStep ==
  ASSUME IInv, LoadImage
  PROVE  IInv'
<1>1. /\ pc = "image" /\ pc' \in {"png", "noimage"}
      /\ UNCHANGED <<lmVars, text, mask, seen, masks, scores, blob, pngs, shown, overlay, overrun>>
  BY DEF LoadImage
<1>2. Delivered' /\ Finished'
  BY <1>1, FiledKept
<1>3. TypeOK' /\ Current' /\ OnDisk'
  BY <1>1 DEF IInv, TypeOK, Current, OnDisk, BlobHolds, lmVars, Prelude, Networks, Outputs
<1>4. QED
  BY <1>2, <1>3 DEF IInv

LEMMA WritePngStep ==
  ASSUME IInv, WritePng
  PROVE  IInv'
<1> DEFINE n == Len(shown) + 1
           slot == BestSlot(scores[n])
<1>1. /\ pc = "png" /\ Len(shown) < Len(phraseTokens)
      /\ shown' = Append(shown, slot) /\ pngs' \in {pngs, pngs \cup {<<n, slot>>}}
      /\ UNCHANGED <<pc, lmVars, text, mask, seen, masks, scores, blob, overlay, overrun>>
  BY DEF WritePng
<1>2. /\ Len(masks) = Len(phraseTokens) /\ Len(masks) = Len(scores) /\ scores \in Seq(Scores)
      /\ shown \in Seq(BestSlots) /\ Len(phraseTokens) \in Nat
      /\ pngs \subseteq (1 .. Len(phraseTokens)) \X BestSlots
      /\ \A p \in pngs : p[1] \in 1 .. Len(shown) /\ p[2] = shown[p[1]]
      /\ overlay = <<>>
  BY <1>1 DEF IInv, TypeOK, Finished, OnDisk, Outputs
<1>3. Len(shown) \in Nat /\ n \in 1 .. Len(phraseTokens)
  BY <1>1, <1>2
<1>4. slot \in BestSlots
  BY <1>2, <1>3 DEF BestSlots
<1> HIDE DEF slot
<1>5. /\ shown' \in Seq(BestSlots) /\ Len(shown') = n /\ shown'[n] = slot
      /\ \A i \in 1 .. Len(shown) : shown'[i] = shown[i]
  BY <1>1, <1>2, <1>4
<1>6. pngs' \subseteq (1 .. Len(phraseTokens)) \X BestSlots
  BY <1>1, <1>2, <1>3, <1>4
<1>7. \A p \in pngs' : p[1] \in 1 .. n /\ p[2] = shown'[p[1]]
  <2>1. ASSUME NEW p \in pngs PROVE p[1] \in 1 .. n /\ p[2] = shown'[p[1]]
    BY <1>2, <1>3, <1>5
  <2>2. ASSUME NEW p, p = <<n, slot>> PROVE p[1] \in 1 .. n /\ p[2] = shown'[p[1]]
    BY <1>3, <1>5, <2>2
  <2>3. QED
    BY <1>1, <2>1, <2>2
<1>8. Delivered' /\ Finished'
  BY <1>1 DEF IInv, Delivered, Finished, MaskOf, Ids, lmVars
<1>9. TypeOK' /\ Current'
  BY <1>1, <1>5, <1>6 DEF IInv, TypeOK, Current, lmVars, Networks
<1>10. OnDisk'
  BY <1>1, <1>2, <1>3, <1>5, <1>7 DEF IInv, OnDisk, BlobHolds, lmVars, Prelude, Networks, Outputs
<1>11. QED
  BY <1>8, <1>9, <1>10 DEF IInv

LEMMA WriteOverlayStep ==
  ASSUME IInv, WriteOverlay
  PROVE  IInv'
<1>1. /\ pc = "png" /\ Len(shown) = Len(phraseTokens) /\ pc' = "done"
      /\ overlay' \in {overlay, shown}
      /\ UNCHANGED <<lmVars, text, mask, seen, masks, scores, blob, pngs, shown, overrun>>
  BY DEF WriteOverlay
<1>2. Delivered' /\ Finished'
  BY <1>1 DEF IInv, Delivered, Finished, MaskOf, Ids, lmVars
<1>3. overlay' \in Seq(BestSlots)
  BY <1>1 DEF IInv, TypeOK
<1>4. TypeOK'
  BY <1>1, <1>3 DEF IInv, TypeOK, lmVars
<1>5. overlay = <<>>
  BY <1>1 DEF IInv, OnDisk
<1>6. Current' /\ OnDisk'
  BY <1>1, <1>5 DEF IInv, Current, OnDisk, BlobHolds, lmVars, Prelude, Networks, Outputs
<1>7. QED
  BY <1>2, <1>4, <1>6 DEF IInv

LEMMA StepInv == IInv /\ [Next]_vars => IInv'
<1> SUFFICES ASSUME IInv, [Next]_vars PROVE IInv'
  OBVIOUS
<1>1. CASE UNCHANGED vars
  <2>1. UNCHANGED <<pc, lmVars, text, mask, seen, masks, scores, blob, pngs, shown, overlay,
                    overrun>>
    BY <1>1 DEF vars
  <2>2. Delivered' /\ Finished'
    BY <2>1, FiledKept
  <2>3. TypeOK'
    BY <2>1 DEF IInv, TypeOK, lmVars
  <2>4. Current' /\ OnDisk'
    BY <2>1 DEF IInv, Current, OnDisk, BlobHolds, Ids, Obj, lmVars
  <2>5. QED
    BY <2>2, <2>3, <2>4 DEF IInv
<1>2. CASE Load \/ Preprocess \/ VisionStage
  BY <1>2, PreludeStep
<1>3. CASE Language
  BY <1>3, LanguageStep
<1>4. CASE Embed
  BY <1>4, EmbedStep
<1>5. CASE Encode \/ Decode \/ PromptCrossAttn
  BY <1>5, NetworkStep
<1>6. CASE Score
  BY <1>6, ScoreStep
<1>7. CASE Throw
  BY <1>7, ThrowStep
<1>8. CASE WriteBlob
  BY <1>8, WriteBlobStep
<1>9. CASE LoadImage
  BY <1>9, LoadImageStep
<1>10. CASE WritePng
  BY <1>10, WritePngStep
<1>11. CASE WriteOverlay
  BY <1>11, WriteOverlayStep
<1>12. QED
  BY <1>1, <1>2, <1>3, <1>4, <1>5, <1>6, <1>7, <1>8, <1>9, <1>10, <1>11 DEF Next, Stopped

LEMMA Invariant == Spec => []IInv
<1>1. QED
  BY InitInv, StepInv, PTL DEF Spec

-----------------------------------------------------------------------------
(***************************************************************************)
(* What it implies.                                                        *)
(***************************************************************************)

(* Every variable of main keeps its type. *)
THEOREM TypeCorrect == Spec => []TypeOK
<1>1. IInv => TypeOK
  BY DEF IInv
<1>2. QED
  BY <1>1, Invariant, PTL

(* The rows of the text tensor that hold a phrase that fits. *)
LEMMA RowsOfPhrase ==
  ASSUME NEW ids \in Seq(Words), Len(ids) <= PhraseMax
  PROVE  {<<r, TextRows(ids)[r]>> : r \in PromptSees(TextMask(ids))}
           = {<<k - 1, ids[k]>> : k \in DOMAIN ids}
<1> DEFINE seenRows == {r \in Rows : r < Len(ids)}
<1>1. Len(ids) \in Nat /\ DOMAIN ids = 1 .. Len(ids) /\ PhraseMax \in Nat
  BY MaskStageAssumption
<1>2. PromptSees(TextMask(ids)) = seenRows
  BY DEF PromptSees, TextMask
<1>3. \A r \in seenRows : TextRows(ids)[r] = ids[r + 1] /\ r + 1 \in 1 .. Len(ids) /\ r = (r + 1) - 1
  BY <1>1 DEF TextRows, Rows
<1>4. \A k \in 1 .. Len(ids) : k - 1 \in seenRows /\ TextRows(ids)[k - 1] = ids[k]
  <2>1. \A k \in 1 .. Len(ids) : k - 1 \in seenRows /\ (k - 1) + 1 = k
    BY <1>1 DEF Rows
  <2>2. QED
    BY <1>3, <2>1
<1> HIDE DEF seenRows
<1>5. ASSUME NEW r \in seenRows
      PROVE  <<r, TextRows(ids)[r]>> \in {<<k - 1, ids[k]>> : k \in 1 .. Len(ids)}
  BY <1>3
<1>6. ASSUME NEW k \in 1 .. Len(ids)
      PROVE  <<k - 1, ids[k]>> \in {<<r, TextRows(ids)[r]>> : r \in seenRows}
  BY <1>4
<1>7. QED
  BY <1>1, <1>2, <1>5, <1>6

(* Encoder, prompt attention and scoring see the phrase and no padding. *)
THEOREM PhraseAlwaysSeen == Spec => []PhraseIsSeen
<1>1. ASSUME IInv, ~ overrun, NEW i \in 1 .. Len(masks),
             NEW reader \in {"encoder", "prompt", "pool"}
      PROVE  SeenIds(i, reader) = PhrasePairs(i)
  <2>1. masks[i] = MaskOf(i) /\ ~ (Len(Ids(i)) > PhraseMax)
    BY <1>1 DEF IInv, Finished
  <2>2. i \in 1 .. Len(phraseTokens)
    BY <1>1, DeliveredTypes DEF IInv, Finished, TypeOK
  <2>3. Ids(i) \in Seq(Words) /\ Len(Ids(i)) \in Nat /\ PhraseMax \in Nat
    BY <1>1, <2>2, DeliveredTypes, MaskStageAssumption DEF IInv
  <2>4. Len(Ids(i)) <= PhraseMax
    BY <2>1, <2>3
  <2>5. /\ masks[i].text = TextRows(Ids(i))
        /\ masks[i].seen[reader] = PromptSees(TextMask(Ids(i)))
    BY <2>1 DEF MaskOf, Seen, Readers
  <2>6. SeenIds(i, reader) = {<<r, TextRows(Ids(i))[r]>> : r \in PromptSees(TextMask(Ids(i)))}
    BY <2>5 DEF SeenIds
  <2>7. PhrasePairs(i) = {<<k - 1, Ids(i)[k]>> : k \in DOMAIN Ids(i)}
    BY DEF PhrasePairs, Ids
  <2>8. QED
    BY <2>3, <2>4, <2>6, <2>7, RowsOfPhrase
<1>2. IInv => PhraseIsSeen
  BY <1>1 DEF PhraseIsSeen
<1>3. QED
  BY <1>2, Invariant, PTL

(* Scores are not numbers exactly for the phrases that leave no padding. *)
THEOREM FullPhrasesAreNaN == Spec => []NaNOnlyFromFullPhrases
<1>1. ASSUME NEW ids \in Seq(Words)
      PROVE  DecoderSees(TextMask(ids)) = {} <=> Len(ids) >= PhraseMax
  <2>1. Len(ids) \in Nat /\ PhraseMax \in Nat \ {0} /\ PhraseMax - 1 \in Rows
    BY MaskStageAssumption DEF Rows
  <2>2. DecoderSees(TextMask(ids)) = {r \in Rows : ~ (r < Len(ids))}
    BY DEF DecoderSees, TextMask
  <2>3. CASE Len(ids) >= PhraseMax
    <3>1. \A r \in Rows : r < Len(ids)
      BY <2>1, <2>3 DEF Rows
    <3>2. QED
      BY <2>2, <2>3, <3>1
  <2>4. CASE ~ (Len(ids) >= PhraseMax)
    <3>1. ~ (PhraseMax - 1 < Len(ids))
      BY <2>1, <2>4
    <3>2. QED
      BY <2>1, <2>2, <2>4, <3>1
  <2>5. QED
    BY <2>3, <2>4
<1>2. ASSUME IInv, NEW i \in 1 .. Len(scores)
      PROVE  (\E s \in Slots : scores[i][s] = NaN)
               <=> Len(PhraseIds(phraseTokens[i])) >= PhraseMax
  <2>1. i \in 1 .. Len(masks) /\ i \in 1 .. Len(phraseTokens)
    BY <1>2, DeliveredTypes DEF IInv, Finished, TypeOK
  <2>2. Ids(i) \in Seq(Words)
    BY <1>2, <2>1, DeliveredTypes DEF IInv
  <2>3. QED
    BY <1>1, <1>2, <2>1, <2>2 DEF IInv, Finished, Ids
<1>3. IInv => NaNOnlyFromFullPhrases
  BY <1>2 DEF NaNOnlyFromFullPhrases
<1>4. QED
  BY <1>3, Invariant, PTL

(* Queries and text of every mask are those of its phrase of the answer. *)
THEOREM MasksAreOfTheirPhrase == Spec => []MaskIsOfItsPhrase
<1>1. ASSUME IInv, NEW i \in 1 .. Len(masks)
      PROVE  \E s, e \in 1 .. Len(answer) :
               /\ Contract!IsPhrase(answer, s, e)
               /\ Cardinality({f \in Contract!PhraseEnds(answer) : f < e}) = i - 1
               /\ masks[i].queries = Contract!PhraseOutput(answer, e)
               /\ ~ overrun => \A k \in s .. e : masks[i].text[k - s] = answer[k]
  <2>1. PICK ends \in Ends(answer) :
          phraseTokens = PhraseTokens(answer, ends) /\ segOuts = SegOuts(answer, ends)
    BY <1>1 DEF IInv, Delivered
  <2>2. answer \in Seq(Words) /\ i \in 1 .. Len(phraseTokens)
    BY <1>1, DeliveredTypes DEF IInv, Finished, TypeOK
  <2>3. Len(ends) \in Nat /\ DOMAIN ends = 1 .. Len(ends)
    BY <2>2, PhraseEndsFinite DEF Ends
  <2>4. i \in 1 .. Len(ends) /\ i \in DOMAIN ends
    BY <2>1, <2>2, <2>3 DEF PhraseTokens
  <2> DEFINE e == ends[i]
             s == StartOf(answer, e)
             tokens == SubSeq(answer, s + 1, e - 1)
  <2>5. e \in PhraseEnds(answer)
        /\ Cardinality({f \in PhraseEnds(answer) : f < e}) = i - 1
    BY <2>2, <2>4, EndsCounted
  <2> HIDE DEF e
  <2>6. IsPhrase(answer, s, e)
    BY <2>2, <2>5, StartsAtMarker
  <2>7. /\ tokens \in Seq(Words) /\ Len(tokens) = e - s - 1
        /\ \A k \in 1 .. e - s - 1 : tokens[k] = answer[s + k]
        /\ s \in Nat /\ e \in 1 .. Len(answer) /\ 1 <= s /\ s < e
        /\ answer[s] = RefStart /\ answer[e] = RefEnd
    BY <2>2, <2>5, PhraseTokensAre
  <2>8. phraseTokens[i] = tokens /\ segOuts[i] = Contract!PhraseOutput(answer, e)
    BY <2>1, <2>4 DEF PhraseTokens, SegOuts, e
  <2> HIDE DEF tokens, s
  <2>9. /\ masks[i].queries = segOuts[i] /\ masks[i].text = TextRows(Ids(i))
        /\ Len(Ids(i)) > PhraseMax => overrun
    <3>1. masks[i] = MaskOf(i) /\ (Len(Ids(i)) > PhraseMax => overrun)
      BY <1>1 DEF IInv, Finished
    <3>2. QED
      BY <3>1 DEF MaskOf
  <2>10. /\ Ids(i)[1] = RefStart /\ Ids(i)[Len(tokens) + 2] = RefEnd
         /\ \A k \in 1 .. Len(tokens) : Ids(i)[k + 1] = tokens[k]
         /\ Len(Ids(i)) = Len(tokens) + 2
    BY <2>7, <2>8, PhraseIdsAre DEF Ids
  <2>11. ASSUME ~ overrun, NEW k \in s .. e
         PROVE  masks[i].text[k - s] = answer[k]
    <3>1. e \in Nat /\ k \in Nat /\ k - s \in 0 .. e - s /\ Len(Ids(i)) = e - s + 1
      BY <2>7, <2>10
    <3>2. e - s + 1 <= PhraseMax /\ PhraseMax \in Nat
      BY <2>7, <2>9, <2>11, <3>1, MaskStageAssumption
    <3>3. k - s \in Rows /\ k - s < Len(Ids(i))
      BY <2>7, <3>1, <3>2 DEF Rows
    <3>4. masks[i].text[k - s] = Ids(i)[k - s + 1]
      BY <2>9, <3>3 DEF TextRows
    <3>5. CASE k = s
      <4>1. k - s + 1 = 1
        BY <2>7, <3>5
      <4>2. QED
        BY <2>7, <2>10, <3>4, <3>5, <4>1
    <3>6. CASE k = e
      <4>1. k - s + 1 = Len(tokens) + 2
        BY <2>7, <3>6
      <4>2. QED
        BY <2>7, <2>10, <3>4, <3>6, <4>1
    <3>7. CASE k # s /\ k # e
      <4>1. k - s \in 1 .. e - s - 1 /\ s + (k - s) = k
        BY <2>7, <3>1, <3>7
      <4>2. Ids(i)[k - s + 1] = tokens[k - s]
        BY <2>7, <2>10, <4>1
      <4>3. tokens[k - s] = answer[k]
        BY <2>7, <4>1
      <4>4. QED
        BY <3>4, <4>2, <4>3
    <3>8. QED
      BY <3>5, <3>6, <3>7
  <2>12. s \in 1 .. Len(answer)
    BY <2>2, <2>7
  <2>13. QED
    BY <2>5, <2>6, <2>7, <2>8, <2>9, <2>11, <2>12 DEF PhraseEnds, IsPhrase
<1>2. IInv => MaskIsOfItsPhrase
  BY <1>1 DEF MaskIsOfItsPhrase
<1>3. QED
  BY <1>2, Invariant, PTL

(* What is on disk is consistent at every moment. *)
THEOREM FilesAlwaysConsistent == Spec => []FilesConsistent
<1>1. ASSUME IInv PROVE FilesConsistent
  <2>1. PICK ends \in Ends(answer) : phraseTokens = PhraseTokens(answer, ends)
    BY <1>1 DEF IInv, Delivered
  <2>2. answer \in Seq(Words)
    BY <1>1 DEF IInv, TypeOK
  <2>3. /\ Cardinality(PhraseEnds(answer)) \in Nat /\ IsFiniteSet(PhraseEnds(answer))
        /\ Len(ends) = Cardinality(PhraseEnds(answer))
    BY <2>2, PhraseEndsFinite DEF Ends
  <2>4. Len(phraseTokens) = Cardinality(PhraseEnds(answer))
    BY <2>1, <2>3 DEF PhraseTokens
  <2>5. phraseTokens = <<>> => PhraseEnds(answer) = {}
    BY <2>3, <2>4, FS_EmptySet
  <2>6. pc \in Outputs => BlobHolds(Cardinality(PhraseEnds(answer)))
    BY <1>1, <2>4 DEF IInv, OnDisk
  <2>7. ExitsZero /\ PhraseEnds(answer) # {} => pc \in Outputs
    BY <1>1, <2>5 DEF IInv, OnDisk, ExitsZero, Outputs
  <2>8. pngs # {} \/ overlay # <<>> => pc \in Outputs
    BY <1>1 DEF IInv, OnDisk, Outputs
  <2>9. blob # <<>> /\ pc # "failed" => pc \in Outputs
    BY <1>1 DEF IInv, OnDisk, TypeOK, Outputs, Prelude, Networks
  <2>10. overlay # <<>> => Len(overlay) = Len(phraseTokens)
                           /\ \A p \in pngs : overlay[p[1]] = p[2]
    BY <1>1 DEF IInv, OnDisk
  <2>11. QED
    BY <2>6, <2>7, <2>8, <2>9, <2>10 DEF FilesConsistent, Owed, PhraseEnds
<1>2. QED
  BY <1>1, Invariant, PTL

-----------------------------------------------------------------------------
(***************************************************************************)
(* The slot a phrase is shown by.                                          *)
(***************************************************************************)

(* One turn of the argmax loop, and what the loop has found after slot n. *)
Turn(cls, best, s) ==
  IF s = 0 THEN 0 ELSE IF Greater(cls[s], cls[best[s - 1]]) THEN s ELSE best[s - 1]

Found(cls) == CHOOSE best : best = [s \in Slots |-> Turn(cls, best, s)]

(* The loop can be run to any slot, so the recursive definition defines. *)
LEMMA ArgmaxRuns ==
  ASSUME NEW cls, NEW n \in Nat
  PROVE  \E best : best = [s \in 0 .. n |-> Turn(cls, best, s)]
<1> DEFINE T == {k \in Nat : \E best : best = [s \in 0 .. k |-> Turn(cls, best, s)]}
<1>1. 0 \in T
  <2> DEFINE best == [s \in 0 .. 0 |-> 0]
  <2>1. \A s \in 0 .. 0 : s = 0
    OBVIOUS
  <2>2. best = [s \in 0 .. 0 |-> Turn(cls, best, s)]
    BY <2>1 DEF Turn
  <2>3. QED
    BY <2>2
<1>2. ASSUME NEW k \in T PROVE k + 1 \in T
  <2>1. PICK best : best = [s \in 0 .. k |-> Turn(cls, best, s)]
    OBVIOUS
  <2> DEFINE more == [s \in 0 .. k + 1 |-> IF s = k + 1 THEN Turn(cls, best, s) ELSE best[s]]
  <2>2. k \in Nat /\ k + 1 \in Nat
    OBVIOUS
  <2>3. \A s \in 0 .. k : s \in 0 .. k + 1 /\ s # k + 1 /\ more[s] = best[s]
    BY <2>2
  <2>4. \A s \in 0 .. k + 1 : s # 0 => s - 1 \in 0 .. k
    BY <2>2
  <2>5. \A s \in 0 .. k + 1 : s = k + 1 \/ s \in 0 .. k
    BY <2>2
  <2> HIDE DEF more
  <2>6. \A s \in 0 .. k + 1 : Turn(cls, more, s) = Turn(cls, best, s)
    BY <2>3, <2>4 DEF Turn
  <2>7. \A s \in 0 .. k : best[s] = Turn(cls, best, s)
    BY <2>1
  <2>8. more = [s \in 0 .. k + 1 |-> Turn(cls, best, s)]
    BY <2>5, <2>7 DEF more
  <2>9. more = [s \in 0 .. k + 1 |-> Turn(cls, more, s)]
    BY <2>6, <2>8
  <2>10. QED
    BY <2>2, <2>9
<1>3. Nat \subseteq T
  <2> HIDE DEF T
  <2>1. \A k \in Nat : k \in T => k + 1 \in T
    BY <1>2
  <2>2. QED
    BY <1>1, <2>1, SetInduction
<1>4. QED
  BY <1>3

LEMMA FoundIs ==
  ASSUME NEW cls
  PROVE  Found(cls) = [s \in Slots |-> Turn(cls, Found(cls), s)]
<1>1. NSlots - 1 \in Nat
  BY MaskStageAssumption
<1>2. \E best : best = [s \in Slots |-> Turn(cls, best, s)]
  BY <1>1, ArgmaxRuns DEF Slots
<1>3. QED
  BY <1>2 DEF Found

LEMMA BestSlotFound ==
  ASSUME NEW cls
  PROVE  BestSlot(cls) = Found(cls)[NSlots - 1]
BY DEF BestSlot, Found, Turn

(* The scores of a phrase can be compared: all numbers, or none. *)
LEMMA Comparable ==
  ASSUME NEW cls \in Scores
  PROVE  \A s, t, u \in Slots :
           /\ Greater(cls[s], cls[t]) => ~ Greater(cls[t], cls[s])
           /\ Greater(cls[s], cls[t]) /\ ~ Greater(cls[u], cls[t]) => Greater(cls[s], cls[u])
           /\ Greater(cls[s], cls[t]) /\ Greater(cls[t], cls[u]) => Greater(cls[s], cls[u])
<1>1. CASE cls \in [Slots -> 0 .. MaxScore]
  BY <1>1, MaskStageAssumption DEF Greater
<1>2. CASE cls = [s \in Slots |-> NaN]
  BY <1>2 DEF Greater
<1>3. QED
  BY <1>1, <1>2 DEF Scores

(* The loop ends on the first of the slots with the highest score. *)
LEMMA BestSlotIs ==
  ASSUME NEW cls \in Scores
  PROVE  /\ BestSlot(cls) \in Slots
         /\ \A s \in Slots : ~ Greater(cls[s], cls[BestSlot(cls)])
         /\ \A s \in 0 .. BestSlot(cls) - 1 : Greater(cls[BestSlot(cls)], cls[s])
<1> DEFINE best == Found(cls)
           T == {n \in Nat : n \in Slots =>
                   /\ best[n] \in 0 .. n
                   /\ \A s \in 0 .. n : ~ Greater(cls[s], cls[best[n]])
                   /\ \A s \in 0 .. best[n] - 1 : Greater(cls[best[n]], cls[s])}
<1>1. /\ NSlots \in Nat \ {0} /\ NSlots - 1 \in Slots /\ 0 \in Slots
      /\ \A s \in Slots : s \in Nat /\ 0 .. s \subseteq Slots
  BY MaskStageAssumption DEF Slots
<1>2. \A s \in Slots : best[s] = Turn(cls, best, s)
  BY FoundIs
<1> HIDE DEF best
<1>3. 0 \in T
  <2>1. best[0] = 0
    BY <1>1, <1>2 DEF Turn
  <2>2. \A s \in 0 .. 0 : s = 0
    OBVIOUS
  <2>3. ~ Greater(cls[0], cls[0])
    BY <1>1, Comparable
  <2>4. QED
    BY <2>1, <2>2, <2>3
<1>4. ASSUME NEW n \in Nat, n \in T PROVE n + 1 \in T
  <2>1. SUFFICES ASSUME n + 1 \in Slots
                 PROVE  /\ best[n + 1] \in 0 .. n + 1
                        /\ \A s \in 0 .. n + 1 : ~ Greater(cls[s], cls[best[n + 1]])
                        /\ \A s \in 0 .. best[n + 1] - 1 : Greater(cls[best[n + 1]], cls[s])
    OBVIOUS
  <2>2. n \in Slots /\ 0 .. n \subseteq Slots
    BY <1>1, <2>1
  <2>3. /\ best[n] \in 0 .. n /\ best[n] \in Slots
        /\ \A s \in 0 .. n : ~ Greater(cls[s], cls[best[n]])
        /\ \A s \in 0 .. best[n] - 1 : Greater(cls[best[n]], cls[s])
    BY <1>4, <2>2
  <2>4. best[n + 1] = IF Greater(cls[n + 1], cls[best[n]]) THEN n + 1 ELSE best[n]
    BY <1>2, <2>1 DEF Turn
  <2>5. \A s \in 0 .. n + 1 : s = n + 1 \/ s \in 0 .. n
    OBVIOUS
  <2>6. CASE Greater(cls[n + 1], cls[best[n]])
    <3>1. \A s \in 0 .. n : Greater(cls[n + 1], cls[s])
      BY <2>1, <2>2, <2>3, <2>6, Comparable
    <3>2. \A s \in 0 .. n + 1 : ~ Greater(cls[s], cls[n + 1])
      BY <2>1, <2>2, <2>5, <3>1, Comparable
    <3>3. best[n + 1] = n + 1 /\ (n + 1) - 1 = n
      BY <2>4, <2>6
    <3>4. QED
      BY <3>1, <3>2, <3>3
  <2>7. CASE ~ Greater(cls[n + 1], cls[best[n]])
    BY <2>3, <2>4, <2>5, <2>7
  <2>8. QED
    BY <2>6, <2>7
<1>5. Nat \subseteq T
  <2> HIDE DEF T
  <2>1. QED
    BY <1>3, <1>4, SetInduction
<1>6. NSlots - 1 \in T /\ 0 .. NSlots - 1 = Slots
  BY <1>1, <1>5 DEF Slots
<1>7. QED
  BY <1>1, <1>6, BestSlotFound DEF best

(* What is shown was picked by the loop, from scores that stay. *)
Picked == \A i \in 1 .. Len(shown) : shown[i] = BestSlot(scores[i])

LEMMA PickedStep == IInv /\ Picked /\ [Next]_vars => Picked'
<1> SUFFICES ASSUME IInv, Picked, [Next]_vars PROVE Picked'
  OBVIOUS
<1>1. CASE UNCHANGED <<shown, scores>>
  BY <1>1 DEF Picked
<1>2. CASE Score
  <2>1. shown = <<>> /\ UNCHANGED shown
    BY <1>2 DEF Score, IInv, OnDisk
  <2>2. QED
    BY <2>1 DEF Picked
<1>3. CASE WritePng
  <2>1. /\ shown \in Seq(BestSlots) /\ UNCHANGED scores
        /\ shown' = Append(shown, BestSlot(scores[Len(shown) + 1]))
    BY <1>3 DEF WritePng, IInv, TypeOK
  <2>2. /\ Len(shown) \in Nat /\ Len(shown') = Len(shown) + 1
        /\ shown'[Len(shown) + 1] = BestSlot(scores[Len(shown) + 1])
        /\ \A i \in 1 .. Len(shown) : shown'[i] = shown[i]
    BY <2>1
  <2>3. QED
    BY <2>1, <2>2 DEF Picked
<1>4. QED
  BY <1>1, <1>2, <1>3 DEF Next, Load, Preprocess, VisionStage, Language, Embed, Encode, Decode,
     PromptCrossAttn, Throw, WriteBlob, LoadImage, WriteOverlay, Stopped, laterVars, vars

(* The slot shown for a phrase is the first of those its scores put on top,  *)
(* numbers or not: the argmax loop of main, whatever the number of slots.    *)
THEOREM BestSlotAlwaysShown == Spec => []BestSlotShown
<1>1. Init => Picked
  BY DEF Init, Picked
<1>2. ASSUME IInv, Picked PROVE BestSlotShown
  <2>1. ASSUME NEW i \in 1 .. Len(shown)
        PROVE  shown[i] = BestSlot(scores[i]) /\ scores[i] \in Scores
    <3>1. shown # <<>>
      BY <1>2 DEF IInv, TypeOK
    <3>2. pc \in Outputs
      BY <1>2, <3>1 DEF IInv, OnDisk, Outputs
    <3>3. /\ Len(scores) = Len(phraseTokens) /\ Len(shown) <= Len(phraseTokens)
          /\ Len(shown) \in Nat /\ Len(phraseTokens) \in Nat
      BY <1>2, <3>2 DEF IInv, TypeOK, Finished, OnDisk
    <3>4. i \in 1 .. Len(scores)
      BY <3>3
    <3>5. QED
      BY <1>2, <3>4 DEF IInv, TypeOK, Picked
  <2>2. QED
    BY <2>1, BestSlotIs DEF BestSlotShown
<1>3. QED
  BY <1>1, <1>2, PickedStep, Invariant, PTL DEF Spec
=============================================================================
