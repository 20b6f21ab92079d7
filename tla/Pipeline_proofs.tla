--------------------------- MODULE Pipeline_proofs ---------------------------
(***************************************************************************)
(* Proofs about a prediction of Sam3ImagePipeline, for every number of     *)
(* queries, layers and tokens, and for every request; and about the C      *)
(* interface it is called through (CApi), for every number of threads and  *)
(* blocks.                                                                 *)
(***************************************************************************)
EXTENDS Pipeline, CApi, Lemmas, FiniteSetTheorems, SequenceTheorems

-----------------------------------------------------------------------------
(***************************************************************************)
(* The ggml objects of a network.                                          *)
(***************************************************************************)

(* Nothing is open where no network is being built or run, and what is open *)
(* when a prediction has ended is what a missing tensor left.               *)
GraphInv ==
  /\ live \in {{}, Objects}
  /\ pc \in {"image", "pool", "select", "done"} => live = {}
  /\ pc = "failed" => live = {} \/ cause = "tensor"

LEMMA PlacesDiffer ==
  /\ \A p \in Graphs : p \notin {"image", "pool", "select", "done", "failed"}
  /\ {"trunk", "neck", "text", "geometry", "prompt", "fusion", "decoder", "segmentation"} = Graphs
BY DEF Graphs

LEMMA GraphStep ==
  ASSUME GraphInv, [Next]_vars
  PROVE  GraphInv'
<1>1. CASE LoadImage
  BY <1>1, PlacesDiffer DEF LoadImage, Fail, GraphInv
<1>2. CASE OpenGraph
  BY <1>2, PlacesDiffer DEF OpenGraph, Fail, GraphInv
<1>3. CASE TensorMissing
  BY <1>3 DEF TensorMissing, Fail, GraphInv
<1>4. CASE ComputeFails
  BY <1>4 DEF ComputeFails, LiveAfterFailure, Fail, GraphInv
<1>5. CASE Trunk \/ Neck \/ BuildPrompt \/ EncodeGeometry \/ Fuse \/ DecodeLayer \/ Segment
  <2>1. live' = {}
    BY <1>5 DEF Trunk, Neck, BuildPrompt, EncodeGeometry, Fuse, DecodeLayer, Segment, Computed
  <2>2. QED
    BY <2>1 DEF GraphInv
<1>6. CASE EncodeText
  <2>1. CASE Computed("text", "prompt")
    BY <2>1 DEF Computed, GraphInv
  <2>2. CASE pc' = "aborted" /\ live' = live
    BY <2>2 DEF GraphInv
  <2>3. QED
    BY <1>6, <2>1, <2>2 DEF EncodeText
<1>7. CASE Ground
  BY <1>7 DEF Ground, Fail, GraphInv
<1>8. CASE Select
  BY <1>8 DEF Select, ggmlVars, GraphInv
<1>9. CASE Finished \/ UNCHANGED vars
  BY <1>9 DEF Finished, vars, ggmlVars, GraphInv
<1>10. QED
  BY <1>1, <1>2, <1>3, <1>4, <1>5, <1>6, <1>7, <1>8, <1>9 DEF Next

(* However a prediction ends, no graph and no scheduler is left behind,     *)
(* unless a tensor was missing.                                             *)
THEOREM GraphsAlwaysFreed == Spec => []GraphsAreFreed
<1>1. Init => GraphInv
  BY DEF Init, GraphInv
<1>2. GraphInv => GraphsAreFreed
  BY DEF GraphInv, GraphsAreFreed
<1>3. QED
  BY <1>1, <1>2, GraphStep, PTL DEF Spec

-----------------------------------------------------------------------------
(***************************************************************************)
(* The boxes of the decoder.                                               *)
(***************************************************************************)

Ids == Nat \X Nat
Rows == [query : Nat, layer : Nat, box : Ids]
Boxes == [query : Nat, layer : Nat, was : Ids]

DecoderTypes ==
  /\ output \in [Queries -> Rows] /\ presence \in Rows
  /\ ref \in [Queries -> Boxes]
  /\ hs \in Seq([Queries -> Rows]) /\ refs \in Seq([Queries -> Boxes])
  /\ Len(hs) = Len(refs)

(* The layers gone through: each query stayed in its row and looked around   *)
(* the reference of the layer, and the next reference is the refined one.   *)
Refined ==
  /\ presence = Row(0, Len(hs), NoBox)
  /\ \A q \in Queries : output[q].query = q
  /\ \A l \in 1 .. Len(hs), q \in Queries :
       /\ hs[l][q] = Row(q, l, IdOf(refs[l][q]))
       /\ Refine(refs[l][q], hs[l][q]) = IF l = Len(hs) THEN ref[q] ELSE refs[l + 1][q]

Progress ==
  /\ pc = "decoder" => Len(hs) < NLayers
  /\ pc \in {"image", "trunk", "neck", "text", "prompt", "geometry", "fusion"} => Len(hs) = 0
  /\ pc \in {"pool", "segmentation", "select", "done"} => Len(hs) = NLayers
  /\ pc \in {"segmentation", "select", "done"} =>
       boxes = [l \in 1 .. Len(hs) |-> [q \in Queries |-> Refine(refs[l][q], hs[l][q])]]

BoxInv == DecoderTypes /\ Refined /\ Progress

LEMMA BoxInit == Init => BoxInv
<1> SUFFICES ASSUME Init PROVE BoxInv
  OBVIOUS
<1>1. \A q \in Queries : q \in Nat
  BY PipelineAssumption DEF Queries
<1>2. NoBox \in Ids
  BY DEF NoBox, Ids
<1>3. DecoderTypes
  BY <1>1, <1>2 DEF Init, DecoderTypes, Rows, Boxes, Row, Box
<1>4. Refined
  BY DEF Init, Refined, Row
<1>5. Progress
  BY PipelineAssumption DEF Init, Progress
<1>6. QED
  BY <1>3, <1>4, <1>5 DEF BoxInv

(* The rows of a layer, the presence token first. *)
LEMMA RowsOfLayer ==
  ASSUME DecoderTypes, Refined
  PROVE  /\ PresenceRow(LayerRows) = Row(0, Len(hs) + 1, NoBox)
         /\ OutputRows(LayerRows) \in [Queries -> Rows]
         /\ \A q \in Queries : OutputRows(LayerRows)[q] = Row(q, Len(hs) + 1, IdOf(ref[q]))
<1> DEFINE kv == <<presence>> \o output
<1>1. NQueries \in Nat /\ Len(hs) \in Nat
  BY PipelineAssumption DEF DecoderTypes
<1>2. output \in Seq(Rows) /\ Len(output) = NQueries
  BY <1>1 DEF DecoderTypes, Queries
<1>3. /\ kv[1] = presence
      /\ \A q \in Queries : kv[q + 1] = output[q]
  BY <1>1, <1>2 DEF Queries
<1>4. LayerRows = [r \in 1 .. NQueries + 1 |-> Row(kv[r].query, Layer, ImageBias[r])]
  BY DEF LayerRows
<1> HIDE DEF kv
<1>5. \A r \in 1 .. NQueries + 1 : ImageBias[r] = IF r = 1 THEN NoBox ELSE IdOf(ref[r - 1])
  BY DEF ImageBias
<1>6. PresenceRow(LayerRows) = Row(0, Len(hs) + 1, NoBox)
  <2>1. 1 \in 1 .. NQueries + 1
    BY <1>1
  <2>2. presence.query = 0
    BY DEF Refined, Row
  <2>3. QED
    BY <1>3, <1>4, <1>5, <2>1, <2>2 DEF PresenceRow, Layer
<1>7. ASSUME NEW q \in Queries
      PROVE  LayerRows[q + 1] = Row(q, Len(hs) + 1, IdOf(ref[q]))
  <2>1. q + 1 \in 1 .. NQueries + 1 /\ q + 1 # 1 /\ (q + 1) - 1 = q
    BY <1>1 DEF Queries
  <2>2. ImageBias[q + 1] = IdOf(ref[q])
    BY <1>5, <2>1
  <2>3. kv[q + 1].query = q
    BY <1>3 DEF Refined
  <2>4. QED
    BY <1>4, <2>1, <2>2, <2>3 DEF Layer
<1>8. \A q \in Queries : Row(q, Len(hs) + 1, IdOf(ref[q])) \in Rows
  <2>1. \A q \in Queries : q \in Nat /\ IdOf(ref[q]) \in Ids
    BY <1>1 DEF Queries, DecoderTypes, Boxes, IdOf, Ids
  <2>2. QED
    BY <1>1, <2>1 DEF Row, Rows
<1>9. OutputRows(LayerRows) = [q \in Queries |-> LayerRows[q + 1]]
  <2>1. OutputRows(LayerRows) = SubSeq(LayerRows, 2, NQueries + 1)
    BY DEF OutputRows
  <2>2. \A r \in 1 .. NQueries + 1 : LayerRows[r] \in Rows
    <3>1. \A r \in 1 .. NQueries + 1 : r = 1 \/ \E q \in Queries : r = q + 1
      <4>1. ASSUME NEW r \in 1 .. NQueries + 1, r # 1
            PROVE  r - 1 \in Queries /\ r = (r - 1) + 1
        BY <1>1, <4>1 DEF Queries
      <4>2. QED
        BY <4>1
    <3>2. LayerRows[1] \in Rows
      BY <1>1, <1>6 DEF PresenceRow, Row, Rows, NoBox, Ids
    <3>3. QED
      BY <1>7, <1>8, <3>1, <3>2
  <2>3. LayerRows \in Seq(Rows) /\ Len(LayerRows) = NQueries + 1
    <3>1. LayerRows = [r \in 1 .. NQueries + 1 |-> LayerRows[r]]
      BY <1>4
    <3>2. [r \in 1 .. NQueries + 1 |-> LayerRows[r]] \in Seq(Rows)
      BY <1>1, <2>2
    <3>3. QED
      BY <1>1, <1>4, <3>1, <3>2
  <2> HIDE DEF LayerRows
  <2>4. SubSeq(LayerRows, 2, NQueries + 1) = [q \in 1 .. NQueries |-> LayerRows[q + 1]]
    <3>1. SubSeq(LayerRows, 2, NQueries + 1)
            = [i \in 1 .. (NQueries + 1) - 2 + 1 |-> LayerRows[2 + i - 1]]
      BY <1>1, <2>3
    <3>2. (NQueries + 1) - 2 + 1 = NQueries /\ \A i \in 1 .. NQueries : 2 + i - 1 = i + 1
      BY <1>1
    <3>3. QED
      BY <3>1, <3>2
  <2>5. QED
    BY <2>1, <2>4 DEF Queries
<1>10. \A q \in Queries : OutputRows(LayerRows)[q] = Row(q, Len(hs) + 1, IdOf(ref[q]))
  BY <1>7, <1>9
<1>11. OutputRows(LayerRows) \in [Queries -> Rows]
  BY <1>7, <1>8, <1>9
<1>12. QED
  BY <1>6, <1>10, <1>11

LEMMA BoxDecode ==
  ASSUME BoxInv, DecodeLayer
  PROVE  BoxInv'
<1> DEFINE n == Len(hs)
           rows == OutputRows(LayerRows)
<1>1. DecoderTypes /\ Refined /\ Progress /\ n \in Nat /\ n < NLayers /\ pc = "decoder"
  BY DEF BoxInv, Progress, DecoderTypes, DecodeLayer, Computed
<1>2. /\ presence' = Row(0, n + 1, NoBox)
      /\ rows \in [Queries -> Rows]
      /\ \A q \in Queries : rows[q] = Row(q, n + 1, IdOf(ref[q]))
  BY <1>1, RowsOfLayer DEF DecodeLayer
<1>3. /\ output' = rows /\ hs' = Append(hs, rows) /\ refs' = Append(refs, ref)
      /\ ref' = [q \in Queries |-> Refine(ref[q], rows[q])]
  BY DEF DecodeLayer, RecordedRef, NextRef
<1> HIDE DEF rows
<1>4. /\ hs' \in Seq([Queries -> Rows]) /\ refs' \in Seq([Queries -> Boxes])
      /\ Len(hs') = n + 1 /\ Len(refs') = n + 1
      /\ hs'[n + 1] = rows /\ refs'[n + 1] = ref
      /\ \A l \in 1 .. n : hs'[l] = hs[l] /\ refs'[l] = refs[l]
  BY <1>1, <1>2, <1>3 DEF DecoderTypes
<1>5. \A q \in Queries : rows[q].query = q /\ rows[q].layer = n + 1
  BY <1>2 DEF Row
<1>6. ref' \in [Queries -> Boxes]
  <2>1. ASSUME NEW q \in Queries PROVE Refine(ref[q], rows[q]) \in Boxes
    <3>1. q \in Nat /\ IdOf(ref[q]) \in Ids
      BY SMTT(30), <1>1, PipelineAssumption DEF Queries, DecoderTypes, Boxes, IdOf, Ids
    <3>2. QED
      BY <1>1, <1>5, <3>1 DEF Refine, Box, Boxes
  <2>2. QED
    BY <1>3, <2>1
<1>7. DecoderTypes'
  <2>1. presence' \in Rows
    BY <1>1, <1>2 DEF Row, Rows, NoBox, Ids
  <2>2. QED
    BY <1>2, <1>3, <1>4, <1>6, <2>1 DEF DecoderTypes
<1>8. Refined'
  <2>1. ASSUME NEW l \in 1 .. n + 1, NEW q \in Queries
        PROVE  /\ hs'[l][q] = Row(q, l, IdOf(refs'[l][q]))
               /\ Refine(refs'[l][q], hs'[l][q])
                    = IF l = n + 1 THEN ref'[q] ELSE refs'[l + 1][q]
    <3>1. CASE l = n + 1
      BY <1>2, <1>3, <1>4, <3>1
    <3>2. CASE l # n + 1
      <4>1. l \in 1 .. n
        BY <1>1, <3>2
      <4>2. /\ hs[l][q] = Row(q, l, IdOf(refs[l][q]))
            /\ Refine(refs[l][q], hs[l][q]) = IF l = n THEN ref[q] ELSE refs[l + 1][q]
        BY <1>1, <4>1 DEF Refined
      <4>3. refs'[l + 1][q] = IF l = n THEN ref[q] ELSE refs[l + 1][q]
        <5>1. CASE l = n
          BY <1>4, <5>1
        <5>2. CASE l # n
          <6>1. l + 1 \in 1 .. n
            BY <1>1, <4>1, <5>2
          <6>2. QED
            BY <1>4, <5>2, <6>1
        <5>3. QED
          BY <5>1, <5>2
      <4>4. QED
        BY <1>4, <3>2, <4>1, <4>2, <4>3
    <3>3. QED
      BY <3>1, <3>2
  <2>2. \A q \in Queries : output'[q].query = q
    BY <1>3, <1>5
  <2>3. QED
    BY <1>2, <1>4, <2>1, <2>2 DEF Refined
<1>9. Progress'
  <2>1. pc' = IF n + 1 = NLayers THEN "pool" ELSE "decoder"
    BY DEF DecodeLayer, Computed, Layer
  <2>2. n + 1 = NLayers \/ n + 1 < NLayers
    BY <1>1, PipelineAssumption
  <2>3. QED
    BY <1>4, <2>1, <2>2 DEF Progress
<1>10. QED
  BY <1>7, <1>8, <1>9 DEF BoxInv

LEMMA BoxGround ==
  ASSUME BoxInv, Ground
  PROVE  BoxInv'
<1>1. UNCHANGED decoderVars /\ pc = "pool"
  BY DEF Ground
<1>2. DecoderTypes' /\ Refined'
  BY <1>1 DEF BoxInv, DecoderTypes, Refined, decoderVars
<1>3. Progress'
  <2>1. Len(hs') = NLayers /\ hs' = hs /\ refs' = refs
    BY <1>1 DEF BoxInv, Progress, decoderVars
  <2>2. \/ pc' = "failed"
        \/ /\ pc' = "segmentation"
           /\ boxes' = [l \in 1 .. Len(hs) |-> [q \in Queries |-> Refine(refs[l][q], hs[l][q])]]
    BY DEF Ground, Fail
  <2>3. QED
    BY <2>1, <2>2 DEF Progress
<1>4. QED
  BY <1>2, <1>3 DEF BoxInv

(* No other step touches the decoder's lists or the boxes. *)
LEMMA BoxElsewhere ==
  ASSUME BoxInv,
         UNCHANGED decoderVars,
         \/ pc' = pc /\ boxes' = boxes
         \/ pc' \in {"failed", "aborted"}
         \/ /\ pc \in {"image", "trunk", "neck", "text", "prompt", "geometry"}
            /\ pc' \in {"trunk", "neck", "text", "prompt", "geometry", "fusion"}
         \/ pc = "fusion" /\ pc' = "decoder"
         \/ /\ pc \in {"segmentation", "select"} /\ pc' \in {"segmentation", "select", "done"}
            /\ boxes' = boxes
  PROVE  BoxInv'
<1>1. DecoderTypes' /\ Refined'
  BY DEF BoxInv, DecoderTypes, Refined, decoderVars
<1>2. hs' = hs /\ refs' = refs
  BY DEF decoderVars
<1>3. Progress'
  BY <1>2, PipelineAssumption DEF BoxInv, Progress
<1>4. QED
  BY <1>1, <1>3 DEF BoxInv

LEMMA BoxStep ==
  ASSUME BoxInv, [Next]_vars
  PROVE  BoxInv'
<1>1. CASE DecodeLayer
  BY <1>1, BoxDecode
<1>2. CASE Ground
  BY <1>2, BoxGround
<1>3. CASE LoadImage
  BY <1>3, BoxElsewhere DEF LoadImage, Fail
<1>4. CASE OpenGraph
  BY <1>4, BoxElsewhere DEF OpenGraph, Fail, headVars
<1>5. CASE TensorMissing \/ ComputeFails
  BY <1>5, BoxElsewhere DEF TensorMissing, ComputeFails, Fail
<1>6. CASE Trunk
  BY <1>6, BoxElsewhere DEF Trunk, Computed
<1>7. CASE Neck
  <2>1. pc = "neck" /\ pc' \in {"text", "geometry"} /\ UNCHANGED decoderVars
    BY <1>7 DEF Neck, Computed
  <2>2. QED
    BY <2>1, BoxElsewhere
<1>8. CASE EncodeText
  <2>1. UNCHANGED decoderVars /\ (pc' = "aborted" \/ (pc = "text" /\ pc' = "prompt"))
    BY <1>8 DEF EncodeText, Computed
  <2>2. QED
    BY <2>1, BoxElsewhere
<1>9. CASE BuildPrompt
  BY <1>9, BoxElsewhere DEF BuildPrompt, Computed
<1>10. CASE EncodeGeometry
  BY <1>10, BoxElsewhere DEF EncodeGeometry, Computed
<1>11. CASE Fuse
  BY <1>11, BoxElsewhere DEF Fuse, Computed
<1>12. CASE Segment
  <2>1. /\ pc = "segmentation" /\ pc' \in {"segmentation", "select"}
        /\ boxes' = boxes /\ UNCHANGED decoderVars
    BY <1>12 DEF Segment, Computed
  <2>2. QED
    BY <2>1, BoxElsewhere
<1>13. CASE Select
  BY <1>13, BoxElsewhere DEF Select, headVars
<1>14. CASE Finished \/ UNCHANGED vars
  BY <1>14, BoxElsewhere DEF Finished, vars, headVars
<1>15. QED
  BY <1>1, <1>2, <1>3, <1>4, <1>5, <1>6, <1>7, <1>8, <1>9, <1>10, <1>11, <1>12, <1>13, <1>14
     DEF Next

(* In every layer a query looks around its own box as the layer before left  *)
(* it, and the grounding head finds the boxes the decoder went on with.     *)
THEOREM BoxesAlwaysRefined == Spec => []BoxesAreRefined
<1>1. BoxInv => BoxesAreRefined
  <2>1. SUFFICES
          ASSUME BoxInv, pc = "done"
          PROVE  /\ presence = Row(0, NLayers, NoBox)
                 /\ \A l \in 1 .. NLayers, q \in Queries :
                    /\ hs[l][q].query = q /\ hs[l][q].layer = l
                    /\ hs[l][q].box = IdOf(refs[l][q])
                    /\ boxes[l][q] = IF l = NLayers THEN ref[q] ELSE refs[l + 1][q]
    BY DEF BoxesAreRefined
  <2>2. /\ Len(hs) = NLayers
        /\ boxes = [l \in 1 .. NLayers |-> [q \in Queries |-> Refine(refs[l][q], hs[l][q])]]
    BY <2>1 DEF BoxInv, Progress
  <2>3. ASSUME NEW l \in 1 .. NLayers, NEW q \in Queries
        PROVE  /\ hs[l][q] = Row(q, l, IdOf(refs[l][q]))
               /\ boxes[l][q] = IF l = NLayers THEN ref[q] ELSE refs[l + 1][q]
    BY <2>1, <2>2 DEF BoxInv, Refined
  <2>4. presence = Row(0, NLayers, NoBox)
    BY <2>1, <2>2 DEF BoxInv, Refined
  <2>5. \A q, l, b : Row(q, l, b).query = q /\ Row(q, l, b).layer = l /\ Row(q, l, b).box = b
    BY DEF Row
  <2>6. QED
    BY <2>3, <2>4, <2>5
<1>2. QED
  BY <1>1, BoxInit, BoxStep, PTL DEF Spec

-----------------------------------------------------------------------------
(***************************************************************************)
(* What the networks read of the prompt.                                   *)
(***************************************************************************)

BeforePrompt == {"image", "trunk", "neck", "text", "prompt", "geometry"}

PromptRows == {"token", "point", "box", "cls"} \X Nat

Encoded == text = [i \in 1 .. Len(request.tokens) |-> TextAttends(i)]

TextPrompt ==
  /\ Encoded
  /\ prompt = Append([i \in 1 .. Len(text) |-> <<"token", i>>], CLS)
  /\ pmask = PromptMask(TextMask(request.tokens))

GeometryPrompt ==
  /\ \A i \in DOMAIN prompt : prompt[i][1] # "token"
  /\ prompt \in Seq(PromptRows) /\ pmask = [i \in 1 .. Len(prompt) |-> 0]

Visible == {i \in 1 .. Len(pmask) : ~ pmask[i] > 0}

(* Who has read the prompt by now has read all that is visible of it. *)
HaveRead(p, st) ==
  (IF p \in {"decoder", "pool", "segmentation", "select", "done"} THEN {"fusion"} ELSE {})
  \cup (IF p \in {"pool", "segmentation", "select", "done"} THEN {"decoder"} ELSE {})
  \cup (IF p \in {"segmentation", "select", "done"} THEN {"pool"} ELSE {})
  \cup (IF p \in {"select", "done"} \/ st # 0 THEN {"segmentation"} ELSE {})

PromptInv ==
  /\ request \in Requests /\ DOMAIN seen = Readers
  /\ pc \in BeforePrompt => stage = 0
  /\ pc \in {"text", "prompt"} => request.kind = "text"
  /\ pc = "prompt" => Encoded
  /\ pc = "geometry" => request.kind # "text"
  /\ pc \notin BeforePrompt \cup {"failed", "aborted"} =>
       /\ IF request.kind = "text" THEN TextPrompt ELSE GeometryPrompt
       /\ \A r \in HaveRead(pc, stage) : seen[r] = Visible

LEMMA PromptInit == Init => PromptInv
BY DEF Init, PromptInv, BeforePrompt

(* A step that neither makes the prompt nor reads it. *)
LEMMA PromptStays ==
  ASSUME PromptInv, UNCHANGED <<request, promptVars, seen, stage>>,
         \/ pc' = pc \/ pc' \in {"failed", "aborted"}
         \/ pc = "image" /\ pc' = "trunk"
         \/ pc = "trunk" /\ pc' = "neck"
         \/ pc = "neck" /\ pc' = "text" /\ request.kind = "text"
         \/ pc = "neck" /\ pc' = "geometry" /\ request.kind # "text"
         \/ pc = "select" /\ pc' = "done"
  PROVE  PromptInv'
<1>1. \A r : r \in HaveRead("select", stage) <=> r \in HaveRead("done", stage)
  BY DEF HaveRead
<1>2. CASE pc' = pc
  BY <1>2 DEF PromptInv, TextPrompt, GeometryPrompt, Encoded, Visible, promptVars
<1>3. CASE pc' \in {"failed", "aborted"}
  BY <1>3 DEF PromptInv, BeforePrompt
<1>4. CASE pc = "image" /\ pc' = "trunk"
  BY <1>4 DEF PromptInv, BeforePrompt
<1>5. CASE pc = "trunk" /\ pc' = "neck"
  BY <1>5 DEF PromptInv, BeforePrompt
<1>6. CASE pc = "neck" /\ pc' \in {"text", "geometry"}
  BY <1>6 DEF PromptInv, BeforePrompt
<1>7. CASE pc = "select" /\ pc' = "done"
  BY <1>1, <1>7 DEF PromptInv, TextPrompt, GeometryPrompt, Encoded, Visible, promptVars,
     BeforePrompt
<1>8. QED
  BY <1>2, <1>3, <1>4, <1>5, <1>6, <1>7

LEMMA PromptText ==
  ASSUME PromptInv, EncodeText
  PROVE  PromptInv'
<1>1. pc = "text" /\ UNCHANGED <<request, seen, headVars>> /\ request.kind = "text"
  BY DEF EncodeText, Computed, PromptInv
<1>2. CASE pc' = "aborted"
  BY <1>1, <1>2 DEF PromptInv, BeforePrompt
<1>3. CASE pc' = "prompt" /\ text' = [i \in 1 .. Len(request.tokens) |-> TextAttends(i)]
  BY <1>1, <1>3 DEF PromptInv, BeforePrompt, Encoded, headVars
<1>4. QED
  BY <1>2, <1>3 DEF EncodeText, Computed

LEMMA PromptBuilt ==
  ASSUME PromptInv, BuildPrompt
  PROVE  PromptInv'
<1>1. /\ pc = "prompt" /\ pc' = "fusion" /\ UNCHANGED <<request, text, seen, stage>>
      /\ stage = 0 /\ request.kind = "text" /\ Encoded
  BY DEF BuildPrompt, Computed, PromptInv, BeforePrompt, headVars
<1>2. TextPrompt'
  BY <1>1 DEF BuildPrompt, TextPrompt, Encoded
<1>3. HaveRead(pc', stage') = {}
  BY <1>1 DEF HaveRead
<1>4. QED
  BY <1>1, <1>2, <1>3 DEF PromptInv, BeforePrompt

LEMMA PromptFromGeometry ==
  ASSUME PromptInv, EncodeGeometry
  PROVE  PromptInv'
<1>1. /\ pc = "geometry" /\ pc' = "fusion" /\ UNCHANGED <<request, seen, stage>>
      /\ stage = 0 /\ request \in Requests /\ request.kind # "text"
  BY DEF EncodeGeometry, Computed, PromptInv, BeforePrompt, headVars
<1>2. GeometryPrompt'
  <2> DEFINE asked == IF request.kind = "points"
                      THEN [i \in 1 .. request.count |-> <<"point", i>>]
                      ELSE << <<"box", 1>> >>
  <2>1. asked \in Seq({"point", "box"} \X Nat)
    <3>1. CASE request.kind = "points"
      <4>1. request.count \in Nat
        BY <1>1, <3>1, PipelineAssumption DEF IsRequest
      <4>2. [i \in 1 .. request.count |-> <<"point", i>>] \in Seq({"point", "box"} \X Nat)
        BY <4>1
      <4>3. QED
        BY <3>1, <4>2
    <3>2. CASE request.kind # "points"
      BY <3>2
    <3>3. QED
      BY <3>1, <3>2
  <2>2. prompt' = Append(asked, CLS)
    BY DEF EncodeGeometry
  <2> HIDE DEF asked
  <2>3. prompt' \in Seq({"point", "box", "cls"} \X Nat)
    <3>1. CLS \in {"point", "box", "cls"} \X Nat
      BY DEF CLS
    <3>2. asked \in Seq({"point", "box", "cls"} \X Nat)
      BY <2>1
    <3>3. QED
      BY <2>2, <3>1, <3>2
  <2>4. \A i \in DOMAIN prompt' : prompt'[i] \in {"point", "box", "cls"} \X Nat
    BY <2>3
  <2>5. \A i \in DOMAIN prompt' : prompt'[i][1] # "token"
    BY <2>4
  <2>6. prompt' \in Seq(PromptRows)
    <3>1. {"point", "box", "cls"} \X Nat \subseteq PromptRows
      BY DEF PromptRows
    <3> HIDE DEF PromptRows
    <3>2. QED
      BY <2>3, <3>1
  <2>7. QED
    BY <2>5, <2>6 DEF GeometryPrompt, EncodeGeometry
<1>3. HaveRead(pc', stage') = {}
  BY <1>1 DEF HaveRead
<1>4. QED
  BY <1>1, <1>2, <1>3 DEF PromptInv, BeforePrompt

(* Each reader makes its set of rows in its own way, and it is the same.    *)
LEMMA SameRows ==
  /\ FusionSees(pmask) = Visible /\ DecoderSees(pmask) = Visible
  /\ PoolSees(pmask) = Visible /\ SegmentationSees(pmask) = Visible
BY DEF FusionSees, DecoderSees, PoolSees, SegmentationSees, Visible

LEMMA PromptRead ==
  ASSUME PromptInv, Fuse \/ DecodeLayer \/ Segment \/ (Ground /\ pc' = "segmentation")
  PROVE  PromptInv'
<1>1. pc \in {"fusion", "decoder", "pool", "segmentation"} /\ UNCHANGED <<request, promptVars>>
  BY DEF Fuse, DecodeLayer, Segment, Ground, Computed
<1>2. pc \notin BeforePrompt \cup {"failed", "aborted"}
  BY <1>1 DEF BeforePrompt
<1>3. (IF request.kind = "text" THEN TextPrompt ELSE GeometryPrompt)' /\ Visible' = Visible
  BY <1>1, <1>2 DEF PromptInv, TextPrompt, GeometryPrompt, Encoded, Visible, promptVars
<1>4. /\ DOMAIN seen = Readers /\ request \in Requests
      /\ \A r \in HaveRead(pc, stage) : seen[r] = Visible
  BY <1>2 DEF PromptInv
<1>5. /\ DOMAIN seen' = Readers
      /\ pc' \in {"decoder", "pool", "segmentation", "select"}
      /\ \A r \in HaveRead(pc', stage') : seen'[r] = Visible
  <2>1. CASE Fuse
    <3>1. pc = "fusion" /\ pc' = "decoder" /\ stage' = stage
      BY <2>1 DEF Fuse, Computed, headVars
    <3>2. seen' = [seen EXCEPT !["fusion"] = Visible]
      BY <2>1, SameRows DEF Fuse
    <3>3. QED
      BY <1>4, <3>1, <3>2 DEF HaveRead, Readers
  <2>2. CASE DecodeLayer
    <3>1. pc = "decoder" /\ pc' \in {"decoder", "pool"} /\ stage' = stage
      BY <2>2 DEF DecodeLayer, Computed, headVars
    <3>2. seen' = [seen EXCEPT !["decoder"] = Visible]
      BY <2>2, SameRows DEF DecodeLayer
    <3>3. QED
      BY <1>4, <3>1, <3>2 DEF HaveRead, Readers
  <2>3. CASE Ground /\ pc' = "segmentation"
    <3>1. pc = "pool" /\ stage' = stage
      BY <2>3 DEF Ground
    <3>2. seen' = [seen EXCEPT !["pool"] = Visible]
      BY <2>3, SameRows DEF Ground, Fail
    <3>3. QED
      BY <1>4, <2>3, <3>1, <3>2 DEF HaveRead, Readers
  <2>4. CASE Segment
    <3>1. pc = "segmentation" /\ pc' = IF stage = 2 THEN "select" ELSE "segmentation"
      BY <2>4 DEF Segment, Computed
    <3>2. CASE stage = 0
      <4>1. seen' = [seen EXCEPT !["segmentation"] = Visible] /\ pc' = "segmentation"
        BY <2>4, <3>1, <3>2, SameRows DEF Segment
      <4>2. QED
        BY <1>4, <3>1, <4>1 DEF HaveRead, Readers
    <3>3. CASE stage # 0
      <4>1. seen' = seen
        BY <2>4, <3>3 DEF Segment
      <4>2. QED
        BY <1>4, <3>1, <3>3, <4>1 DEF HaveRead
    <3>4. QED
      BY <3>2, <3>3
  <2>5. QED
    BY <2>1, <2>2, <2>3, <2>4
<1>6. QED
  BY <1>1, <1>3, <1>4, <1>5 DEF PromptInv, BeforePrompt

LEMMA PromptStep ==
  ASSUME PromptInv, [Next]_vars
  PROVE  PromptInv'
<1>1. CASE Fuse \/ DecodeLayer \/ Segment
  BY <1>1, PromptRead
<1>2. CASE Ground
  <2>1. CASE pc' = "segmentation"
    BY <1>2, <2>1, PromptRead
  <2>2. CASE pc' # "segmentation"
    <3>1. pc' = "failed" /\ UNCHANGED <<request, promptVars, seen, stage>>
      BY <1>2, <2>2 DEF Ground, Fail
    <3>2. QED
      BY <3>1, PromptStays
  <2>3. QED
    BY <2>1, <2>2
<1>3. CASE EncodeText
  BY <1>3, PromptText
<1>4. CASE BuildPrompt
  BY <1>4, PromptBuilt
<1>5. CASE EncodeGeometry
  BY <1>5, PromptFromGeometry
<1>6. CASE LoadImage
  BY <1>6, PromptStays DEF LoadImage, Fail, headVars
<1>7. CASE OpenGraph
  BY <1>7, PromptStays DEF OpenGraph, Fail, headVars
<1>8. CASE TensorMissing \/ ComputeFails
  BY <1>8, PromptStays DEF TensorMissing, ComputeFails, Fail, headVars
<1>9. CASE Trunk
  BY <1>9, PromptStays DEF Trunk, Computed, headVars
<1>10. CASE Neck
  <2>1. /\ pc = "neck" /\ pc' = (IF request.kind = "text" THEN "text" ELSE "geometry")
        /\ UNCHANGED <<request, promptVars, seen, stage>>
    BY <1>10 DEF Neck, Computed, headVars
  <2>2. QED
    BY <2>1, PromptStays
<1>11. CASE Select
  BY <1>11, PromptStays DEF Select, headVars
<1>12. CASE Finished \/ UNCHANGED vars
  BY <1>12, PromptStays DEF Finished, vars, headVars
<1>13. QED
  BY <1>1, <1>2, <1>3, <1>4, <1>5, <1>6, <1>7, <1>8, <1>9, <1>10, <1>11, <1>12 DEF Next

(* The rows of a text prompt that its mask leaves visible are those asked.  *)
LEMMA TextRows ==
  ASSUME request \in Requests, request.kind = "text", TextPrompt
  PROVE  /\ Visible = {i \in DOMAIN prompt : IsAsked(prompt[i])}
         /\ \A i \in Visible : prompt[i][1] = "token" => text[i] \subseteq 1 .. request.written
<1> DEFINE n == Len(request.tokens)
           tokens == request.tokens
<1>1. /\ tokens \in Seq(Nat) /\ n \in Nat /\ request.written \in Nat
      /\ \A i \in 1 .. n : tokens[i] # 0 => i <= request.written
  <2>1. /\ tokens \in Seq(Nat) /\ request.written \in 0 .. n
        /\ \A i \in request.written + 1 .. n : tokens[i] = 0
    BY PipelineAssumption DEF IsRequest
  <2>2. n \in Nat /\ request.written \in Nat
    BY <2>1
  <2>3. ASSUME NEW i \in 1 .. n, tokens[i] # 0 PROVE i <= request.written
    <3>1. i \notin request.written + 1 .. n
      BY <2>1, <2>3
    <3>2. QED
      BY <2>2, <3>1
  <2>4. QED
    BY <2>1, <2>2, <2>3
<1>2. text = [i \in 1 .. n |-> 1 .. i] /\ Len(text) = n
  BY <1>1 DEF TextPrompt, Encoded, TextAttends
<1> DEFINE rows == [i \in 1 .. n |-> <<"token", i>>]
           mask == [i \in 1 .. n |-> IF tokens[i] = 0 THEN 1 ELSE 0]
<1>3. /\ prompt = Append(rows, CLS) /\ rows \in Seq(PromptRows) /\ Len(rows) = n
      /\ pmask = Append(mask, 0) /\ mask \in Seq(Nat) /\ Len(mask) = n
  <2>1. prompt = Append(rows, CLS) /\ pmask = Append(mask, 0)
    BY <1>2 DEF TextPrompt, PromptMask, TextMask
  <2>2. \A i \in 1 .. n : <<"token", i>> \in PromptRows
    BY DEF PromptRows
  <2>3. rows \in Seq(PromptRows) /\ Len(rows) = n
    BY <1>1, <2>2
  <2>4. mask \in Seq(Nat) /\ Len(mask) = n
    BY <1>1
  <2>5. QED
    BY <2>1, <2>3, <2>4
<1> HIDE DEF rows, mask
<1>4. /\ DOMAIN prompt = 1 .. n + 1 /\ Len(pmask) = n + 1
      /\ prompt[n + 1] = CLS /\ pmask[n + 1] = 0
      /\ \A i \in 1 .. n : prompt[i] = rows[i] /\ pmask[i] = mask[i]
  BY <1>1, <1>3
<1>5. \A i \in 1 .. n : prompt[i] = <<"token", i>> /\ pmask[i] = IF tokens[i] = 0 THEN 1 ELSE 0
  BY <1>4 DEF rows, mask
<1>6. ASSUME NEW i \in 1 .. n
      PROVE  /\ ~ pmask[i] > 0 <=> tokens[i] # 0
             /\ IsAsked(prompt[i]) <=> tokens[i] # 0
  <2>1. ~ pmask[i] > 0 <=> tokens[i] # 0
    BY <1>5
  <2>2. IsAsked(prompt[i]) <=> i <= request.written /\ tokens[i] # 0
    <3>1. prompt[i][1] = "token" /\ prompt[i][2] = i
      BY <1>5
    <3>2. QED
      BY <3>1 DEF IsAsked
  <2>3. QED
    BY <1>1, <2>1, <2>2
<1>7. IsAsked(prompt[n + 1]) /\ ~ pmask[n + 1] > 0 /\ prompt[n + 1][1] # "token"
  BY <1>4 DEF IsAsked, CLS
<1>8. \A i \in 1 .. n + 1 : i \in 1 .. n \/ i = n + 1
  BY <1>1
<1>9. \A i \in 1 .. n + 1 : ~ pmask[i] > 0 <=> IsAsked(prompt[i])
  BY <1>6, <1>7, <1>8
<1>10. Visible = {i \in DOMAIN prompt : IsAsked(prompt[i])}
  BY <1>4, <1>9 DEF Visible
<1>11. ASSUME NEW i \in Visible, prompt[i][1] = "token"
       PROVE  text[i] \subseteq 1 .. request.written
  <2>1. i \in 1 .. n
    BY <1>4, <1>7, <1>8, <1>11 DEF Visible
  <2>2. i <= request.written
    BY <1>1, <1>6, <2>1, <1>11 DEF Visible
  <2>3. QED
    BY <1>1, <1>2, <2>1, <2>2
<1>12. QED
  BY <1>10, <1>11

(* Fusion, decoder, scoring and segmentation read CLS and what was asked,   *)
(* and nothing that was computed from padding, whatever was asked.          *)
THEOREM PromptAlwaysRead == Spec => []PromptIsRead
<1>1. PromptInv => PromptIsRead
  <2>1. SUFFICES
          ASSUME PromptInv, pc = "done", NEW r \in Readers
          PROVE  /\ seen[r] = {i \in DOMAIN prompt : IsAsked(prompt[i])}
                 /\ \A i \in seen[r] :
                      prompt[i][1] = "token" => text[i] \subseteq 1 .. request.written
    BY DEF PromptIsRead
  <2>2. r \in HaveRead(pc, stage)
    BY <2>1 DEF HaveRead, Readers
  <2>3. /\ seen[r] = Visible /\ request \in Requests
        /\ IF request.kind = "text" THEN TextPrompt ELSE GeometryPrompt
    BY <2>1, <2>2 DEF PromptInv, BeforePrompt
  <2>4. CASE request.kind = "text"
    BY <2>3, <2>4, TextRows
  <2>5. CASE request.kind # "text"
    <3>1. Visible = DOMAIN prompt /\ \A i \in DOMAIN prompt : prompt[i][1] # "token"
      <4>1. /\ prompt \in Seq(PromptRows) /\ pmask = [i \in 1 .. Len(prompt) |-> 0]
            /\ \A i \in DOMAIN prompt : prompt[i][1] # "token"
        BY <2>3, <2>5 DEF GeometryPrompt
      <4>2. DOMAIN prompt = 1 .. Len(prompt) /\ Len(prompt) \in Nat
        BY <4>1
      <4>3. Len(pmask) = Len(prompt) /\ \A i \in 1 .. Len(prompt) : ~ pmask[i] > 0
        BY <4>1, <4>2
      <4>4. QED
        BY <4>1, <4>2, <4>3 DEF Visible
    <3>2. \A i \in DOMAIN prompt : IsAsked(prompt[i])
      BY <3>1 DEF IsAsked
    <3>3. QED
      BY <2>3, <3>1, <3>2
  <2>6. QED
    BY <2>4, <2>5
<1>2. QED
  BY <1>1, PromptInit, PromptStep, PTL DEF Spec

-----------------------------------------------------------------------------
(***************************************************************************)
(* The rows of the result.                                                 *)
(***************************************************************************)

Above(q) == levels[q] >= Threshold(request.kind)

(* One turn of the loop over the queries, and all that it has kept after n. *)
Turn(keep, n) ==
  IF n = 0 THEN <<>> ELSE IF Above(n) THEN Append(keep[n - 1], n) ELSE keep[n - 1]

Keep == CHOOSE keep : keep = [n \in 0 .. NQueries |-> Turn(keep, n)]

(* The loop can be run to any query, so the recursive definition defines. *)
LEMMA KeepRuns ==
  ASSUME NEW n \in Nat
  PROVE  \E keep : keep = [s \in 0 .. n |-> Turn(keep, s)]
<1> DEFINE T == {k \in Nat : \E keep : keep = [s \in 0 .. k |-> Turn(keep, s)]}
<1>1. 0 \in T
  <2> DEFINE keep == [s \in 0 .. 0 |-> <<>>]
  <2>1. \A s \in 0 .. 0 : s = 0
    OBVIOUS
  <2>2. keep = [s \in 0 .. 0 |-> Turn(keep, s)]
    BY <2>1 DEF Turn
  <2>3. QED
    BY <2>2
<1>2. ASSUME NEW k \in T PROVE k + 1 \in T
  <2>1. PICK keep : keep = [s \in 0 .. k |-> Turn(keep, s)]
    OBVIOUS
  <2> DEFINE more == [s \in 0 .. k + 1 |-> IF s = k + 1 THEN Turn(keep, s) ELSE keep[s]]
  <2>2. k \in Nat /\ k + 1 \in Nat
    OBVIOUS
  <2>3. \A s \in 0 .. k : s \in 0 .. k + 1 /\ s # k + 1 /\ more[s] = keep[s]
    BY <2>2
  <2>4. \A s \in 0 .. k + 1 : s # 0 => s - 1 \in 0 .. k
    BY <2>2
  <2>5. \A s \in 0 .. k + 1 : s = k + 1 \/ s \in 0 .. k
    BY <2>2
  <2> HIDE DEF more
  <2>6. \A s \in 0 .. k + 1 : Turn(more, s) = Turn(keep, s)
    BY <2>3, <2>4 DEF Turn
  <2>7. \A s \in 0 .. k : keep[s] = Turn(keep, s)
    BY <2>1
  <2>8. more = [s \in 0 .. k + 1 |-> Turn(keep, s)]
    BY <2>5, <2>7 DEF more
  <2>9. more = [s \in 0 .. k + 1 |-> Turn(more, s)]
    BY <2>6, <2>8
  <2>10. QED
    BY <2>2, <2>9
<1>3. Nat \subseteq T
  <2> HIDE DEF T
  <2>1. \A k \in Nat : k \in T => k + 1 \in T
    BY <1>2
  <2>2. QED
    BY <1>1, <2>1, SetInduction
<1>4. QED
  BY <1>3

(* What is kept of the first n: those above the threshold, once, in order.  *)
IsKept(k, n) ==
  /\ k \in Seq(1 .. n)
  /\ \A i, j \in 1 .. Len(k) : i < j => k[i] < k[j]
  /\ \A q \in 1 .. n : Above(q) <=> \E i \in 1 .. Len(k) : k[i] = q

LEMMA KeptIs ==
  /\ Kept \in Seq(Queries)
  /\ \A i, j \in 1 .. Len(Kept) : i < j => Kept[i] < Kept[j]
  /\ \A q \in Queries : Above(q) <=> \E i \in 1 .. Len(Kept) : Kept[i] = q
<1> DEFINE T == {n \in Nat : n <= NQueries => IsKept(Keep[n], n)}
<1>1. NQueries \in Nat
  BY PipelineAssumption
<1>2. \A n \in 0 .. NQueries : Keep[n] = Turn(Keep, n)
  <2>1. \E keep : keep = [n \in 0 .. NQueries |-> Turn(keep, n)]
    BY <1>1, KeepRuns
  <2>2. Keep = [n \in 0 .. NQueries |-> Turn(Keep, n)]
    BY <2>1 DEF Keep
  <2>3. QED
    BY <2>2
<1>3. Kept = Keep[NQueries]
  BY DEF Kept, Keep, Turn, Above
<1>4. 0 \in T
  <2>1. Keep[0] = <<>>
    BY <1>1, <1>2 DEF Turn
  <2>2. <<>> \in Seq(1 .. 0) /\ Len(<<>>) = 0 /\ 1 .. 0 = {}
    OBVIOUS
  <2>3. IsKept(<<>>, 0)
    BY <2>2 DEF IsKept
  <2>4. QED
    BY <2>1, <2>3
<1>5. ASSUME NEW n \in Nat, n \in T PROVE n + 1 \in T
  <2>1. SUFFICES ASSUME n + 1 <= NQueries PROVE IsKept(Keep[n + 1], n + 1)
    OBVIOUS
  <2> DEFINE k == Keep[n]
  <2>2. IsKept(k, n)
    <3>1. n <= NQueries
      BY <1>1, <2>1
    <3>2. QED
      BY <1>5, <3>1
  <2>3. Keep[n + 1] = IF Above(n + 1) THEN Append(k, n + 1) ELSE k
    BY <1>1, <1>2, <2>1 DEF Turn
  <2> HIDE DEF k
  <2>4. k \in Seq(1 .. n + 1) /\ Len(k) \in Nat /\ \A i \in 1 .. Len(k) : k[i] \in 1 .. n
    <3>1. 1 .. n \subseteq 1 .. n + 1
      OBVIOUS
    <3>2. k \in Seq(1 .. n) /\ \A i \in 1 .. Len(k) : k[i] \in 1 .. n
      BY <2>2 DEF IsKept
    <3>3. QED
      BY <3>1, <3>2
  <2>5. CASE Above(n + 1)
    <3> DEFINE more == Append(k, n + 1)
    <3>1. /\ more \in Seq(1 .. n + 1) /\ Len(more) = Len(k) + 1
          /\ more[Len(k) + 1] = n + 1 /\ \A i \in 1 .. Len(k) : more[i] = k[i]
      BY <2>4
    <3> HIDE DEF more
    <3>2. \A i \in 1 .. Len(k) + 1 : i = Len(k) + 1 \/ i \in 1 .. Len(k)
      BY <2>4
    <3>3. ASSUME NEW i \in 1 .. Len(more), NEW j \in 1 .. Len(more), i < j
          PROVE  more[i] < more[j]
      <4>1. i \in 1 .. Len(k)
        BY <2>4, <3>1, <3>3
      <4>2. CASE j = Len(k) + 1
        BY <2>4, <3>1, <4>1, <4>2
      <4>3. CASE j \in 1 .. Len(k)
        BY <2>2, <3>1, <3>3, <4>1, <4>3 DEF IsKept
      <4>4. QED
        BY <3>1, <3>2, <4>2, <4>3
    <3>4. ASSUME NEW q \in 1 .. n + 1
          PROVE  Above(q) <=> \E i \in 1 .. Len(more) : more[i] = q
      <4>1. CASE q = n + 1
        <5>1. Len(k) + 1 \in 1 .. Len(more)
          BY <2>4, <3>1
        <5>2. QED
          BY <2>5, <3>1, <4>1, <5>1
      <4>2. CASE q \in 1 .. n
        <5>1. \A i \in 1 .. Len(k) : i \in 1 .. Len(more)
          BY <2>4, <3>1
        <5>2. more[Len(k) + 1] # q
          BY <3>1, <4>2
        <5>3. Above(q) <=> \E i \in 1 .. Len(k) : k[i] = q
          BY <2>2, <4>2 DEF IsKept
        <5>4. QED
          BY <3>1, <3>2, <5>1, <5>2, <5>3
      <4>3. QED
        BY <4>1, <4>2
    <3>5. QED
      BY <2>3, <2>5, <3>1, <3>3, <3>4 DEF more, IsKept
  <2>6. CASE ~ Above(n + 1)
    <3>1. ASSUME NEW q \in 1 .. n + 1
          PROVE  Above(q) <=> \E i \in 1 .. Len(k) : k[i] = q
      <4>1. CASE q = n + 1
        BY <2>4, <2>6, <4>1
      <4>2. CASE q \in 1 .. n
        BY <2>2, <4>2 DEF IsKept
      <4>3. QED
        BY <4>1, <4>2
    <3>2. QED
      BY <2>2, <2>3, <2>4, <2>6, <3>1 DEF IsKept
  <2>7. QED
    BY <2>5, <2>6
<1>6. NQueries \in T
  <2> HIDE DEF T
  <2>1. QED
    BY <1>1, <1>4, <1>5, SetInduction
<1>7. IsKept(Kept, NQueries)
  BY <1>1, <1>3, <1>6
<1>8. QED
  BY <1>7 DEF IsKept, Queries

(* The result of a prediction is gathered from the last layer, and the      *)
(* masks were made of the same rows.                                       *)
Gathered ==
  [count |-> Len(Kept), scores |-> [i \in 1 .. Len(Kept) |-> hs[Len(hs)][Kept[i]]],
   boxes |-> Picked(boxes[Len(boxes)]), masks |-> Picked(masks)]

RowInv ==
  /\ pc \in {"select", "done"} => masks = hs[Len(hs)]
  /\ pc = "done" => result = Gathered

LEMMA RowStep ==
  ASSUME RowInv, [Next]_vars
  PROVE  RowInv'
<1>1. CASE Segment
  <2>1. /\ pc' \in {"segmentation", "select"} /\ hs' = hs
        /\ pc' = "select" => masks' = hs[Len(hs)]
    BY <1>1 DEF Segment, Computed, decoderVars
  <2>2. QED
    BY <2>1 DEF RowInv
<1>2. CASE Select
  <2>1. /\ pc = "select" /\ pc' = "done" /\ result' = Gathered
        /\ UNCHANGED <<request, decoderVars, headVars>>
    BY <1>2 DEF Select, Gathered
  <2>2. /\ levels' = levels /\ request' = request /\ hs' = hs
        /\ boxes' = boxes /\ masks' = masks
    BY <2>1 DEF decoderVars, headVars
  <2>3. Kept' = Kept
    BY <2>2 DEF Kept
  <2>4. Gathered' = Gathered
    BY <2>2, <2>3 DEF Gathered, Picked
  <2>5. QED
    BY <2>1, <2>2, <2>4 DEF RowInv
<1>3. CASE Finished \/ UNCHANGED vars
  <2>1. UNCHANGED <<pc, request, decoderVars, headVars, result>>
    BY <1>3 DEF Finished, vars
  <2>2. /\ levels' = levels /\ request' = request /\ hs' = hs
        /\ boxes' = boxes /\ masks' = masks
    BY <2>1 DEF decoderVars, headVars
  <2>3. Kept' = Kept
    BY <2>2 DEF Kept
  <2>4. Gathered' = Gathered
    BY <2>2, <2>3 DEF Gathered, Picked
  <2>5. QED
    BY <2>1, <2>2, <2>4 DEF RowInv
<1>4. CASE OpenGraph
  <2>1. pc' \in Graphs \cup {"failed"}
    BY <1>4 DEF OpenGraph, Fail
  <2>2. QED
    BY <2>1, PlacesDiffer DEF RowInv
<1>5. CASE LoadImage \/ TensorMissing \/ ComputeFails \/ Trunk \/ Neck \/ EncodeText
             \/ BuildPrompt \/ EncodeGeometry \/ Fuse \/ DecodeLayer \/ Ground
  <2>1. pc' \notin {"select", "done"}
    BY <1>5 DEF LoadImage, TensorMissing, ComputeFails, Trunk, Neck, EncodeText, BuildPrompt,
       EncodeGeometry, Fuse, DecodeLayer, Ground, Computed, Fail
  <2>2. QED
    BY <2>1 DEF RowInv
<1>6. QED
  BY <1>1, <1>2, <1>3, <1>4, <1>5 DEF Next

(* Row i of the scores, the boxes and the masks belongs to one query of the *)
(* last layer, and every query above the threshold has one row.            *)
THEOREM RowsAlwaysBelongTogether == Spec => []RowsBelongTogether
<1>1. Init => RowInv
  BY DEF Init, RowInv
<1>2. ASSUME BoxInv, RowInv PROVE RowsBelongTogether
  <2> DEFINE n == Len(Kept)
             RowOf(i) == {result.scores[i].query, result.boxes[i].query, result.masks[i].query}
  <2>1. SUFFICES
          ASSUME pc = "done"
          PROVE  /\ \A list \in {result.scores, result.boxes, result.masks} :
                       /\ Len(list) = result.count
                       /\ \A i \in DOMAIN list : list[i].layer = NLayers
                 /\ \A i \in 1 .. result.count : Cardinality(RowOf(i)) = 1
                 /\ \A q \in Queries : Above(q) <=> (\E i \in 1 .. result.count : q \in RowOf(i))
                 /\ \A i, j \in 1 .. result.count : RowOf(i) = RowOf(j) => i = j
    BY DEF RowsBelongTogether, Above
  <2>2. /\ Kept \in Seq(Queries) /\ n \in Nat /\ \A i \in 1 .. n : Kept[i] \in Queries
        /\ \A i, j \in 1 .. n : i < j => Kept[i] < Kept[j]
        /\ \A q \in Queries : Above(q) <=> \E i \in 1 .. n : Kept[i] = q
    BY KeptIs
  <2>3. /\ Len(hs) = NLayers /\ NLayers \in Nat \ {0} /\ NLayers \in 1 .. Len(hs)
        /\ masks = hs[NLayers] /\ result = Gathered
        /\ boxes = [l \in 1 .. NLayers |-> [q \in Queries |-> Refine(refs[l][q], hs[l][q])]]
    BY <1>2, <2>1, PipelineAssumption DEF BoxInv, Progress, RowInv
  <2>4. \A q \in Queries : hs[NLayers][q].query = q /\ hs[NLayers][q].layer = NLayers
    <3>1. \A q \in Queries : hs[NLayers][q] = Row(q, NLayers, IdOf(refs[NLayers][q]))
      BY <1>2, <2>3 DEF BoxInv, Refined
    <3>2. \A q, l, b : Row(q, l, b).query = q /\ Row(q, l, b).layer = l
      BY DEF Row
    <3>3. QED
      BY <3>1, <3>2
  <2>5. Len(boxes) = NLayers
    BY <2>3
  <2>6. \A q \in Queries : boxes[NLayers][q].query = q /\ boxes[NLayers][q].layer = NLayers
    BY <2>3, <2>4 DEF Refine, Box
  <2>7. /\ result.count = n
        /\ result.scores = [i \in 1 .. n |-> hs[NLayers][Kept[i]]]
        /\ result.boxes = [i \in 1 .. n |-> boxes[NLayers][Kept[i]]]
        /\ result.masks = [i \in 1 .. n |-> hs[NLayers][Kept[i]]]
    BY <2>3, <2>5 DEF Gathered, Picked
  <2> HIDE DEF n
  <2>8. \A i \in 1 .. n : RowOf(i) = {Kept[i]}
    BY <2>2, <2>4, <2>6, <2>7
  <2>9. ASSUME NEW list \in {result.scores, result.boxes, result.masks}
        PROVE  Len(list) = result.count /\ \A i \in DOMAIN list : list[i].layer = NLayers
    <3>1. DOMAIN list = 1 .. n
      BY <2>7
    <3>2. Len(list) = n
      BY <2>2, <2>7
    <3>3. \A i \in 1 .. n : list[i].layer = NLayers
      BY <2>2, <2>4, <2>6, <2>7
    <3>4. QED
      BY <2>7, <3>1, <3>2, <3>3
  <2> HIDE DEF RowOf
  <2>10. \A i \in 1 .. n : Cardinality(RowOf(i)) = 1
    BY <2>8, FS_Singleton
  <2>11. \A q \in Queries : Above(q) <=> \E i \in 1 .. n : q \in RowOf(i)
    BY <2>2, <2>8
  <2>12. ASSUME NEW i \in 1 .. n, NEW j \in 1 .. n, RowOf(i) = RowOf(j) PROVE i = j
    <3>1. Kept[i] = Kept[j]
      BY <2>8, <2>12
    <3>2. Kept[i] \in Int
      BY <2>2, PipelineAssumption DEF Queries
    <3>3. ~ (i < j) /\ ~ (j < i)
      BY <2>2, <3>1, <3>2
    <3>4. QED
      BY <2>2, <3>3
  <2>13. QED
    BY <2>7, <2>9, <2>10, <2>11, <2>12
<1>3. QED
  BY <1>1, <1>2, BoxInit, BoxStep, RowStep, PTL DEF Spec

-----------------------------------------------------------------------------
(***************************************************************************)
(* What the C interface makes of a prediction: CApi, for any number of     *)
(* threads, blocks, objects and calls.                                     *)
(***************************************************************************)

(* Where a call stands tells which pointers of its result are null ...     *)
NotYet(a) ==
  {"idle", "creating", "predicting", "error", "scores"}
    \cup (IF a = "scores" THEN {} ELSE {"boxes"})
    \cup (IF a = "masks" THEN {"masks"} ELSE {})

NullWhile == \A t \in Threads, a \in Arrays : at[t] \in NotYet(a) => raw[t].array[a] = NULL

(* ... every other pointer is the only one to a block, and every block has *)
(* its pointer ...                                                         *)
PointersOwn ==
  /\ \A b \in Allocated : \E t \in Threads, a \in Arrays : raw[t].array[a] = b
  /\ \A t \in Threads, a \in Arrays : raw[t].array[a] # NULL => raw[t].array[a] \in Allocated
  /\ \A t, u \in Threads, a, b \in Arrays :
       raw[t].array[a] = raw[u].array[b] /\ raw[t].array[a] # NULL => t = u /\ a = b

(* ... an error that is still to be read is that of the call ...           *)
ErrorsWait ==
  /\ answer = [t \in Threads |-> answer[t]]
  /\ \A t \in Threads :
       /\ at[t] \in {"release", "error"} => lastError[t] = Call(t)
       /\ at[t] = "converted" => answer[t].kind = "prediction"
       /\ at[t] = "idle" /\ answer[t].kind = "error" => answer[t].from = Call(t)

(* ... and a result that was filled stays as it is until it is read.       *)
Holds(t) == pred[t] > 0 => \A a \in Arrays : heap[raw[t].array[a]] = <<Call(t), a>>

Filled(t) ==
  /\ at[t] \in {"scores", "boxes", "masks", "copy", "convert"} => raw[t].count = pred[t]
  /\ at[t] = "convert" => (\A a \in Arrays : raw[t].array[a] # NULL) /\ Holds(t)
  /\ at[t] \in {"converted", "idle"} /\ answer[t].kind = "prediction" =>
       /\ answer[t].count = pred[t]
       /\ pred[t] > 0 => \A a \in Arrays : answer[t].holds[a] = <<Call(t), a>>

-----------------------------------------------------------------------------
(* A result that is freed holds no pointer; the others keep their blocks.  *)
LEMMA FreeOwns ==
  ASSUME ApiTypeOK, PointersOwn, NEW t \in Threads, ResultFree(t)
  PROVE  /\ PointersOwn'
         /\ \A a \in Arrays : raw'[t].array[a] = NULL
         /\ \A u \in Threads \ {t} : raw'[u] = raw[u]
         /\ \A u \in Threads \ {t}, a \in Arrays :
              raw[u].array[a] # NULL => heap'[raw[u].array[a]] = heap[raw[u].array[a]]
<1>1. raw' = [raw EXCEPT ![t] = ZeroRaw]
  BY DEF ResultFree, RawAfterFree
<1>2. /\ \A a \in Arrays : raw'[t].array[a] = NULL
      /\ \A u \in Threads \ {t} : raw'[u] = raw[u]
  BY <1>1 DEF ApiTypeOK, ZeroRaw
<1>3. Allocated' = Allocated \ PointersOf(raw[t])
  BY DEF ResultFree, Without, Allocated
<1>4. \A u \in Threads \ {t}, a \in Arrays :
        raw[u].array[a] # NULL => raw[u].array[a] \in Allocated \ PointersOf(raw[t])
  BY DEF PointersOwn, PointersOf
<1>5. \A u \in Threads \ {t}, a \in Arrays :
        raw[u].array[a] # NULL => heap'[raw[u].array[a]] = heap[raw[u].array[a]]
  BY <1>4 DEF ResultFree, Without
<1>6. \A b \in Allocated' : \E u \in Threads, a \in Arrays : raw'[u].array[a] = b
  <2> SUFFICES ASSUME NEW b \in Allocated'
               PROVE  \E u \in Threads, a \in Arrays : raw'[u].array[a] = b
    OBVIOUS
  <2>1. b \in Allocated /\ b \notin PointersOf(raw[t])
    BY <1>3
  <2>2. PICK u \in Threads, a \in Arrays : raw[u].array[a] = b
    BY <2>1 DEF PointersOwn
  <2>3. b # NULL
    BY <2>1, CApiAssumption DEF ApiTypeOK
  <2>4. u # t
    BY <2>1, <2>2, <2>3 DEF PointersOf
  <2> QED BY <2>2, <2>4, <1>2
<1>7. \A u \in Threads, a \in Arrays : raw'[u].array[a] # NULL => raw'[u].array[a] \in Allocated'
  BY <1>2, <1>3, <1>4
<1>8. \A s, u \in Threads, a, b \in Arrays :
       raw'[s].array[a] = raw'[u].array[b] /\ raw'[s].array[a] # NULL => s = u /\ a = b
  BY <1>2 DEF PointersOwn
<1> QED BY <1>2, <1>5, <1>6, <1>7, <1>8 DEF PointersOwn

-----------------------------------------------------------------------------
(***************************************************************************)
(* Types.                                                                  *)
(***************************************************************************)

LEMMA CallTyped ==
  ASSUME ApiTypeOK, NEW t \in Threads
  PROVE  Call(t) \in Threads \X (0 .. MaxCalls)
BY DEF ApiTypeOK, Call

LEMMA TypedFree ==
  ASSUME ApiTypeOK, NEW t \in Threads, ResultFree(t)
  PROVE  /\ raw' \in [Threads -> [count : 0 .. MaxCount, array : [Arrays -> Blocks \cup {NULL}]]]
         /\ Allocated' \subseteq Blocks /\ heap' \in [Allocated' -> Contents]
<1>1. ZeroRaw \in [count : 0 .. MaxCount, array : [Arrays -> Blocks \cup {NULL}]]
  BY CApiAssumption DEF ZeroRaw
<1>2. raw' = [raw EXCEPT ![t] = ZeroRaw]
  BY DEF ResultFree, RawAfterFree
<1>3. raw' \in [Threads -> [count : 0 .. MaxCount, array : [Arrays -> Blocks \cup {NULL}]]]
  BY <1>1, <1>2 DEF ApiTypeOK
<1>4. Allocated' \subseteq Blocks /\ heap' \in [Allocated' -> Contents]
  BY DEF ResultFree, Without, ApiTypeOK, Allocated
<1> QED BY <1>3, <1>4

LEMMA TypedStep ==
  ASSUME ApiTypeOK, NEW t \in Threads, Step(t)
  PROVE  ApiTypeOK'
<1> USE CApiAssumption
<1>c. Call(t) \in Threads \X (0 .. MaxCalls)
  BY CallTyped
<1>1. CASE Create(t)
  BY <1>1 DEF Create, ApiTypeOK, Count, Goto, Allocated, Contents, Errors
<1>2. CASE Created(t)
  <2>1. CASE Throw(t, "error")
    BY <1>2, <1>c, <2>1 DEF Created, ApiTypeOK, Throw, ErrorsAfter, Goto, Allocated, Errors
  <2>2. CASE model' = [model EXCEPT ![t] = TRUE] /\ Goto(t, "idle") /\ UNCHANGED lastError
    BY <1>2, <2>2 DEF Created, ApiTypeOK, Goto, Allocated
  <2>3. Throw(t, "error") \/ (model' = [model EXCEPT ![t] = TRUE] /\ Goto(t, "idle") /\ UNCHANGED lastError)
    BY <1>2 DEF Created
  <2> QED BY <2>1, <2>2, <2>3
<1>3. CASE Destroy(t)
  BY <1>3 DEF Destroy, ApiTypeOK, Allocated, Contents, Errors
<1>4. CASE Predict(t)
  <2>1. ZeroRaw \in [count : 0 .. MaxCount, array : [Arrays -> Blocks \cup {NULL}]]
    BY DEF ZeroRaw
  <2>2. /\ raw' \in [Threads -> [count : 0 .. MaxCount, array : [Arrays -> Blocks \cup {NULL}]]]
        /\ calls' \in [Threads -> 0 .. MaxCalls]
    BY <1>4, <2>1 DEF Predict, ApiTypeOK, Count
  <2> QED BY <1>4, <2>2 DEF Predict, ApiTypeOK, Goto, Allocated
<1>5. CASE Predicted(t)
  <2>1. \A n \in 0 .. MaxCount :
          [ZeroRaw EXCEPT !.count = n] \in [count : 0 .. MaxCount, array : [Arrays -> Blocks \cup {NULL}]]
    BY DEF ZeroRaw
  <2>2. CASE Throw(t, "release") /\ UNCHANGED <<pred, raw>>
    BY <1>5, <1>c, <2>2 DEF Predicted, ApiTypeOK, Throw, ErrorsAfter, Goto, Allocated, Errors
  <2>3. ASSUME NEW n \in 0 .. MaxCount, pred' = [pred EXCEPT ![t] = n],
               raw' = [raw EXCEPT ![t] = [ZeroRaw EXCEPT !.count = n]],
               Goto(t, "scores"), UNCHANGED lastError
        PROVE  ApiTypeOK'
    <3>1. raw' \in [Threads -> [count : 0 .. MaxCount, array : [Arrays -> Blocks \cup {NULL}]]]
      BY <2>1, <2>3 DEF ApiTypeOK
    <3> QED BY <1>5, <2>3, <3>1 DEF Predicted, ApiTypeOK, Goto, Allocated, Arrays
  <2> QED BY <1>5, <2>2, <2>3 DEF Predicted
<1>6. ASSUME NEW a \in Arrays, Allocate(t, a) PROVE ApiTypeOK'
  <2>1. NextArray(a) \in Arrays \cup {"copy"}
    BY DEF NextArray, Arrays
  <2>2. at' \in [Threads -> Arrays \cup {"idle", "creating", "predicting", "copy", "convert",
                                     "converted", "release", "error"}]
    BY <1>6, <2>1 DEF Allocate, Goto, ApiTypeOK
  <2>3. Garbage \in Contents
    BY DEF Contents
  <2>4. Allocated' \subseteq Blocks /\ heap' \in [Allocated' -> Contents]
    BY <1>6, <2>3 DEF Allocate, ApiTypeOK, Allocated
  <2>5. raw' \in [Threads -> [count : 0 .. MaxCount, array : [Arrays -> Blocks \cup {NULL}]]]
    <3>1. ASSUME NEW b \in Blocks, raw' = [raw EXCEPT ![t].array[a] = b]
          PROVE  raw' \in [Threads -> [count : 0 .. MaxCount, array : [Arrays -> Blocks \cup {NULL}]]]
      <4>1. [raw[t] EXCEPT !.array = [raw[t].array EXCEPT ![a] = b]] \in [count : 0 .. MaxCount, array : [Arrays -> Blocks \cup {NULL}]]
        BY DEF ApiTypeOK
      <4>2. raw' = [raw EXCEPT ![t] = [raw[t] EXCEPT !.array = [raw[t].array EXCEPT ![a] = b]]]
        BY <3>1
      <4> QED BY <4>1, <4>2 DEF ApiTypeOK
    <3> QED BY <1>6, <3>1 DEF Allocate, ApiTypeOK
  <2> QED BY <1>6, <2>2, <2>4, <2>5 DEF Allocate, ApiTypeOK
<1>7. CASE AllocationFailed(t)
  BY <1>7, <1>c, TypedFree DEF AllocationFailed, ApiTypeOK, Throw, ErrorsAfter, Goto, Errors
<1>8. CASE Copy(t)
  <2>1. \A a \in Arrays : Copied(t, a) \in Contents
    BY <1>c DEF Copied, Contents
  <2>2. Allocated' = Allocated /\ heap' \in [Allocated -> Contents]
    <3>1. CASE pred[t] = 0
      BY <1>8, <3>1 DEF Copy, ApiTypeOK, Allocated
    <3>2. CASE pred[t] # 0
      BY <1>8, <3>2, <2>1 DEF Copy, ApiTypeOK, Allocated
    <3> QED BY <3>1, <3>2
  <2> QED BY <1>8, <2>2 DEF Copy, ApiTypeOK, Goto
<1>9. CASE Convert(t)
  BY <1>9 DEF Convert, ApiTypeOK, Goto, Allocated, Contents, Errors
<1>10. CASE FreeResult(t)
  BY <1>10, TypedFree DEF FreeResult, ApiTypeOK, Goto
<1>11. CASE Release(t)
  BY <1>11, TypedFree DEF Release, ApiTypeOK, Goto
<1>12. CASE ReadError(t)
  BY <1>12 DEF ReadError, ApiTypeOK, Goto, Allocated, Contents, Errors
<1>13. CASE Refuse(t)
  BY <1>13 DEF Refuse, ApiTypeOK, Count, Allocated, Contents, Errors
<1> QED BY <1>1, <1>2, <1>3, <1>4, <1>5, <1>6, <1>7, <1>8, <1>9, <1>10, <1>11, <1>12, <1>13 DEF Step

(* Threads, results and heap keep their types. *)
THEOREM ApiTypeCorrect == ApiSpec => []ApiTypeOK
<1>1. ApiInit => ApiTypeOK
  <2>1. ZeroRaw \in [count : 0 .. MaxCount, array : [Arrays -> Blocks \cup {NULL}]]
    BY CApiAssumption DEF ZeroRaw
  <2> QED BY <2>1, CApiAssumption DEF ApiInit, ApiTypeOK, Allocated, Errors
<1>2. ApiTypeOK /\ [ApiNext]_apiVars => ApiTypeOK'
  <2>1. ApiTypeOK /\ UNCHANGED apiVars => ApiTypeOK'
    BY DEF ApiTypeOK, apiVars, Allocated
  <2> QED BY <2>1, TypedStep DEF ApiNext, Quiet
<1> QED BY <1>1, <1>2, PTL DEF ApiSpec

-----------------------------------------------------------------------------
(***************************************************************************)
(* Pointers and blocks.                                                    *)
(***************************************************************************)

HeapInv == NullWhile /\ PointersOwn

LEMMA HeapStep ==
  ASSUME ApiTypeOK, HeapInv, NEW t \in Threads, Step(t)
  PROVE  HeapInv'
<1> USE CApiAssumption DEF HeapInv
<1>1. CASE /\ \A u \in Threads, a \in Arrays : raw'[u].array[a] = raw[u].array[a]
           /\ \A u \in Threads, a \in Arrays : at'[u] \in NotYet(a) => at[u] \in NotYet(a)
           /\ Allocated' = Allocated
  BY <1>1 DEF NullWhile, PointersOwn
<1>2. CASE Create(t) \/ Created(t) \/ Destroy(t) \/ Refuse(t) \/ Copy(t) \/ Convert(t) \/ ReadError(t)
  <2>1. raw' = raw /\ Allocated' = Allocated
    <3>1. CASE Copy(t)
      BY <3>1 DEF Copy, Allocated, ApiTypeOK
    <3>2. CASE Create(t) \/ Created(t) \/ Destroy(t) \/ Refuse(t) \/ Convert(t) \/ ReadError(t)
      BY <3>2 DEF Create, Created, Destroy, Refuse, Convert, ReadError, Allocated
    <3> QED BY <1>2, <3>1, <3>2
  <2>2. \A u \in Threads, a \in Arrays : at'[u] \in NotYet(a) => at[u] \in NotYet(a)
    BY <1>2 DEF Create, Created, Destroy, Refuse, Copy, Convert, ReadError, Goto, Throw, NotYet, ApiTypeOK
  <2> QED BY <2>1, <2>2, <1>1
<1>3. CASE Predict(t) \/ Predicted(t)
  <2>1. \A a \in Arrays : raw[t].array[a] = NULL
    BY <1>3 DEF Predict, Predicted, NullWhile, NotYet
  <2>2. \A u \in Threads, a \in Arrays : raw'[u].array[a] = raw[u].array[a]
    <3>1. CASE raw' = raw
      BY <3>1
    <3>2. ASSUME NEW n \in 0 .. MaxCount, raw' = [raw EXCEPT ![t] = [ZeroRaw EXCEPT !.count = n]]
          PROVE  \A u \in Threads, a \in Arrays : raw'[u].array[a] = raw[u].array[a]
      BY <2>1, <3>2 DEF ZeroRaw, ApiTypeOK
    <3>3. CASE raw' = [raw EXCEPT ![t] = ZeroRaw]
      BY <2>1, <3>3 DEF ZeroRaw, ApiTypeOK
    <3> QED BY <1>3, <3>1, <3>2, <3>3 DEF Predict, Predicted
  <2>3. Allocated' = Allocated
    BY <1>3 DEF Predict, Predicted, Allocated
  <2>4. \A u \in Threads, a \in Arrays : at'[u] \in NotYet(a) => at[u] \in NotYet(a)
    BY <1>3 DEF Predict, Predicted, Goto, Throw, NotYet, ApiTypeOK
  <2> QED BY <2>2, <2>3, <2>4, <1>1
<1>6. ASSUME NEW a \in Arrays, Allocate(t, a) PROVE HeapInv'
  <2>1. \A u \in Threads, c \in Arrays : at'[u] \in NotYet(c) => at[u] \in NotYet(c)
    BY <1>6 DEF Allocate, Goto, NextArray, NotYet, ApiTypeOK, Arrays
  <2>2. CASE UNCHANGED <<raw, heap>>
    BY <2>1, <2>2, <1>1 DEF Allocated
  <2>3. ASSUME NEW b \in Blocks \ Allocated,
               raw' = [raw EXCEPT ![t].array[a] = b],
               heap' = [c \in Allocated \cup {b} |-> IF c = b THEN Garbage ELSE heap[c]]
        PROVE  HeapInv'
    <3>1. raw[t].array[a] = NULL
      BY <1>6 DEF Allocate, NullWhile, NotYet, Arrays
    <3>2. /\ raw'[t].array[a] = b
          /\ \A u \in Threads, c \in Arrays : u # t \/ c # a => raw'[u].array[c] = raw[u].array[c]
      BY <2>3 DEF ApiTypeOK
    <3>3. Allocated' = Allocated \cup {b}
      BY <2>3 DEF Allocated
    <3>4. NullWhile'
      <4>1. at'[t] \notin NotYet(a)
        BY <1>6 DEF Allocate, Goto, NextArray, NotYet, ApiTypeOK, Arrays
      <4> QED BY <4>1, <2>1, <3>2 DEF NullWhile
    <3>5. \A d \in Allocated' : \E u \in Threads, c \in Arrays : raw'[u].array[c] = d
      <4> SUFFICES ASSUME NEW d \in Allocated, d # b
                   PROVE  \E u \in Threads, c \in Arrays : raw'[u].array[c] = d
        BY <3>2, <3>3
      <4>1. PICK u \in Threads, c \in Arrays : raw[u].array[c] = d
        BY DEF PointersOwn
      <4>2. u # t \/ c # a
        BY <3>1, <4>1 DEF ApiTypeOK
      <4> QED BY <3>2, <4>1, <4>2
    <3>6. \A u \in Threads, c \in Arrays : raw'[u].array[c] # NULL => raw'[u].array[c] \in Allocated'
      BY <3>2, <3>3 DEF PointersOwn
    <3>7. \A u, v \in Threads, c, d \in Arrays :
            raw'[u].array[c] = raw'[v].array[d] /\ raw'[u].array[c] # NULL => u = v /\ c = d
      BY <3>2, <3>3 DEF PointersOwn
    <3> QED BY <3>4, <3>5, <3>6, <3>7 DEF PointersOwn
  <2> QED BY <1>6, <2>2, <2>3 DEF Allocate
<1>7. CASE AllocationFailed(t) \/ FreeResult(t) \/ Release(t)
  <2>1. ResultFree(t)
    BY <1>7 DEF AllocationFailed, FreeResult, Release
  <2>2. PointersOwn'
    BY <2>1, FreeOwns
  <2>3. \A u \in Threads \ {t} : at'[u] = at[u] /\ raw'[u] = raw[u]
    BY <1>7, <2>1, FreeOwns DEF AllocationFailed, FreeResult, Release, Throw, Goto, ApiTypeOK
  <2>4. \A a \in Arrays : raw'[t].array[a] = NULL
    BY <2>1, FreeOwns
  <2>5. NullWhile'
    BY <2>3, <2>4 DEF NullWhile
  <2> QED BY <2>2, <2>5
<1> QED BY <1>2, <1>3, <1>6, <1>7 DEF Step

LEMMA HeapAlways == ApiSpec => [](ApiTypeOK /\ HeapInv)
<1>1. ApiInit => HeapInv
  BY DEF ApiInit, HeapInv, NullWhile, PointersOwn, ZeroRaw, Allocated
<1>2. ApiTypeOK /\ HeapInv /\ [ApiNext]_apiVars => HeapInv'
  <2>1. HeapInv /\ UNCHANGED apiVars => HeapInv'
    BY DEF HeapInv, NullWhile, PointersOwn, apiVars, Allocated
  <2> QED BY <2>1, HeapStep DEF ApiNext, Quiet
<1> QED BY <1>1, <1>2, ApiTypeCorrect, PTL DEF ApiSpec

(* No block leaks, is freed twice or belongs to two results: the memset    *)
(* that ends sam3_result_free makes the second free of a failed call, and  *)
(* any free after it, free nothing.                                        *)
THEOREM BlocksAreOwned == ApiSpec => []HeapIsOwned
<1>1. ApiTypeOK /\ HeapInv => HeapIsOwned
  <2> SUFFICES ASSUME ApiTypeOK, HeapInv PROVE HeapIsOwned
    OBVIOUS
  <2>1. \A b \in Allocated : \E t \in Threads : b \in PointersOf(raw[t])
    BY CApiAssumption DEF HeapInv, PointersOwn, PointersOf, ApiTypeOK
  <2>2. \A t \in Threads : at[t] = "idle" => PointersOf(raw[t]) = {}
    BY DEF HeapInv, NullWhile, NotYet, PointersOf
  <2> QED BY <2>1, <2>2 DEF HeapInv, PointersOwn, HeapIsOwned
<1> QED BY <1>1, HeapAlways, PTL

-----------------------------------------------------------------------------
(***************************************************************************)
(* Errors and answers.                                                     *)
(***************************************************************************)

(* A step of a thread leaves the errors, answers and calls of the others.  *)
LEMMA OthersStay ==
  ASSUME ApiTypeOK, ErrorsWait, NEW t \in Threads, Step(t), NEW u \in Threads \ {t}
  PROVE  /\ at'[u] = at[u] /\ lastError'[u] = lastError[u] /\ answer'[u] = answer[u]
         /\ calls'[u] = calls[u] /\ pred'[u] = pred[u] /\ raw'[u] = raw[u]
<1> USE DEF ApiTypeOK, Goto, ErrorsWait
<1>1. CASE Create(t) \/ Destroy(t) \/ Predict(t) \/ Refuse(t)
  BY <1>1 DEF Create, Destroy, Predict, Refuse, Count
<1>2. CASE Created(t) \/ Predicted(t)
  BY <1>2 DEF Created, Predicted, Throw, ErrorsAfter
<1>3. CASE \E a \in Arrays : Allocate(t, a)
  BY <1>3 DEF Allocate
<1>4. CASE Copy(t) \/ Convert(t) \/ ReadError(t)
  BY <1>4 DEF Copy, Convert, ReadError
<1>5. CASE AllocationFailed(t) \/ FreeResult(t) \/ Release(t)
  BY <1>5 DEF AllocationFailed, FreeResult, Release, ResultFree, Throw, ErrorsAfter
<1> QED BY <1>1, <1>2, <1>3, <1>4, <1>5 DEF Step

LEMMA ErrorsStep ==
  ASSUME ApiTypeOK, ErrorsWait, NEW t \in Threads, Step(t)
  PROVE  ErrorsWait'
<1> DEFINE Fine(u) ==
      /\ at[u] \in {"release", "error"} => lastError[u] = Call(u)
      /\ at[u] = "converted" => answer[u].kind = "prediction"
      /\ at[u] = "idle" /\ answer[u].kind = "error" => answer[u].from = Call(u)
<1>1. (answer = [u \in Threads |-> answer[u]])'
  BY DEF ErrorsWait, Step, Create, Created, Destroy, Predict, Refuse, Predicted, Allocate,
         AllocationFailed, Copy, Convert, FreeResult, Release, ReadError
<1>2. ASSUME NEW u \in Threads \ {t} PROVE Fine(u)'
  BY <1>2, OthersStay DEF ErrorsWait, Call
<1>3. Fine(t)'
  <2> USE DEF ApiTypeOK, Goto, ErrorsWait, Call
  <2>1. CASE Throw(t, "release") \/ Throw(t, "error")
    <3>1. calls' = calls
      BY <2>1 DEF Throw, Step, Create, Created, Destroy, Predict, Refuse, Predicted, Allocate,
                  AllocationFailed, Copy, Convert, FreeResult, Release, ReadError, Count, NextArray, Arrays
    <3> QED BY <2>1, <3>1 DEF Throw, ErrorsAfter
  <2>2. CASE Create(t) \/ Destroy(t) \/ Predict(t)
    BY <2>2 DEF Create, Destroy, Predict
  <2>3. CASE Created(t) \/ Predicted(t) \/ AllocationFailed(t)
    BY <2>1, <2>3 DEF Created, Predicted, AllocationFailed, Nothing
  <2>4. CASE \E a \in Arrays : Allocate(t, a)
    BY <2>4 DEF Allocate, NextArray, Arrays
  <2>5. CASE Copy(t) \/ Convert(t)
    BY <2>5 DEF Copy, Convert
  <2>6. CASE FreeResult(t) \/ Release(t)
    BY <2>6 DEF FreeResult, Release
  <2>7. CASE ReadError(t)
    BY <2>7 DEF ReadError
  <2>8. CASE Refuse(t)
    BY <2>8 DEF Refuse, Count
  <2> QED BY <2>2, <2>3, <2>4, <2>5, <2>6, <2>7, <2>8 DEF Step
<1> QED BY <1>1, <1>2, <1>3 DEF ErrorsWait

LEMMA ErrorsAlways == ApiSpec => []ErrorsWait
<1>1. ApiInit => ErrorsWait
  BY DEF ApiInit, ErrorsWait, Nothing
<1>2. ApiTypeOK /\ ErrorsWait /\ [ApiNext]_apiVars => ErrorsWait'
  <2>1. ErrorsWait /\ UNCHANGED apiVars => ErrorsWait'
    BY DEF ErrorsWait, apiVars, Call
  <2> QED BY <2>1, ErrorsStep DEF ApiNext, Quiet
<1> QED BY <1>1, <1>2, ApiTypeCorrect, PTL DEF ApiSpec

(* Whatever the other threads do between a failed call and the moment its  *)
(* thread asks for the error, it is told of its own: g_last_error is       *)
(* thread_local, and sam3_result_free does not touch it.                   *)
THEOREM ErrorsAreOwn == ApiSpec => []ErrorIsOwn
<1>1. ErrorsWait => ErrorIsOwn
  BY DEF ErrorsWait, ErrorIsOwn
<1> QED BY <1>1, ErrorsAlways, PTL

-----------------------------------------------------------------------------
(* A step of a thread leaves the blocks that the others point to.          *)
LEMMA BlocksStay ==
  ASSUME ApiTypeOK, HeapInv, NEW t \in Threads, Step(t), NEW u \in Threads \ {t},
         NEW a \in Arrays, raw[u].array[a] # NULL
  PROVE  heap'[raw[u].array[a]] = heap[raw[u].array[a]]
<1>1. raw[u].array[a] \in Allocated
  BY DEF HeapInv, PointersOwn
<1>2. CASE \/ Create(t) \/ Created(t) \/ Destroy(t) \/ Predict(t) \/ Refuse(t)
           \/ Predicted(t) \/ Convert(t) \/ ReadError(t)
  BY <1>2 DEF Create, Created, Destroy, Predict, Refuse, Predicted, Convert, ReadError
<1>3. CASE \E c \in Arrays : Allocate(t, c)
  BY <1>1, <1>3 DEF Allocate
<1>4. CASE Copy(t)
  <2>1. \A c \in Arrays : raw[t].array[c] # raw[u].array[a]
    BY DEF HeapInv, PointersOwn
  <2> QED BY <1>1, <1>4, <2>1 DEF Copy
<1>5. CASE AllocationFailed(t) \/ FreeResult(t) \/ Release(t)
  BY <1>5, FreeOwns DEF HeapInv, AllocationFailed, FreeResult, Release
<1> QED BY <1>2, <1>3, <1>4, <1>5 DEF Step

(* The three memcpy fill each array with what it is meant for.             *)
LEMMA CopyFills ==
  ASSUME ApiTypeOK, HeapInv, NEW t \in Threads, Copy(t)
  PROVE  Holds(t)'
<1> SUFFICES ASSUME pred[t] > 0, NEW a \in Arrays
             PROVE  heap'[raw[t].array[a]] = <<Call(t), a>>
  BY DEF Copy, Holds, Call
<1>1. raw[t].array[a] \in Allocated
  BY DEF Copy, HeapInv, PointersOwn
<1>2. \A c \in Arrays : raw[t].array[c] = raw[t].array[a] <=> c = a
  BY DEF Copy, HeapInv, PointersOwn
<1>3. (CHOOSE c \in Arrays : raw[t].array[c] = raw[t].array[a]) = a
  BY <1>2
<1>4. heap'[raw[t].array[a]] = Copied(t, CHOOSE c \in Arrays : raw[t].array[c] = raw[t].array[a])
  <2>1. pred[t] # 0
    BY DEF ApiTypeOK
  <2> QED BY <1>1, <2>1 DEF Copy
<1> QED BY <1>3, <1>4 DEF Copied

LEMMA FilledStep ==
  ASSUME ApiTypeOK, HeapInv, ErrorsWait, \A u \in Threads : Filled(u), NEW t \in Threads, Step(t)
  PROVE  \A u \in Threads : Filled(u)'
<1>1. ASSUME NEW u \in Threads \ {t} PROVE Filled(u)'
  <2>1. /\ at'[u] = at[u] /\ answer'[u] = answer[u] /\ calls'[u] = calls[u]
        /\ pred'[u] = pred[u] /\ raw'[u] = raw[u]
    BY <1>1, OthersStay
  <2>2. \A a \in Arrays : raw[u].array[a] # NULL => heap'[raw[u].array[a]] = heap[raw[u].array[a]]
    BY <1>1, BlocksStay
  <2>3. (\A a \in Arrays : raw[u].array[a] # NULL) /\ Holds(u) => Holds(u)'
    BY <2>1, <2>2 DEF Holds, Call
  <2> QED BY <2>1, <2>3 DEF Filled, Call
<1>2. Filled(t)'
  <2> USE DEF ApiTypeOK, Goto, ErrorsWait, Call
  <2>1. CASE Create(t) \/ Created(t) \/ Predict(t) \/ AllocationFailed(t) \/ Release(t) \/ ReadError(t)
    BY <2>1 DEF Filled, Create, Created, Predict, AllocationFailed, Release, ReadError, Throw, Nothing
  <2>2. CASE Destroy(t) \/ Refuse(t)
    BY <2>2 DEF Filled, Destroy, Refuse
  <2>3. CASE Predicted(t)
    BY <2>3 DEF Filled, Predicted, Throw, ZeroRaw
  <2>4. ASSUME NEW a \in Arrays, Allocate(t, a) PROVE Filled(t)'
    <3>1. raw'[t].count = raw[t].count
      BY <2>4 DEF Allocate
    <3> QED BY <2>4, <3>1 DEF Filled, Allocate, NextArray, Arrays
  <2>5. CASE Copy(t)
    <3>1. Holds(t)'
      BY <2>5, CopyFills
    <3>2. at'[t] = "convert" /\ raw' = raw /\ pred' = pred
      BY <2>5 DEF Copy
    <3> QED BY <2>5, <3>1, <3>2 DEF Filled, Copy
  <2>6. CASE Convert(t)
    <3>1. pred[t] > 0 => pred[t] # 0
      OBVIOUS
    <3>2. at'[t] = "converted" /\ raw[t].count = pred[t] /\ Holds(t)
      BY <2>6 DEF Convert, Filled
    <3>3. /\ answer'[t].count = pred[t]
          /\ pred[t] # 0 => \A a \in Arrays : answer'[t].holds[a] = heap[raw[t].array[a]]
      BY <2>6, <3>2 DEF Convert
    <3>4. pred' = pred /\ calls' = calls
      BY <2>6 DEF Convert
    <3> QED BY <3>1, <3>2, <3>3, <3>4 DEF Filled, Holds
  <2>7. CASE FreeResult(t)
    BY <2>7 DEF Filled, FreeResult
  <2> QED BY <2>1, <2>2, <2>3, <2>4, <2>5, <2>6, <2>7 DEF Step
<1> QED BY <1>1, <1>2

(* What a caller gets is what its own call computed, each array in its     *)
(* place, although the blocks it went through pass from thread to thread.  *)
THEOREM AnswersAreOwn == ApiSpec => []AnswerIsOwn
<1> DEFINE AllFilled == \A t \in Threads : Filled(t)
<1>1. ApiInit => AllFilled
  BY DEF ApiInit, Filled, Nothing
<1>2. ApiTypeOK /\ HeapInv /\ ErrorsWait /\ AllFilled /\ [ApiNext]_apiVars => AllFilled'
  <2>1. AllFilled /\ UNCHANGED apiVars => AllFilled'
    BY DEF Filled, Holds, apiVars, Call
  <2> QED BY <2>1, FilledStep DEF ApiNext, Quiet
<1>3. AllFilled => AnswerIsOwn
  BY DEF Filled, AnswerIsOwn
<1> HIDE DEF AllFilled
<1> QED BY <1>1, <1>2, <1>3, HeapAlways, ErrorsAlways, PTL DEF ApiSpec

=============================================================================
