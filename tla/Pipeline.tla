------------------------------ MODULE Pipeline ------------------------------
(***************************************************************************)
(* Sam3ImagePipeline (src/pipeline.cpp): one prediction from a text, from  *)
(* points or from a box, through the networks it runs one after another.   *)
(*                                                                         *)
(* A tensor is abstracted to the identity of its rows: which token or      *)
(* point a row of the prompt stands for, which query and layer a row of    *)
(* the decoder belongs to, which boxes it was computed from.  An attention *)
(* over the prompt is the set of rows its mask leaves visible.             *)
(***************************************************************************)
EXTENDS Integers, Sequences, FiniteSets

CONSTANTS
  Requests,   \* what is asked: a text (its tokens), points, or a box
  NQueries,   \* kNumQueries (200)
  NLayers,    \* layers of the decoder (6)
  MaxTokens   \* rows of the table of positions of the text encoder (32)

(* A request says how many of its tokens the prompt wrote; the rest is the *)
(* padding of the tokenizer.  Token 0 is the padding and also a character. *)
IsRequest(r) ==
  /\ r.kind \in {"text", "points", "box"}
  /\ r.kind = "text" => /\ r.tokens \in Seq(Nat) /\ r.written \in 0 .. Len(r.tokens)
                        /\ \A i \in r.written + 1 .. Len(r.tokens) : r.tokens[i] = 0
  /\ r.kind = "points" => r.count \in Nat

ASSUME PipelineAssumption ==
  /\ \A r \in Requests : IsRequest(r)
  /\ NQueries \in Nat \ {0} /\ NLayers \in Nat \ {0} /\ MaxTokens \in Nat \ {0}

VARIABLES
  pc,
  request,
  live,       \* the ggml objects of the graph that is being built or run
  cause,      \* why the prediction failed
  text,       \* text_out.memory: the tokens each row was computed from
  prompt,     \* the rows of the prompt: a token, a point, the box or CLS
  pmask,      \* prompt_mask: 1 for padding
  seen,       \* for each network, the rows of the prompt it attended to
  output,     \* current_output of the decoder
  presence,   \* current_presence
  ref,        \* current_ref: the box of every query
  hs,         \* hs of the layers gone through
  refs,       \* reference_boxes of the layers gone through
  stage,      \* stage of the segmentation head
  boxes,      \* pred_boxes, one list per layer
  levels,     \* how high the last layer scores each query
  masks,      \* pred_masks
  result      \* the Sam3Prediction returned

ggmlVars == <<live, cause>>
promptVars == <<text, prompt, pmask>>
decoderVars == <<output, presence, ref, hs, refs>>
headVars == <<stage, boxes, levels, masks>>
vars == <<pc, request, ggmlVars, promptVars, seen, decoderVars, headVars, result>>

Queries == 1 .. NQueries
Levels == 0 .. 3   \* up to 0.01, up to 0.3, up to 0.5, above 0.5
Readers == {"fusion", "decoder", "pool", "segmentation"}
Graphs == {"trunk", "neck", "text", "geometry", "prompt", "fusion", "decoder", "segmentation"}
Objects == {"ctx", "sched"}
CLS == <<"cls", 0>>
NoResult == [count |-> 0, scores |-> <<>>, boxes |-> <<>>, masks |-> <<>>]

(* A row of the decoder: its query (0 for the presence token), the layer   *)
(* it comes out of and the box that steered its look at the image.         *)
Row(q, l, b) == [query |-> q, layer |-> l, box |-> b]

(* The box of a query after a layer, and the box it was refined from.      *)
Box(q, l, was) == [query |-> q, layer |-> l, was |-> was]
NoBox == <<0, 0>>
IdOf(b) == <<b.query, b.layer>>

(* The box of a reference moved by the output of a layer.                  *)
Refine(b, row) == Box(row.query, row.layer, IdOf(b))

Init ==
  /\ pc = "image"
  /\ request \in Requests
  /\ live = {} /\ cause = "none"
  /\ text = <<>> /\ prompt = <<>> /\ pmask = <<>>
  /\ seen = [r \in Readers |-> {}]
  /\ output = [q \in Queries |-> Row(q, 0, NoBox)]
  /\ presence = Row(0, 0, NoBox)
  /\ ref = [q \in Queries |-> Box(q, 0, NoBox)]
  /\ hs = <<>> /\ refs = <<>>
  /\ stage = 0 /\ boxes = <<>> /\ levels = <<>> /\ masks = <<>>
  /\ result = NoResult

-----------------------------------------------------------------------------
(* What is thrown ends the prediction; what was not freed stays allocated. *)

Fail(why) == pc' = "failed" /\ cause' = why

(* No tokens or no points, or the file is not an image.                    *)
LoadImage ==
  /\ pc = "image"
  /\ \/ /\ ~ (request.kind = "text" /\ request.tokens = <<>>)
        /\ ~ (request.kind = "points" /\ request.count = 0)
        /\ pc' = "trunk" /\ UNCHANGED cause
     \/ Fail("input")
  /\ UNCHANGED <<request, live, promptVars, seen, decoderVars, headVars, result>>

(* ggml_init and ggml_backend_sched_new, either of which may return null.  *)
OpenGraph ==
  /\ pc \in Graphs /\ live = {}
  /\ \/ live' = Objects /\ UNCHANGED <<pc, cause>>
     \/ Fail("ggml") /\ UNCHANGED live
  /\ UNCHANGED <<request, promptVars, seen, decoderVars, headVars, result>>

(* require_tensor throws while the graph is built: nobody frees it.  The   *)
(* trunk and the decoder read tensors before they open a graph.            *)
TensorMissing ==
  /\ pc \in Graphs
  /\ live = Objects \/ pc = "trunk" \/ (pc = "decoder" /\ hs = <<>>)
  /\ Fail("tensor")
  /\ UNCHANGED <<request, live, promptVars, seen, decoderVars, headVars, result>>

\* Faulty: the scheduler is forgotten.
LiveWithSched == {"sched"}

LiveAfterFailure == {}

(* ggml_backend_sched_graph_compute fails; the graph is freed before the   *)
(* exception is thrown.                                                    *)
ComputeFails ==
  /\ pc \in Graphs /\ live = Objects
  /\ Fail("compute") /\ live' = LiveAfterFailure
  /\ UNCHANGED <<request, promptVars, seen, decoderVars, headVars, result>>

(* The graph of a network is computed, read and freed.                     *)
Computed(network, next) ==
  /\ pc = network /\ live = Objects
  /\ pc' = next /\ live' = {} /\ UNCHANGED <<request, cause>>

-----------------------------------------------------------------------------
(* VisionTrunk::run, VisionNeck::run: from pixels to the feature levels.   *)
Trunk ==
  /\ Computed("trunk", "neck")
  /\ UNCHANGED <<promptVars, seen, decoderVars, headVars, result>>

Neck ==
  /\ Computed("neck", IF request.kind = "text" THEN "text" ELSE "geometry")
  /\ UNCHANGED <<promptVars, seen, decoderVars, headVars, result>>

(* ggml_diag_mask_inf: a token attends to itself and those before it.      *)
TextAttends(i) == 1 .. i

(* TextEncoder::encode.  A position past its table fails an assertion of    *)
(* ggml's CPU backend, which ends the process; other backends read on.      *)
EncodeText ==
  /\ pc = "text"
  /\ \/ /\ Computed("text", "prompt")
        /\ text' = [i \in 1 .. Len(request.tokens) |-> TextAttends(i)]
     \/ /\ Len(request.tokens) > MaxTokens
        /\ live = Objects /\ pc' = "aborted"
        /\ UNCHANGED <<request, live, cause, text>>
  /\ UNCHANGED <<prompt, pmask, seen, decoderVars, headVars, result>>

(* make_text_mask *)
TextMask(tokens) == [i \in 1 .. Len(tokens) |-> IF tokens[i] = 0 THEN 1 ELSE 0]

(* DummyPromptEncoder::run: CLS is the last row of the prompt and is seen. *)
PromptMask(m) == Append(m, 0)

BuildPrompt ==
  /\ Computed("prompt", "fusion")
  /\ prompt' = Append([i \in 1 .. Len(text) |-> <<"token", i>>], CLS)
  /\ pmask' = PromptMask(TextMask(request.tokens))
  /\ UNCHANGED <<text, seen, decoderVars, headVars, result>>

(* GeometryEncoder::run: the points or the box, then CLS; no padding.      *)
EncodeGeometry ==
  /\ Computed("geometry", "fusion")
  /\ prompt' = Append(IF request.kind = "points"
                      THEN [i \in 1 .. request.count |-> <<"point", i>>]
                      ELSE << <<"box", 1>> >>, CLS)
  /\ pmask' = [i \in 1 .. Len(prompt') |-> 0]
  /\ UNCHANGED <<text, seen, decoderVars, headVars, result>>

(* The make_prompt_mask_f16 of three networks, and the mean of the scoring. *)
FusionSees(m) == {i \in 1 .. Len(m) : ~ m[i] > 0}
DecoderSees(m) == {i \in 1 .. Len(m) : ~ m[i] > 0}
SegmentationSees(m) == {i \in 1 .. Len(m) : ~ m[i] > 0}

\* Faulty: one is taken to mean valid.
PoolSeesPadding(m) == {i \in 1 .. Len(m) : m[i] > 0}

PoolSees(m) == {i \in 1 .. Len(m) : ~ m[i] > 0}

(* EncoderFusion::run *)
Fuse ==
  /\ Computed("fusion", "decoder")
  /\ seen' = [seen EXCEPT !["fusion"] = FusionSees(pmask)]
  /\ UNCHANGED <<promptVars, decoderVars, headVars, result>>

-----------------------------------------------------------------------------
(* Decoder::run, one graph per layer.  The presence token is row 1 of the  *)
(* layer and query q is row q + 1.  The last norm, which hs went through   *)
(* and output did not, leaves a row the row of its query and layer.        *)

Layer == Len(hs) + 1

(* build_box_rpb_bias: nothing for the presence token.                     *)
ImageBias == [r \in 1 .. NQueries + 1 |-> IF r = 1 THEN NoBox ELSE IdOf(ref[r - 1])]

(* self_kv_in after the three attentions and the feed-forward network.     *)
LayerRows ==
  LET kv == <<presence>> \o output
  IN [r \in 1 .. NQueries + 1 |-> Row(kv[r].query, Layer, ImageBias[r])]

(* next_output and next_presence *)
OutputRows(rows) == SubSeq(rows, 2, NQueries + 1)
PresenceRow(rows) == rows[1]

(* next_ref *)
NextRef(rows) == [q \in Queries |-> Refine(ref[q], OutputRows(rows)[q])]

\* Faulty: the reference after the layer is recorded.
RecordedRefLate(rows) == NextRef(rows)

(* out.reference_boxes[layer]: the reference the layer started from.       *)
RecordedRef(rows) == ref

DecodeLayer ==
  /\ Computed("decoder", IF Layer = NLayers THEN "pool" ELSE "decoder")
  /\ output' = OutputRows(LayerRows)
  /\ presence' = PresenceRow(LayerRows)
  /\ hs' = Append(hs, OutputRows(LayerRows))
  /\ refs' = Append(refs, RecordedRef(LayerRows))
  /\ ref' = NextRef(LayerRows)
  /\ seen' = [seen EXCEPT !["decoder"] = DecoderSees(pmask)]
  /\ UNCHANGED <<promptVars, headVars, result>>

(* GroundingHead::run, on the processor and without a graph: the boxes of  *)
(* all layers and the logits, of which the last layer is used.             *)
Ground ==
  /\ pc = "pool"
  /\ \/ /\ pc' = "segmentation" /\ UNCHANGED cause
        /\ boxes' = [l \in 1 .. Len(hs) |-> [q \in Queries |-> Refine(refs[l][q], hs[l][q])]]
        /\ levels' \in [Queries -> Levels]
        /\ seen' = [seen EXCEPT !["pool"] = PoolSees(pmask)]
     \/ Fail("tensor") /\ UNCHANGED <<boxes, levels, seen>>
  /\ UNCHANGED <<request, live, promptVars, decoderVars, stage, masks, result>>

(* SegmentationHead::run: three graphs, the first looks at the prompt, the *)
(* last makes a mask of every query of the last layer.                     *)
Segment ==
  /\ Computed("segmentation", IF stage = 2 THEN "select" ELSE "segmentation")
  /\ stage' = stage + 1
  /\ seen' = IF stage = 0 THEN [seen EXCEPT !["segmentation"] = SegmentationSees(pmask)] ELSE seen
  /\ masks' = IF stage = 2 THEN hs[Len(hs)] ELSE masks
  /\ UNCHANGED <<promptVars, decoderVars, boxes, levels, result>>

-----------------------------------------------------------------------------
(* kDetectionThreshold, kGeoThreshold and the 0.3 of predict_box.          *)
Threshold(kind) == CASE kind = "text" -> 3 [] kind = "points" -> 1 [] kind = "box" -> 2

(* The loop that fills keep, query by query.                               *)
Kept ==
  LET keep[n \in 0 .. NQueries] ==
        IF n = 0 THEN <<>>
        ELSE IF levels[n] >= Threshold(request.kind) THEN Append(keep[n - 1], n)
        ELSE keep[n - 1]
  IN keep[NQueries]

\* Faulty: the rows are taken by their place among the kept ones.
PickedInOrder(rows) == [i \in 1 .. Len(Kept) |-> rows[i]]

(* The rows of the kept queries, as they are copied one by one.            *)
Picked(rows) == [i \in 1 .. Len(Kept) |-> rows[Kept[i]]]

(* keep and scores, filled together; then the boxes and masks.             *)
Select ==
  /\ pc = "select" /\ pc' = "done"
  /\ result' = [count |-> Len(Kept), scores |-> [i \in 1 .. Len(Kept) |-> hs[Len(hs)][Kept[i]]],
                boxes |-> Picked(boxes[Len(boxes)]), masks |-> Picked(masks)]
  /\ UNCHANGED <<request, ggmlVars, promptVars, seen, decoderVars, headVars>>

Finished == pc \in {"done", "failed", "aborted"} /\ UNCHANGED vars

Next ==
  \/ LoadImage \/ OpenGraph \/ TensorMissing \/ ComputeFails
  \/ Trunk \/ Neck \/ EncodeText \/ BuildPrompt \/ EncodeGeometry \/ Fuse
  \/ DecodeLayer \/ Ground \/ Segment \/ Select \/ Finished

Spec == Init /\ [][Next]_vars

-----------------------------------------------------------------------------
(* Every variable holds what its C++ counterpart can hold; the mask has a  *)
(* value for every row of the prompt and no list outgrows the decoder.     *)
TypeOK ==
  /\ pc \in Graphs \cup {"image", "pool", "select", "done", "failed", "aborted"}
  /\ request \in Requests
  /\ live \subseteq Objects
  /\ cause \in {"none", "input", "ggml", "tensor", "compute"}
  /\ text \in Seq(SUBSET Nat)
  /\ pmask \in [DOMAIN prompt -> {0, 1}]
  /\ seen \in [Readers -> SUBSET DOMAIN prompt]
  /\ Len(hs) = Len(refs) /\ Len(hs) <= NLayers
  /\ \A l \in DOMAIN hs : Len(hs[l]) = NQueries
  /\ stage \in 0 .. 3

(* The networks that read the prompt of a finished prediction read the     *)
(* same rows: CLS and all that was asked, but the characters that share    *)
(* token 0 with the padding; and nothing they read was computed from       *)
(* padding.  The mask goes through five functions in three files.          *)
IsAsked(row) ==
  CASE row[1] = "token" -> /\ row[2] <= request.written
                           /\ request.tokens[row[2]] # 0
    [] OTHER -> TRUE

PromptIsRead ==
  pc = "done" =>
    \A r \in Readers :
      /\ seen[r] = {i \in DOMAIN prompt : IsAsked(prompt[i])}
      /\ \A i \in seen[r] : prompt[i][1] = "token" => text[i] \subseteq 1 .. request.written

(* In every layer each query looks at the image around its own box as the  *)
(* layer before left it, and the box the grounding head computes again     *)
(* from the recorded reference is the one the decoder went on with.  The   *)
(* presence token, whose logit scales all scores, has no box of its own.   *)
BoxesAreRefined ==
  pc = "done" =>
    /\ presence = Row(0, NLayers, NoBox)
    /\ \A l \in 1 .. NLayers, q \in Queries :
       /\ hs[l][q].query = q /\ hs[l][q].layer = l
       /\ hs[l][q].box = IdOf(refs[l][q])
       /\ boxes[l][q] = IF l = NLayers THEN ref[q] ELSE refs[l + 1][q]

(* Row i of the scores, the boxes and the masks of a prediction belongs to *)
(* the same query of the last layer, each query above the threshold once.  *)
RowsBelongTogether ==
  pc = "done" =>
    LET RowOf(i) == {result.scores[i].query, result.boxes[i].query, result.masks[i].query}
    IN /\ \A list \in {result.scores, result.boxes, result.masks} :
            /\ Len(list) = result.count
            /\ \A i \in DOMAIN list : list[i].layer = NLayers
       /\ \A i \in 1 .. result.count : Cardinality(RowOf(i)) = 1
       /\ \A q \in Queries : (levels[q] >= Threshold(request.kind))
                             <=> (\E i \in 1 .. result.count : q \in RowOf(i))
       /\ \A i, j \in 1 .. result.count : RowOf(i) = RowOf(j) => i = j

(* A prediction that ends leaves no graph and no scheduler, however it     *)
(* ends, except when a tensor was missing from the model.                  *)
GraphsAreFreed ==
  pc \in {"done", "failed"} /\ live # {} => cause = "tensor"
=============================================================================
