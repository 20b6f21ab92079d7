------------------------------ MODULE Detector ------------------------------
(***************************************************************************)
(* Stage 4 of tools/instructsam.cpp for one phrase, network by network:    *)
(* the bridges, InstructsamDetrEncoder, InstructsamDecoder with its boxes, *)
(* InstructsamPromptCrossAttn, InstructsamPixelDecoder, InstructsamMaskTail*)
(* and the scoring head.  MaskStage is the same stage phrase by phrase.    *)
(*                                                                         *)
(* An element of a tensor is abstracted to where it comes from: the pixel, *)
(* query or text row it stands for and what that row met in its last layer.*)
(* Linear layers and norms take a row to the same row.  The shapes that    *)
(* the networks check are the constants of main, so no check fails.        *)
(***************************************************************************)
EXTENDS Integers, Sequences, FiniteSets, GgmlTensor

CONSTANTS
  Height, Width, Heads, NumQueries, EncoderLayers, DecoderLayers,  \* as in Detr
  HeadDim,       \* channels of a head (32)
  TextSeq,       \* rows of the text tensor (kPhraseMax, 32)
  Valid          \* rows whose text_mask is 1: the phrase

ASSUME DetectorAssumption ==
  /\ {Height, Width, Heads, NumQueries, EncoderLayers, DecoderLayers, HeadDim, TextSeq}
       \subseteq Nat \ {0}
  /\ (Heads * HeadDim) % 2 = 0
  /\ Valid \subseteq 0 .. TextSeq - 1

VARIABLES
  given,     \* of the decoder's optional arguments, those it is called with
  absent,    \* the weights the model file lacks, or has in a type not read
  pc,
  layer,
  live,      \* ggml objects of the graph being built or run
  cause,     \* why the run failed
  text,      \* text_features: [C, TextSeq]
  hidden,    \* current_hidden of the encoder, then last_hidden_state: [C, HW]
  queries,   \* current_hidden of the decoder: [C, NumQueries]
  boxes,     \* current_ref_boxes: [4, NumQueries]
  queryPos,  \* query_pos_buf: [C, NumQueries]
  bias,      \* vision_bias: [HW, NumQueries, Heads]
  pixels,    \* bb2_local, stage0_host, pixel_embed: [W, H, C]
  masks,     \* pred_masks: [W, H, NumQueries]
  scores     \* pred_logits: [NumQueries]

vars == <<given, absent, pc, layer, live, cause, text, hidden, queries, boxes, queryPos,
          bias, pixels, masks, scores>>
choiceVars == <<given, absent>>
boxVars == <<boxes, queryPos, bias>>
maskVars == <<pixels, masks, scores>>

C == Heads * HeadDim
HW == Height * Width
Channels == 0 .. C - 1
Objects == {"ctx", "sched"}
NoTensor == [ne |-> <<0, 0, 0, 0>>, data |-> <<>>]

Refine == "boxes" \in given

Parts == {"nothing", "constants", "bridge", "weights", "fuse", "stage0", "stage1", "tail"}
WeightPlaces ==
  {<<p, 0>> : p \in Parts} \cup {<<"encode", l>> : l \in 0 .. EncoderLayers - 1}
    \cup {<<"decode", l>> : l \in 0 .. DecoderLayers - 1}

-----------------------------------------------------------------------------
(* Rows and attention.                                                     *)

(* A row of a [C, n] tensor: its identity and, once a layer has run, what    *)
(* it met there.                                                           *)
Element(id, c) == [id |-> id, chan |-> c, self |-> {}, text |-> {}, vision |-> {}]

NoPos(t) == Tensor(t.ne, LAMBDA c, s, i2, i3 : {})

(* A mask of n keys and m queries that lets the keys of a set through.      *)
Mask(n, m, open) ==
  Tensor(<<n, m, 1, 1>>, LAMBDA k, q, h, i3 : [open |-> k \in open, heads |-> {}, bias |-> {}])

NoMask(n, m) == Mask(n, m, 0 .. n - 1)

(* linear, of a row and the positions added to it.                          *)
Project(t, pos) ==
  Tensor(t.ne, LAMBDA c, s, i2, i3 :
    [of |-> {At(t, i, s, 0, 0).id : i \in Channels},
     pos |-> UNION {At(pos, i, s, 0, 0) : i \in Channels},
     heads |-> {c \div HeadDim}])

(* A score: the query and key rows that met, in which heads.                *)
Scored(pairs) ==
  [by |-> UNION {p[2].of : p \in pairs}, at |-> UNION {p[2].pos : p \in pairs},
   from |-> UNION {p[1].of : p \in pairs}, fromAt |-> UNION {p[1].pos : p \in pairs},
   heads |-> UNION {p[1].heads \cup p[2].heads : p \in pairs}, bias |-> {}, open |-> TRUE]

Masked(score, m) ==
  [score EXCEPT !.heads = @ \cup m.heads, !.bias = m.bias, !.open = m.open]

(* The values, weighted: those behind a mask do not count.                  *)
Weighted(pairs) ==
  {[heads |-> p[1].heads \cup p[2].heads, by |-> p[2].by, at |-> p[2].at, from |-> p[2].from,
    fromAt |-> p[2].fromAt, values |-> p[1].of, bias |-> p[2].bias] :
   p \in {r \in pairs : r[2].open}}

(* mha, of the encoder, the decoder and the prompt cross-attention.         *)
Mha(q, k, v, mask) ==
  LET n == q.ne[2]
      m == k.ne[2]
      qh == Permute(Reshape(q, <<HeadDim, Heads, n, 1>>), 0, 2, 1, 3)
      kh == Permute(Reshape(k, <<HeadDim, Heads, m, 1>>), 0, 2, 1, 3)
      vh == Permute(Reshape(v, <<HeadDim, Heads, m, 1>>), 1, 2, 0, 3)
      probs == SoftMaxExt(MulMat(kh, qh, Scored), mask, Masked)
  IN Reshape(Permute(MulMat(vh, probs, Weighted), 0, 2, 1, 3), <<C, n, 1, 1>>)

(* o_proj: what all heads of a row heard.                                   *)
Merge(t) == Tensor(t.ne, LAMBDA c, s, i2, i3 : UNION {At(t, i, s, 0, 0) : i \in Channels})

Attend(q, qpos, kv, kpos, mask) ==
  Merge(Mha(Project(q, qpos), Project(kv, kpos), Project(kv, NoPos(kv)), mask))

NextId(id) == [id EXCEPT ![Len(id)] = @ + 1]

(* The rows of the next layer: residuals, with what was met on the way.     *)
Layered(t, self, txt, vision) ==
  LET After(e, i) == [e EXCEPT !.id = NextId(e.id), !.self = self.data[i], !.text = txt.data[i],
                               !.vision = vision.data[i]]
  IN [t EXCEPT !.data = [i \in DOMAIN t.data |-> After(t.data[i], i)]]

(* A mask over the text, the same for every row.                            *)
TextMask(rows, open) == Mask(TextSeq, rows, open)

EncoderReads == Valid
(* InstructsamDecoder::run hides the rows whose text_mask is 1.             *)
DecoderReads == (0 .. TextSeq - 1) \ Valid

-----------------------------------------------------------------------------
(* Constants of an image, and the encoder.                                  *)

(* A feature level of the vision encoder, [W, H, C], 2 ^ (2 - l) as large.  *)
Scale(l) == CASE l = 0 -> 4 [] l = 1 -> 2 [] l = 2 -> 1

LevelPixel(at, read, chan) == [layers |-> {at}, read |-> read, ring |-> {}, from |-> {}, chan |-> chan]

Backbone(l) ==
  Tensor(<<Width * Scale(l), Height * Scale(l), C, 1>>,
         LAMBDA w, h, c, n : LevelPixel(<<l, h, w>>, {}, c))

(* compute_vision_pos_2d_sincos: row i * W + j, half of it y, half x.       *)
VisionPos ==
  LET half == C \div 2
      From(k, row, i2, i3) ==
        {IF k < half THEN <<"y", row \div Width>> ELSE <<"x", row % Width>>}
  IN Tensor(<<C, HW, 1, 1>>, From)

(* main: vision_features[t * 256 + c] = bb2[c * 5184 + t].                  *)
VisionFeatures ==
  LET bb2 == Backbone(2).data
  IN Tensor(<<C, HW, 1, 1>>, LAMBDA c, t, i2, i3 :
       LET at == CHOOSE x \in bb2[c * HW + t].layers : TRUE
       IN Element(<<at[2], at[3], 0>>, bb2[c * HW + t].chan))

(* build_layer of the encoder. *)
EncoderLayer(t) ==
  LET self == Attend(t, VisionPos, t, VisionPos, NoMask(HW, HW))
      txt == Attend(t, NoPos(t), text, NoPos(text), TextMask(HW, EncoderReads))
  IN Layered(t, self, txt, NoPos(t))

-----------------------------------------------------------------------------
(* The decoder and its boxes.                                              *)

(* compute_initial_reference_boxes: reference_points.weight as [10, 4].     *)
InitialBoxes ==
  Tensor(<<4, NumQueries, 1, 1>>, LAMBDA coord, q, i2, i3 :
    [query |-> q, coord |-> coord, moved |-> <<>>])

(* The features of four coordinates of a box side by side, and a perceptron *)
(* over the row.                                                           *)
QueryPosIn(order, b) ==
  LET Sine(slot, q) == b.data[q * 4 + order[slot]]
  IN Tensor(<<C, NumQueries, 1, 1>>, LAMBDA c, q, i2, i3 : {[slot \in 1 .. 4 |-> Sine(slot, q)]})

(* The same computation in two files: main makes the position of layer 0,   *)
(* the decoder those of the layers after it; both in the order y, x, w, h.  *)
QueryPosLayer0(b) == QueryPosIn(<<1, 0, 2, 3>>, b)
CpuComputeQueryPos(b) == QueryPosIn(<<1, 0, 2, 3>>, b)

(* build_instructsam_box_rpb_bias: out[(h * nq + q) * hw + y * w + x], read *)
(* as [hw, nq, heads].                                                     *)
RpbBias(b) ==
  LET Coord(q, c) == b.data[q * 4 + c]
      Dx(x, q) == <<Coord(q, 0), Coord(q, 2), x>>
      Dy(y, q) == <<Coord(q, 1), Coord(q, 3), y>>
  IN [ne |-> <<HW, NumQueries, Heads, 1>>,
      data |-> [i \in 0 .. HW * NumQueries * Heads - 1 |->
        LET src == i % HW
            q == (i \div HW) % NumQueries
        IN [open |-> TRUE, heads |-> {i \div (HW * NumQueries)},
            bias |-> {[x |-> Dx(src % Width, q), y |-> Dy(src \div Width, q)]}]]]

(* build_layer of the decoder; without boxes there is no bias.              *)
DecoderLayer(t) ==
  LET self == Attend(t, queryPos, t, queryPos, NoMask(NumQueries, NumQueries))
      txt == Attend(t, queryPos, text, NoPos(text), TextMask(NumQueries, DecoderReads))
      vision == Attend(t, queryPos, hidden, VisionPos, bias)
  IN Layered(t, self, txt, vision)

(* output_layer_norm and box_head, row by row: [4, NumQueries].             *)
BoxHead(t) ==
  Tensor(<<4, NumQueries, 1, 1>>, LAMBDA coord, q, i2, i3 :
    [of |-> {At(t, c, q, 0, 0).id : c \in Channels}, coord |-> coord])

(* cpu_update_reference_boxes *)
UpdateBoxes(prev, delta) ==
  AddTensors(prev, delta, LAMBDA box, d : [box EXCEPT !.moved = Append(@, d)])

-----------------------------------------------------------------------------
(* From the rows of the encoder to masks.                                   *)

(* InstructsamPromptCrossAttn: each row reads the phrase once more.         *)
PostEncoder ==
  LET t == Attend(hidden, NoPos(hidden), text, NoPos(text), TextMask(HW, EncoderReads))
  IN [hidden EXCEPT !.data = [i \in DOMAIN @ |-> [@[i] EXCEPT !.text = t.data[i]]]]

RowPixel(e) == LevelPixel(<<2, e.id[1], e.id[2]>>, e.text, e.chan)

\* Faulty: the rows are handed on as they are.
ChannelsFirstAsIs(t) ==
  Tensor(<<Width, Height, C, 1>>, LAMBDA w, h, c, n : RowPixel(t.data[c * HW + h * Width + w]))

(* main: bb2_local[c * 5184 + tk] = post_encoder[tk * 256 + c].             *)
ChannelsFirst(t) ==
  Tensor(<<Width, Height, C, 1>>, LAMBDA w, h, c, n : RowPixel(t.data[(h * Width + w) * C + c]))

Weight(ky, kx, i, o) == [tap |-> <<ky, kx>>, in |-> i, out |-> o]

(* conv2d_bias with a kernel as PyTorch holds it, [OC, IC, KH, KW].         *)
Kernel == Tensor(<<3, 3, C, C>>, LAMBDA kx, ky, i, o : Weight(ky, kx, i, o))

Convolved(pairs) ==
  LET mid == {p \in pairs : p[1].tap = <<1, 1>>}
  IN [layers |-> UNION {p[2].layers : p \in mid},
      read |-> UNION {p[2].read : p \in mid},
      ring |-> {<<p[1].tap, p[2].layers>> : p \in pairs},
      from |-> {<<p[1].in, p[2].chan>> : p \in pairs},
      chan |-> (CHOOSE p \in pairs : TRUE)[1].out]

Over(fine, coarse) ==
  [fine EXCEPT !.layers = @ \cup coarse.layers, !.read = coarse.read,
               !.chan = IF coarse.chan = @ THEN @ ELSE -1]

(* A stage of the pixel decoder: the coarse level upscaled onto the next    *)
(* finer one, and a convolution over both.                                 *)
PixelStage(fine, coarse) ==
  Conv2d(Kernel, AddTensors(fine, Upscale2(coarse), Over), 1, Convolved)

(* instance_projection is cpu_conv1x1; mask_embedder takes a query to a row *)
(* of coefficients; cpu_einsum_qc_chw_qhw multiplies the two.               *)
MaskTail ==
  LET area == pixels.ne[1] * pixels.ne[2]
      inst == [i \in 0 .. C * area - 1 |->
                 LET px == {pixels.data[c * area + (i % area)] : c \in Channels}
                 IN [layers |-> UNION {e.layers : e \in px}, read |-> UNION {e.read : e \in px},
                     ring |-> UNION {e.ring : e \in px}, chan |-> i \div area]]
      me == [i \in 0 .. NumQueries * C - 1 |->
               [of |-> {At(queries, c, i \div C, 0, 0).id : c \in Channels}, chan |-> i % C]]
      Product(q, p) ==
        LET pairs == {<<me[q * C + c], inst[c * area + p]>> : c \in Channels}
        IN [query |-> UNION {x[1].of : x \in pairs}, layers |-> UNION {x[2].layers : x \in pairs},
            read |-> UNION {x[2].read : x \in pairs}, ring |-> UNION {x[2].ring : x \in pairs}, chans |-> {<<x[1].chan, x[2].chan>> : x \in pairs}]
  IN [ne |-> <<pixels.ne[1], pixels.ne[2], NumQueries, 1>>,
      data |-> [i \in 0 .. NumQueries * area - 1 |-> Product(i \div area, i % area)]]

(* dot_prod_scoring: query q against the mean of the valid text rows.       *)
DotProdScoring ==
  [q \in 0 .. NumQueries - 1 |->
     [query |-> {At(queries, c, q, 0, 0).id : c \in Channels},
      text |-> {At(text, c, r, 0, 0).id : c \in Channels, r \in Valid}]]

-----------------------------------------------------------------------------
(* The run.                                                                *)

Init ==
  /\ given \in SUBSET {"boxes", "query_pos"}
  /\ absent \in WeightPlaces
  /\ pc = "constants" /\ layer = 0 /\ live = {} /\ cause = "none"
  /\ text = NoTensor /\ hidden = NoTensor /\ queries = NoTensor
  /\ boxes = NoTensor /\ queryPos = NoTensor /\ bias = NoTensor
  /\ pixels = NoTensor /\ masks = NoTensor /\ scores = <<>>

Fail(why) == pc' = "failed" /\ cause' = why

InGraph == pc \in {"encode", "decode", "fuse", "stage0", "stage1"}

(* The decoder reads the weights of the refinement only to refine.          *)
Missing == absent = <<pc, layer>> /\ (pc = "weights" => Refine)

Ready(p) == pc = p /\ (InGraph => live = Objects) /\ ~ Missing

(* ggml_init or ggml_backend_sched_new returns null.                        *)
OpenGraph ==
  /\ InGraph /\ live = {}
  /\ \/ live' = Objects /\ UNCHANGED <<pc, cause>>
     \/ Fail("ggml") /\ UNCHANGED live
  /\ UNCHANGED <<choiceVars, layer, text, hidden, queries, boxVars, maskVars>>

(* require_tensor and get_f32 throw; the graph being built is not freed.    *)
TensorMissing ==
  /\ (InGraph => live = Objects) /\ Missing
  /\ Fail("tensor")
  /\ UNCHANGED <<choiceVars, layer, live, text, hidden, queries, boxVars, maskVars>>

\* Faulty: the compute context is freed, its scheduler is not.
ComputeFailsHalfFreed ==
  /\ InGraph /\ live = Objects /\ ~ Missing
  /\ Fail("compute") /\ live' = {"sched"}
  /\ UNCHANGED <<choiceVars, layer, text, hidden, queries, boxVars, maskVars>>

ComputeFails ==
  /\ InGraph /\ live = Objects /\ ~ Missing
  /\ Fail("compute") /\ live' = {}
  /\ UNCHANGED <<choiceVars, layer, text, hidden, queries, boxVars, maskVars>>

(* Before the first phrase: init_refs, qpos_L0 and the scoring weights.     *)
Constants ==
  /\ Ready("constants")
  /\ boxes' = InitialBoxes
  /\ queryPos' = IF "query_pos" \in given THEN QueryPosLayer0(InitialBoxes)
                 ELSE NoPos([ne |-> <<C, NumQueries, 1, 1>>])
  /\ pc' = "bridge"
  /\ UNCHANGED <<choiceVars, layer, live, cause, text, hidden, queries, bias, maskVars>>

(* run_bridge, row by row, on the phrase and on the outputs of the language *)
(* model; and the features of the image as rows.                           *)
Bridge ==
  /\ Ready("bridge")
  /\ text' = Tensor(<<C, TextSeq, 1, 1>>, LAMBDA c, s, i2, i3 : Element(<<s>>, c))
  /\ queries' = Tensor(<<C, NumQueries, 1, 1>>, LAMBDA c, s, i2, i3 : Element(<<s, 0>>, c))
  /\ hidden' = VisionFeatures
  /\ pc' = "encode"
  /\ UNCHANGED <<choiceVars, layer, live, cause, boxVars, maskVars>>

Encode ==
  /\ Ready("encode")
  /\ hidden' = EncoderLayer(hidden)
  /\ live' = {}
  /\ IF layer + 1 < EncoderLayers THEN layer' = layer + 1 /\ UNCHANGED pc
                                  ELSE layer' = 0 /\ pc' = "weights"
  /\ UNCHANGED <<choiceVars, cause, text, queries, boxVars, maskVars>>

(* The beginning of InstructsamDecoder::run: weights and the first bias.    *)
LoadRefinement ==
  /\ Ready("weights")
  /\ bias' = IF Refine THEN RpbBias(boxes) ELSE NoMask(HW, NumQueries)
  /\ pc' = "decode"
  /\ UNCHANGED <<choiceVars, layer, live, cause, text, hidden, queries, boxes, queryPos, maskVars>>

\* Faulty: position and bias are made of the boxes before they move.
RefineLate ==
  /\ boxes' = UpdateBoxes(boxes, BoxHead(queries'))
  /\ IF layer + 1 < DecoderLayers
     THEN queryPos' = CpuComputeQueryPos(boxes) /\ bias' = RpbBias(boxes)
     ELSE UNCHANGED <<queryPos, bias>>

(* After a layer: the boxes, and what the next layer makes of them.         *)
RefineBoxes ==
  /\ boxes' = UpdateBoxes(boxes, BoxHead(queries'))
  /\ IF layer + 1 < DecoderLayers
     THEN queryPos' = CpuComputeQueryPos(boxes') /\ bias' = RpbBias(boxes')
     ELSE UNCHANGED <<queryPos, bias>>

Decode ==
  /\ Ready("decode")
  /\ queries' = DecoderLayer(queries)
  /\ IF Refine THEN RefineBoxes ELSE UNCHANGED boxVars
  /\ live' = {}
  /\ IF layer + 1 < DecoderLayers THEN layer' = layer + 1 /\ UNCHANGED pc
                                  ELSE layer' = 0 /\ pc' = "fuse"
  /\ UNCHANGED <<choiceVars, cause, text, hidden, maskVars>>

Fuse ==
  /\ Ready("fuse")
  /\ pixels' = ChannelsFirst(PostEncoder)
  /\ live' = {} /\ pc' = "stage0"
  /\ UNCHANGED <<choiceVars, layer, cause, text, hidden, queries, boxVars, masks, scores>>

Stage0 ==
  /\ Ready("stage0")
  /\ pixels' = PixelStage(Backbone(1), pixels)
  /\ live' = {} /\ pc' = "stage1"
  /\ UNCHANGED <<choiceVars, layer, cause, text, hidden, queries, boxVars, masks, scores>>

Stage1 ==
  /\ Ready("stage1")
  /\ pixels' = PixelStage(Backbone(0), pixels)
  /\ live' = {} /\ pc' = "tail"
  /\ UNCHANGED <<choiceVars, layer, cause, text, hidden, queries, boxVars, masks, scores>>

(* The mask tail and the scoring head, the last two of a phrase.            *)
ScoreAndMask ==
  /\ Ready("tail")
  /\ masks' = MaskTail /\ scores' = DotProdScoring
  /\ pc' = "done"
  /\ UNCHANGED <<choiceVars, layer, live, cause, text, hidden, queries, boxVars, pixels>>

Finished == pc \in {"done", "failed"} /\ UNCHANGED vars

Next ==
  \/ OpenGraph \/ TensorMissing \/ ComputeFails
  \/ Constants \/ Bridge \/ Encode \/ LoadRefinement \/ Decode
  \/ Fuse \/ Stage0 \/ Stage1 \/ ScoreAndMask
  \/ Finished

Spec == Init /\ [][Next]_vars

-----------------------------------------------------------------------------
(***************************************************************************)
(* Properties.                                                             *)
(***************************************************************************)

Uniform(t, s) == Cardinality({[At(t, c, s, 0, 0) EXCEPT !.chan = 0] : c \in Channels}) = 1

InOrder(t, s) == \A c \in Channels : At(t, c, s, 0, 0).chan = c

RowOf(e) == [id |-> e.id, self |-> e.self, text |-> e.text, vision |-> e.vision]

RowAt(t, s) ==
  IF Uniform(t, s) /\ InOrder(t, s) THEN RowOf(At(t, 0, s, 0, 0))
  ELSE [id |-> <<>>, self |-> {}, text |-> {}, vision |-> {}]

FirstRow(id) == [id |-> id, self |-> {}, text |-> {}, vision |-> {}]

(* Networks, flat vectors and memory orders implement the detector told     *)
(* without them: element (i * W + j) * 256 + c of the encoder always stands *)
(* for pixel <<i, j>>; every pixel hears every other from where it is; a    *)
(* query looks at it with the bias of its own box, in its own head; and the *)
(* position and the bias of a layer come from the boxes that the output of  *)
(* the layer before has moved, those of layer 0 from the boxes of main.     *)
Told == INSTANCE Detr WITH
  encoded <- IF hidden = NoTensor THEN 0 ELSE hidden.data[0].id[3],
  memory <- [p \in (0 .. Height - 1) \X (0 .. Width - 1) |->
               IF hidden = NoTensor THEN FirstRow(<<p[1], p[2], 0>>)
               ELSE RowAt(hidden, p[1] * Width + p[2])],
  decoded <- IF queries = NoTensor THEN 0 ELSE queries.data[0].id[2],
  queries <- [q \in 0 .. NumQueries - 1 |->
                IF queries = NoTensor THEN FirstRow(<<q, 0>>) ELSE RowAt(queries, q)],
  boxes <- [q \in 0 .. NumQueries - 1 |-> [c \in 0 .. 3 |->
              IF boxes = NoTensor THEN [query |-> q, coord |-> c, moved |-> <<>>]
              ELSE At(boxes, c, q, 0, 0)]]

ImplementsDetr == Told!Spec

(* Pixel (y, x) of mask q is made of the last row of query q and of the     *)
(* pixel of every feature level that lies under it, seen with its neighbours*)
(* the right way round, each coefficient of the query meeting its own       *)
(* channel; the coarsest pixel read the phrase and nothing else; and score q *)
(* is of the same query row, against the phrase alone.                      *)
LayersUnder(y, x) == {<<0, y, x>>, <<1, y \div 2, x \div 2>>, <<2, y \div 4, x \div 4>>}

MaskPixel(q, y, x) ==
  [query |-> {<<q, DecoderLayers>>}, layers |-> LayersUnder(y, x),
   read |-> Told!ReadBy(<<y \div 4, x \div 4, EncoderLayers>>, {}, Valid),
   ring |-> {<<k, LayersUnder(y + k[1] - 1, x + k[2] - 1)>> :
              k \in {tap \in (0 .. 2) \X (0 .. 2) :
                 y + tap[1] - 1 \in 0 .. 4 * Height - 1 /\ x + tap[2] - 1 \in 0 .. 4 * Width - 1}},
   chans |-> {<<c, c>> : c \in Channels}]

MasksInPlace ==
  pc = "done" =>
    /\ masks.ne = <<4 * Width, 4 * Height, NumQueries, 1>>
    /\ \A q \in 0 .. NumQueries - 1 :
         /\ scores[q] = [query |-> {<<q, DecoderLayers>>}, text |-> {<<r>> : r \in Valid}]
         /\ \A y \in 0 .. 4 * Height - 1, x \in 0 .. 4 * Width - 1 :
              At(masks, x, y, q, 0) = MaskPixel(q, y, x)

(* Five networks free their graphs by hand, on two ways out each: only a    *)
(* missing tensor leaves one behind, and never one of the decoder's         *)
(* refinement, which is read before there is a graph.                       *)
NoGraphLeft ==
  /\ live \in {{}, Objects}
  /\ live # {} => InGraph \/ (pc = "failed" /\ cause = "tensor" /\ absent # <<"weights", 0>>)
  /\ pc = "done" => absent \in {<<"nothing", 0>>, <<"weights", 0>>}
=============================================================================
