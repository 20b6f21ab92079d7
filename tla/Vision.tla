------------------------------- MODULE Vision -------------------------------
(***************************************************************************)
(* From pixels to feature levels, twice: InstructsamVisionEncoder, which   *)
(* keeps flat vectors and calls ggml for single operations, and VisionTrunk*)
(* with VisionNeck, which build one ggml graph each.  The two partition an *)
(* image into windows, rotate, repack heads and upsample in different ways *)
(* and orders; what they must agree on is ViT and the place of a pixel.    *)
(*                                                                         *)
(* An element of a tensor is abstracted to where it comes from: the patch  *)
(* of a row, the rows and heads an attention met, the kernel taps a pixel  *)
(* went through.  Linear layers and norms take a row to the same row.      *)
(***************************************************************************)
EXTENDS Integers, Sequences, FiniteSets, GgmlTensor

CONSTANTS
  Grid, Window, Pretrain, Heads, NLayers, GlobalLayers,  \* as in ViT
  NeckChannels                                           \* channels of a feature level (256)

ASSUME VisionAssumption ==
  /\ {Grid, Window, Pretrain, Heads, NLayers, NeckChannels} \subseteq Nat \ {0}
  /\ Grid % Window = 0 /\ Grid % 2 = 0
  /\ GlobalLayers \subseteq 0 .. NLayers - 1

VARIABLES
  program,   \* "instructsam" or "sam3"
  wanted,    \* the levels asked for: only_level, or all
  absent,    \* the weights the model file lacks, or has in a type not read
  pc,
  layer,
  live,      \* ggml objects of the graph being built or run
  cause,     \* why the run failed
  hidden,    \* the rows between layers: [C, W, H, 1]
  work,      \* the tensor the current step hands to the next
  todo,      \* what remains to be done for the level being made
  outputs    \* the levels made

vars == <<program, wanted, absent, pc, layer, live, cause, hidden, work, todo, outputs>>
choiceVars == <<program, wanted, absent>>

Objects == {"ctx", "sched"}
NoTensor == [ne |-> <<0, 0, 0, 0>>, data |-> <<>>]
Levels(p) == IF p = "sam3" THEN 0 .. 3 ELSE 0 .. 2

(* Weights are missing in one place at most: one is enough to throw.       *)
Everything == <<"nothing", 0>>
Parts(p) == {<<"top", 0>>} \cup ({"norm", "attn", "mlp"} \X (0 .. NLayers - 1))
              \cup ({"neck"} \X Levels(p)) \cup (IF p = "sam3" THEN {<<"positions", 0>>} ELSE {})

Init ==
  /\ program \in {"instructsam", "sam3"}
  /\ wanted \in {Levels(program)} \cup
                (IF program = "sam3" THEN {{l} : l \in Levels(program)} ELSE {})
  /\ absent \in Parts(program) \cup {Everything}
  /\ pc = "embed" /\ layer = 0 /\ live = {} /\ cause = "none"
  /\ hidden = NoTensor /\ work = NoTensor /\ todo = <<>> /\ outputs = <<>>

-----------------------------------------------------------------------------
(* Rows: from the patches of the image to those of a layer.                *)

(* The patch convolution, ggml_conv_2d with the stride of a patch.          *)
PatchConv == Tensor(<<Grid, Grid, Heads, 1>>, LAMBDA w, h, c, n : [patch |-> <<h, w>>, chan |-> c])

(* The table of learned positions; that of sam3 begins with the class token.*)
Stored ==
  LET Table(first) == [r \in 0 .. Pretrain * Pretrain - 1 + first |->
                         IF r < first THEN <<-1, -1>>
                         ELSE <<(r - first) \div Pretrain, (r - first) % Pretrain>>]
  IN IF program = "sam3" THEN Table(1) ELSE Table(0)

(* load_and_tile_pos_embed, make_tiled_abs_pos *)
Tile(h, w) ==
  (IF program = "sam3" THEN 1 ELSE 0) + (h % Pretrain) * Pretrain + (w % Pretrain)

(* run_prenorm up to its LayerNorm: channels first, positions added.        *)
Embedded ==
  LET tokens == Permute(PatchConv, 1, 2, 0, 3)
  IN Tensor(tokens.ne, LAMBDA c, w, h, n :
       [patch |-> At(tokens, c, w, h, n).patch, chan |-> At(tokens, c, w, h, n).chan,
        pos |-> Stored[Tile(h, w)], depth |-> 0, heard |-> {}])

IsGlobal(l) == l \in GlobalLayers

(* cpu_window_partition: window wy * nWx + wx, row iy * win + ix.           *)
CpuWindowPartition(t) ==
  LET nWx == Grid \div Window
      nWy == Grid \div Window
  IN Tensor(<<Heads, Window * Window, nWx * nWy, 1>>, LAMBDA c, s, b, n :
       At(t, c, (b % nWx) * Window + (s % Window), (b \div nWx) * Window + (s \div Window), 0))

(* cpu_window_unpartition *)
CpuWindowUnpartition(t) ==
  LET nWx == Grid \div Window
  IN Tensor(<<Heads, Grid, Grid, 1>>, LAMBDA c, w, h, n :
       At(t, c, (h % Window) * Window + (w % Window), (h \div Window) * nWx + (w \div Window), 0))

(* gpu_win_part: the same windows by reshapes and one copy, and in another  *)
(* order, which its comment says does not matter.                          *)
GpuWinPart(t) ==
  LET n == Grid \div Window
      split == Permute(Reshape(t, <<Heads, Window, n, Grid>>), 0, 1, 3, 2)
      folded == Reshape(split, <<Heads * Window, Window, n, n>>)
  IN Reshape(folded, <<Heads, Window, Window, n * n>>)

(* gpu_win_unpart *)
GpuWinUnpart(t) ==
  LET n == Grid \div Window
      folded == Reshape(t, <<Heads * Window, Window, n, n>>)
      columns == Reshape(folded, <<Heads, Window, Window * n, n>>)
  IN Reshape(Permute(columns, 0, 1, 3, 2), <<Heads, Window * n, Window * n, 1>>)

(* The rows a layer attends over, as [C, rows, windows, 1].                 *)
Windowed ==
  LET part == IF IsGlobal(layer) THEN hidden
              ELSE IF program = "sam3" THEN GpuWinPart(hidden) ELSE CpuWindowPartition(hidden)
      batch == IF IsGlobal(layer) THEN 1 ELSE (Grid \div Window) * (Grid \div Window)
  IN Reshape(part, <<Heads, (Grid * Grid) \div batch, batch, 1>>)

-----------------------------------------------------------------------------
(* Attention.                                                              *)

(* A linear layer: every element of a row comes of the whole row.          *)
Projected(t) ==
  Tensor(t.ne, LAMBDA c, s, b, n :
    [of |-> {At(t, i, s, b, n).patch : i \in 0 .. Heads - 1}, head |-> c, at |-> <<0, 0>>])

(* to_heads: rows of a window and heads change places.                      *)
ToHeads(t) ==
  Tensor(<<1, t.ne[3], t.ne[2], t.ne[4]>>, LAMBDA d, s, h, b : At(t, d, h, s, b))

\* Faulty: global layers are rotated like the others.
RopeAngleUnscaled(s) ==
  LET side == IF IsGlobal(layer) THEN Grid ELSE Window
  IN <<Grid * (s \div side), Grid * (s % side)>>

(* build_rope_table_2d, make_axis_positions: the angle of row s is its      *)
(* place in the window, in a global layer scaled to the span of a window.  *)
RopeAngle(s) ==
  LET side == IF IsGlobal(layer) THEN Grid ELSE Window
      unit == IF IsGlobal(layer) THEN Window ELSE Grid
  IN <<unit * (s \div side), unit * (s % side)>>

(* apply_rope_2d_cpu, on [D, rows, heads, windows].                         *)
CpuRotated(t) ==
  Tensor(t.ne, LAMBDA d, s, h, b : [At(t, d, s, h, b) EXCEPT !.at = RopeAngle(s)])

(* apply_axial_rope, on [D, heads, rows, windows].                          *)
AxialRotated(t) ==
  Tensor(t.ne, LAMBDA d, h, s, b : [At(t, d, h, s, b) EXCEPT !.at = RopeAngle(s)])

Score(q, k, v) ==
  [heads |-> {q.head, k.head, v.head}, by |-> q.of, from |-> k.of \cup v.of,
   dy |-> q.at[1] - k.at[1], dx |-> q.at[2] - k.at[2]]

(* run_layer up to the repacking for o_proj: flash_attn returns rows before *)
(* heads, it is put in order again and the caller undoes that.             *)
CpuAttention(t) ==
  LET x == Reshape(Projected(t), <<1, Heads, t.ne[2], t.ne[3]>>)
      q == CpuRotated(ToHeads(x))
      k == CpuRotated(ToHeads(x))
      v == ToHeads(x)
      attn == ToHeads(FlashAttn(q, k, v, Score))
  IN Reshape(ToHeads(attn), t.ne)

(* VisionTrunk::run with apply_attention *)
GraphAttention(t) ==
  LET x == Reshape(Projected(t), <<1, Heads, t.ne[2], t.ne[3]>>)
      q == Permute(AxialRotated(x), 0, 2, 1, 3)
      k == Permute(AxialRotated(x), 0, 2, 1, 3)
      v == Permute(x, 0, 2, 1, 3)
  IN Reshape(FlashAttn(q, k, v, Score), t.ne)

Attended(t) == IF program = "sam3" THEN GraphAttention(t) ELSE CpuAttention(t)

(* The output projection, the windows put back, both residuals, the MLP.    *)
Merged(t) ==
  LET proj == Tensor(t.ne, LAMBDA c, s, b, n : UNION {At(t, i, s, b, n) : i \in 0 .. Heads - 1})
      back == IF IsGlobal(layer) THEN proj
              ELSE IF program = "sam3" THEN GpuWinUnpart(proj) ELSE CpuWindowUnpartition(proj)
  IN [hidden EXCEPT !.data = [i \in DOMAIN hidden.data |->
        [hidden.data[i] EXCEPT !.heard = back.data[i], !.depth = @ + 1]]]

-----------------------------------------------------------------------------
(* The neck: a pixel is the patches at its place, the taps of the kernels   *)
(* that took it there, what the last kernel saw around it, and by way of    *)
(* which weights it came from which channels.                              *)

Pixel(e) == [at |-> {e.patch}, taps |-> {<<>>}, ring |-> {}, from |-> {}, chan |-> e.chan]

Weight(ky, kx, i, o) == [tap |-> <<ky, kx>>, in |-> i, out |-> o]

(* Kernels as their files hold them: PyTorch [OC, IC, KH, KW], MLX          *)
(* [OC, KH, KW, IC], and [IC, OC, KH, KW] of a PyTorch transposed kernel.   *)
TorchKernel(k, ic) == Tensor(<<k, k, ic, NeckChannels>>, LAMBDA kx, ky, i, o : Weight(ky, kx, i, o))
TorchTransposed(k, ic) == Tensor(<<k, k, NeckChannels, ic>>, LAMBDA kx, ky, o, i : Weight(ky, kx, i, o))
MlxKernel(k, ic) == Tensor(<<ic, k, k, NeckChannels>>, LAMBDA i, kx, ky, o : Weight(ky, kx, i, o))

(* What a pixel is made of, from pairs of a weight and a pixel; the middle  *)
(* of the kernel says where it is.                                         *)
Summed(pairs, middle) ==
  LET mid == {p \in pairs : p[1].tap = middle}
  IN [at |-> UNION {p[2].at : p \in mid}, taps |-> UNION {p[2].taps : p \in mid},
      ring |-> {<<p[1].tap, p[2].at>> : p \in pairs},
      from |-> {<<p[1].in, p[2].chan>> : p \in pairs},
      chan |-> (CHOOSE p \in pairs : TRUE)[1].out]

Convolved1x1(pairs) == Summed(pairs, <<0, 0>>)
Convolved3x3(pairs) == Summed(pairs, <<1, 1>>)

(* A transposed kernel as large as its stride: one tap, added to the path.  *)
Upsampled(pairs) ==
  LET tap == (CHOOSE p \in pairs : TRUE)[1].tap
  IN [Summed(pairs, tap) EXCEPT !.taps = {Append(path, tap) : path \in @}]

Pooled(pixels) ==
  [(CHOOSE e \in pixels : TRUE) EXCEPT !.at = UNION {e.at : e \in pixels}]

(* The pixel shuffle of deconv2d_bias: y is [OC * kw * kh, W * H].           *)
PixelShuffle(y, W, H, S) ==
  LET oc == y.ne[1] \div (S * S)
      ys == Reshape(Permute(Reshape(y, <<oc * S, S, W, H>>), 0, 2, 1, 3), <<oc * S, W, S * H, 1>>)
  IN Reshape(Reshape(ys, <<oc, S, W, S * H>>), <<oc, S * W, S * H, 1>>)

(* deconv2d_bias: a matrix product and a shuffle.  A copy is to bring the    *)
(* channels of x to the front unless they are there.                        *)
Deconv(x, channelsFirst) ==
  LET ic == IF channelsFirst THEN x.ne[1] ELSE x.ne[3]
      W == IF channelsFirst THEN x.ne[2] ELSE x.ne[1]
      H == IF channelsFirst THEN x.ne[3] ELSE x.ne[2]
      rows == IF channelsFirst THEN x ELSE Permute(x, 2, 0, 1, 3)
      flat == Reshape(Permute(MlxKernel(2, ic), 0, 2, 3, 1), <<ic, NeckChannels * 4, 1, 1>>)
  IN PixelShuffle(MulMat(flat, Reshape(rows, <<ic, W * H, 1, 1>>), Upsampled), W, H, 2)

(* conv2d_bias brings the kernel of MLX into the order of ggml_conv_2d;     *)
(* detail::ggml_conv2d is given a PyTorch kernel, which is in it already.   *)
Kernel(k, ic) ==
  IF program = "sam3" THEN Permute(MlxKernel(k, ic), 2, 0, 1, 3) ELSE TorchKernel(k, ic)

Apply(op, x) ==
  CASE op = "convT"    -> ConvTranspose2d(TorchTransposed(2, x.ne[3]), x, 2, Upsampled)
    [] op = "deconv"   -> Deconv(x, FALSE)
    [] op = "deconvCF" -> Deconv(x, TRUE)
    [] op = "spatial"  -> Permute(x, 2, 0, 1, 3)
    [] op = "pool"     -> Pool2x2(x, Pooled)
    [] op = "conv1"    -> Conv2d(Kernel(1, x.ne[3]), x, 0, Convolved1x1)
    [] op = "conv3"    -> Conv2d(Kernel(3, x.ne[3]), x, 1, Convolved3x3)

\* Faulty: rows are read column by column.
FeaturesByColumn ==
  Tensor(<<Grid, Grid, Heads, 1>>, LAMBDA w, h, c, n : Pixel(hidden.data[(w * Grid + h) * Heads + c]))

(* The rows of the trunk as [W, H, C, 1]: run_neck copies them one by one,  *)
(* VisionTrunk::run permutes its result.                                   *)
Features ==
  IF program = "sam3"
  THEN LET t == Permute(hidden, 2, 0, 1, 3) IN [t EXCEPT !.data = [i \in DOMAIN @ |-> Pixel(@[i])]]
  ELSE Tensor(<<Grid, Grid, Heads, 1>>,
              LAMBDA w, h, c, n : Pixel(hidden.data[(h * Grid + w) * Heads + c]))

(* run_neck and VisionNeck::run, level by level.                            *)
Steps(level) ==
  CASE level = 0 /\ program = "instructsam" -> <<"convT", "convT", "conv1", "conv3">>
    [] level = 1 /\ program = "instructsam" -> <<"convT", "conv1", "conv3">>
    [] level = 0 /\ program = "sam3" -> <<"deconv", "deconvCF", "spatial", "conv1", "conv3">>
    [] level = 1 /\ program = "sam3" -> <<"deconv", "spatial", "conv1", "conv3">>
    [] level = 2 -> <<"conv1", "conv3">>
    [] level = 3 -> <<"pool", "conv1", "conv3">>

-----------------------------------------------------------------------------
(* The run.  InstructSAM has a graph for the embedding only; what follows   *)
(* are calls that open and close their own.  SAM3 has one graph for the     *)
(* trunk and one for the neck, built, then computed, then freed.            *)

Fail(why) == pc' = "failed" /\ cause' = why

NextLevel == CHOOSE l \in wanted :
  /\ \A i \in DOMAIN outputs : outputs[i].level < l
  /\ \A m \in wanted : m < l => \E i \in DOMAIN outputs : outputs[i].level = m

LastStep == Len(todo) = 1 /\ Len(outputs) + 1 = Cardinality(wanted)

InGraph ==
  pc = "embed" \/ (program = "sam3" /\ pc \in {"window", "attend", "merge", "neck"})

Missing ==
  CASE pc = "embed"  -> absent = <<"top", 0>>
    [] pc = "window" -> absent = <<"norm", layer>>
    [] pc = "attend" -> absent = <<"attn", layer>>
    [] pc = "merge"  -> absent = <<"mlp", layer>>
    [] pc = "neck" /\ todo = <<>> -> absent = <<"neck", NextLevel>>
    [] OTHER -> FALSE

(* SAM3 reads its positions before there is a graph (make_tiled_abs_pos).   *)
PositionsMissing == pc = "embed" /\ live = {} /\ absent = <<"positions", 0>>

Ready(p) == pc = p /\ (InGraph => live = Objects) /\ ~ Missing

(* ggml_init or ggml_backend_sched_new returns null.                        *)
OpenGraph ==
  /\ InGraph /\ live = {} /\ ~ PositionsMissing
  /\ \/ live' = Objects /\ UNCHANGED <<pc, cause>>
     \/ Fail("ggml") /\ UNCHANGED live
  /\ UNCHANGED <<choiceVars, layer, hidden, work, todo, outputs>>

(* require_tensor and get_f16_raw throw; the graph being built is not freed.*)
TensorMissing ==
  /\ PositionsMissing \/ ((InGraph => live = Objects) /\ Missing)
  /\ Fail("tensor")
  /\ UNCHANGED <<choiceVars, layer, live, hidden, work, todo, outputs>>

ComputePoint ==
  \/ program = "instructsam" /\ pc = "embed"
  \/ program = "sam3" /\ pc = "merge" /\ layer = NLayers - 1
  \/ program = "sam3" /\ pc = "neck" /\ LastStep

\* Faulty: thrown before anything is freed.
ComputeFailsUnfreed ==
  /\ live = Objects /\ ~ Missing /\ ComputePoint
  /\ Fail("compute")
  /\ UNCHANGED <<choiceVars, layer, live, hidden, work, todo, outputs>>

(* ggml_backend_sched_graph_compute fails: freed, then thrown.              *)
ComputeFails ==
  /\ live = Objects /\ ~ Missing /\ ComputePoint
  /\ Fail("compute") /\ live' = {}
  /\ UNCHANGED <<choiceVars, layer, hidden, work, todo, outputs>>

(* ggml_init fails in flash_attn, ggml_conv2d or ggml_conv_transpose2d_ks.  *)
OperationFails ==
  /\ program = "instructsam"
  /\ Ready("attend") \/ (Ready("neck") /\ todo # <<>>)
  /\ Fail("ggml")
  /\ UNCHANGED <<choiceVars, layer, live, hidden, work, todo, outputs>>

(* run_prenorm, and the beginning of VisionTrunk::run.                      *)
Embed ==
  /\ Ready("embed")
  /\ hidden' = Embedded
  /\ pc' = "window"
  /\ live' = IF program = "sam3" THEN live ELSE {}
  /\ UNCHANGED <<choiceVars, layer, cause, work, todo, outputs>>

WindowRows ==
  /\ Ready("window")
  /\ work' = Windowed
  /\ pc' = "attend"
  /\ UNCHANGED <<choiceVars, layer, live, cause, hidden, todo, outputs>>

Attend ==
  /\ Ready("attend")
  /\ work' = Attended(work)
  /\ pc' = "merge"
  /\ UNCHANGED <<choiceVars, layer, live, cause, hidden, todo, outputs>>

(* The end of a layer; after the last the graph of the trunk is computed.   *)
Merge ==
  /\ Ready("merge")
  /\ hidden' = Merged(work) /\ work' = NoTensor
  /\ layer' = layer + 1
  /\ IF layer + 1 = NLayers THEN pc' = "neck" /\ live' = {}
                            ELSE pc' = "window" /\ UNCHANGED live
  /\ UNCHANGED <<choiceVars, cause, todo, outputs>>

BeginLevel ==
  /\ Ready("neck") /\ todo = <<>>
  /\ work' = Features /\ todo' = Steps(NextLevel)
  /\ UNCHANGED <<choiceVars, pc, layer, live, cause, hidden, outputs>>

LevelStep ==
  /\ Ready("neck") /\ todo # <<>>
  /\ todo' = Tail(todo)
  /\ LET made == Apply(Head(todo), work)
     IN IF Len(todo) > 1
        THEN work' = made /\ UNCHANGED outputs
        ELSE /\ work' = NoTensor
             /\ outputs' = Append(outputs, [level |-> NextLevel, map |-> made])
  /\ IF LastStep THEN pc' = "done" /\ live' = {} ELSE UNCHANGED <<pc, live>>
  /\ UNCHANGED <<choiceVars, layer, cause, hidden>>

Finished == pc \in {"done", "failed"} /\ UNCHANGED vars

Next ==
  \/ OpenGraph \/ TensorMissing \/ ComputeFails \/ OperationFails
  \/ Embed \/ WindowRows \/ Attend \/ Merge \/ BeginLevel \/ LevelStep
  \/ Finished

Spec == Init /\ [][Next]_vars

-----------------------------------------------------------------------------
(***************************************************************************)
(* Properties.                                                             *)
(***************************************************************************)

(* Both programs implement the vision transformer told without layout: row  *)
(* h * Grid + w of the hidden state always stands for patch <<h, w>>, with  *)
(* its own position added, and in every layer each head of it heard exactly *)
(* the patches of its window, or all, each from the right distance; though  *)
(* one orders windows, heads and rows differently from the other.          *)
Elements(p) == {hidden.data[(p[1] * Grid + p[2]) * Heads + c] : c \in 0 .. Heads - 1}

RowIn(e) == [patch |-> e.patch, pos |-> e.pos, depth |-> e.depth, heard |-> e.heard]

Garbled == [patch |-> <<-1, -1>>, pos |-> <<-1, -1>>, depth |-> 0, heard |-> {}]

RowAt(p) ==
  IF /\ Cardinality({RowIn(e) : e \in Elements(p)}) = 1
     /\ {e.chan : e \in Elements(p)} = 0 .. Heads - 1
  THEN RowIn(CHOOSE e \in Elements(p) : TRUE)
  ELSE Garbled

InitialRow(p) ==
  [patch |-> p, pos |-> <<p[1] % Pretrain, p[2] % Pretrain>>, depth |-> 0, heard |-> {}]

Model == INSTANCE ViT WITH
  depth <- layer,
  grid <- [p \in (0 .. Grid - 1) \X (0 .. Grid - 1) |->
             IF hidden.ne = NoTensor.ne THEN InitialRow(p) ELSE RowAt(p)]

ImplementsViT == Model!Spec

(* A pixel of a feature level comes from the patch under it: level 0 has    *)
(* four pixels to a patch along each axis, level 1 two, level 2 one, and a  *)
(* pixel of level 3 covers two by two patches.  The kernel taps on its way  *)
(* spell its place within the patch, the last kernel saw its neighbours     *)
(* the right way round, and weights met the channels they are for.          *)
PerPatch(level) == CASE level = 0 -> 4 [] level = 1 -> 2 [] OTHER -> 1

PatchesUnder(level, y, x) ==
  IF level = 3 THEN {<<2 * y + i, 2 * x + j>> : i \in 0 .. 1, j \in 0 .. 1}
  ELSE {<<y \div PerPatch(level), x \div PerPatch(level)>>}

PathTo(level, y, x) ==
  CASE level = 0 -> <<<<(y \div 2) % 2, (x \div 2) % 2>>, <<y % 2, x % 2>>>>
    [] level = 1 -> <<<<y % 2, x % 2>>>>
    [] OTHER -> <<>>

PixelInPlace(level, side, y, x, c) ==
  [at |-> PatchesUnder(level, y, x), taps |-> {PathTo(level, y, x)},
   ring |-> {<<k, PatchesUnder(level, y + k[1] - 1, x + k[2] - 1)>> :
              k \in {tap \in (0 .. 2) \X (0 .. 2) :
                 y + tap[1] - 1 \in 0 .. side - 1 /\ x + tap[2] - 1 \in 0 .. side - 1}},
   from |-> {<<i, i>> : i \in 0 .. NeckChannels - 1}, chan |-> c]

InPlace(output) ==
  LET level == output.level
      side == IF level = 3 THEN Grid \div 2 ELSE Grid * PerPatch(level)
  IN /\ output.map.ne = <<side, side, NeckChannels, 1>>
     /\ \A y, x \in 0 .. side - 1, c \in 0 .. NeckChannels - 1 :
          At(output.map, x, y, c, 0) = PixelInPlace(level, side, y, x, c)

ByDeconv(output) == program = "sam3" /\ output.level < 2

PyramidInPlace == \A i \in DOMAIN outputs : ByDeconv(outputs[i]) \/ InPlace(outputs[i])

(* The same of the two levels VisionNeck makes by deconv2d_bias, whose       *)
(* comment says that its copy permutes [W, H, IC, 1] to [IC, W, H, 1].       *)
DeconvInPlace == \A i \in DOMAIN outputs : ByDeconv(outputs[i]) => InPlace(outputs[i])

(* A run that ends has freed its graphs, and delivered the levels asked for *)
(* in their order, unless it threw; only a missing tensor leaves a graph    *)
(* behind, and never one of the embedding of InstructSAM or later.          *)
EndsClean ==
  /\ pc = "done" => /\ live = {}
                    /\ {outputs[i].level : i \in DOMAIN outputs} = wanted
                    /\ \A i, j \in DOMAIN outputs : i < j => outputs[i].level < outputs[j].level
  /\ pc = "failed" /\ live # {} =>
       cause = "tensor" /\ (program = "instructsam" => absent[1] = "top")
=============================================================================
