----------------------------- MODULE GgmlTensor -----------------------------
(***************************************************************************)
(* What the vision code asks of ggml, as its use there shows: a tensor is  *)
(* four extents, the first varying fastest, and the elements in memory     *)
(* order.  Elements are whatever the caller keeps track of; the arithmetic *)
(* on them is left to an operator that says which elements meet.           *)
(***************************************************************************)
LOCAL INSTANCE Integers

Size(ne) == ne[1] * ne[2] * ne[3] * ne[4]

(* The tensor whose element at i0, i1, i2, i3 is F(i0, i1, i2, i3).         *)
Tensor(ne, F(_, _, _, _)) ==
  [ne |-> ne,
   data |-> [i \in 0 .. Size(ne) - 1 |->
               F(i % ne[1], (i \div ne[1]) % ne[2],
                 (i \div (ne[1] * ne[2])) % ne[3], i \div (ne[1] * ne[2] * ne[3]))]]

At(t, i0, i1, i2, i3) ==
  t.data[i0 + t.ne[1] * (i1 + t.ne[2] * (i2 + t.ne[3] * i3))]

(* ggml_reshape: the same memory, read with other extents.                 *)
Reshape(t, ne) == [t EXCEPT !.ne = ne]

(* ggml_cont(ggml_permute(t, a0, a1, a2, a3)): axis i becomes axis a_i.     *)
Permute(t, a0, a1, a2, a3) ==
  LET axis == <<a0, a1, a2, a3>>
      From(j0, j1, j2, j3) ==
        LET j == <<j0, j1, j2, j3>> IN At(t, j[a0 + 1], j[a1 + 1], j[a2 + 1], j[a3 + 1])
  IN Tensor([k \in 1 .. 4 |-> t.ne[CHOOSE i \in 1 .. 4 : axis[i] = k - 1]], From)

(* ggml_mul_mat: row o of the weights meets every row of x, element by     *)
(* element of their first axes; further axes go together, or w has one.    *)
MulMat(w, x, Dot(_)) ==
  Tensor(<<w.ne[2], x.ne[2], x.ne[3], x.ne[4]>>,
         LAMBDA o, i1, i2, i3 :
           Dot({<<At(w, i0, o, i2 % w.ne[3], i3 % w.ne[4]), At(x, i0, i1, i2, i3)>> :
                i0 \in 0 .. w.ne[1] - 1}))

(* ggml_soft_max_ext before it is normalised: a mask of one head serves all.*)
SoftMaxExt(scores, mask, Biased(_, _)) ==
  Tensor(scores.ne, LAMBDA k, q, h, n : Biased(At(scores, k, q, h, n), At(mask, k, q, h % mask.ne[3], 0)))

(* ggml_upscale by two, nearest neighbour.                                  *)
Upscale2(x) ==
  Tensor(<<2 * x.ne[1], 2 * x.ne[2], x.ne[3], x.ne[4]>>,
         LAMBDA w, h, c, n : At(x, w \div 2, h \div 2, c, n))

(* ggml_add of two tensors of one shape.                                    *)
AddTensors(x, y, Plus(_, _)) ==
  [x EXCEPT !.data = [i \in DOMAIN x.data |-> Plus(x.data[i], y.data[i])]]

(* ggml_flash_attn_ext: q, k and v are [head_dim, seq, head, batch], here   *)
(* with one element per head; the result is [head_dim, head, seq, batch].   *)
FlashAttn(q, k, v, Score(_, _, _)) ==
  Tensor(<<1, q.ne[3], q.ne[2], q.ne[4]>>,
         LAMBDA i0, h, s, b : {Score(At(q, 0, s, h, b), At(k, 0, t, h, b), At(v, 0, t, h, b)) :
                               t \in 0 .. k.ne[2] - 1})

(* ggml_conv_2d with stride one: weights [KW, KH, IC, OC], x [W, H, IC, 1]. *)
Conv2d(w, x, pad, Sum(_)) ==
  LET Taps(ow, oh) == {c \in (0 .. w.ne[1] - 1) \X (0 .. w.ne[2] - 1) :
                         /\ ow + c[1] - pad \in 0 .. x.ne[1] - 1
                         /\ oh + c[2] - pad \in 0 .. x.ne[2] - 1}
  IN Tensor(<<x.ne[1] + 2 * pad - w.ne[1] + 1, x.ne[2] + 2 * pad - w.ne[2] + 1, w.ne[4], 1>>,
            LAMBDA ow, oh, oc, n :
              Sum({<<At(w, c[1], c[2], ic, oc), At(x, ow + c[1] - pad, oh + c[2] - pad, ic, 0)>> :
                   c \in Taps(ow, oh), ic \in 0 .. x.ne[3] - 1}))

(* ggml_conv_transpose_2d_p0 with a kernel as large as the stride: weights  *)
(* [KW, KH, OC, IC]; an output pixel has one source and one tap.            *)
ConvTranspose2d(w, x, stride, Sum(_)) ==
  Tensor(<<x.ne[1] * stride, x.ne[2] * stride, w.ne[3], 1>>,
         LAMBDA ow, oh, oc, n :
           Sum({<<At(w, ow % stride, oh % stride, oc, ic),
                  At(x, ow \div stride, oh \div stride, ic, 0)>> : ic \in 0 .. x.ne[3] - 1}))

(* ggml_pool_2d, 2 by 2 with stride 2.                                      *)
Pool2x2(x, Best(_)) ==
  Tensor(<<x.ne[1] \div 2, x.ne[2] \div 2, x.ne[3], 1>>,
         LAMBDA ow, oh, c, n :
           Best({At(x, 2 * ow + i, 2 * oh + j, c, 0) : i \in 0 .. 1, j \in 0 .. 1}))
=============================================================================
