--------------------------- MODULE Detector_proofs ---------------------------
(***************************************************************************)
(* Proofs about Detector, for every size of the image, every number of     *)
(* heads, queries and layers, and every phrase.                            *)
(***************************************************************************)
EXTENDS Detector, Lemmas, FiniteSetTheorems, SequenceTheorems

-----------------------------------------------------------------------------
(***************************************************************************)
(* Graphs and weights.                                                     *)
(***************************************************************************)

(* The graphs: a missing tensor leaves one, unless it is one of the        *)
(* refinement.                                                             *)
GraphInv ==
  /\ live \in {{}, Objects}
  /\ live # {} => InGraph \/ (pc = "failed" /\ cause = "tensor" /\ absent # <<"weights", 0>>)

(* The places of the run in their order.                                   *)
Rank ==
  [nothing |-> 0, constants |-> 1, bridge |-> 2, encode |-> 3, weights |-> 4, decode |-> 5,
   fuse |-> 6, stage0 |-> 7, stage1 |-> 8, tail |-> 9, done |-> 10]

Places == {"nothing", "constants", "bridge", "encode", "weights", "decode", "fuse", "stage0", "stage1",
           "tail", "done"}

LayersOf(p) == IF p = "encode" THEN EncoderLayers ELSE IF p = "decode" THEN DecoderLayers ELSE 1

(* What is missing is still to come, unless the run can do without it.     *)
ToCome ==
  pc # "failed" =>
    /\ pc \in Places \ {"nothing"} /\ layer \in 0 .. LayersOf(pc) - 1
    /\ \/ absent \in {<<"nothing", 0>>, <<"weights", 0>>}
       \/ Rank[absent[1]] > Rank[pc]
       \/ absent[1] = pc /\ absent[2] >= layer

PlaceInv ==
  /\ \E p \in Places \ {"done"}, l \in Nat : absent = <<p, l>> /\ l < LayersOf(p)
  /\ ToCome

EndInv == GraphInv /\ PlaceInv

LEMMA GraphStep ==
  ASSUME GraphInv, [Next]_vars
  PROVE  GraphInv'
<1>1. CASE OpenGraph
  BY <1>1 DEF OpenGraph, Fail, GraphInv, InGraph, choiceVars
<1>2. CASE TensorMissing
  BY <1>2 DEF TensorMissing, Missing, Fail, GraphInv, InGraph, Objects, choiceVars
<1>3. CASE ComputeFails
  BY <1>3 DEF ComputeFails, GraphInv
<1>4. CASE Constants \/ Bridge \/ LoadRefinement \/ ScoreAndMask
  <2>1. live = {}
    BY <1>4 DEF Constants, Bridge, LoadRefinement, ScoreAndMask, Ready, GraphInv, InGraph
  <2>2. live' = {}
    BY <1>4, <2>1 DEF Constants, Bridge, LoadRefinement, ScoreAndMask
  <2> QED
    BY <2>2 DEF GraphInv
<1>5. CASE Encode \/ Decode \/ Fuse \/ Stage0 \/ Stage1
  BY <1>5 DEF Encode, Decode, Fuse, Stage0, Stage1, GraphInv
<1>6. CASE UNCHANGED vars
  BY <1>6 DEF vars, GraphInv, InGraph
<1> QED
  BY <1>1, <1>2, <1>3, <1>4, <1>5, <1>6 DEF Next, Finished

(* A place that is left had its weights, or needed none.                   *)
LEMMA LeavesPlace ==
  ASSUME PlaceInv, NEW p \in Places, Ready(p), p # "nothing",
         NEW q \in Places, pc' = q, layer' \in 0 .. LayersOf(q) - 1, UNCHANGED choiceVars,
         \/ Rank[q] = Rank[p] + 1 /\ layer + 1 = LayersOf(p) /\ layer' = 0
         \/ q = p /\ layer' = layer + 1
  PROVE  PlaceInv'
<1>1. pc = p /\ ~ Missing /\ absent' = absent /\ layer \in 0 .. LayersOf(p) - 1
  BY DEF Ready, PlaceInv, ToCome, choiceVars, Places
<1>2. PICK a \in Places \ {"done"}, l \in Nat : absent = <<a, l>> /\ l < LayersOf(a)
  BY DEF PlaceInv
<1>3. absent[1] = a /\ absent[2] = l
  BY <1>2
<1>4. EncoderLayers \in Nat /\ DecoderLayers \in Nat
  BY DetectorAssumption
<1>5. a = p /\ l = layer => absent = <<"weights", 0>>
  BY <1>1, <1>2, <1>4 DEF Missing, LayersOf
<1>6. q # "nothing" /\ Rank[p] \in Nat /\ Rank[q] \in Nat /\ Rank[a] \in Nat
  BY <1>2 DEF Rank, Places
<1>7. Rank[a] = Rank[q] => a = q
  BY <1>2 DEF Rank, Places
<1>8. \/ absent \in {<<"nothing", 0>>, <<"weights", 0>>}
      \/ Rank[a] > Rank[p]
      \/ a = p /\ l >= layer
  BY <1>1, <1>3 DEF PlaceInv, ToCome, Places
<1>9. \/ absent \in {<<"nothing", 0>>, <<"weights", 0>>}
      \/ Rank[a] > Rank[q]
      \/ a = q /\ l >= layer'
  <2>1. CASE q = p /\ layer' = layer + 1
    BY <2>1, <1>1, <1>2, <1>5, <1>8
  <2>2. CASE Rank[q] = Rank[p] + 1 /\ layer + 1 = LayersOf(p) /\ layer' = 0
    BY <2>2, <1>1, <1>2, <1>5, <1>6, <1>7, <1>8
  <2> QED
    BY <2>1, <2>2
<1> QED
  BY <1>1, <1>2, <1>3, <1>6, <1>9 DEF PlaceInv, ToCome

LEMMA PlaceStep ==
  ASSUME EndInv, [Next]_vars
  PROVE  PlaceInv'
<1> USE DEF EndInv
<1>0. EncoderLayers \in Nat \ {0} /\ DecoderLayers \in Nat \ {0}
  BY DetectorAssumption
<1>1. CASE OpenGraph \/ TensorMissing \/ ComputeFails
  <2>1. UNCHANGED <<choiceVars, layer>> /\ (pc' = pc \/ pc' = "failed")
    BY <1>1 DEF OpenGraph, TensorMissing, ComputeFails, Fail
  <2> QED
    BY <2>1 DEF PlaceInv, ToCome, choiceVars
<1>2. CASE Constants \/ Bridge \/ LoadRefinement \/ Fuse \/ Stage0 \/ Stage1 \/ ScoreAndMask
  <2>1. \E p, q \in Places :
          /\ Ready(p) /\ p # "nothing" /\ pc' = q /\ Rank[q] = Rank[p] + 1
          /\ LayersOf(p) = 1 /\ LayersOf(q) \in Nat \ {0}
    <3>1. \E p, q \in Places :
            /\ <<p, q>> \in {<<"constants", "bridge">>, <<"bridge", "encode">>, <<"weights", "decode">>,
                            <<"fuse", "stage0">>, <<"stage0", "stage1">>, <<"stage1", "tail">>,
                            <<"tail", "done">>}
            /\ Ready(p) /\ pc' = q
      BY <1>2 DEF Constants, Bridge, LoadRefinement, Fuse, Stage0, Stage1, ScoreAndMask, Places
    <3> QED
      BY <1>0, <3>1 DEF Rank, LayersOf
  <2>2. UNCHANGED <<choiceVars, layer>>
    BY <1>2 DEF Constants, Bridge, LoadRefinement, Fuse, Stage0, Stage1, ScoreAndMask
  <2>3. \A p \in Places : Ready(p) /\ LayersOf(p) = 1 => layer = 0
    BY DEF Ready, PlaceInv, ToCome, Places
  <2> QED
    BY <2>1, <2>2, <2>3, LeavesPlace
<1>3. CASE Encode
  <2>1. /\ Ready("encode") /\ UNCHANGED choiceVars
        /\ IF layer + 1 < EncoderLayers THEN layer' = layer + 1 /\ pc' = "encode"
                                        ELSE layer' = 0 /\ pc' = "weights"
    BY <1>3 DEF Encode, Ready
  <2>2. layer \in 0 .. EncoderLayers - 1
    BY <2>1 DEF Ready, PlaceInv, ToCome, LayersOf
  <2>3. {"encode", "weights"} \subseteq Places /\ Rank["weights"] = Rank["encode"] + 1
    BY DEF Places, Rank
  <2> QED
    BY <1>0, <2>1, <2>2, <2>3, LeavesPlace DEF LayersOf
<1>4. CASE Decode
  <2>1. /\ Ready("decode") /\ UNCHANGED choiceVars
        /\ IF layer + 1 < DecoderLayers THEN layer' = layer + 1 /\ pc' = "decode"
                                        ELSE layer' = 0 /\ pc' = "fuse"
    BY <1>4 DEF Decode, Ready
  <2>2. layer \in 0 .. DecoderLayers - 1
    BY <2>1 DEF Ready, PlaceInv, ToCome, LayersOf
  <2>3. {"decode", "fuse"} \subseteq Places /\ Rank["fuse"] = Rank["decode"] + 1
    BY DEF Places, Rank
  <2> QED
    BY <1>0, <2>1, <2>2, <2>3, LeavesPlace DEF LayersOf
<1>5. CASE UNCHANGED vars
  BY <1>5 DEF vars, PlaceInv, ToCome
<1> QED
  BY <1>1, <1>2, <1>3, <1>4, <1>5 DEF Next, Finished

LEMMA EndInit ==
  ASSUME Init
  PROVE  EndInv
<1>1. EncoderLayers \in Nat \ {0} /\ DecoderLayers \in Nat \ {0}
  BY DetectorAssumption
<1>2. live = {} /\ pc = "constants" /\ layer = 0 /\ absent \in WeightPlaces
  BY DEF Init
<1>3. PICK p \in Places \ {"done"}, l \in Nat : absent = <<p, l>> /\ l < LayersOf(p)
  BY <1>1, <1>2 DEF WeightPlaces, Parts, Places, LayersOf
<1>4. p = "nothing" \/ p = "constants" \/ Rank[p] > Rank["constants"]
  BY DEF Rank, Places
<1>5. p = "nothing" => l = 0
  BY <1>3 DEF LayersOf
<1> QED
  BY <1>2, <1>3, <1>4, <1>5 DEF EndInv, GraphInv, PlaceInv, ToCome, LayersOf, Places

(* Of the graphs of five networks only the one that lacked a tensor is     *)
(* left, and a run ends only if it had every tensor it needed.             *)
THEOREM NoGraphLeftEver == Spec => []NoGraphLeft
<1>1. Init => EndInv
  BY EndInit
<1>2. EndInv /\ [Next]_vars => EndInv'
  BY GraphStep, PlaceStep DEF EndInv
<1>3. EndInv => NoGraphLeft
  <2> SUFFICES ASSUME EndInv, pc = "done" PROVE absent \in {<<"nothing", 0>>, <<"weights", 0>>}
    BY DEF EndInv, GraphInv, NoGraphLeft
  <2>1. PICK p \in Places \ {"done"}, l \in Nat : absent = <<p, l>>
    BY DEF EndInv, PlaceInv
  <2>2. Rank[p] < Rank["done"]
    BY DEF Rank, Places
  <2>3. absent[1] = p /\ Rank[p] \in Nat /\ Rank["done"] \in Nat
    BY <2>1 DEF Rank, Places
  <2> QED
    BY <2>2, <2>3 DEF EndInv, PlaceInv, ToCome
<1> QED
  BY <1>1, <1>2, <1>3, PTL DEF Spec

-----------------------------------------------------------------------------
(***************************************************************************)
(* Attention, whoever attends to whom: each row hears, in each head once,  *)
(* the rows that its mask lets through.                                    *)
(***************************************************************************)

LEMMA Extents ==
  /\ Height \in Nat \ {0} /\ Width \in Nat \ {0} /\ HW \in Nat \ {0} /\ Heads \in Nat \ {0}
  /\ HeadDim \in Nat \ {0} /\ C \in Nat \ {0} /\ C = Heads * HeadDim /\ C % 2 = 0 /\ 0 \in Channels
  /\ NumQueries \in Nat \ {0} /\ TextSeq \in Nat \ {0} /\ HW = Height * Width
  /\ EncoderLayers \in Nat \ {0} /\ DecoderLayers \in Nat \ {0} /\ Valid \subseteq 0 .. TextSeq - 1
<1>1. /\ Height \in Nat \ {0} /\ Width \in Nat \ {0} /\ Heads \in Nat \ {0} /\ HeadDim \in Nat \ {0}
      /\ NumQueries \in Nat \ {0} /\ TextSeq \in Nat \ {0} /\ C % 2 = 0
      /\ EncoderLayers \in Nat \ {0} /\ DecoderLayers \in Nat \ {0} /\ Valid \subseteq 0 .. TextSeq - 1
  BY DetectorAssumption DEF C
<1>2. Height * Width \in Nat \ {0} /\ Heads * HeadDim \in Nat \ {0}
  BY <1>1, Prod
<1>3. C \in Nat \ {0}
  BY <1>2 DEF C
<1> QED
  BY <1>1, <1>2, <1>3 DEF C, HW, Channels

(* The extents of a tensor of n rows, and of the same rows split in heads.  *)
RowsNe(n) == <<C, n, 1, 1>>
SplitNe(n) == <<HeadDim, Heads, n, 1>>

LEMMA RowShapes ==
  ASSUME NEW n \in Nat \ {0}
  PROVE  RowsNe(n) \in Shapes /\ SplitNe(n) \in Shapes
BY Extents DEF RowsNe, SplitNe, Shapes

(* Row s of t stands for id[s], and is placed at at[s].                    *)
Stands(t, pos, n, id, at) ==
  /\ t.ne = RowsNe(n)
  /\ \A s \in 0 .. n - 1 :
       /\ \A c \in Channels : At(t, c, s, 0, 0).id = id[s]
       /\ UNION {At(pos, c, s, 0, 0) : c \in Channels} = at[s]

Voice(id, at, s, h) == [of |-> {id[s]}, pos |-> at[s], heads |-> {h}]

LEMMA ProjectAt ==
  ASSUME NEW t, NEW pos, NEW n \in Nat \ {0}, NEW id, NEW at, Stands(t, pos, n, id, at),
         NEW c \in Channels, NEW s \in 0 .. n - 1
  PROVE  LET p == Project(t, pos)
         IN IsTensor(p) /\ p.ne = RowsNe(n) /\ At(p, c, s, 0, 0) = Voice(id, at, s, c \div HeadDim)
<1> DEFINE p == Project(t, pos)  ne == RowsNe(n)
           From(d, y, i2, i3) ==
             [of |-> {At(t, i, y, 0, 0).id : i \in Channels},
              pos |-> UNION {At(pos, i, y, 0, 0) : i \in Channels}, heads |-> {d \div HeadDim}]
<1>1. IsTensor(p) /\ p.ne = ne /\ p = Tensor(ne, From)
  <2>1. t.ne = ne
    BY DEF Stands
  <2>2. p = Tensor(t.ne, From)
    BY DEF Project
  <2> HIDE DEF p, From, ne
  <2>3. p = Tensor(ne, From)
    BY <2>1, <2>2
  <2> QED
    BY <2>3 DEF Tensor, IsTensor
<1>2. /\ ne \in Shapes /\ c \in 0 .. ne[1] - 1 /\ s \in 0 .. ne[2] - 1
      /\ 0 \in 0 .. ne[3] - 1 /\ 0 \in 0 .. ne[4] - 1
  BY RowShapes DEF RowsNe, Channels
<1>3. From(c, s, 0, 0) = Voice(id, at, s, c \div HeadDim)
  <2>1. {At(t, i, s, 0, 0).id : i \in Channels} = {id[s]}
    BY Extents DEF Stands
  <2> QED
    BY <2>1 DEF Stands, Voice
<1> HIDE DEF p, From, ne
<1>4. p.data = [x \in 0 .. Size(ne) - 1 |->
        From(x % ne[1], (x \div ne[1]) % ne[2], (x \div (ne[1] * ne[2])) % ne[3],
             x \div (ne[1] * ne[2] * ne[3]))]
  BY <1>1 DEF Tensor
<1>5. PICK x \in 0 .. Size(ne) - 1 :
        /\ At(p, c, s, 0, 0) = p.data[x]
        /\ x % ne[1] = c /\ (x \div ne[1]) % ne[2] = s /\ (x \div (ne[1] * ne[2])) % ne[3] = 0
        /\ x \div (ne[1] * ne[2] * ne[3]) = 0
  BY <1>1, <1>2, Lands
<1> QED
  BY <1>1, <1>3, <1>4, <1>5 DEF p, ne

(* Split in heads, with rows after heads, and with rows before them.       *)
LEMMA SplitAt ==
  ASSUME NEW t, NEW n \in Nat \ {0}, IsTensor(t), t.ne = RowsNe(n), NEW d \in 0 .. HeadDim - 1,
         NEW h \in 0 .. Heads - 1, NEW s \in 0 .. n - 1
  PROVE  LET u == Reshape(t, SplitNe(n))
             c == d + HeadDim * h
         IN /\ u.ne = SplitNe(n) /\ c \in Channels /\ c \div HeadDim = h
            /\ At(u, d, h, s, 0) = At(t, c, s, 0, 0)
<1> DEFINE u == Reshape(t, SplitNe(n))  c == d + HeadDim * h
<1>1. c \in Channels /\ c \div HeadDim = h /\ c \in Int
  <2>1. c \in 0 .. HeadDim * Heads - 1
    BY Extents, Below
  <2>2. c \div HeadDim = h
    BY Extents, DivMod
  <2> QED
    BY <2>1, <2>2, Extents DEF Channels
<1>2. Flat(SplitNe(n), d, h, s, 0) = Flat(RowsNe(n), c, s, 0, 0)
  <2>1. C = HeadDim * Heads
    BY Extents
  <2> QED
    BY <2>1, Extents DEF Flat, SplitNe, RowsNe
<1> HIDE DEF c
<1>3. u.ne = SplitNe(n) /\ At(u, d, h, s, 0) = At(t, c, s, 0, 0)
  BY <1>2, ReshapeAt
<1> QED
  BY <1>1, <1>3 DEF c

(* What a projection says of a row, where mha has put it: with the rows     *)
(* before the heads (q and k), or with them first (v).                      *)
HeadsNe(n) == <<HeadDim, n, Heads, 1>>
ValuesNe(n) == <<n, HeadDim, Heads, 1>>

Queried(u, n, id, at) ==
  /\ u.ne = HeadsNe(n)
  /\ \A d \in 0 .. HeadDim - 1, s \in 0 .. n - 1, h \in 0 .. Heads - 1 :
       At(u, d, s, h, 0) = Voice(id, at, s, h)

Valued(u, n, id, at) ==
  /\ u.ne = ValuesNe(n)
  /\ \A s \in 0 .. n - 1, d \in 0 .. HeadDim - 1, h \in 0 .. Heads - 1 :
       At(u, s, d, h, 0) = Voice(id, at, s, h)

LEMMA SpokenAt ==
  ASSUME NEW t, NEW pos, NEW n \in Nat \ {0}, NEW id, NEW at, Stands(t, pos, n, id, at)
  PROVE  LET u == Reshape(Project(t, pos), SplitNe(n))
         IN /\ u.ne = SplitNe(n)
            /\ \A d \in 0 .. HeadDim - 1, h \in 0 .. Heads - 1, s \in 0 .. n - 1 :
                 At(u, d, h, s, 0) = Voice(id, at, s, h)
<1> DEFINE p == Project(t, pos)  u == Reshape(p, SplitNe(n))
<1>1. 0 \in 0 .. n - 1 /\ 0 \in Channels
  BY Extents
<1>2. IsTensor(p) /\ p.ne = RowsNe(n)
  BY <1>1, ProjectAt
<1>3. \A c \in Channels, s \in 0 .. n - 1 : At(p, c, s, 0, 0) = Voice(id, at, s, c \div HeadDim)
  BY ProjectAt
<1> HIDE DEF p
<1>4. u.ne = SplitNe(n)
  BY DEF Reshape
<1>5. ASSUME NEW d \in 0 .. HeadDim - 1, NEW h \in 0 .. Heads - 1, NEW s \in 0 .. n - 1
      PROVE  At(u, d, h, s, 0) = Voice(id, at, s, h)
  <2> DEFINE c == d + HeadDim * h
  <2>1. c \in Channels /\ c \div HeadDim = h /\ At(u, d, h, s, 0) = At(p, c, s, 0, 0)
    BY <1>2, SplitAt
  <2> HIDE DEF c, u
  <2> QED
    BY <1>3, <2>1
<1> QED
  BY <1>4, <1>5 DEF p

LEMMA QueriedAt ==
  ASSUME NEW t, NEW pos, NEW n \in Nat \ {0}, NEW id, NEW at, Stands(t, pos, n, id, at)
  PROVE  Queried(Permute(Reshape(Project(t, pos), SplitNe(n)), 0, 2, 1, 3), n, id, at)
<1> DEFINE r == Reshape(Project(t, pos), SplitNe(n))  u == Permute(r, 0, 2, 1, 3)
<1>1. /\ r.ne = SplitNe(n)
      /\ \A d \in 0 .. HeadDim - 1, h \in 0 .. Heads - 1, s \in 0 .. n - 1 :
           At(r, d, h, s, 0) = Voice(id, at, s, h)
  BY SpokenAt
<1>2. r.ne \in Shapes
  BY <1>1, RowShapes
<1> HIDE DEF r
<1>3. /\ u.ne = <<r.ne[1], r.ne[3], r.ne[2], r.ne[4]>>
      /\ \A i0 \in 0 .. u.ne[1] - 1, i1 \in 0 .. u.ne[2] - 1,
            i2 \in 0 .. u.ne[3] - 1, i3 \in 0 .. u.ne[4] - 1 :
           At(u, i0, i1, i2, i3) = At(r, i0, i2, i1, i3)
  BY <1>2, Permute0213
<1> HIDE DEF u
<1>4. u.ne = HeadsNe(n)
  BY <1>1, <1>3 DEF SplitNe, HeadsNe
<1>5. u.ne[1] = HeadDim /\ u.ne[2] = n /\ u.ne[3] = Heads /\ 0 \in 0 .. u.ne[4] - 1
  BY <1>4 DEF HeadsNe
<1> QED
  BY <1>1, <1>3, <1>4, <1>5 DEF u, r, Queried

LEMMA ValuedAt ==
  ASSUME NEW t, NEW pos, NEW n \in Nat \ {0}, NEW id, NEW at, Stands(t, pos, n, id, at)
  PROVE  Valued(Permute(Reshape(Project(t, pos), SplitNe(n)), 1, 2, 0, 3), n, id, at)
<1> DEFINE r == Reshape(Project(t, pos), SplitNe(n))  u == Permute(r, 1, 2, 0, 3)
<1>1. /\ r.ne = SplitNe(n)
      /\ \A d \in 0 .. HeadDim - 1, h \in 0 .. Heads - 1, s \in 0 .. n - 1 :
           At(r, d, h, s, 0) = Voice(id, at, s, h)
  BY SpokenAt
<1>2. r.ne \in Shapes
  BY <1>1, RowShapes
<1> HIDE DEF r
<1>3. /\ u.ne = <<r.ne[3], r.ne[1], r.ne[2], r.ne[4]>>
      /\ \A i0 \in 0 .. u.ne[1] - 1, i1 \in 0 .. u.ne[2] - 1,
            i2 \in 0 .. u.ne[3] - 1, i3 \in 0 .. u.ne[4] - 1 :
           At(u, i0, i1, i2, i3) = At(r, i1, i2, i0, i3)
  BY <1>2, Permute1203
<1> HIDE DEF u
<1>4. u.ne = ValuesNe(n)
  BY <1>1, <1>3 DEF SplitNe, ValuesNe
<1>5. u.ne[1] = n /\ u.ne[2] = HeadDim /\ u.ne[3] = Heads /\ 0 \in 0 .. u.ne[4] - 1
  BY <1>4 DEF ValuesNe
<1> QED
  BY <1>1, <1>3, <1>4, <1>5 DEF u, r, Valued

(* The scores of n queries and m keys: in head h, row s met row r.  Who     *)
(* attends to whom is a record of the identities and places of the queries  *)
(* (id, at) and of the keys (kid, kat), with what the mask does.            *)
ScoresNe(m, n) == <<m, n, Heads, 1>>

Score(a, r, s, h) ==
  [by |-> {a.id[s]}, at |-> a.at[s], from |-> {a.kid[r]}, fromAt |-> a.kat[r], heads |-> {h},
   bias |-> {}, open |-> TRUE]

Scores(u, m, n, a) ==
  /\ u.ne = ScoresNe(m, n)
  /\ \A r \in 0 .. m - 1, s \in 0 .. n - 1, h \in 0 .. Heads - 1 :
       At(u, r, s, h, 0) = Score(a, r, s, h)

LEMMA ScoredAt ==
  ASSUME NEW q, NEW k, NEW n \in Nat \ {0}, NEW m \in Nat \ {0}, NEW a,
         Queried(q, n, a.id, a.at), Queried(k, m, a.kid, a.kat)
  PROVE  Scores(MulMat(k, q, Scored), m, n, a)
<1>0. ASSUME NEW r \in 0 .. m - 1, NEW s \in 0 .. n - 1, NEW h \in 0 .. Heads - 1
      PROVE  LET u == MulMat(k, q, Scored)
             IN u.ne = ScoresNe(m, n) /\ At(u, r, s, h, 0) = Score(a, r, s, h)
  <2> DEFINE u == MulMat(k, q, Scored)  ne == ScoresNe(m, n)
             From(o, i1, i2, i3) ==
               Scored({<<At(k, i0, o, i2 % k.ne[3], i3 % k.ne[4]), At(q, i0, i1, i2, i3)>> :
                       i0 \in 0 .. k.ne[1] - 1})
  <2>1. IsTensor(u) /\ u.ne = ne /\ u = Tensor(ne, From)
    <3>1. <<k.ne[2], q.ne[2], q.ne[3], q.ne[4]>> = ne
      BY DEF HeadsNe, ScoresNe, Queried
    <3>2. u = Tensor(<<k.ne[2], q.ne[2], q.ne[3], q.ne[4]>>, From)
      BY DEF MulMat
    <3> HIDE DEF u, From, ne
    <3>3. u = Tensor(ne, From)
      BY <3>1, <3>2
    <3> QED
      BY <3>3 DEF Tensor, IsTensor
  <2>2. /\ ne \in Shapes /\ r \in 0 .. ne[1] - 1 /\ s \in 0 .. ne[2] - 1
        /\ h \in 0 .. ne[3] - 1 /\ 0 \in 0 .. ne[4] - 1
    BY Extents DEF ScoresNe, Shapes
  <2>3. From(r, s, h, 0) = Score(a, r, s, h)
    <3> DEFINE ke == Voice(a.kid, a.kat, r, h)  qe == Voice(a.id, a.at, s, h)
               pairs == {<<At(k, i0, r, h % k.ne[3], 0 % k.ne[4]), At(q, i0, s, h, 0)>> :
                           i0 \in 0 .. k.ne[1] - 1}
    <3>1. k.ne[1] = HeadDim /\ h % k.ne[3] = h /\ 0 % k.ne[4] = 0 /\ 0 \in 0 .. HeadDim - 1
      BY Extents DEF HeadsNe, Queried
    <3>2. \A i0 \in 0 .. HeadDim - 1 : <<At(k, i0, r, h, 0), At(q, i0, s, h, 0)>> = <<ke, qe>>
      BY DEF Queried
    <3>3. pairs = {<<ke, qe>>}
      BY <3>1, <3>2
    <3>4. /\ ke.of = {a.kid[r]} /\ ke.pos = a.kat[r] /\ ke.heads = {h}
          /\ qe.of = {a.id[s]} /\ qe.pos = a.at[s] /\ qe.heads = {h}
      BY DEF Voice
    <3> HIDE DEF ke, qe
    <3>5. Scored({<<ke, qe>>}) = Score(a, r, s, h)
      <4> DEFINE P == {<<ke, qe>>}
      <4>0. \A S : UNION {S} = S
        OBVIOUS
      <4>1. UNION {x[2].of : x \in P} = qe.of /\ UNION {x[2].pos : x \in P} = qe.pos
        <5>1. {x[2].of : x \in P} = {qe.of} /\ {x[2].pos : x \in P} = {qe.pos}
          OBVIOUS
        <5> QED
          BY <4>0, <5>1
      <4>2. UNION {x[1].of : x \in P} = ke.of /\ UNION {x[1].pos : x \in P} = ke.pos
        <5>1. {x[1].of : x \in P} = {ke.of} /\ {x[1].pos : x \in P} = {ke.pos}
          OBVIOUS
        <5> QED
          BY <4>0, <5>1
      <4>3. UNION {x[1].heads \cup x[2].heads : x \in P} = {h}
        <5>1. {x[1].heads \cup x[2].heads : x \in P} = {ke.heads \cup qe.heads}
          OBVIOUS
        <5> QED
          BY <3>4, <5>1
      <4> HIDE DEF P
      <4>4. Scored(P) = Score(a, r, s, h)
        BY <3>4, <4>1, <4>2, <4>3 DEF Scored, Score
      <4> QED
        BY <4>4 DEF P
    <3> QED
      BY <3>3, <3>5
  <2> HIDE DEF u, From, ne
  <2>4. u.data = [x \in 0 .. Size(ne) - 1 |->
          From(x % ne[1], (x \div ne[1]) % ne[2], (x \div (ne[1] * ne[2])) % ne[3],
               x \div (ne[1] * ne[2] * ne[3]))]
    BY <2>1 DEF Tensor
  <2>5. PICK x \in 0 .. Size(ne) - 1 :
          /\ At(u, r, s, h, 0) = u.data[x]
          /\ x % ne[1] = r /\ (x \div ne[1]) % ne[2] = s /\ (x \div (ne[1] * ne[2])) % ne[3] = h
          /\ x \div (ne[1] * ne[2] * ne[3]) = 0
    BY <2>1, <2>2, Lands
  <2> QED
    BY <2>1, <2>3, <2>4, <2>5 DEF u, ne
<1>1. 0 \in 0 .. m - 1 /\ 0 \in 0 .. n - 1 /\ 0 \in 0 .. Heads - 1
  BY Extents
<1> QED
  BY <1>0, <1>1 DEF Scores

(* What a mask says of m keys and n queries: row s hears the rows of open,  *)
(* in its own head, and row r with bias[<<s, r>>].                         *)
Lets(mask, m, n, a) ==
  \A r \in 0 .. m - 1, s \in 0 .. n - 1, h \in 0 .. Heads - 1 :
    LET e == At(mask, r, s, h % mask.ne[3], 0)
    IN e.heads \subseteq {h} /\ e.open = (r \in a.open) /\ e.bias = a.bias[<<s, r>>]

Met(a, r, s, h) ==
  [by |-> {a.id[s]}, at |-> a.at[s], from |-> {a.kid[r]}, fromAt |-> a.kat[r], heads |-> {h},
   bias |-> a.bias[<<s, r>>], open |-> r \in a.open]

Probs(u, m, n, a) ==
  /\ u.ne = ScoresNe(m, n)
  /\ \A r \in 0 .. m - 1, s \in 0 .. n - 1, h \in 0 .. Heads - 1 :
       At(u, r, s, h, 0) = Met(a, r, s, h)

LEMMA MaskedAt ==
  ASSUME NEW t, NEW mask, NEW n \in Nat \ {0}, NEW m \in Nat \ {0}, NEW a,
         Scores(t, m, n, a), Lets(mask, m, n, a)
  PROVE  Probs(SoftMaxExt(t, mask, Masked), m, n, a)
<1>0. ASSUME NEW r \in 0 .. m - 1, NEW s \in 0 .. n - 1, NEW h \in 0 .. Heads - 1
      PROVE  LET u == SoftMaxExt(t, mask, Masked)
             IN u.ne = ScoresNe(m, n) /\ At(u, r, s, h, 0) = Met(a, r, s, h)
  <2> DEFINE u == SoftMaxExt(t, mask, Masked)  ne == ScoresNe(m, n)
             From(k, q, g, i3) == Masked(At(t, k, q, g, i3), At(mask, k, q, g % mask.ne[3], 0))
  <2>1. IsTensor(u) /\ u.ne = ne /\ u = Tensor(ne, From)
    <3>1. t.ne = ne
      BY DEF Scores
    <3>2. u = Tensor(t.ne, From)
      BY DEF SoftMaxExt
    <3> HIDE DEF u, From, ne
    <3>3. u = Tensor(ne, From)
      BY <3>1, <3>2
    <3> QED
      BY <3>3 DEF Tensor, IsTensor
  <2>2. /\ ne \in Shapes /\ r \in 0 .. ne[1] - 1 /\ s \in 0 .. ne[2] - 1
        /\ h \in 0 .. ne[3] - 1 /\ 0 \in 0 .. ne[4] - 1
    BY Extents DEF ScoresNe, Shapes
  <2>3. From(r, s, h, 0) = Met(a, r, s, h)
    <3> DEFINE e == At(mask, r, s, h % mask.ne[3], 0)  v == Score(a, r, s, h)
    <3>1. e.heads \subseteq {h} /\ e.open = (r \in a.open) /\ e.bias = a.bias[<<s, r>>]
      BY DEF Lets
    <3>2. At(t, r, s, h, 0) = v
      BY DEF Scores
    <3>3. v.heads \cup e.heads = {h}
      <4>1. v.heads = {h}
        BY DEF Score
      <4> QED
        BY <3>1, <4>1
    <3>4. Masked(v, e) = Met(a, r, s, h)
      <4> DEFINE w == Masked(v, e)
      <4>1. v.heads = {h}
        BY DEF Score
      <4>2. w = [by |-> {a.id[s]}, at |-> a.at[s], from |-> {a.kid[r]}, fromAt |-> a.kat[r],
                 heads |-> {h} \cup e.heads, bias |-> e.bias, open |-> e.open]
        <5> DEFINE b == {a.id[s]}  c == a.at[s]  f == {a.kid[r]}  g == a.kat[r]  j == {h}
        <5>1. v = [by |-> b, at |-> c, from |-> f, fromAt |-> g, heads |-> j, bias |-> {}, open |-> TRUE]
          BY DEF Score
        <5>2. w = Masked(v, e)
          OBVIOUS
        <5> HIDE DEF v, e, w, b, c, f, g, j
        <5>3. w = [by |-> b, at |-> c, from |-> f, fromAt |-> g, heads |-> j \cup e.heads, bias |-> e.bias,
                   open |-> e.open]
          BY <5>1, <5>2 DEF Masked
        <5> QED
          BY <5>3 DEF b, c, f, g, j
      <4> HIDE DEF e, v, w
      <4>3. w = Met(a, r, s, h)
        BY <3>1, <3>3, <4>1, <4>2 DEF Met
      <4> QED
        BY <4>3 DEF w
    <3> HIDE DEF e
    <3> QED
      BY <3>2, <3>4 DEF e
  <2> HIDE DEF u, From, ne
  <2>4. u.data = [x \in 0 .. Size(ne) - 1 |->
          From(x % ne[1], (x \div ne[1]) % ne[2], (x \div (ne[1] * ne[2])) % ne[3],
               x \div (ne[1] * ne[2] * ne[3]))]
    BY <2>1 DEF Tensor
  <2>5. PICK x \in 0 .. Size(ne) - 1 :
          /\ At(u, r, s, h, 0) = u.data[x]
          /\ x % ne[1] = r /\ (x \div ne[1]) % ne[2] = s /\ (x \div (ne[1] * ne[2])) % ne[3] = h
          /\ x \div (ne[1] * ne[2] * ne[3]) = 0
    BY <2>1, <2>2, Lands
  <2> QED
    BY <2>1, <2>3, <2>4, <2>5 DEF u, ne
<1>1. 0 \in 0 .. m - 1 /\ 0 \in 0 .. n - 1 /\ 0 \in 0 .. Heads - 1
  BY Extents
<1> QED
  BY <1>0, <1>1 DEF Probs

(* What row s of a head makes of the values: what it hears of each row that *)
(* is let through.                                                         *)
Heard(a, r, s, h) ==
  [heads |-> {h}, by |-> {a.id[s]}, at |-> a.at[s], from |-> {a.kid[r]}, fromAt |-> a.kat[r],
   values |-> {a.kid[r]}, bias |-> a.bias[<<s, r>>]]

HeardOf(a, s, h) == {Heard(a, r, s, h) : r \in a.open}

Answered(u, n, a) ==
  /\ u.ne = HeadsNe(n)
  /\ \A d \in 0 .. HeadDim - 1, s \in 0 .. n - 1, h \in 0 .. Heads - 1 :
       At(u, d, s, h, 0) = HeardOf(a, s, h)

LEMMA WeightedAt ==
  ASSUME NEW v, NEW p, NEW n \in Nat \ {0}, NEW m \in Nat \ {0}, NEW a, NEW vat,
         Valued(v, m, a.kid, vat), Probs(p, m, n, a), a.open \subseteq 0 .. m - 1
  PROVE  Answered(MulMat(v, p, Weighted), n, a)
<1>0. ASSUME NEW d \in 0 .. HeadDim - 1, NEW s \in 0 .. n - 1, NEW h \in 0 .. Heads - 1
      PROVE  LET u == MulMat(v, p, Weighted)
             IN u.ne = HeadsNe(n) /\ At(u, d, s, h, 0) = HeardOf(a, s, h)
  <2> DEFINE u == MulMat(v, p, Weighted)  ne == HeadsNe(n)
             From(o, i1, i2, i3) ==
               Weighted({<<At(v, i0, o, i2 % v.ne[3], i3 % v.ne[4]), At(p, i0, i1, i2, i3)>> :
                         i0 \in 0 .. v.ne[1] - 1})
  <2>1. IsTensor(u) /\ u.ne = ne /\ u = Tensor(ne, From)
    <3>1. <<v.ne[2], p.ne[2], p.ne[3], p.ne[4]>> = ne
      BY DEF HeadsNe, ScoresNe, ValuesNe, Valued, Probs
    <3>2. u = Tensor(<<v.ne[2], p.ne[2], p.ne[3], p.ne[4]>>, From)
      BY DEF MulMat
    <3> HIDE DEF u, From, ne
    <3>3. u = Tensor(ne, From)
      BY <3>1, <3>2
    <3> QED
      BY <3>3 DEF Tensor, IsTensor
  <2>2. /\ ne \in Shapes /\ d \in 0 .. ne[1] - 1 /\ s \in 0 .. ne[2] - 1
        /\ h \in 0 .. ne[3] - 1 /\ 0 \in 0 .. ne[4] - 1
    BY Extents DEF HeadsNe, Shapes
  <2>3. From(d, s, h, 0) = HeardOf(a, s, h)
    <3> DEFINE ve(r) == Voice(a.kid, vat, r, h)  pe(r) == Met(a, r, s, h)
               pairs == {<<At(v, i0, d, h % v.ne[3], 0 % v.ne[4]), At(p, i0, s, h, 0)>> :
                           i0 \in 0 .. v.ne[1] - 1}
               Told1(x) == [heads |-> x[1].heads \cup x[2].heads, by |-> x[2].by, at |-> x[2].at,
                            from |-> x[2].from, fromAt |-> x[2].fromAt, values |-> x[1].of,
                            bias |-> x[2].bias]
    <3>1. v.ne[1] = m /\ h % v.ne[3] = h /\ 0 % v.ne[4] = 0
      BY Extents DEF ValuesNe, Valued
    <3>2. \A r \in 0 .. m - 1 : At(v, r, d, h, 0) = ve(r) /\ At(p, r, s, h, 0) = pe(r)
      BY DEF Valued, Probs
    <3>3. pairs = {<<ve(r), pe(r)>> : r \in 0 .. m - 1}
      <4> HIDE DEF ve, pe
      <4> QED
        BY <3>1, <3>2
    <3>4. \A r \in 0 .. m - 1 : pe(r).open = (r \in a.open)
      BY DEF Met
    <3>5. ASSUME NEW r \in 0 .. m - 1
          PROVE  Told1(<<ve(r), pe(r)>>) = Heard(a, r, s, h)
      <4>1. {h} \cup {h} = {h}
        OBVIOUS
      <4> QED
        BY <4>1 DEF Voice, Met, Heard
    <3>6. Weighted(pairs) = {Told1(x) : x \in {y \in pairs : y[2].open}}
      BY DEF Weighted
    <3> HIDE DEF ve, pe, pairs, Told1
    <3>7. {Told1(x) : x \in {y \in pairs : y[2].open}} = {Heard(a, r, s, h) : r \in a.open}
      <4>1. {y \in pairs : y[2].open} = {<<ve(r), pe(r)>> : r \in a.open}
        <5>1. \A r \in 0 .. m - 1 : <<ve(r), pe(r)>>[2].open <=> r \in a.open
          BY <3>4
        <5> DEFINE both(r) == <<ve(r), pe(r)>>
        <5>2. pairs = {both(r) : r \in 0 .. m - 1} /\ \A r \in 0 .. m - 1 : both(r)[2].open <=> r \in a.open
          BY <3>3, <5>1
        <5> HIDE DEF both
        <5>3. {y \in pairs : y[2].open} = {both(r) : r \in a.open}
          BY <5>2
        <5> QED
          BY <5>3 DEF both
      <4>2. \A r \in a.open : Told1(<<ve(r), pe(r)>>) = Heard(a, r, s, h)
        BY <3>5
      <4> QED
        BY <4>1, <4>2
    <3> QED
      BY <3>6, <3>7 DEF pairs, HeardOf
  <2> HIDE DEF u, From, ne
  <2>4. u.data = [x \in 0 .. Size(ne) - 1 |->
          From(x % ne[1], (x \div ne[1]) % ne[2], (x \div (ne[1] * ne[2])) % ne[3],
               x \div (ne[1] * ne[2] * ne[3]))]
    BY <2>1 DEF Tensor
  <2>5. PICK x \in 0 .. Size(ne) - 1 :
          /\ At(u, d, s, h, 0) = u.data[x]
          /\ x % ne[1] = d /\ (x \div ne[1]) % ne[2] = s /\ (x \div (ne[1] * ne[2])) % ne[3] = h
          /\ x \div (ne[1] * ne[2] * ne[3]) = 0
    BY <2>1, <2>2, Lands
  <2> QED
    BY <2>1, <2>3, <2>4, <2>5 DEF u, ne
<1>1. 0 \in 0 .. HeadDim - 1 /\ 0 \in 0 .. n - 1 /\ 0 \in 0 .. Heads - 1
  BY Extents
<1> QED
  BY <1>0, <1>1 DEF Answered

LEMMA NoPosAt ==
  ASSUME NEW t, NEW n \in Nat \ {0}, t.ne = RowsNe(n), NEW c \in Channels, NEW s \in 0 .. n - 1
  PROVE  NoPos(t).ne = RowsNe(n) /\ At(NoPos(t), c, s, 0, 0) = {}
<1> DEFINE p == NoPos(t)  ne == RowsNe(n)
           From(i0, i1, i2, i3) == {}
<1>1. p.ne = ne /\ p = Tensor(ne, From)
  <2>1. p = Tensor(t.ne, From)
    BY DEF NoPos
  <2> HIDE DEF p, From, ne
  <2>2. p = Tensor(ne, From)
    BY <2>1 DEF ne
  <2> QED
    BY <2>2 DEF Tensor
<1>2. /\ ne \in Shapes /\ c \in 0 .. ne[1] - 1 /\ s \in 0 .. ne[2] - 1
      /\ 0 \in 0 .. ne[3] - 1 /\ 0 \in 0 .. ne[4] - 1
  BY RowShapes DEF RowsNe, Channels
<1> HIDE DEF p, ne
<1>3. p.data = [x \in 0 .. Size(ne) - 1 |-> {}]
  BY <1>1 DEF Tensor
<1>4. PICK x \in 0 .. Size(ne) - 1 : At(p, c, s, 0, 0) = p.data[x]
  <2>1. /\ p.ne \in Shapes /\ c \in 0 .. p.ne[1] - 1 /\ s \in 0 .. p.ne[2] - 1
        /\ 0 \in 0 .. p.ne[3] - 1 /\ 0 \in 0 .. p.ne[4] - 1
    BY <1>1, <1>2
  <2>2. \E x \in 0 .. Size(p.ne) - 1 : At(p, c, s, 0, 0) = p.data[x]
    BY <2>1, Lands
  <2> QED
    BY <1>1, <2>2
<1> QED
  BY <1>1, <1>3, <1>4 DEF p, ne

LEMMA StandsAlone ==
  ASSUME NEW t, NEW n \in Nat \ {0}, NEW id, t.ne = RowsNe(n),
         \A s \in 0 .. n - 1, c \in Channels : At(t, c, s, 0, 0).id = id[s]
  PROVE  Stands(t, NoPos(t), n, id, [s \in 0 .. n - 1 |-> {}])
<1>1. ASSUME NEW s \in 0 .. n - 1
      PROVE  UNION {At(NoPos(t), c, s, 0, 0) : c \in Channels} = {}
  <2>1. \A c \in Channels : At(NoPos(t), c, s, 0, 0) = {}
    BY NoPosAt
  <2> HIDE DEF NoPos
  <2> QED
    BY <2>1
<1> QED
  BY <1>1 DEF Stands

(* All that row s hears.                                                   *)
HearsAll(a, s) == {Heard(a, r, s, h) : h \in 0 .. Heads - 1, r \in a.open}

Attended(u, n, a) ==
  /\ u.ne = RowsNe(n) /\ IsTensor(u)
  /\ \A c \in Channels, s \in 0 .. n - 1 : At(u, c, s, 0, 0) = HearsAll(a, s)

Gathered(u, n, a) ==
  /\ u.ne = RowsNe(n)
  /\ \A c \in Channels, s \in 0 .. n - 1 : At(u, c, s, 0, 0) = HeardOf(a, s, c \div HeadDim)

LEMMA MhaAt ==
  ASSUME NEW q, NEW k, NEW v, NEW mask, NEW n \in Nat \ {0}, NEW m \in Nat \ {0}, NEW a, NEW vat,
         q.ne = RowsNe(n), k.ne = RowsNe(m),
         Queried(Permute(Reshape(q, SplitNe(n)), 0, 2, 1, 3), n, a.id, a.at),
         Queried(Permute(Reshape(k, SplitNe(m)), 0, 2, 1, 3), m, a.kid, a.kat),
         Valued(Permute(Reshape(v, SplitNe(m)), 1, 2, 0, 3), m, a.kid, vat),
         Lets(mask, m, n, a), a.open \subseteq 0 .. m - 1
  PROVE  Gathered(Mha(q, k, v, mask), n, a)
<1> DEFINE qh == Permute(Reshape(q, SplitNe(n)), 0, 2, 1, 3)
           kh == Permute(Reshape(k, SplitNe(m)), 0, 2, 1, 3)
           vh == Permute(Reshape(v, SplitNe(m)), 1, 2, 0, 3)
           scored == MulMat(kh, qh, Scored)
           probs == SoftMaxExt(scored, mask, Masked)
           w == MulMat(vh, probs, Weighted)
           x == Permute(w, 0, 2, 1, 3)
           u == Reshape(x, RowsNe(n))
<1>1. Mha(q, k, v, mask) = u
  <2>1. q.ne[2] = n /\ k.ne[2] = m
    BY DEF RowsNe
  <2> QED
    BY <2>1 DEF Mha, SplitNe, RowsNe
<1> HIDE DEF qh, kh, vh
<1>2. Scores(scored, m, n, a)
  BY ScoredAt DEF qh, kh
<1> HIDE DEF scored
<1>3. Probs(probs, m, n, a)
  BY <1>2, MaskedAt
<1> HIDE DEF probs
<1>4. Answered(w, n, a)
  <2>1. Valued(vh, m, a.kid, vat)
    BY DEF vh
  <2> QED
    BY <1>3, <2>1, WeightedAt
<1>5. w.ne = HeadsNe(n) /\ w.ne \in Shapes
  <2> HIDE DEF w
  <2>1. w.ne = HeadsNe(n)
    BY <1>4 DEF Answered
  <2> QED
    BY <2>1, Extents DEF HeadsNe, Shapes
<1> HIDE DEF w
<1>6. /\ IsTensor(x) /\ x.ne = <<w.ne[1], w.ne[3], w.ne[2], w.ne[4]>>
      /\ \A i0 \in 0 .. x.ne[1] - 1, i1 \in 0 .. x.ne[2] - 1,
            i2 \in 0 .. x.ne[3] - 1, i3 \in 0 .. x.ne[4] - 1 :
           At(x, i0, i1, i2, i3) = At(w, i0, i2, i1, i3)
  BY <1>5, Permute0213
<1>7. x.ne = SplitNe(n)
  BY <1>5, <1>6 DEF HeadsNe, SplitNe
<1> HIDE DEF x
<1>8. u.ne = RowsNe(n)
  BY DEF Reshape
<1>9. ASSUME NEW c \in Channels, NEW s \in 0 .. n - 1
      PROVE  At(u, c, s, 0, 0) = HeardOf(a, s, c \div HeadDim)
  <2> DEFINE d == c % HeadDim  h == c \div HeadDim
  <2>1. /\ d \in 0 .. HeadDim - 1 /\ h \in 0 .. Heads - 1 /\ c = d + HeadDim * h
        /\ c \in 0 .. HeadDim * Heads - 1
    <3>1. c \in 0 .. HeadDim * Heads - 1
      BY Extents DEF Channels
    <3> QED
      BY <3>1, Extents, Within
  <2> HIDE DEF d, h
  <2>2. At(u, c, s, 0, 0) = At(x, d, h, s, 0)
    <3>1. Flat(RowsNe(n), c, s, 0, 0) = Flat(SplitNe(n), d, h, s, 0)
      <4>1. C = HeadDim * Heads /\ s \in Int /\ c \in Int /\ d \in Int /\ h \in Int /\ n \in Int
            /\ HeadDim \in Int /\ Heads \in Int
        BY <2>1, Extents
      <4>2. HeadDim * (h + Heads * s) = HeadDim * h + (HeadDim * Heads) * s
        BY <4>1
      <4>3. Flat(RowsNe(n), c, s, 0, 0) = c + C * s
        BY <4>1, Extents DEF Flat, RowsNe
      <4>4. Flat(SplitNe(n), d, h, s, 0) = d + HeadDim * (h + Heads * s)
        BY <4>1 DEF Flat, SplitNe
      <4>5. HeadDim * h \in Int /\ (HeadDim * Heads) * s \in Int
        BY <4>1
      <4> QED
        BY <2>1, <4>1, <4>2, <4>3, <4>4, <4>5
    <3> QED
      BY <1>6, <1>7, <3>1, ReshapeAt
  <2>3. At(x, d, h, s, 0) = At(w, d, s, h, 0)
    <3>1. x.ne[1] = HeadDim /\ x.ne[2] = Heads /\ x.ne[3] = n /\ 0 \in 0 .. x.ne[4] - 1
      BY <1>7 DEF SplitNe
    <3> QED
      BY <1>6, <2>1, <3>1
  <2> QED
    BY <1>4, <2>1, <2>2, <2>3 DEF h, Answered
<1> HIDE DEF u
<1> QED
  BY <1>1, <1>8, <1>9 DEF Gathered

LEMMA AllHeads ==
  ASSUME NEW a, NEW s
  PROVE  UNION {HeardOf(a, s, c \div HeadDim) : c \in Channels} = HearsAll(a, s)
<1>1. ASSUME NEW h \in 0 .. Heads - 1
      PROVE  \E c \in Channels : c \div HeadDim = h
  <2> DEFINE c == 0 + HeadDim * h
  <2>1. 0 \in 0 .. HeadDim - 1 /\ C = HeadDim * Heads /\ HeadDim \in Nat \ {0} /\ Heads \in Nat \ {0}
    BY Extents
  <2>2. c \in 0 .. HeadDim * Heads - 1
    BY <2>1, Below
  <2>3. c \div HeadDim = h
    BY <2>1, DivMod
  <2> HIDE DEF c
  <2> QED
    BY <2>1, <2>2, <2>3 DEF Channels
<1>2. ASSUME NEW c \in Channels
      PROVE  c \div HeadDim \in 0 .. Heads - 1
  <2>1. c \in 0 .. HeadDim * Heads - 1
    BY Extents DEF Channels
  <2> QED
    BY <2>1, Extents, Within
<1>3. UNION {HeardOf(a, s, c \div HeadDim) : c \in Channels} = UNION {HeardOf(a, s, h) : h \in 0 .. Heads - 1}
  BY <1>1, <1>2
<1> QED
  BY <1>3 DEF HeardOf, HearsAll

LEMMA MergeAt ==
  ASSUME NEW t, NEW n \in Nat \ {0}, NEW a, Gathered(t, n, a)
  PROVE  Attended(Merge(t), n, a)
<1> DEFINE u == Merge(t)  ne == RowsNe(n)
           From(c, s, i2, i3) == UNION {At(t, i, s, 0, 0) : i \in Channels}
<1>1. IsTensor(u) /\ u.ne = ne /\ u = Tensor(ne, From)
  <2>1. u = Tensor(t.ne, From)
    BY DEF Merge
  <2>2. t.ne = ne
    BY DEF Gathered
  <2> HIDE DEF u, From, ne
  <2>3. u = Tensor(ne, From)
    BY <2>1, <2>2
  <2> QED
    BY <2>3 DEF Tensor, IsTensor
<1>2. \A c, s : s \in 0 .. n - 1 => From(c, s, 0, 0) = HearsAll(a, s)
  <2> TAKE c, s
  <2> HAVE s \in 0 .. n - 1
  <2>1. {At(t, i, s, 0, 0) : i \in Channels} = {HeardOf(a, s, i \div HeadDim) : i \in Channels}
    BY DEF Gathered
  <2> QED
    BY <2>1, AllHeads
<1> HIDE DEF u, From, ne
<1>3. u.data = [x \in 0 .. Size(ne) - 1 |->
        From(x % ne[1], (x \div ne[1]) % ne[2], (x \div (ne[1] * ne[2])) % ne[3],
             x \div (ne[1] * ne[2] * ne[3]))]
  BY <1>1 DEF Tensor
<1>4. ASSUME NEW c \in Channels, NEW s \in 0 .. n - 1
      PROVE  At(u, c, s, 0, 0) = HearsAll(a, s)
  <2>1. /\ u.ne \in Shapes /\ c \in 0 .. u.ne[1] - 1 /\ s \in 0 .. u.ne[2] - 1
        /\ 0 \in 0 .. u.ne[3] - 1 /\ 0 \in 0 .. u.ne[4] - 1
    BY <1>1, RowShapes DEF RowsNe, Channels, ne
  <2>2. PICK x \in 0 .. Size(u.ne) - 1 :
          /\ At(u, c, s, 0, 0) = u.data[x]
          /\ x % u.ne[1] = c /\ (x \div u.ne[1]) % u.ne[2] = s /\ (x \div (u.ne[1] * u.ne[2])) % u.ne[3] = 0
          /\ x \div (u.ne[1] * u.ne[2] * u.ne[3]) = 0
    BY <2>1, Lands
  <2>3. u.data[x] = From(c, s, 0, 0)
    BY <1>1, <1>3, <2>2
  <2> QED
    BY <1>2, <2>2, <2>3
<1> QED
  BY <1>1, <1>4 DEF u, ne, Attended

(* In every tensor of rows, each row hears what its audience says, each row *)
(* that is let through once in each head.                                  *)
LEMMA AttendAt ==
  ASSUME NEW t, NEW pos, NEW kv, NEW kpos, NEW mask, NEW n \in Nat \ {0}, NEW m \in Nat \ {0}, NEW a,
         Stands(t, pos, n, a.id, a.at), Stands(kv, kpos, m, a.kid, a.kat),
         Lets(mask, m, n, a), a.open \subseteq 0 .. m - 1
  PROVE  Attended(Attend(t, pos, kv, kpos, mask), n, a)
<1> DEFINE q == Project(t, pos)  k == Project(kv, kpos)  v == Project(kv, NoPos(kv))
           vat == [s \in 0 .. m - 1 |-> {}]
           u == Mha(q, k, v, mask)
<1>1. 0 \in Channels /\ 0 \in 0 .. n - 1 /\ 0 \in 0 .. m - 1
  BY Extents
<1>2. q.ne = RowsNe(n)
  <2>1. LET p == Project(t, pos)
        IN IsTensor(p) /\ p.ne = RowsNe(n) /\ At(p, 0, 0, 0, 0) = Voice(a.id, a.at, 0, 0 \div HeadDim)
    BY <1>1, ProjectAt
  <2> QED
    BY <2>1
<1>3. k.ne = RowsNe(m)
  <2>1. LET p == Project(kv, kpos)
        IN IsTensor(p) /\ p.ne = RowsNe(m) /\ At(p, 0, 0, 0, 0) = Voice(a.kid, a.kat, 0, 0 \div HeadDim)
    BY <1>1, ProjectAt
  <2> QED
    BY <2>1
<1>4. Stands(kv, NoPos(kv), m, a.kid, vat)
  <2>1. kv.ne = RowsNe(m) /\ \A s \in 0 .. m - 1, c \in Channels : At(kv, c, s, 0, 0).id = a.kid[s]
    BY DEF Stands
  <2> QED
    BY <2>1, StandsAlone
<1> HIDE DEF vat
<1>5. Queried(Permute(Reshape(q, SplitNe(n)), 0, 2, 1, 3), n, a.id, a.at)
  BY QueriedAt
<1>6. Queried(Permute(Reshape(k, SplitNe(m)), 0, 2, 1, 3), m, a.kid, a.kat)
  BY QueriedAt
<1>7. Valued(Permute(Reshape(v, SplitNe(m)), 1, 2, 0, 3), m, a.kid, vat)
  BY <1>4, ValuedAt
<1> HIDE DEF q, k, v
<1>8. Gathered(u, n, a)
  BY <1>2, <1>3, <1>5, <1>6, <1>7, MhaAt
<1> HIDE DEF u
<1>9. Attended(Merge(u), n, a)
  BY <1>8, MergeAt
<1> QED
  BY <1>9 DEF Attend, q, k, v, u

-----------------------------------------------------------------------------
(***************************************************************************)
(* What a row meets in a layer, and what becomes of it there.              *)
(***************************************************************************)

LEMMA MaskLets ==
  ASSUME NEW n \in Nat \ {0}, NEW m \in Nat \ {0}, NEW a,
         \A r \in 0 .. m - 1, s \in 0 .. n - 1 : a.bias[<<s, r>>] = {}
  PROVE  Lets(Mask(m, n, a.open), m, n, a)
<1> DEFINE u == Mask(m, n, a.open)  ne == <<m, n, 1, 1>>
           From(k, q, h, i3) == [open |-> k \in a.open, heads |-> {}, bias |-> {}]
<1>1. u.ne = ne /\ u = Tensor(ne, From)
  <2>1. u = Tensor(ne, From)
    BY DEF Mask
  <2> HIDE DEF u, From, ne
  <2> QED
    BY <2>1 DEF Tensor
<1>2. \A r, s : From(r, s, 0, 0) = [open |-> r \in a.open, heads |-> {}, bias |-> {}]
  OBVIOUS
<1>3. ne \in Shapes /\ ne[1] = m /\ ne[2] = n /\ ne[3] = 1 /\ ne[4] = 1
  BY DEF Shapes
<1> HIDE DEF u, From, ne
<1>4. u.data = [x \in 0 .. Size(ne) - 1 |->
        From(x % ne[1], (x \div ne[1]) % ne[2], (x \div (ne[1] * ne[2])) % ne[3],
             x \div (ne[1] * ne[2] * ne[3]))]
  BY <1>1 DEF Tensor
<1>5. ASSUME NEW r \in 0 .. m - 1, NEW s \in 0 .. n - 1, NEW h \in 0 .. Heads - 1
      PROVE  At(u, r, s, h % u.ne[3], 0) = [open |-> r \in a.open, heads |-> {}, bias |-> {}]
  <2>1. h % u.ne[3] = 0
    BY <1>1, <1>3, Extents
  <2>2. /\ u.ne \in Shapes /\ r \in 0 .. u.ne[1] - 1 /\ s \in 0 .. u.ne[2] - 1
        /\ 0 \in 0 .. u.ne[3] - 1 /\ 0 \in 0 .. u.ne[4] - 1
    BY <1>1, <1>3
  <2>3. PICK x \in 0 .. Size(u.ne) - 1 :
          /\ At(u, r, s, 0, 0) = u.data[x]
          /\ x % u.ne[1] = r /\ (x \div u.ne[1]) % u.ne[2] = s /\ (x \div (u.ne[1] * u.ne[2])) % u.ne[3] = 0
          /\ x \div (u.ne[1] * u.ne[2] * u.ne[3]) = 0
    BY <2>2, Lands
  <2>4. u.data[x] = From(r, s, 0, 0)
    BY <1>1, <1>4, <2>3
  <2> QED
    BY <1>2, <2>1, <2>3, <2>4
<1>6. ASSUME NEW r \in 0 .. m - 1, NEW s \in 0 .. n - 1, NEW h \in 0 .. Heads - 1
      PROVE  LET e == At(u, r, s, h % u.ne[3], 0)
             IN e.heads \subseteq {h} /\ e.open = (r \in a.open) /\ e.bias = a.bias[<<s, r>>]
  <2> DEFINE e == At(u, r, s, h % u.ne[3], 0)
  <2>1. e = [open |-> r \in a.open, heads |-> {}, bias |-> {}]
    BY <1>5
  <2> HIDE DEF e
  <2>2. e.open = (r \in a.open)
    BY <2>1
  <2>3. e.heads = {} /\ e.bias = {}
    BY <2>1
  <2> QED
    BY <2>2, <2>3 DEF e
<1> QED
  BY <1>6 DEF Lets, u

(* A tensor of rows that stand for the rows of a function, and one that     *)
(* says the same in all channels of a row.                                 *)
RowElement(row, c) == [id |-> row.id, chan |-> c, self |-> row.self, text |-> row.text, vision |-> row.vision]

Rows(t, n, rows) ==
  /\ IsTensor(t) /\ t.ne = RowsNe(n) /\ DOMAIN t.data = 0 .. Size(RowsNe(n)) - 1
  /\ \A c \in Channels, s \in 0 .. n - 1 : At(t, c, s, 0, 0) = RowElement(rows[s], c)

Says(t, n, f) ==
  t.ne = RowsNe(n) /\ \A c \in Channels, s \in 0 .. n - 1 : At(t, c, s, 0, 0) = f[s]

LEMMA AttendedSays ==
  ASSUME NEW u, NEW n \in Nat \ {0}, NEW a, NEW f, Attended(u, n, a),
         \A s \in 0 .. n - 1 : HearsAll(a, s) = f[s]
  PROVE  Says(u, n, f)
BY DEF Attended, Says

LEMMA NoPosSays ==
  ASSUME NEW t, NEW n \in Nat \ {0}, t.ne = RowsNe(n)
  PROVE  Says(NoPos(t), n, [s \in 0 .. n - 1 |-> {}])
<1>1. \A c \in Channels, s \in 0 .. n - 1 : NoPos(t).ne = RowsNe(n) /\ At(NoPos(t), c, s, 0, 0) = {}
  BY NoPosAt
<1>2. 0 \in Channels /\ 0 \in 0 .. n - 1
  BY Extents
<1> HIDE DEF NoPos
<1> QED
  BY <1>1, <1>2 DEF Says

NextRow(row, self, txt, vision) ==
  [id |-> NextId(row.id), self |-> self, text |-> txt, vision |-> vision]

LEMMA LayeredRows ==
  ASSUME NEW t, NEW self, NEW txt, NEW vision, NEW n \in Nat \ {0}, NEW rows, NEW S, NEW X, NEW V,
         Rows(t, n, rows), Says(self, n, S), Says(txt, n, X), Says(vision, n, V)
  PROVE  Rows(Layered(t, self, txt, vision), n,
              [s \in 0 .. n - 1 |-> NextRow(rows[s], S[s], X[s], V[s])])
<1> DEFINE u == Layered(t, self, txt, vision)  ne == RowsNe(n)
           Becomes(e, i) == [e EXCEPT !.id = NextId(e.id), !.self = self.data[i], !.text = txt.data[i],
                                      !.vision = vision.data[i]]
           data == [i \in DOMAIN t.data |-> Becomes(t.data[i], i)]
<1>1. u = [ne |-> ne, data |-> data]
  <2>1. t = [ne |-> ne, data |-> t.data]
    BY DEF Rows, IsTensor
  <2>2. u = [t EXCEPT !.data = data]
    BY DEF Layered
  <2> HIDE DEF u, ne, data
  <2> QED
    BY <2>1, <2>2
<1>2. IsTensor(u) /\ u.ne = ne /\ u.data = data
  <2> HIDE DEF u, ne, data
  <2> QED
    BY <1>1 DEF IsTensor
<1>3. DOMAIN data = 0 .. Size(ne) - 1 /\ DOMAIN t.data = 0 .. Size(ne) - 1
  BY DEF Rows
<1>4. ASSUME NEW c \in Channels, NEW s \in 0 .. n - 1
      PROVE  At(u, c, s, 0, 0) = RowElement(NextRow(rows[s], S[s], X[s], V[s]), c)
  <2> DEFINE i == Flat(ne, c, s, 0, 0)
  <2>1. i \in 0 .. Size(ne) - 1
    <3>1. /\ ne \in Shapes /\ c \in 0 .. ne[1] - 1 /\ s \in 0 .. ne[2] - 1
          /\ 0 \in 0 .. ne[3] - 1 /\ 0 \in 0 .. ne[4] - 1
      BY RowShapes DEF RowsNe, Channels
    <3> HIDE DEF ne
    <3> QED
      BY <3>1, FlatOf
  <2>2. /\ At(u, c, s, 0, 0) = data[i] /\ At(t, c, s, 0, 0) = t.data[i]
        /\ At(self, c, s, 0, 0) = self.data[i] /\ At(txt, c, s, 0, 0) = txt.data[i]
        /\ At(vision, c, s, 0, 0) = vision.data[i]
    BY <1>2, AtFlat DEF Rows, Says
  <2>3. /\ t.data[i] = RowElement(rows[s], c)
        /\ self.data[i] = S[s] /\ txt.data[i] = X[s] /\ vision.data[i] = V[s]
    BY <2>2 DEF Rows, Says
  <2>4. data[i] = Becomes(t.data[i], i)
    BY <1>3, <2>1
  <2> HIDE DEF i, data
  <2> DEFINE e == t.data[i]  f == Becomes(e, i)
  <2>5. f = [id |-> NextId(rows[s].id), chan |-> c, self |-> S[s], text |-> X[s], vision |-> V[s]]
    <3>1. e = [id |-> rows[s].id, chan |-> c, self |-> rows[s].self, text |-> rows[s].text,
               vision |-> rows[s].vision]
      BY <2>3 DEF RowElement
    <3>2. f = [e EXCEPT !.id = NextId(rows[s].id), !.self = S[s], !.text = X[s], !.vision = V[s]]
      BY <2>3 DEF RowElement
    <3> HIDE DEF e, f
    <3> QED
      BY <3>1, <3>2
  <2>6. RowElement(NextRow(rows[s], S[s], X[s], V[s]), c)
          = [id |-> NextId(rows[s].id), chan |-> c, self |-> S[s], text |-> X[s], vision |-> V[s]]
    BY DEF RowElement, NextRow
  <2> QED
    BY <2>2, <2>4, <2>5, <2>6
<1> HIDE DEF data, u
<1> QED
  BY <1>2, <1>3, <1>4 DEF Rows, u

LEMMA NextIdIs ==
  /\ \A q, k : NextId(<<q, k>>) = <<q, k + 1>>
  /\ \A y, x, k : NextId(<<y, x, k>>) = <<y, x, k + 1>>
<1>1. ASSUME NEW q, NEW k
      PROVE  NextId(<<q, k>>) = <<q, k + 1>>
  <2> DEFINE v == <<q, k>>  w == [v EXCEPT ![2] = k + 1]
  <2>1. NextId(v) = w
    <3>1. Len(v) = 2 /\ v[2] = k
      OBVIOUS
    <3> HIDE DEF v
    <3> QED
      BY <3>1 DEF NextId
  <2>2. w = <<q, k + 1>>
    <3> HIDE DEF w
    <3> QED
      BY DEF w
  <2> QED
    BY <2>1, <2>2
<1>2. ASSUME NEW y, NEW x, NEW k
      PROVE  NextId(<<y, x, k>>) = <<y, x, k + 1>>
  <2> DEFINE v == <<y, x, k>>  w == [v EXCEPT ![3] = k + 1]
  <2>1. NextId(v) = w
    <3>1. Len(v) = 3 /\ v[3] = k
      OBVIOUS
    <3> HIDE DEF v
    <3> QED
      BY <3>1 DEF NextId
  <2>2. w = <<y, x, k + 1>>
    <3> HIDE DEF w
    <3> QED
      BY DEF w
  <2> QED
    BY <2>1, <2>2
<1> QED
  BY <1>1, <1>2

-----------------------------------------------------------------------------
(***************************************************************************)
(* Pixels and the encoder.                                                 *)
(***************************************************************************)

(* Row s of HW rows is this pixel.                                         *)
PixelOf(s) == <<s \div Width, s % Width>>

LEMMA PixelOfAll ==
  /\ \A s \in 0 .. HW - 1 : PixelOf(s) \in Told!Pixels
  /\ \A p \in Told!Pixels : /\ p[1] * Width + p[2] \in 0 .. HW - 1
                            /\ PixelOf(p[1] * Width + p[2]) = p
<1>1. ASSUME NEW s \in 0 .. HW - 1
      PROVE  PixelOf(s) \in Told!Pixels
  <2>1. s \in 0 .. Width * Height - 1
    BY Extents
  <2>2. s \div Width \in 0 .. Height - 1 /\ s % Width \in 0 .. Width - 1
    BY <2>1, Extents, Within
  <2> QED
    BY <2>2 DEF PixelOf, Told!Pixels
<1>2. ASSUME NEW p \in Told!Pixels
      PROVE  p[1] * Width + p[2] \in 0 .. HW - 1 /\ PixelOf(p[1] * Width + p[2]) = p
  <2>1. p[1] \in 0 .. Height - 1 /\ p[2] \in 0 .. Width - 1 /\ p = <<p[1], p[2]>>
    BY DEF Told!Pixels
  <2>2. p[2] + Width * p[1] \in 0 .. Width * Height - 1
    BY <2>1, Extents, Below
  <2>3. (p[2] + Width * p[1]) \div Width = p[1] /\ (p[2] + Width * p[1]) % Width = p[2]
    BY <2>1, Extents, DivMod
  <2>4. p[1] * Width + p[2] = p[2] + Width * p[1] /\ Width * Height = HW
    BY <2>1, Extents
  <2> QED
    BY <2>1, <2>2, <2>3, <2>4 DEF PixelOf
<1> QED
  BY <1>1, <1>2

LEMMA VisionPosAt ==
  ASSUME NEW s \in 0 .. HW - 1
  PROVE  UNION {At(VisionPos, c, s, 0, 0) : c \in Channels} = Told!PixelPos(PixelOf(s))
<1> DEFINE u == VisionPos  ne == RowsNe(HW)  half == C \div 2
           From(k, row, i2, i3) ==
             {IF k < half THEN <<"y", row \div Width>> ELSE <<"x", row % Width>>}
<1>1. u.ne = ne /\ u = Tensor(ne, From)
  <2>1. u = Tensor(ne, From)
    BY DEF VisionPos, RowsNe
  <2> HIDE DEF u, From, ne
  <2> QED
    BY <2>1 DEF Tensor
<1>2. half \in 0 .. C - 1 /\ 0 < half
  BY Extents
<1>3. \A c : From(c, s, 0, 0) = {IF c < half THEN <<"y", s \div Width>> ELSE <<"x", s % Width>>}
  OBVIOUS
<1> HIDE DEF u, From, ne, half
<1>4. u.data = [x \in 0 .. Size(ne) - 1 |->
        From(x % ne[1], (x \div ne[1]) % ne[2], (x \div (ne[1] * ne[2])) % ne[3],
             x \div (ne[1] * ne[2] * ne[3]))]
  BY <1>1 DEF Tensor
<1>5. ASSUME NEW c \in Channels
      PROVE  At(u, c, s, 0, 0) = {IF c < half THEN <<"y", s \div Width>> ELSE <<"x", s % Width>>}
  <2>1. /\ u.ne \in Shapes /\ c \in 0 .. u.ne[1] - 1 /\ s \in 0 .. u.ne[2] - 1
        /\ 0 \in 0 .. u.ne[3] - 1 /\ 0 \in 0 .. u.ne[4] - 1
    BY <1>1, Extents, RowShapes DEF RowsNe, Channels, ne
  <2>2. PICK x \in 0 .. Size(u.ne) - 1 :
          /\ At(u, c, s, 0, 0) = u.data[x]
          /\ x % u.ne[1] = c /\ (x \div u.ne[1]) % u.ne[2] = s /\ (x \div (u.ne[1] * u.ne[2])) % u.ne[3] = 0
          /\ x \div (u.ne[1] * u.ne[2] * u.ne[3]) = 0
    BY <2>1, Lands
  <2>3. u.data[x] = From(c, s, 0, 0)
    BY <1>1, <1>4, <2>2
  <2> QED
    BY <1>3, <2>2, <2>3
<1>6. 0 \in Channels /\ half \in Channels /\ ~ (half < half)
  BY <1>2, Extents DEF Channels
<1> DEFINE yy == <<"y", s \div Width>>  xx == <<"x", s % Width>>
<1>7. At(u, 0, s, 0, 0) = {yy} /\ At(u, half, s, 0, 0) = {xx}
  BY <1>2, <1>5, <1>6
<1>8. \A c \in Channels : At(u, c, s, 0, 0) \in {{yy}, {xx}}
  BY <1>5
<1>9. Told!PixelPos(PixelOf(s)) = {yy, xx}
  BY DEF Told!PixelPos, PixelOf
<1> HIDE DEF yy, xx
<1>10. {At(u, c, s, 0, 0) : c \in Channels} = {{yy}, {xx}}
  BY <1>6, <1>7, <1>8
<1>11. UNION {{yy}, {xx}} = {yy, xx}
  OBVIOUS
<1> QED
  BY <1>9, <1>10, <1>11 DEF u

(* A feature level as the vision encoder hands it on.                      *)
LevelNe(l) == <<Width * Scale(l), Height * Scale(l), C, 1>>

LEMMA ScaleIs == Scale(0) = 4 /\ Scale(1) = 2 /\ Scale(2) = 1
BY DEF Scale

LEMMA LevelShapes ==
  ASSUME NEW l \in 0 .. 2
  PROVE  LevelNe(l) \in Shapes /\ Width * Scale(l) \in Nat \ {0} /\ Height * Scale(l) \in Nat \ {0}
<1>1. Scale(l) \in Nat \ {0}
  BY ScaleIs
<1>2. Width * Scale(l) \in Nat \ {0} /\ Height * Scale(l) \in Nat \ {0}
  BY <1>1, Extents, Prod
<1> QED
  BY <1>2, Extents DEF LevelNe, Shapes

LEMMA BackboneAt ==
  ASSUME NEW l \in 0 .. 2
  PROVE  /\ IsTensor(Backbone(l)) /\ Backbone(l).ne = LevelNe(l)
         /\ DOMAIN Backbone(l).data = 0 .. Size(LevelNe(l)) - 1
         /\ \A x \in 0 .. Width * Scale(l) - 1, y \in 0 .. Height * Scale(l) - 1, c \in Channels :
              At(Backbone(l), x, y, c, 0) = LevelPixel(<<l, y, x>>, {}, c)
<1> DEFINE u == Backbone(l)  ne == LevelNe(l)
           From(w, h, c, n) == LevelPixel(<<l, h, w>>, {}, c)
<1>1. u.ne = ne /\ u = Tensor(ne, From)
  <2>1. u = Tensor(ne, From)
    BY DEF Backbone, LevelNe
  <2> HIDE DEF u, From, ne
  <2> QED
    BY <2>1 DEF Tensor
<1>2. \A x, y, c : From(x, y, c, 0) = LevelPixel(<<l, y, x>>, {}, c)
  OBVIOUS
<1> HIDE DEF u, From, ne
<1>3. /\ IsTensor(u)
      /\ u.data = [x \in 0 .. Size(ne) - 1 |->
           From(x % ne[1], (x \div ne[1]) % ne[2], (x \div (ne[1] * ne[2])) % ne[3],
                x \div (ne[1] * ne[2] * ne[3]))]
  BY <1>1 DEF Tensor, IsTensor
<1>4. ASSUME NEW x \in 0 .. Width * Scale(l) - 1, NEW y \in 0 .. Height * Scale(l) - 1, NEW c \in Channels
      PROVE  At(u, x, y, c, 0) = LevelPixel(<<l, y, x>>, {}, c)
  <2>1. /\ u.ne \in Shapes /\ x \in 0 .. u.ne[1] - 1 /\ y \in 0 .. u.ne[2] - 1
        /\ c \in 0 .. u.ne[3] - 1 /\ 0 \in 0 .. u.ne[4] - 1
    BY <1>1, LevelShapes DEF LevelNe, Channels, ne
  <2>2. PICK i \in 0 .. Size(u.ne) - 1 :
          /\ At(u, x, y, c, 0) = u.data[i]
          /\ i % u.ne[1] = x /\ (i \div u.ne[1]) % u.ne[2] = y /\ (i \div (u.ne[1] * u.ne[2])) % u.ne[3] = c
          /\ i \div (u.ne[1] * u.ne[2] * u.ne[3]) = 0
    BY <2>1, Lands
  <2>3. u.data[i] = From(x, y, c, 0)
    BY <1>1, <1>3, <2>2
  <2> QED
    BY <1>2, <2>2, <2>3
<1> QED
  BY <1>1, <1>3, <1>4 DEF u, ne

(* What the rows of the encoder are after some of its layers.              *)
EncRow(p, depth) ==
  IF depth = 0 THEN Told!Row(Told!PixelId(p, 0), {}, {}, {}) ELSE Told!EncodedRow(p, depth)

EncRows(depth) == [s \in 0 .. HW - 1 |-> EncRow(PixelOf(s), depth)]

LEMMA FeaturesAreRows == Rows(VisionFeatures, HW, EncRows(0))
<1> DEFINE u == VisionFeatures  ne == RowsNe(HW)  bb2 == Backbone(2).data
           From(c, t, i2, i3) ==
             LET at == CHOOSE x \in bb2[c * HW + t].layers : TRUE
             IN Element(<<at[2], at[3], 0>>, bb2[c * HW + t].chan)
<1>1. u.ne = ne /\ u = Tensor(ne, From)
  <2>1. u = Tensor(ne, From)
    BY DEF VisionFeatures, RowsNe
  <2> HIDE DEF u, From, ne
  <2> QED
    BY <2>1 DEF Tensor
<1>2. ASSUME NEW c \in Channels, NEW s \in 0 .. HW - 1
      PROVE  From(c, s, 0, 0) = Element(<<s \div Width, s % Width, 0>>, c)
  <2> DEFINE y == s \div Width  x == s % Width  b == Backbone(2)
  <2>1. y \in 0 .. Height - 1 /\ x \in 0 .. Width - 1 /\ s = x + Width * y
    <3>1. s \in 0 .. Width * Height - 1
      BY Extents
    <3> QED
      BY <3>1, Extents, Within
  <2> HIDE DEF x, y
  <2>2. b.ne = <<Width, Height, C, 1>> /\ At(b, x, y, c, 0) = LevelPixel(<<2, y, x>>, {}, c)
    <3>1. LevelNe(2) = <<Width, Height, C, 1>> /\ Width * Scale(2) = Width /\ Height * Scale(2) = Height
      BY ScaleIs, Extents DEF LevelNe
    <3>2. /\ b.ne = LevelNe(2)
          /\ \A i \in 0 .. Width * Scale(2) - 1, j \in 0 .. Height * Scale(2) - 1, d \in Channels :
               At(b, i, j, d, 0) = LevelPixel(<<2, j, i>>, {}, d)
      BY BackboneAt
    <3> HIDE DEF b
    <3> QED
      BY <2>1, <3>1, <3>2
  <2>3. Flat(<<Width, Height, C, 1>>, x, y, c, 0) = c * HW + s
    <3>1. Width \in Int /\ Height \in Int /\ C \in Int /\ x \in Int /\ y \in Int /\ c \in Int
      BY <2>1, Extents DEF Channels
    <3>2. Flat(<<Width, Height, C, 1>>, x, y, c, 0) = x + Width * (y + Height * c)
      BY <3>1 DEF Flat
    <3>3. Width * (y + Height * c) = Width * y + c * (Height * Width)
      BY <3>1
    <3>4. Width * y \in Int /\ c * (Height * Width) \in Int
      BY <3>1
    <3> QED
      BY <2>1, <3>1, <3>2, <3>3, <3>4, Extents
  <2>4. bb2[c * HW + s] = LevelPixel(<<2, y, x>>, {}, c)
    BY <2>2, <2>3, AtFlat
  <2> HIDE DEF bb2, b
  <2> DEFINE e == bb2[c * HW + s]
  <2>5. e.layers = {<<2, y, x>>} /\ e.chan = c
    BY <2>4 DEF LevelPixel
  <2> HIDE DEF e
  <2>6. (CHOOSE z \in e.layers : TRUE) = <<2, y, x>>
    BY <2>5
  <2>7. From(c, s, 0, 0) = Element(<<y, x, 0>>, c)
    BY <2>5, <2>6 DEF e
  <2> QED
    BY <2>7 DEF x, y
<1>3. ASSUME NEW c \in Channels, NEW s \in 0 .. HW - 1
      PROVE  Element(<<s \div Width, s % Width, 0>>, c) = RowElement(EncRows(0)[s], c)
  <2> DEFINE id == <<s \div Width, s % Width, 0>>
  <2>1. Told!PixelId(PixelOf(s), 0) = id
    BY DEF Told!PixelId, PixelOf
  <2> HIDE DEF id
  <2>2. EncRows(0)[s] = [id |-> id, self |-> {}, text |-> {}, vision |-> {}]
    BY <2>1 DEF EncRows, EncRow, Told!Row
  <2>3. Element(id, c) = RowElement(EncRows(0)[s], c)
    BY <2>2 DEF Element, RowElement
  <2> QED
    BY <2>3 DEF id
<1> HIDE DEF u, From, ne
<1>4. /\ IsTensor(u)
      /\ u.data = [x \in 0 .. Size(ne) - 1 |->
           From(x % ne[1], (x \div ne[1]) % ne[2], (x \div (ne[1] * ne[2])) % ne[3],
                x \div (ne[1] * ne[2] * ne[3]))]
  BY <1>1 DEF Tensor, IsTensor
<1>5. ASSUME NEW c \in Channels, NEW s \in 0 .. HW - 1
      PROVE  At(u, c, s, 0, 0) = RowElement(EncRows(0)[s], c)
  <2>1. /\ u.ne \in Shapes /\ c \in 0 .. u.ne[1] - 1 /\ s \in 0 .. u.ne[2] - 1
        /\ 0 \in 0 .. u.ne[3] - 1 /\ 0 \in 0 .. u.ne[4] - 1
    BY <1>1, Extents, RowShapes DEF RowsNe, Channels, ne
  <2>2. PICK i \in 0 .. Size(u.ne) - 1 :
          /\ At(u, c, s, 0, 0) = u.data[i]
          /\ i % u.ne[1] = c /\ (i \div u.ne[1]) % u.ne[2] = s /\ (i \div (u.ne[1] * u.ne[2])) % u.ne[3] = 0
          /\ i \div (u.ne[1] * u.ne[2] * u.ne[3]) = 0
    BY <2>1, Lands
  <2>3. u.data[i] = From(c, s, 0, 0)
    BY <1>1, <1>4, <2>2
  <2> QED
    BY <1>2, <1>3, <2>2, <2>3
<1> QED
  BY <1>1, <1>4, <1>5 DEF Rows, u, ne

(* A tensor of rows as the bridges make it.                                *)
Bridged(u, n, id) ==
  /\ IsTensor(u) /\ u.ne = RowsNe(n)
  /\ u.data = [x \in 0 .. Size(RowsNe(n)) - 1 |-> Element(id[(x \div C) % n], x % C)]

LEMMA BridgedRows ==
  ASSUME NEW n \in Nat \ {0}, NEW u, NEW id, Bridged(u, n, id)
  PROVE  Rows(u, n, [s \in 0 .. n - 1 |-> Told!Row(id[s], {}, {}, {})])
<1>1. ASSUME NEW c \in Channels, NEW s \in 0 .. n - 1
      PROVE  At(u, c, s, 0, 0) = RowElement(Told!Row(id[s], {}, {}, {}), c)
  <2>1. /\ u.ne \in Shapes /\ c \in 0 .. u.ne[1] - 1 /\ s \in 0 .. u.ne[2] - 1
        /\ 0 \in 0 .. u.ne[3] - 1 /\ 0 \in 0 .. u.ne[4] - 1 /\ u.ne[1] = C /\ u.ne[2] = n
    BY RowShapes DEF RowsNe, Channels, Bridged
  <2>2. PICK i \in 0 .. Size(u.ne) - 1 :
          /\ At(u, c, s, 0, 0) = u.data[i]
          /\ i % u.ne[1] = c /\ (i \div u.ne[1]) % u.ne[2] = s /\ (i \div (u.ne[1] * u.ne[2])) % u.ne[3] = 0
          /\ i \div (u.ne[1] * u.ne[2] * u.ne[3]) = 0
    BY <2>1, Lands
  <2>3. u.data[i] = Element(id[s], c)
    BY <2>1, <2>2 DEF Bridged
  <2>4. Element(id[s], c) = RowElement(Told!Row(id[s], {}, {}, {}), c)
    BY DEF Element, RowElement, Told!Row
  <2> QED
    BY <2>2, <2>3, <2>4
<1> QED
  BY <1>1 DEF Rows, Bridged

LEMMA RowsStand ==
  ASSUME NEW t, NEW pos, NEW n \in Nat \ {0}, NEW rows, NEW id, NEW at, Rows(t, n, rows),
         \A s \in 0 .. n - 1 : rows[s].id = id[s],
         \A s \in 0 .. n - 1 : UNION {At(pos, c, s, 0, 0) : c \in Channels} = at[s]
  PROVE  Stands(t, pos, n, id, at)
<1>1. ASSUME NEW s \in 0 .. n - 1, NEW c \in Channels
      PROVE  At(t, c, s, 0, 0).id = id[s]
  BY DEF Rows, RowElement
<1> QED
  BY <1>1 DEF Stands, Rows

LEMMA RowsAlone ==
  ASSUME NEW t, NEW n \in Nat \ {0}, NEW rows, NEW id, Rows(t, n, rows),
         \A s \in 0 .. n - 1 : rows[s].id = id[s]
  PROVE  Stands(t, NoPos(t), n, id, [s \in 0 .. n - 1 |-> {}])
<1>1. \A s \in 0 .. n - 1, c \in Channels : At(t, c, s, 0, 0).id = id[s]
  BY DEF Rows, RowElement
<1> QED
  BY <1>1, StandsAlone DEF Rows

TextRows == Rows(text, TextSeq, [s \in 0 .. TextSeq - 1 |-> Told!Row(<<s>>, {}, {}, {})])

TextIds == [s \in 0 .. TextSeq - 1 |-> <<s>>]

LEMMA TextStands ==
  ASSUME TextRows
  PROVE  Stands(text, NoPos(text), TextSeq, TextIds, [s \in 0 .. TextSeq - 1 |-> {}])
<1> DEFINE rows == [s \in 0 .. TextSeq - 1 |-> Told!Row(<<s>>, {}, {}, {})]
<1>1. \A s \in 0 .. TextSeq - 1 : rows[s].id = TextIds[s]
  BY DEF Told!Row, TextIds
<1>2. Rows(text, TextSeq, rows)
  BY DEF TextRows
<1> HIDE DEF rows
<1> QED
  BY <1>1, <1>2, Extents, RowsAlone

(* Rows that read the text through a mask.                                 *)
ReadRows(n, id, at, open) == [s \in 0 .. n - 1 |-> Told!ReadBy(id[s], at[s], open)]

LEMMA ReadsText ==
  ASSUME NEW t, NEW pos, NEW n \in Nat \ {0}, NEW id, NEW at, NEW open, Stands(t, pos, n, id, at),
         TextRows, open \subseteq 0 .. TextSeq - 1
  PROVE  Says(Attend(t, pos, text, NoPos(text), TextMask(n, open)), n, ReadRows(n, id, at, open))
<1> DEFINE a == [id |-> id, at |-> at, kid |-> TextIds, kat |-> [s \in 0 .. TextSeq - 1 |-> {}],
                 open |-> open, bias |-> [x \in (0 .. n - 1) \X (0 .. TextSeq - 1) |-> {}]]
           f == ReadRows(n, id, at, open)
           mask == TextMask(n, open)
<1>1. /\ a.id = id /\ a.at = at /\ a.kid = TextIds /\ a.kat = [s \in 0 .. TextSeq - 1 |-> {}]
      /\ a.open = open /\ a.bias = [x \in (0 .. n - 1) \X (0 .. TextSeq - 1) |-> {}]
  OBVIOUS
<1>2. \A r \in 0 .. TextSeq - 1, s \in 0 .. n - 1 : a.bias[<<s, r>>] = {}
  BY <1>1
<1>3. TextSeq \in Nat \ {0}
  BY Extents
<1>4. ASSUME NEW s \in 0 .. n - 1
      PROVE  HearsAll(a, s) = f[s]
  <2>1. ASSUME NEW h \in 0 .. Heads - 1, NEW r \in open
        PROVE  Heard(a, r, s, h) = Told!Meeting(h, id[s], at[s], <<r>>, {}, {})
    <3>1. a.kid[r] = <<r>> /\ a.kat[r] = {} /\ a.bias[<<s, r>>] = {}
      BY <1>1, <1>2 DEF TextIds
    <3> HIDE DEF a
    <3> QED
      BY <1>1, <3>1 DEF Heard, Told!Meeting
  <2> HIDE DEF a
  <2> DEFINE M(h, r) == Told!Meeting(h, id[s], at[s], <<r>>, {}, {})  H(h, r) == Heard(a, r, s, h)
             told == {M(h, r) : h \in 0 .. Heads - 1, r \in open}
             heard == {H(h, r) : h \in 0 .. Heads - 1, r \in open}
  <2>2. \A h \in 0 .. Heads - 1, r \in open : H(h, r) = M(h, r)
    BY <2>1
  <2>3. HearsAll(a, s) = heard
    BY <1>1 DEF HearsAll
  <2>4. f[s] = told
    BY DEF ReadRows, Told!ReadBy, Told!HeadIds
  <2> HIDE DEF M, H, f
  <2>5. heard = told
    BY <2>2
  <2> HIDE DEF heard, told
  <2> QED
    BY <2>3, <2>4, <2>5
<1> HIDE DEF a, f
<1>5. Lets(mask, TextSeq, n, a)
  <2>1. Lets(Mask(TextSeq, n, a.open), TextSeq, n, a)
    BY <1>2, <1>3, MaskLets
  <2> QED
    BY <1>1, <2>1 DEF TextMask
<1> HIDE DEF mask
<1>6. Stands(text, NoPos(text), TextSeq, a.kid, a.kat)
  BY <1>1, TextStands
<1>7. Stands(t, pos, n, a.id, a.at) /\ a.open \subseteq 0 .. TextSeq - 1
  BY <1>1
<1>8. Attended(Attend(t, pos, text, NoPos(text), mask), n, a)
  BY <1>3, <1>5, <1>6, <1>7, AttendAt
<1>9. Says(Attend(t, pos, text, NoPos(text), mask), n, f)
  BY <1>4, <1>8, AttendedSays
<1> QED
  BY <1>9 DEF f, mask

LEMMA EncRowIs ==
  ASSUME NEW p, NEW depth \in Nat
  PROVE  /\ EncRow(p, depth).id = Told!PixelId(p, depth)
         /\ NextId(Told!PixelId(p, depth)) = Told!PixelId(p, depth + 1)
         /\ EncRow(p, depth + 1) = Told!EncodedRow(p, depth + 1)
         /\ Told!PixelId(p, depth + 1)[3] = depth + 1
<1>1. EncRow(p, depth).id = Told!PixelId(p, depth)
  <2>1. Told!EncodedRow(p, depth).id = Told!PixelId(p, depth)
    <3> DEFINE id == Told!PixelId(p, depth - 1)
               self == {Told!Meeting(h, id, Told!PixelPos(p), Told!PixelId(r, depth - 1), Told!PixelPos(r), {}) :
                          h \in Told!HeadIds, r \in Told!Pixels}
               txt == Told!ReadBy(id, {}, EncoderReads)
               row == Told!EncodedRow(p, depth)
    <3>1. row = Told!Row(Told!PixelId(p, depth), self, txt, {})
      BY DEF Told!EncodedRow
    <3> HIDE DEF self, txt, row
    <3>2. row.id = Told!PixelId(p, depth)
      BY <3>1 DEF Told!Row
    <3> QED
      BY <3>2 DEF row
  <2>2. Told!Row(Told!PixelId(p, 0), {}, {}, {}).id = Told!PixelId(p, 0)
    BY DEF Told!Row
  <2> HIDE DEF Told!EncodedRow
  <2> QED
    BY <2>1, <2>2 DEF EncRow
<1>2. NextId(Told!PixelId(p, depth)) = Told!PixelId(p, depth + 1)
  BY NextIdIs DEF Told!PixelId
<1>3. depth + 1 # 0
  OBVIOUS
<1> QED
  BY <1>1, <1>2, <1>3 DEF EncRow, Told!PixelId

PixelIds(depth) == [s \in 0 .. HW - 1 |-> Told!PixelId(PixelOf(s), depth)]
PixelPlaces == [s \in 0 .. HW - 1 |-> Told!PixelPos(PixelOf(s))]

LEMMA PixelsStand ==
  ASSUME NEW t, NEW depth \in Nat, Rows(t, HW, EncRows(depth))
  PROVE  /\ Stands(t, VisionPos, HW, PixelIds(depth), PixelPlaces)
         /\ Stands(t, NoPos(t), HW, PixelIds(depth), [s \in 0 .. HW - 1 |-> {}])
<1>1. \A s \in 0 .. HW - 1 : EncRows(depth)[s].id = PixelIds(depth)[s]
  BY EncRowIs DEF EncRows, PixelIds
<1>2. \A s \in 0 .. HW - 1 : UNION {At(VisionPos, c, s, 0, 0) : c \in Channels} = PixelPlaces[s]
  BY VisionPosAt DEF PixelPlaces
<1>3. HW \in Nat \ {0}
  BY Extents
<1>4. Stands(t, VisionPos, HW, PixelIds(depth), PixelPlaces)
  BY <1>1, <1>2, <1>3, RowsStand
<1>5. Stands(t, NoPos(t), HW, PixelIds(depth), [s \in 0 .. HW - 1 |-> {}])
  BY <1>1, <1>3, RowsAlone
<1> QED
  BY <1>4, <1>5

(* Rows that look at the pixels.                                           *)
LookRows(n, id, at, depth, see) ==
  [s \in 0 .. n - 1 |->
     {Told!Meeting(h, id[s], at[s], Told!PixelId(p, depth), Told!PixelPos(p),
                   see[<<s, p[1] * Width + p[2]>>]) :
        h \in Told!HeadIds, p \in Told!Pixels}]

PixelAudience(id, at, depth, see) ==
  [id |-> id, at |-> at, kid |-> PixelIds(depth), kat |-> PixelPlaces, open |-> 0 .. HW - 1, bias |-> see]

LEMMA LooksAtPixels ==
  ASSUME NEW t, NEW pos, NEW n \in Nat \ {0}, NEW id, NEW at, Stands(t, pos, n, id, at),
         NEW kv, NEW depth \in Nat, Rows(kv, HW, EncRows(depth)), NEW mask, NEW see,
         Lets(mask, HW, n, PixelAudience(id, at, depth, see))
  PROVE  Says(Attend(t, pos, kv, VisionPos, mask), n, LookRows(n, id, at, depth, see))
<1> DEFINE a == PixelAudience(id, at, depth, see)
           f == LookRows(n, id, at, depth, see)
<1>1. /\ a.id = id /\ a.at = at /\ a.kid = PixelIds(depth) /\ a.kat = PixelPlaces
      /\ a.open = 0 .. HW - 1 /\ a.bias = see
  BY DEF PixelAudience
<1>2. HW \in Nat \ {0}
  BY Extents
<1>3. Lets(mask, HW, n, a)
  OBVIOUS
<1>4. ASSUME NEW s \in 0 .. n - 1
      PROVE  HearsAll(a, s) = f[s]
  <2> DEFINE M(h, p) == Told!Meeting(h, id[s], at[s], Told!PixelId(p, depth), Told!PixelPos(p),
                                     see[<<s, p[1] * Width + p[2]>>])
             H(h, r) == Heard(a, r, s, h)
             told == {M(h, p) : h \in 0 .. Heads - 1, p \in Told!Pixels}
             heard == {H(h, r) : h \in 0 .. Heads - 1, r \in 0 .. HW - 1}
  <2>1. ASSUME NEW h \in 0 .. Heads - 1, NEW p \in Told!Pixels
        PROVE  LET r == p[1] * Width + p[2] IN r \in 0 .. HW - 1 /\ PixelOf(r) = p /\ H(h, r) = M(h, p)
    <3> DEFINE r == p[1] * Width + p[2]
    <3>1. r \in 0 .. HW - 1 /\ PixelOf(r) = p
      BY PixelOfAll
    <3> HIDE DEF r
    <3>2. /\ a.kid[r] = Told!PixelId(p, depth) /\ a.kat[r] = Told!PixelPos(p)
          /\ a.bias[<<s, r>>] = see[<<s, p[1] * Width + p[2]>>]
      BY <1>1, <3>1 DEF PixelIds, PixelPlaces, r
    <3> HIDE DEF a
    <3>3. H(h, r) = M(h, p)
      BY <1>1, <3>2 DEF Heard, Told!Meeting
    <3> QED
      BY <3>1, <3>3 DEF r
  <2>2. ASSUME NEW h \in 0 .. Heads - 1, NEW r \in 0 .. HW - 1
        PROVE  \E p \in Told!Pixels : H(h, r) = M(h, p)
    <3> DEFINE p == PixelOf(r)
    <3>1. p \in Told!Pixels /\ p[1] * Width + p[2] = r
      <4>1. r \in 0 .. Width * Height - 1
        BY Extents
      <4>2. r = (r % Width) + Width * (r \div Width)
        BY <4>1, Extents, Within
      <4>3. p[1] = r \div Width /\ p[2] = r % Width
        BY DEF PixelOf
      <4>4. Width * (r \div Width) = (r \div Width) * Width /\ r % Width \in Int /\ (r \div Width) * Width \in Int
        BY Extents
      <4>5. p \in Told!Pixels
        BY PixelOfAll
      <4> HIDE DEF p
      <4> QED
        BY <4>2, <4>3, <4>4, <4>5
    <3> HIDE DEF p, M, H
    <3>2. H(h, p[1] * Width + p[2]) = M(h, p)
      BY <2>1, <3>1
    <3> QED
      BY <3>1, <3>2
  <2>3. HearsAll(a, s) = heard
    BY <1>1 DEF HearsAll
  <2>4. f[s] = told
    BY DEF Told!HeadIds, LookRows
  <2> HIDE DEF M, H, f
  <2>5. heard = told
    <3>1. ASSUME NEW h \in 0 .. Heads - 1, NEW r \in 0 .. HW - 1
          PROVE  H(h, r) \in told
      BY <2>2
    <3>2. ASSUME NEW h \in 0 .. Heads - 1, NEW p \in Told!Pixels
          PROVE  M(h, p) \in heard
      <4>1. p[1] * Width + p[2] \in 0 .. HW - 1 /\ H(h, p[1] * Width + p[2]) = M(h, p)
        BY <2>1
      <4> QED
        BY <4>1
    <3> QED
      BY <3>1, <3>2
  <2> HIDE DEF heard, told
  <2> QED
    BY <2>3, <2>4, <2>5
<1> HIDE DEF a, f
<1>5. Stands(kv, VisionPos, HW, a.kid, a.kat)
  BY <1>1, PixelsStand
<1>6. Stands(t, pos, n, a.id, a.at) /\ a.open \subseteq 0 .. HW - 1
  BY <1>1
<1>7. Attended(Attend(t, pos, kv, VisionPos, mask), n, a)
  BY <1>2, <1>3, <1>5, <1>6, AttendAt
<1>8. Says(Attend(t, pos, kv, VisionPos, mask), n, f)
  BY <1>4, <1>7, AttendedSays
<1> QED
  BY <1>8 DEF f

LEMMA EncoderRows ==
  ASSUME TextRows, NEW t, NEW depth \in Nat, Rows(t, HW, EncRows(depth))
  PROVE  Rows(EncoderLayer(t), HW, EncRows(depth + 1))
<1> DEFINE see == [x \in (0 .. HW - 1) \X (0 .. HW - 1) |-> {}]
           none == [s \in 0 .. HW - 1 |-> {}]
           ids == PixelIds(depth)
           self == Attend(t, VisionPos, t, VisionPos, NoMask(HW, HW))
           txt == Attend(t, NoPos(t), text, NoPos(text), TextMask(HW, EncoderReads))
           S == LookRows(HW, ids, PixelPlaces, depth, see)
           X == ReadRows(HW, ids, none, EncoderReads)
           grown == [s \in 0 .. HW - 1 |-> NextRow(EncRows(depth)[s], S[s], X[s], none[s])]
<1>1. HW \in Nat \ {0} /\ EncoderReads \subseteq 0 .. TextSeq - 1
  BY Extents DEF EncoderReads
<1>2. Stands(t, VisionPos, HW, ids, PixelPlaces) /\ Stands(t, NoPos(t), HW, ids, none)
  BY PixelsStand
<1>3. Says(self, HW, S)
  <2> DEFINE a == PixelAudience(ids, PixelPlaces, depth, see)
  <2>1. \A r \in 0 .. HW - 1, s \in 0 .. HW - 1 : a.bias[<<s, r>>] = {}
    BY DEF PixelAudience
  <2>2. a.open = 0 .. HW - 1
    BY DEF PixelAudience
  <2> HIDE DEF a
  <2>3. Lets(Mask(HW, HW, a.open), HW, HW, a)
    BY <1>1, <2>1, MaskLets
  <2>4. Lets(NoMask(HW, HW), HW, HW, a)
    BY <2>2, <2>3 DEF NoMask
  <2> HIDE DEF see, ids
  <2> QED
    BY <1>1, <1>2, <2>4, LooksAtPixels DEF a
<1>4. Says(txt, HW, X)
  <2> HIDE DEF ids, none
  <2> QED
    BY <1>1, <1>2, ReadsText
<1>5. Says(NoPos(t), HW, none)
  BY <1>1, NoPosSays DEF Rows
<1>6. EncoderLayer(t) = Layered(t, self, txt, NoPos(t))
  BY DEF EncoderLayer
<1>7. ASSUME NEW s \in 0 .. HW - 1
      PROVE  grown[s] = EncRows(depth + 1)[s]
  <2> DEFINE p == PixelOf(s)  id == Told!PixelId(p, depth)
             self1 == {Told!Meeting(h, id, Told!PixelPos(p), Told!PixelId(r, depth), Told!PixelPos(r), {}) :
                         h \in Told!HeadIds, r \in Told!Pixels}
  <2>1. ids[s] = id /\ PixelPlaces[s] = Told!PixelPos(p) /\ none[s] = {}
    BY DEF PixelIds, PixelPlaces
  <2>2. S[s] = self1
    <3> DEFINE M(h, r) == Told!Meeting(h, ids[s], PixelPlaces[s], Told!PixelId(r, depth), Told!PixelPos(r),
                                       see[<<s, r[1] * Width + r[2]>>])
               N(h, r) == Told!Meeting(h, id, Told!PixelPos(p), Told!PixelId(r, depth), Told!PixelPos(r), {})
               before == {M(h, r) : h \in Told!HeadIds, r \in Told!Pixels}
    <3>1. \A r \in Told!Pixels : see[<<s, r[1] * Width + r[2]>>] = {}
      BY PixelOfAll
    <3> HIDE DEF see, ids, p
    <3>2. S[s] = before
      BY DEF LookRows
    <3>3. \A h \in Told!HeadIds, r \in Told!Pixels : M(h, r) = N(h, r)
      BY <2>1, <3>1
    <3>4. self1 = {N(h, r) : h \in Told!HeadIds, r \in Told!Pixels}
      OBVIOUS
    <3> HIDE DEF M, N, self1, S
    <3>5. before = {N(h, r) : h \in Told!HeadIds, r \in Told!Pixels}
      BY <3>3
    <3> HIDE DEF before
    <3> QED
      BY <3>2, <3>4, <3>5
  <2>3. X[s] = Told!ReadBy(id, {}, EncoderReads)
    BY <2>1 DEF ReadRows
  <2>4. NextId(EncRows(depth)[s].id) = Told!PixelId(p, depth + 1)
    BY EncRowIs DEF EncRows
  <2>5. EncRows(depth + 1)[s] = Told!Row(Told!PixelId(p, depth + 1), self1,
                                         Told!ReadBy(id, {}, EncoderReads), {})
    <3>1. EncRows(depth + 1)[s] = Told!EncodedRow(p, depth + 1)
      BY EncRowIs DEF EncRows
    <3>2. (depth + 1) - 1 = depth
      OBVIOUS
    <3> HIDE DEF p
    <3>3. Told!EncodedRow(p, depth + 1) = Told!Row(Told!PixelId(p, depth + 1), self1,
                                                   Told!ReadBy(id, {}, EncoderReads), {})
      BY <3>2 DEF Told!EncodedRow
    <3> QED
      BY <3>1, <3>3
  <2>6. grown[s] = NextRow(EncRows(depth)[s], S[s], X[s], none[s])
    OBVIOUS
  <2> HIDE DEF S, X, none, self1, grown, p
  <2> QED
    BY <2>1, <2>2, <2>3, <2>4, <2>5, <2>6 DEF NextRow, Told!Row
<1> HIDE DEF self, txt, S, X, none
<1>8. Rows(EncoderLayer(t), HW, grown)
  BY <1>1, <1>3, <1>4, <1>5, <1>6, LayeredRows
<1>9. grown = EncRows(depth + 1)
  <2>1. DOMAIN grown = 0 .. HW - 1 /\ DOMAIN EncRows(depth + 1) = 0 .. HW - 1
    BY DEF EncRows
  <2>2. grown = [s \in 0 .. HW - 1 |-> grown[s]]
    OBVIOUS
  <2>3. EncRows(depth + 1) = [s \in 0 .. HW - 1 |-> EncRows(depth + 1)[s]]
    BY DEF EncRows
  <2> HIDE DEF grown
  <2> QED
    BY <1>7, <2>2, <2>3
<1> QED
  BY <1>8, <1>9

-----------------------------------------------------------------------------
(***************************************************************************)
(* Queries and the decoder.                                                *)
(***************************************************************************)

DecRow(q, depth) ==
  IF depth = 0 THEN Told!Row(<<q, 0>>, {}, {}, {}) ELSE Told!DecodedRow(q, depth)

DecRows(depth) == [s \in 0 .. NumQueries - 1 |-> DecRow(s, depth)]

QueryIds(depth) == [s \in 0 .. NumQueries - 1 |-> <<s, depth>>]
QueryPlaces(depth) == [s \in 0 .. NumQueries - 1 |-> Told!QueryPos(s, depth)]

(* What a layer finds: the place of each query, and how it sees each pixel. *)
PlacedBy(pos, depth) ==
  \A s \in 0 .. NumQueries - 1 :
    UNION {At(pos, c, s, 0, 0) : c \in Channels} = Told!QueryPos(s, depth)

BiasedBy(mask, depth) ==
  \A r \in 0 .. HW - 1, s \in 0 .. NumQueries - 1, h \in 0 .. Heads - 1 :
    LET e == At(mask, r, s, h % mask.ne[3], 0)
    IN e.heads \subseteq {h} /\ e.open = TRUE /\ e.bias = Told!Bias(s, PixelOf(r), depth)

(* The parts of what a query becomes.                                      *)
QueryHears(q, depth) ==
  {Told!Meeting(h, <<q, depth>>, Told!QueryPos(q, depth), <<r, depth>>, Told!QueryPos(r, depth), {}) :
     h \in Told!HeadIds, r \in Told!Queries}

QuerySees(q, depth) ==
  {Told!Meeting(h, <<q, depth>>, Told!QueryPos(q, depth), Told!PixelId(p, EncoderLayers), Told!PixelPos(p),
                Told!Bias(q, p, depth)) :
     h \in Told!HeadIds, p \in Told!Pixels}

LEMMA DecodedRowIs ==
  ASSUME NEW q, NEW depth \in Nat
  PROVE  Told!DecodedRow(q, depth + 1) =
           Told!Row(<<q, depth + 1>>, QueryHears(q, depth),
                    Told!ReadBy(<<q, depth>>, Told!QueryPos(q, depth), DecoderReads), QuerySees(q, depth))
<1>1. (depth + 1) - 1 = depth
  OBVIOUS
<1> QED
  BY <1>1 DEF Told!DecodedRow, QueryHears, QuerySees

LEMMA DecRowIs ==
  ASSUME NEW q, NEW depth \in Nat
  PROVE  /\ DecRow(q, depth).id = <<q, depth>>
         /\ NextId(<<q, depth>>) = <<q, depth + 1>>
         /\ DecRow(q, depth + 1) = Told!DecodedRow(q, depth + 1)
<1>1. DecRow(q, depth).id = <<q, depth>>
  <2>1. CASE depth = 0
    <3>1. DecRow(q, depth) = Told!Row(<<q, 0>>, {}, {}, {})
      BY <2>1 DEF DecRow
    <3> QED
      BY <2>1, <3>1 DEF Told!Row
  <2>2. CASE depth # 0
    <3> DEFINE d == depth - 1
    <3>1. d \in Nat /\ d + 1 = depth
      BY <2>2
    <3> HIDE DEF d
    <3> DEFINE row == Told!DecodedRow(q, d + 1)
    <3>2. row = Told!Row(<<q, d + 1>>, QueryHears(q, d),
                         Told!ReadBy(<<q, d>>, Told!QueryPos(q, d), DecoderReads), QuerySees(q, d))
      BY <3>1, DecodedRowIs
    <3> HIDE DEF row
    <3>3. row.id = <<q, d + 1>>
      BY <3>2 DEF Told!Row
    <3>4. DecRow(q, depth) = row
      BY <2>2, <3>1 DEF DecRow, row
    <3> QED
      BY <3>1, <3>3, <3>4
  <2> QED
    BY <2>1, <2>2
<1>2. NextId(<<q, depth>>) = <<q, depth + 1>>
  BY NextIdIs
<1>3. depth + 1 # 0
  OBVIOUS
<1> QED
  BY <1>1, <1>2, <1>3 DEF DecRow

LEMMA QueriesStand ==
  ASSUME NEW t, NEW depth \in Nat, Rows(t, NumQueries, DecRows(depth)), PlacedBy(queryPos, depth)
  PROVE  Stands(t, queryPos, NumQueries, QueryIds(depth), QueryPlaces(depth))
<1>1. \A s \in 0 .. NumQueries - 1 : DecRows(depth)[s].id = QueryIds(depth)[s]
  BY DecRowIs DEF DecRows, QueryIds
<1>2. \A s \in 0 .. NumQueries - 1 :
        UNION {At(queryPos, c, s, 0, 0) : c \in Channels} = QueryPlaces(depth)[s]
  BY DEF PlacedBy, QueryPlaces
<1> QED
  BY <1>1, <1>2, Extents, RowsStand

HearRows(depth) == [s \in 0 .. NumQueries - 1 |-> QueryHears(s, depth)]

LEMMA QueriesHear ==
  ASSUME NEW t, NEW depth \in Nat, Rows(t, NumQueries, DecRows(depth)), PlacedBy(queryPos, depth)
  PROVE  Says(Attend(t, queryPos, t, queryPos, NoMask(NumQueries, NumQueries)), NumQueries, HearRows(depth))
<1> DEFINE ids == QueryIds(depth)  ats == QueryPlaces(depth)
           a == [id |-> ids, at |-> ats, kid |-> ids, kat |-> ats, open |-> 0 .. NumQueries - 1,
                 bias |-> [x \in (0 .. NumQueries - 1) \X (0 .. NumQueries - 1) |-> {}]]
           f == HearRows(depth)
           mask == NoMask(NumQueries, NumQueries)
<1>1. /\ a.id = ids /\ a.at = ats /\ a.kid = ids /\ a.kat = ats /\ a.open = 0 .. NumQueries - 1
      /\ \A r \in 0 .. NumQueries - 1, s \in 0 .. NumQueries - 1 : a.bias[<<s, r>>] = {}
  OBVIOUS
<1>2. NumQueries \in Nat \ {0}
  BY Extents
<1> HIDE DEF a
<1>3. Lets(mask, NumQueries, NumQueries, a)
  <2>1. Lets(Mask(NumQueries, NumQueries, a.open), NumQueries, NumQueries, a)
    BY <1>1, <1>2, MaskLets
  <2> QED
    BY <1>1, <2>1 DEF NoMask
<1>4. Stands(t, queryPos, NumQueries, ids, ats)
  BY QueriesStand
<1>5. ASSUME NEW s \in 0 .. NumQueries - 1
      PROVE  HearsAll(a, s) = f[s]
  <2> DEFINE M(h, r) == Told!Meeting(h, <<s, depth>>, Told!QueryPos(s, depth), <<r, depth>>,
                                     Told!QueryPos(r, depth), {})
             H(h, r) == Heard(a, r, s, h)
             told == {M(h, r) : h \in 0 .. Heads - 1, r \in 0 .. NumQueries - 1}
             heard == {H(h, r) : h \in 0 .. Heads - 1, r \in 0 .. NumQueries - 1}
  <2>1. ASSUME NEW h \in 0 .. Heads - 1, NEW r \in 0 .. NumQueries - 1
        PROVE  H(h, r) = M(h, r)
    <3>1. /\ a.id[s] = <<s, depth>> /\ a.at[s] = Told!QueryPos(s, depth)
          /\ a.kid[r] = <<r, depth>> /\ a.kat[r] = Told!QueryPos(r, depth) /\ a.bias[<<s, r>>] = {}
      BY <1>1 DEF QueryIds, QueryPlaces
    <3> QED
      BY <3>1 DEF Heard, Told!Meeting
  <2>2. HearsAll(a, s) = heard
    BY <1>1 DEF HearsAll
  <2>3. f[s] = told
    BY DEF HearRows, QueryHears, Told!HeadIds, Told!Queries
  <2> HIDE DEF M, H, f
  <2>4. heard = told
    BY <2>1
  <2> HIDE DEF heard, told
  <2> QED
    BY <2>2, <2>3, <2>4
<1> HIDE DEF f, mask, ids, ats
<1>6. Stands(t, queryPos, NumQueries, a.id, a.at) /\ Stands(t, queryPos, NumQueries, a.kid, a.kat)
      /\ a.open \subseteq 0 .. NumQueries - 1
  BY <1>1, <1>4
<1>7. Attended(Attend(t, queryPos, t, queryPos, mask), NumQueries, a)
  BY <1>2, <1>3, <1>6, AttendAt
<1>8. Says(Attend(t, queryPos, t, queryPos, mask), NumQueries, f)
  BY <1>2, <1>5, <1>7, AttendedSays
<1> QED
  BY <1>8 DEF f, mask

SeeRows(depth) == [s \in 0 .. NumQueries - 1 |-> QuerySees(s, depth)]

LEMMA QueriesSee ==
  ASSUME NEW t, NEW depth \in Nat, Rows(t, NumQueries, DecRows(depth)), PlacedBy(queryPos, depth), BiasedBy(bias, depth),
         Rows(hidden, HW, EncRows(EncoderLayers))
  PROVE  Says(Attend(t, queryPos, hidden, VisionPos, bias), NumQueries, SeeRows(depth))
<1> DEFINE ids == QueryIds(depth)  ats == QueryPlaces(depth)
           see == [x \in (0 .. NumQueries - 1) \X (0 .. HW - 1) |-> Told!Bias(x[1], PixelOf(x[2]), depth)]
           a == PixelAudience(ids, ats, EncoderLayers, see)
           looked == LookRows(NumQueries, ids, ats, EncoderLayers, see)
           u == Attend(t, queryPos, hidden, VisionPos, bias)
<1>1. NumQueries \in Nat \ {0} /\ EncoderLayers \in Nat
  BY Extents
<1>2. Stands(t, queryPos, NumQueries, ids, ats)
  BY QueriesStand
<1>3. \A s \in 0 .. NumQueries - 1, r \in 0 .. HW - 1 : see[<<s, r>>] = Told!Bias(s, PixelOf(r), depth)
  OBVIOUS
<1> HIDE DEF see
<1>4. Lets(bias, HW, NumQueries, a)
  <2>1. a.open = 0 .. HW - 1 /\ a.bias = see
    BY DEF PixelAudience
  <2> HIDE DEF a
  <2>2. ASSUME NEW r \in 0 .. HW - 1, NEW s \in 0 .. NumQueries - 1, NEW h \in 0 .. Heads - 1
        PROVE  LET e == At(bias, r, s, h % bias.ne[3], 0)
               IN e.heads \subseteq {h} /\ e.open = (r \in a.open) /\ e.bias = a.bias[<<s, r>>]
    <3> DEFINE e == At(bias, r, s, h % bias.ne[3], 0)
    <3>1. e.heads \subseteq {h} /\ e.open = TRUE /\ e.bias = Told!Bias(s, PixelOf(r), depth)
      BY DEF BiasedBy
    <3> HIDE DEF e
    <3>2. e.bias = a.bias[<<s, r>>]
      BY <1>3, <2>1, <3>1
    <3>3. e.open = (r \in a.open)
      BY <2>1, <3>1
    <3> QED
      BY <3>1, <3>2, <3>3 DEF e
  <2> QED
    BY <2>2 DEF Lets
<1>5. Says(u, NumQueries, looked)
  <2> HIDE DEF ids, ats
  <2> QED
    BY <1>1, <1>2, <1>4, LooksAtPixels
<1>6. looked = SeeRows(depth)
  <2>1. ASSUME NEW s \in 0 .. NumQueries - 1
        PROVE  looked[s] = SeeRows(depth)[s]
    <3> DEFINE M(h, p) == Told!Meeting(h, ids[s], ats[s], Told!PixelId(p, EncoderLayers), Told!PixelPos(p),
                                       see[<<s, p[1] * Width + p[2]>>])
               N(h, p) == Told!Meeting(h, <<s, depth>>, Told!QueryPos(s, depth),
                                       Told!PixelId(p, EncoderLayers), Told!PixelPos(p), Told!Bias(s, p, depth))
               before == {M(h, p) : h \in Told!HeadIds, p \in Told!Pixels}
               after == {N(h, p) : h \in Told!HeadIds, p \in Told!Pixels}
    <3>1. looked[s] = before /\ SeeRows(depth)[s] = after
      BY DEF LookRows, SeeRows, QuerySees
    <3>2. \A p \in Told!Pixels : see[<<s, p[1] * Width + p[2]>>] = Told!Bias(s, p, depth)
      BY <1>3, PixelOfAll
    <3>3. ids[s] = <<s, depth>> /\ ats[s] = Told!QueryPos(s, depth)
      BY DEF QueryIds, QueryPlaces
    <3> HIDE DEF ids, ats, looked
    <3>4. \A h \in Told!HeadIds, p \in Told!Pixels : M(h, p) = N(h, p)
      BY <3>2, <3>3
    <3> HIDE DEF M, N
    <3>5. before = after
      BY <3>4
    <3> HIDE DEF before, after
    <3> QED
      BY <3>1, <3>5
  <2>2. looked = [s \in 0 .. NumQueries - 1 |-> looked[s]]
    BY DEF LookRows
  <2>3. SeeRows(depth) = [s \in 0 .. NumQueries - 1 |-> SeeRows(depth)[s]]
    BY DEF SeeRows
  <2> HIDE DEF looked
  <2> QED
    BY <2>1, <2>2, <2>3
<1> HIDE DEF u, looked
<1> QED
  BY <1>5, <1>6 DEF u

LEMMA DecoderRows ==
  ASSUME TextRows, NEW t, NEW depth \in Nat, Rows(t, NumQueries, DecRows(depth)), PlacedBy(queryPos, depth),
         BiasedBy(bias, depth), Rows(hidden, HW, EncRows(EncoderLayers))
  PROVE  Rows(DecoderLayer(t), NumQueries, DecRows(depth + 1))
<1> DEFINE ids == QueryIds(depth)  ats == QueryPlaces(depth)
           self == Attend(t, queryPos, t, queryPos, NoMask(NumQueries, NumQueries))
           txt == Attend(t, queryPos, text, NoPos(text), TextMask(NumQueries, DecoderReads))
           vision == Attend(t, queryPos, hidden, VisionPos, bias)
           S == HearRows(depth)
           X == ReadRows(NumQueries, ids, ats, DecoderReads)
           V == SeeRows(depth)
           grown == [s \in 0 .. NumQueries - 1 |-> NextRow(DecRows(depth)[s], S[s], X[s], V[s])]
<1>1. NumQueries \in Nat \ {0} /\ DecoderReads \subseteq 0 .. TextSeq - 1
  BY Extents DEF DecoderReads
<1>2. Says(self, NumQueries, S)
  BY QueriesHear
<1>3. Says(txt, NumQueries, X)
  <2>1. Stands(t, queryPos, NumQueries, ids, ats)
    BY QueriesStand
  <2> HIDE DEF ids, ats
  <2> QED
    BY <1>1, <2>1, ReadsText
<1>4. Says(vision, NumQueries, V)
  BY QueriesSee
<1>5. DecoderLayer(t) = Layered(t, self, txt, vision)
  BY DEF DecoderLayer
<1>6. ASSUME NEW s \in 0 .. NumQueries - 1
      PROVE  grown[s] = DecRows(depth + 1)[s]
  <2> DEFINE hears == QueryHears(s, depth)  sees == QuerySees(s, depth)
             reads == Told!ReadBy(<<s, depth>>, Told!QueryPos(s, depth), DecoderReads)
             id == <<s, depth + 1>>
  <2>1. S[s] = hears /\ V[s] = sees
    BY DEF HearRows, SeeRows
  <2>2. X[s] = reads
    BY DEF ReadRows, QueryIds, QueryPlaces
  <2>3. NextId(DecRows(depth)[s].id) = id
    BY DecRowIs DEF DecRows
  <2>4. DecRows(depth + 1)[s] = Told!Row(id, hears, reads, sees)
    BY DecRowIs, DecodedRowIs DEF DecRows
  <2>5. grown[s] = NextRow(DecRows(depth)[s], S[s], X[s], V[s])
    OBVIOUS
  <2> HIDE DEF S, X, V, grown, hears, sees, reads, id
  <2> QED
    BY <2>1, <2>2, <2>3, <2>4, <2>5 DEF NextRow, Told!Row
<1> HIDE DEF self, txt, vision, S, X, V
<1>7. Rows(DecoderLayer(t), NumQueries, grown)
  BY <1>1, <1>2, <1>3, <1>4, <1>5, LayeredRows
<1>8. grown = DecRows(depth + 1)
  <2>1. grown = [s \in 0 .. NumQueries - 1 |-> grown[s]]
    OBVIOUS
  <2>2. DecRows(depth + 1) = [s \in 0 .. NumQueries - 1 |-> DecRows(depth + 1)[s]]
    BY DEF DecRows
  <2> HIDE DEF grown
  <2> QED
    BY <1>6, <2>1, <2>2
<1> QED
  BY <1>7, <1>8

-----------------------------------------------------------------------------
(***************************************************************************)
(* Boxes, and what is made of them.                                        *)
(***************************************************************************)

BoxNe == <<4, NumQueries, 1, 1>>

LEMMA BoxShape == BoxNe \in Shapes /\ Size(BoxNe) = 4 * NumQueries
BY Extents DEF BoxNe, Shapes, Size

(* The boxes after some rounds.                                            *)
Boxed(b, rounds) ==
  /\ IsTensor(b) /\ b.ne = BoxNe /\ DOMAIN b.data = 0 .. Size(BoxNe) - 1
  /\ \A q \in 0 .. NumQueries - 1, c \in 0 .. 3 :
       At(b, c, q, 0, 0) = Told!Box(q, c, rounds)

LEMMA BoxAt ==
  ASSUME NEW b, NEW rounds, Boxed(b, rounds), NEW q \in 0 .. NumQueries - 1, NEW c \in 0 .. 3
  PROVE  b.data[q * 4 + c] = Told!Box(q, c, rounds)
<1>1. Flat(BoxNe, c, q, 0, 0) = q * 4 + c
  BY Extents DEF Flat, BoxNe
<1> QED
  BY <1>1, AtFlat DEF Boxed

LEMMA NoMoves ==
  ASSUME NEW q, NEW c
  PROVE  Told!Box(q, c, 0) = [query |-> q, coord |-> c, moved |-> <<>>]
<1> DEFINE f == [k \in 1 .. 0 |-> [of |-> {<<q, k>>}, coord |-> c]]
<1>1. DOMAIN f = {} /\ f = [k \in {} |-> 0]
  OBVIOUS
<1>2. <<>> = [k \in {} |-> 0]
  OBVIOUS
<1>3. f = <<>>
  BY <1>1, <1>2
<1> QED
  BY <1>3 DEF Told!Box

LEMMA FirstBoxes == Boxed(InitialBoxes, 0)
<1> DEFINE u == InitialBoxes  ne == BoxNe
           From(coord, q, i2, i3) == [query |-> q, coord |-> coord, moved |-> <<>>]
<1>1. u.ne = ne /\ u = Tensor(ne, From)
  <2>1. u = Tensor(ne, From)
    BY DEF InitialBoxes, BoxNe
  <2> HIDE DEF u, From, ne
  <2> QED
    BY <2>1 DEF Tensor
<1>2. \A c, q : From(c, q, 0, 0) = [query |-> q, coord |-> c, moved |-> <<>>]
  OBVIOUS
<1> HIDE DEF u, From, ne
<1>3. /\ IsTensor(u)
      /\ u.data = [x \in 0 .. Size(ne) - 1 |->
           From(x % ne[1], (x \div ne[1]) % ne[2], (x \div (ne[1] * ne[2])) % ne[3],
                x \div (ne[1] * ne[2] * ne[3]))]
  BY <1>1 DEF Tensor, IsTensor
<1>4. ASSUME NEW q \in 0 .. NumQueries - 1, NEW c \in 0 .. 3
      PROVE  At(u, c, q, 0, 0) = Told!Box(q, c, 0)
  <2>1. /\ u.ne \in Shapes /\ c \in 0 .. u.ne[1] - 1 /\ q \in 0 .. u.ne[2] - 1
        /\ 0 \in 0 .. u.ne[3] - 1 /\ 0 \in 0 .. u.ne[4] - 1
    BY <1>1, BoxShape DEF BoxNe, ne
  <2>2. PICK i \in 0 .. Size(u.ne) - 1 :
          /\ At(u, c, q, 0, 0) = u.data[i]
          /\ i % u.ne[1] = c /\ (i \div u.ne[1]) % u.ne[2] = q /\ (i \div (u.ne[1] * u.ne[2])) % u.ne[3] = 0
          /\ i \div (u.ne[1] * u.ne[2] * u.ne[3]) = 0
    BY <2>1, Lands
  <2>3. u.data[i] = From(c, q, 0, 0)
    BY <1>1, <1>3, <2>2
  <2>4. Told!Box(q, c, 0) = [query |-> q, coord |-> c, moved |-> <<>>]
    BY NoMoves
  <2> QED
    BY <1>2, <2>2, <2>3, <2>4
<1> QED
  BY <1>1, <1>3, <1>4 DEF Boxed, u, ne

(* A box, one round later.                                                 *)
LEMMA BoxMoves ==
  ASSUME NEW q, NEW c, NEW rounds \in Nat, NEW d, d = [of |-> {<<q, rounds + 1>>}, coord |-> c],
         NEW box, box = Told!Box(q, c, rounds)
  PROVE  [box EXCEPT !.moved = Append(@, d)] = Told!Box(q, c, rounds + 1)
<1> DEFINE e(k) == [of |-> {<<q, k>>}, coord |-> c]
           m == [k \in 1 .. rounds |-> e(k)]
           m1 == [k \in 1 .. rounds + 1 |-> e(k)]
<1>1. box = [query |-> q, coord |-> c, moved |-> m] /\ Told!Box(q, c, rounds + 1) = [query |-> q, coord |-> c, moved |-> m1]
  BY DEF Told!Box
<1>2. d = e(rounds + 1)
  OBVIOUS
<1> HIDE DEF e
<1>3. Append(m, d) = m1
  <2>1. m \in Seq({e(k) : k \in 1 .. rounds + 1}) /\ Len(m) = rounds
    OBVIOUS
  <2>2. Append(m, d) \in Seq({e(k) : k \in 1 .. rounds + 1}) /\ Len(Append(m, d)) = rounds + 1
        /\ \A k \in 1 .. rounds + 1 : Append(m, d)[k] = IF k <= rounds THEN m[k] ELSE d
    BY <1>2, <2>1
  <2>3. Append(m, d) = [k \in 1 .. rounds + 1 |-> Append(m, d)[k]]
    BY <2>2
  <2>4. \A k \in 1 .. rounds + 1 : Append(m, d)[k] = e(k)
    BY <1>2, <2>2
  <2> HIDE DEF m
  <2> QED
    BY <2>3, <2>4
<1> HIDE DEF m, m1
<1> DEFINE more == Append(m, d)  after == [box EXCEPT !.moved = more]
<1>4. box.moved = m
  BY <1>1
<1>5. after = [query |-> q, coord |-> c, moved |-> more]
  <2> HIDE DEF more, after
  <2> QED
    BY <1>1 DEF after
<1>6. [box EXCEPT !.moved = Append(@, d)] = after
  BY <1>4
<1> HIDE DEF after
<1> QED
  BY <1>1, <1>3, <1>5, <1>6

LEMMA BoxHeadAt ==
  ASSUME NEW t, NEW depth \in Nat, Rows(t, NumQueries, DecRows(depth))
  PROVE  /\ BoxHead(t).ne = BoxNe
         /\ \A q \in 0 .. NumQueries - 1, c \in 0 .. 3 :
              At(BoxHead(t), c, q, 0, 0) = [of |-> {<<q, depth>>}, coord |-> c]
<1> DEFINE u == BoxHead(t)  ne == BoxNe
           From(coord, q, i2, i3) == [of |-> {At(t, c, q, 0, 0).id : c \in Channels}, coord |-> coord]
<1>1. u.ne = ne /\ u = Tensor(ne, From)
  <2>1. u = Tensor(ne, From)
    BY DEF BoxHead, BoxNe
  <2> HIDE DEF u, From, ne
  <2> QED
    BY <2>1 DEF Tensor
<1>2. ASSUME NEW q \in 0 .. NumQueries - 1, NEW c
      PROVE  From(c, q, 0, 0) = [of |-> {<<q, depth>>}, coord |-> c]
  <2>1. \A d \in Channels : At(t, d, q, 0, 0).id = <<q, depth>>
    <3>1. DecRows(depth)[q].id = <<q, depth>>
      BY DecRowIs DEF DecRows
    <3> QED
      BY <3>1 DEF Rows, RowElement
  <2>2. {At(t, d, q, 0, 0).id : d \in Channels} = {<<q, depth>>}
    BY <2>1, Extents
  <2> QED
    BY <2>2
<1> HIDE DEF u, From, ne
<1>3. u.data = [x \in 0 .. Size(ne) - 1 |->
        From(x % ne[1], (x \div ne[1]) % ne[2], (x \div (ne[1] * ne[2])) % ne[3],
             x \div (ne[1] * ne[2] * ne[3]))]
  BY <1>1 DEF Tensor
<1>4. ASSUME NEW q \in 0 .. NumQueries - 1, NEW c \in 0 .. 3
      PROVE  At(u, c, q, 0, 0) = [of |-> {<<q, depth>>}, coord |-> c]
  <2>1. /\ u.ne \in Shapes /\ c \in 0 .. u.ne[1] - 1 /\ q \in 0 .. u.ne[2] - 1
        /\ 0 \in 0 .. u.ne[3] - 1 /\ 0 \in 0 .. u.ne[4] - 1
    BY <1>1, BoxShape DEF BoxNe, ne
  <2>2. PICK i \in 0 .. Size(u.ne) - 1 :
          /\ At(u, c, q, 0, 0) = u.data[i]
          /\ i % u.ne[1] = c /\ (i \div u.ne[1]) % u.ne[2] = q /\ (i \div (u.ne[1] * u.ne[2])) % u.ne[3] = 0
          /\ i \div (u.ne[1] * u.ne[2] * u.ne[3]) = 0
    BY <2>1, Lands
  <2>3. u.data[i] = From(c, q, 0, 0)
    BY <1>1, <1>3, <2>2
  <2> QED
    BY <1>2, <2>2, <2>3
<1> QED
  BY <1>1, <1>4 DEF u, ne

LEMMA BoxesMove ==
  ASSUME NEW b, NEW rounds \in Nat, Boxed(b, rounds), NEW t, Rows(t, NumQueries, DecRows(rounds + 1))
  PROVE  Boxed(UpdateBoxes(b, BoxHead(t)), rounds + 1)
<1> DEFINE delta == BoxHead(t)
           Moves(box, d) == [box EXCEPT !.moved = Append(@, d)]
           data == [i \in DOMAIN b.data |-> Moves(b.data[i], delta.data[i])]
           u == UpdateBoxes(b, delta)
<1>1. u = [ne |-> BoxNe, data |-> data]
  <2>1. b = [ne |-> BoxNe, data |-> b.data]
    BY DEF Boxed, IsTensor
  <2>2. u = [b EXCEPT !.data = data]
    BY DEF UpdateBoxes, AddTensors
  <2> HIDE DEF u, data
  <2> QED
    BY <2>1, <2>2
<1>2. IsTensor(u) /\ u.ne = BoxNe /\ u.data = data
  <2> HIDE DEF u, data
  <2> QED
    BY <1>1 DEF IsTensor
<1>3. DOMAIN data = 0 .. Size(BoxNe) - 1 /\ DOMAIN b.data = 0 .. Size(BoxNe) - 1
  BY DEF Boxed
<1>4. rounds + 1 \in Nat /\ delta.ne = BoxNe
      /\ \A q \in 0 .. NumQueries - 1, c \in 0 .. 3 :
           At(delta, c, q, 0, 0) = [of |-> {<<q, rounds + 1>>}, coord |-> c]
  BY BoxHeadAt
<1> HIDE DEF delta, u, data
<1>5. ASSUME NEW q \in 0 .. NumQueries - 1, NEW c \in 0 .. 3
      PROVE  At(u, c, q, 0, 0) = Told!Box(q, c, rounds + 1)
  <2> DEFINE i == Flat(BoxNe, c, q, 0, 0)  box == b.data[i]  d == delta.data[i]
  <2>1. i \in 0 .. Size(BoxNe) - 1
    <3>1. /\ c \in 0 .. BoxNe[1] - 1 /\ q \in 0 .. BoxNe[2] - 1
          /\ 0 \in 0 .. BoxNe[3] - 1 /\ 0 \in 0 .. BoxNe[4] - 1
      BY DEF BoxNe
    <3> QED
      BY <3>1, BoxShape, FlatOf
  <2>2. At(u, c, q, 0, 0) = data[i] /\ At(b, c, q, 0, 0) = box /\ At(delta, c, q, 0, 0) = d
    BY <1>2, <1>4, AtFlat DEF Boxed
  <2>3. box = Told!Box(q, c, rounds) /\ d = [of |-> {<<q, rounds + 1>>}, coord |-> c]
    BY <1>4, <2>2 DEF Boxed
  <2>4. data[i] = Moves(box, d)
    BY <1>3, <2>1 DEF data
  <2> HIDE DEF box, d, i
  <2>5. Moves(box, d) = Told!Box(q, c, rounds + 1)
    BY <2>3, BoxMoves
  <2> QED
    BY <2>2, <2>4, <2>5
<1> QED
  BY <1>2, <1>3, <1>5 DEF Boxed, u, delta

(* The place of a query, by its box.                                       *)
ByBox(q, rounds) ==
  {<<Told!Box(q, 1, rounds), Told!Box(q, 0, rounds), Told!Box(q, 2, rounds), Told!Box(q, 3, rounds)>>}

LEMMA QueryPosAt ==
  ASSUME NEW b, NEW rounds \in Nat, Boxed(b, rounds)
  PROVE  \A s \in 0 .. NumQueries - 1 :
           UNION {At(QueryPosIn(<<1, 0, 2, 3>>, b), c, s, 0, 0) : c \in Channels} = ByBox(s, rounds)
<1> DEFINE order == <<1, 0, 2, 3>>
           u == QueryPosIn(order, b)  ne == RowsNe(NumQueries)
           From(c, q, i2, i3) == {[slot \in 1 .. 4 |-> b.data[q * 4 + order[slot]]]}
<1>1. u.ne = ne /\ u = Tensor(ne, From)
  <2>1. u = Tensor(ne, From)
    BY DEF QueryPosIn, RowsNe
  <2> HIDE DEF u, From, ne
  <2> QED
    BY <2>1 DEF Tensor
<1>2. ASSUME NEW s \in 0 .. NumQueries - 1, NEW c
      PROVE  From(c, s, 0, 0) = ByBox(s, rounds)
  <2> DEFINE f == [slot \in 1 .. 4 |-> b.data[s * 4 + order[slot]]]
             x0 == Told!Box(s, 0, rounds)  x1 == Told!Box(s, 1, rounds)
             x2 == Told!Box(s, 2, rounds)  x3 == Told!Box(s, 3, rounds)
  <2>1. /\ b.data[s * 4 + 0] = x0 /\ b.data[s * 4 + 1] = x1 /\ b.data[s * 4 + 2] = x2 /\ b.data[s * 4 + 3] = x3
    BY BoxAt
  <2>2. order[1] = 1 /\ order[2] = 0 /\ order[3] = 2 /\ order[4] = 3
    OBVIOUS
  <2>3. ByBox(s, rounds) = {<<x1, x0, x2, x3>>}
    BY DEF ByBox
  <2> HIDE DEF order, x0, x1, x2, x3
  <2>4. f[1] = x1 /\ f[2] = x0 /\ f[3] = x2 /\ f[4] = x3 /\ f = [slot \in 1 .. 4 |-> f[slot]]
    BY <2>1, <2>2
  <2> HIDE DEF f
  <2>5. f = <<x1, x0, x2, x3>>
    BY <2>4
  <2> QED
    BY <2>3, <2>5 DEF f
<1> HIDE DEF u, From, ne
<1>3. u.data = [x \in 0 .. Size(ne) - 1 |->
        From(x % ne[1], (x \div ne[1]) % ne[2], (x \div (ne[1] * ne[2])) % ne[3],
             x \div (ne[1] * ne[2] * ne[3]))]
  BY <1>1 DEF Tensor
<1>4. ASSUME NEW c \in Channels, NEW s \in 0 .. NumQueries - 1
      PROVE  At(u, c, s, 0, 0) = ByBox(s, rounds)
  <2>1. /\ u.ne \in Shapes /\ c \in 0 .. u.ne[1] - 1 /\ s \in 0 .. u.ne[2] - 1
        /\ 0 \in 0 .. u.ne[3] - 1 /\ 0 \in 0 .. u.ne[4] - 1
    BY <1>1, Extents, RowShapes DEF RowsNe, Channels, ne
  <2>2. PICK i \in 0 .. Size(u.ne) - 1 :
          /\ At(u, c, s, 0, 0) = u.data[i]
          /\ i % u.ne[1] = c /\ (i \div u.ne[1]) % u.ne[2] = s /\ (i \div (u.ne[1] * u.ne[2])) % u.ne[3] = 0
          /\ i \div (u.ne[1] * u.ne[2] * u.ne[3]) = 0
    BY <2>1, Lands
  <2>3. u.data[i] = From(c, s, 0, 0)
    BY <1>1, <1>3, <2>2
  <2> QED
    BY <1>2, <2>2, <2>3
<1>5. ASSUME NEW s \in 0 .. NumQueries - 1
      PROVE  UNION {At(u, c, s, 0, 0) : c \in Channels} = ByBox(s, rounds)
  <2>1. {At(u, c, s, 0, 0) : c \in Channels} = {ByBox(s, rounds)}
    BY <1>4, Extents
  <2>2. \A B : UNION {B} = B
    OBVIOUS
  <2> QED
    BY <2>1, <2>2
<1> QED
  BY <1>5 DEF u

LEMMA BiasAt ==
  ASSUME NEW b, NEW rounds \in Nat, Boxed(b, rounds), Refine
  PROVE  BiasedBy(RpbBias(b), rounds)
<1> DEFINE u == RpbBias(b)  ne == <<HW, NumQueries, Heads, 1>>
           Sees(x, y, q) ==
             {[x |-> <<b.data[q * 4 + 0], b.data[q * 4 + 2], x>>, y |-> <<b.data[q * 4 + 1], b.data[q * 4 + 3], y>>]}
           Entry(i) ==
             [open |-> TRUE, heads |-> {i \div (HW * NumQueries)},
              bias |-> Sees((i % HW) % Width, (i % HW) \div Width, (i \div HW) % NumQueries)]
<1>1. u = [ne |-> ne, data |-> [i \in 0 .. HW * NumQueries * Heads - 1 |-> Entry(i)]]
  BY DEF RpbBias
<1>2. u.ne = ne /\ u.data = [i \in 0 .. HW * NumQueries * Heads - 1 |-> Entry(i)]
  <2> HIDE DEF u, Entry, ne
  <2> QED
    BY <1>1
<1>3. /\ ne \in Shapes /\ ne[1] = HW /\ ne[2] = NumQueries /\ ne[3] = Heads /\ ne[4] = 1
      /\ Size(ne) = HW * NumQueries * Heads
  BY Extents DEF Shapes, Size
<1> HIDE DEF ne
<1>4. ASSUME NEW r \in 0 .. HW - 1, NEW s \in 0 .. NumQueries - 1, NEW h \in 0 .. Heads - 1
      PROVE  LET e == At(u, r, s, h % u.ne[3], 0)
             IN e.heads \subseteq {h} /\ e.open = TRUE /\ e.bias = Told!Bias(s, PixelOf(r), rounds)
  <2> HIDE DEF u
  <2>1. h % u.ne[3] = h
    <3>1. u.ne[3] = Heads
      BY <1>2, <1>3
    <3> QED
      BY <3>1, Extents
  <2> DEFINE i == Flat(ne, r, s, h, 0)
  <2>2. i \in 0 .. Size(ne) - 1 /\ i % HW = r /\ (i \div HW) % NumQueries = s /\ i \div (HW * NumQueries) = h
    <3>1. /\ r \in 0 .. ne[1] - 1 /\ s \in 0 .. ne[2] - 1 /\ h \in 0 .. ne[3] - 1 /\ 0 \in 0 .. ne[4] - 1
      BY <1>3
    <3>2. /\ i \in 0 .. Size(ne) - 1
          /\ i % ne[1] = r /\ (i \div ne[1]) % ne[2] = s
          /\ (i \div (ne[1] * ne[2])) % ne[3] = h /\ i \div (ne[1] * ne[2] * ne[3]) = 0
      BY <1>3, <3>1, FlatOf
    <3> HIDE DEF i
    <3> DEFINE k == i \div (HW * NumQueries)
    <3>3. HW * NumQueries \in Nat \ {0} /\ Heads \in Nat \ {0} /\ i \in 0 .. (HW * NumQueries) * Heads - 1
      BY <1>3, <3>2, Extents, Prod
    <3>4. k \in 0 .. Heads - 1
      BY <3>3, Within
    <3>5. k % Heads = k
      BY <3>4, Extents
    <3> QED
      BY <1>3, <3>2, <3>5
  <2>3. At(u, r, s, h, 0) = u.data[i]
    BY <1>2, AtFlat
  <2> HIDE DEF i
  <2>4. u.data[i] = Entry(i)
    BY <1>2, <1>3, <2>2
  <2>5. Entry(i) = [open |-> TRUE, heads |-> {h}, bias |-> Sees(r % Width, r \div Width, s)]
    BY <2>2
  <2>6. Sees(r % Width, r \div Width, s) = Told!Bias(s, PixelOf(r), rounds)
    <3> DEFINE x0 == Told!Box(s, 0, rounds)  x1 == Told!Box(s, 1, rounds)
               x2 == Told!Box(s, 2, rounds)  x3 == Told!Box(s, 3, rounds)
               x == r % Width  y == r \div Width
    <3>1. /\ b.data[s * 4 + 0] = x0 /\ b.data[s * 4 + 1] = x1 /\ b.data[s * 4 + 2] = x2
          /\ b.data[s * 4 + 3] = x3
      BY BoxAt
    <3>2. Told!Bias(s, PixelOf(r), rounds) = {[x |-> <<x0, x2, x>>, y |-> <<x1, x3, y>>]}
      BY DEF Told!Bias, PixelOf, Refine
    <3> HIDE DEF x0, x1, x2, x3, x, y
    <3>3. Sees(x, y, s) = {[x |-> <<x0, x2, x>>, y |-> <<x1, x3, y>>]}
      BY <3>1
    <3> QED
      BY <3>2, <3>3 DEF x, y
  <2> HIDE DEF Sees, Entry
  <2> DEFINE e == At(u, r, s, h % u.ne[3], 0)
  <2>7. e = [open |-> TRUE, heads |-> {h}, bias |-> Sees(r % Width, r \div Width, s)]
    BY <2>1, <2>3, <2>4, <2>5
  <2> HIDE DEF e
  <2>8. e.heads = {h} /\ e.open = TRUE /\ e.bias = Sees(r % Width, r \div Width, s)
    BY <2>7
  <2> QED
    BY <2>6, <2>8 DEF e
<1> HIDE DEF u
<1> QED
  BY <1>4 DEF BiasedBy, u

LEMMA NoBiasAt ==
  ASSUME ~ Refine, NEW depth
  PROVE  BiasedBy(NoMask(HW, NumQueries), depth)
<1> DEFINE a == [open |-> 0 .. HW - 1, bias |-> [x \in (0 .. NumQueries - 1) \X (0 .. HW - 1) |-> {}]]
           mask == NoMask(HW, NumQueries)
<1>1. /\ a.open = 0 .. HW - 1
      /\ \A r \in 0 .. HW - 1, s \in 0 .. NumQueries - 1 : a.bias[<<s, r>>] = {}
  OBVIOUS
<1> HIDE DEF a
<1>2. Lets(mask, HW, NumQueries, a)
  <2>1. Lets(Mask(HW, NumQueries, a.open), HW, NumQueries, a)
    BY <1>1, Extents, MaskLets
  <2> QED
    BY <1>1, <2>1 DEF NoMask
<1>3. \A q, p : Told!Bias(q, p, depth) = {}
  BY DEF Told!Bias, Refine
<1> HIDE DEF mask
<1>4. ASSUME NEW r \in 0 .. HW - 1, NEW s \in 0 .. NumQueries - 1, NEW h \in 0 .. Heads - 1
      PROVE  LET e == At(mask, r, s, h % mask.ne[3], 0)
             IN e.heads \subseteq {h} /\ e.open = TRUE /\ e.bias = Told!Bias(s, PixelOf(r), depth)
  <2> DEFINE e == At(mask, r, s, h % mask.ne[3], 0)
  <2>1. e.heads \subseteq {h} /\ e.open = (r \in a.open) /\ e.bias = a.bias[<<s, r>>]
    BY <1>2 DEF Lets
  <2> HIDE DEF e
  <2>2. e.open = TRUE
    BY <1>1, <2>1
  <2>3. e.bias = Told!Bias(s, PixelOf(r), depth)
    BY <1>1, <1>3, <2>1
  <2> QED
    BY <2>1, <2>2, <2>3 DEF e
<1> QED
  BY <1>4 DEF BiasedBy, mask

-----------------------------------------------------------------------------
(***************************************************************************)
(* The run, and the detector that Detr tells.                              *)
(***************************************************************************)

(* Layers behind the rows of the pixels and of the queries.                *)
Encoded == IF pc = "encode" THEN layer ELSE EncoderLayers
Decoded ==
  IF pc \in {"constants", "bridge", "encode", "weights"} THEN 0
  ELSE IF pc = "decode" THEN layer ELSE DecoderLayers

BoxInv ==
  IF pc = "constants" THEN boxes = NoTensor
  ELSE Boxed(boxes, IF Refine THEN Decoded ELSE 0)

PosInv == pc \in {"bridge", "encode", "weights", "decode"} => PlacedBy(queryPos, Decoded)

BiasInv == pc = "decode" => BiasedBy(bias, layer)

RowInv ==
  IF pc \in {"constants", "bridge"} THEN hidden = NoTensor /\ queries = NoTensor
  ELSE /\ TextRows
       /\ Rows(hidden, HW, EncRows(Encoded))
       /\ Rows(queries, NumQueries, DecRows(Decoded))

DetrInv == EndInv /\ (pc # "failed" => BoxInv /\ PosInv /\ BiasInv /\ RowInv)

LEMMA QueryPosIs ==
  ASSUME NEW q, NEW depth
  PROVE  Told!QueryPos(q, depth) =
           IF Refine /\ depth > 0 THEN ByBox(q, depth)
           ELSE IF "query_pos" \in given THEN ByBox(q, 0) ELSE {}
BY DEF Told!QueryPos, ByBox, Refine

(* Who attends where does not depend on the state but for what is given.   *)
LEMMA SameGiven ==
  ASSUME given' = given, NEW depth
  PROVE  /\ PlacedBy(queryPos, depth)' <=> PlacedBy(queryPos', depth)
         /\ BiasedBy(bias, depth)' <=> BiasedBy(bias', depth)
         /\ DecRows(depth)' = DecRows(depth)
<1>1. \A q, d : Told!QueryPos(q, d)' = Told!QueryPos(q, d)
  BY DEF Told!QueryPos
<1>2. \A q, p, d : Told!Bias(q, p, d)' = Told!Bias(q, p, d)
  BY DEF Told!Bias
<1>3. PlacedBy(queryPos, depth)' <=> PlacedBy(queryPos', depth)
  BY <1>1 DEF PlacedBy
<1>4. BiasedBy(bias, depth)' <=> BiasedBy(bias', depth)
  BY <1>2 DEF BiasedBy
<1>5. DecRows(depth)' = DecRows(depth)
  BY DEF DecRows, DecRow, Told!DecodedRow, Told!QueryPos, Told!Bias
<1> QED
  BY <1>3, <1>4, <1>5

LEMMA PlacesFromBoxes ==
  ASSUME NEW b, NEW rounds \in Nat, Boxed(b, rounds), IF rounds = 0 THEN "query_pos" \in given ELSE Refine
  PROVE  PlacedBy(QueryPosIn(<<1, 0, 2, 3>>, b), rounds)
<1>1. \A s \in 0 .. NumQueries - 1 : Told!QueryPos(s, rounds) = ByBox(s, rounds)
  BY QueryPosIs
<1> QED
  BY <1>1, QueryPosAt DEF PlacedBy

LEMMA NoPlaces ==
  ASSUME "query_pos" \notin given
  PROVE  PlacedBy(NoPos([ne |-> <<C, NumQueries, 1, 1>>]), 0)
<1> DEFINE t == [ne |-> <<C, NumQueries, 1, 1>>]
<1>1. t.ne = RowsNe(NumQueries)
  BY DEF RowsNe
<1>2. NumQueries \in Nat \ {0}
  BY Extents
<1> HIDE DEF t
<1>3. \A s \in 0 .. NumQueries - 1, c \in Channels : At(NoPos(t), c, s, 0, 0) = {}
  BY <1>1, <1>2, NoPosAt
<1>4. \A s \in 0 .. NumQueries - 1 : Told!QueryPos(s, 0) = {}
  BY QueryPosIs
<1> DEFINE p == NoPos(t)
<1> HIDE DEF p
<1>5. \A s \in 0 .. NumQueries - 1 : UNION {At(p, c, s, 0, 0) : c \in Channels} = {}
  BY <1>3 DEF p
<1>6. PlacedBy(p, 0)
  BY <1>4, <1>5 DEF PlacedBy
<1> QED
  BY <1>6 DEF p, t

LEMMA BridgesAreRows ==
  ASSUME text' = Tensor(<<C, TextSeq, 1, 1>>, LAMBDA c, s, i2, i3 : Element(<<s>>, c)),
         queries' = Tensor(<<C, NumQueries, 1, 1>>, LAMBDA c, s, i2, i3 : Element(<<s, 0>>, c))
  PROVE  TextRows' /\ Rows(queries', NumQueries, DecRows(0))
<1>1. TextSeq \in Nat \ {0} /\ NumQueries \in Nat \ {0} /\ C \in Nat \ {0}
  BY Extents
<1>2. Bridged(text', TextSeq, TextIds)
  <2> DEFINE ne == RowsNe(TextSeq)
  <2>1. IsTensor(text') /\ text'.ne = ne
    BY DEF Tensor, IsTensor, RowsNe
  <2>2. text'.data = [x \in 0 .. Size(ne) - 1 |-> Element(<<(x \div C) % TextSeq>>, x % C)]
    BY DEF Tensor, RowsNe
  <2>3. \A x \in 0 .. Size(ne) - 1 : TextIds[(x \div C) % TextSeq] = <<(x \div C) % TextSeq>>
    <3> TAKE x \in 0 .. Size(ne) - 1
    <3>1. (x \div C) % TextSeq \in 0 .. TextSeq - 1
      BY <1>1, RowShapes, CellOf DEF RowsNe
    <3> QED
      BY <3>1 DEF TextIds
  <2> HIDE DEF ne
  <2> QED
    BY <2>1, <2>2, <2>3 DEF Bridged, ne
<1>3. Bridged(queries', NumQueries, QueryIds(0))
  <2> DEFINE ne == RowsNe(NumQueries)
  <2>1. IsTensor(queries') /\ queries'.ne = ne
    BY DEF Tensor, IsTensor, RowsNe
  <2>2. queries'.data = [x \in 0 .. Size(ne) - 1 |-> Element(<<(x \div C) % NumQueries, 0>>, x % C)]
    BY DEF Tensor, RowsNe
  <2>3. \A x \in 0 .. Size(ne) - 1 : QueryIds(0)[(x \div C) % NumQueries] = <<(x \div C) % NumQueries, 0>>
    <3> TAKE x \in 0 .. Size(ne) - 1
    <3>1. (x \div C) % NumQueries \in 0 .. NumQueries - 1
      BY <1>1, RowShapes, CellOf DEF RowsNe
    <3> QED
      BY <3>1 DEF QueryIds
  <2> HIDE DEF ne
  <2> QED
    BY <2>1, <2>2, <2>3 DEF Bridged, ne
<1>4. Rows(text', TextSeq, [s \in 0 .. TextSeq - 1 |-> Told!Row(TextIds[s], {}, {}, {})])
  BY <1>1, <1>2, BridgedRows
<1>5. Rows(queries', NumQueries, [s \in 0 .. NumQueries - 1 |-> Told!Row(QueryIds(0)[s], {}, {}, {})])
  BY <1>1, <1>3, BridgedRows
<1>6. [s \in 0 .. TextSeq - 1 |-> Told!Row(TextIds[s], {}, {}, {})]
        = [s \in 0 .. TextSeq - 1 |-> Told!Row(<<s>>, {}, {}, {})]
  BY DEF TextIds
<1>7. [s \in 0 .. NumQueries - 1 |-> Told!Row(QueryIds(0)[s], {}, {}, {})] = DecRows(0)
  BY DEF QueryIds, DecRows, DecRow
<1> QED
  BY <1>4, <1>5, <1>6, <1>7 DEF TextRows

LEMMA LayerBelow ==
  ASSUME DetrInv, pc # "failed"
  PROVE  layer \in Nat /\ (pc = "encode" => layer < EncoderLayers) /\ (pc = "decode" => layer < DecoderLayers)
BY Extents DEF DetrInv, EndInv, PlaceInv, ToCome, LayersOf

LEMMA EncodeMakes ==
  ASSUME DetrInv, Encode
  PROVE  Rows(hidden', HW, EncRows(layer + 1))
<1>1. pc = "encode" /\ hidden' = EncoderLayer(hidden)
  BY DEF Encode, Ready
<1>2. RowInv /\ layer \in Nat /\ layer < EncoderLayers
  BY <1>1, LayerBelow DEF DetrInv
<1>3. TextRows /\ Rows(hidden, HW, EncRows(layer))
  BY <1>1, <1>2 DEF RowInv, Encoded
<1> QED
  BY <1>1, <1>2, <1>3, EncoderRows

LEMMA DecodeMakes ==
  ASSUME DetrInv, Decode, NEW d \in Nat, d = layer + 1
  PROVE  Rows(queries', NumQueries, DecRows(d)) /\ Boxed(boxes', IF Refine THEN d ELSE 0)
<1>1. /\ pc = "decode" /\ queries' = DecoderLayer(queries)
      /\ IF Refine THEN RefineBoxes ELSE UNCHANGED <<boxes, queryPos, bias>>
  BY DEF Decode, Ready, boxVars
<1>2. BoxInv /\ PosInv /\ BiasInv /\ RowInv /\ layer \in Nat /\ layer < DecoderLayers
  BY <1>1, LayerBelow DEF DetrInv
<1>3. Encoded = EncoderLayers /\ Decoded = layer
  BY <1>1 DEF Encoded, Decoded
<1>4. /\ TextRows /\ Rows(hidden, HW, EncRows(EncoderLayers))
      /\ Rows(queries, NumQueries, DecRows(layer))
      /\ PlacedBy(queryPos, layer) /\ BiasedBy(bias, layer)
      /\ Boxed(boxes, IF Refine THEN layer ELSE 0)
  BY <1>1, <1>2, <1>3 DEF RowInv, PosInv, BiasInv, BoxInv
<1>5. Rows(queries', NumQueries, DecRows(d))
  BY <1>1, <1>2, <1>4, DecoderRows
<1>6. Boxed(boxes', IF Refine THEN d ELSE 0)
  <2>1. CASE Refine
    <3>1. boxes' = UpdateBoxes(boxes, BoxHead(queries'))
      BY <1>1, <2>1 DEF RefineBoxes
    <3> QED
      BY <1>2, <1>4, <1>5, <2>1, <3>1, BoxesMove
  <2>2. CASE ~ Refine
    BY <1>1, <1>4, <2>2
  <2> QED
    BY <2>1, <2>2
<1> QED
  BY <1>5, <1>6

LEMMA DetrStep ==
  ASSUME DetrInv, [Next]_vars
  PROVE  DetrInv'
<1>0. EndInv /\ EndInv'
  BY GraphStep, PlaceStep DEF DetrInv, EndInv
<1> SUFFICES ASSUME pc' # "failed" PROVE (BoxInv /\ PosInv /\ BiasInv /\ RowInv)'
  BY <1>0 DEF DetrInv
<1> HIDE DEF EndInv
<1>1. /\ EncoderLayers \in Nat \ {0} /\ DecoderLayers \in Nat \ {0}
      /\ NumQueries \in Nat \ {0} /\ HW \in Nat \ {0}
  BY Extents
<1>2. pc # "failed" => layer \in Nat /\ (pc = "encode" => layer < EncoderLayers)
                                    /\ (pc = "decode" => layer < DecoderLayers)
  BY <1>0, <1>1 DEF EndInv, PlaceInv, ToCome, LayersOf
<1>3. CASE OpenGraph \/ UNCHANGED vars
  <2>1. /\ pc' = pc /\ UNCHANGED <<given, layer, text, hidden, queries, boxes, queryPos, bias>>
    BY <1>3 DEF OpenGraph, Fail, vars, choiceVars, boxVars
  <2>2. BoxInv /\ PosInv /\ BiasInv /\ RowInv
    BY <2>1 DEF DetrInv
  <2>3. /\ \A d : PlacedBy(queryPos, d)' <=> PlacedBy(queryPos, d)
        /\ \A d : BiasedBy(bias, d)' <=> BiasedBy(bias, d)
        /\ \A d : DecRows(d)' = DecRows(d)
    BY <2>1, SameGiven
  <2>4. Refine' = Refine /\ Encoded' = Encoded /\ Decoded' = Decoded
    BY <2>1 DEF Refine, Encoded, Decoded
  <2>5. BoxInv' /\ BiasInv'
    BY <2>1, <2>2, <2>3, <2>4 DEF BoxInv, BiasInv
  <2>6. PosInv'
    BY <2>1, <2>2, <2>3, <2>4 DEF PosInv
  <2>7. RowInv'
    BY <2>1, <2>2, <2>3, <2>4 DEF RowInv, TextRows
  <2> QED
    BY <2>5, <2>6, <2>7
<1>4. CASE TensorMissing \/ ComputeFails
  BY <1>4 DEF TensorMissing, ComputeFails, Fail
<1>5. CASE Constants
  <2>1. /\ pc = "constants" /\ pc' = "bridge" /\ UNCHANGED <<given, hidden, queries>>
        /\ boxes' = InitialBoxes
        /\ queryPos' = IF "query_pos" \in given THEN QueryPosLayer0(InitialBoxes)
                       ELSE NoPos([ne |-> <<C, NumQueries, 1, 1>>])
    BY <1>5 DEF Constants, Ready, choiceVars
  <2>2. BoxInv'
    BY <2>1, FirstBoxes DEF BoxInv, Decoded
  <2>3. PlacedBy(queryPos', 0)
    BY <2>1, FirstBoxes, PlacesFromBoxes, NoPlaces DEF QueryPosLayer0
  <2>4. PosInv'
    BY <2>1, <2>3, SameGiven DEF PosInv, Decoded
  <2>5. RowInv'
    BY <2>1 DEF RowInv, DetrInv
  <2> QED
    BY <2>1, <2>2, <2>4, <2>5 DEF BiasInv
<1>6. CASE Bridge
  <2>1. /\ pc = "bridge" /\ pc' = "encode" /\ layer' = layer /\ UNCHANGED <<given, boxes, queryPos>>
        /\ text' = Tensor(<<C, TextSeq, 1, 1>>, LAMBDA c, s, i2, i3 : Element(<<s>>, c))
        /\ queries' = Tensor(<<C, NumQueries, 1, 1>>, LAMBDA c, s, i2, i3 : Element(<<s, 0>>, c))
        /\ hidden' = VisionFeatures
    BY <1>6 DEF Bridge, Ready, choiceVars, boxVars
  <2>2. layer = 0
    <3>1. layer \in 0 .. LayersOf(pc) - 1
      BY <1>0, <2>1 DEF EndInv, PlaceInv, ToCome
    <3>2. pc = "bridge"
      BY <2>1
    <3>3. LayersOf(pc) = 1
      BY <3>2 DEF LayersOf
    <3> QED
      BY <3>1, <3>3
  <2>3. TextRows' /\ Rows(queries', NumQueries, DecRows(0))
    BY <2>1, BridgesAreRows
  <2>4. Rows(hidden', HW, EncRows(0))
    BY <2>1, FeaturesAreRows
  <2>5. Encoded' = 0 /\ Decoded' = 0 /\ Decoded = 0
    BY <2>1, <2>2 DEF Encoded, Decoded
  <2>6. DecRows(0)' = DecRows(0) /\ (PlacedBy(queryPos, 0)' <=> PlacedBy(queryPos, 0))
    BY <2>1, SameGiven
  <2>7. BoxInv /\ PosInv
    BY <2>1 DEF DetrInv
  <2>8. RowInv'
    BY <2>1, <2>3, <2>4, <2>5, <2>6 DEF RowInv
  <2>9. BoxInv' /\ PosInv'
    BY <2>1, <2>5, <2>6, <2>7 DEF BoxInv, PosInv, Refine
  <2> QED
    BY <2>1, <2>8, <2>9 DEF BiasInv
<1>7. CASE Encode
  <2>1. /\ pc = "encode" /\ UNCHANGED <<given, text, queries, boxes, queryPos>>
        /\ IF layer + 1 < EncoderLayers THEN layer' = layer + 1 /\ pc' = "encode"
                                        ELSE layer' = 0 /\ pc' = "weights"
    BY <1>7 DEF Encode, Ready, choiceVars, boxVars
  <2>2. BoxInv /\ PosInv /\ RowInv /\ layer \in Nat /\ layer < EncoderLayers
    BY <1>2, <2>1 DEF DetrInv
  <2>3. Encoded = layer /\ Encoded' = layer + 1 /\ Decoded' = 0 /\ Decoded = 0 /\ Refine' = Refine
    BY <1>1, <2>1, <2>2 DEF Encoded, Decoded, Refine
  <2>4. TextRows /\ Rows(queries, NumQueries, DecRows(0))
    BY <2>1, <2>2, <2>3 DEF RowInv
  <2>5. Rows(hidden', HW, EncRows(layer + 1))
    BY <1>7, EncodeMakes
  <2>6. DecRows(0)' = DecRows(0) /\ (PlacedBy(queryPos, 0)' <=> PlacedBy(queryPos, 0))
    BY <2>1, SameGiven
  <2>7. RowInv'
    BY <2>1, <2>3, <2>4, <2>5, <2>6 DEF RowInv, TextRows
  <2>8. BoxInv' /\ PosInv' /\ BiasInv'
    BY <2>1, <2>2, <2>3, <2>6 DEF BoxInv, PosInv, BiasInv
  <2> QED
    BY <2>7, <2>8
<1>8. CASE LoadRefinement
  <2>1. /\ pc = "weights" /\ pc' = "decode" /\ layer' = layer
        /\ bias' = IF Refine THEN RpbBias(boxes) ELSE NoMask(HW, NumQueries)
        /\ UNCHANGED <<given, text, hidden, queries, boxes, queryPos>>
    BY <1>8 DEF LoadRefinement, Ready, choiceVars
  <2>2. layer = 0
    BY <1>0, <2>1 DEF EndInv, PlaceInv, ToCome, LayersOf
  <2>3. BoxInv /\ PosInv /\ RowInv
    BY <2>1 DEF DetrInv
  <2>4. Encoded = EncoderLayers /\ Encoded' = EncoderLayers /\ Decoded' = 0 /\ Decoded = 0 /\ Refine' = Refine
    BY <2>1, <2>2 DEF Encoded, Decoded, Refine
  <2>5. /\ DecRows(0)' = DecRows(0) /\ (PlacedBy(queryPos, 0)' <=> PlacedBy(queryPos, 0))
        /\ BiasedBy(bias, 0)' <=> BiasedBy(bias', 0)
    BY <2>1, SameGiven
  <2>6. Boxed(boxes, 0)
    BY <2>1, <2>3, <2>4 DEF BoxInv
  <2>7. BiasedBy(bias', 0)
    BY <2>1, <2>6, BiasAt, NoBiasAt
  <2>8. BoxInv' /\ PosInv' /\ BiasInv'
    BY <2>1, <2>2, <2>3, <2>4, <2>5, <2>7 DEF BoxInv, PosInv, BiasInv
  <2>9. RowInv'
    BY <2>1, <2>3, <2>4, <2>5 DEF RowInv, TextRows
  <2> QED
    BY <2>8, <2>9
<1>9. CASE Decode
  <2>1. /\ pc = "decode" /\ queries' = DecoderLayer(queries)
        /\ IF Refine THEN RefineBoxes ELSE UNCHANGED <<boxes, queryPos, bias>>
        /\ IF layer + 1 < DecoderLayers THEN layer' = layer + 1 /\ pc' = "decode"
                                        ELSE layer' = 0 /\ pc' = "fuse"
        /\ UNCHANGED <<given, text, hidden>>
    BY <1>9 DEF Decode, Ready, choiceVars, boxVars
  <2>2. BoxInv /\ PosInv /\ BiasInv /\ RowInv /\ layer \in Nat /\ layer < DecoderLayers
    BY <1>2, <2>1 DEF DetrInv
  <2> PICK d \in Nat : d = layer + 1
    BY <2>2
  <2>3. /\ Encoded = EncoderLayers /\ Encoded' = EncoderLayers
        /\ Decoded = layer /\ Decoded' = d /\ Refine' = Refine
    <3>1. Encoded = EncoderLayers /\ Decoded = layer /\ Refine' = Refine
      BY <2>1 DEF Encoded, Decoded, Refine
    <3>2. pc' \in {"decode", "fuse"} /\ (pc' = "decode" => layer' = d) /\ (pc' = "fuse" => d = DecoderLayers)
      BY <1>1, <2>1, <2>2
    <3>3. Encoded' = EncoderLayers /\ Decoded' = d
      BY <3>2 DEF Encoded, Decoded
    <3> QED
      BY <3>1, <3>3
  <2>4. /\ TextRows /\ Rows(hidden, HW, EncRows(EncoderLayers))
        /\ PlacedBy(queryPos, layer) /\ BiasedBy(bias, layer)
    BY <2>1, <2>2, <2>3 DEF RowInv, PosInv, BiasInv
  <2>5. Rows(queries', NumQueries, DecRows(d))
    BY <1>9, DecodeMakes
  <2>6. /\ DecRows(d)' = DecRows(d)
        /\ PlacedBy(queryPos, d)' <=> PlacedBy(queryPos', d)
        /\ BiasedBy(bias, d)' <=> BiasedBy(bias', d)
    BY <2>1, SameGiven
  <2>7. Boxed(boxes', IF Refine THEN d ELSE 0)
    BY <1>9, DecodeMakes
  <2>8. layer + 1 < DecoderLayers => PlacedBy(queryPos', d) /\ BiasedBy(bias', d)
    <3> SUFFICES ASSUME layer + 1 < DecoderLayers
                 PROVE  PlacedBy(queryPos', d) /\ BiasedBy(bias', d)
      OBVIOUS
    <3>1. CASE Refine
      <4>1. queryPos' = QueryPosIn(<<1, 0, 2, 3>>, boxes') /\ bias' = RpbBias(boxes')
        BY <2>1, <3>1 DEF RefineBoxes, CpuComputeQueryPos
      <4>2. d \in Nat /\ d # 0 /\ Boxed(boxes', d)
        BY <2>2, <2>7, <3>1
      <4> QED
        BY <3>1, <4>1, <4>2, PlacesFromBoxes, BiasAt
    <3>2. CASE ~ Refine
      <4>1. queryPos' = queryPos /\ bias' = bias
        BY <2>1, <3>2
      <4>2. \A s \in 0 .. NumQueries - 1 : Told!QueryPos(s, d) = Told!QueryPos(s, layer)
        BY <3>2, QueryPosIs
      <4>3. PlacedBy(queryPos, d)
        BY <2>4, <4>2 DEF PlacedBy
      <4>4. \A q, p, e : Told!Bias(q, p, e) = {}
        BY <3>2 DEF Told!Bias, Refine
      <4>5. BiasedBy(bias, d)
        BY <2>4, <4>4 DEF BiasedBy
      <4> QED
        BY <4>1, <4>3, <4>5
    <3> QED
      BY <3>1, <3>2
  <2>9. RowInv'
    BY <2>1, <2>3, <2>4, <2>5, <2>6 DEF RowInv, TextRows
  <2>10. BoxInv'
    BY <2>1, <2>3, <2>7 DEF BoxInv
  <2>11. PosInv' /\ BiasInv'
    <3>1. pc' \in {"decode", "fuse"} /\ (pc' = "decode" => layer' = d /\ layer + 1 < DecoderLayers)
      BY <1>1, <2>1, <2>2
    <3>2. pc' = "decode" => PlacedBy(queryPos, d)' /\ BiasedBy(bias, d)'
      BY <2>6, <2>8, <3>1
    <3> QED
      BY <2>3, <3>1, <3>2 DEF PosInv, BiasInv
  <2> QED
    BY <2>9, <2>10, <2>11
<1>10. CASE Fuse \/ Stage0 \/ Stage1 \/ ScoreAndMask
  <2>1. /\ pc \in {"fuse", "stage0", "stage1", "tail"} /\ pc' \in {"stage0", "stage1", "tail", "done"}
        /\ UNCHANGED <<given, text, hidden, queries, boxes>>
    BY <1>10 DEF Fuse, Stage0, Stage1, ScoreAndMask, Ready, choiceVars, boxVars
  <2>2. BoxInv /\ RowInv
    BY <2>1 DEF DetrInv
  <2>3. /\ Encoded = EncoderLayers /\ Encoded' = EncoderLayers
        /\ Decoded = DecoderLayers /\ Decoded' = DecoderLayers /\ Refine' = Refine
    BY <2>1 DEF Encoded, Decoded, Refine
  <2>4. DecRows(DecoderLayers)' = DecRows(DecoderLayers)
    BY <2>1, SameGiven
  <2>5. RowInv'
    BY <2>1, <2>2, <2>3, <2>4 DEF RowInv, TextRows
  <2>6. BoxInv' /\ PosInv' /\ BiasInv'
    BY <2>1, <2>2, <2>3 DEF BoxInv, PosInv, BiasInv
  <2> QED
    BY <2>5, <2>6
<1> QED
  BY <1>3, <1>4, <1>5, <1>6, <1>7, <1>8, <1>9, <1>10 DEF Next, Finished

(* A tensor of rows, as the abstract detector sees it.                     *)
LEMMA RowSeen ==
  ASSUME NEW t, NEW n \in Nat \ {0}, NEW rows, Rows(t, n, rows), NEW s \in 0 .. n - 1
  PROVE  RowAt(t, s) = RowOf(rows[s]) /\ t # NoTensor /\ At(t, 0, s, 0, 0).id = rows[s].id
<1>1. 0 \in Channels /\ C \in Nat \ {0}
  BY Extents
<1>2. \A c \in Channels : At(t, c, s, 0, 0) = RowElement(rows[s], c)
  BY DEF Rows
<1>3. InOrder(t, s)
  BY <1>2 DEF InOrder, RowElement
<1>4. Uniform(t, s)
  <2> DEFINE U == {[At(t, c, s, 0, 0) EXCEPT !.chan = 0] : c \in Channels}
  <2>1. \A c \in Channels : [At(t, c, s, 0, 0) EXCEPT !.chan = 0] = RowElement(rows[s], 0)
    BY <1>2 DEF RowElement
  <2>2. U = {RowElement(rows[s], 0)}
    BY <1>1, <2>1
  <2>3. Cardinality(U) = 1
    BY <2>2, FS_Singleton
  <2> QED
    BY <2>3 DEF Uniform
<1>5. RowOf(At(t, 0, s, 0, 0)) = RowOf(rows[s]) /\ At(t, 0, s, 0, 0).id = rows[s].id
  BY <1>1, <1>2 DEF RowOf, RowElement
<1>6. t # NoTensor
  <2>1. t.ne = RowsNe(n)
    BY DEF Rows
  <2> QED
    BY <1>1, <2>1 DEF NoTensor, RowsNe
<1> QED
  BY <1>3, <1>4, <1>5, <1>6 DEF RowAt

(* What the abstract detector makes of the tensors.                        *)
EncodedIn(t) == IF t = NoTensor THEN 0 ELSE t.data[0].id[3]
MemoryIn(t) ==
  [p \in (0 .. Height - 1) \X (0 .. Width - 1) |->
     IF t = NoTensor THEN FirstRow(<<p[1], p[2], 0>>) ELSE RowAt(t, p[1] * Width + p[2])]
DecodedIn(t) == IF t = NoTensor THEN 0 ELSE t.data[0].id[2]
QueriesIn(t) ==
  [q \in 0 .. NumQueries - 1 |-> IF t = NoTensor THEN FirstRow(<<q, 0>>) ELSE RowAt(t, q)]
BoxesIn(t) ==
  [q \in 0 .. NumQueries - 1 |-> [c \in 0 .. 3 |->
     IF t = NoTensor THEN [query |-> q, coord |-> c, moved |-> <<>>] ELSE At(t, c, q, 0, 0)]]

LEMMA FirstElement ==
  ASSUME NEW t, NEW n \in Nat \ {0}, NEW rows, Rows(t, n, rows)
  PROVE  t.data[0] = At(t, 0, 0, 0, 0)
<1>1. t.ne = RowsNe(n)
  BY DEF Rows
<1>2. Flat(RowsNe(n), 0, 0, 0, 0) = 0
  BY Extents DEF Flat, RowsNe
<1> QED
  BY <1>1, <1>2, AtFlat

LEMMA EncRowParts ==
  ASSUME NEW p, NEW depth
  PROVE  RowOf(EncRow(p, depth)) = EncRow(p, depth) /\ EncRow(p, depth).id = Told!PixelId(p, depth)
<1>1. \A id, x, y, z : LET w == Told!Row(id, x, y, z) IN RowOf(w) = w /\ w.id = id
  BY DEF RowOf, Told!Row
<1>2. CASE depth = 0
  BY <1>1, <1>2 DEF EncRow
<1>3. CASE depth # 0
  <2>1. EncRow(p, depth) = Told!EncodedRow(p, depth)
    BY <1>3 DEF EncRow
  <2> QED
    BY <1>1, <2>1 DEF Told!EncodedRow
<1> QED
  BY <1>2, <1>3

LEMMA DecRowParts ==
  ASSUME NEW q, NEW depth
  PROVE  RowOf(DecRow(q, depth)) = DecRow(q, depth) /\ DecRow(q, depth).id = <<q, depth>>
<1>1. \A id, x, y, z : LET w == Told!Row(id, x, y, z) IN RowOf(w) = w /\ w.id = id
  BY DEF RowOf, Told!Row
<1>2. CASE depth = 0
  BY <1>1, <1>2 DEF DecRow
<1>3. CASE depth # 0
  <2>1. DecRow(q, depth) = Told!DecodedRow(q, depth)
    BY <1>3 DEF DecRow
  <2> QED
    BY <1>1, <2>1 DEF Told!DecodedRow
<1> QED
  BY <1>2, <1>3

LEMMA PixelsSeen ==
  ASSUME NEW t, NEW depth, Rows(t, HW, EncRows(depth))
  PROVE  EncodedIn(t) = depth /\ MemoryIn(t) = [p \in Told!Pixels |-> EncRow(p, depth)]
<1>1. HW \in Nat \ {0} /\ Width \in Nat \ {0} /\ Height \in Nat \ {0} /\ HW = Height * Width
  BY Extents
<1>2. ASSUME NEW s \in 0 .. HW - 1
      PROVE  /\ RowAt(t, s) = EncRow(PixelOf(s), depth) /\ t # NoTensor
             /\ At(t, 0, s, 0, 0).id = Told!PixelId(PixelOf(s), depth)
  <2>1. EncRows(depth)[s] = EncRow(PixelOf(s), depth)
    BY DEF EncRows
  <2> QED
    BY <1>1, <2>1, RowSeen, EncRowParts
<1>3. 0 \in 0 .. HW - 1
  BY <1>1
<1>4. EncodedIn(t) = depth
  <2>1. t.data[0].id = Told!PixelId(PixelOf(0), depth) /\ t # NoTensor
    BY <1>1, <1>2, <1>3, FirstElement
  <2> QED
    BY <2>1 DEF EncodedIn, Told!PixelId
<1>5. ASSUME NEW p \in Told!Pixels
      PROVE  MemoryIn(t)[p] = EncRow(p, depth)
  <2>1. p[1] * Width + p[2] \in 0 .. HW - 1 /\ PixelOf(p[1] * Width + p[2]) = p
    BY PixelOfAll
  <2> QED
    BY <1>2, <2>1 DEF MemoryIn, Told!Pixels
<1>6. MemoryIn(t) = [p \in Told!Pixels |-> MemoryIn(t)[p]]
  BY DEF MemoryIn, Told!Pixels
<1> QED
  BY <1>4, <1>5, <1>6

LEMMA QueriesSeen ==
  ASSUME NEW t, NEW depth, Rows(t, NumQueries, DecRows(depth))
  PROVE  DecodedIn(t) = depth /\ QueriesIn(t) = [q \in Told!Queries |-> DecRow(q, depth)]
<1>1. NumQueries \in Nat \ {0}
  BY Extents
<1>2. ASSUME NEW s \in 0 .. NumQueries - 1
      PROVE  /\ RowAt(t, s) = DecRow(s, depth) /\ t # NoTensor
             /\ At(t, 0, s, 0, 0).id = <<s, depth>>
  <2>1. DecRows(depth)[s] = DecRow(s, depth)
    BY DEF DecRows
  <2> QED
    BY <1>1, <2>1, RowSeen, DecRowParts
<1>3. 0 \in 0 .. NumQueries - 1
  BY <1>1
<1>4. DecodedIn(t) = depth
  <2>1. t.data[0].id = <<0, depth>> /\ t # NoTensor
    BY <1>1, <1>2, <1>3, FirstElement
  <2> QED
    BY <2>1 DEF DecodedIn
<1> QED
  BY <1>2, <1>4 DEF QueriesIn, Told!Queries

LEMMA BoxesSeen ==
  ASSUME NEW t, NEW rounds, Boxed(t, rounds)
  PROVE  BoxesIn(t) = Told!BoxesAfter(rounds)
<1>1. t # NoTensor
  <2>1. t.ne = BoxNe
    BY DEF Boxed
  <2> QED
    BY <2>1 DEF BoxNe, NoTensor
<1> QED
  BY <1>1 DEF BoxesIn, Boxed, Told!BoxesAfter, Told!Queries

NothingSeen ==
  /\ EncodedIn(NoTensor) = 0 /\ MemoryIn(NoTensor) = [p \in Told!Pixels |-> EncRow(p, 0)]
  /\ DecodedIn(NoTensor) = 0 /\ QueriesIn(NoTensor) = [q \in Told!Queries |-> DecRow(q, 0)]
  /\ BoxesIn(NoTensor) = Told!BoxesAfter(0)

LEMMA SeesNothing == NothingSeen
<1>1. \A id : FirstRow(id) = Told!Row(id, {}, {}, {})
  BY DEF FirstRow, Told!Row
<1>2. \A p \in Told!Pixels : EncRow(p, 0) = FirstRow(<<p[1], p[2], 0>>)
  BY <1>1 DEF EncRow, Told!PixelId
<1>3. \A q \in Told!Queries : DecRow(q, 0) = FirstRow(<<q, 0>>)
  BY <1>1 DEF DecRow
<1>4. MemoryIn(NoTensor) = [p \in Told!Pixels |-> EncRow(p, 0)]
  BY <1>2 DEF MemoryIn, Told!Pixels
<1>5. QueriesIn(NoTensor) = [q \in Told!Queries |-> DecRow(q, 0)]
  BY <1>3 DEF QueriesIn, Told!Queries
<1>6. BoxesIn(NoTensor) = Told!BoxesAfter(0)
  <2>1. \A q, c : Told!Box(q, c, 0) = [query |-> q, coord |-> c, moved |-> <<>>]
    BY NoMoves
  <2> QED
    BY <2>1 DEF BoxesIn, Told!BoxesAfter, Told!Queries
<1> QED
  BY <1>4, <1>5, <1>6 DEF NothingSeen, EncodedIn, DecodedIn

(* What the abstract detector sees of a state of the run.                  *)
Seen ==
  /\ EncodedIn(hidden) = IF pc \in {"constants", "bridge"} THEN 0 ELSE Encoded
  /\ MemoryIn(hidden) = [p \in Told!Pixels |-> EncRow(p, EncodedIn(hidden))]
  /\ DecodedIn(queries) = Decoded
  /\ QueriesIn(queries) = [q \in Told!Queries |-> DecRow(q, Decoded)]
  /\ BoxesIn(boxes) = Told!BoxesAfter(IF Refine THEN Decoded ELSE 0)

LEMMA DetrSeen ==
  ASSUME DetrInv, pc # "failed"
  PROVE  Seen
<1>1. BoxInv /\ RowInv
  BY DEF DetrInv
<1>2. BoxesIn(boxes) = Told!BoxesAfter(IF Refine THEN Decoded ELSE 0)
  <2>1. CASE pc = "constants"
    BY <1>1, <2>1, SeesNothing DEF BoxInv, Decoded, NothingSeen
  <2>2. CASE pc # "constants"
    BY <1>1, <2>2, BoxesSeen DEF BoxInv
  <2> QED
    BY <2>1, <2>2
<1>3. CASE pc \in {"constants", "bridge"}
  BY <1>1, <1>2, <1>3, SeesNothing DEF RowInv, Decoded, NothingSeen, Seen
<1>4. CASE pc \notin {"constants", "bridge"}
  BY <1>1, <1>2, <1>4, PixelsSeen, QueriesSeen DEF RowInv, Seen
<1> QED
  BY <1>3, <1>4

LEMMA DetrInit ==
  ASSUME Init
  PROVE  DetrInv /\ Told!Init
<1>1. EndInv
  BY EndInit
<1>2. pc = "constants" /\ boxes = NoTensor /\ hidden = NoTensor /\ queries = NoTensor
      /\ given \in SUBSET {"boxes", "query_pos"}
  BY DEF Init
<1>3. BoxInv /\ PosInv /\ BiasInv /\ RowInv
  BY <1>2 DEF BoxInv, PosInv, BiasInv, RowInv
<1>4. Told!Init
  BY <1>2, SeesNothing DEF NothingSeen, Told!Init, EncodedIn, MemoryIn, DecodedIn, QueriesIn, BoxesIn,
       EncRow, DecRow
<1> QED
  BY <1>1, <1>3, <1>4 DEF DetrInv

LEMMA StepSeen ==
  ASSUME DetrInv, DetrInv', [Next]_vars
  PROVE  [Told!Next]_Told!detrVars
<1> DEFINE view == <<given, EncodedIn(hidden), MemoryIn(hidden), DecodedIn(queries), QueriesIn(queries),
                     BoxesIn(boxes)>>
           seen == <<given', EncodedIn(hidden'), MemoryIn(hidden'), DecodedIn(queries'),
                     QueriesIn(queries'), BoxesIn(boxes')>>
<1>1. Told!detrVars' = Told!detrVars <=> seen = view
  BY DEF Told!detrVars, EncodedIn, MemoryIn, DecodedIn, QueriesIn, BoxesIn
<1>2. CASE UNCHANGED <<given, hidden, queries, boxes>>
  BY <1>1, <1>2
<1>3. CASE Constants
  <2>1. pc = "constants" /\ boxes' = InitialBoxes /\ UNCHANGED <<given, hidden, queries>>
    BY <1>3 DEF Constants, Ready, choiceVars
  <2>2. boxes = NoTensor
    BY <2>1 DEF DetrInv, BoxInv
  <2>3. BoxesIn(boxes') = BoxesIn(boxes)
    BY <2>1, <2>2, FirstBoxes, BoxesSeen, SeesNothing DEF NothingSeen
  <2> QED
    BY <1>1, <2>1, <2>3
<1>4. CASE Bridge
  <2>1. /\ pc = "bridge" /\ UNCHANGED <<given, boxes>>
        /\ text' = Tensor(<<C, TextSeq, 1, 1>>, LAMBDA c, s, i2, i3 : Element(<<s>>, c))
        /\ queries' = Tensor(<<C, NumQueries, 1, 1>>, LAMBDA c, s, i2, i3 : Element(<<s, 0>>, c))
        /\ hidden' = VisionFeatures
    BY <1>4 DEF Bridge, Ready, choiceVars, boxVars
  <2>2. hidden = NoTensor /\ queries = NoTensor
    BY <2>1 DEF DetrInv, RowInv
  <2>3. Rows(hidden', HW, EncRows(0)) /\ Rows(queries', NumQueries, DecRows(0))
    BY <2>1, FeaturesAreRows, BridgesAreRows
  <2>4. EncodedIn(hidden') = EncodedIn(hidden) /\ MemoryIn(hidden') = MemoryIn(hidden)
    BY <2>2, <2>3, PixelsSeen, SeesNothing DEF NothingSeen
  <2>5. DecodedIn(queries') = DecodedIn(queries) /\ QueriesIn(queries') = QueriesIn(queries)
    BY <2>2, <2>3, QueriesSeen, SeesNothing DEF NothingSeen
  <2> QED
    BY <1>1, <2>1, <2>4, <2>5
<1>5. CASE Encode
  <2>1. pc = "encode" /\ UNCHANGED <<given, queries, boxes>>
    BY <1>5 DEF Encode, Ready, choiceVars, boxVars
  <2>2. layer \in Nat /\ layer < EncoderLayers /\ Seen
    BY <2>1, LayerBelow, DetrSeen
  <2>3. EncodedIn(hidden) = layer
    BY <2>1, <2>2 DEF Seen, Encoded
  <2>4. /\ EncodedIn(hidden') = layer + 1
        /\ MemoryIn(hidden') = [p \in Told!Pixels |-> EncRow(p, layer + 1)]
    BY <1>5, EncodeMakes, PixelsSeen
  <2>5. \A p \in Told!Pixels : EncRow(p, layer + 1) = Told!EncodedRow(p, layer + 1)
    BY <2>2 DEF EncRow
  <2>6. MemoryIn(hidden') = [p \in Told!Pixels |-> Told!EncodedRow(p, layer + 1)]
    BY <2>4, <2>5
  <2>7. Told!EncoderLayer
    BY <2>1, <2>2, <2>3, <2>4, <2>6
    DEF Told!EncoderLayer, EncodedIn, MemoryIn
  <2> QED
    BY <2>7 DEF Told!Next
<1>6. CASE Decode
  <2>1. pc = "decode" /\ UNCHANGED <<given, hidden>>
    BY <1>6 DEF Decode, Ready, choiceVars
  <2>2. layer \in Nat /\ layer < DecoderLayers /\ Seen
    BY <2>1, LayerBelow, DetrSeen
  <2> PICK d \in Nat : d = layer + 1
    BY <2>2
  <2>3. EncodedIn(hidden) = EncoderLayers /\ DecodedIn(queries) = layer
    BY <2>1, <2>2 DEF Seen, Encoded, Decoded
  <2>4. /\ DecodedIn(queries') = d
        /\ QueriesIn(queries') = [q \in Told!Queries |-> DecRow(q, d)]
        /\ BoxesIn(boxes') = Told!BoxesAfter(IF Refine THEN d ELSE 0)
    BY <1>6, DecodeMakes, QueriesSeen, BoxesSeen
  <2>5. \A q \in Told!Queries : DecRow(q, d) = Told!DecodedRow(q, d)
    BY <2>2 DEF DecRow
  <2>6. QueriesIn(queries') = [q \in Told!Queries |-> Told!DecodedRow(q, d)]
    BY <2>4, <2>5
  <2>7. BoxesIn(boxes') = IF Refine THEN Told!BoxesAfter(d) ELSE BoxesIn(boxes)
    BY <2>2, <2>4 DEF Seen
  <2>8. Told!DecoderLayer
    BY <2>1, <2>2, <2>3, <2>4, <2>6, <2>7
    DEF Told!DecoderLayer, EncodedIn, MemoryIn, DecodedIn, QueriesIn, BoxesIn, Refine
  <2> QED
    BY <2>8 DEF Told!Next
<1> QED
  BY <1>2, <1>3, <1>4, <1>5, <1>6
  DEF Next, Finished, vars, OpenGraph, TensorMissing, ComputeFails, LoadRefinement, Fuse, Stage0, Stage1,
      ScoreAndMask, choiceVars, boxVars

(* Flat vectors, permutations and masks make the detector that Detr tells. *)
THEOREM ImplementsDetrAlways == Spec => ImplementsDetr
<1>1. Init => DetrInv /\ Told!Init
  BY DetrInit
<1>2. DetrInv /\ [Next]_vars => DetrInv'
  BY DetrStep
<1>3. DetrInv /\ DetrInv' /\ [Next]_vars => [Told!Next]_Told!detrVars
  BY StepSeen
<1> QED
  BY <1>1, <1>2, <1>3, PTL DEF Spec, ImplementsDetr, Told!Spec

-----------------------------------------------------------------------------
(***************************************************************************)
(* From the rows of the encoder to masks.                                  *)
(***************************************************************************)

(* What lies under a pixel of a level, and what its coarsest pixel read.   *)
Wide(l) == Width * Scale(l)
High(l) == Height * Scale(l)

Under(l, y, x) ==
  IF l = 2 THEN {<<2, y, x>>}
  ELSE IF l = 1 THEN {<<1, y, x>>, <<2, y \div 2, x \div 2>>}
  ELSE LayersUnder(y, x)

Phrase(y, x) == Told!ReadBy(<<y, x, EncoderLayers>>, {}, Valid)

ReadAt(l, y, x) ==
  IF l = 2 THEN Phrase(y, x) ELSE IF l = 1 THEN Phrase(y \div 2, x \div 2) ELSE Phrase(y \div 4, x \div 4)

(* One element that shows its pixel, and a level of them.                  *)
IsPixel(e, l, y, x, c) == e.layers = Under(l, y, x) /\ e.read = ReadAt(l, y, x) /\ e.chan = c

Shows(t, l) ==
  /\ t.ne = LevelNe(l)
  /\ \A x \in 0 .. Wide(l) - 1, y \in 0 .. High(l) - 1, c \in Channels :
       IsPixel(At(t, x, y, c, 0), l, y, x, c)

LEMMA PostRows ==
  ASSUME TextRows, Rows(hidden, HW, EncRows(EncoderLayers)),
         NEW s \in 0 .. HW - 1, NEW c \in Channels
  PROVE  LET e == PostEncoder.data[s * C + c]  p == PixelOf(s)
         IN e.id = Told!PixelId(p, EncoderLayers) /\ e.text = Phrase(p[1], p[2]) /\ e.chan = c
<1> DEFINE none == [r \in 0 .. HW - 1 |-> {}]  ids == PixelIds(EncoderLayers)
           t == Attend(hidden, NoPos(hidden), text, NoPos(text), TextMask(HW, EncoderReads))
           i == s * C + c  p == PixelOf(s)
<1>1. HW \in Nat \ {0} /\ C \in Nat \ {0} /\ EncoderReads \subseteq 0 .. TextSeq - 1 /\ EncoderLayers \in Nat
  BY Extents DEF EncoderReads
<1>2. Stands(hidden, NoPos(hidden), HW, ids, none)
  BY <1>1, PixelsStand
<1>3. Says(t, HW, ReadRows(HW, ids, none, EncoderReads))
  <2> HIDE DEF ids, none
  <2> QED
    BY <1>1, <1>2, ReadsText
<1>4. Flat(RowsNe(HW), c, s, 0, 0) = i /\ i \in 0 .. Size(RowsNe(HW)) - 1
  <2> DEFINE ne == RowsNe(HW)
  <2>1. /\ ne \in Shapes /\ c \in 0 .. ne[1] - 1 /\ s \in 0 .. ne[2] - 1
        /\ 0 \in 0 .. ne[3] - 1 /\ 0 \in 0 .. ne[4] - 1
    BY <1>1, RowShapes DEF RowsNe, Channels
  <2>2. Flat(ne, c, s, 0, 0) = i
    BY <1>1 DEF Flat, RowsNe, Channels
  <2> HIDE DEF ne, i
  <2> QED
    BY <2>1, <2>2, FlatOf DEF ne
<1>5. hidden.data[i] = RowElement(EncRow(p, EncoderLayers), c) /\ i \in DOMAIN hidden.data
  <2>1. At(hidden, c, s, 0, 0) = RowElement(EncRows(EncoderLayers)[s], c)
    BY DEF Rows
  <2>2. At(hidden, c, s, 0, 0) = hidden.data[i]
    BY <1>4, AtFlat DEF Rows
  <2> QED
    BY <1>4, <2>1, <2>2 DEF Rows, EncRows
<1>6. t.data[i] = Phrase(p[1], p[2])
  <2>1. At(t, c, s, 0, 0) = ReadRows(HW, ids, none, EncoderReads)[s]
    BY <1>3 DEF Says
  <2>2. At(t, c, s, 0, 0) = t.data[i]
    BY <1>3, <1>4, AtFlat DEF Says
  <2>3. ids[s] = <<p[1], p[2], EncoderLayers>> /\ none[s] = {}
    BY DEF PixelIds, Told!PixelId
  <2> QED
    BY <2>1, <2>2, <2>3 DEF ReadRows, Phrase, EncoderReads
<1>7. PostEncoder.data[i] = [hidden.data[i] EXCEPT !.text = t.data[i]]
  <2>1. hidden = [ne |-> hidden.ne, data |-> hidden.data]
    BY DEF Rows, IsTensor
  <2> HIDE DEF i, t
  <2> QED
    BY <1>5, <2>1 DEF PostEncoder, t
<1> DEFINE e == PostEncoder.data[i]  v == hidden.data[i]
<1>8. v.id = Told!PixelId(p, EncoderLayers) /\ v.chan = c /\ "text" \in DOMAIN v
  BY <1>5, EncRowParts DEF RowElement
<1>9. e = [v EXCEPT !.text = Phrase(p[1], p[2])]
  BY <1>6, <1>7
<1> HIDE DEF e, v
<1>10. e.id = v.id /\ e.text = Phrase(p[1], p[2]) /\ e.chan = v.chan
  BY <1>5, <1>9 DEF RowElement, v
<1> QED
  BY <1>8, <1>10 DEF e

LEMMA FusedShows ==
  ASSUME TextRows, Rows(hidden, HW, EncRows(EncoderLayers))
  PROVE  Shows(ChannelsFirst(PostEncoder), 2)
<1> DEFINE t == PostEncoder  u == ChannelsFirst(t)  ne == LevelNe(2)
           From(w, h, c, n) == RowPixel(t.data[(h * Width + w) * C + c])
<1>1. ne = <<Width, Height, C, 1>> /\ Wide(2) = Width /\ High(2) = Height
  BY ScaleIs, Extents DEF LevelNe, Wide, High
<1>2. u.ne = ne /\ u = Tensor(ne, From)
  <2>1. u = Tensor(<<Width, Height, C, 1>>, From)
    BY DEF ChannelsFirst
  <2> HIDE DEF u, From, ne
  <2> QED
    BY <1>1, <2>1 DEF Tensor
<1>3. ASSUME NEW x \in 0 .. Width - 1, NEW y \in 0 .. Height - 1, NEW c \in Channels
      PROVE  IsPixel(From(x, y, c, 0), 2, y, x, c)
  <2> DEFINE s == y * Width + x  e == t.data[s * C + c]
  <2>1. s \in 0 .. HW - 1 /\ PixelOf(s) = <<y, x>>
    <3>1. <<y, x>> \in Told!Pixels /\ <<y, x>>[1] = y /\ <<y, x>>[2] = x
      BY DEF Told!Pixels
    <3> QED
      BY <3>1, PixelOfAll
  <2> HIDE DEF s
  <2>2. e.id = <<y, x, EncoderLayers>> /\ e.text = Phrase(y, x) /\ e.chan = c
    BY <2>1, PostRows DEF Told!PixelId
  <2>3. From(x, y, c, 0) = RowPixel(e)
    BY DEF s
  <2> HIDE DEF From, e
  <2> QED
    BY <2>2, <2>3 DEF RowPixel, LevelPixel, IsPixel, Under, ReadAt
<1> HIDE DEF u, From, ne
<1>4. u.data = [x \in 0 .. Size(ne) - 1 |->
        From(x % ne[1], (x \div ne[1]) % ne[2], (x \div (ne[1] * ne[2])) % ne[3],
             x \div (ne[1] * ne[2] * ne[3]))]
  BY <1>2 DEF Tensor
<1>5. ASSUME NEW x \in 0 .. Width - 1, NEW y \in 0 .. Height - 1, NEW c \in Channels
      PROVE  At(u, x, y, c, 0) = From(x, y, c, 0)
  <2>1. /\ u.ne \in Shapes /\ x \in 0 .. u.ne[1] - 1 /\ y \in 0 .. u.ne[2] - 1
        /\ c \in 0 .. u.ne[3] - 1 /\ 0 \in 0 .. u.ne[4] - 1
    BY <1>1, <1>2, LevelShapes DEF Channels, ne
  <2>2. PICK i \in 0 .. Size(u.ne) - 1 :
          /\ At(u, x, y, c, 0) = u.data[i]
          /\ i % u.ne[1] = x /\ (i \div u.ne[1]) % u.ne[2] = y /\ (i \div (u.ne[1] * u.ne[2])) % u.ne[3] = c
          /\ i \div (u.ne[1] * u.ne[2] * u.ne[3]) = 0
    BY <2>1, Lands
  <2> QED
    BY <1>2, <1>4, <2>2
<1> QED
  BY <1>1, <1>2, <1>3, <1>5 DEF Shows, u, ne

(* The next finer level: its own pixel on what lies under it.              *)
LEMMA FinerIs ==
  ASSUME NEW l \in 0 .. 1, NEW x, NEW y, x \in Nat, y \in Nat
  PROVE  /\ Under(l, y, x) = {<<l, y, x>>} \cup Under(l + 1, y \div 2, x \div 2)
         /\ ReadAt(l, y, x) = ReadAt(l + 1, y \div 2, x \div 2)
<1>1. CASE l = 1
  BY <1>1 DEF Under, ReadAt
<1>2. CASE l = 0
  <2>1. (x \div 2) \div 2 = x \div 4 /\ (y \div 2) \div 2 = y \div 4
    OBVIOUS
  <2> QED
    BY <1>2, <2>1 DEF Under, ReadAt, LayersUnder
<1> QED
  BY <1>1, <1>2

LEMMA LevelSides ==
  ASSUME NEW l \in 0 .. 1
  PROVE  /\ Wide(l) = 2 * Wide(l + 1) /\ High(l) = 2 * High(l + 1)
         /\ Wide(l) \in Nat \ {0} /\ High(l) \in Nat \ {0}
         /\ Wide(l + 1) \in Nat \ {0} /\ High(l + 1) \in Nat \ {0}
<1>1. Scale(l) = 2 * Scale(l + 1) /\ Scale(l) \in Nat \ {0} /\ Scale(l + 1) \in Nat \ {0}
  <2>1. l = 0 \/ l = 1
    OBVIOUS
  <2> QED
    BY <2>1, ScaleIs
<1>2. \A k \in Nat \ {0} : Width * k \in Nat \ {0} /\ Height * k \in Nat \ {0}
  BY Extents, Prod
<1> DEFINE k == Scale(l)  m == Scale(l + 1)
<1>3. k = 2 * m /\ m \in Nat
  BY <1>1
<1> HIDE DEF k, m
<1>4. Width * k = 2 * (Width * m) /\ Height * k = 2 * (Height * m)
  BY <1>3, Extents
<1> QED
  BY <1>1, <1>2, <1>4 DEF Wide, High, k, m

LEMMA UpscaledAt ==
  ASSUME NEW l \in 0 .. 1, NEW t, t.ne = LevelNe(l + 1)
  PROVE  /\ Upscale2(t).ne = LevelNe(l)
         /\ \A x \in 0 .. Wide(l) - 1, y \in 0 .. High(l) - 1, c \in Channels :
              At(Upscale2(t), x, y, c, 0) = At(t, x \div 2, y \div 2, c, 0)
<1> DEFINE u == Upscale2(t)  ne == LevelNe(l)
           From(w, h, c, n) == At(t, w \div 2, h \div 2, c, n)
<1>1. ne = <<Wide(l), High(l), C, 1>> /\ ne \in Shapes
  BY LevelShapes DEF LevelNe, Wide, High
<1>2. u.ne = ne /\ u = Tensor(ne, From)
  <2>1. t.ne[1] = Wide(l + 1) /\ t.ne[2] = High(l + 1) /\ t.ne[3] = C /\ t.ne[4] = 1
    BY DEF LevelNe, Wide, High
  <2>2. <<2 * t.ne[1], 2 * t.ne[2], t.ne[3], t.ne[4]>> = ne
    BY <1>1, <2>1, LevelSides
  <2>3. u = Tensor(<<2 * t.ne[1], 2 * t.ne[2], t.ne[3], t.ne[4]>>, From)
    BY DEF Upscale2
  <2> HIDE DEF u, From, ne
  <2> QED
    BY <2>2, <2>3 DEF Tensor
<1> HIDE DEF u, From, ne
<1>3. u.data = [x \in 0 .. Size(ne) - 1 |->
        From(x % ne[1], (x \div ne[1]) % ne[2], (x \div (ne[1] * ne[2])) % ne[3],
             x \div (ne[1] * ne[2] * ne[3]))]
  BY <1>2 DEF Tensor
<1>4. ASSUME NEW x \in 0 .. Wide(l) - 1, NEW y \in 0 .. High(l) - 1, NEW c \in Channels
      PROVE  At(u, x, y, c, 0) = From(x, y, c, 0)
  <2>1. /\ u.ne \in Shapes /\ x \in 0 .. u.ne[1] - 1 /\ y \in 0 .. u.ne[2] - 1
        /\ c \in 0 .. u.ne[3] - 1 /\ 0 \in 0 .. u.ne[4] - 1
    BY <1>1, <1>2 DEF Channels
  <2>2. PICK i \in 0 .. Size(u.ne) - 1 :
          /\ At(u, x, y, c, 0) = u.data[i]
          /\ i % u.ne[1] = x /\ (i \div u.ne[1]) % u.ne[2] = y /\ (i \div (u.ne[1] * u.ne[2])) % u.ne[3] = c
          /\ i \div (u.ne[1] * u.ne[2] * u.ne[3]) = 0
    BY <2>1, Lands
  <2> QED
    BY <1>2, <1>3, <2>2
<1> QED
  BY <1>2, <1>4 DEF u, ne, From

LEMMA OverIs ==
  ASSUME NEW l \in 0 .. 1, NEW y \in Nat, NEW x \in Nat, NEW c, NEW e,
         IsPixel(e, l + 1, y \div 2, x \div 2, c)
  PROVE  IsPixel(Over(LevelPixel(<<l, y, x>>, {}, c), e), l, y, x, c)
<1> DEFINE v == LevelPixel(<<l, y, x>>, {}, c)
           w == [v EXCEPT !.layers = {<<l, y, x>>} \cup e.layers, !.read = e.read, !.chan = c]
<1>1. Over(v, e) = w
  <2>1. v.layers = {<<l, y, x>>} /\ v.chan = c /\ e.chan = c
    BY DEF LevelPixel, IsPixel
  <2> HIDE DEF v
  <2> QED
    BY <2>1 DEF Over
<1>2. w.layers = {<<l, y, x>>} \cup e.layers /\ w.read = e.read /\ w.chan = c
  BY DEF LevelPixel
<1> HIDE DEF w
<1>3. IsPixel(w, l, y, x, c)
  BY <1>2, FinerIs DEF IsPixel
<1> QED
  BY <1>1, <1>3

LEMMA SumShows ==
  ASSUME NEW l \in 0 .. 1, NEW t, Shows(t, l + 1)
  PROVE  Shows(AddTensors(Backbone(l), Upscale2(t), Over), l)
<1> DEFINE f == Backbone(l)  u == Upscale2(t)  g == AddTensors(f, u, Over)  ne == LevelNe(l)
<1>1. /\ IsTensor(f) /\ f.ne = ne /\ DOMAIN f.data = 0 .. Size(ne) - 1
      /\ \A x \in 0 .. Wide(l) - 1, y \in 0 .. High(l) - 1, c \in Channels :
           At(f, x, y, c, 0) = LevelPixel(<<l, y, x>>, {}, c)
  BY BackboneAt DEF Wide, High
<1>2. /\ u.ne = ne
      /\ \A x \in 0 .. Wide(l) - 1, y \in 0 .. High(l) - 1, c \in Channels :
           At(u, x, y, c, 0) = At(t, x \div 2, y \div 2, c, 0)
  <2>1. t.ne = LevelNe(l + 1)
    BY DEF Shows
  <2> QED
    BY <2>1, UpscaledAt
<1>3. ne = <<Wide(l), High(l), C, 1>> /\ ne \in Shapes
  BY LevelShapes DEF LevelNe, Wide, High
<1> HIDE DEF f, u, ne
<1>4. g.ne = ne /\ \A i \in 0 .. Size(ne) - 1 : g.data[i] = Over(f.data[i], u.data[i])
  <2> DEFINE data == [i \in DOMAIN f.data |-> Over(f.data[i], u.data[i])]
  <2>1. f = [ne |-> ne, data |-> f.data]
    BY <1>1 DEF IsTensor
  <2>2. g = [f EXCEPT !.data = data]
    BY DEF AddTensors
  <2>3. \A i \in 0 .. Size(ne) - 1 : data[i] = Over(f.data[i], u.data[i])
    BY <1>1
  <2> HIDE DEF g, data
  <2>4. g = [ne |-> ne, data |-> data]
    BY <2>1, <2>2
  <2> QED
    BY <2>3, <2>4
<1> HIDE DEF g
<1>5. ASSUME NEW x \in 0 .. Wide(l) - 1, NEW y \in 0 .. High(l) - 1, NEW c \in Channels
      PROVE  IsPixel(At(g, x, y, c, 0), l, y, x, c)
  <2> DEFINE i == Flat(ne, x, y, c, 0)
  <2>1. i \in 0 .. Size(ne) - 1
    <3>1. x \in 0 .. ne[1] - 1 /\ y \in 0 .. ne[2] - 1 /\ c \in 0 .. ne[3] - 1 /\ 0 \in 0 .. ne[4] - 1
      BY <1>3 DEF Channels
    <3> QED
      BY <1>3, <3>1, FlatOf
  <2>2. At(g, x, y, c, 0) = g.data[i] /\ At(f, x, y, c, 0) = f.data[i] /\ At(u, x, y, c, 0) = u.data[i]
    BY <1>1, <1>2, <1>4, AtFlat
  <2> HIDE DEF i
  <2>3. At(g, x, y, c, 0) = Over(LevelPixel(<<l, y, x>>, {}, c), At(t, x \div 2, y \div 2, c, 0))
    BY <1>1, <1>2, <1>4, <2>1, <2>2
  <2>4. x \div 2 \in 0 .. Wide(l + 1) - 1 /\ y \div 2 \in 0 .. High(l + 1) - 1
    BY LevelSides
  <2>5. IsPixel(At(t, x \div 2, y \div 2, c, 0), l + 1, y \div 2, x \div 2, c)
    BY <2>4 DEF Shows
  <2> QED
    BY <2>3, <2>5, OverIs
<1> QED
  BY <1>4, <1>5 DEF Shows, g, f, u, ne

LEMMA KernelAt ==
  /\ Kernel.ne = <<3, 3, C, C>>
  /\ \A kx, ky \in 0 .. 2, i, o \in Channels : At(Kernel, kx, ky, i, o) = Weight(ky, kx, i, o)
<1> DEFINE ne == <<3, 3, C, C>>  From(kx, ky, i, o) == Weight(ky, kx, i, o)  t == Kernel
<1>1. t.ne = ne /\ t = Tensor(ne, From)
  <2>1. t = Tensor(ne, From)
    BY DEF Kernel
  <2> HIDE DEF t, From, ne
  <2> QED
    BY <2>1 DEF Tensor
<1>2. ne \in Shapes
  BY Extents DEF Shapes
<1>3. \A kx, ky \in 0 .. 2, i, o \in Channels :
        kx \in 0 .. ne[1] - 1 /\ ky \in 0 .. ne[2] - 1 /\ i \in 0 .. ne[3] - 1 /\ o \in 0 .. ne[4] - 1
  BY DEF Channels
<1>4. \A kx, ky, i, o : From(kx, ky, i, o) = Weight(ky, kx, i, o)
  OBVIOUS
<1> HIDE DEF t, From, ne
<1>5. t.data = [x \in 0 .. Size(ne) - 1 |->
        From(x % ne[1], (x \div ne[1]) % ne[2], (x \div (ne[1] * ne[2])) % ne[3],
             x \div (ne[1] * ne[2] * ne[3]))]
  BY <1>1 DEF Tensor
<1>6. ASSUME NEW kx \in 0 .. 2, NEW ky \in 0 .. 2, NEW i \in Channels, NEW o \in Channels
      PROVE  At(t, kx, ky, i, o) = Weight(ky, kx, i, o)
  <2>1. /\ t.ne \in Shapes /\ kx \in 0 .. t.ne[1] - 1 /\ ky \in 0 .. t.ne[2] - 1
        /\ i \in 0 .. t.ne[3] - 1 /\ o \in 0 .. t.ne[4] - 1
    BY <1>1, <1>2, <1>3
  <2>2. PICK x \in 0 .. Size(t.ne) - 1 :
          /\ At(t, kx, ky, i, o) = t.data[x]
          /\ x % t.ne[1] = kx /\ (x \div t.ne[1]) % t.ne[2] = ky
          /\ (x \div (t.ne[1] * t.ne[2])) % t.ne[3] = i
          /\ x \div (t.ne[1] * t.ne[2] * t.ne[3]) = o
    BY <2>1, Lands
  <2>3. t.data[x] = From(x % ne[1], (x \div ne[1]) % ne[2], (x \div (ne[1] * ne[2])) % ne[3],
                        x \div (ne[1] * ne[2] * ne[3]))
    BY <1>1, <1>5, <2>2, Zenon
  <2>4. t.data[x] = From(kx, ky, i, o)
    BY <1>1, <2>2, <2>3, Zenon
  <2> QED
    BY <1>4, <2>2, <2>4, Zenon
<1> QED
  BY <1>1, <1>6 DEF t, ne

(* What meets in a pixel: a tap of the kernel and the pixel under it.      *)
Around(w, t, x, y) ==
  {c \in (0 .. w.ne[1] - 1) \X (0 .. w.ne[2] - 1) :
     x + c[1] - 1 \in 0 .. t.ne[1] - 1 /\ y + c[2] - 1 \in 0 .. t.ne[2] - 1}

Pairs(w, t, x, y, oc) ==
  {<<At(w, c[1], c[2], ic, oc), At(t, x + c[1] - 1, y + c[2] - 1, ic, 0)>> :
   c \in Around(w, t, x, y), ic \in 0 .. t.ne[3] - 1}

LEMMA ConvAt ==
  ASSUME NEW l \in 0 .. 1, NEW t, t.ne = LevelNe(l)
  PROVE  LET u == Conv2d(Kernel, t, 1, Convolved)
         IN /\ u.ne = LevelNe(l)
            /\ \A x \in 0 .. Wide(l) - 1, y \in 0 .. High(l) - 1, c \in Channels :
                 At(u, x, y, c, 0) = Convolved(Pairs(Kernel, t, x, y, c))
<1> DEFINE w == Kernel  u == Conv2d(w, t, 1, Convolved)  ne == LevelNe(l)
           From(ow, oh, oc, n) == Convolved(Pairs(w, t, ow, oh, oc))
<1>1. ne = <<Wide(l), High(l), C, 1>> /\ ne \in Shapes
  BY LevelShapes DEF LevelNe, Wide, High
<1>2. u = Tensor(<<t.ne[1] + 2 * 1 - w.ne[1] + 1, t.ne[2] + 2 * 1 - w.ne[2] + 1, w.ne[4], 1>>, From)
  <2> HIDE DEF w
  <2> QED
    BY DEF Conv2d, Tensor, Pairs, Around
<1>3. <<t.ne[1] + 2 * 1 - w.ne[1] + 1, t.ne[2] + 2 * 1 - w.ne[2] + 1, w.ne[4], 1>> = ne
  <2>1. w.ne[1] = 3 /\ w.ne[2] = 3 /\ w.ne[4] = C
    BY KernelAt
  <2>2. t.ne[1] = Wide(l) /\ t.ne[2] = High(l) /\ Wide(l) \in Nat /\ High(l) \in Nat
    BY <1>1, LevelSides
  <2> HIDE DEF w
  <2> QED
    BY <1>1, <2>1, <2>2
<1> HIDE DEF u, From, ne, w
<1>4. u = Tensor(ne, From) /\ u.ne = ne
  BY <1>2, <1>3 DEF Tensor
<1>5. u.data = [x \in 0 .. Size(ne) - 1 |->
        From(x % ne[1], (x \div ne[1]) % ne[2], (x \div (ne[1] * ne[2])) % ne[3],
             x \div (ne[1] * ne[2] * ne[3]))]
  BY <1>4 DEF Tensor
<1>6. ASSUME NEW x \in 0 .. Wide(l) - 1, NEW y \in 0 .. High(l) - 1, NEW c \in Channels
      PROVE  At(u, x, y, c, 0) = From(x, y, c, 0)
  <2>1. /\ u.ne \in Shapes /\ x \in 0 .. u.ne[1] - 1 /\ y \in 0 .. u.ne[2] - 1
        /\ c \in 0 .. u.ne[3] - 1 /\ 0 \in 0 .. u.ne[4] - 1
    BY <1>1, <1>4 DEF Channels
  <2>2. PICK i \in 0 .. Size(u.ne) - 1 :
          /\ At(u, x, y, c, 0) = u.data[i]
          /\ i % u.ne[1] = x /\ (i \div u.ne[1]) % u.ne[2] = y /\ (i \div (u.ne[1] * u.ne[2])) % u.ne[3] = c
          /\ i \div (u.ne[1] * u.ne[2] * u.ne[3]) = 0
    BY <2>1, Lands
  <2>3. u.data[i] = From(i % ne[1], (i \div ne[1]) % ne[2], (i \div (ne[1] * ne[2])) % ne[3],
                         i \div (ne[1] * ne[2] * ne[3]))
    BY <1>4, <1>5, <2>2, Zenon
  <2> QED
    BY <1>4, <2>2, <2>3, Zenon
<1> QED
  BY <1>4, <1>6 DEF u, ne, From, w

TapsIn(l, y, x) ==
  {k \in (0 .. 2) \X (0 .. 2) : y + k[1] - 1 \in 0 .. High(l) - 1 /\ x + k[2] - 1 \in 0 .. Wide(l) - 1}

RingAt(l, y, x) == {<<k, Under(l, y + k[1] - 1, x + k[2] - 1)>> : k \in TapsIn(l, y, x)}

Meets(p, l, y, x, oc, k, ic) ==
  /\ p[1].tap = k /\ p[1].out = oc
  /\ IsPixel(p[2], l, y + k[1] - 1, x + k[2] - 1, ic)

LEMMA PairsAre ==
  ASSUME NEW l \in 0 .. 1, NEW t, Shows(t, l), NEW y \in 0 .. High(l) - 1, NEW x \in 0 .. Wide(l) - 1,
         NEW oc \in Channels
  PROVE  LET pairs == Pairs(Kernel, t, x, y, oc)
         IN /\ \A p \in pairs : \E k \in TapsIn(l, y, x), ic \in Channels : Meets(p, l, y, x, oc, k, ic)
            /\ \A k \in TapsIn(l, y, x), ic \in Channels : \E p \in pairs : Meets(p, l, y, x, oc, k, ic)
<1> DEFINE w == Kernel  pairs == Pairs(w, t, x, y, oc)
           Pair(c, ic) == <<At(w, c[1], c[2], ic, oc), At(t, x + c[1] - 1, y + c[2] - 1, ic, 0)>>
<1>1. t.ne[1] = Wide(l) /\ t.ne[2] = High(l) /\ t.ne[3] = C
  BY DEF Shows, LevelNe, Wide, High
<1>2. /\ w.ne[1] - 1 = 2 /\ w.ne[2] - 1 = 2
      /\ \A kx, ky \in 0 .. 2, i \in Channels : At(w, kx, ky, i, oc) = Weight(ky, kx, i, oc)
  BY KernelAt
<1> HIDE DEF w
<1>3. ASSUME NEW kx \in 0 .. 2, NEW ky \in 0 .. 2, NEW ic \in Channels,
             x + kx - 1 \in 0 .. Wide(l) - 1, y + ky - 1 \in 0 .. High(l) - 1
      PROVE  Meets(Pair(<<kx, ky>>, ic), l, y, x, oc, <<ky, kx>>, ic)
  <2> DEFINE u == x + kx - 1  v == y + ky - 1  e == At(t, u, v, ic, 0)
  <2>1. At(w, kx, ky, ic, oc) = Weight(ky, kx, ic, oc)
    BY <1>2
  <2>2. u \in 0 .. Wide(l) - 1 /\ v \in 0 .. High(l) - 1
    BY <1>3
  <2> HIDE DEF u, v
  <2>3. IsPixel(e, l, v, u, ic)
    BY <2>2 DEF Shows
  <2> HIDE DEF e
  <2>4. Pair(<<kx, ky>>, ic) = <<Weight(ky, kx, ic, oc), e>>
    BY <2>1 DEF e, u, v
  <2> HIDE DEF Pair
  <2>5. Weight(ky, kx, ic, oc).tap = <<ky, kx>> /\ Weight(ky, kx, ic, oc).out = oc
    BY DEF Weight
  <2> QED
    BY <2>3, <2>4, <2>5 DEF Meets, u, v
<1>4. pairs = {Pair(c, ic) : c \in Around(w, t, x, y), ic \in Channels}
  BY <1>1 DEF Pairs, Channels
<1> HIDE DEF pairs, Pair
<1>5. Around(w, t, x, y)
        = {c \in (0 .. 2) \X (0 .. 2) : x + c[1] - 1 \in 0 .. Wide(l) - 1 /\ y + c[2] - 1 \in 0 .. High(l) - 1}
  BY <1>1, <1>2 DEF Around
<1>6. ASSUME NEW p \in pairs
      PROVE  \E k \in TapsIn(l, y, x), ic \in Channels : Meets(p, l, y, x, oc, k, ic)
  <2>1. PICK c \in Around(w, t, x, y), ic \in Channels : p = Pair(c, ic)
    BY <1>4
  <2>2. PICK kx \in 0 .. 2, ky \in 0 .. 2 :
          c = <<kx, ky>> /\ x + kx - 1 \in 0 .. Wide(l) - 1 /\ y + ky - 1 \in 0 .. High(l) - 1
    BY <1>5
  <2>3. Meets(p, l, y, x, oc, <<ky, kx>>, ic)
    BY <1>3, <2>1, <2>2
  <2>4. <<ky, kx>> \in TapsIn(l, y, x)
    BY <2>2 DEF TapsIn
  <2> QED
    BY <2>3, <2>4
<1>7. ASSUME NEW k \in TapsIn(l, y, x), NEW ic \in Channels
      PROVE  \E p \in pairs : Meets(p, l, y, x, oc, k, ic)
  <2>1. PICK ky \in 0 .. 2, kx \in 0 .. 2 :
          k = <<ky, kx>> /\ x + kx - 1 \in 0 .. Wide(l) - 1 /\ y + ky - 1 \in 0 .. High(l) - 1
    BY DEF TapsIn
  <2>2. Meets(Pair(<<kx, ky>>, ic), l, y, x, oc, k, ic)
    BY <1>3, <2>1
  <2>3. <<kx, ky>> \in Around(w, t, x, y)
    BY <1>5, <2>1
  <2> QED
    BY <1>4, <2>2, <2>3
<1> QED
  BY <1>6, <1>7 DEF pairs, w

Ringed(e, l, y, x, c) ==
  IsPixel(e, l, y, x, c) /\ e.ring = RingAt(l, y, x)

(* What a convolution makes of pixels that agree in their layers.          *)
Alike(pairs, under, read, c) ==
  /\ \E p \in pairs : p[1].tap = <<1, 1>>
  /\ \A p \in pairs : /\ p[1].out = c
                      /\ p[1].tap = <<1, 1>> => p[2].layers = under /\ p[2].read = read

LEMMA ConvolvedOf ==
  ASSUME NEW pairs, NEW under, NEW read, NEW c, Alike(pairs, under, read, c)
  PROVE  LET e == Convolved(pairs)
         IN e.layers = under /\ e.read = read /\ e.chan = c
            /\ e.ring = {<<p[1].tap, p[2].layers>> : p \in pairs}
<1> DEFINE mid == {p \in pairs : p[1].tap = <<1, 1>>}
<1>0. /\ \E p \in mid : TRUE
      /\ \A p \in pairs : p[1].out = c
      /\ \A p \in mid : p[2].layers = under /\ p[2].read = read
  BY DEF Alike
<1>1. UNION {p[2].layers : p \in mid} = under
  <2>1. {p[2].layers : p \in mid} = {under}
    BY <1>0
  <2> QED
    BY <2>1
<1>2. UNION {p[2].read : p \in mid} = read
  <2>1. {p[2].read : p \in mid} = {read}
    BY <1>0
  <2> QED
    BY <2>1
<1>3. (CHOOSE p \in pairs : TRUE)[1].out = c
  <2>1. (CHOOSE p \in pairs : TRUE) \in pairs
    BY <1>0
  <2> QED
    BY <1>0, <2>1
<1> DEFINE e == Convolved(pairs)  ring == {<<p[1].tap, p[2].layers>> : p \in pairs}
           from == {<<p[1].in, p[2].chan>> : p \in pairs}
<1>4. e = [layers |-> UNION {p[2].layers : p \in mid}, read |-> UNION {p[2].read : p \in mid},
           ring |-> ring, from |-> from, chan |-> (CHOOSE p \in pairs : TRUE)[1].out]
  BY DEF Convolved
<1> HIDE DEF e, mid, ring, from
<1>5. e = [layers |-> under, read |-> read, ring |-> ring, from |-> from, chan |-> c]
  BY <1>1, <1>2, <1>3, <1>4
<1>6. e.layers = under /\ e.read = read /\ e.chan = c /\ e.ring = ring
  BY <1>5
<1> QED
  BY <1>6 DEF e, ring

LEMMA ConvolvedShows ==
  ASSUME NEW l \in 0 .. 1, NEW t, Shows(t, l), NEW y \in 0 .. High(l) - 1, NEW x \in 0 .. Wide(l) - 1,
         NEW c \in Channels
  PROVE  Ringed(Convolved(Pairs(Kernel, t, x, y, c)), l, y, x, c)
<1> DEFINE pairs == Pairs(Kernel, t, x, y, c)  taps == TapsIn(l, y, x)
           Neighbour(k) == Under(l, y + k[1] - 1, x + k[2] - 1)
<1>1. /\ \A p \in pairs : \E k \in taps, ic \in Channels : Meets(p, l, y, x, c, k, ic)
      /\ \A k \in taps, ic \in Channels : \E p \in pairs : Meets(p, l, y, x, c, k, ic)
  BY PairsAre
<1>2. <<1, 1>> \in taps /\ y + 1 - 1 = y /\ x + 1 - 1 = x
  BY LevelSides DEF TapsIn
<1>3. 0 \in Channels
  BY Extents
<1> HIDE DEF pairs, taps
<1>4. \E p \in pairs : p[1].tap = <<1, 1>>
  BY <1>1, <1>2, <1>3 DEF Meets
<1>5. ASSUME NEW p \in pairs
      PROVE  /\ p[1].out = c
             /\ p[1].tap = <<1, 1>> => p[2].layers = Under(l, y, x) /\ p[2].read = ReadAt(l, y, x)
  <2>1. PICK k \in taps, ic \in Channels : Meets(p, l, y, x, c, k, ic)
    BY <1>1
  <2>2. p[1].tap = k /\ p[1].out = c /\ IsPixel(p[2], l, y + k[1] - 1, x + k[2] - 1, ic)
    BY <2>1 DEF Meets
  <2>3. k = <<1, 1>> => y + k[1] - 1 = y /\ x + k[2] - 1 = x
    BY <1>2
  <2>4. k = <<1, 1>> => IsPixel(p[2], l, y, x, ic)
    BY <2>2, <2>3, Zenon
  <2> QED
    BY <2>2, <2>4 DEF IsPixel
<1>6. {<<p[1].tap, p[2].layers>> : p \in pairs} = RingAt(l, y, x)
  <2>1. ASSUME NEW p \in pairs PROVE \E k \in taps : <<p[1].tap, p[2].layers>> = <<k, Neighbour(k)>>
    BY <1>1 DEF Meets, IsPixel
  <2>2. ASSUME NEW k \in taps PROVE \E p \in pairs : <<p[1].tap, p[2].layers>> = <<k, Neighbour(k)>>
    BY <1>1, <1>3 DEF Meets, IsPixel
  <2> HIDE DEF Neighbour
  <2>3. {<<p[1].tap, p[2].layers>> : p \in pairs} = {<<k, Neighbour(k)>> : k \in taps}
    BY <2>1, <2>2
  <2> QED
    BY <2>3 DEF RingAt, Neighbour, taps
<1> DEFINE under == Under(l, y, x)  read == ReadAt(l, y, x)  e == Convolved(pairs)
<1> HIDE DEF under, read
<1>7. e.layers = under /\ e.read = read /\ e.chan = c /\ e.ring = {<<p[1].tap, p[2].layers>> : p \in pairs}
  <2>1. Alike(pairs, under, read, c)
    BY <1>4, <1>5 DEF Alike, under, read
  <2> QED
    BY <2>1, ConvolvedOf
<1> HIDE DEF e
<1> QED
  BY <1>6, <1>7 DEF Ringed, IsPixel, under, read, e, pairs

(* A level with its neighbours.                                            *)
ShowsRings(t, l) ==
  /\ t.ne = LevelNe(l)
  /\ \A x \in 0 .. Wide(l) - 1, y \in 0 .. High(l) - 1, c \in Channels :
       Ringed(At(t, x, y, c, 0), l, y, x, c)

LEMMA StageShows ==
  ASSUME NEW l \in 0 .. 1, NEW t, Shows(t, l + 1)
  PROVE  ShowsRings(PixelStage(Backbone(l), t), l)
<1> DEFINE sum == AddTensors(Backbone(l), Upscale2(t), Over)  u == Conv2d(Kernel, sum, 1, Convolved)
<1>1. Shows(sum, l)
  BY SumShows
<1> HIDE DEF sum
<1>2. sum.ne = LevelNe(l)
  BY <1>1 DEF Shows
<1>3. /\ u.ne = LevelNe(l)
      /\ \A x \in 0 .. Wide(l) - 1, y \in 0 .. High(l) - 1, c \in Channels :
           At(u, x, y, c, 0) = Convolved(Pairs(Kernel, sum, x, y, c))
  BY <1>2, ConvAt
<1>4. PixelStage(Backbone(l), t) = u
  BY DEF PixelStage, sum
<1> HIDE DEF u
<1> QED
  BY <1>1, <1>3, <1>4, ConvolvedShows DEF ShowsRings

LEMMA RingsShow ==
  ASSUME NEW t, NEW l, ShowsRings(t, l)
  PROVE  Shows(t, l)
BY DEF ShowsRings, Ringed, Shows

(* The finest level as flat memory, and all channels of one of its pixels. *)
LEMMA FlatPixel ==
  ASSUME NEW t, ShowsRings(t, 0), NEW y \in 0 .. High(0) - 1, NEW x \in 0 .. Wide(0) - 1
  PROVE  LET area == t.ne[1] * t.ne[2]  p == y * Wide(0) + x
         IN /\ area \in Nat \ {0} /\ area = Wide(0) * High(0) /\ p \in 0 .. area - 1
            /\ \A c \in Channels : Ringed(t.data[c * area + p], 0, y, x, c)
<1> DEFINE w == Wide(0)  h == High(0)  area == t.ne[1] * t.ne[2]  p == y * w + x
<1>1. w \in Nat \ {0} /\ h \in Nat \ {0} /\ t.ne = <<w, h, C, 1>>
  BY LevelSides DEF ShowsRings, LevelNe, Wide, High
<1>2. y \in 0 .. h - 1 /\ x \in 0 .. w - 1
  OBVIOUS
<1>3. \A c \in Channels : Ringed(At(t, x, y, c, 0), 0, y, x, c)
  BY DEF ShowsRings
<1> HIDE DEF w, h
<1>4. area = w * h /\ w * h \in Nat \ {0}
  BY <1>1, Prod
<1>5. p \in 0 .. area - 1
  <2>1. x + w * y \in 0 .. w * h - 1
    BY <1>1, <1>2, Below
  <2>2. x + w * y = p
    BY <1>1, <1>2
  <2> QED
    BY <1>4, <2>1, <2>2
<1>6. ASSUME NEW c \in Channels
      PROVE  At(t, x, y, c, 0) = t.data[c * area + p]
  <2>1. Flat(<<w, h, C, 1>>, x, y, c, 0) = x + w * (y + h * c)
    BY <1>1, Extents DEF Flat, Channels
  <2>2. x + w * (y + h * c) = c * (w * h) + (y * w + x)
    BY <1>1, <1>2, Extents DEF Channels
  <2> QED
    BY <1>1, <1>4, <2>1, <2>2, AtFlat
<1> QED
  BY <1>3, <1>4, <1>5, <1>6 DEF w, h

(* What the instance projection makes of a pixel, and the mask embedder of *)
(* a query.                                                                *)
Projected(area, data) ==
  [i \in 0 .. C * area - 1 |->
     LET px == {data[c * area + (i % area)] : c \in Channels}
     IN [layers |-> UNION {e.layers : e \in px}, read |-> UNION {e.read : e \in px},
         ring |-> UNION {e.ring : e \in px}, chan |-> i \div area]]

Embedded(t) ==
  [i \in 0 .. NumQueries * C - 1 |->
     [of |-> {At(t, c, i \div C, 0, 0).id : c \in Channels}, chan |-> i % C]]

ShownBy(y, x, c) ==
  [layers |-> Under(0, y, x), read |-> ReadAt(0, y, x), ring |-> RingAt(0, y, x), chan |-> c]

LEMMA ProjectedPixel ==
  ASSUME NEW t, ShowsRings(t, 0), NEW y \in 0 .. High(0) - 1, NEW x \in 0 .. Wide(0) - 1, NEW c \in Channels
  PROVE  LET area == t.ne[1] * t.ne[2]
         IN Projected(area, t.data)[c * area + (y * Wide(0) + x)] = ShownBy(y, x, c)
<1> DEFINE area == t.ne[1] * t.ne[2]  p == y * Wide(0) + x  i == c * area + p
           px == {t.data[b * area + (i % area)] : b \in Channels}
<1>1. area \in Nat \ {0} /\ p \in 0 .. area - 1 /\ \A b \in Channels : Ringed(t.data[b * area + p], 0, y, x, b)
  BY FlatPixel
<1>2. C \in Nat \ {0} /\ c \in 0 .. C - 1 /\ c \in Nat
  BY Extents DEF Channels
<1> HIDE DEF area, p
<1>3. i \in 0 .. C * area - 1 /\ i % area = p /\ i \div area = c
  <2>1. p + area * c \in 0 .. area * C - 1
    BY <1>1, <1>2, Below
  <2>2. (p + area * c) \div area = c /\ (p + area * c) % area = p
    BY <1>1, <1>2, DivMod
  <2>3. p + area * c = i /\ area * C = C * area
    BY <1>1, <1>2
  <2> QED
    BY <2>1, <2>2, <2>3
<1>4. Projected(area, t.data)[i]
        = [layers |-> UNION {e.layers : e \in px}, read |-> UNION {e.read : e \in px},
           ring |-> UNION {e.ring : e \in px}, chan |-> i \div area]
  <2> HIDE DEF i
  <2> QED
    BY <1>3 DEF Projected
<1>5. /\ \A e \in px : e.layers = Under(0, y, x) /\ e.read = ReadAt(0, y, x) /\ e.ring = RingAt(0, y, x)
      /\ px # {}
  <2>1. \A e \in px : \E b \in Channels : e = t.data[b * area + p]
    BY <1>3
  <2>2. px # {}
    BY <1>2
  <2> HIDE DEF px
  <2> QED
    BY <1>1, <2>1, <2>2 DEF Ringed, IsPixel
<1> HIDE DEF px
<1>6. /\ UNION {e.layers : e \in px} = Under(0, y, x)
      /\ UNION {e.read : e \in px} = ReadAt(0, y, x)
      /\ UNION {e.ring : e \in px} = RingAt(0, y, x)
  <2>1. /\ {e.layers : e \in px} = {Under(0, y, x)} /\ {e.read : e \in px} = {ReadAt(0, y, x)}
        /\ {e.ring : e \in px} = {RingAt(0, y, x)}
    BY <1>5
  <2> QED
    BY <2>1
<1> QED
  BY <1>3, <1>4, <1>6 DEF ShownBy, area, p

LEMMA EmbeddedQuery ==
  ASSUME NEW t, Rows(t, NumQueries, DecRows(DecoderLayers)), NEW q \in 0 .. NumQueries - 1, NEW c \in Channels
  PROVE  Embedded(t)[q * C + c] = [of |-> {<<q, DecoderLayers>>}, chan |-> c]
<1> DEFINE i == q * C + c
<1>1. C \in Nat \ {0} /\ c \in 0 .. C - 1 /\ NumQueries \in Nat /\ 0 \in Channels
  BY Extents DEF Channels
<1>2. i \in 0 .. NumQueries * C - 1 /\ i % C = c /\ i \div C = q
  <2>1. c + C * q \in 0 .. C * NumQueries - 1
    BY <1>1, Below
  <2>2. (c + C * q) \div C = q /\ (c + C * q) % C = c
    BY <1>1, DivMod
  <2>3. c + C * q = i /\ C * NumQueries = NumQueries * C
    BY <1>1
  <2> QED
    BY <2>1, <2>2, <2>3
<1>3. {At(t, b, q, 0, 0).id : b \in Channels} = {<<q, DecoderLayers>>}
  <2>1. \A b \in Channels : At(t, b, q, 0, 0).id = <<q, DecoderLayers>>
    BY DecRowParts DEF Rows, DecRows, RowElement
  <2> QED
    BY <1>1, <2>1
<1> HIDE DEF i
<1>4. Embedded(t)[i] = [of |-> {At(t, b, i \div C, 0, 0).id : b \in Channels}, chan |-> i % C]
  BY <1>2 DEF Embedded
<1> QED
  BY <1>2, <1>3, <1>4 DEF i

(* A mask: each coefficient of the query with its own channel.             *)
Multiplied(me, inst, area, q, p) ==
  LET pairs == {<<me[q * C + c], inst[c * area + p]>> : c \in Channels}
  IN [query |-> UNION {x[1].of : x \in pairs}, layers |-> UNION {x[2].layers : x \in pairs},
      read |-> UNION {x[2].read : x \in pairs}, ring |-> UNION {x[2].ring : x \in pairs},
      chans |-> {<<x[1].chan, x[2].chan>> : x \in pairs}]

MaskShown(q, y, x) ==
  [query |-> {<<q, DecoderLayers>>}, layers |-> Under(0, y, x), read |-> ReadAt(0, y, x),
   ring |-> RingAt(0, y, x), chans |-> {<<c, c>> : c \in Channels}]

LEMMA MultipliedIs ==
  ASSUME NEW me, NEW inst, NEW area, NEW q, NEW y, NEW x, NEW p,
         \A c \in Channels : /\ me[q * C + c] = [of |-> {<<q, DecoderLayers>>}, chan |-> c]
                             /\ inst[c * area + p] = ShownBy(y, x, c)
  PROVE  Multiplied(me, inst, area, q, p) = MaskShown(q, y, x)
<1> DEFINE A(c) == me[q * C + c]  B(c) == inst[c * area + p]
           pairs == {<<A(c), B(c)>> : c \in Channels}
           own == {<<c, c>> : c \in Channels}
           row == {<<q, DecoderLayers>>}
           under == Under(0, y, x)  read == ReadAt(0, y, x)  ring == RingAt(0, y, x)
<1>1. 0 \in Channels
  BY Extents
<1>2. \A c \in Channels : A(c) = [of |-> row, chan |-> c] /\ B(c) = ShownBy(y, x, c)
  OBVIOUS
<1>3. Multiplied(me, inst, area, q, p)
        = [query |-> UNION {z[1].of : z \in pairs}, layers |-> UNION {z[2].layers : z \in pairs},
           read |-> UNION {z[2].read : z \in pairs}, ring |-> UNION {z[2].ring : z \in pairs},
           chans |-> {<<z[1].chan, z[2].chan>> : z \in pairs}]
  BY DEF Multiplied
<1>4. MaskShown(q, y, x) = [query |-> row, layers |-> under, read |-> read, ring |-> ring, chans |-> own]
  BY DEF MaskShown
<1>5. \A c \in Channels : B(c) = [layers |-> under, read |-> read, ring |-> ring, chan |-> c]
  BY <1>2 DEF ShownBy
<1> HIDE DEF A, B, own, row, under, read, ring
<1>6. \A c \in Channels : /\ A(c).of = row /\ A(c).chan = c
                          /\ B(c).layers = under /\ B(c).read = read /\ B(c).ring = ring /\ B(c).chan = c
  BY <1>2, <1>5
<1>7. ASSUME NEW z \in pairs
      PROVE  /\ z[1].of = row /\ z[2].layers = under /\ z[2].read = read /\ z[2].ring = ring
             /\ \E c \in Channels : z[1].chan = c /\ z[2].chan = c
  <2>1. PICK c \in Channels : z = <<A(c), B(c)>>
    OBVIOUS
  <2>2. z[1] = A(c) /\ z[2] = B(c)
    BY <2>1
  <2> QED
    BY <1>6, <2>2
<1>8. ASSUME NEW c \in Channels
      PROVE  \E z \in pairs : z[1].chan = c /\ z[2].chan = c
  <2> DEFINE z == <<A(c), B(c)>>
  <2>1. z \in pairs
    OBVIOUS
  <2>2. z[1] = A(c) /\ z[2] = B(c)
    OBVIOUS
  <2> HIDE DEF z, pairs
  <2> QED
    BY <1>6, <2>1, <2>2
<1> HIDE DEF pairs
<1>9. UNION {z[1].of : z \in pairs} = row
  BY <1>1, <1>7, <1>8
<1>10. UNION {z[2].layers : z \in pairs} = under
  BY <1>1, <1>7, <1>8
<1>11. UNION {z[2].read : z \in pairs} = read
  BY <1>1, <1>7, <1>8
<1>12. UNION {z[2].ring : z \in pairs} = ring
  BY <1>1, <1>7, <1>8
<1>13. {<<z[1].chan, z[2].chan>> : z \in pairs} = own
  BY <1>7, <1>8 DEF own
<1> QED
  BY <1>3, <1>4, <1>9, <1>10, <1>11, <1>12, <1>13

LEMMA MaskTailAt ==
  ASSUME ShowsRings(pixels, 0), Rows(queries, NumQueries, DecRows(DecoderLayers))
  PROVE  /\ MaskTail.ne = <<Wide(0), High(0), NumQueries, 1>>
         /\ \A x \in 0 .. Wide(0) - 1, y \in 0 .. High(0) - 1, q \in 0 .. NumQueries - 1 :
              At(MaskTail, x, y, q, 0) = MaskShown(q, y, x)
<1> DEFINE area == pixels.ne[1] * pixels.ne[2]  inst == Projected(area, pixels.data)  me == Embedded(queries)
           data == [i \in 0 .. NumQueries * area - 1 |-> Multiplied(me, inst, area, i \div area, i % area)]
           ne == <<Wide(0), High(0), NumQueries, 1>>
<1>1. pixels.ne[1] = Wide(0) /\ pixels.ne[2] = High(0) /\ Wide(0) \in Nat \ {0} /\ High(0) \in Nat \ {0}
  BY LevelSides DEF ShowsRings, LevelNe, Wide, High
<1>2. MaskTail = [ne |-> <<pixels.ne[1], pixels.ne[2], NumQueries, 1>>, data |-> data]
  BY DEF MaskTail, Projected, Embedded, Multiplied
<1>3. area = Wide(0) * High(0) /\ area \in Nat \ {0} /\ NumQueries \in Nat \ {0}
  BY <1>1, Extents, Prod
<1>4. MaskTail.ne = ne /\ MaskTail.data = data
  <2> HIDE DEF data
  <2> QED
    BY <1>1, <1>2
<1>5. ASSUME NEW x \in 0 .. Wide(0) - 1, NEW y \in 0 .. High(0) - 1, NEW q \in 0 .. NumQueries - 1
      PROVE  At(MaskTail, x, y, q, 0) = MaskShown(q, y, x)
  <2> DEFINE p == y * Wide(0) + x  i == q * area + p
  <2>1. p \in 0 .. area - 1
    BY FlatPixel
  <2>2. At(MaskTail, x, y, q, 0) = data[i]
    <3> DEFINE w == Wide(0)  h == High(0)
    <3>1. w \in Nat /\ h \in Nat /\ x \in Nat /\ y \in Nat /\ q \in Nat
      BY <1>1
    <3> HIDE DEF w, h, data, area
    <3>2. Flat(<<w, h, NumQueries, 1>>, x, y, q, 0) = x + w * (y + h * q)
      BY <1>3, <3>1 DEF Flat
    <3>3. x + w * (y + h * q) = q * (w * h) + (y * w + x)
      BY <3>1
    <3> QED
      BY <1>3, <1>4, <3>2, <3>3, AtFlat DEF w, h
  <2> HIDE DEF area, p
  <2>3. i \in 0 .. NumQueries * area - 1 /\ i % area = p /\ i \div area = q
    <3>1. q \in Nat
      OBVIOUS
    <3>2. p + area * q \in 0 .. area * NumQueries - 1
      BY <1>3, <2>1, Below
    <3>3. (p + area * q) \div area = q /\ (p + area * q) % area = p
      BY <1>3, <2>1, <3>1, DivMod
    <3>4. p + area * q = i /\ area * NumQueries = NumQueries * area
      BY <1>3, <2>1, <3>1
    <3> QED
      BY <3>2, <3>3, <3>4
  <2> HIDE DEF i, me, inst
  <2>4. data[i] = Multiplied(me, inst, area, q, p)
    BY <2>3
  <2>5. \A c \in Channels : /\ me[q * C + c] = [of |-> {<<q, DecoderLayers>>}, chan |-> c]
                            /\ inst[c * area + p] = ShownBy(y, x, c)
    BY EmbeddedQuery, ProjectedPixel DEF me, inst, area, p
  <2>6. Multiplied(me, inst, area, q, p) = MaskShown(q, y, x)
    BY <2>5, MultipliedIs
  <2> QED
    BY <2>2, <2>4, <2>6
<1> QED
  BY <1>4, <1>5

LEMMA FinestSides == Wide(0) = 4 * Width /\ High(0) = 4 * Height
BY ScaleIs, Extents DEF Wide, High

LEMMA MaskPixelIs ==
  ASSUME NEW q, NEW y, NEW x
  PROVE  MaskShown(q, y, x) = MaskPixel(q, y, x)
<1> DEFINE taps == {tap \in (0 .. 2) \X (0 .. 2) :
                      y + tap[1] - 1 \in 0 .. 4 * Height - 1 /\ x + tap[2] - 1 \in 0 .. 4 * Width - 1}
           ring == {<<k, LayersUnder(y + k[1] - 1, x + k[2] - 1)>> : k \in taps}
<1>1. TapsIn(0, y, x) = taps
  BY FinestSides DEF TapsIn
<1>2. Under(0, y, x) = LayersUnder(y, x) /\ ReadAt(0, y, x) = Phrase(y \div 4, x \div 4)
  BY DEF Under, ReadAt
<1>3. RingAt(0, y, x) = ring
  <2>1. \A k : Under(0, y + k[1] - 1, x + k[2] - 1) = LayersUnder(y + k[1] - 1, x + k[2] - 1)
    BY DEF Under
  <2> DEFINE U(k) == Under(0, y + k[1] - 1, x + k[2] - 1)  L(k) == LayersUnder(y + k[1] - 1, x + k[2] - 1)
  <2>2. RingAt(0, y, x) = {<<k, U(k)>> : k \in TapsIn(0, y, x)}
    BY DEF RingAt
  <2>3. ring = {<<k, L(k)>> : k \in taps}
    OBVIOUS
  <2>4. \A k : U(k) = L(k)
    BY <2>1
  <2> HIDE DEF U, L, taps, ring
  <2> QED
    BY <1>1, <2>2, <2>3, <2>4
<1>4. MaskPixel(q, y, x)
        = [query |-> {<<q, DecoderLayers>>}, layers |-> LayersUnder(y, x),
           read |-> Phrase(y \div 4, x \div 4), ring |-> ring, chans |-> {<<c, c>> : c \in Channels}]
  BY DEF MaskPixel, Phrase
<1> HIDE DEF ring
<1> QED
  BY <1>2, <1>3, <1>4 DEF MaskShown

LEMMA ScoreAt ==
  ASSUME TextRows, Rows(queries, NumQueries, DecRows(DecoderLayers)), NEW q \in 0 .. NumQueries - 1
  PROVE  DotProdScoring[q] = [query |-> {<<q, DecoderLayers>>}, text |-> {<<r>> : r \in Valid}]
<1>1. 0 \in Channels /\ Valid \subseteq 0 .. TextSeq - 1
  BY Extents
<1>2. {At(queries, c, q, 0, 0).id : c \in Channels} = {<<q, DecoderLayers>>}
  <2>1. \A c \in Channels : At(queries, c, q, 0, 0).id = <<q, DecoderLayers>>
    BY DecRowParts DEF Rows, DecRows, RowElement
  <2> QED
    BY <1>1, <2>1
<1>3. {At(text, c, r, 0, 0).id : c \in Channels, r \in Valid} = {<<r>> : r \in Valid}
  <2>1. ASSUME NEW c \in Channels, NEW r \in Valid
        PROVE  At(text, c, r, 0, 0).id = <<r>>
    <3>1. At(text, c, r, 0, 0) = RowElement(Told!Row(<<r>>, {}, {}, {}), c)
      BY <1>1 DEF TextRows, Rows
    <3> QED
      BY <3>1 DEF RowElement, Told!Row
  <2> QED
    BY <1>1, <2>1
<1> DEFINE rows == {At(queries, c, q, 0, 0).id : c \in Channels}
           said == {At(text, c, r, 0, 0).id : c \in Channels, r \in Valid}
<1>4. DotProdScoring[q] = [query |-> rows, text |-> said]
  BY DEF DotProdScoring
<1>5. rows = {<<q, DecoderLayers>>} /\ said = {<<r>> : r \in Valid}
  BY <1>2, <1>3
<1> DEFINE phrase == {<<r>> : r \in Valid}
<1>6. said = phrase
  BY <1>5
<1> HIDE DEF rows, said, phrase
<1>7. DotProdScoring[q] = [query |-> {<<q, DecoderLayers>>}, text |-> phrase]
  BY <1>4, <1>5, <1>6
<1> QED
  BY <1>7 DEF phrase

(* From the rows to the masks, stage by stage.                             *)
MaskInv ==
  /\ pc = "stage0" => Shows(pixels, 2)
  /\ pc = "stage1" => ShowsRings(pixels, 1)
  /\ pc = "tail" => ShowsRings(pixels, 0)
  /\ MasksInPlace

LEMMA MasksMade ==
  ASSUME DetrInv, MaskInv, ScoreAndMask
  PROVE  MasksInPlace'
<1>1. pc = "tail" /\ masks' = MaskTail /\ scores' = DotProdScoring
  BY DEF ScoreAndMask, Ready
<1>2. RowInv /\ Decoded = DecoderLayers /\ ShowsRings(pixels, 0)
  BY <1>1 DEF DetrInv, Decoded, MaskInv
<1>3. TextRows /\ Rows(queries, NumQueries, DecRows(DecoderLayers))
  BY <1>1, <1>2 DEF RowInv
<1>4. masks'.ne = <<4 * Width, 4 * Height, NumQueries, 1>>
  BY <1>1, <1>2, <1>3, MaskTailAt, FinestSides
<1>5. ASSUME NEW q \in 0 .. NumQueries - 1, NEW y \in 0 .. 4 * Height - 1, NEW x \in 0 .. 4 * Width - 1
      PROVE  At(masks', x, y, q, 0) = MaskPixel(q, y, x)
  <2>1. y \in 0 .. High(0) - 1 /\ x \in 0 .. Wide(0) - 1
    BY FinestSides
  <2>2. At(MaskTail, x, y, q, 0) = MaskShown(q, y, x)
    BY <1>2, <1>3, <2>1, MaskTailAt
  <2> QED
    BY <1>1, <2>2, MaskPixelIs
<1>6. \A q \in 0 .. NumQueries - 1 :
        scores'[q] = [query |-> {<<q, DecoderLayers>>}, text |-> {<<r>> : r \in Valid}]
  BY <1>1, <1>3, ScoreAt
<1> QED
  BY <1>4, <1>5, <1>6 DEF MasksInPlace

LEMMA MaskStep ==
  ASSUME DetrInv, MaskInv, [Next]_vars
  PROVE  MaskInv'
<1>1. CASE Fuse
  <2>1. pc = "fuse" /\ pc' = "stage0" /\ pixels' = ChannelsFirst(PostEncoder)
    BY <1>1 DEF Fuse, Ready
  <2>2. TextRows /\ Rows(hidden, HW, EncRows(EncoderLayers))
    BY <2>1 DEF DetrInv, RowInv, Encoded
  <2>3. Shows(pixels', 2)
    BY <2>1, <2>2, FusedShows
  <2> QED
    BY <2>1, <2>3 DEF MaskInv, MasksInPlace
<1>2. CASE Stage0
  <2>1. pc = "stage0" /\ pc' = "stage1" /\ pixels' = PixelStage(Backbone(1), pixels)
    BY <1>2 DEF Stage0, Ready
  <2>2. ShowsRings(pixels', 1)
    BY <2>1, StageShows DEF MaskInv
  <2> QED
    BY <2>1, <2>2 DEF MaskInv, MasksInPlace
<1>3. CASE Stage1
  <2>1. pc = "stage1" /\ pc' = "tail" /\ pixels' = PixelStage(Backbone(0), pixels)
    BY <1>3 DEF Stage1, Ready
  <2>2. ShowsRings(pixels', 0)
    BY <2>1, StageShows, RingsShow DEF MaskInv
  <2> QED
    BY <2>1, <2>2 DEF MaskInv, MasksInPlace
<1>4. CASE ScoreAndMask
  <2>1. pc' = "done"
    BY <1>4 DEF ScoreAndMask
  <2> QED
    BY <1>4, <2>1, MasksMade DEF MaskInv
<1>5. CASE OpenGraph \/ UNCHANGED vars
  <2>1. UNCHANGED <<pixels, masks, scores>> /\ (pc' = pc \/ pc' = "failed")
    BY <1>5 DEF OpenGraph, Fail, vars, maskVars
  <2> QED
    BY <2>1 DEF MaskInv, MasksInPlace
<1>6. CASE TensorMissing \/ ComputeFails \/ Constants \/ Bridge \/ Encode \/ LoadRefinement \/ Decode
  <2>1. pc' \in {"failed", "bridge", "encode", "weights", "decode", "fuse"}
    BY <1>6 DEF TensorMissing, ComputeFails, Fail, Constants, Bridge, Encode, LoadRefinement, Decode, Ready
  <2> QED
    BY <2>1 DEF MaskInv, MasksInPlace
<1> QED
  BY <1>1, <1>2, <1>3, <1>4, <1>5, <1>6 DEF Next, Finished

(* Every pixel of every mask is made of its query, of what lies under it in*)
(* every level and of the phrase, and nothing else.                        *)
THEOREM MasksAlwaysInPlace == Spec => []MasksInPlace
<1>1. Init => DetrInv /\ MaskInv
  BY DetrInit DEF Init, MaskInv, MasksInPlace
<1>2. DetrInv /\ MaskInv /\ [Next]_vars => DetrInv' /\ MaskInv'
  BY DetrStep, MaskStep
<1>3. MaskInv => MasksInPlace
  BY DEF MaskInv
<1> QED
  BY <1>1, <1>2, <1>3, PTL DEF Spec
==============================================================================
