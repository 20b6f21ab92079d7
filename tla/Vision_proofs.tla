---------------------------- MODULE Vision_proofs ----------------------------
(***************************************************************************)
(* Proofs about Vision, for every size of grid, window, table of positions *)
(* and kernel, and every number of heads, layers and channels.             *)
(***************************************************************************)
EXTENDS Vision, Lemmas, FiniteSetTheorems, SequenceTheorems

-----------------------------------------------------------------------------
(***************************************************************************)
(* Graphs and levels.                                                      *)
(***************************************************************************)

Ops == {"convT", "deconv", "deconvCF", "spatial", "pool", "conv1", "conv3"}

Made == {outputs[i].level : i \in DOMAIN outputs}

(* The graphs: only the way through a missing tensor leaves one.           *)
GraphInv ==
  /\ live \in {{}, Objects}
  /\ live # {} =>
       InGraph \/ (pc = "failed" /\ cause = "tensor" /\ (program = "instructsam" => absent[1] = "top"))

(* The levels: those made are the first of those asked for.                *)
LevelInv ==
  /\ program \in {"instructsam", "sam3"}
  /\ wanted \subseteq 0 .. 3 /\ wanted # {}
  /\ todo \in Seq(Ops)
  /\ \E S : outputs \in Seq(S)
  /\ Made \subseteq wanted
  /\ \A m \in wanted, l \in Made : m < l => m \in Made
  /\ \A i, j \in DOMAIN outputs : i < j => outputs[i].level < outputs[j].level
  /\ pc \notin {"neck", "done", "failed"} => outputs = <<>>
  /\ pc = "neck" => Len(outputs) < Cardinality(wanted)
  /\ pc = "done" => live = {} /\ Len(outputs) = Cardinality(wanted)

EndInv == GraphInv /\ LevelInv

LEMMA WantedIs ==
  ASSUME Init
  PROVE  wanted \subseteq 0 .. 3 /\ wanted # {}
<1>1. Levels("sam3") = 0 .. 3 /\ Levels("instructsam") = 0 .. 2
  BY DEF Levels
<1>2. \/ program = "sam3" /\ (wanted = 0 .. 3 \/ \E l \in 0 .. 3 : wanted = {l})
      \/ program = "instructsam" /\ wanted = 0 .. 2
  BY <1>1 DEF Init
<1> QED
  BY <1>2

(* As many levels are made as there are places in the result.              *)
LEMMA MadeCount ==
  ASSUME LevelInv
  PROVE  IsFiniteSet(wanted) /\ IsFiniteSet(Made) /\ Cardinality(Made) = Len(outputs)
<1>1. IsFiniteSet(wanted)
  <2>1. IsFiniteSet(0 .. 3)
    BY FS_Interval, 0 \in Int, 3 \in Int
  <2> QED
    BY <2>1, FS_Subset DEF LevelInv
<1>2. IsFiniteSet(Made)
  BY <1>1, FS_Subset DEF LevelInv
<1>3. ExistsBijection(1 .. Len(outputs), Made)
  <2> DEFINE f == [i \in 1 .. Len(outputs) |-> outputs[i].level]
  <2>1. \A i \in 1 .. Len(outputs) : f[i] \in Made
    BY DEF LevelInv, Made
  <2>2. \A l \in Made : \E i \in 1 .. Len(outputs) : f[i] = l
    BY DEF LevelInv, Made
  <2>3. \A i, j \in 1 .. Len(outputs) : f[i] = f[j] => i = j
    <3> SUFFICES ASSUME NEW i \in 1 .. Len(outputs), NEW j \in 1 .. Len(outputs), f[i] = f[j], i < j
                 PROVE  FALSE
      BY DEF LevelInv
    <3>1. i \in DOMAIN outputs /\ j \in DOMAIN outputs
      BY DEF LevelInv
    <3>2. outputs[i].level \in 0 .. 3 /\ outputs[i].level < outputs[j].level
      BY <3>1 DEF LevelInv, Made
    <3> QED
      BY <3>2
  <2>4. f \in Bijection(1 .. Len(outputs), Made)
    <3> HIDE DEF f
    <3>1. f \in [1 .. Len(outputs) -> Made]
      BY <2>1 DEF f
    <3> QED
      BY <3>1, <2>2, <2>3 DEF Bijection, Injection, Surjection, IsInjective
  <2> QED
    BY <2>4 DEF ExistsBijection
<1>4. IsFiniteSet(1 .. Len(outputs)) /\ Cardinality(1 .. Len(outputs)) = Len(outputs)
  BY FS_Interval DEF LevelInv
<1> QED
  BY <1>1, <1>2, <1>3, <1>4, FS_Bijection

(* While fewer are made than were asked for, NextLevel is the least of the *)
(* others.                                                                 *)
LEMMA NextLevelIs ==
  ASSUME LevelInv, Len(outputs) < Cardinality(wanted)
  PROVE  /\ NextLevel \in wanted \ Made
         /\ \A l \in Made : l < NextLevel
         /\ \A m \in wanted : m < NextLevel => m \in Made
<1>1. wanted \ Made # {}
  <2>1. Made # wanted
    BY MadeCount DEF LevelInv
  <2> QED
    BY <2>1 DEF LevelInv
<1>2. PICK m \in wanted \ Made : \A n \in wanted \ Made : m <= n
  <2>1. wanted \ Made \subseteq {0, 1, 2, 3}
    BY DEF LevelInv
  <2>2. CASE 0 \in wanted \ Made
    BY <2>1, <2>2
  <2>3. CASE 0 \notin wanted \ Made /\ 1 \in wanted \ Made
    BY <2>1, <2>3
  <2>4. CASE 0 \notin wanted \ Made /\ 1 \notin wanted \ Made
    BY <1>1, <2>1, <2>4
  <2> QED
    BY <2>2, <2>3, <2>4
<1>3. \A n \in wanted : n < m => n \in Made
  BY <1>2 DEF LevelInv
<1>4. \A l \in Made : l < m
  BY <1>2 DEF LevelInv
<1> DEFINE Next1(l) == /\ \A i \in DOMAIN outputs : outputs[i].level < l
                       /\ \A n \in wanted : n < l => \E i \in DOMAIN outputs : outputs[i].level = n
<1>5. Next1(m)
  BY <1>3, <1>4 DEF Made
<1>6. NextLevel \in wanted /\ Next1(NextLevel)
  BY <1>2, <1>5 DEF NextLevel
<1> QED
  BY <1>6 DEF Made, LevelInv

LEMMA GraphStep ==
  ASSUME GraphInv, [Next]_vars
  PROVE  GraphInv'
<1>1. CASE OpenGraph
  BY <1>1 DEF OpenGraph, Fail, GraphInv, InGraph, choiceVars
<1>2. CASE TensorMissing
  BY <1>2 DEF TensorMissing, PositionsMissing, Missing, Fail, GraphInv, InGraph, Objects, choiceVars
<1>3. CASE ComputeFails
  BY <1>3 DEF ComputeFails, GraphInv
<1>4. CASE OperationFails
  <2>1. live = {}
    BY <1>4 DEF OperationFails, Ready, GraphInv, InGraph
  <2> QED
    BY <1>4, <2>1 DEF OperationFails, GraphInv
<1>5. CASE Embed
  BY <1>5 DEF Embed, Ready, GraphInv, InGraph, choiceVars
<1>6. CASE WindowRows \/ Attend \/ BeginLevel
  BY <1>6 DEF WindowRows, Attend, BeginLevel, Ready, GraphInv, InGraph, choiceVars
<1>7. CASE Merge
  BY <1>7 DEF Merge, Ready, GraphInv, InGraph, choiceVars
<1>8. CASE LevelStep
  BY <1>8 DEF LevelStep, Ready, GraphInv, InGraph, choiceVars
<1>9. CASE UNCHANGED vars
  BY <1>9 DEF vars, GraphInv, InGraph
<1> QED
  BY <1>1, <1>2, <1>3, <1>4, <1>5, <1>6, <1>7, <1>8, <1>9 DEF Next, Finished

(* One more level is made, and it is the next.                             *)
LEMMA LevelMade ==
  ASSUME EndInv, GraphInv', Ready("neck"), LevelStep, Len(todo) = 1
  PROVE  LevelInv'
<1> USE DEF EndInv
<1>1. pc = "neck" /\ Len(outputs) < Cardinality(wanted)
  BY DEF LevelInv, Ready
<1> DEFINE new == [level |-> NextLevel, map |-> Apply(Head(todo), work)]
<1>2. outputs' = Append(outputs, new)
  <2>1. ~ Len(todo) > 1
    OBVIOUS
  <2> QED
    BY <2>1 DEF LevelStep
<1>3. PICK S : outputs \in Seq(S)
  BY DEF LevelInv
<1>4. /\ outputs' \in Seq(S \cup {new})
      /\ Len(outputs') = Len(outputs) + 1 /\ Len(outputs) \in Nat
      /\ \A i \in 1 .. Len(outputs) : outputs'[i] = outputs[i]
      /\ outputs'[Len(outputs) + 1] = new
  BY <1>2, <1>3, AppendProperties
<1>5. DOMAIN outputs = 1 .. Len(outputs) /\ DOMAIN outputs' = 1 .. Len(outputs) + 1
  BY <1>3, <1>4, LenProperties
<1>6. Made' = Made \cup {NextLevel}
  BY <1>4, <1>5 DEF Made
<1>7. /\ NextLevel \in wanted \ Made
      /\ \A l \in Made : l < NextLevel
      /\ \A m \in wanted : m < NextLevel => m \in Made
  BY <1>1, NextLevelIs
<1>8. wanted' = wanted /\ program' = program /\ todo' \in Seq(Ops)
  BY DEF LevelStep, choiceVars, LevelInv
<1>9. \A i, j \in DOMAIN outputs' : i < j => outputs'[i].level < outputs'[j].level
  <2> SUFFICES ASSUME NEW i \in DOMAIN outputs', NEW j \in DOMAIN outputs', i < j
               PROVE  outputs'[i].level < outputs'[j].level
    OBVIOUS
  <2>1. i \in DOMAIN outputs
    BY <1>4, <1>5
  <2>2. CASE j \in DOMAIN outputs
    BY <2>1, <2>2, <1>4, <1>5 DEF LevelInv
  <2>3. CASE j = Len(outputs) + 1
    BY <2>1, <2>3, <1>4, <1>5, <1>7 DEF Made
  <2> QED
    BY <2>2, <2>3, <1>4, <1>5
<1>10. \A m \in wanted', l \in Made' : m < l => m \in Made'
  BY <1>6, <1>7, <1>8 DEF LevelInv
<1>11. Cardinality(wanted) \in Nat
  BY MadeCount, FS_CardinalityType
<1>12. IF Len(outputs) + 1 = Cardinality(wanted)
       THEN pc' = "done" /\ live' = {} ELSE pc' = "neck"
  BY <1>1 DEF LevelStep, LastStep
<1>13. /\ pc' = "neck" => Len(outputs') < Cardinality(wanted')
       /\ pc' = "done" => live' = {} /\ Len(outputs') = Cardinality(wanted')
       /\ pc' \in {"neck", "done"}
  BY <1>1, <1>4, <1>8, <1>11, <1>12
<1>14. Made' \subseteq wanted'
  BY <1>6, <1>7, <1>8 DEF LevelInv
<1> QED
  BY <1>4, <1>8, <1>9, <1>10, <1>13, <1>14 DEF LevelInv

LEMMA StepsAreOps ==
  ASSUME LevelInv, NextLevel \in 0 .. 3
  PROVE  Steps(NextLevel) \in Seq(Ops)
<1>1. CASE NextLevel = 0
  <2>1. CASE program = "instructsam"
    BY <1>1, <2>1 DEF Steps, Ops
  <2>2. CASE program = "sam3"
    BY <1>1, <2>2 DEF Steps, Ops
  <2> QED
    BY <2>1, <2>2 DEF LevelInv
<1>2. CASE NextLevel = 1
  <2>1. CASE program = "instructsam"
    BY <1>2, <2>1 DEF Steps, Ops
  <2>2. CASE program = "sam3"
    BY <1>2, <2>2 DEF Steps, Ops
  <2> QED
    BY <2>1, <2>2 DEF LevelInv
<1>3. CASE NextLevel = 2
  BY <1>3 DEF Steps, Ops
<1>4. CASE NextLevel = 3
  BY <1>4 DEF Steps, Ops
<1> QED
  BY <1>1, <1>2, <1>3, <1>4

LEMMA LevelStays ==
  ASSUME LevelInv, UNCHANGED <<choiceVars, outputs>>, todo' \in Seq(Ops),
         pc' = "done" => pc = "done" /\ live' = {},
         pc' = "neck" => pc = "neck" \/ Len(outputs) < Cardinality(wanted),
         pc' \notin {"neck", "done", "failed"} => pc \notin {"neck", "done", "failed"}
  PROVE  LevelInv'
<1>1. Made' = Made
  BY DEF Made
<1> QED
  BY <1>1 DEF LevelInv, choiceVars

LEMMA LevelsStep ==
  ASSUME EndInv, GraphInv', [Next]_vars
  PROVE  LevelInv'
<1> USE DEF EndInv
<1>1. CASE OpenGraph \/ TensorMissing \/ ComputeFails \/ OperationFails
  <2>1. pc # "done" /\ (pc' = pc \/ pc' = "failed") /\ UNCHANGED <<choiceVars, outputs, todo>>
    BY <1>1 DEF OpenGraph, TensorMissing, ComputeFails, OperationFails, Fail, InGraph, Missing,
       PositionsMissing, ComputePoint, Ready
  <2> QED
    BY <2>1, LevelStays DEF LevelInv
<1>2. CASE Embed \/ WindowRows \/ Attend
  <2>1. /\ pc \notin {"neck", "done", "failed"} /\ pc' \notin {"neck", "done", "failed"}
        /\ UNCHANGED <<choiceVars, outputs, todo>>
    BY <1>2 DEF Embed, WindowRows, Attend, Ready
  <2> QED
    BY <2>1, LevelStays DEF LevelInv
<1>3. CASE Merge
  <2>1. outputs = <<>> /\ UNCHANGED <<choiceVars, outputs, todo>> /\ pc' \in {"neck", "window"}
        /\ pc = "merge"
    BY <1>3 DEF Merge, Ready, LevelInv
  <2>2. Cardinality(wanted) \in Nat /\ Cardinality(wanted) # 0
    BY MadeCount, FS_CardinalityType, FS_EmptySet DEF LevelInv
  <2> QED
    BY <2>1, <2>2, LevelStays DEF LevelInv
<1>4. CASE BeginLevel
  <2>1. pc = "neck" /\ UNCHANGED <<choiceVars, outputs, pc>> /\ todo' = Steps(NextLevel)
    BY <1>4 DEF BeginLevel, Ready
  <2>2. todo' \in Seq(Ops)
    BY <2>1, NextLevelIs, StepsAreOps DEF LevelInv
  <2> QED
    BY <2>1, <2>2, LevelStays DEF LevelInv
<1>5. CASE LevelStep
  <2>1. Ready("neck") /\ todo # <<>> /\ pc = "neck"
    BY <1>5 DEF LevelStep, Ready
  <2>2. CASE Len(todo) > 1
    <3>1. UNCHANGED <<choiceVars, outputs, pc>> /\ todo' \in Seq(Ops)
      BY <1>5, <2>1, <2>2 DEF LevelStep, LastStep, LevelInv
    <3> QED
      BY <2>1, <3>1, LevelStays DEF LevelInv
  <2>3. CASE Len(todo) = 1
    BY <1>5, <2>1, <2>3, LevelMade
  <2>4. Len(todo) \in Nat \ {0}
    BY <2>1, EmptySeq DEF LevelInv
  <2> QED
    BY <2>2, <2>3, <2>4
<1>6. CASE UNCHANGED vars
  BY <1>6, LevelStays DEF vars, choiceVars, LevelInv
<1> QED
  BY <1>1, <1>2, <1>3, <1>4, <1>5, <1>6 DEF Next, Finished

LEMMA EndInvBegins == ASSUME Init PROVE EndInv
<1>1. Made = {}
  BY DEF Init, Made
<1>2. /\ program \in {"instructsam", "sam3"} /\ pc = "embed" /\ live = {}
      /\ todo = <<>> /\ outputs = <<>>
  BY DEF Init
<1> QED
  BY <1>1, <1>2, WantedIs DEF EndInv, GraphInv, LevelInv

(* A run that ends has freed its graphs and delivered the levels asked for *)
(* in their order, or thrown.                                              *)
THEOREM EndsCleanAlways == Spec => []EndsClean
<1>1. Init => EndInv
  BY EndInvBegins
<1>2. EndInv /\ [Next]_vars => EndInv'
  BY GraphStep, LevelsStep DEF EndInv
<1>3. EndInv => EndsClean
  <2> SUFFICES ASSUME EndInv PROVE EndsClean
    OBVIOUS
  <2>1. ASSUME pc = "done" PROVE Made = wanted
    BY <2>1, MadeCount, FS_Subset DEF EndInv, LevelInv
  <2> QED
    BY <2>1 DEF EndInv, GraphInv, LevelInv, EndsClean, InGraph, Made
<1> QED
  BY <1>1, <1>2, <1>3, PTL DEF Spec

-----------------------------------------------------------------------------
(***************************************************************************)
(* The trunk: its rows are those of ViT after as many layers.              *)
(***************************************************************************)

Nw == Grid \div Window   \* windows along a side

LEMMA Sizes ==
  /\ Grid \in Nat \ {0} /\ Window \in Nat \ {0} /\ Nw \in Nat \ {0} /\ Grid = Window * Nw
  /\ Heads \in Nat \ {0} /\ Pretrain \in Nat \ {0} /\ NLayers \in Nat \ {0}
<1>1. /\ Grid \in Nat \ {0} /\ Window \in Nat \ {0} /\ Grid % Window = 0
      /\ Heads \in Nat \ {0} /\ Pretrain \in Nat \ {0} /\ NLayers \in Nat \ {0}
  BY VisionAssumption
<1>2. Nw \in Nat /\ Grid = Window * Nw
  BY <1>1 DEF Nw
<1> QED
  BY <1>1, <1>2

RowsNe == <<Heads, Grid, Grid, 1>>

(* What stands for channel c of the patch <<h, w>> after l layers.          *)
HeardAfter(l, p) == IF l = 0 THEN {} ELSE Model!Hears(l - 1, p)

RowElement(l, c, w, h) ==
  [patch |-> <<h, w>>, chan |-> c, pos |-> <<h % Pretrain, w % Pretrain>>, depth |-> l,
   heard |-> HeardAfter(l, <<h, w>>)]

TrunkRows(l) == Tensor(RowsNe, LAMBDA c, w, h, n : RowElement(l, c, w, h))

LEMMA RowsAt ==
  ASSUME NEW l
  PROVE  /\ IsTensor(TrunkRows(l)) /\ TrunkRows(l).ne = RowsNe /\ RowsNe \in Shapes
         /\ DOMAIN TrunkRows(l).data = 0 .. Size(RowsNe) - 1
         /\ \A c \in 0 .. Heads - 1, w \in 0 .. Grid - 1, h \in 0 .. Grid - 1 :
              At(TrunkRows(l), c, w, h, 0) = RowElement(l, c, w, h)
<1>1. RowsNe \in Shapes
  BY Sizes DEF RowsNe, Shapes
<1>2. /\ IsTensor(TrunkRows(l)) /\ TrunkRows(l).ne = RowsNe
      /\ TrunkRows(l).data = [i \in 0 .. Size(RowsNe) - 1 |->
           RowElement(l, i % RowsNe[1], (i \div RowsNe[1]) % RowsNe[2],
                      (i \div (RowsNe[1] * RowsNe[2])) % RowsNe[3])]
  BY DEF TrunkRows, Tensor, IsTensor
<1>3. ASSUME NEW c \in 0 .. Heads - 1, NEW w \in 0 .. Grid - 1, NEW h \in 0 .. Grid - 1
      PROVE  At(TrunkRows(l), c, w, h, 0) = RowElement(l, c, w, h)
  <2> DEFINE i == Flat(RowsNe, c, w, h, 0)
  <2>0. /\ c \in 0 .. RowsNe[1] - 1 /\ w \in 0 .. RowsNe[2] - 1 /\ h \in 0 .. RowsNe[3] - 1
        /\ 0 \in 0 .. RowsNe[4] - 1
    BY DEF RowsNe
  <2>1. /\ i \in 0 .. Size(RowsNe) - 1
        /\ i % RowsNe[1] = c /\ (i \div RowsNe[1]) % RowsNe[2] = w
        /\ (i \div (RowsNe[1] * RowsNe[2])) % RowsNe[3] = h
    BY <1>1, <2>0, FlatOf
  <2>2. At(TrunkRows(l), c, w, h, 0) = TrunkRows(l).data[i]
    BY <1>2, AtFlat
  <2> HIDE DEF i
  <2> QED
    BY <1>2, <2>1, <2>2
<1> QED
  BY <1>1, <1>2, <1>3

(* Two tensors are one if they hold the same at every four indices.         *)
LEMMA SameTensor ==
  ASSUME NEW ne \in Shapes, NEW t, NEW u, IsTensor(t), IsTensor(u), t.ne = ne, u.ne = ne,
         t.data = [i \in 0 .. Size(ne) - 1 |-> t.data[i]],
         u.data = [i \in 0 .. Size(ne) - 1 |-> u.data[i]],
         \A i0 \in 0 .. ne[1] - 1, i1 \in 0 .. ne[2] - 1, i2 \in 0 .. ne[3] - 1, i3 \in 0 .. ne[4] - 1 :
           At(t, i0, i1, i2, i3) = At(u, i0, i1, i2, i3)
  PROVE  t = u
<1>1. ASSUME NEW i \in 0 .. Size(ne) - 1
      PROVE  t.data[i] = u.data[i]
  <2> DEFINE i0 == i % ne[1]  i1 == (i \div ne[1]) % ne[2]
             i2 == (i \div (ne[1] * ne[2])) % ne[3]  i3 == i \div (ne[1] * ne[2] * ne[3])
  <2>1. /\ i0 \in 0 .. ne[1] - 1 /\ i1 \in 0 .. ne[2] - 1 /\ i2 \in 0 .. ne[3] - 1
        /\ i3 \in 0 .. ne[4] - 1 /\ i = Flat(ne, i0, i1, i2, i3)
    BY CellOf
  <2> HIDE DEF i0, i1, i2, i3
  <2> QED
    BY <2>1, AtFlat
<1>2. t.data = u.data
  BY <1>1
<1> QED
  BY <1>2 DEF IsTensor

(* The embedding: patches in the order of rows, each with its own position. *)
LEMMA StoredAt ==
  ASSUME program \in {"instructsam", "sam3"}, NEW h \in 0 .. Grid - 1, NEW w \in 0 .. Grid - 1
  PROVE  Stored[Tile(h, w)] = <<h % Pretrain, w % Pretrain>>
<1> DEFINE r == h % Pretrain  c == w % Pretrain  k == r * Pretrain + c
<1>1. Pretrain \in Nat \ {0} /\ r \in 0 .. Pretrain - 1 /\ c \in 0 .. Pretrain - 1
  BY Sizes
<1> HIDE DEF r, c
<1>2. k \in 0 .. Pretrain * Pretrain - 1 /\ k \div Pretrain = r /\ k % Pretrain = c
  <2>1. k = c + Pretrain * r /\ r \in Nat
    BY <1>1
  <2> QED
    BY <1>1, <2>1, DivMod, Below
<1>3. Pretrain * Pretrain \in Nat
  BY <1>1
<1> HIDE DEF k
<1>4. CASE program = "sam3"
  <2>1. Tile(h, w) = k + 1
    BY <1>1, <1>4 DEF Tile, k, r, c
  <2>2. k + 1 \in 0 .. Pretrain * Pretrain - 1 + 1 /\ ~ (k + 1 < 1) /\ k + 1 - 1 = k
    BY <1>2, <1>3
  <2> QED
    BY <1>2, <1>4, <2>1, <2>2 DEF Stored, r, c
<1>5. CASE program # "sam3"
  <2>1. Tile(h, w) = k
    BY <1>1, <1>5 DEF Tile, k, r, c
  <2>2. k \in 0 .. Pretrain * Pretrain - 1 + 0 /\ ~ (k < 0) /\ k - 0 = k
    BY <1>2, <1>3
  <2> QED
    BY <1>2, <1>5, <2>1, <2>2 DEF Stored, r, c
<1> QED
  BY <1>4, <1>5

LEMMA PatchConvAt ==
  ASSUME NEW w \in 0 .. Grid - 1, NEW h \in 0 .. Grid - 1, NEW c \in 0 .. Heads - 1
  PROVE  /\ PatchConv.ne = <<Grid, Grid, Heads, 1>> /\ PatchConv.ne \in Shapes
         /\ At(PatchConv, w, h, c, 0) = [patch |-> <<h, w>>, chan |-> c]
<1> DEFINE ne == <<Grid, Grid, Heads, 1>>
           i == Flat(ne, w, h, c, 0)
<1>1. ne \in Shapes /\ 0 \in 0 .. ne[4] - 1
  BY Sizes DEF Shapes
<1>2. /\ PatchConv.ne = ne
      /\ PatchConv.data = [x \in 0 .. Size(ne) - 1 |->
           [patch |-> <<(x \div ne[1]) % ne[2], x % ne[1]>>, chan |-> (x \div (ne[1] * ne[2])) % ne[3]]]
  BY DEF PatchConv, Tensor
<1>3. w \in 0 .. ne[1] - 1 /\ h \in 0 .. ne[2] - 1 /\ c \in 0 .. ne[3] - 1
  OBVIOUS
<1> HIDE DEF ne
<1>4. /\ i \in 0 .. Size(ne) - 1
      /\ i % ne[1] = w /\ (i \div ne[1]) % ne[2] = h /\ (i \div (ne[1] * ne[2])) % ne[3] = c
  BY <1>1, <1>3, FlatOf
<1>5. At(PatchConv, w, h, c, 0) = PatchConv.data[i]
  BY <1>2, AtFlat
<1> HIDE DEF i
<1> QED
  BY <1>1, <1>2, <1>4, <1>5 DEF ne

LEMMA EmbeddedIs ==
  ASSUME program \in {"instructsam", "sam3"}
  PROVE  Embedded = TrunkRows(0)
<1> DEFINE tokens == Permute(PatchConv, 1, 2, 0, 3)
           Made1(c, w, h, n) ==
             [patch |-> At(tokens, c, w, h, n).patch, chan |-> At(tokens, c, w, h, n).chan,
              pos |-> Stored[Tile(h, w)], depth |-> 0, heard |-> {}]
<1>0. 0 \in 0 .. Grid - 1 /\ 0 \in 0 .. Heads - 1
  BY Sizes
<1>1. tokens.ne = RowsNe
  BY <1>0, PatchConvAt, Permute1203 DEF RowsNe
<1>2. ASSUME NEW c \in 0 .. Heads - 1, NEW w \in 0 .. Grid - 1, NEW h \in 0 .. Grid - 1
      PROVE  Made1(c, w, h, 0) = RowElement(0, c, w, h)
  <2>1. At(tokens, c, w, h, 0) = At(PatchConv, w, h, c, 0)
    <3>1. /\ c \in 0 .. RowsNe[1] - 1 /\ w \in 0 .. RowsNe[2] - 1 /\ h \in 0 .. RowsNe[3] - 1
          /\ 0 \in 0 .. RowsNe[4] - 1
      BY DEF RowsNe
    <3>2. PatchConv.ne \in Shapes
      BY PatchConvAt
    <3> QED
      BY <1>1, <3>1, <3>2, Permute1203
  <2>2. At(tokens, c, w, h, 0) = [patch |-> <<h, w>>, chan |-> c]
    BY <2>1, PatchConvAt
  <2>3. Stored[Tile(h, w)] = <<h % Pretrain, w % Pretrain>>
    BY StoredAt
  <2>4. At(tokens, c, w, h, 0).patch = <<h, w>> /\ At(tokens, c, w, h, 0).chan = c
    BY <2>2
  <2> HIDE DEF tokens
  <2>5. Made1(c, w, h, 0) = [patch |-> <<h, w>>, chan |-> c, pos |-> <<h % Pretrain, w % Pretrain>>,
                             depth |-> 0, heard |-> {}]
    BY <2>3, <2>4
  <2>6. RowElement(0, c, w, h) = [patch |-> <<h, w>>, chan |-> c, pos |-> <<h % Pretrain, w % Pretrain>>,
                                  depth |-> 0, heard |-> {}]
    BY DEF RowElement, HeardAfter
  <2> QED
    BY <2>5, <2>6
<1>3. Embedded = Tensor(RowsNe, Made1)
  BY <1>1 DEF Embedded
<1> HIDE DEF tokens, Made1
<1>4. RowsNe \in Shapes /\ RowsNe[1] = Heads /\ RowsNe[2] = Grid /\ RowsNe[3] = Grid /\ RowsNe[4] = 1
  BY RowsAt DEF RowsNe
<1>5. ASSUME NEW i \in 0 .. Size(RowsNe) - 1
      PROVE  Made1(i % RowsNe[1], (i \div RowsNe[1]) % RowsNe[2],
                   (i \div (RowsNe[1] * RowsNe[2])) % RowsNe[3], i \div (RowsNe[1] * RowsNe[2] * RowsNe[3]))
               = RowElement(0, i % RowsNe[1], (i \div RowsNe[1]) % RowsNe[2],
                            (i \div (RowsNe[1] * RowsNe[2])) % RowsNe[3])
  <2> DEFINE c == i % RowsNe[1]  w == (i \div RowsNe[1]) % RowsNe[2]
             h == (i \div (RowsNe[1] * RowsNe[2])) % RowsNe[3]
             n == i \div (RowsNe[1] * RowsNe[2] * RowsNe[3])
  <2>1. /\ c \in 0 .. RowsNe[1] - 1 /\ w \in 0 .. RowsNe[2] - 1 /\ h \in 0 .. RowsNe[3] - 1
        /\ n \in 0 .. RowsNe[4] - 1
    BY <1>4, CellOf
  <2> HIDE DEF c, w, h, n
  <2>2. Made1(c, w, h, n) = RowElement(0, c, w, h)
    BY <1>2, <1>4, <2>1
  <2> QED
    BY <2>2 DEF c, w, h, n
<1> QED
  BY <1>3, <1>5 DEF TrunkRows, Tensor

(* Where the rows of a layer come from: row s of window b is this patch.    *)
RowsIn == IF IsGlobal(layer) THEN Grid * Grid ELSE Window * Window
Batch == IF IsGlobal(layer) THEN 1 ELSE Nw * Nw
AttnNe == <<Heads, RowsIn, Batch, 1>>

Place(s, b) ==
  IF IsGlobal(layer) THEN <<s \div Grid, s % Grid>>
  ELSE LET wy == IF program = "sam3" THEN b % Nw ELSE b \div Nw
           wx == IF program = "sam3" THEN b \div Nw ELSE b % Nw
       IN <<wy * Window + (s \div Window), wx * Window + (s % Window)>>

Sides == 0 .. Grid - 1

LEMMA PlaceIn ==
  ASSUME NEW s \in 0 .. RowsIn - 1, NEW b \in 0 .. Batch - 1
  PROVE  Place(s, b)[1] \in Sides /\ Place(s, b)[2] \in Sides
<1>1. CASE IsGlobal(layer)
  <2>1. s \in 0 .. Grid * Grid - 1
    BY <1>1 DEF RowsIn
  <2>2. s \div Grid \in Sides /\ s % Grid \in Sides
    BY <2>1, Sizes, Within DEF Sides
  <2> QED
    BY <1>1, <2>2 DEF Place
<1>2. CASE ~ IsGlobal(layer)
  <2>1. s \in 0 .. Window * Window - 1 /\ b \in 0 .. Nw * Nw - 1
    BY <1>2 DEF RowsIn, Batch
  <2>2. s \div Window \in 0 .. Window - 1 /\ s % Window \in 0 .. Window - 1
    BY <2>1, Sizes, Within
  <2>3. b \div Nw \in 0 .. Nw - 1 /\ b % Nw \in 0 .. Nw - 1
    BY <2>1, Sizes, Within
  <2>4. ASSUME NEW x \in 0 .. Window - 1, NEW w \in 0 .. Nw - 1
        PROVE  w * Window + x \in Sides
    <3>1. x + Window * w \in 0 .. Window * Nw - 1
      BY Sizes, Below
    <3> QED
      BY <3>1, Sizes DEF Sides
  <2> QED
    BY <1>2, <2>2, <2>3, <2>4 DEF Place
<1> QED
  BY <1>1, <1>2

LEMMA AttnShape ==
  /\ AttnNe \in Shapes /\ RowsIn \in Nat \ {0} /\ Batch \in Nat \ {0}
  /\ LET batch == IF IsGlobal(layer) THEN 1 ELSE (Grid \div Window) * (Grid \div Window)
     IN <<Heads, (Grid * Grid) \div batch, batch, 1>> = AttnNe
<1>1. RowsIn \in Nat \ {0} /\ Batch \in Nat \ {0}
  BY Sizes, Prod DEF RowsIn, Batch
<1>2. AttnNe \in Shapes
  BY <1>1, Sizes DEF AttnNe, Shapes
<1>3. CASE IsGlobal(layer)
  <2>1. (Grid * Grid) \div 1 = Grid * Grid
    BY Sizes
  <2> QED
    BY <1>1, <1>2, <1>3, <2>1 DEF AttnNe, RowsIn, Batch
<1>4. CASE ~ IsGlobal(layer)
  <2>1. Nw * Nw \in Nat \ {0} /\ Window * Window \in Nat
    BY Sizes, Prod
  <2>2. Grid * Grid = 0 + (Nw * Nw) * (Window * Window)
    BY Sizes
  <2>3. (Grid * Grid) \div (Nw * Nw) = Window * Window
    BY <2>1, <2>2, DivMod
  <2> QED
    BY <1>1, <1>2, <1>4, <2>3 DEF AttnNe, RowsIn, Batch, Nw
<1> QED
  BY <1>3, <1>4

LEMMA PartitionAt ==
  ASSUME NEW l, ~ IsGlobal(layer), program # "sam3",
         NEW c \in 0 .. Heads - 1, NEW s \in 0 .. RowsIn - 1, NEW b \in 0 .. Batch - 1
  PROVE  LET part == CpuWindowPartition(TrunkRows(l))
         IN /\ IsTensor(part) /\ part.ne = AttnNe
            /\ At(part, c, s, b, 0) = RowElement(l, c, Place(s, b)[2], Place(s, b)[1])
<1> DEFINE part == CpuWindowPartition(TrunkRows(l))
           From(x, y, z) == At(TrunkRows(l), x, (z % Nw) * Window + (y % Window),
                               (z \div Nw) * Window + (y \div Window), 0)
           i == Flat(AttnNe, c, s, b, 0)
<1>1. /\ IsTensor(part) /\ part.ne = <<Heads, Window * Window, Nw * Nw, 1>>
      /\ part = Tensor(<<Heads, Window * Window, Nw * Nw, 1>>, LAMBDA x, y, z, n : From(x, y, z))
  BY DEF CpuWindowPartition, Nw, Tensor, IsTensor
<1>2. part.ne = AttnNe
  BY <1>1 DEF AttnNe, RowsIn, Batch
<1> HIDE DEF From, part
<1>3. part.data = [x \in 0 .. Size(AttnNe) - 1 |->
        From(x % AttnNe[1], (x \div AttnNe[1]) % AttnNe[2], (x \div (AttnNe[1] * AttnNe[2])) % AttnNe[3])]
  <2>1. <<Heads, Window * Window, Nw * Nw, 1>> = AttnNe
    BY DEF AttnNe, RowsIn, Batch
  <2> QED
    BY <1>1, <2>1 DEF Tensor
<1>4. /\ i \in 0 .. Size(AttnNe) - 1
      /\ i % AttnNe[1] = c /\ (i \div AttnNe[1]) % AttnNe[2] = s
      /\ (i \div (AttnNe[1] * AttnNe[2])) % AttnNe[3] = b
  <2>1. /\ c \in 0 .. AttnNe[1] - 1 /\ s \in 0 .. AttnNe[2] - 1 /\ b \in 0 .. AttnNe[3] - 1
        /\ 0 \in 0 .. AttnNe[4] - 1
    BY DEF AttnNe
  <2> QED
    BY <2>1, AttnShape, FlatOf
<1>5. At(part, c, s, b, 0) = part.data[i]
  BY <1>2, AtFlat
<1> HIDE DEF i
<1>6. At(part, c, s, b, 0) = From(c, s, b)
  BY <1>3, <1>4, <1>5
<1>7. From(c, s, b) = At(TrunkRows(l), c, Place(s, b)[2], Place(s, b)[1], 0)
  BY DEF From, Place
<1> QED
  BY <1>1, <1>2, <1>6, <1>7, PlaceIn, RowsAt DEF part, Sides

LEMMA WinPartAt ==
  ASSUME NEW l, ~ IsGlobal(layer), program = "sam3",
         NEW c \in 0 .. Heads - 1, NEW s \in 0 .. RowsIn - 1, NEW b \in 0 .. Batch - 1
  PROVE  LET part == Reshape(GpuWinPart(TrunkRows(l)), AttnNe)
         IN /\ IsTensor(part) /\ part.ne = AttnNe
            /\ At(part, c, s, b, 0) = RowElement(l, c, Place(s, b)[2], Place(s, b)[1])
<1> DEFINE rows == TrunkRows(l)
           cut == Reshape(rows, <<Heads, Window, Nw, Grid>>)
           split == Permute(cut, 0, 1, 3, 2)
           folded == Reshape(split, <<Heads * Window, Window, Nw, Nw>>)
           part == Reshape(Reshape(folded, <<Heads, Window, Window, Nw * Nw>>), AttnNe)
           ix == s % Window  iy == s \div Window  wy == b % Nw  wx == b \div Nw
           y == wy * Window + iy  x == wx * Window + ix
<1>1. part = Reshape(GpuWinPart(rows), AttnNe)
  BY DEF GpuWinPart, Nw
<1>2. /\ s \in 0 .. Window * Window - 1 /\ b \in 0 .. Nw * Nw - 1
      /\ RowsIn = Window * Window
  BY DEF RowsIn, Batch
<1>3. /\ ix \in 0 .. Window - 1 /\ iy \in 0 .. Window - 1 /\ s = ix + Window * iy
      /\ wy \in 0 .. Nw - 1 /\ wx \in 0 .. Nw - 1 /\ b = wy + Nw * wx
  BY <1>2, Sizes, Within
<1>4. y \in Sides /\ x \in Sides
  <2>1. ASSUME NEW j \in 0 .. Window - 1, NEW w \in 0 .. Nw - 1
        PROVE  w * Window + j \in Sides
    <3>1. j + Window * w \in 0 .. Window * Nw - 1
      BY Sizes, Below
    <3> QED
      BY <3>1, Sizes DEF Sides
  <2> QED
    BY <1>3, <2>1
<1>5. Place(s, b) = <<y, x>>
  BY DEF Place
<1>6. /\ IsTensor(cut) /\ cut.ne = <<Heads, Window, Nw, Grid>> /\ cut.ne \in Shapes
      /\ At(cut, c, ix, wx, y) = At(rows, c, x, y, 0)
  <2>1. cut.ne = <<Heads, Window, Nw, Grid>> /\ IsTensor(cut) /\ rows.ne = RowsNe
    BY RowsAt, ReshapeAt
  <2>2. cut.ne \in Shapes
    BY <2>1, Sizes DEF Shapes
  <2>3. Flat(<<Heads, Window, Nw, Grid>>, c, ix, wx, y) = Flat(RowsNe, c, x, y, 0)
    <3> HIDE DEF ix, iy, wx, wy
    <3> QED
      BY <1>3, Sizes DEF Flat, RowsNe
  <2> HIDE DEF x, y, ix, wx, rows
  <2> QED
    BY <2>1, <2>2, <2>3, RowsAt, ReshapeAt DEF rows
<1>7. /\ IsTensor(split) /\ split.ne = <<Heads, Window, Grid, Nw>>
      /\ At(split, c, ix, y, wx) = At(cut, c, ix, wx, y)
  <2> HIDE DEF cut, x, y, ix, wx
  <2>1. IsTensor(split) /\ split.ne = <<Heads, Window, Grid, Nw>>
    BY <1>6, Permute0132
  <2>2. /\ c \in 0 .. split.ne[1] - 1 /\ ix \in 0 .. split.ne[2] - 1
        /\ y \in 0 .. split.ne[3] - 1 /\ wx \in 0 .. split.ne[4] - 1
    BY <1>3, <1>4, <2>1 DEF Sides
  <2> QED
    BY <1>6, <2>1, <2>2, Permute0132
<1>8. /\ IsTensor(part) /\ part.ne = AttnNe /\ part.data = split.data
  <2> HIDE DEF split
  <2> QED
    BY <1>7, ReshapeAt
<1>9. At(part, c, s, b, 0) = At(split, c, ix, y, wx)
  <2>1. Flat(AttnNe, c, s, b, 0) = Flat(<<Heads, Window, Grid, Nw>>, c, ix, y, wx)
    <3>1. s + RowsIn * (b + Batch * 0) = ix + Window * (y + Grid * wx)
      <4> HIDE DEF ix, iy, wx, wy
      <4>1. b + Batch * 0 = wy + Nw * wx
        BY <1>3, AttnShape
      <4>2. (ix + Window * iy) + (Window * Window) * (wy + Nw * wx)
              = ix + Window * ((wy * Window + iy) + (Window * Nw) * wx)
        BY <1>3, Sizes
      <4> QED
        BY <1>2, <1>3, <4>1, <4>2, Sizes
    <3> HIDE DEF y, ix, wx
    <3> QED
      BY <3>1 DEF Flat, AttnNe
  <2> HIDE DEF part, split, y, ix, wx
  <2> QED
    BY <1>7, <1>8, <2>1, AtFlat
<1> HIDE DEF part, split, cut, x, y, ix, wx
<1>10. At(part, c, s, b, 0) = RowElement(l, c, x, y)
  BY <1>4, <1>6, <1>7, <1>9, RowsAt DEF rows, Sides
<1> QED
  BY <1>1, <1>5, <1>8, <1>10 DEF rows

LEMMA WindowedAt ==
  ASSUME program \in {"instructsam", "sam3"}, NEW l, hidden = TrunkRows(l),
         NEW c \in 0 .. Heads - 1, NEW s \in 0 .. RowsIn - 1, NEW b \in 0 .. Batch - 1
  PROVE  /\ IsTensor(Windowed) /\ Windowed.ne = AttnNe
         /\ At(Windowed, c, s, b, 0) = RowElement(l, c, Place(s, b)[2], Place(s, b)[1])
<1>1. Windowed = Reshape(IF IsGlobal(layer) THEN hidden
                         ELSE IF program = "sam3" THEN GpuWinPart(hidden)
                         ELSE CpuWindowPartition(hidden), AttnNe)
  BY AttnShape DEF Windowed
<1>2. CASE IsGlobal(layer)
  <2>1. Windowed = Reshape(TrunkRows(l), AttnNe)
    BY <1>1, <1>2
  <2>2. IsTensor(Windowed) /\ Windowed.ne = AttnNe
    BY <2>1, RowsAt, ReshapeAt
  <2>3. /\ s \in 0 .. Grid * Grid - 1 /\ b = 0 /\ AttnNe = <<Heads, Grid * Grid, 1, 1>>
        /\ Place(s, b) = <<s \div Grid, s % Grid>>
    BY <1>2 DEF RowsIn, Batch, AttnNe, Place
  <2> DEFINE y == s \div Grid  x == s % Grid
  <2>4. y \in 0 .. Grid - 1 /\ x \in 0 .. Grid - 1 /\ s = x + Grid * y
    BY <2>3, Sizes, Within
  <2> HIDE DEF x, y
  <2>5. Flat(AttnNe, c, s, b, 0) = Flat(RowsNe, c, x, y, 0)
    BY <2>3, <2>4, Sizes DEF Flat, RowsNe
  <2>6. At(Windowed, c, s, b, 0) = At(TrunkRows(l), c, x, y, 0)
    BY <2>1, <2>5, RowsAt, ReshapeAt
  <2> QED
    BY <2>2, <2>3, <2>4, <2>6, RowsAt DEF x, y
<1>3. CASE ~ IsGlobal(layer) /\ program = "sam3"
  BY <1>1, <1>3, WinPartAt
<1>4. CASE ~ IsGlobal(layer) /\ program # "sam3"
  <2> DEFINE part == CpuWindowPartition(TrunkRows(l))
  <2>1. /\ IsTensor(part) /\ part.ne = AttnNe
        /\ At(part, c, s, b, 0) = RowElement(l, c, Place(s, b)[2], Place(s, b)[1])
    BY <1>4, PartitionAt
  <2>2. Windowed = Reshape(part, AttnNe)
    BY <1>1, <1>4
  <2> HIDE DEF part
  <2> QED
    BY <2>1, <2>2, ReshapeAt
<1> QED
  BY <1>2, <1>3, <1>4

(* Attention: what channel c of row s of a window hears.                    *)
XNe == <<1, Heads, RowsIn, Batch>>
HeadsNe == <<1, RowsIn, Heads, Batch>>

Turned(s, head, b) == [of |-> {Place(s, b)}, head |-> head, at |-> RopeAngle(s)]
Plain(s, head, b) == [of |-> {Place(s, b)}, head |-> head, at |-> <<0, 0>>]

Sounds(c, s, b) ==
  {[heads |-> {c}, by |-> {Place(s, b)}, from |-> {Place(t, b)},
    dy |-> RopeAngle(s)[1] - RopeAngle(t)[1], dx |-> RopeAngle(s)[2] - RopeAngle(t)[2]] :
   t \in 0 .. RowsIn - 1}

LEMMA AttnShapes ==
  /\ XNe \in Shapes /\ XNe[1] = 1 /\ XNe[2] = Heads /\ XNe[3] = RowsIn /\ XNe[4] = Batch
  /\ HeadsNe \in Shapes /\ HeadsNe[1] = 1 /\ HeadsNe[2] = RowsIn /\ HeadsNe[3] = Heads /\ HeadsNe[4] = Batch
  /\ AttnNe \in Shapes /\ AttnNe[1] = Heads /\ AttnNe[2] = RowsIn /\ AttnNe[3] = Batch /\ AttnNe[4] = 1
BY AttnShape, Sizes DEF XNe, HeadsNe, AttnNe, Shapes

LEMMA ProjectedAt ==
  ASSUME NEW t, t.ne = AttnNe,
         NEW c \in 0 .. Heads - 1, NEW s \in 0 .. RowsIn - 1, NEW b \in 0 .. Batch - 1,
         \A k \in 0 .. Heads - 1 : At(t, k, s, b, 0).patch = Place(s, b)
  PROVE  LET x == Reshape(Projected(t), XNe)
         IN /\ IsTensor(x) /\ x.ne = XNe /\ At(x, 0, c, s, b) = Plain(s, c, b)
<1> DEFINE p == Projected(t)
           From(k, y, z, n) == [of |-> {At(t, j, y, z, n).patch : j \in 0 .. Heads - 1}, head |-> k, at |-> <<0, 0>>]
           i == Flat(AttnNe, c, s, b, 0)
<1>1. IsTensor(p) /\ p.ne = AttnNe /\ p = Tensor(AttnNe, From)
  BY DEF Projected, Tensor, IsTensor
<1> HIDE DEF From, p
<1>2. p.data = [x \in 0 .. Size(AttnNe) - 1 |->
        From(x % AttnNe[1], (x \div AttnNe[1]) % AttnNe[2], (x \div (AttnNe[1] * AttnNe[2])) % AttnNe[3],
             x \div (AttnNe[1] * AttnNe[2] * AttnNe[3]))]
  BY <1>1 DEF Tensor
<1>3. /\ i \in 0 .. Size(AttnNe) - 1
      /\ i % AttnNe[1] = c /\ (i \div AttnNe[1]) % AttnNe[2] = s
      /\ (i \div (AttnNe[1] * AttnNe[2])) % AttnNe[3] = b
      /\ i \div (AttnNe[1] * AttnNe[2] * AttnNe[3]) = 0
  <2>1. 0 \in 0 .. AttnNe[4] - 1
    BY AttnShapes
  <2> QED
    BY <2>1, AttnShapes, FlatOf
<1>4. At(p, c, s, b, 0) = p.data[i]
  BY <1>1, AtFlat
<1> HIDE DEF i
<1>5. At(p, c, s, b, 0) = From(c, s, b, 0)
  BY <1>2, <1>3, <1>4
<1>6. From(c, s, b, 0) = Plain(s, c, b)
  <2>1. {At(t, j, s, b, 0).patch : j \in 0 .. Heads - 1} = {Place(s, b)}
    BY Sizes
  <2> QED
    BY <2>1 DEF From, Plain
<1>7. Flat(XNe, 0, c, s, b) = Flat(AttnNe, c, s, b, 0)
  BY AttnShape, Sizes DEF Flat, XNe, AttnNe
<1>8. At(Reshape(p, XNe), 0, c, s, b) = At(p, c, s, b, 0)
  BY <1>1, <1>7, ReshapeAt
<1> QED
  BY <1>1, <1>5, <1>6, <1>8, ReshapeAt DEF p

LEMMA ToHeadsAt ==
  ASSUME NEW t, NEW m \in Nat \ {0}, NEW n \in Nat \ {0}, NEW k \in Nat \ {0}, t.ne = <<1, m, n, k>>,
         NEW s \in 0 .. n - 1, NEW h \in 0 .. m - 1, NEW b \in 0 .. k - 1
  PROVE  /\ IsTensor(ToHeads(t)) /\ ToHeads(t).ne = <<1, n, m, k>>
         /\ At(ToHeads(t), 0, s, h, b) = At(t, 0, h, s, b)
<1> DEFINE u == ToHeads(t)
           ne == <<1, n, m, k>>
           From(d, y, g, z) == At(t, d, g, y, z)
           i == Flat(ne, 0, s, h, b)
<1>1. ne \in Shapes
  BY DEF Shapes
<1>2. IsTensor(u) /\ u.ne = ne /\ u = Tensor(ne, From)
  <2>1. <<1, t.ne[3], t.ne[2], t.ne[4]>> = ne
    OBVIOUS
  <2>2. u = Tensor(ne, From)
    <3> HIDE DEF ne
    <3> QED
      BY <2>1 DEF ToHeads
  <2> HIDE DEF u, From, ne
  <2> QED
    BY <2>2 DEF Tensor, IsTensor
<1>3. 0 \in 0 .. ne[1] - 1 /\ s \in 0 .. ne[2] - 1 /\ h \in 0 .. ne[3] - 1 /\ b \in 0 .. ne[4] - 1
  OBVIOUS
<1> HIDE DEF u, ne, From
<1>4. u.data = [x \in 0 .. Size(ne) - 1 |->
         From(x % ne[1], (x \div ne[1]) % ne[2], (x \div (ne[1] * ne[2])) % ne[3],
              x \div (ne[1] * ne[2] * ne[3]))]
  BY <1>2 DEF Tensor
<1>5. /\ i \in 0 .. Size(ne) - 1
      /\ i % ne[1] = 0 /\ (i \div ne[1]) % ne[2] = s
      /\ (i \div (ne[1] * ne[2])) % ne[3] = h /\ i \div (ne[1] * ne[2] * ne[3]) = b
  BY <1>1, <1>3, FlatOf
<1>6. At(u, 0, s, h, b) = u.data[i]
  BY <1>2, AtFlat
<1> HIDE DEF i
<1>7. At(u, 0, s, h, b) = From(0, s, h, b)
  BY <1>4, <1>5, <1>6
<1> QED
  BY <1>2, <1>7 DEF u, ne, From

LEMMA FlashAttnAt ==
  ASSUME NEW q, NEW k, NEW v, q.ne = HeadsNe, k.ne = HeadsNe,
         NEW c \in 0 .. Heads - 1, NEW s \in 0 .. RowsIn - 1, NEW b \in 0 .. Batch - 1,
         At(q, 0, s, c, b) = Turned(s, c, b),
         \A t \in 0 .. RowsIn - 1 : At(k, 0, t, c, b) = Turned(t, c, b) /\ At(v, 0, t, c, b) = Plain(t, c, b)
  PROVE  LET f == FlashAttn(q, k, v, Score)
         IN IsTensor(f) /\ f.ne = XNe /\ At(f, 0, c, s, b) = Sounds(c, s, b)
<1> DEFINE f == FlashAttn(q, k, v, Score)
           From(d, h, y, z) == {Score(At(q, 0, y, h, z), At(k, 0, t, h, z), At(v, 0, t, h, z)) :
                                t \in 0 .. k.ne[2] - 1}
           i == Flat(XNe, 0, c, s, b)
<1>0. k.ne[2] = RowsIn
  BY AttnShapes
<1>1. IsTensor(f) /\ f.ne = XNe /\ f = Tensor(XNe, From)
  <2>1. <<1, q.ne[3], q.ne[2], q.ne[4]>> = XNe
    BY AttnShapes DEF XNe
  <2>2. f = Tensor(<<1, q.ne[3], q.ne[2], q.ne[4]>>, From)
    BY DEF FlashAttn
  <2> HIDE DEF f, From
  <2>3. f = Tensor(XNe, From)
    BY <2>1, <2>2
  <2> QED
    BY <2>3 DEF Tensor, IsTensor
<1> HIDE DEF f, From
<1>2. f.data = [x \in 0 .. Size(XNe) - 1 |->
        From(x % XNe[1], (x \div XNe[1]) % XNe[2], (x \div (XNe[1] * XNe[2])) % XNe[3],
             x \div (XNe[1] * XNe[2] * XNe[3]))]
  BY <1>1 DEF Tensor
<1>3. /\ i \in 0 .. Size(XNe) - 1
      /\ i % XNe[1] = 0 /\ (i \div XNe[1]) % XNe[2] = c
      /\ (i \div (XNe[1] * XNe[2])) % XNe[3] = s /\ i \div (XNe[1] * XNe[2] * XNe[3]) = b
  <2>1. 0 \in 0 .. XNe[1] - 1
    BY AttnShapes
  <2> QED
    BY <2>1, AttnShapes, FlatOf
<1>4. At(f, 0, c, s, b) = f.data[i]
  BY <1>1, AtFlat
<1> HIDE DEF i
<1>5. At(f, 0, c, s, b) = From(0, c, s, b)
  BY <1>2, <1>3, <1>4
<1>6. ASSUME NEW t \in 0 .. RowsIn - 1
      PROVE  Score(At(q, 0, s, c, b), At(k, 0, t, c, b), At(v, 0, t, c, b))
               = [heads |-> {c}, by |-> {Place(s, b)}, from |-> {Place(t, b)},
                  dy |-> RopeAngle(s)[1] - RopeAngle(t)[1], dx |-> RopeAngle(s)[2] - RopeAngle(t)[2]]
  <2> DEFINE qe == At(q, 0, s, c, b)  ke == At(k, 0, t, c, b)  ve == At(v, 0, t, c, b)
  <2>1. /\ qe.head = c /\ ke.head = c /\ ve.head = c
        /\ qe.of = {Place(s, b)} /\ ke.of = {Place(t, b)} /\ ve.of = {Place(t, b)}
        /\ qe.at = RopeAngle(s) /\ ke.at = RopeAngle(t)
    BY DEF Turned, Plain
  <2> HIDE DEF qe, ke, ve
  <2>2. {qe.head, ke.head, ve.head} = {c} /\ ke.of \cup ve.of = {Place(t, b)}
    BY <2>1
  <2>3. Score(qe, ke, ve)
          = [heads |-> {c}, by |-> {Place(s, b)}, from |-> {Place(t, b)},
             dy |-> RopeAngle(s)[1] - RopeAngle(t)[1], dx |-> RopeAngle(s)[2] - RopeAngle(t)[2]]
    BY <2>1, <2>2 DEF Score
  <2> QED
    BY <2>3 DEF qe, ke, ve
<1>7. From(0, c, s, b) = Sounds(c, s, b)
  BY <1>0, <1>6 DEF From, Sounds
<1> QED
  BY <1>1, <1>5, <1>7 DEF f

LEMMA RotatedAt ==
  ASSUME NEW x, NEW c \in 0 .. Heads - 1, NEW s \in 0 .. RowsIn - 1, NEW b \in 0 .. Batch - 1
  PROVE  /\ x.ne = XNe /\ At(x, 0, c, s, b) = Plain(s, c, b) =>
              AxialRotated(x).ne = XNe /\ At(AxialRotated(x), 0, c, s, b) = Turned(s, c, b)
         /\ x.ne = HeadsNe /\ At(x, 0, s, c, b) = Plain(s, c, b) =>
              CpuRotated(x).ne = HeadsNe /\ At(CpuRotated(x), 0, s, c, b) = Turned(s, c, b)
<1>0. 0 \in 0 .. 1 - 1
  OBVIOUS
<1>1. ASSUME x.ne = XNe, At(x, 0, c, s, b) = Plain(s, c, b)
      PROVE  AxialRotated(x).ne = XNe /\ At(AxialRotated(x), 0, c, s, b) = Turned(s, c, b)
  <2> DEFINE f == AxialRotated(x)
             From(d, h, y, z) == [At(x, d, h, y, z) EXCEPT !.at = RopeAngle(y)]
             i == Flat(XNe, 0, c, s, b)
  <2>1. f = Tensor(XNe, From)
    BY <1>1 DEF AxialRotated
  <2> HIDE DEF f, From
  <2>2. /\ f.ne = XNe
        /\ f.data = [j \in 0 .. Size(XNe) - 1 |->
             From(j % XNe[1], (j \div XNe[1]) % XNe[2], (j \div (XNe[1] * XNe[2])) % XNe[3],
                  j \div (XNe[1] * XNe[2] * XNe[3]))]
    BY <2>1 DEF Tensor
  <2>3. /\ i \in 0 .. Size(XNe) - 1
        /\ i % XNe[1] = 0 /\ (i \div XNe[1]) % XNe[2] = c
        /\ (i \div (XNe[1] * XNe[2])) % XNe[3] = s /\ i \div (XNe[1] * XNe[2] * XNe[3]) = b
    BY <1>0, AttnShapes, FlatOf
  <2>4. At(f, 0, c, s, b) = f.data[i]
    BY <2>2, AtFlat
  <2> HIDE DEF i
  <2>5. At(f, 0, c, s, b) = From(0, c, s, b)
    BY <2>2, <2>3, <2>4
  <2>6. From(0, c, s, b) = Turned(s, c, b)
    BY <1>1 DEF From, Plain, Turned
  <2> QED
    BY <2>2, <2>5, <2>6 DEF f
<1>2. ASSUME x.ne = HeadsNe, At(x, 0, s, c, b) = Plain(s, c, b)
      PROVE  CpuRotated(x).ne = HeadsNe /\ At(CpuRotated(x), 0, s, c, b) = Turned(s, c, b)
  <2> DEFINE f == CpuRotated(x)
             From(d, y, h, z) == [At(x, d, y, h, z) EXCEPT !.at = RopeAngle(y)]
             i == Flat(HeadsNe, 0, s, c, b)
  <2>1. f = Tensor(HeadsNe, From)
    BY <1>2 DEF CpuRotated
  <2> HIDE DEF f, From
  <2>2. /\ f.ne = HeadsNe
        /\ f.data = [j \in 0 .. Size(HeadsNe) - 1 |->
             From(j % HeadsNe[1], (j \div HeadsNe[1]) % HeadsNe[2],
                  (j \div (HeadsNe[1] * HeadsNe[2])) % HeadsNe[3],
                  j \div (HeadsNe[1] * HeadsNe[2] * HeadsNe[3]))]
    BY <2>1 DEF Tensor
  <2>3. /\ i \in 0 .. Size(HeadsNe) - 1
        /\ i % HeadsNe[1] = 0 /\ (i \div HeadsNe[1]) % HeadsNe[2] = s
        /\ (i \div (HeadsNe[1] * HeadsNe[2])) % HeadsNe[3] = c
        /\ i \div (HeadsNe[1] * HeadsNe[2] * HeadsNe[3]) = b
    BY <1>0, AttnShapes, FlatOf
  <2>4. At(f, 0, s, c, b) = f.data[i]
    BY <2>2, AtFlat
  <2> HIDE DEF i
  <2>5. At(f, 0, s, c, b) = From(0, s, c, b)
    BY <2>2, <2>3, <2>4
  <2>6. From(0, s, c, b) = Turned(s, c, b)
    BY <1>2 DEF From, Plain, Turned
  <2> QED
    BY <2>2, <2>5, <2>6 DEF f
<1> QED
  BY <1>1, <1>2

LEMMA AttendedAt ==
  ASSUME NEW t, t.ne = AttnNe,
         \A k \in 0 .. Heads - 1, y \in 0 .. RowsIn - 1, z \in 0 .. Batch - 1 :
           At(t, k, y, z, 0).patch = Place(y, z),
         NEW c \in 0 .. Heads - 1, NEW s \in 0 .. RowsIn - 1, NEW b \in 0 .. Batch - 1
  PROVE  /\ IsTensor(Attended(t)) /\ Attended(t).ne = AttnNe
         /\ At(Attended(t), c, s, b, 0) = Sounds(c, s, b)
<1> DEFINE x == Reshape(Projected(t), XNe)
<1>1. <<1, Heads, t.ne[2], t.ne[3]>> = XNe
  BY AttnShapes DEF XNe
<1>2. /\ IsTensor(x) /\ x.ne = XNe
      /\ \A y \in 0 .. RowsIn - 1 : At(x, 0, c, y, b) = Plain(y, c, b)
  BY ProjectedAt
<1>3. Flat(AttnNe, c, s, b, 0) = Flat(XNe, 0, c, s, b)
  BY AttnShape, Sizes DEF Flat, XNe, AttnNe
<1>4. CASE program = "sam3"
  <2> DEFINE turned == AxialRotated(x)
             q == Permute(turned, 0, 2, 1, 3)
             v == Permute(x, 0, 2, 1, 3)
             f == FlashAttn(q, q, v, Score)
  <2>1. Attended(t) = Reshape(f, AttnNe)
    BY <1>1, <1>4 DEF Attended, GraphAttention
  <2> HIDE DEF x
  <2>2. turned.ne = XNe /\ \A y \in 0 .. RowsIn - 1 : At(turned, 0, c, y, b) = Turned(y, c, b)
    BY <1>2, RotatedAt
  <2>3. <<XNe[1], XNe[3], XNe[2], XNe[4]>> = HeadsNe
    BY AttnShapes DEF HeadsNe
  <2>4. 0 \in 0 .. HeadsNe[1] - 1
    BY AttnShapes
  <2>5. ASSUME NEW u, u.ne = XNe
        PROVE  /\ Permute(u, 0, 2, 1, 3).ne = HeadsNe
               /\ \A y \in 0 .. RowsIn - 1 : At(Permute(u, 0, 2, 1, 3), 0, y, c, b) = At(u, 0, c, y, b)
    BY <2>3, <2>4, <2>5, AttnShapes, Permute0213
  <2> HIDE DEF turned
  <2>6. /\ q.ne = HeadsNe /\ v.ne = HeadsNe
        /\ \A y \in 0 .. RowsIn - 1 : At(q, 0, y, c, b) = Turned(y, c, b) /\ At(v, 0, y, c, b) = Plain(y, c, b)
    BY <1>2, <2>2, <2>5
  <2> HIDE DEF q, v
  <2>7. IsTensor(f) /\ f.ne = XNe /\ At(f, 0, c, s, b) = Sounds(c, s, b)
    BY <2>6, FlashAttnAt
  <2> HIDE DEF f
  <2> QED
    BY <1>3, <2>1, <2>7, ReshapeAt
<1>5. CASE program # "sam3"
  <2> DEFINE spread == ToHeads(x)
             q == CpuRotated(spread)
             f == FlashAttn(q, q, spread, Score)
             g == ToHeads(f)
             u == ToHeads(g)
  <2>1. Attended(t) = Reshape(u, AttnNe)
    BY <1>1, <1>5 DEF Attended, CpuAttention
  <2> HIDE DEF x
  <2>0. RowsIn \in Nat \ {0} /\ Batch \in Nat \ {0} /\ Heads \in Nat \ {0}
    BY AttnShape, Sizes
  <2>2. /\ spread.ne = HeadsNe
        /\ \A y \in 0 .. RowsIn - 1 : At(spread, 0, y, c, b) = Plain(y, c, b)
    <3>1. x.ne = <<1, Heads, RowsIn, Batch>>
      BY <1>2 DEF XNe
    <3>2. ASSUME NEW m \in Nat \ {0}, NEW n \in Nat \ {0}, NEW k \in Nat \ {0}, x.ne = <<1, m, n, k>>,
                 c \in 0 .. m - 1, b \in 0 .. k - 1, NEW y \in 0 .. n - 1
          PROVE  spread.ne = <<1, n, m, k>> /\ At(spread, 0, y, c, b) = At(x, 0, c, y, b)
      BY <3>2, ToHeadsAt
    <3> HIDE DEF spread
    <3>3. ASSUME NEW y \in 0 .. RowsIn - 1
          PROVE  spread.ne = <<1, RowsIn, Heads, Batch>> /\ At(spread, 0, y, c, b) = At(x, 0, c, y, b)
      BY <2>0, <3>1, <3>2
    <3> QED
      BY <1>2, <2>0, <3>3 DEF HeadsNe
  <2> HIDE DEF spread
  <2>3. q.ne = HeadsNe /\ \A y \in 0 .. RowsIn - 1 : At(q, 0, y, c, b) = Turned(y, c, b)
    BY <2>2, RotatedAt
  <2> HIDE DEF q
  <2>4. IsTensor(f) /\ f.ne = XNe /\ At(f, 0, c, s, b) = Sounds(c, s, b)
    BY <2>2, <2>3, FlashAttnAt
  <2> HIDE DEF f
  <2>5. g.ne = HeadsNe /\ At(g, 0, s, c, b) = At(f, 0, c, s, b)
    <3>1. f.ne = <<1, Heads, RowsIn, Batch>>
      BY <2>4 DEF XNe
    <3>2. ASSUME NEW m \in Nat \ {0}, NEW n \in Nat \ {0}, NEW k \in Nat \ {0}, f.ne = <<1, m, n, k>>,
                 c \in 0 .. m - 1, s \in 0 .. n - 1, b \in 0 .. k - 1
          PROVE  g.ne = <<1, n, m, k>> /\ At(g, 0, s, c, b) = At(f, 0, c, s, b)
      BY <3>2, ToHeadsAt
    <3> HIDE DEF g
    <3>3. g.ne = <<1, RowsIn, Heads, Batch>> /\ At(g, 0, s, c, b) = At(f, 0, c, s, b)
      BY <2>0, <3>1, <3>2
    <3> QED
      BY <3>3 DEF HeadsNe
  <2> HIDE DEF g
  <2>6. IsTensor(u) /\ u.ne = XNe /\ At(u, 0, c, s, b) = At(g, 0, s, c, b)
    <3>1. g.ne = <<1, RowsIn, Heads, Batch>>
      BY <2>5 DEF HeadsNe
    <3>2. ASSUME NEW m \in Nat \ {0}, NEW n \in Nat \ {0}, NEW k \in Nat \ {0}, g.ne = <<1, m, n, k>>,
                 s \in 0 .. m - 1, c \in 0 .. n - 1, b \in 0 .. k - 1
          PROVE  IsTensor(u) /\ u.ne = <<1, n, m, k>> /\ At(u, 0, c, s, b) = At(g, 0, s, c, b)
      BY <3>2, ToHeadsAt
    <3> HIDE DEF u
    <3>3. IsTensor(u) /\ u.ne = <<1, Heads, RowsIn, Batch>> /\ At(u, 0, c, s, b) = At(g, 0, s, c, b)
      BY <2>0, <3>1, <3>2
    <3> QED
      BY <3>3 DEF XNe
  <2> HIDE DEF u
  <2> QED
    BY <1>3, <2>1, <2>4, <2>5, <2>6, ReshapeAt
<1> QED
  BY <1>4, <1>5

(* Back from windows: every patch has its row.                              *)
RowOf(h, w) == IF IsGlobal(layer) THEN h * Grid + w ELSE (h % Window) * Window + (w % Window)
WindowOf(h, w) ==
  IF IsGlobal(layer) THEN 0
  ELSE IF program = "sam3" THEN (h \div Window) + Nw * (w \div Window)
  ELSE (h \div Window) * Nw + (w \div Window)

LEMMA InWindow ==
  ASSUME NEW h \in Sides
  PROVE  /\ h % Window \in 0 .. Window - 1 /\ h \div Window \in 0 .. Nw - 1
         /\ h = (h % Window) + Window * (h \div Window)
BY Sizes, Within DEF Sides

LEMMA PlaceOf ==
  ASSUME NEW h \in Sides, NEW w \in Sides
  PROVE  /\ RowOf(h, w) \in 0 .. RowsIn - 1 /\ WindowOf(h, w) \in 0 .. Batch - 1
         /\ Place(RowOf(h, w), WindowOf(h, w)) = <<h, w>>
<1>1. CASE IsGlobal(layer)
  <2>1. w + Grid * h \in 0 .. Grid * Grid - 1 /\ (w + Grid * h) \div Grid = h /\ (w + Grid * h) % Grid = w
    BY Sizes, Below, DivMod DEF Sides
  <2>2. RowOf(h, w) = w + Grid * h /\ WindowOf(h, w) = 0
    BY <1>1, Sizes DEF RowOf, WindowOf, Sides
  <2> QED
    BY <1>1, <2>1, <2>2 DEF RowsIn, Batch, Place
<1>2. CASE ~ IsGlobal(layer)
  <2> DEFINE iy == h % Window  ix == w % Window  wy == h \div Window  wx == w \div Window
             s == ix + Window * iy
  <2>0. /\ iy \in 0 .. Window - 1 /\ ix \in 0 .. Window - 1 /\ wy \in 0 .. Nw - 1 /\ wx \in 0 .. Nw - 1
        /\ h = iy + Window * wy /\ w = ix + Window * wx
    BY InWindow
  <2> HIDE DEF iy, ix, wy, wx
  <2>1. /\ iy \in 0 .. Window - 1 /\ ix \in 0 .. Window - 1 /\ wy \in 0 .. Nw - 1 /\ wx \in 0 .. Nw - 1
        /\ h = wy * Window + iy /\ w = wx * Window + ix
    BY <2>0, Sizes
  <2>2. s \in 0 .. Window * Window - 1 /\ s \div Window = iy /\ s % Window = ix
    <3>1. s \in 0 .. Window * Window - 1
      BY <2>1, Sizes, Below
    <3>2. iy \in Nat
      BY <2>1, Sizes
    <3> QED
      BY <2>1, <3>1, <3>2, Sizes, DivMod
  <2>3. RowOf(h, w) = s
    BY <1>2, <2>1, Sizes DEF RowOf, iy, ix
  <2>4. ASSUME NEW x \in 0 .. Nw - 1, NEW y \in 0 .. Nw - 1
        PROVE  x + Nw * y \in 0 .. Nw * Nw - 1 /\ (x + Nw * y) \div Nw = y /\ (x + Nw * y) % Nw = x
    BY Sizes, Below, DivMod
  <2>5. CASE program = "sam3"
    <3>1. WindowOf(h, w) = wy + Nw * wx
      BY <1>2, <2>5 DEF WindowOf, wy, wx
    <3> HIDE DEF s
    <3> QED
      BY <1>2, <2>1, <2>2, <2>3, <2>4, <2>5, <3>1 DEF RowsIn, Batch, Place
  <2>6. CASE program # "sam3"
    <3>1. WindowOf(h, w) = wx + Nw * wy
      BY <1>2, <2>1, <2>6, Sizes DEF WindowOf, wy, wx
    <3> HIDE DEF s
    <3> QED
      BY <1>2, <2>1, <2>2, <2>3, <2>4, <2>6, <3>1 DEF RowsIn, Batch, Place
  <2> QED
    BY <2>5, <2>6
<1> QED
  BY <1>1, <1>2

Back(t) ==
  IF IsGlobal(layer) THEN t
  ELSE IF program = "sam3" THEN GpuWinUnpart(t) ELSE CpuWindowUnpartition(t)

LEMMA UnpartitionAt ==
  ASSUME NEW t, ~ IsGlobal(layer), program # "sam3",
         NEW c \in 0 .. Heads - 1, NEW w \in Sides, NEW h \in Sides
  PROVE  CpuWindowUnpartition(t).data[Flat(RowsNe, c, w, h, 0)]
           = At(t, c, RowOf(h, w), WindowOf(h, w), 0)
<1> DEFINE u == CpuWindowUnpartition(t)
           From(x, y, z, n) == At(t, x, (z % Window) * Window + (y % Window), (z \div Window) * Nw + (y \div Window), 0)
           i == Flat(RowsNe, c, w, h, 0)
<1>1. u = Tensor(RowsNe, From)
  BY DEF CpuWindowUnpartition, Nw, RowsNe
<1> HIDE DEF u, From
<1>2. u.data = [x \in 0 .. Size(RowsNe) - 1 |->
         From(x % RowsNe[1], (x \div RowsNe[1]) % RowsNe[2], (x \div (RowsNe[1] * RowsNe[2])) % RowsNe[3],
              x \div (RowsNe[1] * RowsNe[2] * RowsNe[3]))]
  BY <1>1 DEF Tensor
<1>3. /\ c \in 0 .. RowsNe[1] - 1 /\ w \in 0 .. RowsNe[2] - 1 /\ h \in 0 .. RowsNe[3] - 1
      /\ 0 \in 0 .. RowsNe[4] - 1
  BY DEF RowsNe, Sides
<1>4. /\ i \in 0 .. Size(RowsNe) - 1
      /\ i % RowsNe[1] = c /\ (i \div RowsNe[1]) % RowsNe[2] = w
      /\ (i \div (RowsNe[1] * RowsNe[2])) % RowsNe[3] = h /\ i \div (RowsNe[1] * RowsNe[2] * RowsNe[3]) = 0
  BY <1>3, RowsAt, FlatOf
<1> HIDE DEF i
<1>5. u.data[i] = From(c, w, h, 0)
  BY <1>2, <1>4
<1> QED
  BY <1>5 DEF u, i, From, RowOf, WindowOf

LEMMA WinUnpartAt ==
  ASSUME NEW t, IsTensor(t), t.ne = AttnNe, ~ IsGlobal(layer), program = "sam3",
         NEW c \in 0 .. Heads - 1, NEW w \in Sides, NEW h \in Sides
  PROVE  GpuWinUnpart(t).data[Flat(RowsNe, c, w, h, 0)] = At(t, c, RowOf(h, w), WindowOf(h, w), 0)
<1> DEFINE iy == h % Window  ix == w % Window  wy == h \div Window  wx == w \div Window
           ne == <<Heads, Window, Window * Nw, Nw>>
           columns == Reshape(Reshape(t, <<Heads * Window, Window, Nw, Nw>>), ne)
           u == Permute(columns, 0, 1, 3, 2)
<1>1. GpuWinUnpart(t) = Reshape(u, <<Heads, Window * Nw, Window * Nw, 1>>)
  BY DEF GpuWinUnpart, Nw
<1>2. /\ iy \in 0 .. Window - 1 /\ ix \in 0 .. Window - 1 /\ wy \in 0 .. Nw - 1 /\ wx \in 0 .. Nw - 1
      /\ h = iy + Window * wy /\ w = ix + Window * wx
  BY InWindow
<1>3. ne \in Shapes
  BY Sizes DEF Shapes
<1>4. IsTensor(columns) /\ columns.ne = ne /\ columns.data = t.data
  BY ReshapeAt
<1>5. /\ IsTensor(u) /\ u.ne = <<Heads, Window, Nw, Window * Nw>>
      /\ At(u, c, ix, wx, h) = At(columns, c, ix, h, wx)
  <2> HIDE DEF columns, ix, wx
  <2>1. IsTensor(u) /\ u.ne = <<Heads, Window, Nw, Window * Nw>>
    BY <1>3, <1>4, Permute0132
  <2>2. /\ c \in 0 .. u.ne[1] - 1 /\ ix \in 0 .. u.ne[2] - 1
        /\ wx \in 0 .. u.ne[3] - 1 /\ h \in 0 .. u.ne[4] - 1
    BY <1>2, <2>1, Sizes DEF Sides
  <2>3. columns.ne \in Shapes
    BY <1>3, <1>4
  <2> QED
    BY <2>1, <2>2, <2>3, Permute0132
<1>6. Flat(<<Heads, Window, Nw, Window * Nw>>, c, ix, wx, h) = Flat(RowsNe, c, w, h, 0)
  <2>1. ix + Window * (wx + Nw * h) = w + Grid * (h + Grid * 0)
    <3> HIDE DEF ix, wx
    <3> QED
      BY <1>2, Sizes DEF Sides
  <2> HIDE DEF ix, wx
  <2> QED
    BY <2>1 DEF Flat, RowsNe
<1>7. Flat(ne, c, ix, h, wx) = Flat(AttnNe, c, RowOf(h, w), WindowOf(h, w), 0)
  <2>1. RowOf(h, w) = ix + Window * iy /\ WindowOf(h, w) = wy + Nw * wx /\ RowsIn = Window * Window
    BY <1>2, Sizes DEF RowOf, WindowOf, RowsIn
  <2>2. ix + Window * (h + (Window * Nw) * wx)
          = (ix + Window * iy) + (Window * Window) * (wy + Nw * wx)
    <3> HIDE DEF ix, iy, wx, wy
    <3> QED
      BY <1>2, Sizes
  <2>3. RowOf(h, w) + RowsIn * (WindowOf(h, w) + Batch * 0) = ix + Window * (h + (Window * Nw) * wx)
    <3>1. WindowOf(h, w) + Batch * 0 = wy + Nw * wx
      <4> HIDE DEF wx, wy
      <4> QED
        BY <1>2, <2>1, Sizes, AttnShape
    <3> QED
      BY <2>1, <2>2, <3>1
  <2> HIDE DEF ix, wx
  <2> QED
    BY <2>3 DEF Flat, AttnNe
<1> HIDE DEF u, columns, ix, wx, ne
<1>8. u.data[Flat(RowsNe, c, w, h, 0)] = At(u, c, ix, wx, h)
  BY <1>5, <1>6, AtFlat
<1>9. At(columns, c, ix, h, wx) = At(t, c, RowOf(h, w), WindowOf(h, w), 0)
  BY <1>4, <1>7, AtFlat
<1>10. GpuWinUnpart(t).data = u.data
  BY <1>1, <1>5, ReshapeAt
<1> QED
  BY <1>5, <1>8, <1>9, <1>10

LEMMA BackAt ==
  ASSUME NEW t, IsTensor(t), t.ne = AttnNe,
         NEW c \in 0 .. Heads - 1, NEW w \in Sides, NEW h \in Sides
  PROVE  Back(t).data[Flat(RowsNe, c, w, h, 0)] = At(t, c, RowOf(h, w), WindowOf(h, w), 0)
<1>1. CASE IsGlobal(layer)
  <2>1. RowOf(h, w) + RowsIn * (WindowOf(h, w) + Batch * 0) = w + Grid * (h + Grid * 0)
    BY <1>1, Sizes DEF RowOf, WindowOf, RowsIn, Batch, Sides
  <2>2. Flat(AttnNe, c, RowOf(h, w), WindowOf(h, w), 0) = Flat(RowsNe, c, w, h, 0)
    BY <2>1 DEF Flat, AttnNe, RowsNe
  <2>3. Back(t) = t
    BY <1>1 DEF Back
  <2> QED
    BY <2>2, <2>3, AtFlat
<1>2. CASE ~ IsGlobal(layer)
  BY <1>2, UnpartitionAt, WinUnpartAt DEF Back
<1> QED
  BY <1>1, <1>2

(* What a layer hears: the rows of a window are the patches of a window of  *)
(* ViT, and angles differ by how far apart they are.                        *)
LEMMA AngleBetween ==
  ASSUME NEW s \in 0 .. RowsIn - 1, NEW t \in 0 .. RowsIn - 1, NEW b \in 0 .. Batch - 1
  PROVE  /\ RopeAngle(s)[1] - RopeAngle(t)[1] = Model!Unit(layer) * (Place(s, b)[1] - Place(t, b)[1])
         /\ RopeAngle(s)[2] - RopeAngle(t)[2] = Model!Unit(layer) * (Place(s, b)[2] - Place(t, b)[2])
<1>0. RowsIn \in Nat /\ Batch \in Nat
  BY AttnShape
<1>1. CASE IsGlobal(layer)
  <2>1. s \div Grid \in Nat /\ s % Grid \in Nat /\ t \div Grid \in Nat /\ t % Grid \in Nat
    BY <1>0, Sizes
  <2>2. Model!Unit(layer) = Window
    BY <1>1 DEF Model!Unit, IsGlobal
  <2> QED
    BY <1>1, <2>1, <2>2, Sizes DEF RopeAngle, Place
<1>2. CASE ~ IsGlobal(layer)
  <2> DEFINE wy == IF program = "sam3" THEN b % Nw ELSE b \div Nw
             wx == IF program = "sam3" THEN b \div Nw ELSE b % Nw
  <2>1. s \div Window \in Nat /\ s % Window \in Nat /\ t \div Window \in Nat /\ t % Window \in Nat
    BY <1>0, Sizes
  <2>2. wy \in Nat /\ wx \in Nat
    BY <1>0, Sizes
  <2>3. Model!Unit(layer) = Grid
    BY <1>2 DEF Model!Unit, IsGlobal
  <2>4. /\ Place(s, b) = <<wy * Window + (s \div Window), wx * Window + (s % Window)>>
        /\ Place(t, b) = <<wy * Window + (t \div Window), wx * Window + (t % Window)>>
    BY <1>2 DEF Place
  <2> HIDE DEF wy, wx
  <2>5. /\ Place(s, b)[1] - Place(t, b)[1] = (s \div Window) - (t \div Window)
        /\ Place(s, b)[2] - Place(t, b)[2] = (s % Window) - (t % Window)
    BY <2>1, <2>2, <2>4, Sizes
  <2>6. /\ RopeAngle(s) = <<Grid * (s \div Window), Grid * (s % Window)>>
        /\ RopeAngle(t) = <<Grid * (t \div Window), Grid * (t % Window)>>
    BY <1>2 DEF RopeAngle
  <2>7. ASSUME NEW a \in Nat, NEW c \in Nat PROVE Grid * a - Grid * c = Grid * (a - c)
    BY Sizes
  <2>8. /\ Grid * (s \div Window) - Grid * (t \div Window) = Grid * ((s \div Window) - (t \div Window))
        /\ Grid * (s % Window) - Grid * (t % Window) = Grid * ((s % Window) - (t % Window))
    BY <2>1, <2>7
  <2> QED
    BY <2>3, <2>5, <2>6, <2>8
<1> QED
  BY <1>1, <1>2

LEMMA WindowsAre ==
  ASSUME NEW h \in Sides, NEW w \in Sides
  PROVE  {Place(t, WindowOf(h, w)) : t \in 0 .. RowsIn - 1}
           = {q \in Model!Patches : layer \in GlobalLayers \/ Model!SameWindow(<<h, w>>, q)}
<1> DEFINE b == WindowOf(h, w)
<1>1. b \in 0 .. Batch - 1
  BY PlaceOf
<1>2. ASSUME NEW t \in 0 .. RowsIn - 1
      PROVE  /\ Place(t, b) \in Model!Patches
             /\ layer \in GlobalLayers \/ Model!SameWindow(<<h, w>>, Place(t, b))
  <2> HIDE DEF b
  <2>1. Place(t, b) = <<Place(t, b)[1], Place(t, b)[2]>>
    BY DEF Place
  <2>2. Place(t, b) \in Model!Patches
    <3>1. Place(t, b)[1] \in Sides /\ Place(t, b)[2] \in Sides
      BY <1>1, PlaceIn
    <3> QED
      BY <2>1, <3>1 DEF Model!Patches, Model!Side, Sides
  <2>3. CASE ~ IsGlobal(layer)
    <3> DEFINE wy == h \div Window  wx == w \div Window
    <3>1. wy \in 0 .. Nw - 1 /\ wx \in 0 .. Nw - 1
      BY InWindow
    <3>2. Place(t, b) = <<wy * Window + (t \div Window), wx * Window + (t % Window)>>
      <4>1. wy \in Nat /\ wx \in Nat
        BY <3>1
      <4> HIDE DEF wy, wx
      <4>2. b = IF program = "sam3" THEN wy + Nw * wx ELSE wx + Nw * wy
        BY <2>3, <4>1, Sizes DEF b, WindowOf, wy, wx
      <4>3. /\ (wy + Nw * wx) \div Nw = wx /\ (wy + Nw * wx) % Nw = wy
            /\ (wx + Nw * wy) \div Nw = wy /\ (wx + Nw * wy) % Nw = wx
        BY <3>1, <4>1, Sizes, DivMod
      <4> QED
        BY <2>3, <4>2, <4>3 DEF Place
    <3>3. t \div Window \in 0 .. Window - 1 /\ t % Window \in 0 .. Window - 1
      <4>1. t \in 0 .. Window * Window - 1
        BY <2>3 DEF RowsIn
      <4> QED
        BY <4>1, Sizes, Within
    <3>4. ASSUME NEW x \in 0 .. Window - 1, NEW v \in 0 .. Nw - 1
          PROVE  (v * Window + x) \div Window = v
      <4>1. v \in Nat /\ v * Window + x = x + Window * v
        BY Sizes
      <4> QED
        BY <4>1, Sizes, DivMod
    <3> HIDE DEF wy, wx
    <3>5. Place(t, b)[1] \div Window = wy /\ Place(t, b)[2] \div Window = wx
      BY <3>1, <3>2, <3>3, <3>4
    <3> QED
      BY <2>2, <3>5 DEF Model!SameWindow, wy, wx
  <2> QED
    BY <2>2, <2>3 DEF IsGlobal
<1>3. ASSUME NEW q \in Model!Patches, layer \in GlobalLayers \/ Model!SameWindow(<<h, w>>, q)
      PROVE  \E t \in 0 .. RowsIn - 1 : Place(t, b) = q
  <2>1. q = <<q[1], q[2]>> /\ q[1] \in Sides /\ q[2] \in Sides
    BY DEF Model!Patches, Model!Side, Sides
  <2>2. WindowOf(q[1], q[2]) = b
    BY <1>3 DEF WindowOf, Model!SameWindow, IsGlobal
  <2>3. RowOf(q[1], q[2]) \in 0 .. RowsIn - 1 /\ Place(RowOf(q[1], q[2]), b) = q
    BY <2>1, <2>2, PlaceOf
  <2> QED
    BY <2>3
<1> HIDE DEF b
<1>4. {Place(t, b) : t \in 0 .. RowsIn - 1}
        = {q \in Model!Patches : layer \in GlobalLayers \/ Model!SameWindow(<<h, w>>, q)}
  BY <1>2, <1>3
<1> QED
  BY <1>4 DEF b

LEMMA HearsIs ==
  ASSUME NEW h \in Sides, NEW w \in Sides
  PROVE  UNION {Sounds(i, RowOf(h, w), WindowOf(h, w)) : i \in 0 .. Heads - 1}
           = Model!Hears(layer, <<h, w>>)
<1> DEFINE s == RowOf(h, w)  b == WindowOf(h, w)  p == <<h, w>>
           Near == {q \in Model!Patches : layer \in GlobalLayers \/ Model!SameWindow(p, q)}
           Sound(i, q) ==
             [heads |-> {i}, by |-> {p}, from |-> {q}, dy |-> Model!Unit(layer) * (p[1] - q[1]),
              dx |-> Model!Unit(layer) * (p[2] - q[2])]
<1>1. s \in 0 .. RowsIn - 1 /\ b \in 0 .. Batch - 1 /\ Place(s, b) = p
  BY PlaceOf
<1>2. {Place(t, b) : t \in 0 .. RowsIn - 1} = Near
  BY WindowsAre
<1>3. Model!Hears(layer, p) = {Sound(i, q) : i \in 0 .. Heads - 1, q \in Near}
  BY DEF Model!Hears, Model!Heard, Model!HeadIds
<1> HIDE DEF s, b, Near, Sound
<1>4. ASSUME NEW i \in 0 .. Heads - 1
      PROVE  Sounds(i, s, b) = {Sound(i, Place(t, b)) : t \in 0 .. RowsIn - 1}
  <2>1. ASSUME NEW t \in 0 .. RowsIn - 1
        PROVE  [heads |-> {i}, by |-> {Place(s, b)}, from |-> {Place(t, b)},
                dy |-> RopeAngle(s)[1] - RopeAngle(t)[1], dx |-> RopeAngle(s)[2] - RopeAngle(t)[2]]
                 = Sound(i, Place(t, b))
    <3>1. /\ RopeAngle(s)[1] - RopeAngle(t)[1] = Model!Unit(layer) * (p[1] - Place(t, b)[1])
          /\ RopeAngle(s)[2] - RopeAngle(t)[2] = Model!Unit(layer) * (p[2] - Place(t, b)[2])
      BY <1>1, AngleBetween
    <3> QED
      BY <1>1, <3>1 DEF Sound
  <2> QED
    BY <2>1 DEF Sounds
<1>5. ASSUME NEW i \in 0 .. Heads - 1
      PROVE  Sounds(i, s, b) = {Sound(i, q) : q \in Near}
  BY <1>2, <1>4
<1>6. UNION {Sounds(i, s, b) : i \in 0 .. Heads - 1} = {Sound(i, q) : i \in 0 .. Heads - 1, q \in Near}
  BY <1>5
<1> QED
  BY <1>3, <1>6 DEF s, b

LEMMA HeardOnce ==
  ASSUME NEW l \in Nat, NEW p
  PROVE  HeardAfter(l + 1, p) = Model!Hears(l, p)
<1> DEFINE m == l + 1
<1>1. m # 0 /\ m - 1 = l
  OBVIOUS
<1> HIDE DEF m
<1>2. HeardAfter(m, p) = Model!Hears(m - 1, p)
  BY <1>1 DEF HeardAfter
<1>3. HeardAfter(m, p) = Model!Hears(l, p)
  BY <1>1, <1>2
<1> QED
  BY <1>3 DEF m

(* A whole layer takes the rows of ViT to its next.                         *)
LEMMA MergedIs ==
  ASSUME layer \in Nat, hidden = TrunkRows(layer), NEW t, t.ne = AttnNe,
         \A k \in 0 .. Heads - 1, y \in 0 .. RowsIn - 1, z \in 0 .. Batch - 1 :
           At(t, k, y, z, 0) = Sounds(k, y, z)
  PROVE  Merged(t) = TrunkRows(layer + 1)
<1> DEFINE From(c, s, b, n) == UNION {At(t, i, s, b, n) : i \in 0 .. Heads - 1}
           proj == Tensor(AttnNe, From)
           back == Back(proj)
           data == [i \in 0 .. Size(RowsNe) - 1 |->
                      [hidden.data[i] EXCEPT !.heard = back.data[i], !.depth = @ + 1]]
<1>1. Merged(t) = [hidden EXCEPT !.data = data]
  <2>1. DOMAIN hidden.data = 0 .. Size(RowsNe) - 1
    BY RowsAt
  <2> QED
    BY <2>1 DEF Merged, Back
<1>2. /\ IsTensor(proj) /\ proj.ne = AttnNe
      /\ proj.data = [x \in 0 .. Size(AttnNe) - 1 |->
           From(x % AttnNe[1], (x \div AttnNe[1]) % AttnNe[2], (x \div (AttnNe[1] * AttnNe[2])) % AttnNe[3],
                x \div (AttnNe[1] * AttnNe[2] * AttnNe[3]))]
  <2> HIDE DEF From
  <2> QED
    BY DEF Tensor, IsTensor
<1> HIDE DEF From, proj
<1>3. ASSUME NEW c \in 0 .. Heads - 1, NEW s \in 0 .. RowsIn - 1, NEW b \in 0 .. Batch - 1
      PROVE  At(proj, c, s, b, 0) = UNION {Sounds(i, s, b) : i \in 0 .. Heads - 1}
  <2> DEFINE i == Flat(AttnNe, c, s, b, 0)
  <2>1. /\ i \in 0 .. Size(AttnNe) - 1
        /\ i % AttnNe[1] = c /\ (i \div AttnNe[1]) % AttnNe[2] = s
        /\ (i \div (AttnNe[1] * AttnNe[2])) % AttnNe[3] = b
        /\ i \div (AttnNe[1] * AttnNe[2] * AttnNe[3]) = 0
    <3>1. 0 \in 0 .. AttnNe[4] - 1
      BY AttnShapes
    <3> QED
      BY <3>1, AttnShapes, FlatOf
  <2>2. At(proj, c, s, b, 0) = proj.data[i]
    BY <1>2, AtFlat
  <2> HIDE DEF i
  <2>3. At(proj, c, s, b, 0) = From(c, s, b, 0)
    BY <1>2, <2>1, <2>2
  <2> QED
    BY <2>3 DEF From
<1>4. ASSUME NEW c \in 0 .. Heads - 1, NEW w \in Sides, NEW h \in Sides
      PROVE  back.data[Flat(RowsNe, c, w, h, 0)] = Model!Hears(layer, <<h, w>>)
  <2>1. back.data[Flat(RowsNe, c, w, h, 0)] = At(proj, c, RowOf(h, w), WindowOf(h, w), 0)
    BY <1>2, BackAt
  <2>2. RowOf(h, w) \in 0 .. RowsIn - 1 /\ WindowOf(h, w) \in 0 .. Batch - 1
    BY PlaceOf
  <2>3. At(proj, c, RowOf(h, w), WindowOf(h, w), 0)
          = UNION {Sounds(i, RowOf(h, w), WindowOf(h, w)) : i \in 0 .. Heads - 1}
    BY <1>3, <2>2
  <2>4. UNION {Sounds(i, RowOf(h, w), WindowOf(h, w)) : i \in 0 .. Heads - 1}
          = Model!Hears(layer, <<h, w>>)
    BY HearsIs
  <2> QED
    BY <2>1, <2>3, <2>4
<1> HIDE DEF back
<1>5. RowsNe \in Shapes /\ RowsNe[1] = Heads /\ RowsNe[2] = Grid /\ RowsNe[3] = Grid /\ RowsNe[4] = 1
  BY RowsAt DEF RowsNe
<1>6. ASSUME NEW i \in 0 .. Size(RowsNe) - 1
      PROVE  data[i] = TrunkRows(layer + 1).data[i]
  <2> DEFINE c == i % RowsNe[1]  w == (i \div RowsNe[1]) % RowsNe[2]
             h == (i \div (RowsNe[1] * RowsNe[2])) % RowsNe[3]
             n == i \div (RowsNe[1] * RowsNe[2] * RowsNe[3])
  <2>1. /\ c \in 0 .. RowsNe[1] - 1 /\ w \in 0 .. RowsNe[2] - 1 /\ h \in 0 .. RowsNe[3] - 1
        /\ n \in 0 .. RowsNe[4] - 1 /\ i = Flat(RowsNe, c, w, h, n)
    BY <1>5, CellOf
  <2> HIDE DEF c, w, h, n
  <2>2. /\ c \in 0 .. Heads - 1 /\ w \in Sides /\ h \in Sides /\ i = Flat(RowsNe, c, w, h, 0)
    BY <1>5, <2>1, Sizes DEF Sides
  <2>3. ASSUME NEW l PROVE TrunkRows(l).data[i] = RowElement(l, c, w, h)
    <3>1. At(TrunkRows(l), c, w, h, 0) = RowElement(l, c, w, h) /\ TrunkRows(l).ne = RowsNe
      BY <2>2, RowsAt DEF Sides
    <3> QED
      BY <2>2, <3>1, AtFlat
  <2>4. back.data[i] = Model!Hears(layer, <<h, w>>)
    BY <1>4, <2>2
  <2>5. data[i] = [RowElement(layer, c, w, h) EXCEPT !.heard = Model!Hears(layer, <<h, w>>), !.depth = @ + 1]
    BY <2>3, <2>4
  <2>7. RowElement(layer + 1, c, w, h)
          = [RowElement(layer, c, w, h) EXCEPT !.heard = Model!Hears(layer, <<h, w>>), !.depth = @ + 1]
    <3> DEFINE H == Model!Hears(layer, <<h, w>>)
    <3>2. HeardAfter(layer + 1, <<h, w>>) = H
      BY HeardOnce
    <3> HIDE DEF H
    <3>3. RowElement(layer + 1, c, w, h)
            = [RowElement(layer, c, w, h) EXCEPT !.heard = H, !.depth = @ + 1]
      <4> DEFINE e == RowElement(layer, c, w, h)
                 louder == [e EXCEPT !.heard = H]
      <4>1. [e EXCEPT !.heard = H, !.depth = @ + 1] = [louder EXCEPT !.depth = @ + 1]
        <5> HIDE DEF e
        <5> QED
          OBVIOUS
      <4>2. louder = [patch |-> <<h, w>>, chan |-> c, pos |-> <<h % Pretrain, w % Pretrain>>,
                      depth |-> layer, heard |-> H]
        BY DEF RowElement
      <4>3. RowElement(layer + 1, c, w, h)
              = [patch |-> <<h, w>>, chan |-> c, pos |-> <<h % Pretrain, w % Pretrain>>,
                 depth |-> layer + 1, heard |-> H]
        BY <3>2 DEF RowElement
      <4> HIDE DEF louder
      <4>4. [louder EXCEPT !.depth = @ + 1] = RowElement(layer + 1, c, w, h)
        BY <4>2, <4>3
      <4> QED
        BY <4>1, <4>4
    <3> QED
      BY <3>3 DEF H
  <2> HIDE DEF data
  <2> QED
    BY <2>3, <2>5, <2>7
<1>7. TrunkRows(layer + 1).data = [i \in 0 .. Size(RowsNe) - 1 |-> TrunkRows(layer + 1).data[i]]
  BY DEF TrunkRows, Tensor
<1>8. data = TrunkRows(layer + 1).data
  <2>1. data = [i \in 0 .. Size(RowsNe) - 1 |-> data[i]]
    OBVIOUS
  <2> HIDE DEF data
  <2> QED
    BY <1>6, <1>7, <2>1
<1> HIDE DEF data
<1>9. hidden = [ne |-> RowsNe, data |-> hidden.data]
  BY RowsAt DEF IsTensor
<1>10. Merged(t) = [ne |-> RowsNe, data |-> data]
  BY <1>1, <1>9
<1> QED
  BY <1>8, <1>10, RowsAt DEF IsTensor

(* The trunk on its way: what it holds between and within layers.          *)
RowsInv ==
  /\ program \in {"instructsam", "sam3"}
  /\ layer \in 0 .. NLayers
  /\ pc \in {"window", "attend", "merge"} => layer < NLayers
  /\ \/ hidden = NoTensor /\ layer = 0 /\ pc \in {"embed", "failed"}
     \/ hidden = TrunkRows(layer) /\ pc # "embed"

WorkInv ==
  /\ pc = "attend" =>
       /\ work.ne = AttnNe
       /\ \A k \in 0 .. Heads - 1, y \in 0 .. RowsIn - 1, z \in 0 .. Batch - 1 :
            At(work, k, y, z, 0).patch = Place(y, z)
  /\ pc = "merge" =>
       /\ work.ne = AttnNe
       /\ \A k \in 0 .. Heads - 1, y \in 0 .. RowsIn - 1, z \in 0 .. Batch - 1 :
            At(work, k, y, z, 0) = Sounds(k, y, z)

TrunkInv == RowsInv /\ WorkInv

LEMMA SameLayer ==
  ASSUME UNCHANGED <<program, layer>>
  PROVE  /\ RowsIn' = RowsIn /\ Batch' = Batch /\ AttnNe' = AttnNe
         /\ \A y, z : Place(y, z)' = Place(y, z)
         /\ \A k, y, z : Sounds(k, y, z)' = Sounds(k, y, z)
<1>1. RowsIn' = RowsIn /\ Batch' = Batch
  BY DEF RowsIn, Batch, IsGlobal
<1>2. \A y, z : Place(y, z)' = Place(y, z)
  BY DEF Place, IsGlobal
<1>3. \A y : RopeAngle(y)' = RopeAngle(y)
  BY DEF RopeAngle, IsGlobal
<1> QED
  BY <1>1, <1>2, <1>3 DEF AttnNe, Sounds

LEMMA TrunkStays ==
  ASSUME TrunkInv, UNCHANGED <<program, layer, hidden>>,
         (pc' = pc /\ (pc \in {"attend", "merge"} => work' = work))
           \/ pc' = "failed" \/ (pc = "neck" /\ pc' = "done")
  PROVE  TrunkInv'
<1>1. RowsInv'
  BY DEF TrunkInv, RowsInv
<1>2. WorkInv'
  BY SameLayer DEF TrunkInv, WorkInv, At
<1> QED
  BY <1>1, <1>2 DEF TrunkInv

LEMMA TrunkStep ==
  ASSUME TrunkInv, [Next]_vars
  PROVE  TrunkInv'
<1>1. CASE OpenGraph \/ TensorMissing \/ ComputeFails \/ OperationFails
  <2>1. /\ UNCHANGED <<program, layer, hidden>>
        /\ (pc' = pc /\ work' = work) \/ pc' = "failed"
    BY <1>1 DEF OpenGraph, TensorMissing, ComputeFails, OperationFails, Fail, choiceVars
  <2> QED
    BY <2>1, TrunkStays
<1>2. CASE Embed
  <2>1. /\ pc = "embed" /\ pc' = "window" /\ hidden' = Embedded /\ UNCHANGED <<program, layer>>
    BY <1>2 DEF Embed, Ready, choiceVars
  <2>2. layer = 0 /\ program \in {"instructsam", "sam3"}
    BY <2>1 DEF TrunkInv, RowsInv
  <2>3. hidden' = TrunkRows(layer)
    BY <2>1, <2>2, EmbeddedIs
  <2>4. RowsInv'
    BY <2>1, <2>2, <2>3, Sizes DEF RowsInv
  <2>5. WorkInv'
    BY <2>1 DEF WorkInv
  <2> QED
    BY <2>4, <2>5 DEF TrunkInv
<1>3. CASE WindowRows
  <2>1. /\ pc = "window" /\ pc' = "attend" /\ work' = Windowed
        /\ UNCHANGED <<program, layer, hidden>>
    BY <1>3 DEF WindowRows, Ready, choiceVars
  <2>2. hidden = TrunkRows(layer) /\ program \in {"instructsam", "sam3"}
    BY <2>1 DEF TrunkInv, RowsInv
  <2>3. work'.ne = AttnNe
    BY <2>1, <2>2, WindowedAt, AttnShape, Sizes
  <2>4. ASSUME NEW k \in 0 .. Heads - 1, NEW y \in 0 .. RowsIn - 1, NEW z \in 0 .. Batch - 1
        PROVE  At(work', k, y, z, 0).patch = Place(y, z)
    <3>1. At(work', k, y, z, 0) = RowElement(layer, k, Place(y, z)[2], Place(y, z)[1])
      BY <2>1, <2>2, WindowedAt
    <3>2. Place(y, z) = <<Place(y, z)[1], Place(y, z)[2]>>
      BY DEF Place
    <3> QED
      BY <3>1, <3>2 DEF RowElement
  <2>5. WorkInv'
    BY <2>1, <2>3, <2>4, SameLayer DEF WorkInv, At
  <2> QED
    BY <2>1, <2>5 DEF TrunkInv, RowsInv
<1>4. CASE Attend
  <2>1. /\ pc = "attend" /\ pc' = "merge" /\ work' = Attended(work)
        /\ UNCHANGED <<program, layer, hidden>>
    BY <1>4 DEF Attend, Ready, choiceVars
  <2>2. /\ work.ne = AttnNe
        /\ \A k \in 0 .. Heads - 1, y \in 0 .. RowsIn - 1, z \in 0 .. Batch - 1 :
             At(work, k, y, z, 0).patch = Place(y, z)
    BY <2>1 DEF TrunkInv, WorkInv
  <2>3. ASSUME NEW k \in 0 .. Heads - 1, NEW y \in 0 .. RowsIn - 1, NEW z \in 0 .. Batch - 1
        PROVE  At(work', k, y, z, 0) = Sounds(k, y, z) /\ work'.ne = AttnNe
    BY <2>1, <2>2, AttendedAt
  <2>4. work'.ne = AttnNe
    BY <2>3, AttnShape, Sizes
  <2>5. WorkInv'
    BY <2>1, <2>3, <2>4, SameLayer DEF WorkInv, At
  <2> QED
    BY <2>1, <2>5 DEF TrunkInv, RowsInv
<1>5. CASE Merge
  <2>1. /\ pc = "merge" /\ pc' \in {"neck", "window"} /\ (pc' = "window" => layer + 1 # NLayers)
        /\ layer' = layer + 1 /\ program' = program /\ hidden' = Merged(work)
    BY <1>5 DEF Merge, Ready, choiceVars
  <2>2. /\ layer \in 0 .. NLayers /\ layer < NLayers /\ hidden = TrunkRows(layer)
    BY <2>1 DEF TrunkInv, RowsInv
  <2>3. hidden' = TrunkRows(layer + 1)
    BY <2>1, <2>2, Sizes, MergedIs DEF TrunkInv, WorkInv
  <2>4. RowsInv'
    BY <2>1, <2>2, <2>3, Sizes DEF TrunkInv, RowsInv
  <2>5. WorkInv'
    BY <2>1 DEF WorkInv
  <2> QED
    BY <2>4, <2>5 DEF TrunkInv
<1>6. CASE BeginLevel \/ LevelStep
  <2>1. /\ UNCHANGED <<program, layer, hidden>> /\ pc = "neck" /\ pc' \in {"neck", "done"}
    BY <1>6 DEF BeginLevel, LevelStep, Ready, choiceVars
  <2> QED
    BY <2>1, TrunkStays
<1>7. CASE UNCHANGED vars
  BY <1>7, TrunkStays DEF vars, choiceVars
<1> QED
  BY <1>1, <1>2, <1>3, <1>4, <1>5, <1>6, <1>7 DEF Next, Finished

LEMMA TrunkBegins == ASSUME Init PROVE TrunkInv
BY Sizes DEF Init, TrunkInv, RowsInv, WorkInv

(* The grid a reader of the rows sees is that of ViT.                       *)
LEMMA RowsShow ==
  ASSUME NEW l \in Nat, hidden = TrunkRows(l), NEW p \in Sides \X Sides
  PROVE  RowAt(p) = Model!Row(p, l, HeardAfter(l, p))
<1> DEFINE h == p[1]  w == p[2]
           row == [patch |-> p, pos |-> <<h % Pretrain, w % Pretrain>>, depth |-> l,
                   heard |-> HeardAfter(l, p)]
<1>1. h \in Sides /\ w \in Sides /\ p = <<h, w>>
  OBVIOUS
<1>2. ASSUME NEW c \in 0 .. Heads - 1
      PROVE  hidden.data[(h * Grid + w) * Heads + c] = RowElement(l, c, w, h)
  <2>1. At(hidden, c, w, h, 0) = RowElement(l, c, w, h) /\ hidden.ne = RowsNe
    BY <1>1, RowsAt DEF Sides
  <2>2. Flat(RowsNe, c, w, h, 0) = (h * Grid + w) * Heads + c
    <3> HIDE DEF h, w
    <3> QED
      BY <1>1, Sizes DEF Flat, RowsNe, Sides
  <2> QED
    BY <2>1, <2>2, AtFlat
<1>3. Elements(p) = {RowElement(l, c, w, h) : c \in 0 .. Heads - 1}
  BY <1>2 DEF Elements
<1>4. ASSUME NEW e \in Elements(p) PROVE RowIn(e) = row /\ e.chan \in 0 .. Heads - 1
  BY <1>1, <1>3 DEF RowIn, RowElement
<1>5. Elements(p) # {} /\ {RowIn(e) : e \in Elements(p)} = {row}
  <2>1. RowElement(l, 0, w, h) \in Elements(p)
    BY <1>3, Sizes
  <2> HIDE DEF row
  <2> QED
    BY <1>4, <2>1
<1>6. {e.chan : e \in Elements(p)} = 0 .. Heads - 1
  <2>1. \A c \in 0 .. Heads - 1 : RowElement(l, c, w, h).chan = c
    BY DEF RowElement
  <2> HIDE DEF h, w
  <2> QED
    BY <1>3, <1>4, <2>1
<1>7. Cardinality({row}) = 1
  BY FS_Singleton
<1> HIDE DEF row
<1>8. RowAt(p) = row
  BY <1>4, <1>5, <1>6, <1>7 DEF RowAt
<1> QED
  BY <1>8 DEF row, Model!Row

Grids(l) == [p \in Sides \X Sides |-> Model!Row(p, l, HeardAfter(l, p))]

(* The rows of either program behave as the vision transformer told without *)
(* layout says: its windows, its angles and its positions.                  *)
THEOREM TrunkImplementsViT == Spec => ImplementsViT
<1> DEFINE grid == [p \in (0 .. Grid - 1) \X (0 .. Grid - 1) |->
                      IF hidden.ne = NoTensor.ne THEN InitialRow(p) ELSE RowAt(p)]
<1>1. Init => TrunkInv
  BY TrunkBegins
<1>2. TrunkInv /\ [Next]_vars => TrunkInv'
  BY TrunkStep
<1>3. TrunkInv => grid = Grids(layer)
  <2> SUFFICES ASSUME TrunkInv PROVE grid = Grids(layer)
    OBVIOUS
  <2>1. CASE hidden = NoTensor
    <3>1. layer = 0
      <4>1. ASSUME NEW l PROVE NoTensor # TrunkRows(l)
        BY RowsAt, Sizes DEF NoTensor, RowsNe
      <4> QED
        BY <2>1, <4>1 DEF TrunkInv, RowsInv
    <3>2. ASSUME NEW p PROVE InitialRow(p) = Model!Row(p, 0, HeardAfter(0, p))
      BY DEF InitialRow, Model!Row, HeardAfter
    <3> QED
      BY <2>1, <3>1, <3>2 DEF Grids, Sides
  <2>2. CASE hidden # NoTensor
    <3>1. hidden = TrunkRows(layer) /\ layer \in Nat
      BY <2>2, Sizes DEF TrunkInv, RowsInv
    <3>2. hidden.ne # NoTensor.ne
      BY <3>1, RowsAt, Sizes DEF NoTensor, RowsNe
    <3>3. ASSUME NEW p \in Sides \X Sides PROVE RowAt(p) = Model!Row(p, layer, HeardAfter(layer, p))
      BY <3>1, RowsShow
    <3> QED
      BY <3>2, <3>3 DEF Grids, Sides
  <2> QED
    BY <2>1, <2>2
<1>6. (TrunkInv => grid = Grids(layer))'
  BY <1>3, PTL
<1>4. Init => Model!Init
  <2> SUFFICES ASSUME Init PROVE Model!Init
    OBVIOUS
  <2>1. hidden.ne = NoTensor.ne /\ layer = 0
    BY DEF Init
  <2> QED
    BY <2>1 DEF Model!Init, Model!Patches, Model!Side, Model!Row, InitialRow
<1>5. TrunkInv /\ TrunkInv' /\ [Next]_vars => [Model!Layer]_(Model!vitVars)
  <2> SUFFICES ASSUME TrunkInv, TrunkInv', [Next]_vars
               PROVE  Model!Layer \/ UNCHANGED <<layer, grid>>
    BY DEF Model!vitVars
  <2>0. grid = Grids(layer) /\ grid' = Grids(layer')
    BY <1>3, <1>6
  <2> HIDE DEF grid
  <2>1. CASE Merge
    <3>1. pc = "merge" /\ layer' = layer + 1
      BY <2>1 DEF Merge, Ready
    <3>2. layer < NLayers /\ layer \in Nat
      BY <3>1, Sizes DEF TrunkInv, RowsInv
    <3>3. ASSUME NEW p PROVE HeardAfter(layer + 1, p) = Model!Hears(layer, p)
      BY <3>2, HeardOnce
    <3>4. grid' = [p \in Sides \X Sides |-> Model!Row(p, layer + 1, Model!Hears(layer, p))]
      BY <2>0, <3>1, <3>3 DEF Grids
    <3>5. Model!Layer
      BY <3>1, <3>2, <3>4 DEF Model!Layer, Model!Patches, Model!Side, Sides, grid
    <3> QED
      BY <3>5
  <2>2. CASE ~ Merge
    <3>1. layer' = layer
      BY <2>2 DEF Next, OpenGraph, TensorMissing, ComputeFails, OperationFails, Embed, WindowRows, Attend,
         BeginLevel, LevelStep, Finished, vars
    <3> QED
      BY <2>0, <3>1
  <2> QED
    BY <2>1, <2>2
<1> QED
  BY <1>1, <1>2, <1>4, <1>5, PTL DEF Spec, ImplementsViT, Model!Spec

-----------------------------------------------------------------------------
(***************************************************************************)
(* The neck: a tensor shows a level when every pixel of it comes of the    *)
(* patches under it, by the taps that spell its place.                     *)
(***************************************************************************)

SideOf(level) == IF level = 3 THEN Grid \div 2 ELSE Grid * PerPatch(level)

IsPixel(e) == e = [at |-> e.at, taps |-> e.taps, ring |-> e.ring, from |-> e.from, chan |-> e.chan]

Shows(t, level, chans) ==
  /\ t.ne = <<SideOf(level), SideOf(level), chans, 1>>
  /\ \A x, y \in 0 .. SideOf(level) - 1, c \in 0 .. chans - 1 :
       /\ IsPixel(At(t, x, y, c, 0))
       /\ At(t, x, y, c, 0).at = PatchesUnder(level, y, x)
       /\ At(t, x, y, c, 0).taps = {PathTo(level, y, x)}
       /\ At(t, x, y, c, 0).chan = c

LEMMA SideIs ==
  /\ SideOf(0) = Grid * 4 /\ SideOf(1) = Grid * 2 /\ SideOf(2) = Grid
  /\ SideOf(3) = Grid \div 2 /\ Grid = 2 * SideOf(3)
  /\ \A level \in 0 .. 3 : SideOf(level) \in Nat \ {0}
  /\ NeckChannels \in Nat \ {0}
<1>1. SideOf(0) = Grid * 4 /\ SideOf(1) = Grid * 2 /\ SideOf(2) = Grid /\ SideOf(3) = Grid \div 2
  BY Sizes DEF SideOf, PerPatch
<1>2. Grid \in Nat \ {0} /\ Grid % 2 = 0 /\ NeckChannels \in Nat \ {0}
  BY VisionAssumption
<1>3. Grid = 2 * SideOf(3) /\ SideOf(3) \in Nat \ {0}
  BY <1>1, <1>2
<1> QED
  BY <1>1, <1>2, <1>3

LEMMA FeaturesShow ==
  ASSUME NEW l, hidden = TrunkRows(l), program \in {"instructsam", "sam3"}
  PROVE  Shows(Features, 2, Heads)
<1> DEFINE ne == <<Grid, Grid, Heads, 1>>
<1>1. ne \in Shapes
  BY Sizes DEF Shapes
<1>2. ASSUME NEW x \in 0 .. Grid - 1, NEW y \in 0 .. Grid - 1, NEW c \in 0 .. Heads - 1
      PROVE  /\ Features.ne = ne
             /\ At(Features, x, y, c, 0) = Pixel(RowElement(l, c, x, y))
  <2>1. At(hidden, c, x, y, 0) = RowElement(l, c, x, y) /\ hidden.ne = RowsNe
    BY RowsAt
  <2>2. 0 \in 0 .. ne[4] - 1 /\ c \in 0 .. ne[3] - 1 /\ x \in 0 .. ne[1] - 1 /\ y \in 0 .. ne[2] - 1
    OBVIOUS
  <2>3. CASE program = "instructsam"
    <3> DEFINE From(w, h, k, n) == Pixel(hidden.data[(h * Grid + w) * Heads + k])
    <3>1. Features = Tensor(ne, From)
      BY <2>3 DEF Features
    <3> HIDE DEF ne, From
    <3>2. /\ Features.ne = ne
          /\ Features.data = [i \in 0 .. Size(ne) - 1 |->
               From(i % ne[1], (i \div ne[1]) % ne[2], (i \div (ne[1] * ne[2])) % ne[3],
                    i \div (ne[1] * ne[2] * ne[3]))]
      BY <3>1 DEF Tensor
    <3>3. At(Features, x, y, c, 0) = From(x, y, c, 0)
      <4> DEFINE f == Features
      <4> HIDE DEF f
      <4>1. f.ne = ne /\ f.ne \in Shapes
        BY <3>2, <1>1 DEF f
      <4>2. PICK i \in 0 .. Size(ne) - 1 :
              /\ At(f, x, y, c, 0) = f.data[i]
              /\ i % ne[1] = x /\ (i \div ne[1]) % ne[2] = y
              /\ (i \div (ne[1] * ne[2])) % ne[3] = c
              /\ i \div (ne[1] * ne[2] * ne[3]) = 0
        BY <4>1, <2>2, Lands
      <4> QED
        BY <4>2, <3>2 DEF f
    <3>4. Flat(RowsNe, c, x, y, 0) = (y * Grid + x) * Heads + c
      BY Sizes DEF Flat, RowsNe
    <3>5. hidden.data[(y * Grid + x) * Heads + c] = RowElement(l, c, x, y)
      BY <2>1, <3>4, AtFlat
    <3> QED
      BY <3>2, <3>3, <3>5 DEF From
  <2>4. CASE program = "sam3"
    <3> DEFINE t == Permute(hidden, 2, 0, 1, 3)
    <3>1. /\ IsTensor(t) /\ t.ne = ne /\ t.ne \in Shapes
          /\ At(t, x, y, c, 0) = At(hidden, c, x, y, 0)
      <4>1. hidden.ne = <<Heads, Grid, Grid, 1>> /\ hidden.ne \in Shapes
        BY RowsAt DEF RowsNe
      <4>2. <<hidden.ne[2], hidden.ne[3], hidden.ne[1], hidden.ne[4]>> = ne
        BY <4>1
      <4> HIDE DEF ne
      <4> QED
        BY <2>2, <4>1, <4>2, Permute2013
    <3>2. DOMAIN t.data = 0 .. Size(t.ne) - 1
      BY DEF Permute, Tensor
    <3>3. Features = [t EXCEPT !.data = [i \in DOMAIN @ |-> Pixel(@[i])]]
      BY <2>4 DEF Features
    <3> HIDE DEF t, ne
    <3>4. Features.ne = t.ne /\ Features.data = [i \in 0 .. Size(t.ne) - 1 |-> Pixel(t.data[i])]
      BY <3>1, <3>2, <3>3 DEF IsTensor
    <3>5. PICK i \in 0 .. Size(ne) - 1 : i = Flat(ne, x, y, c, 0)
      BY <1>1, <2>2, FlatOf
    <3>6. At(t, x, y, c, 0) = t.data[i] /\ At(Features, x, y, c, 0) = Features.data[i]
      BY <3>1, <3>4, <3>5, AtFlat
    <3> QED
      BY <2>1, <3>1, <3>4, <3>6
  <2> QED
    BY <2>3, <2>4
<1>3. ASSUME NEW x \in 0 .. Grid - 1, NEW y \in 0 .. Grid - 1, NEW c \in 0 .. Heads - 1
      PROVE  /\ Features.ne = ne
             /\ IsPixel(At(Features, x, y, c, 0))
             /\ At(Features, x, y, c, 0).at = PatchesUnder(2, y, x)
             /\ At(Features, x, y, c, 0).taps = {PathTo(2, y, x)}
             /\ At(Features, x, y, c, 0).chan = c
  <2>1. y \div 1 = y /\ x \div 1 = x
    BY Sizes
  <2>2. PatchesUnder(2, y, x) = {<<y, x>>} /\ PathTo(2, y, x) = <<>>
    BY <2>1 DEF PatchesUnder, PerPatch, PathTo
  <2>3. /\ Pixel(RowElement(l, c, x, y)).at = {<<y, x>>} /\ Pixel(RowElement(l, c, x, y)).taps = {<<>>}
        /\ Pixel(RowElement(l, c, x, y)).chan = c /\ IsPixel(Pixel(RowElement(l, c, x, y)))
    BY DEF Pixel, RowElement, IsPixel
  <2> QED
    BY <1>2, <2>2, <2>3
<1>4. 0 \in 0 .. Grid - 1 /\ 0 \in 0 .. Heads - 1
  BY Sizes
<1>5. Features.ne = ne
  BY <1>3, <1>4
<1> QED
  BY <1>3, <1>5, SideIs DEF Shows

(* The kernels, in the order of ggml_conv_2d and of ggml_conv_transpose_2d. *)
LEMMA TorchAt ==
  ASSUME NEW k \in Nat \ {0}, NEW ic \in Nat \ {0}, NEW kx \in 0 .. k - 1, NEW ky \in 0 .. k - 1,
         NEW i \in 0 .. ic - 1, NEW o \in 0 .. NeckChannels - 1
  PROVE  /\ TorchKernel(k, ic).ne = <<k, k, ic, NeckChannels>>
         /\ At(TorchKernel(k, ic), kx, ky, i, o) = Weight(ky, kx, i, o)
<1>0. NeckChannels \in Nat \ {0}
  BY SideIs
<1> DEFINE t == TorchKernel(k, ic)  ne == <<k, k, ic, NeckChannels>>
<1>1. /\ t.ne = ne /\ t.ne \in Shapes
      /\ t.data = [x \in 0 .. Size(ne) - 1 |->
           Weight((x \div ne[1]) % ne[2], x % ne[1], (x \div (ne[1] * ne[2])) % ne[3],
                  x \div (ne[1] * ne[2] * ne[3]))]
  BY <1>0 DEF TorchKernel, Tensor, Shapes
<1>4. t.ne = ne /\ t.ne \in Shapes
  BY <1>1
<1>2. /\ kx \in 0 .. ne[1] - 1 /\ ky \in 0 .. ne[2] - 1 /\ i \in 0 .. ne[3] - 1 /\ o \in 0 .. ne[4] - 1
  OBVIOUS
<1> HIDE DEF t, ne
<1>3. PICK x \in 0 .. Size(ne) - 1 :
        /\ At(t, kx, ky, i, o) = t.data[x]
        /\ x % ne[1] = kx /\ (x \div ne[1]) % ne[2] = ky /\ (x \div (ne[1] * ne[2])) % ne[3] = i
        /\ x \div (ne[1] * ne[2] * ne[3]) = o
  BY <1>4, <1>2, Lands
<1> QED
  BY <1>1, <1>3 DEF t, ne

LEMMA TransposedAt ==
  ASSUME NEW k \in Nat \ {0}, NEW ic \in Nat \ {0}, NEW kx \in 0 .. k - 1, NEW ky \in 0 .. k - 1,
         NEW i \in 0 .. ic - 1, NEW o \in 0 .. NeckChannels - 1
  PROVE  /\ TorchTransposed(k, ic).ne = <<k, k, NeckChannels, ic>>
         /\ At(TorchTransposed(k, ic), kx, ky, o, i) = Weight(ky, kx, i, o)
<1>0. NeckChannels \in Nat \ {0}
  BY SideIs
<1> DEFINE t == TorchTransposed(k, ic)  ne == <<k, k, NeckChannels, ic>>
<1>1. /\ t.ne = ne /\ t.ne \in Shapes
      /\ t.data = [x \in 0 .. Size(ne) - 1 |->
           Weight((x \div ne[1]) % ne[2], x % ne[1], x \div (ne[1] * ne[2] * ne[3]),
                  (x \div (ne[1] * ne[2])) % ne[3])]
  BY <1>0 DEF TorchTransposed, Tensor, Shapes
<1>4. t.ne = ne /\ t.ne \in Shapes
  BY <1>1
<1>2. /\ kx \in 0 .. ne[1] - 1 /\ ky \in 0 .. ne[2] - 1 /\ o \in 0 .. ne[3] - 1 /\ i \in 0 .. ne[4] - 1
  OBVIOUS
<1> HIDE DEF t, ne
<1>3. PICK x \in 0 .. Size(ne) - 1 :
        /\ At(t, kx, ky, o, i) = t.data[x]
        /\ x % ne[1] = kx /\ (x \div ne[1]) % ne[2] = ky /\ (x \div (ne[1] * ne[2])) % ne[3] = o
        /\ x \div (ne[1] * ne[2] * ne[3]) = i
  BY <1>4, <1>2, Lands
<1> QED
  BY <1>1, <1>3 DEF t, ne

LEMMA MlxAt ==
  ASSUME NEW k \in Nat \ {0}, NEW ic \in Nat \ {0}, NEW kx \in 0 .. k - 1, NEW ky \in 0 .. k - 1,
         NEW i \in 0 .. ic - 1, NEW o \in 0 .. NeckChannels - 1
  PROVE  /\ MlxKernel(k, ic).ne = <<ic, k, k, NeckChannels>>
         /\ At(MlxKernel(k, ic), i, kx, ky, o) = Weight(ky, kx, i, o)
<1>0. NeckChannels \in Nat \ {0}
  BY SideIs
<1> DEFINE t == MlxKernel(k, ic)  ne == <<ic, k, k, NeckChannels>>
<1>1. /\ t.ne = ne /\ t.ne \in Shapes
      /\ t.data = [x \in 0 .. Size(ne) - 1 |->
           Weight((x \div (ne[1] * ne[2])) % ne[3], (x \div ne[1]) % ne[2], x % ne[1],
                  x \div (ne[1] * ne[2] * ne[3]))]
  BY <1>0 DEF MlxKernel, Tensor, Shapes
<1>4. t.ne = ne /\ t.ne \in Shapes
  BY <1>1
<1>2. /\ i \in 0 .. ne[1] - 1 /\ kx \in 0 .. ne[2] - 1 /\ ky \in 0 .. ne[3] - 1 /\ o \in 0 .. ne[4] - 1
  OBVIOUS
<1> HIDE DEF t, ne
<1>3. PICK x \in 0 .. Size(ne) - 1 :
        /\ At(t, i, kx, ky, o) = t.data[x]
        /\ x % ne[1] = i /\ (x \div ne[1]) % ne[2] = kx /\ (x \div (ne[1] * ne[2])) % ne[3] = ky
        /\ x \div (ne[1] * ne[2] * ne[3]) = o
  BY <1>4, <1>2, Lands
<1> QED
  BY <1>1, <1>3 DEF t, ne

LEMMA KernelAt ==
  ASSUME NEW k \in Nat \ {0}, NEW ic \in Nat \ {0}
  PROVE  /\ Kernel(k, ic).ne = <<k, k, ic, NeckChannels>>
         /\ \A kx, ky \in 0 .. k - 1, i \in 0 .. ic - 1, o \in 0 .. NeckChannels - 1 :
              At(Kernel(k, ic), kx, ky, i, o) = Weight(ky, kx, i, o)
<1>0. 0 \in 0 .. k - 1 /\ 0 \in 0 .. ic - 1 /\ 0 \in 0 .. NeckChannels - 1
  BY SideIs
<1>1. CASE program = "sam3"
  <2> DEFINE t == MlxKernel(k, ic)  u == Permute(t, 2, 0, 1, 3)
  <2>0. t.ne = <<ic, k, k, NeckChannels>>
    BY <1>0, MlxAt
  <2> HIDE DEF t
  <2>1. t.ne = <<ic, k, k, NeckChannels>> /\ t.ne \in Shapes
    BY <2>0, SideIs DEF Shapes
  <2>2. u.ne = <<k, k, ic, NeckChannels>>
    BY <2>1, Permute2013
  <2>3. \A kx, ky \in 0 .. k - 1, i \in 0 .. ic - 1, o \in 0 .. NeckChannels - 1 :
          At(u, kx, ky, i, o) = At(t, i, kx, ky, o)
    BY <2>1, <2>2, Permute2013
  <2>4. Kernel(k, ic) = u
    BY <1>1 DEF Kernel, t
  <2> HIDE DEF u
  <2> QED
    BY <2>2, <2>3, <2>4, MlxAt DEF t
<1>2. CASE program # "sam3"
  BY <1>0, <1>2, TorchAt DEF Kernel
<1> QED
  BY <1>1, <1>2

(* What a pixel is made of, when all that meets in it agrees.              *)
Agree(pairs, middle, at, path, out) ==
  /\ \A p \in pairs : p[1].out = out
  /\ \E p \in pairs : p[1].tap = middle
  /\ \A p \in pairs : p[1].tap = middle => p[2].at = at /\ p[2].taps = {path}

LEMMA SummedOf ==
  ASSUME NEW pairs, NEW middle, NEW at, NEW path, NEW out, Agree(pairs, middle, at, path, out)
  PROVE  Summed(pairs, middle)
           = [at |-> at, taps |-> {path}, ring |-> {<<p[1].tap, p[2].at>> : p \in pairs},
              from |-> {<<p[1].in, p[2].chan>> : p \in pairs}, chan |-> out]
<1> DEFINE mid == {p \in pairs : p[1].tap = middle}
<1>1. mid # {} /\ \A p \in mid : p[2].at = at /\ p[2].taps = {path}
  BY DEF Agree
<1>2. (CHOOSE p \in pairs : TRUE)[1].out = out
  <2>1. (CHOOSE p \in pairs : TRUE) \in pairs
    BY DEF Agree
  <2> QED
    BY <2>1 DEF Agree
<1> HIDE DEF mid
<1>3. UNION {p[2].at : p \in mid} = at
  <2>1. {p[2].at : p \in mid} = {at}
    BY <1>1
  <2> QED
    BY <2>1
<1>4. UNION {p[2].taps : p \in mid} = {path}
  <2>1. {p[2].taps : p \in mid} = {{path}}
    BY <1>1
  <2> QED
    BY <2>1
<1> QED
  BY <1>2, <1>3, <1>4 DEF Summed, mid

LEMMA UpsampledOf ==
  ASSUME NEW pairs, NEW tap, NEW at, NEW path, NEW out, Agree(pairs, tap, at, path, out),
         \A p \in pairs : p[1].tap = tap
  PROVE  /\ Upsampled(pairs).at = at /\ Upsampled(pairs).taps = {Append(path, tap)}
         /\ Upsampled(pairs).chan = out /\ IsPixel(Upsampled(pairs))
<1>1. (CHOOSE p \in pairs : TRUE)[1].tap = tap
  <2>1. (CHOOSE p \in pairs : TRUE) \in pairs
    BY DEF Agree
  <2> QED
    BY <2>1
<1> DEFINE s == Summed(pairs, tap)
<1>2. s = [at |-> at, taps |-> {path}, ring |-> {<<p[1].tap, p[2].at>> : p \in pairs},
           from |-> {<<p[1].in, p[2].chan>> : p \in pairs}, chan |-> out]
  BY SummedOf
<1>3. Upsampled(pairs) = [s EXCEPT !.taps = {Append(q, tap) : q \in @}]
  BY <1>1 DEF Upsampled
<1> HIDE DEF s
<1>4. /\ Upsampled(pairs).at = s.at /\ Upsampled(pairs).chan = s.chan
      /\ Upsampled(pairs).taps = {Append(q, tap) : q \in s.taps}
      /\ IsPixel(Upsampled(pairs))
  BY <1>2, <1>3 DEF IsPixel
<1> QED
  BY <1>2, <1>4

LEMMA PooledOf ==
  ASSUME NEW pixels, pixels # {}, NEW path, NEW chan,
         \A e \in pixels : IsPixel(e) /\ e.taps = {path} /\ e.chan = chan
  PROVE  /\ Pooled(pixels).at = UNION {e.at : e \in pixels}
         /\ Pooled(pixels).taps = {path} /\ Pooled(pixels).chan = chan
         /\ IsPixel(Pooled(pixels))
<1> DEFINE e == CHOOSE d \in pixels : TRUE
           at == UNION {d.at : d \in pixels}
<1>1. e \in pixels
  OBVIOUS
<1>2. Pooled(pixels) = [e EXCEPT !.at = at]
  BY DEF Pooled
<1> HIDE DEF e, at
<1>3. e = [at |-> e.at, taps |-> e.taps, ring |-> e.ring, from |-> e.from, chan |-> e.chan]
  BY <1>1 DEF IsPixel
<1>4. /\ Pooled(pixels).at = at /\ Pooled(pixels).taps = e.taps /\ Pooled(pixels).chan = e.chan
      /\ IsPixel(Pooled(pixels))
  BY <1>2, <1>3 DEF IsPixel
<1> QED
  BY <1>1, <1>4 DEF at

(* A step of VisionNeck or run_neck takes what shows a level to what shows  *)
(* the next, or the same.                                                   *)
LEMMA ConvTShows ==
  ASSUME NEW x, NEW level \in 1 .. 2, NEW chans \in Nat \ {0}, Shows(x, level, chans)
  PROVE  Shows(Apply("convT", x), level - 1, NeckChannels)
<1> DEFINE n == SideOf(level)
           w == TorchTransposed(2, chans)
           ne == <<n * 2, n * 2, NeckChannels, 1>>
           Pairs(ow, oh, oc) == {<<At(w, ow % 2, oh % 2, oc, ic), At(x, ow \div 2, oh \div 2, ic, 0)>> :
                                 ic \in 0 .. x.ne[3] - 1}
           From(ow, oh, oc, m) == Upsampled(Pairs(ow, oh, oc))
           f == Apply("convT", x)
<1>1. n \in Nat \ {0} /\ n * 2 = SideOf(level - 1) /\ NeckChannels \in Nat \ {0}
  BY SideIs, Sizes
<1>2. x.ne = <<n, n, chans, 1>> /\ x.ne[1] = n /\ x.ne[2] = n /\ x.ne[3] = chans
  BY DEF Shows
<1>3. w.ne[3] = NeckChannels
  <2>1. 0 \in 0 .. 2 - 1 /\ 0 \in 0 .. chans - 1 /\ 0 \in 0 .. NeckChannels - 1 /\ 2 \in Nat \ {0}
    BY <1>1
  <2>2. TorchTransposed(2, chans).ne = <<2, 2, NeckChannels, chans>>
    BY <2>1, TransposedAt
  <2> QED
    BY <2>2
<1>4. f = Tensor(ne, From)
  <2>1. f = ConvTranspose2d(TorchTransposed(2, x.ne[3]), x, 2, Upsampled)
    BY DEF Apply
  <2>2. f = ConvTranspose2d(w, x, 2, Upsampled)
    <3> HIDE DEF f, n
    <3> QED
      BY <1>2, <2>1
  <2> HIDE DEF f, n, w
  <2>3. f = Tensor(<<x.ne[1] * 2, x.ne[2] * 2, w.ne[3], 1>>, From)
    BY <2>2 DEF ConvTranspose2d
  <2>4. <<x.ne[1] * 2, x.ne[2] * 2, w.ne[3], 1>> = ne
    BY <1>2, <1>3
  <2> HIDE DEF From, ne
  <2> QED
    BY <2>3, <2>4
<1> HIDE DEF n, w, f
<1>5. ne \in Shapes
  BY <1>1 DEF Shapes
<1>6. f.ne = ne
  BY <1>4 DEF Tensor
<1>7. ASSUME NEW ow \in 0 .. n * 2 - 1, NEW oh \in 0 .. n * 2 - 1, NEW oc \in 0 .. NeckChannels - 1
      PROVE  At(f, ow, oh, oc, 0) = Upsampled(Pairs(ow, oh, oc))
  <2>1. /\ ow \in 0 .. ne[1] - 1 /\ oh \in 0 .. ne[2] - 1 /\ oc \in 0 .. ne[3] - 1 /\ 0 \in 0 .. ne[4] - 1
    OBVIOUS
  <2> HIDE DEF ne, From
  <2>2. f.data = [i \in 0 .. Size(ne) - 1 |->
          From(i % ne[1], (i \div ne[1]) % ne[2], (i \div (ne[1] * ne[2])) % ne[3],
               i \div (ne[1] * ne[2] * ne[3]))]
    BY <1>4 DEF Tensor
  <2>3. PICK i \in 0 .. Size(ne) - 1 :
          /\ At(f, ow, oh, oc, 0) = f.data[i]
          /\ i % ne[1] = ow /\ (i \div ne[1]) % ne[2] = oh
          /\ (i \div (ne[1] * ne[2])) % ne[3] = oc /\ i \div (ne[1] * ne[2] * ne[3]) = 0
    BY <1>5, <1>6, <2>1, Lands
  <2>4. At(f, ow, oh, oc, 0) = From(ow, oh, oc, 0)
    BY <2>2, <2>3
  <2> QED
    BY <2>4 DEF From
<1>8. ASSUME NEW ow \in 0 .. n * 2 - 1, NEW oh \in 0 .. n * 2 - 1, NEW oc \in 0 .. NeckChannels - 1
      PROVE  /\ IsPixel(At(f, ow, oh, oc, 0))
             /\ At(f, ow, oh, oc, 0).at = PatchesUnder(level - 1, oh, ow)
             /\ At(f, ow, oh, oc, 0).taps = {PathTo(level - 1, oh, ow)}
             /\ At(f, ow, oh, oc, 0).chan = oc
  <2> DEFINE pairs == Pairs(ow, oh, oc)
             tap == <<oh % 2, ow % 2>>
             at == PatchesUnder(level, oh \div 2, ow \div 2)
             path == PathTo(level, oh \div 2, ow \div 2)
  <2>1. /\ ow \div 2 \in 0 .. n - 1 /\ oh \div 2 \in 0 .. n - 1 /\ ow % 2 \in 0 .. 1 /\ oh % 2 \in 0 .. 1
    BY <1>1
  <2>2. ASSUME NEW ic \in 0 .. chans - 1
        PROVE  /\ At(w, ow % 2, oh % 2, oc, ic) = Weight(oh % 2, ow % 2, ic, oc)
               /\ At(x, ow \div 2, oh \div 2, ic, 0).at = at
               /\ At(x, ow \div 2, oh \div 2, ic, 0).taps = {path}
    <3>1. At(w, ow % 2, oh % 2, oc, ic) = Weight(oh % 2, ow % 2, ic, oc)
      <4> DEFINE kx == ow % 2  ky == oh % 2
      <4>1. kx \in 0 .. 2 - 1 /\ ky \in 0 .. 2 - 1 /\ 2 \in Nat \ {0}
        BY <2>1
      <4> HIDE DEF kx, ky
      <4>2. At(TorchTransposed(2, chans), kx, ky, oc, ic) = Weight(ky, kx, ic, oc)
        BY <4>1, TransposedAt
      <4> QED
        BY <4>2 DEF kx, ky, w
    <3> QED
      BY <2>1, <3>1 DEF Shows, n
  <2>3. ASSUME NEW ic \in 0 .. chans - 1
        PROVE  /\ Weight(oh % 2, ow % 2, ic, oc).tap = tap /\ Weight(oh % 2, ow % 2, ic, oc).out = oc
    BY DEF Weight
  <2>4. /\ pairs # {}
        /\ \A p \in pairs : p[1].out = oc /\ p[1].tap = tap /\ p[2].at = at /\ p[2].taps = {path}
    <3>1. ASSUME NEW p \in pairs
          PROVE  p[1].out = oc /\ p[1].tap = tap /\ p[2].at = at /\ p[2].taps = {path}
      <4>1. PICK ic \in 0 .. chans - 1 :
              p = <<At(w, ow % 2, oh % 2, oc, ic), At(x, ow \div 2, oh \div 2, ic, 0)>>
        BY <1>2
      <4> HIDE DEF pairs, tap, at, path
      <4>2. p[1] = Weight(oh % 2, ow % 2, ic, oc) /\ p[2] = At(x, ow \div 2, oh \div 2, ic, 0)
        BY <2>2, <4>1
      <4> QED
        BY <2>2, <2>3, <4>2
    <3>2. 0 \in 0 .. x.ne[3] - 1
      BY <1>2
    <3> QED
      BY <3>1, <3>2
  <2> HIDE DEF pairs, tap, at, path
  <2>5. /\ Upsampled(pairs).at = at /\ Upsampled(pairs).taps = {Append(path, tap)}
        /\ Upsampled(pairs).chan = oc /\ IsPixel(Upsampled(pairs))
    <3>1. Agree(pairs, tap, at, path, oc)
      BY <2>4 DEF Agree
    <3> QED
      BY <2>4, <3>1, UpsampledOf
  <2>6. at = PatchesUnder(level - 1, oh, ow)
    <3>1. oh \in Nat /\ ow \in Nat
      BY <1>1
    <3>2. CASE level = 2
      BY <3>1, <3>2 DEF at, PatchesUnder, PerPatch
    <3>3. CASE level = 1
      BY <3>1, <3>3 DEF at, PatchesUnder, PerPatch
    <3> QED
      BY <3>2, <3>3
  <2>7. Append(path, tap) = PathTo(level - 1, oh, ow)
    <3>1. CASE level = 2
      <4>1. path = <<>> /\ PathTo(level - 1, oh, ow) = <<tap>>
        BY <3>1 DEF path, tap, PathTo
      <4> QED
        BY <4>1
    <3>2. CASE level = 1
      <4> DEFINE first == <<(oh \div 2) % 2, (ow \div 2) % 2>>
      <4>1. path = <<first>> /\ PathTo(level - 1, oh, ow) = <<first, tap>>
        BY <3>2 DEF path, tap, PathTo
      <4> HIDE DEF first
      <4> QED
        BY <4>1
    <3> QED
      BY <3>1, <3>2
  <2> QED
    BY <1>7, <2>5, <2>6, <2>7 DEF pairs
<1> QED
  BY <1>1, <1>6, <1>8 DEF Shows, f

LEMMA PoolShows ==
  ASSUME NEW x, NEW chans \in Nat \ {0}, Shows(x, 2, chans)
  PROVE  Shows(Apply("pool", x), 3, chans)
<1> DEFINE n == SideOf(3)
           ne == <<n, n, chans, 1>>
           Pixels(ow, oh, c) == {At(x, 2 * ow + i, 2 * oh + j, c, 0) : i \in 0 .. 1, j \in 0 .. 1}
           From(ow, oh, c, m) == Pooled(Pixels(ow, oh, c))
           f == Apply("pool", x)
<1>1. n \in Nat \ {0} /\ SideOf(2) = 2 * n /\ SideOf(2) \div 2 = n
  BY SideIs
<1>2. x.ne[1] \div 2 = n /\ x.ne[2] \div 2 = n /\ x.ne[3] = chans
  BY <1>1 DEF Shows
<1>3. f = Tensor(ne, From)
  <2>1. f = Pool2x2(x, Pooled)
    BY DEF Apply
  <2> HIDE DEF f, n
  <2>2. f = Tensor(<<x.ne[1] \div 2, x.ne[2] \div 2, x.ne[3], 1>>, From)
    BY <2>1 DEF Pool2x2, Tensor
  <2>3. <<x.ne[1] \div 2, x.ne[2] \div 2, x.ne[3], 1>> = ne
    BY <1>2
  <2> HIDE DEF From, ne
  <2> QED
    BY <2>2, <2>3
<1> HIDE DEF n, f
<1>4. ne \in Shapes
  BY <1>1 DEF Shapes
<1>5. f.ne = ne
  BY <1>3 DEF Tensor
<1>6. ASSUME NEW ow \in 0 .. n - 1, NEW oh \in 0 .. n - 1, NEW c \in 0 .. chans - 1
      PROVE  At(f, ow, oh, c, 0) = Pooled(Pixels(ow, oh, c))
  <2>1. /\ ow \in 0 .. ne[1] - 1 /\ oh \in 0 .. ne[2] - 1 /\ c \in 0 .. ne[3] - 1 /\ 0 \in 0 .. ne[4] - 1
    OBVIOUS
  <2> HIDE DEF ne, From
  <2>2. f.data = [i \in 0 .. Size(ne) - 1 |->
          From(i % ne[1], (i \div ne[1]) % ne[2], (i \div (ne[1] * ne[2])) % ne[3],
               i \div (ne[1] * ne[2] * ne[3]))]
    BY <1>3 DEF Tensor
  <2>3. PICK i \in 0 .. Size(ne) - 1 :
          /\ At(f, ow, oh, c, 0) = f.data[i]
          /\ i % ne[1] = ow /\ (i \div ne[1]) % ne[2] = oh
          /\ (i \div (ne[1] * ne[2])) % ne[3] = c /\ i \div (ne[1] * ne[2] * ne[3]) = 0
    BY <1>4, <1>5, <2>1, Lands
  <2>4. At(f, ow, oh, c, 0) = From(ow, oh, c, 0)
    BY <2>2, <2>3
  <2> QED
    BY <2>4 DEF From
<1>7. ASSUME NEW ow \in 0 .. n - 1, NEW oh \in 0 .. n - 1, NEW c \in 0 .. chans - 1
      PROVE  /\ IsPixel(At(f, ow, oh, c, 0))
             /\ At(f, ow, oh, c, 0).at = PatchesUnder(3, oh, ow)
             /\ At(f, ow, oh, c, 0).taps = {PathTo(3, oh, ow)}
             /\ At(f, ow, oh, c, 0).chan = c
  <2> DEFINE pixels == Pixels(ow, oh, c)
  <2>1. ASSUME NEW i \in 0 .. 1, NEW j \in 0 .. 1
        PROVE  LET e == At(x, 2 * ow + i, 2 * oh + j, c, 0)
               IN IsPixel(e) /\ e.at = {<<2 * oh + j, 2 * ow + i>>} /\ e.taps = {<<>>} /\ e.chan = c
    <3> DEFINE v == 2 * oh + j  u == 2 * ow + i
    <3>1. u \in 0 .. SideOf(2) - 1 /\ v \in 0 .. SideOf(2) - 1 /\ u \div 1 = u /\ v \div 1 = v
      BY <1>1
    <3> HIDE DEF u, v
    <3>2. /\ IsPixel(At(x, u, v, c, 0)) /\ At(x, u, v, c, 0).at = PatchesUnder(2, v, u)
          /\ At(x, u, v, c, 0).taps = {PathTo(2, v, u)} /\ At(x, u, v, c, 0).chan = c
      BY <3>1 DEF Shows
    <3>3. PatchesUnder(2, v, u) = {<<v, u>>} /\ PathTo(2, v, u) = <<>>
      BY <3>1 DEF PatchesUnder, PerPatch, PathTo
    <3> QED
      BY <3>2, <3>3 DEF u, v
  <2>2. pixels # {} /\ \A e \in pixels : IsPixel(e) /\ e.taps = {<<>>} /\ e.chan = c
    BY <2>1
  <2>3. UNION {e.at : e \in pixels} = {<<2 * oh + j, 2 * ow + i>> : j \in 0 .. 1, i \in 0 .. 1}
    <3>1. ASSUME NEW i \in 0 .. 1, NEW j \in 0 .. 1
          PROVE  /\ At(x, 2 * ow + i, 2 * oh + j, c, 0) \in pixels
                 /\ At(x, 2 * ow + i, 2 * oh + j, c, 0).at = {<<2 * oh + j, 2 * ow + i>>}
      BY <2>1
    <3>2. ASSUME NEW e \in pixels
          PROVE  \E i \in 0 .. 1, j \in 0 .. 1 : e.at = {<<2 * oh + j, 2 * ow + i>>}
      BY <2>1
    <3> HIDE DEF pixels
    <3>3. {<<2 * oh + j, 2 * ow + i>> : j \in 0 .. 1, i \in 0 .. 1} \subseteq UNION {e.at : e \in pixels}
      BY <3>1
    <3>4. UNION {e.at : e \in pixels} \subseteq {<<2 * oh + j, 2 * ow + i>> : j \in 0 .. 1, i \in 0 .. 1}
      BY <3>2
    <3> QED
      BY <3>3, <3>4
  <2>7. At(f, ow, oh, c, 0) = Pooled(pixels)
    BY <1>6
  <2> HIDE DEF pixels
  <2>4. /\ Pooled(pixels).at = UNION {e.at : e \in pixels}
        /\ Pooled(pixels).taps = {<<>>} /\ Pooled(pixels).chan = c /\ IsPixel(Pooled(pixels))
    BY <2>2, PooledOf
  <2>5. Pooled(pixels).at = PatchesUnder(3, oh, ow)
    <3> DEFINE under == {<<2 * oh + j, 2 * ow + i>> : j \in 0 .. 1, i \in 0 .. 1}
    <3>1. PatchesUnder(3, oh, ow) = under
      BY DEF PatchesUnder
    <3>2. Pooled(pixels).at = under
      BY <2>3, <2>4
    <3> HIDE DEF under
    <3> QED
      BY <3>1, <3>2
  <2>6. PathTo(3, oh, ow) = <<>>
    BY DEF PathTo
  <2> QED
    BY <2>4, <2>5, <2>6, <2>7
<1> QED
  BY <1>1, <1>5, <1>7 DEF Shows, f, n

(* A convolution of a level with a kernel of 2 * pad + 1 taps.              *)
Around(w, x, pad, ow, oh) ==
  {c \in (0 .. w.ne[1] - 1) \X (0 .. w.ne[2] - 1) :
     ow + c[1] - pad \in 0 .. x.ne[1] - 1 /\ oh + c[2] - pad \in 0 .. x.ne[2] - 1}

Met(w, x, pad, ow, oh, oc) ==
  {<<At(w, c[1], c[2], ic, oc), At(x, ow + c[1] - pad, oh + c[2] - pad, ic, 0)>> :
   c \in Around(w, x, pad, ow, oh), ic \in 0 .. x.ne[3] - 1}

Padded(op, pad) == <<op, pad>> \in {<<"conv1", 0>>, <<"conv3", 1>>}

LEMMA ConvAt ==
  ASSUME NEW x, NEW n \in Nat \ {0}, NEW chans \in Nat \ {0}, x.ne = <<n, n, chans, 1>>,
         NEW op, NEW pad, Padded(op, pad)
  PROVE  /\ Apply(op, x).ne = <<n, n, NeckChannels, 1>>
         /\ \A ow, oh \in 0 .. n - 1, oc \in 0 .. NeckChannels - 1 :
              At(Apply(op, x), ow, oh, oc, 0)
                = Summed(Met(Kernel(2 * pad + 1, chans), x, pad, ow, oh, oc), <<pad, pad>>)
<1> DEFINE w == Kernel(2 * pad + 1, chans)
           ne == <<n, n, NeckChannels, 1>>
           From(ow, oh, oc, m) == Summed(Met(w, x, pad, ow, oh, oc), <<pad, pad>>)
           f == Apply(op, x)
<1>1. NeckChannels \in Nat \ {0} /\ pad \in 0 .. 1
  BY SideIs DEF Padded
<1>2. w.ne = <<2 * pad + 1, 2 * pad + 1, chans, NeckChannels>>
  BY <1>1, KernelAt
<1>3. f = Tensor(<<x.ne[1] + 2 * pad - w.ne[1] + 1, x.ne[2] + 2 * pad - w.ne[2] + 1, w.ne[4], 1>>, From)
  <2>1. CASE op = "conv1" /\ pad = 0
    <3>1. f = Conv2d(Kernel(1, x.ne[3]), x, 0, Convolved1x1)
      BY <2>1 DEF Apply
    <3>2. w = Kernel(1, x.ne[3])
      <4>1. 2 * pad + 1 = 1 /\ x.ne[3] = chans
        BY <2>1
      <4> QED
        BY <4>1
    <3> HIDE DEF f, w
    <3>3. f = Conv2d(w, x, 0, Convolved1x1)
      BY <3>1, <3>2
    <3> QED
      BY <2>1, <3>3 DEF Conv2d, Tensor, Convolved1x1, Met, Around
  <2>2. CASE op = "conv3" /\ pad = 1
    <3>1. f = Conv2d(Kernel(3, x.ne[3]), x, 1, Convolved3x3)
      BY <2>2 DEF Apply
    <3>2. w = Kernel(3, x.ne[3])
      <4>1. 2 * pad + 1 = 3 /\ x.ne[3] = chans
        BY <2>2
      <4> QED
        BY <4>1
    <3> HIDE DEF f, w
    <3>3. f = Conv2d(w, x, 1, Convolved3x3)
      BY <3>1, <3>2
    <3> QED
      BY <2>2, <3>3 DEF Conv2d, Tensor, Convolved3x3, Met, Around
  <2> QED
    BY <2>1, <2>2 DEF Padded
<1> HIDE DEF w, From, f
<1>4. f = Tensor(ne, From)
  <2>1. <<x.ne[1] + 2 * pad - w.ne[1] + 1, x.ne[2] + 2 * pad - w.ne[2] + 1, w.ne[4], 1>> = ne
    BY <1>1, <1>2
  <2> HIDE DEF ne
  <2> QED
    BY <1>3, <2>1
<1>5. f.ne = ne /\ ne \in Shapes
  BY <1>1, <1>4 DEF Tensor, Shapes
<1>6. ASSUME NEW ow \in 0 .. n - 1, NEW oh \in 0 .. n - 1, NEW oc \in 0 .. NeckChannels - 1
      PROVE  At(f, ow, oh, oc, 0) = From(ow, oh, oc, 0)
  <2>1. /\ ow \in 0 .. ne[1] - 1 /\ oh \in 0 .. ne[2] - 1 /\ oc \in 0 .. ne[3] - 1 /\ 0 \in 0 .. ne[4] - 1
    OBVIOUS
  <2> HIDE DEF ne
  <2>2. f.data = [i \in 0 .. Size(ne) - 1 |->
          From(i % ne[1], (i \div ne[1]) % ne[2], (i \div (ne[1] * ne[2])) % ne[3],
               i \div (ne[1] * ne[2] * ne[3]))]
    BY <1>4 DEF Tensor
  <2>3. PICK i \in 0 .. Size(ne) - 1 :
          /\ At(f, ow, oh, oc, 0) = f.data[i]
          /\ i % ne[1] = ow /\ (i \div ne[1]) % ne[2] = oh
          /\ (i \div (ne[1] * ne[2])) % ne[3] = oc /\ i \div (ne[1] * ne[2] * ne[3]) = 0
    BY <1>5, <2>1, Lands
  <2> QED
    BY <2>2, <2>3
<1> QED
  BY <1>5, <1>6 DEF f, From, w

(* The taps of a kernel that meet a pixel of the level, as <<ky, kx>>.       *)
TapsIn(level, pad, y, x) ==
  {k \in (0 .. 2 * pad) \X (0 .. 2 * pad) :
     y + k[1] - pad \in 0 .. SideOf(level) - 1 /\ x + k[2] - pad \in 0 .. SideOf(level) - 1}

RingOf(level, pad, y, x) ==
  {<<k, PatchesUnder(level, y + k[1] - pad, x + k[2] - pad)>> : k \in TapsIn(level, pad, y, x)}

(* One pair that meets in a pixel: a tap, and the pixel under it.           *)
Meets(p, level, pad, y, x, oc, k, ic) ==
  /\ p[1].tap = k /\ p[1].in = ic /\ p[1].out = oc
  /\ p[2].at = PatchesUnder(level, y + k[1] - pad, x + k[2] - pad)
  /\ p[2].taps = {PathTo(level, y + k[1] - pad, x + k[2] - pad)}
  /\ p[2].chan = ic

LEMMA MetIs ==
  ASSUME NEW t, NEW level \in 0 .. 3, NEW chans \in Nat \ {0}, Shows(t, level, chans),
         NEW pad \in 0 .. 1, NEW y \in 0 .. SideOf(level) - 1, NEW x \in 0 .. SideOf(level) - 1,
         NEW oc \in 0 .. NeckChannels - 1
  PROVE  LET pairs == Met(Kernel(2 * pad + 1, chans), t, pad, x, y, oc)
         IN /\ \A p \in pairs : \E k \in TapsIn(level, pad, y, x), ic \in 0 .. chans - 1 :
                 Meets(p, level, pad, y, x, oc, k, ic)
            /\ \A k \in TapsIn(level, pad, y, x), ic \in 0 .. chans - 1 : \E p \in pairs :
                 Meets(p, level, pad, y, x, oc, k, ic)
<1> DEFINE n == SideOf(level)
           w == Kernel(2 * pad + 1, chans)
           pairs == Met(w, t, pad, x, y, oc)
           Pair(c, ic) == <<At(w, c[1], c[2], ic, oc), At(t, x + c[1] - pad, y + c[2] - pad, ic, 0)>>
<1>1. n \in Nat \ {0} /\ NeckChannels \in Nat \ {0}
  BY SideIs
<1>2. t.ne[1] = n /\ t.ne[2] = n /\ t.ne[3] = chans
  BY DEF Shows
<1>3. /\ w.ne = <<2 * pad + 1, 2 * pad + 1, chans, NeckChannels>>
      /\ \A kx, ky \in 0 .. 2 * pad, i \in 0 .. chans - 1 : At(w, kx, ky, i, oc) = Weight(ky, kx, i, oc)
  <2> DEFINE k == 2 * pad + 1
  <2>1. k \in Nat \ {0} /\ k - 1 = 2 * pad
    OBVIOUS
  <2> HIDE DEF k
  <2>2. /\ Kernel(k, chans).ne = <<k, k, chans, NeckChannels>>
        /\ \A kx, ky \in 0 .. k - 1, i \in 0 .. chans - 1 :
             At(Kernel(k, chans), kx, ky, i, oc) = Weight(ky, kx, i, oc)
    BY <2>1, KernelAt
  <2> QED
    BY <2>1, <2>2 DEF k
<1> HIDE DEF n, w
<1>4. w.ne[1] - 1 = 2 * pad /\ w.ne[2] - 1 = 2 * pad
  BY <1>3
<1>5. ASSUME NEW kx \in 0 .. 2 * pad, NEW ky \in 0 .. 2 * pad, NEW ic \in 0 .. chans - 1,
             x + kx - pad \in 0 .. n - 1, y + ky - pad \in 0 .. n - 1
      PROVE  Meets(Pair(<<kx, ky>>, ic), level, pad, y, x, oc, <<ky, kx>>, ic)
  <2> DEFINE u == x + kx - pad  v == y + ky - pad  e == At(t, u, v, ic, 0)
  <2>1. At(w, kx, ky, ic, oc) = Weight(ky, kx, ic, oc)
    BY <1>3
  <2>2. u \in 0 .. n - 1 /\ v \in 0 .. n - 1
    BY <1>5
  <2> HIDE DEF u, v
  <2>3. e.at = PatchesUnder(level, v, u) /\ e.taps = {PathTo(level, v, u)} /\ e.chan = ic
    BY <2>2 DEF Shows, n
  <2> HIDE DEF e
  <2>4. Pair(<<kx, ky>>, ic) = <<Weight(ky, kx, ic, oc), e>>
    BY <2>1 DEF e, u, v
  <2> HIDE DEF Pair
  <2>5. /\ Weight(ky, kx, ic, oc).tap = <<ky, kx>> /\ Weight(ky, kx, ic, oc).in = ic
        /\ Weight(ky, kx, ic, oc).out = oc
    BY DEF Weight
  <2> QED
    BY <2>3, <2>4, <2>5 DEF Meets, u, v
<1>6. pairs = {Pair(c, ic) : c \in Around(w, t, pad, x, y), ic \in 0 .. chans - 1}
  BY <1>2 DEF Met
<1> HIDE DEF pairs, Pair
<1>7. Around(w, t, pad, x, y)
        = {c \in (0 .. 2 * pad) \X (0 .. 2 * pad) : x + c[1] - pad \in 0 .. n - 1 /\ y + c[2] - pad \in 0 .. n - 1}
  BY <1>2, <1>4 DEF Around
<1>8. ASSUME NEW p \in pairs
      PROVE  \E k \in TapsIn(level, pad, y, x), ic \in 0 .. chans - 1 : Meets(p, level, pad, y, x, oc, k, ic)
  <2>1. PICK c \in Around(w, t, pad, x, y), ic \in 0 .. chans - 1 : p = Pair(c, ic)
    BY <1>6
  <2>2. PICK kx \in 0 .. 2 * pad, ky \in 0 .. 2 * pad :
          c = <<kx, ky>> /\ x + kx - pad \in 0 .. n - 1 /\ y + ky - pad \in 0 .. n - 1
    BY <1>7
  <2>3. Meets(p, level, pad, y, x, oc, <<ky, kx>>, ic)
    BY <1>5, <2>1, <2>2
  <2>4. <<ky, kx>> \in TapsIn(level, pad, y, x)
    BY <2>2 DEF TapsIn, n
  <2> QED
    BY <2>3, <2>4
<1>9. ASSUME NEW k \in TapsIn(level, pad, y, x), NEW ic \in 0 .. chans - 1
      PROVE  \E p \in pairs : Meets(p, level, pad, y, x, oc, k, ic)
  <2>1. PICK ky \in 0 .. 2 * pad, kx \in 0 .. 2 * pad :
          k = <<ky, kx>> /\ x + kx - pad \in 0 .. n - 1 /\ y + ky - pad \in 0 .. n - 1
    BY DEF TapsIn, n
  <2>2. Meets(Pair(<<kx, ky>>, ic), level, pad, y, x, oc, k, ic)
    BY <1>5, <2>1
  <2>3. <<kx, ky>> \in Around(w, t, pad, x, y)
    BY <1>7, <2>1
  <2> QED
    BY <1>6, <2>2, <2>3
<1> QED
  BY <1>8, <1>9 DEF pairs, w

(* A pixel of what a convolution makes.                                    *)
Seen(level, pad, chans, x, y, c) ==
  [at |-> PatchesUnder(level, y, x), taps |-> {PathTo(level, y, x)}, ring |-> RingOf(level, pad, y, x),
   from |-> {<<i, i>> : i \in 0 .. chans - 1}, chan |-> c]

(* f is what a convolution with that padding makes of a map of the level.  *)
Convolved(f, level, pad, chans) ==
  /\ f.ne = <<SideOf(level), SideOf(level), NeckChannels, 1>>
  /\ \A x, y \in 0 .. SideOf(level) - 1, c \in 0 .. NeckChannels - 1 :
       At(f, x, y, c, 0) = Seen(level, pad, chans, x, y, c)

LEMMA ConvShows ==
  ASSUME NEW t, NEW level \in 0 .. 3, NEW chans \in Nat \ {0}, Shows(t, level, chans),
         NEW op, NEW pad, Padded(op, pad)
  PROVE  Convolved(Apply(op, t), level, pad, chans)
<1>1. SideOf(level) \in Nat \ {0} /\ t.ne = <<SideOf(level), SideOf(level), chans, 1>> /\ pad \in 0 .. 1
  BY SideIs DEF Shows, Padded
<1>2. ASSUME NEW x \in 0 .. SideOf(level) - 1, NEW y \in 0 .. SideOf(level) - 1, NEW c \in 0 .. NeckChannels - 1
      PROVE  Summed(Met(Kernel(2 * pad + 1, chans), t, pad, x, y, c), <<pad, pad>>)
               = Seen(level, pad, chans, x, y, c)
  <2> DEFINE pairs == Met(Kernel(2 * pad + 1, chans), t, pad, x, y, c)
             taps == TapsIn(level, pad, y, x)
             at == PatchesUnder(level, y, x)
             path == PathTo(level, y, x)
             Patches(k) == PatchesUnder(level, y + k[1] - pad, x + k[2] - pad)
  <2>1. /\ \A p \in pairs : \E k \in taps, ic \in 0 .. chans - 1 : Meets(p, level, pad, y, x, c, k, ic)
        /\ \A k \in taps, ic \in 0 .. chans - 1 : \E p \in pairs : Meets(p, level, pad, y, x, c, k, ic)
    BY <1>1, MetIs
  <2>2. <<pad, pad>> \in taps /\ y + pad - pad = y /\ x + pad - pad = x
    BY <1>1 DEF TapsIn
  <2> HIDE DEF pairs, taps
  <2>3. 0 \in 0 .. chans - 1
    OBVIOUS
  <2>4. Agree(pairs, <<pad, pad>>, at, path, c)
    <3>1. \A p \in pairs : p[1].out = c
      BY <2>1 DEF Meets
    <3>2. \E p \in pairs : p[1].tap = <<pad, pad>>
      BY <2>1, <2>2, <2>3 DEF Meets
    <3>3. ASSUME NEW p \in pairs, p[1].tap = <<pad, pad>>
          PROVE  p[2].at = at /\ p[2].taps = {path}
      <4>1. PICK k \in taps, ic \in 0 .. chans - 1 : Meets(p, level, pad, y, x, c, k, ic)
        BY <2>1
      <4>2. k = <<pad, pad>>
        BY <3>3, <4>1 DEF Meets
      <4>3. y + k[1] - pad = y /\ x + k[2] - pad = x
        BY <2>2, <4>2
      <4>4. /\ p[2].at = PatchesUnder(level, y + k[1] - pad, x + k[2] - pad)
            /\ p[2].taps = {PathTo(level, y + k[1] - pad, x + k[2] - pad)}
        BY <4>1 DEF Meets
      <4> QED
        BY <4>3, <4>4, Zenon
    <3> QED
      BY <3>1, <3>2, <3>3 DEF Agree
  <2> HIDE DEF at, path
  <2>5. Summed(pairs, <<pad, pad>>)
          = [at |-> at, taps |-> {path}, ring |-> {<<p[1].tap, p[2].at>> : p \in pairs},
             from |-> {<<p[1].in, p[2].chan>> : p \in pairs}, chan |-> c]
    <3> DEFINE middle == <<pad, pad>>
    <3>1. Agree(pairs, middle, at, path, c)
      BY <2>4
    <3> HIDE DEF middle
    <3>2. Summed(pairs, middle)
            = [at |-> at, taps |-> {path}, ring |-> {<<p[1].tap, p[2].at>> : p \in pairs},
               from |-> {<<p[1].in, p[2].chan>> : p \in pairs}, chan |-> c]
      BY <3>1, SummedOf
    <3> QED
      BY <3>2 DEF middle
  <2>6. {<<p[1].tap, p[2].at>> : p \in pairs} = RingOf(level, pad, y, x)
    <3>1. ASSUME NEW p \in pairs PROVE \E k \in taps : <<p[1].tap, p[2].at>> = <<k, Patches(k)>>
      BY <2>1 DEF Meets
    <3>2. ASSUME NEW k \in taps PROVE \E p \in pairs : <<p[1].tap, p[2].at>> = <<k, Patches(k)>>
      BY <2>1, <2>3 DEF Meets
    <3> HIDE DEF Patches
    <3>3. {<<p[1].tap, p[2].at>> : p \in pairs} = {<<k, Patches(k)>> : k \in taps}
      BY <3>1, <3>2
    <3> QED
      BY <3>3 DEF RingOf, Patches, taps
  <2>7. {<<p[1].in, p[2].chan>> : p \in pairs} = {<<i, i>> : i \in 0 .. chans - 1}
    <3>1. ASSUME NEW p \in pairs PROVE \E i \in 0 .. chans - 1 : <<p[1].in, p[2].chan>> = <<i, i>>
      BY <2>1 DEF Meets
    <3>2. ASSUME NEW i \in 0 .. chans - 1 PROVE \E p \in pairs : <<p[1].in, p[2].chan>> = <<i, i>>
      BY <2>1, <2>2 DEF Meets
    <3> QED
      BY <3>1, <3>2
  <2> QED
    BY <2>5, <2>6, <2>7 DEF pairs, at, path, Seen
<1>3. /\ Apply(op, t).ne = <<SideOf(level), SideOf(level), NeckChannels, 1>>
      /\ \A ow, oh \in 0 .. SideOf(level) - 1, oc \in 0 .. NeckChannels - 1 :
           At(Apply(op, t), ow, oh, oc, 0)
             = Summed(Met(Kernel(2 * pad + 1, chans), t, pad, ow, oh, oc), <<pad, pad>>)
  <2> DEFINE n == SideOf(level)
  <2>1. n \in Nat \ {0} /\ t.ne = <<n, n, chans, 1>>
    BY <1>1
  <2> HIDE DEF n
  <2>2. /\ Apply(op, t).ne = <<n, n, NeckChannels, 1>>
        /\ \A ow, oh \in 0 .. n - 1, oc \in 0 .. NeckChannels - 1 :
             At(Apply(op, t), ow, oh, oc, 0)
               = Summed(Met(Kernel(2 * pad + 1, chans), t, pad, ow, oh, oc), <<pad, pad>>)
    BY <2>1, ConvAt
  <2> QED
    BY <2>2 DEF n
<1>4. ASSUME NEW x \in 0 .. SideOf(level) - 1, NEW y \in 0 .. SideOf(level) - 1, NEW c \in 0 .. NeckChannels - 1
      PROVE  At(Apply(op, t), x, y, c, 0) = Seen(level, pad, chans, x, y, c)
  BY <1>2, <1>3
<1> QED
  BY <1>3, <1>4 DEF Convolved

(* What remains to be done for level n, and the level that is shown then.  *)
Way(rest, n, shown) ==
  \/ rest \in {<<"conv3">>, <<"conv1", "conv3">>} /\ shown = n
  \/ rest = <<"convT", "conv1", "conv3">> /\ n \in 0 .. 1 /\ shown = n + 1
  \/ rest = <<"convT", "convT", "conv1", "conv3">> /\ n = 0 /\ shown = 2
  \/ rest = <<"pool", "conv1", "conv3">> /\ n = 3 /\ shown = 2

NeckInv ==
  /\ pc \in {"embed", "window", "attend", "merge"} => todo = <<>>
  /\ pc = "neck" /\ todo # <<>> /\ ~ (program = "sam3" /\ NextLevel < 2) =>
       \E shown \in 0 .. 3, chans \in {Heads, NeckChannels} :
         /\ Way(todo, NextLevel, shown) /\ Shows(work, shown, chans)
         /\ todo = <<"conv3">> => chans = NeckChannels
  /\ PyramidInPlace

LEMMA ShowsOn ==
  ASSUME NEW t, NEW level \in 0 .. 3, NEW chans \in Nat \ {0}, Shows(t, level, chans)
  PROVE  Shows(Apply("conv1", t), level, NeckChannels)
<1> DEFINE f == Apply("conv1", t)
<1>1. Padded("conv1", 0)
  BY DEF Padded
<1>2. Convolved(f, level, 0, chans)
  BY <1>1, ConvShows
<1> HIDE DEF f
<1>3. ASSUME NEW x \in 0 .. SideOf(level) - 1, NEW y \in 0 .. SideOf(level) - 1, NEW c \in 0 .. NeckChannels - 1
      PROVE  /\ IsPixel(At(f, x, y, c, 0)) /\ At(f, x, y, c, 0).at = PatchesUnder(level, y, x)
             /\ At(f, x, y, c, 0).taps = {PathTo(level, y, x)} /\ At(f, x, y, c, 0).chan = c
  BY <1>2 DEF Convolved, IsPixel, Seen
<1> QED
  BY <1>2, <1>3 DEF Convolved, Shows, f

LEMMA PlacedBy ==
  ASSUME NEW t, NEW level \in 0 .. 3, Shows(t, level, NeckChannels)
  PROVE  InPlace([level |-> level, map |-> Apply("conv3", t)])
<1> DEFINE f == Apply("conv3", t)  n == SideOf(level)
<1>1. Padded("conv3", 1) /\ NeckChannels \in Nat \ {0}
  BY SideIs DEF Padded
<1>2. /\ f.ne = <<n, n, NeckChannels, 1>>
      /\ \A x, y \in 0 .. n - 1, c \in 0 .. NeckChannels - 1 :
           At(f, x, y, c, 0) = Seen(level, 1, NeckChannels, x, y, c)
  <2>1. Convolved(f, level, 1, NeckChannels)
    BY <1>1, ConvShows
  <2> QED
    BY <2>1 DEF Convolved
<1>3. ASSUME NEW x, NEW y PROVE RingOf(level, 1, y, x)
         = {<<k, PatchesUnder(level, y + k[1] - 1, x + k[2] - 1)>> :
              k \in {tap \in (0 .. 2) \X (0 .. 2) : y + tap[1] - 1 \in 0 .. n - 1 /\ x + tap[2] - 1 \in 0 .. n - 1}}
  <2>1. 2 * 1 = 2
    OBVIOUS
  <2> QED
    BY <2>1 DEF RingOf, TapsIn
<1> HIDE DEF f, n
<1>4. ASSUME NEW x \in 0 .. n - 1, NEW y \in 0 .. n - 1, NEW c \in 0 .. NeckChannels - 1
      PROVE  At(f, x, y, c, 0) = PixelInPlace(level, n, y, x, c)
  BY <1>2, <1>3 DEF PixelInPlace, Seen
<1>5. n = IF level = 3 THEN Grid \div 2 ELSE Grid * PerPatch(level)
  BY DEF n, SideOf
<1> QED
  BY <1>2, <1>4, <1>5 DEF InPlace, f

(* One step of a level, on the way or the last.                            *)
LEMMA WayGoesOn ==
  ASSUME NEW rest, NEW n \in 0 .. 3, NEW t, NEW shown \in 0 .. 3, NEW chans \in {Heads, NeckChannels},
         Way(rest, n, shown), Shows(t, shown, chans), rest = <<"conv3">> => chans = NeckChannels
  PROVE  /\ Len(rest) > 1 => \E later \in 0 .. 3, channels \in {Heads, NeckChannels} :
              /\ Way(Tail(rest), n, later) /\ Shows(Apply(Head(rest), t), later, channels)
              /\ Tail(rest) = <<"conv3">> => channels = NeckChannels
         /\ Len(rest) = 1 => InPlace([level |-> n, map |-> Apply(Head(rest), t)])
<1>0. chans \in Nat \ {0} /\ Heads \in Nat \ {0} /\ NeckChannels \in Nat \ {0}
  BY SideIs, Sizes
<1>1. CASE rest = <<"conv3">> /\ shown = n
  <2>1. Len(rest) = 1 /\ Head(rest) = "conv3" /\ ~ Len(rest) > 1
    BY <1>1
  <2>2. InPlace([level |-> n, map |-> Apply("conv3", t)])
    BY <1>1, PlacedBy
  <2> QED
    BY <2>1, <2>2
<1>2. CASE rest = <<"conv1", "conv3">> /\ shown = n
  <2>1. Len(rest) = 2 /\ Head(rest) = "conv1" /\ Tail(rest) = <<"conv3">>
    BY <1>2
  <2>2. Shows(Apply(Head(rest), t), n, NeckChannels)
    BY <1>0, <1>2, <2>1, ShowsOn
  <2>3. Way(Tail(rest), n, n)
    BY <2>1 DEF Way
  <2> QED
    BY <2>1, <2>2, <2>3
<1>3. CASE rest = <<"convT", "conv1", "conv3">> /\ n \in 0 .. 1 /\ shown = n + 1
  <2>1. Len(rest) = 3 /\ Head(rest) = "convT" /\ Tail(rest) = <<"conv1", "conv3">>
    BY <1>3
  <2>2. shown \in 1 .. 2 /\ shown - 1 = n
    BY <1>3
  <2>3. Shows(Apply(Head(rest), t), n, NeckChannels)
    BY <1>0, <2>1, <2>2, ConvTShows
  <2>4. Way(Tail(rest), n, n) /\ Tail(rest) # <<"conv3">>
    BY <2>1 DEF Way
  <2> QED
    BY <2>1, <2>3, <2>4
<1>4. CASE rest = <<"convT", "convT", "conv1", "conv3">> /\ n = 0 /\ shown = 2
  <2>1. Len(rest) = 4 /\ Head(rest) = "convT" /\ Tail(rest) = <<"convT", "conv1", "conv3">>
    BY <1>4
  <2>2. shown \in 1 .. 2 /\ shown - 1 = 1
    BY <1>4
  <2>3. Shows(Apply(Head(rest), t), 1, NeckChannels)
    BY <1>0, <2>1, <2>2, ConvTShows
  <2>4. Way(Tail(rest), n, 1) /\ Tail(rest) # <<"conv3">>
    BY <1>4, <2>1 DEF Way
  <2> QED
    BY <2>1, <2>3, <2>4
<1>5. CASE rest = <<"pool", "conv1", "conv3">> /\ n = 3 /\ shown = 2
  <2>1. Len(rest) = 3 /\ Head(rest) = "pool" /\ Tail(rest) = <<"conv1", "conv3">>
    BY <1>5
  <2>2. Shows(Apply(Head(rest), t), 3, chans)
    BY <1>0, <1>5, <2>1, PoolShows
  <2>3. Way(Tail(rest), n, 3) /\ Tail(rest) # <<"conv3">>
    BY <1>5, <2>1 DEF Way
  <2> QED
    BY <2>1, <2>2, <2>3
<1> QED
  BY <1>1, <1>2, <1>3, <1>4, <1>5 DEF Way

LEMMA WayBegins ==
  ASSUME NEW n \in 0 .. 3, program \in {"instructsam", "sam3"}, ~ (program = "sam3" /\ n < 2)
  PROVE  Way(Steps(n), n, 2) /\ Steps(n) # <<"conv3">>
<1>1. CASE n = 0
  BY <1>1 DEF Steps, Way
<1>2. CASE n = 1
  BY <1>2 DEF Steps, Way
<1>3. CASE n = 2
  BY <1>3 DEF Steps, Way
<1>4. CASE n = 3
  BY <1>4 DEF Steps, Way
<1> QED
  BY <1>1, <1>2, <1>3, <1>4

LEMMA NeckStays ==
  ASSUME NeckInv, UNCHANGED <<choiceVars, outputs>>,
         pc' = "neck" /\ todo' # <<>> => pc = "neck" /\ UNCHANGED <<work, todo>>,
         pc' \in {"embed", "window", "attend", "merge"} => todo' = <<>>
  PROVE  NeckInv'
<1>1. NextLevel' = NextLevel /\ program' = program
  BY DEF NextLevel, choiceVars
<1>2. PyramidInPlace'
  BY <1>1 DEF NeckInv, PyramidInPlace, ByDeconv
<1> QED
  BY <1>1, <1>2 DEF NeckInv

LEMMA NeckStep ==
  ASSUME EndInv, TrunkInv, NeckInv, [Next]_vars
  PROVE  NeckInv'
<1>1. CASE OpenGraph \/ TensorMissing \/ ComputeFails \/ OperationFails
  <2>1. /\ UNCHANGED <<choiceVars, outputs>>
        /\ UNCHANGED <<pc, work, todo>> \/ pc' = "failed"
    BY <1>1 DEF OpenGraph, TensorMissing, ComputeFails, OperationFails, Fail
  <2> QED
    BY <2>1, NeckStays DEF NeckInv
<1>2. CASE Embed \/ WindowRows \/ Attend
  <2>1. UNCHANGED <<choiceVars, outputs, todo>> /\ pc' # "neck" /\ pc \in {"embed", "window", "attend"}
    BY <1>2 DEF Embed, WindowRows, Attend, Ready
  <2> QED
    BY <2>1, NeckStays DEF NeckInv
<1>3. CASE Merge
  <2>1. UNCHANGED <<choiceVars, outputs, todo>> /\ pc = "merge"
    BY <1>3 DEF Merge, Ready
  <2> QED
    BY <2>1, NeckStays DEF NeckInv
<1>4. CASE BeginLevel
  <2>1. /\ pc = "neck" /\ pc' = "neck" /\ work' = Features /\ todo' = Steps(NextLevel)
        /\ UNCHANGED <<choiceVars, outputs>>
    BY <1>4 DEF BeginLevel, Ready
  <2>2. NextLevel' = NextLevel /\ program' = program
    BY <2>1 DEF NextLevel, choiceVars
  <2>3. PyramidInPlace'
    BY <2>1, <2>2 DEF NeckInv, PyramidInPlace, ByDeconv
  <2>4. NextLevel \in 0 .. 3
    BY <2>1, NextLevelIs DEF EndInv, LevelInv
  <2>5. ASSUME ~ (program = "sam3" /\ NextLevel < 2)
        PROVE  /\ Way(todo', NextLevel, 2) /\ Shows(work', 2, Heads) /\ todo' # <<"conv3">>
    <3>1. program \in {"instructsam", "sam3"} /\ hidden = TrunkRows(layer)
      BY <2>1 DEF TrunkInv, RowsInv
    <3>2. Shows(Features, 2, Heads)
      BY <3>1, FeaturesShow
    <3> QED
      BY <2>1, <2>4, <2>5, <3>1, <3>2, WayBegins
  <2> QED
    BY <2>1, <2>2, <2>3, <2>5 DEF NeckInv
<1>5. CASE LevelStep
  <2> DEFINE made == Apply(Head(todo), work)
             new == [level |-> NextLevel, map |-> made]
             last == Len(todo) = 1
  <2>1. /\ pc = "neck" /\ pc' \in {"neck", "done"} /\ todo # <<>> /\ todo' = Tail(todo)
        /\ UNCHANGED choiceVars
    BY <1>5 DEF LevelStep, Ready
  <2>2. /\ Len(todo) \in Nat \ {0} /\ (last => todo' = <<>>) /\ (Len(todo) > 1 \/ last)
        /\ NextLevel \in 0 .. 3
    <3>1. Len(todo) \in Nat \ {0} /\ (last => todo' = <<>>)
      BY <2>1, EmptySeq, HeadTailProperties DEF EndInv, LevelInv
    <3>2. ASSUME NEW n \in Nat \ {0} PROVE n > 1 \/ n = 1
      OBVIOUS
    <3>3. Len(todo) > 1 \/ last
      <4> DEFINE n == Len(todo)
      <4>1. n \in Nat \ {0}
        BY <3>1
      <4> HIDE DEF n
      <4>2. n > 1 \/ n = 1
        BY <3>2, <4>1
      <4> QED
        BY <4>2 DEF n
    <3> QED
      BY <2>1, <3>1, <3>3, NextLevelIs DEF EndInv, LevelInv
  <2>3. IF Len(todo) > 1 THEN work' = made /\ outputs' = outputs ELSE outputs' = Append(outputs, new)
    BY <1>5 DEF LevelStep
  <2>4. ASSUME ~ (program = "sam3" /\ NextLevel < 2)
        PROVE  /\ Len(todo) > 1 => \E later \in 0 .. 3, channels \in {Heads, NeckChannels} :
                    /\ Way(todo', NextLevel, later) /\ Shows(made, later, channels)
                    /\ todo' = <<"conv3">> => channels = NeckChannels
               /\ last => InPlace(new)
    <3>1. PICK shown \in 0 .. 3, chans \in {Heads, NeckChannels} :
            /\ Way(todo, NextLevel, shown) /\ Shows(work, shown, chans)
            /\ todo = <<"conv3">> => chans = NeckChannels
      BY <2>1, <2>4 DEF NeckInv
    <3> QED
      BY <2>1, <2>2, <3>1, WayGoesOn
  <2> HIDE DEF made
  <2>5. CASE Len(todo) > 1
    <3>1. NextLevel' = NextLevel /\ program' = program /\ outputs' = outputs /\ work' = made
      BY <2>1, <2>3, <2>5 DEF NextLevel, choiceVars
    <3>2. PyramidInPlace'
      BY <3>1 DEF NeckInv, PyramidInPlace, ByDeconv
    <3> QED
      BY <2>1, <2>4, <2>5, <3>1, <3>2 DEF NeckInv
  <2>6. CASE last
    <3>1. outputs' = Append(outputs, new) /\ program' = program /\ todo' = <<>>
      BY <2>1, <2>2, <2>3, <2>6 DEF choiceVars
    <3>2. ByDeconv(new) \/ InPlace(new)
      BY <2>4, <2>6 DEF ByDeconv
    <3> HIDE DEF new
    <3>3. PICK S : outputs \in Seq(S)
      BY DEF EndInv, LevelInv
    <3>4. \A i \in DOMAIN outputs' : outputs'[i] = new \/ (i \in DOMAIN outputs /\ outputs'[i] = outputs[i])
      BY <3>1, <3>3, AppendProperties, LenProperties
    <3>5. PyramidInPlace'
      <4> SUFFICES ASSUME NEW i \in DOMAIN outputs'
                   PROVE  (program' = "sam3" /\ outputs'[i].level < 2) \/ InPlace(outputs'[i])
        BY DEF PyramidInPlace, ByDeconv, InPlace
      <4> QED
        BY <3>1, <3>2, <3>4 DEF NeckInv, PyramidInPlace, ByDeconv
    <3> QED
      BY <2>1, <3>1, <3>5 DEF NeckInv
  <2>7. Len(todo) > 1 \/ last
    BY <2>2
  <2> QED
    BY <2>5, <2>6, <2>7
<1>6. CASE UNCHANGED vars
  <2>1. UNCHANGED <<choiceVars, outputs, pc, work, todo>>
    BY <1>6 DEF vars, choiceVars
  <2> QED
    BY <2>1, NeckStays DEF NeckInv
<1> QED
  BY <1>1, <1>2, <1>3, <1>4, <1>5, <1>6 DEF Next, Finished

(* Every level made by transposed convolutions, by pooling or by none has    *)
(* its pixels in place, whichever program and whichever levels asked for.   *)
THEOREM PyramidAlwaysInPlace == Spec => []PyramidInPlace
<1> DEFINE Inv == EndInv /\ TrunkInv /\ NeckInv
<1>1. Init => Inv
  <2>1. Init => EndInv
    BY EndInvBegins
  <2>2. Init => TrunkInv
    BY TrunkBegins
  <2>3. Init => NeckInv
    BY DEF Init, NeckInv, PyramidInPlace
  <2> QED
    BY <2>1, <2>2, <2>3
<1>2. Inv /\ [Next]_vars => Inv'
  BY GraphStep, LevelsStep, TrunkStep, NeckStep DEF EndInv
<1>3. Inv => PyramidInPlace
  BY DEF NeckInv
<1> QED
  BY <1>1, <1>2, <1>3, PTL DEF Spec
=============================================================================
