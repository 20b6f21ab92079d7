------------------------------- MODULE Lemmas -------------------------------
(***************************************************************************)
(* What the proofs about several components rest on: induction and loops   *)
(* over the naturals, and where the operators of GgmlTensor put elements.  *)
(***************************************************************************)
EXTENDS Integers, Sequences, GgmlTensor, TLAPS, WellFoundedInduction

-----------------------------------------------------------------------------
(***************************************************************************)
(* Induction and recursion on the naturals.                                *)
(***************************************************************************)

(* Induction over the naturals, for a set instead of a predicate: what has  *)
(* 0 in it and with each number the next one has them all.                  *)
Less == {ss \in Nat \X Nat : ss[1] < ss[2]}

LEMMA LessWellFounded == IsWellFoundedOn(Less, Nat)
BY NatLessThanWellFounded DEF OpToRel, Less

LEMMA SetInduction ==
  ASSUME NEW T, 0 \in T, \A n \in Nat : n \in T => n + 1 \in T
  PROVE  Nat \subseteq T
<1>1. SUFFICES ASSUME Nat \ T # {} PROVE FALSE
  OBVIOUS
<1>2. PICK m \in Nat \ T : \A k \in Nat \ T : <<k, m>> \notin Less
  BY <1>1, LessWellFounded, WFMin
<1>3. m \in Nat /\ m # 0
  BY <1>2
<1>4. m - 1 \in Nat /\ (m - 1) + 1 = m /\ m - 1 < m
  BY <1>3
<1>5. <<m - 1, m>> \in Less
  BY <1>3, <1>4 DEF Less
<1>6. m - 1 \in T
  BY <1>2, <1>4, <1>5
<1>7. QED
  BY <1>2, <1>4, <1>6

LEMMA UpTo ==
  ASSUME NEW n \in Nat, NEW T, 0 \in T, \A i \in 1 .. n : i - 1 \in T => i \in T
  PROVE  0 .. n \subseteq T
<1> DEFINE U == {i \in Nat : i <= n => i \in T}
<1>1. 0 \in U
  OBVIOUS
<1>2. ASSUME NEW i \in Nat, i \in U PROVE i + 1 \in U
  <2>1. SUFFICES ASSUME i + 1 <= n PROVE i + 1 \in T
    OBVIOUS
  <2>2. i + 1 \in 1 .. n /\ (i + 1) - 1 = i /\ i <= n
    BY <2>1
  <2>3. QED
    BY <1>2, <2>2
<1>3. Nat \subseteq U
  <2> HIDE DEF U
  <2>1. QED
    BY <1>1, <1>2, SetInduction
<1>4. QED
  BY <1>3

(* A loop of n turns, f one turn of it, has a value after each of them.      *)
Turns(S, f, n) == \A x \in S, i \in 1 .. n : f[<<x, i>>] \in S

Looped(h, S, first, f, n) ==
  h \in [0 .. n -> S] /\ h[0] = first /\ \A i \in 1 .. n : h[i] = f[<<h[i - 1], i>>]

LEMMA LoopRuns ==
  ASSUME NEW n \in Nat, NEW S, NEW first, first \in S, NEW f, Turns(S, f, n)
  PROVE  \E h : Looped(h, S, first, f, n)
<1> DEFINE T == {k \in 0 .. n : \E h \in [0 .. k -> S] :
                   h[0] = first /\ \A i \in 1 .. k : h[i] = f[<<h[i - 1], i>>]}
<1>1. 0 \in T
  <2> DEFINE h == [i \in 0 .. 0 |-> first]
  <2>1. h \in [0 .. 0 -> S] /\ h[0] = first /\ \A i \in 1 .. 0 : h[i] = f[<<h[i - 1], i>>]
    OBVIOUS
  <2> HIDE DEF h
  <2>2. QED
    BY <2>1
<1>2. ASSUME NEW k \in 1 .. n, k - 1 \in T PROVE k \in T
  <2>1. k - 1 \in Nat /\ k \in Nat /\ k \in 0 .. n
    OBVIOUS
  <2>2. PICK h \in [0 .. k - 1 -> S] :
          h[0] = first /\ \A i \in 1 .. k - 1 : h[i] = f[<<h[i - 1], i>>]
    BY <1>2
  <2> DEFINE more == [i \in 0 .. k |-> IF i = k THEN f[<<h[k - 1], k>>] ELSE h[i]]
  <2>3. h[k - 1] \in S
    BY <2>1, <2>2
  <2>4. f[<<h[k - 1], k>>] \in S
    BY <2>3 DEF Turns
  <2>5. \A i \in 0 .. k : i = k \/ i \in 0 .. k - 1
    BY <2>1
  <2>6. more \in [0 .. k -> S]
    BY <2>2, <2>4, <2>5
  <2>7. /\ \A i \in 0 .. k - 1 : i # k /\ more[i] = h[i]
        /\ more[k] = f[<<h[k - 1], k>>]
    BY <2>1
  <2> HIDE DEF more
  <2>8. more[0] = first
    BY <2>1, <2>2, <2>7
  <2>9. ASSUME NEW i \in 1 .. k PROVE more[i] = f[<<more[i - 1], i>>]
    <3>1. CASE i = k
      BY <2>1, <2>7, <3>1
    <3>2. CASE i # k
      <4>1. i \in 1 .. k - 1 /\ i - 1 \in 0 .. k - 1 /\ i \in 0 .. k - 1
        BY <2>1, <3>2
      <4>2. QED
        BY <2>2, <2>7, <4>1
    <3>3. QED
      BY <3>1, <3>2
  <2>10. QED
    BY <2>1, <2>6, <2>8, <2>9
<1>3. n \in T
  <2> HIDE DEF T
  <2>1. QED
    BY <1>1, <1>2, UpTo
<1>4. QED
  BY <1>3 DEF Looped

-----------------------------------------------------------------------------
(***************************************************************************)
(* Places in memory.  Four indices stand for one place, and a place for    *)
(* four indices; what an operator of GgmlTensor puts where follows.        *)
(***************************************************************************)

LEMMA DivMod == ASSUME NEW m \in Nat \ {0}, NEW q \in Nat, NEW r \in 0 .. m - 1
  PROVE (r + m * q) \div m = q /\ (r + m * q) % m = r /\ r + m * q \in Nat
OBVIOUS
LEMMA Below ==
  ASSUME NEW m \in Nat \ {0}, NEW n \in Nat, NEW r \in 0 .. m - 1, NEW q \in 0 .. n - 1
  PROVE  r + m * q \in 0 .. m * n - 1
OBVIOUS
LEMMA DivDiv == ASSUME NEW a \in Nat, NEW m \in Nat \ {0}, NEW n \in Nat \ {0}
  PROVE a \div (m * n) = (a \div m) \div n
OBVIOUS
LEMMA Prod == ASSUME NEW m \in Nat \ {0}, NEW n \in Nat \ {0}
  PROVE m * n \in Nat \ {0}
OBVIOUS
LEMMA Within == ASSUME NEW m \in Nat \ {0}, NEW n \in Nat, NEW a \in 0 .. m * n - 1
  PROVE a \div m \in 0 .. n - 1 /\ a % m \in 0 .. m - 1 /\ a = (a % m) + m * (a \div m)
OBVIOUS

(* The extents of a tensor, and the place of four indices.                 *)
Shapes == [1 .. 4 -> Nat \ {0}]

Flat(ne, i0, i1, i2, i3) == i0 + ne[1] * (i1 + ne[2] * (i2 + ne[3] * i3))

LEMMA FlatOf ==
  ASSUME NEW ne \in Shapes, NEW i0 \in 0 .. ne[1] - 1, NEW i1 \in 0 .. ne[2] - 1,
         NEW i2 \in 0 .. ne[3] - 1, NEW i3 \in 0 .. ne[4] - 1
  PROVE  LET i == Flat(ne, i0, i1, i2, i3)
         IN /\ i \in 0 .. Size(ne) - 1
            /\ i % ne[1] = i0 /\ (i \div ne[1]) % ne[2] = i1
            /\ (i \div (ne[1] * ne[2])) % ne[3] = i2 /\ i \div (ne[1] * ne[2] * ne[3]) = i3
<1> DEFINE n0 == ne[1]  n1 == ne[2]  n2 == ne[3]  n3 == ne[4]
           k2 == i2 + n2 * i3  k1 == i1 + n1 * k2  k0 == i0 + n0 * k1
<1>1. /\ n0 \in Nat \ {0} /\ n1 \in Nat \ {0} /\ n2 \in Nat \ {0} /\ n3 \in Nat \ {0}
      /\ i0 \in 0 .. n0 - 1 /\ i1 \in 0 .. n1 - 1 /\ i2 \in 0 .. n2 - 1 /\ i3 \in 0 .. n3 - 1
      /\ i3 \in Nat
  BY DEF Shapes
<1> HIDE DEF n0, n1, n2, n3
<1>2. n1 * (n2 * n3) \in Nat /\ n2 * n3 \in Nat /\ n0 * n1 \in Nat \ {0}
  BY <1>1
<1>3. k2 \in 0 .. n2 * n3 - 1 /\ k2 % n2 = i2 /\ k2 \div n2 = i3 /\ k2 \in Nat
  <2>1. k2 \in 0 .. n2 * n3 - 1
    BY <1>1, Below
  <2>2. k2 % n2 = i2 /\ k2 \div n2 = i3 /\ k2 \in Nat
    BY <1>1, DivMod
  <2> QED
    BY <2>1, <2>2
<1>4. k1 \in 0 .. n1 * (n2 * n3) - 1 /\ k1 % n1 = i1 /\ k1 \div n1 = k2 /\ k1 \in Nat
  <2> HIDE DEF k2
  <2> QED BY <1>1, <1>2, <1>3, DivMod, Below
<1>5. k0 \in 0 .. n0 * (n1 * (n2 * n3)) - 1 /\ k0 % n0 = i0 /\ k0 \div n0 = k1 /\ k0 \in Nat
  <2> HIDE DEF k1
  <2> QED BY <1>1, <1>2, <1>4, DivMod, Below
<1>6. k0 \div (n0 * n1) = k1 \div n1 /\ k0 \div (n0 * n1 * n2) = (k1 \div n1) \div n2
  <2> HIDE DEF k0, k1, k2
  <2>1. k0 \div (n0 * n1) = (k0 \div n0) \div n1
    BY <1>1, <1>5, DivDiv
  <2>2. k0 \div (n0 * n1 * n2) = (k0 \div (n0 * n1)) \div n2
    BY <1>1, <1>2, <1>5, DivDiv
  <2> QED
    BY <1>5, <2>1, <2>2
<1>7. n0 * (n1 * (n2 * n3)) = Size(ne)
  BY <1>1 DEF Size, n0, n1, n2, n3
<1>8. Flat(ne, i0, i1, i2, i3) = k0
  BY DEF Flat, n0, n1, n2, n3
<1> HIDE DEF k0, k1, k2
<1> QED
  BY <1>3, <1>4, <1>5, <1>6, <1>7, <1>8 DEF n0, n1, n2, n3

LEMMA CellOf ==
  ASSUME NEW ne \in Shapes, NEW i \in 0 .. Size(ne) - 1
  PROVE  /\ i % ne[1] \in 0 .. ne[1] - 1 /\ (i \div ne[1]) % ne[2] \in 0 .. ne[2] - 1
         /\ (i \div (ne[1] * ne[2])) % ne[3] \in 0 .. ne[3] - 1
         /\ i \div (ne[1] * ne[2] * ne[3]) \in 0 .. ne[4] - 1
         /\ i = Flat(ne, i % ne[1], (i \div ne[1]) % ne[2], (i \div (ne[1] * ne[2])) % ne[3],
                     i \div (ne[1] * ne[2] * ne[3]))
<1> DEFINE n0 == ne[1]  n1 == ne[2]  n2 == ne[3]  n3 == ne[4]
<1>1. n0 \in Nat \ {0} /\ n1 \in Nat \ {0} /\ n2 \in Nat \ {0} /\ n3 \in Nat \ {0}
  BY DEF Shapes
<1>2. Size(ne) = n0 * (n1 * (n2 * n3)) /\ n2 * n3 \in Nat \ {0} /\ n1 * (n2 * n3) \in Nat \ {0}
      /\ n0 * n1 \in Nat \ {0} /\ i \in Nat
  BY <1>1 DEF Size
<1> HIDE DEF n0, n1, n2, n3
<1>3. i \div n0 \in 0 .. n1 * (n2 * n3) - 1 /\ i % n0 \in 0 .. n0 - 1 /\ i = (i % n0) + n0 * (i \div n0)
  BY <1>1, <1>2, Within
<1> DEFINE k1 == i \div n0  k2 == k1 \div n1
<1>4. k2 \in 0 .. n2 * n3 - 1 /\ k1 % n1 \in 0 .. n1 - 1 /\ k1 = (k1 % n1) + n1 * k2
  BY <1>1, <1>2, <1>3, Within
<1>5. k2 \div n2 \in 0 .. n3 - 1 /\ k2 % n2 \in 0 .. n2 - 1 /\ k2 = (k2 % n2) + n2 * (k2 \div n2)
  BY <1>1, <1>2, <1>4, Within
<1>6. i \div (n0 * n1) = k2 /\ i \div (n0 * n1 * n2) = k2 \div n2
  <2>1. i \div (n0 * n1) = k2
    BY <1>1, <1>2, DivDiv
  <2>2. i \div (n0 * n1 * n2) = (i \div (n0 * n1)) \div n2
    BY <1>1, <1>2, DivDiv
  <2> QED
    BY <2>1, <2>2
<1> QED
  BY <1>3, <1>4, <1>5, <1>6 DEF Flat, n0, n1, n2, n3

IsTensor(t) == t = [ne |-> t.ne, data |-> t.data]

LEMMA AtFlat ==
  ASSUME NEW t, NEW i0, NEW i1, NEW i2, NEW i3
  PROVE  At(t, i0, i1, i2, i3) = t.data[Flat(t.ne, i0, i1, i2, i3)]
BY DEF At, Flat

(* Permute carries indices along with their axes ...                       *)
LEMMA Permute0213 ==
  ASSUME NEW t, t.ne \in Shapes
  PROVE  LET u == Permute(t, 0, 2, 1, 3)
         IN /\ IsTensor(u) /\ u.ne = <<t.ne[1], t.ne[3], t.ne[2], t.ne[4]>> /\ u.ne \in Shapes
            /\ \A i0 \in 0 .. u.ne[1] - 1, i1 \in 0 .. u.ne[2] - 1,
                  i2 \in 0 .. u.ne[3] - 1, i3 \in 0 .. u.ne[4] - 1 :
                 At(u, i0, i1, i2, i3) = At(t, i0, i2, i1, i3)
<1> DEFINE u == Permute(t, 0, 2, 1, 3)
           ne == <<t.ne[1], t.ne[3], t.ne[2], t.ne[4]>>
<1>1. ne \in Shapes
  BY DEF Shapes
<1>2. u.ne = ne /\ IsTensor(u)
  BY DEF Permute, Tensor, IsTensor
<1>3. u.data = [i \in 0 .. Size(ne) - 1 |->
         At(t, i % ne[1], (i \div (ne[1] * ne[2])) % ne[3],
            (i \div ne[1]) % ne[2], i \div (ne[1] * ne[2] * ne[3]))]
  <2> DEFINE axis == <<0, 2, 1, 3>>
             m == [k \in 1 .. 4 |-> t.ne[CHOOSE x \in 1 .. 4 : axis[x] = k - 1]]
             From(j0, j1, j2, j3) ==
               LET j == <<j0, j1, j2, j3>> IN At(t, j[0 + 1], j[2 + 1], j[1 + 1], j[3 + 1])
  <2>1. u = Tensor(m, From)
    BY DEF Permute
  <2>2. u.ne = m
    BY DEF Permute, Tensor
  <2>3. \A j0, j1, j2, j3 : From(j0, j1, j2, j3) = At(t, j0, j2, j1, j3)
    OBVIOUS
  <2> HIDE DEF u, m, From, ne
  <2>4. u.data = [i \in 0 .. Size(ne) - 1 |->
           From(i % ne[1], (i \div ne[1]) % ne[2], (i \div (ne[1] * ne[2])) % ne[3],
                i \div (ne[1] * ne[2] * ne[3]))]
    BY <1>2, <2>1, <2>2 DEF Tensor
  <2> QED
    BY <2>3, <2>4
<1> HIDE DEF u, ne
<1>4. ASSUME NEW i0 \in 0 .. ne[1] - 1, NEW i1 \in 0 .. ne[2] - 1,
             NEW i2 \in 0 .. ne[3] - 1, NEW i3 \in 0 .. ne[4] - 1
      PROVE  At(u, i0, i1, i2, i3) = At(t, i0, i2, i1, i3)
  <2> DEFINE i == Flat(ne, i0, i1, i2, i3)
  <2>1. /\ i \in 0 .. Size(ne) - 1
        /\ i % ne[1] = i0 /\ (i \div ne[1]) % ne[2] = i1
        /\ (i \div (ne[1] * ne[2])) % ne[3] = i2 /\ i \div (ne[1] * ne[2] * ne[3]) = i3
    BY <1>1, FlatOf
  <2>2. At(u, i0, i1, i2, i3) = u.data[i]
    BY <1>2, AtFlat
  <2> HIDE DEF i
  <2> QED
    BY <1>3, <2>1, <2>2
<1> QED
  BY <1>1, <1>2, <1>4 DEF u, ne

LEMMA Permute0132 ==
  ASSUME NEW t, t.ne \in Shapes
  PROVE  LET u == Permute(t, 0, 1, 3, 2)
         IN /\ IsTensor(u) /\ u.ne = <<t.ne[1], t.ne[2], t.ne[4], t.ne[3]>> /\ u.ne \in Shapes
            /\ \A i0 \in 0 .. u.ne[1] - 1, i1 \in 0 .. u.ne[2] - 1,
                  i2 \in 0 .. u.ne[3] - 1, i3 \in 0 .. u.ne[4] - 1 :
                 At(u, i0, i1, i2, i3) = At(t, i0, i1, i3, i2)
<1> DEFINE u == Permute(t, 0, 1, 3, 2)
           ne == <<t.ne[1], t.ne[2], t.ne[4], t.ne[3]>>
<1>1. ne \in Shapes
  BY DEF Shapes
<1>2. u.ne = ne /\ IsTensor(u)
  BY DEF Permute, Tensor, IsTensor
<1>3. u.data = [i \in 0 .. Size(ne) - 1 |->
         At(t, i % ne[1], (i \div ne[1]) % ne[2],
            i \div (ne[1] * ne[2] * ne[3]), (i \div (ne[1] * ne[2])) % ne[3])]
  <2> DEFINE axis == <<0, 1, 3, 2>>
             m == [k \in 1 .. 4 |-> t.ne[CHOOSE x \in 1 .. 4 : axis[x] = k - 1]]
             From(j0, j1, j2, j3) ==
               LET j == <<j0, j1, j2, j3>> IN At(t, j[0 + 1], j[1 + 1], j[3 + 1], j[2 + 1])
  <2>1. u = Tensor(m, From)
    BY DEF Permute
  <2>2. u.ne = m
    BY DEF Permute, Tensor
  <2>3. \A j0, j1, j2, j3 : From(j0, j1, j2, j3) = At(t, j0, j1, j3, j2)
    OBVIOUS
  <2> HIDE DEF u, m, From, ne
  <2>4. u.data = [i \in 0 .. Size(ne) - 1 |->
           From(i % ne[1], (i \div ne[1]) % ne[2], (i \div (ne[1] * ne[2])) % ne[3],
                i \div (ne[1] * ne[2] * ne[3]))]
    BY <1>2, <2>1, <2>2 DEF Tensor
  <2> QED
    BY <2>3, <2>4
<1> HIDE DEF u, ne
<1>4. ASSUME NEW i0 \in 0 .. ne[1] - 1, NEW i1 \in 0 .. ne[2] - 1,
             NEW i2 \in 0 .. ne[3] - 1, NEW i3 \in 0 .. ne[4] - 1
      PROVE  At(u, i0, i1, i2, i3) = At(t, i0, i1, i3, i2)
  <2> DEFINE i == Flat(ne, i0, i1, i2, i3)
  <2>1. /\ i \in 0 .. Size(ne) - 1
        /\ i % ne[1] = i0 /\ (i \div ne[1]) % ne[2] = i1
        /\ (i \div (ne[1] * ne[2])) % ne[3] = i2 /\ i \div (ne[1] * ne[2] * ne[3]) = i3
    BY <1>1, FlatOf
  <2>2. At(u, i0, i1, i2, i3) = u.data[i]
    BY <1>2, AtFlat
  <2> HIDE DEF i
  <2> QED
    BY <1>3, <2>1, <2>2
<1> QED
  BY <1>1, <1>2, <1>4 DEF u, ne

LEMMA Permute1203 ==
  ASSUME NEW t, t.ne \in Shapes
  PROVE  LET u == Permute(t, 1, 2, 0, 3)
         IN /\ IsTensor(u) /\ u.ne = <<t.ne[3], t.ne[1], t.ne[2], t.ne[4]>> /\ u.ne \in Shapes
            /\ \A i0 \in 0 .. u.ne[1] - 1, i1 \in 0 .. u.ne[2] - 1,
                  i2 \in 0 .. u.ne[3] - 1, i3 \in 0 .. u.ne[4] - 1 :
                 At(u, i0, i1, i2, i3) = At(t, i1, i2, i0, i3)
<1> DEFINE u == Permute(t, 1, 2, 0, 3)
           ne == <<t.ne[3], t.ne[1], t.ne[2], t.ne[4]>>
<1>1. ne \in Shapes
  BY DEF Shapes
<1>2. u.ne = ne /\ IsTensor(u)
  BY DEF Permute, Tensor, IsTensor
<1>3. u.data = [i \in 0 .. Size(ne) - 1 |->
         At(t, (i \div ne[1]) % ne[2], (i \div (ne[1] * ne[2])) % ne[3],
            i % ne[1], i \div (ne[1] * ne[2] * ne[3]))]
  <2> DEFINE axis == <<1, 2, 0, 3>>
             m == [k \in 1 .. 4 |-> t.ne[CHOOSE x \in 1 .. 4 : axis[x] = k - 1]]
             From(j0, j1, j2, j3) ==
               LET j == <<j0, j1, j2, j3>> IN At(t, j[1 + 1], j[2 + 1], j[0 + 1], j[3 + 1])
  <2>1. u = Tensor(m, From)
    BY DEF Permute
  <2>2. u.ne = m
    BY DEF Permute, Tensor
  <2>3. \A j0, j1, j2, j3 : From(j0, j1, j2, j3) = At(t, j1, j2, j0, j3)
    OBVIOUS
  <2> HIDE DEF u, m, From, ne
  <2>4. u.data = [i \in 0 .. Size(ne) - 1 |->
           From(i % ne[1], (i \div ne[1]) % ne[2], (i \div (ne[1] * ne[2])) % ne[3],
                i \div (ne[1] * ne[2] * ne[3]))]
    BY <1>2, <2>1, <2>2 DEF Tensor
  <2> QED
    BY <2>3, <2>4
<1> HIDE DEF u, ne
<1>4. ASSUME NEW i0 \in 0 .. ne[1] - 1, NEW i1 \in 0 .. ne[2] - 1,
             NEW i2 \in 0 .. ne[3] - 1, NEW i3 \in 0 .. ne[4] - 1
      PROVE  At(u, i0, i1, i2, i3) = At(t, i1, i2, i0, i3)
  <2> DEFINE i == Flat(ne, i0, i1, i2, i3)
  <2>1. /\ i \in 0 .. Size(ne) - 1
        /\ i % ne[1] = i0 /\ (i \div ne[1]) % ne[2] = i1
        /\ (i \div (ne[1] * ne[2])) % ne[3] = i2 /\ i \div (ne[1] * ne[2] * ne[3]) = i3
    BY <1>1, FlatOf
  <2>2. At(u, i0, i1, i2, i3) = u.data[i]
    BY <1>2, AtFlat
  <2> HIDE DEF i
  <2> QED
    BY <1>3, <2>1, <2>2
<1> QED
  BY <1>1, <1>2, <1>4 DEF u, ne

LEMMA Permute2013 ==
  ASSUME NEW t, t.ne \in Shapes
  PROVE  LET u == Permute(t, 2, 0, 1, 3)
         IN /\ IsTensor(u) /\ u.ne = <<t.ne[2], t.ne[3], t.ne[1], t.ne[4]>> /\ u.ne \in Shapes
            /\ \A i0 \in 0 .. u.ne[1] - 1, i1 \in 0 .. u.ne[2] - 1,
                  i2 \in 0 .. u.ne[3] - 1, i3 \in 0 .. u.ne[4] - 1 :
                 At(u, i0, i1, i2, i3) = At(t, i2, i0, i1, i3)
<1> DEFINE u == Permute(t, 2, 0, 1, 3)
           ne == <<t.ne[2], t.ne[3], t.ne[1], t.ne[4]>>
<1>1. ne \in Shapes
  BY DEF Shapes
<1>2. u.ne = ne /\ IsTensor(u)
  BY DEF Permute, Tensor, IsTensor
<1>3. u.data = [i \in 0 .. Size(ne) - 1 |->
         At(t, (i \div (ne[1] * ne[2])) % ne[3], i % ne[1],
            (i \div ne[1]) % ne[2], i \div (ne[1] * ne[2] * ne[3]))]
  <2> DEFINE axis == <<2, 0, 1, 3>>
             m == [k \in 1 .. 4 |-> t.ne[CHOOSE x \in 1 .. 4 : axis[x] = k - 1]]
             From(j0, j1, j2, j3) ==
               LET j == <<j0, j1, j2, j3>> IN At(t, j[2 + 1], j[0 + 1], j[1 + 1], j[3 + 1])
  <2>1. u = Tensor(m, From)
    BY DEF Permute
  <2>2. u.ne = m
    BY DEF Permute, Tensor
  <2>3. \A j0, j1, j2, j3 : From(j0, j1, j2, j3) = At(t, j2, j0, j1, j3)
    OBVIOUS
  <2> HIDE DEF u, m, From, ne
  <2>4. u.data = [i \in 0 .. Size(ne) - 1 |->
           From(i % ne[1], (i \div ne[1]) % ne[2], (i \div (ne[1] * ne[2])) % ne[3],
                i \div (ne[1] * ne[2] * ne[3]))]
    BY <1>2, <2>1, <2>2 DEF Tensor
  <2> QED
    BY <2>3, <2>4
<1> HIDE DEF u, ne
<1>4. ASSUME NEW i0 \in 0 .. ne[1] - 1, NEW i1 \in 0 .. ne[2] - 1,
             NEW i2 \in 0 .. ne[3] - 1, NEW i3 \in 0 .. ne[4] - 1
      PROVE  At(u, i0, i1, i2, i3) = At(t, i2, i0, i1, i3)
  <2> DEFINE i == Flat(ne, i0, i1, i2, i3)
  <2>1. /\ i \in 0 .. Size(ne) - 1
        /\ i % ne[1] = i0 /\ (i \div ne[1]) % ne[2] = i1
        /\ (i \div (ne[1] * ne[2])) % ne[3] = i2 /\ i \div (ne[1] * ne[2] * ne[3]) = i3
    BY <1>1, FlatOf
  <2>2. At(u, i0, i1, i2, i3) = u.data[i]
    BY <1>2, AtFlat
  <2> HIDE DEF i
  <2> QED
    BY <1>3, <2>1, <2>2
<1> QED
  BY <1>1, <1>2, <1>4 DEF u, ne

(* ... and Reshape leaves every element where it is.                       *)
LEMMA ReshapeAt ==
  ASSUME NEW t, IsTensor(t), NEW ne
  PROVE  /\ IsTensor(Reshape(t, ne)) /\ Reshape(t, ne).ne = ne /\ Reshape(t, ne).data = t.data
         /\ \A i0, i1, i2, i3, j0, j1, j2, j3 :
              Flat(ne, j0, j1, j2, j3) = Flat(t.ne, i0, i1, i2, i3) =>
                At(Reshape(t, ne), j0, j1, j2, j3) = At(t, i0, i1, i2, i3)
<1>1. IsTensor(Reshape(t, ne)) /\ Reshape(t, ne).ne = ne /\ Reshape(t, ne).data = t.data
  BY DEF Reshape, IsTensor
<1> QED
  BY <1>1, AtFlat

(* Where an element that is read was put.                                  *)
LEMMA Lands ==
  ASSUME NEW t, t.ne \in Shapes, NEW i0 \in 0 .. t.ne[1] - 1, NEW i1 \in 0 .. t.ne[2] - 1,
         NEW i2 \in 0 .. t.ne[3] - 1, NEW i3 \in 0 .. t.ne[4] - 1
  PROVE  \E i \in 0 .. Size(t.ne) - 1 :
           /\ At(t, i0, i1, i2, i3) = t.data[i]
           /\ i % t.ne[1] = i0 /\ (i \div t.ne[1]) % t.ne[2] = i1
           /\ (i \div (t.ne[1] * t.ne[2])) % t.ne[3] = i2
           /\ i \div (t.ne[1] * t.ne[2] * t.ne[3]) = i3
<1> DEFINE ne == t.ne
           i == Flat(ne, i0, i1, i2, i3)
<1>1. /\ i \in 0 .. Size(ne) - 1
      /\ i % ne[1] = i0 /\ (i \div ne[1]) % ne[2] = i1
      /\ (i \div (ne[1] * ne[2])) % ne[3] = i2 /\ i \div (ne[1] * ne[2] * ne[3]) = i3
  BY FlatOf
<1>2. At(t, i0, i1, i2, i3) = t.data[i]
  BY AtFlat
<1> HIDE DEF i
<1> QED
  BY <1>1, <1>2
=============================================================================
