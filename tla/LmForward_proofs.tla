-------------------------- MODULE LmForward_proofs --------------------------
(***************************************************************************)
(* Proofs about the K/V cache of LmForward, for every number of layers and *)
(* queries, and every prefix and phrase.                                   *)
(***************************************************************************)
EXTENDS LmForward, Lemmas, SequenceTheorems

-----------------------------------------------------------------------------
(***************************************************************************)
(* Layers on states of any kind.                                           *)
(***************************************************************************)

LEMMA AttendType ==
  ASSUME NEW l \in Layers, NEW kvs \in Seq(States), Len(kvs) > 0
  PROVE  Attend(l, kvs) \in States
<1>1. CASE ~ Coherent(l, kvs)
  BY <1>1 DEF Attend, States
<1>2. CASE Coherent(l, kvs)
  <2>1. \A j \in 1 .. Len(kvs) : kvs[j] \in Computed
    BY <1>2 DEF Coherent, States
  <2>2. Len(kvs) \in 1 .. Len(kvs)
    OBVIOUS
  <2>3. \A j \in 1 .. Len(kvs) : kvs[j].own \in RowSet
    BY <2>1 DEF Computed
  <2>4. Owns(kvs) \in Seq(RowSet)
    BY <2>3 DEF Owns
  <2>5. l + 1 \in 0 .. NLayers
    BY LmForwardAssumption DEF Layers
  <2>6. State(l + 1, kvs[Len(kvs)].own, Owns(kvs)) \in Computed
    BY <2>2, <2>3, <2>4, <2>5 DEF State, Computed
  <2>7. QED
    BY <1>2, <2>6 DEF Attend, States
<1>3. QED
  BY <1>1, <1>2

LEMMA LayerForwardType ==
  ASSUME NEW l \in Layers, NEW hs \in Seq(States), NEW cached \in Seq(States), NEW n \in Nat
  PROVE  /\ LayerForward(l, hs, cached, n) \in Seq(States)
         /\ Len(LayerForward(l, hs, cached, n)) = Len(hs)
<1>1. ASSUME NEW i \in 1 .. Len(hs), n <= Len(cached)
      PROVE  Attend(l, SubSeq(cached, 1, n) \o SubSeq(hs, 1, i)) \in States
  <2>1. SubSeq(cached, 1, n) \in Seq(States) /\ Len(SubSeq(cached, 1, n)) \in Nat
    BY <1>1
  <2>2. SubSeq(hs, 1, i) \in Seq(States) /\ Len(SubSeq(hs, 1, i)) = i
    OBVIOUS
  <2>3. /\ SubSeq(cached, 1, n) \o SubSeq(hs, 1, i) \in Seq(States)
        /\ Len(SubSeq(cached, 1, n) \o SubSeq(hs, 1, i)) > 0
    BY <2>1, <2>2
  <2>4. QED
    BY <2>3, AttendType
<1>2. ASSUME NEW i \in 1 .. Len(hs)
      PROVE  (IF n > Len(cached) THEN Garbage
              ELSE Attend(l, SubSeq(cached, 1, n) \o SubSeq(hs, 1, i))) \in States
  BY <1>1 DEF States
<1>3. QED
  BY <1>2 DEF LayerForward

LEMMA Fields ==
  /\ \A l, row, rows : /\ State(l, row, rows).layer = l
                       /\ State(l, row, rows).own = row
                       /\ State(l, row, rows).attended = rows
  /\ \A e, p : Row(e, p).pos = p
BY DEF State, Row

LEMMA RowsTypes ==
  ASSUME NEW es \in Seq(Embeds \cup {MaskStart, MaskEnd} \cup {MaskQuery(j) : j \in 0 .. NQueries - 1}),
         NEW p \in Nat
  PROVE  /\ Inputs(RowsFrom(es, p)) \in Seq(Computed)
         /\ Len(Inputs(RowsFrom(es, p))) = Len(es)
         /\ \A i \in 1 .. Len(es) :
              /\ Inputs(RowsFrom(es, p))[i] = State(0, Row(es[i], p + i - 1), <<>>)
              /\ Row(es[i], p + i - 1) \in RowSet
<1>1. ASSUME NEW i \in 1 .. Len(es) PROVE Row(es[i], p + i - 1) \in RowSet
  BY DEF Row, RowSet
<1>2. /\ Len(RowsFrom(es, p)) = Len(es)
      /\ \A i \in 1 .. Len(es) : RowsFrom(es, p)[i] = Row(es[i], p + i - 1)
  BY DEF RowsFrom
<1>3. \A row \in RowSet : State(0, row, <<>>) \in Computed
  BY LmForwardAssumption DEF State, Computed
<1>4. /\ Len(Inputs(RowsFrom(es, p))) = Len(es)
      /\ \A i \in 1 .. Len(es) :
           Inputs(RowsFrom(es, p))[i] = State(0, Row(es[i], p + i - 1), <<>>)
  BY <1>2 DEF Inputs
<1>5. \A i \in 1 .. Len(es) : State(0, Row(es[i], p + i - 1), <<>>) \in Computed
  BY <1>1, <1>3
<1>6. Inputs(RowsFrom(es, p)) = [i \in 1 .. Len(es) |-> State(0, Row(es[i], p + i - 1), <<>>)]
  BY <1>2 DEF Inputs
<1>7. Inputs(RowsFrom(es, p)) \in Seq(Computed)
  <2>1. Len(es) \in Nat
    OBVIOUS
  <2>2. [i \in 1 .. Len(es) |-> State(0, Row(es[i], p + i - 1), <<>>)] \in Seq(Computed)
    BY <1>5, <2>1
  <2>3. QED
    BY <1>6, <2>2
<1>8. QED
  BY <1>1, <1>4, <1>7

-----------------------------------------------------------------------------
(***************************************************************************)
(* Layers on the states of a forward pass.                                 *)
(***************************************************************************)

(* The states of rows 0, 1, ... when they enter layer l. *)
Entering(l, kvs) ==
  /\ kvs \in Seq(Computed)
  /\ \A j \in 1 .. Len(kvs) :
       /\ kvs[j].layer = l /\ kvs[j].own.pos = j - 1
       /\ kvs[j].attended = IF l = 0 THEN <<>> ELSE [m \in 1 .. j |-> kvs[m].own]

LEMMA EnteringIsCoherent ==
  ASSUME NEW l, NEW kvs, Entering(l, kvs)
  PROVE  Coherent(l, kvs)
<1>1. Len(kvs) \in Nat /\ \A j \in 1 .. Len(kvs) : kvs[j] \in Computed /\ kvs[j].own \in RowSet
  <2>1. kvs \in Seq(Computed)
    BY DEF Entering
  <2>2. Len(kvs) \in Nat /\ \A j \in 1 .. Len(kvs) : kvs[j] \in Computed
    BY <2>1
  <2>3. \A state \in Computed : state.own \in RowSet
    BY DEF Computed
  <2>4. QED
    BY <2>2, <2>3
<1>2. Owns(kvs) \in Seq(RowSet) /\ Len(Owns(kvs)) = Len(kvs)
  BY <1>1 DEF Owns
<1>3. ASSUME NEW j \in 1 .. Len(kvs)
      PROVE  SubSeq(Owns(kvs), 1, j) = [m \in 1 .. j |-> kvs[m].own]
  <2>1. /\ SubSeq(Owns(kvs), 1, j) \in Seq(RowSet) /\ Len(SubSeq(Owns(kvs), 1, j)) = j
        /\ \A m \in 1 .. j : SubSeq(Owns(kvs), 1, j)[m] = Owns(kvs)[m]
    BY <1>1, <1>2
  <2>2. \A m \in 1 .. j : Owns(kvs)[m] = kvs[m].own
    BY <1>1 DEF Owns
  <2>3. QED
    BY <2>1, <2>2
<1>4. QED
  BY <1>1, <1>3, LmForwardAssumption DEF Coherent, Entering

LEMMA EnteringPrefix ==
  ASSUME NEW l, NEW kvs, Entering(l, kvs), NEW n \in 0 .. Len(kvs)
  PROVE  Entering(l, SubSeq(kvs, 1, n))
<1>1. kvs \in Seq(Computed) /\ Len(kvs) \in Nat
  BY DEF Entering
<1>2. /\ SubSeq(kvs, 1, n) \in Seq(Computed) /\ Len(SubSeq(kvs, 1, n)) = n
      /\ \A j \in 1 .. n : SubSeq(kvs, 1, n)[j] = kvs[j] /\ j \in 1 .. Len(kvs)
  BY <1>1
<1>3. ASSUME NEW j \in 1 .. n
      PROVE  [m \in 1 .. j |-> kvs[m].own] = [m \in 1 .. j |-> SubSeq(kvs, 1, n)[m].own]
  <2>1. \A m \in 1 .. j : m \in 1 .. n
    OBVIOUS
  <2>2. QED
    BY <1>2, <2>1
<1>4. QED
  BY <1>2, <1>3 DEF Entering

(* One layer takes the states that enter it to those that enter the next. *)
LEMMA LayerForwardEnters ==
  ASSUME NEW l \in Layers, NEW past, NEW new \in Seq(Computed), past \in Seq(Computed),
         Entering(l, past \o new)
  PROVE  \A i \in 1 .. Len(new) :
           /\ LayerForward(l, new, past, Len(past))[i]
                = State(l + 1, new[i].own, [m \in 1 .. Len(past) + i |-> (past \o new)[m].own])
           /\ State(l + 1, new[i].own, [m \in 1 .. Len(past) + i |-> (past \o new)[m].own])
                \in Computed
<1> DEFINE n == Len(past)
           kvs == past \o new
<1>1. n \in Nat /\ Len(new) \in Nat /\ kvs \in Seq(Computed) /\ Len(kvs) = n + Len(new)
  OBVIOUS
<1>2. SUFFICES
        ASSUME NEW i \in 1 .. Len(new)
        PROVE  /\ LayerForward(l, new, past, n)[i]
                    = State(l + 1, new[i].own, [m \in 1 .. n + i |-> kvs[m].own])
               /\ State(l + 1, new[i].own, [m \in 1 .. n + i |-> kvs[m].own]) \in Computed
  OBVIOUS
<1>3. SubSeq(past, 1, n) = past
  OBVIOUS
<1> DEFINE prefix == SubSeq(kvs, 1, n + i)
<1>4. past \o SubSeq(new, 1, i) = prefix
  <2>1. /\ SubSeq(new, 1, i) \in Seq(Computed) /\ Len(SubSeq(new, 1, i)) = i
        /\ \A m \in 1 .. i : SubSeq(new, 1, i)[m] = new[m]
    BY <1>1
  <2>2. n + i \in 0 .. Len(kvs)
    BY <1>1
  <2>3. /\ prefix \in Seq(Computed) /\ Len(prefix) = n + i
        /\ \A m \in 1 .. n + i : prefix[m] = kvs[m]
    BY <1>1, <2>2
  <2>4. /\ past \o SubSeq(new, 1, i) \in Seq(Computed)
        /\ Len(past \o SubSeq(new, 1, i)) = n + i
    BY <1>1, <2>1
  <2>5. ASSUME NEW m \in 1 .. n + i
        PROVE  (past \o SubSeq(new, 1, i))[m] = kvs[m]
    <3>1. CASE m <= n
      BY <1>1, <2>1, <3>1
    <3>2. CASE ~ (m <= n)
      <4>1. m - n \in 1 .. i /\ m - n \in 1 .. Len(new)
        BY <1>1, <3>2
      <4>2. (past \o SubSeq(new, 1, i))[m] = SubSeq(new, 1, i)[m - n]
        BY <1>1, <2>1, <3>2, <4>1
      <4>3. kvs[m] = new[m - n]
        BY <1>1, <3>2, <4>1
      <4>4. QED
        BY <2>1, <4>1, <4>2, <4>3
    <3>3. QED
      BY <1>1, <3>1, <3>2
  <2>6. QED
    BY <2>3, <2>4, <2>5, SeqEqual
<1>5. n + i \in 1 .. Len(kvs) /\ n + i \in 0 .. Len(kvs)
  BY <1>1
<1>6. /\ prefix \in Seq(Computed) /\ Len(prefix) = n + i
      /\ \A m \in 1 .. n + i : prefix[m] = kvs[m] /\ kvs[m] \in Computed
  BY <1>1, <1>5
<1>7. kvs[n + i] = new[i]
  BY <1>1
<1>8. Coherent(l, prefix)
  BY <1>5, EnteringPrefix, EnteringIsCoherent
<1> HIDE DEF prefix, kvs, n
<1>9. Owns(prefix) = [m \in 1 .. n + i |-> kvs[m].own]
  BY <1>6 DEF Owns
<1>10. Attend(l, prefix) = State(l + 1, new[i].own, [m \in 1 .. n + i |-> kvs[m].own])
  <2>1. n + i \in 1 .. n + i
    BY <1>1
  <2>2. prefix[Len(prefix)] = new[i]
    BY <1>6, <1>7, <2>1
  <2>3. QED
    BY <1>8, <1>9, <2>2 DEF Attend
<1>11. State(l + 1, new[i].own, [m \in 1 .. n + i |-> kvs[m].own]) \in Computed
  <2>1. l + 1 \in 0 .. NLayers
    BY LmForwardAssumption DEF Layers
  <2>2. \A m \in 1 .. n + i : kvs[m].own \in RowSet
    BY <1>6 DEF Computed
  <2>3. n + i \in Nat
    BY <1>1
  <2>4. [m \in 1 .. n + i |-> kvs[m].own] \in Seq(RowSet)
    BY <2>2, <2>3
  <2>5. new[i].own \in RowSet
    <3>1. new[i] \in Computed
      OBVIOUS
    <3>2. QED
      BY <3>1 DEF Computed
  <2>6. QED
    BY <2>1, <2>4, <2>5 DEF State, Computed
<1>12. LayerForward(l, new, past, n)[i] = Attend(l, prefix)
  <2>1. ~ (n > Len(past))
    BY <1>1 DEF n
  <2>2. QED
    BY <1>3, <1>4, <2>1 DEF LayerForward
<1>13. QED
  BY <1>10, <1>11, <1>12

-----------------------------------------------------------------------------
(***************************************************************************)
(* Types and lengths.                                                      *)
(***************************************************************************)

AllEmbeds == Embeds \cup {MaskStart, MaskEnd} \cup {MaskQuery(j) : j \in 0 .. NQueries - 1}

LEMMA EmbedsAreEmbeds ==
  /\ \A es \in Prefixes : es \in Seq(AllEmbeds) /\ Len(es) \in Nat /\ Len(es) > 0
  /\ \A e \in Embeds : <<e>> \in Seq(AllEmbeds)
  /\ \A phrase \in Phrases :
       phrase \o Injected \in Seq(AllEmbeds) /\ Len(phrase \o Injected) >= NQueries + 2
<1>1. ASSUME NEW es \in Seq(Embeds) PROVE es \in Seq(AllEmbeds)
  BY DEF AllEmbeds
<1>2. Injected \in Seq(AllEmbeds) /\ Len(Injected) = NQueries + 2
  <2> DEFINE queries == [j \in 1 .. NQueries |-> MaskQuery(j - 1)]
  <2>1. NQueries \in Nat
    BY LmForwardAssumption
  <2>2. \A j \in 1 .. NQueries : MaskQuery(j - 1) \in AllEmbeds
    BY <2>1 DEF AllEmbeds
  <2>3. queries \in Seq(AllEmbeds) /\ Len(queries) = NQueries
    BY <2>1, <2>2
  <2>4. <<MaskStart>> \in Seq(AllEmbeds) /\ <<MaskEnd>> \in Seq(AllEmbeds)
    BY DEF AllEmbeds
  <2> HIDE DEF queries
  <2>5. QED
    BY <2>1, <2>3, <2>4 DEF Injected, queries
<1>3. ASSUME NEW phrase \in Phrases
      PROVE  phrase \o Injected \in Seq(AllEmbeds) /\ Len(phrase \o Injected) >= NQueries + 2
  <2>1. phrase \in Seq(AllEmbeds) /\ Len(phrase) \in Nat
    BY <1>1, LmForwardAssumption
  <2>2. NQueries \in Nat
    BY LmForwardAssumption
  <2>3. QED
    BY <1>2, <2>1, <2>2
<1>4. ASSUME NEW es \in Prefixes
      PROVE  es \in Seq(AllEmbeds) /\ Len(es) \in Nat /\ Len(es) > 0
  <2>1. es \in Seq(Embeds) /\ es # <<>>
    BY LmForwardAssumption
  <2>2. QED
    BY <1>1, <2>1
<1>5. \A e \in Embeds : <<e>> \in Seq(AllEmbeds)
  BY DEF AllEmbeds
<1>6. QED
  BY <1>3, <1>4, <1>5

(* What a cache holds at least, and how many rows a call works on. *)
Lengths ==
  /\ pc = "prefill" => /\ Len(hidden) = ncached /\ ncached > 0
                       /\ \A l \in Layers : l < layer => Len(kv[l]) = ncached
  /\ pc \in {"idle", "decode", "extract"} => \A l \in Layers : Len(kv[l]) >= ncached
  /\ pc = "decode" => /\ Len(hidden) = 1
                      /\ \A l \in Layers : l < layer => Len(kv[l]) >= ncached + 1
  /\ pc = "extract" => Len(hidden) >= NQueries + 2

LInv == TypeOK /\ Lengths

LEMMA InputsType ==
  ASSUME NEW es \in Seq(AllEmbeds), NEW p \in Nat
  PROVE  Inputs(RowsFrom(es, p)) \in Seq(States) /\ Len(Inputs(RowsFrom(es, p))) = Len(es)
<1>1. Inputs(RowsFrom(es, p)) \in Seq(Computed) /\ Len(Inputs(RowsFrom(es, p))) = Len(es)
  BY RowsTypes DEF AllEmbeds
<1>2. QED
  BY <1>1 DEF States

LEMMA OneRow ==
  ASSUME NEW e, NEW p \in Nat
  PROVE  <<Row(e, p)>> = RowsFrom(<<e>>, p)
BY DEF RowsFrom

LEMMA LInvInit == Init => LInv
<1> SUFFICES ASSUME Init PROVE LInv
  OBVIOUS
<1>1. 0 \in 0 .. NLayers /\ <<>> \in Seq(States)
  BY LmForwardAssumption
<1>2. TypeOK
  BY <1>1 DEF Init, TypeOK
<1>3. Lengths
  BY DEF Init, Lengths
<1>4. QED
  BY <1>2, <1>3 DEF LInv

LEMMA LayerStep ==
  ASSUME TypeOK, MoreLayers(layer)
  PROVE  layer \in Layers /\ layer + 1 \in 0 .. NLayers /\ layer \in Nat
BY LmForwardAssumption DEF TypeOK, MoreLayers, Layers

LEMMA LInvPrefill ==
  ASSUME LInv, NEW es \in Prefixes, Prefill(es)
  PROVE  LInv'
<1>1. hidden' \in Seq(States) /\ Len(hidden') = Len(es)
  BY InputsType, EmbedsAreEmbeds DEF Prefill, Begin
<1>2. Len(es) \in Nat /\ Len(es) > 0 /\ 0 \in 0 .. NLayers
  BY EmbedsAreEmbeds, LmForwardAssumption
<1>3. TypeOK'
  BY <1>1, <1>2 DEF LInv, TypeOK, Prefill, Begin, HeadUnchanged
<1>4. Lengths'
  <2>1. \A l \in Layers : ~ (l < 0)
    BY LmForwardAssumption DEF Layers
  <2>2. QED
    BY <1>1, <1>2, <2>1 DEF Prefill, Begin, Lengths
<1>5. QED
  BY <1>3, <1>4 DEF LInv

LEMMA LInvPrefillLayer ==
  ASSUME LInv, PrefillLayer
  PROVE  LInv'
<1>1. layer \in Layers /\ layer + 1 \in 0 .. NLayers /\ layer \in Nat
  BY LayerStep DEF LInv, PrefillLayer
<1>2. hidden \in Seq(States) /\ <<>> \in Seq(States) /\ 0 \in Nat /\ kv \in [Layers -> Seq(States)]
  BY DEF LInv, TypeOK
<1>3. hidden' \in Seq(States) /\ Len(hidden') = Len(hidden)
  BY <1>1, <1>2, LayerForwardType DEF PrefillLayer
<1>4. kv' \in [Layers -> Seq(States)]
  BY <1>2 DEF PrefillLayer
<1>5. TypeOK'
  BY <1>1, <1>3, <1>4 DEF LInv, TypeOK, PrefillLayer, HeadUnchanged
<1>6. ASSUME NEW l \in Layers, l < layer' PROVE Len(kv'[l]) = ncached'
  <2>1. CASE l = layer
    BY <1>1, <1>2, <2>1 DEF PrefillLayer, LInv, Lengths
  <2>2. CASE l # layer
    <3>1. l < layer
      BY <1>1, <1>6, <2>2 DEF PrefillLayer, Layers
    <3>2. kv'[l] = kv[l]
      BY <1>2, <2>2 DEF PrefillLayer
    <3>3. QED
      BY <3>1, <3>2 DEF PrefillLayer, LInv, Lengths
  <2>3. QED
    BY <2>1, <2>2
<1>7. Lengths'
  BY <1>3, <1>6 DEF PrefillLayer, LInv, Lengths
<1>8. QED
  BY <1>5, <1>7 DEF LInv

LEMMA LInvPrefillReturn ==
  ASSUME LInv, PrefillReturn
  PROVE  LInv'
<1>1. hidden \in Seq(States) /\ Len(hidden) = ncached /\ ncached > 0 /\ ncached \in Nat
  BY DEF LInv, TypeOK, Lengths, PrefillReturn
<1>2. hidden[Len(hidden)] \in States
  BY <1>1
<1>3. result' \in Seq(States)
  <2>1. <<>> \in Seq(States) /\ <<hidden[Len(hidden)]>> \in Seq(States)
    BY <1>2
  <2>2. QED
    BY <2>1 DEF PrefillReturn
<1>4. layer = NLayers
  BY LmForwardAssumption DEF PrefillReturn, MoreLayers, LInv, TypeOK
<1>5. 0 \in 0 .. NLayers /\ <<>> \in Seq(States)
  BY LmForwardAssumption
<1>6. TypeOK'
  BY <1>3, <1>5 DEF LInv, TypeOK, PrefillReturn, End, HeadUnchanged
<1>7. \A l \in Layers : Len(kv[l]) >= ncached
  <2>1. \A l \in Layers : l < layer
    BY <1>4, LmForwardAssumption DEF Layers
  <2>2. \A l \in Layers : Len(kv[l]) = ncached
    BY <2>1 DEF LInv, Lengths, PrefillReturn
  <2>3. QED
    BY <1>1, <2>2
<1>8. Lengths'
  BY <1>7 DEF PrefillReturn, End, Lengths
<1>9. QED
  BY <1>6, <1>8 DEF LInv

LEMMA LInvPrefillThrow ==
  ASSUME LInv, PrefillThrow
  PROVE  LInv'
<1>1. 0 \in 0 .. NLayers /\ <<>> \in Seq(States)
  BY LmForwardAssumption
<1>2. TypeOK'
  BY <1>1 DEF LInv, TypeOK, PrefillThrow, End, HeadUnchanged
<1>3. Lengths'
  BY DEF PrefillThrow, End, Lengths
<1>4. QED
  BY <1>2, <1>3 DEF LInv

LEMMA LInvDecode ==
  ASSUME LInv, NEW e \in Embeds, Decode(e)
  PROVE  LInv'
<1>1. ncached \in Nat /\ 0 \in 0 .. NLayers
  BY LmForwardAssumption DEF LInv, TypeOK
<1>2. hidden' \in Seq(States) /\ Len(hidden') = 1
  <2>1. hidden' = Inputs(RowsFrom(<<e>>, ncached))
    BY <1>1, OneRow DEF Decode, Begin, DecodePos
  <2>2. <<e>> \in Seq(AllEmbeds) /\ Len(<<e>>) = 1
    BY EmbedsAreEmbeds
  <2>3. QED
    BY <1>1, <2>1, <2>2, InputsType
<1>3. TypeOK'
  BY <1>1, <1>2 DEF LInv, TypeOK, Decode, Begin, HeadUnchanged
<1>4. Lengths'
  <2>1. \A l \in Layers : ~ (l < 0)
    BY LmForwardAssumption DEF Layers
  <2>2. QED
    BY <1>2, <2>1 DEF LInv, Decode, Begin, Lengths
<1>5. QED
  BY <1>3, <1>4 DEF LInv

LEMMA LInvDecodeLayer ==
  ASSUME LInv, DecodeLayer
  PROVE  LInv'
<1>1. layer \in Layers /\ layer + 1 \in 0 .. NLayers /\ layer \in Nat
  BY LayerStep DEF LInv, DecodeLayer
<1>2. /\ hidden \in Seq(States) /\ ncached \in Nat
      /\ kv \in [Layers -> Seq(States)] /\ kv[layer] \in Seq(States)
  BY <1>1 DEF LInv, TypeOK
<1>3. hidden' \in Seq(States) /\ Len(hidden') = Len(hidden)
  BY <1>1, <1>2, LayerForwardType DEF DecodeLayer
<1>4. /\ Appended(kv[layer], hidden) \in Seq(States)
      /\ Len(Appended(kv[layer], hidden)) = Len(kv[layer]) + Len(hidden)
  BY <1>2 DEF Appended
<1>5. kv' \in [Layers -> Seq(States)]
  BY <1>2, <1>4 DEF DecodeLayer
<1>6. TypeOK'
  BY <1>1, <1>3, <1>5 DEF LInv, TypeOK, DecodeLayer, HeadUnchanged
<1>7. Len(hidden) = 1 /\ \A l \in Layers : Len(kv[l]) >= ncached /\ Len(kv[l]) \in Nat
  BY <1>2 DEF DecodeLayer, LInv, Lengths
<1>8. Len(kv'[layer]) = Len(kv[layer]) + 1
  BY <1>1, <1>2, <1>4, <1>7 DEF DecodeLayer
<1>9. \A l \in Layers : l # layer => kv'[l] = kv[l]
  BY <1>2 DEF DecodeLayer
<1>10. \A l \in Layers : Len(kv'[l]) >= ncached
  <2>1. Len(kv[layer]) >= ncached /\ Len(kv[layer]) \in Nat
    BY <1>1, <1>7
  <2>2. Len(kv'[layer]) >= ncached
    BY <1>2, <1>8, <2>1
  <2>3. QED
    BY <1>7, <1>9, <2>2
<1>11. ASSUME NEW l \in Layers, l < layer' PROVE Len(kv'[l]) >= ncached + 1
  <2>1. CASE l = layer
    <3>1. Len(kv[layer]) >= ncached /\ Len(kv[layer]) \in Nat
      BY <1>1, <1>7
    <3>2. QED
      BY <1>2, <1>8, <2>1, <3>1
  <2>2. CASE l # layer
    <3>1. l < layer
      BY <1>1, <1>11, <2>2 DEF DecodeLayer, Layers
    <3>2. QED
      BY <1>9, <2>2, <3>1 DEF DecodeLayer, LInv, Lengths
  <2>3. QED
    BY <2>1, <2>2
<1>12. Lengths'
  BY <1>3, <1>7, <1>10, <1>11 DEF DecodeLayer, Lengths
<1>13. QED
  BY <1>6, <1>12 DEF LInv

LEMMA LInvDecodeReturn ==
  ASSUME LInv, DecodeReturn
  PROVE  LInv'
<1>1. layer = NLayers
  BY LmForwardAssumption DEF DecodeReturn, MoreLayers, LInv, TypeOK
<1>2. 0 \in 0 .. NLayers /\ <<>> \in Seq(States)
  BY LmForwardAssumption
<1>3. ncached + 1 \in Nat /\ result' \in Seq(States)
  BY DEF LInv, TypeOK, DecodeReturn
<1>4. TypeOK'
  BY <1>2, <1>3 DEF LInv, TypeOK, DecodeReturn, End, HeadUnchanged
<1>5. \A l \in Layers : Len(kv[l]) >= ncached + 1
  <2>1. \A l \in Layers : l < layer
    BY <1>1, LmForwardAssumption DEF Layers
  <2>2. QED
    BY <2>1 DEF LInv, Lengths, DecodeReturn
<1>6. Lengths'
  BY <1>5 DEF DecodeReturn, End, Lengths
<1>7. QED
  BY <1>4, <1>6 DEF LInv

LEMMA LInvDecodeThrow ==
  ASSUME LInv, DecodeThrow
  PROVE  LInv'
<1>1. 0 \in 0 .. NLayers /\ <<>> \in Seq(States)
  BY LmForwardAssumption
<1>2. TypeOK'
  BY <1>1 DEF LInv, TypeOK, DecodeThrow, End, HeadUnchanged
<1>3. Lengths'
  BY DEF DecodeThrow, End, LInv, Lengths
<1>4. QED
  BY <1>2, <1>3 DEF LInv

LEMMA LInvExtract ==
  ASSUME LInv, NEW phrase \in Phrases, Extract(phrase)
  PROVE  LInv'
<1>1. ncached \in Nat /\ 0 \in 0 .. NLayers
  BY LmForwardAssumption DEF LInv, TypeOK
<1>2. hidden' \in Seq(States) /\ Len(hidden') >= NQueries + 2
  BY <1>1, InputsType, EmbedsAreEmbeds DEF Extract, Begin, ExtractPos
<1>3. TypeOK'
  BY <1>1, <1>2 DEF LInv, TypeOK, Extract, Begin, HeadUnchanged
<1>4. Lengths'
  BY <1>2 DEF LInv, Extract, Begin, Lengths
<1>5. QED
  BY <1>3, <1>4 DEF LInv

LEMMA LInvExtractLayer ==
  ASSUME LInv, ExtractLayer
  PROVE  LInv'
<1>1. layer \in Layers /\ layer + 1 \in 0 .. NLayers /\ layer \in Nat
  BY LayerStep DEF LInv, ExtractLayer
<1>2. hidden \in Seq(States) /\ ncached \in Nat /\ kv[layer] \in Seq(States)
  BY <1>1 DEF LInv, TypeOK
<1>3. hidden' \in Seq(States) /\ Len(hidden') = Len(hidden)
  BY <1>1, <1>2, LayerForwardType DEF ExtractLayer
<1>4. TypeOK'
  BY <1>1, <1>3 DEF LInv, TypeOK, ExtractLayer, HeadUnchanged
<1>5. Lengths'
  BY <1>3 DEF LInv, Lengths, ExtractLayer
<1>6. QED
  BY <1>4, <1>5 DEF LInv

LEMMA LInvExtractEnd ==
  ASSUME LInv, ExtractReturn \/ ExtractThrow
  PROVE  LInv'
<1>1. 0 \in 0 .. NLayers /\ <<>> \in Seq(States)
  BY LmForwardAssumption
<1>2. result' \in Seq(States)
  <2>1. CASE ExtractThrow
    BY <2>1 DEF ExtractThrow, LInv, TypeOK
  <2>2. CASE ExtractReturn
    <3>1. hidden \in Seq(States) /\ Len(hidden) \in Nat /\ Len(hidden) >= NQueries + 2
      BY <2>2 DEF ExtractReturn, LInv, TypeOK, Lengths
    <3>2. NQueries \in Nat
      BY LmForwardAssumption
    <3>3. \A j \in 1 .. NQueries : Len(hidden) - NQueries - 1 + j \in 1 .. Len(hidden)
      BY <3>1, <3>2
    <3>4. \A j \in 1 .. NQueries : hidden[Len(hidden) - NQueries - 1 + j] \in States
      BY <3>1, <3>3
    <3>5. SegOut(hidden) \in Seq(States)
      BY <3>2, <3>4 DEF SegOut
    <3>6. QED
      BY <2>2, <3>5 DEF ExtractReturn
  <2>3. QED
    BY <2>1, <2>2
<1>3. TypeOK'
  BY <1>1, <1>2 DEF LInv, TypeOK, ExtractReturn, ExtractThrow, End, HeadUnchanged
<1>4. Lengths'
  BY DEF ExtractReturn, ExtractThrow, End, LInv, Lengths
<1>5. QED
  BY <1>3, <1>4 DEF LInv

LEMMA LInvLogits ==
  ASSUME LInv, LogitsForHidden
  PROVE  LInv'
<1>1. embdCache' \in {"empty", "zero", "table"} /\ logits' \in {"none", "zero", "table"}
  <2>1. embdCache' \in {"zero", "table"}
    BY DEF LInv, TypeOK, LogitsForHidden, Filled
  <2>2. QED
    BY <2>1 DEF LInv, TypeOK, LogitsForHidden
<1>2. TypeOK'
  BY <1>1 DEF LInv, TypeOK, LogitsForHidden
<1>3. Lengths'
  BY DEF LInv, Lengths, LogitsForHidden
<1>4. QED
  BY <1>2, <1>3 DEF LInv

LEMMA LInvStep ==
  ASSUME LInv, [Next]_vars
  PROVE  LInv'
<1>1. CASE UNCHANGED vars
  BY <1>1 DEF vars, LInv, TypeOK, Lengths
<1>2. CASE Next
  BY <1>2, LInvPrefill, LInvPrefillLayer, LInvPrefillReturn, LInvPrefillThrow,
     LInvDecode, LInvDecodeLayer, LInvDecodeReturn, LInvDecodeThrow,
     LInvExtract, LInvExtractLayer, LInvExtractEnd, LInvLogits DEF Next
<1>3. QED
  BY <1>1, <1>2

(* All variables of a K/V cache and of its calls keep their types. *)
THEOREM TypeCorrect == Spec => []TypeOK
<1>1. LInv => TypeOK
  BY DEF LInv
<1>2. QED
  BY <1>1, LInvInit, LInvStep, PTL DEF Spec

(* n_cached never counts a row that one of the layers has not, also after   *)
(* decode_step has thrown between two layers.                               *)
THEOREM CountedRowsAlwaysThere == Spec => []CountedRowsAreThere
<1>1. LInv => CountedRowsAreThere
  BY DEF LInv, Lengths, CountedRowsAreThere
<1>2. QED
  BY <1>1, LInvInit, LInvStep, PTL DEF Spec

-----------------------------------------------------------------------------
(***************************************************************************)
(* The contents of the cache.                                              *)
(***************************************************************************)

Cached(l) == CASE pc = "none"    -> 0
               [] pc = "prefill" -> IF l < layer THEN ncached ELSE 0
               [] pc = "decode"  -> IF l < layer THEN ncached + 1 ELSE ncached
               [] OTHER          -> ncached

CachedRows ==
  \A l \in Layers :
    /\ Entering(l, kv[l]) /\ Len(kv[l]) = Cached(l)
    /\ \A j \in 1 .. Len(kv[l]) : kv[l][j].own = kv[0][j].own

(* The new rows of a prefill, all at the same layer. *)
PrefillRows ==
  /\ Entering(layer, hidden)
  /\ layer > 0 => \A j \in 1 .. Len(hidden) : hidden[j].own = kv[0][j].own

(* The new row of a decode_step, which comes after the cached ones. *)
DecodeRow ==
  /\ hidden[1] \in Computed
  /\ hidden[1].layer = layer /\ hidden[1].own.pos = ncached
  /\ hidden[1].attended =
       IF layer = 0 THEN <<>> ELSE [m \in 1 .. ncached + 1 |-> kv[0][m].own]
  /\ layer > 0 => hidden[1].own = kv[0][ncached + 1].own

CInv ==
  /\ LInv
  /\ ~ broken => /\ CachedRows
                 /\ pc = "prefill" => PrefillRows
                 /\ pc = "decode" => DecodeRow

LEMMA EmptyEnters == \A l : Entering(l, <<>>)
BY DEF Entering

(* What the layers hold does not depend on the call that is running, as     *)
(* long as it has not touched them.                                         *)
LEMMA CachedStay ==
  ASSUME CInv, ~ broken, kv' = kv, ~ broken', \A l \in Layers : Cached(l)' = Cached(l)
  PROVE  CachedRows'
BY DEF CInv, CachedRows

LEMMA EnteringAppend ==
  ASSUME NEW l, NEW past, NEW h \in Computed, Entering(l, past),
         h.layer = l, h.own.pos = Len(past),
         h.attended = IF l = 0 THEN <<>>
                      ELSE [m \in 1 .. Len(past) + 1 |-> (past \o <<h>>)[m].own]
  PROVE  Entering(l, past \o <<h>>)
<1> DEFINE n == Len(past)
           kvs == past \o <<h>>
<1>1. past \in Seq(Computed) /\ n \in Nat
  BY DEF Entering
<1>2. /\ kvs \in Seq(Computed) /\ Len(kvs) = n + 1 /\ kvs[n + 1] = h
      /\ \A j \in 1 .. n : kvs[j] = past[j]
  BY <1>1
<1>3. ASSUME NEW j \in 1 .. n
      PROVE  /\ kvs[j].layer = l /\ kvs[j].own.pos = j - 1
             /\ kvs[j].attended = IF l = 0 THEN <<>> ELSE [m \in 1 .. j |-> kvs[m].own]
  <2>1. [m \in 1 .. j |-> kvs[m].own] = [m \in 1 .. j |-> past[m].own]
    <3>1. \A m \in 1 .. j : m \in 1 .. n
      BY <1>1
    <3>2. QED
      BY <1>2, <3>1
  <2>2. /\ past[j].layer = l /\ past[j].own.pos = j - 1
        /\ past[j].attended = IF l = 0 THEN <<>> ELSE [m \in 1 .. j |-> past[m].own]
    BY DEF Entering
  <2>3. QED
    BY <1>2, <2>1, <2>2
<1>4. /\ kvs[n + 1].layer = l /\ kvs[n + 1].own.pos = (n + 1) - 1
      /\ kvs[n + 1].attended = IF l = 0 THEN <<>> ELSE [m \in 1 .. n + 1 |-> kvs[m].own]
  BY SMTT(30), <1>1, <1>2
<1> HIDE DEF kvs, n
<1>5. \A j \in 1 .. n + 1 : j \in 1 .. n \/ j = n + 1
  BY <1>1
<1>6. \A j \in 1 .. Len(kvs) :
        /\ kvs[j].layer = l /\ kvs[j].own.pos = j - 1
        /\ kvs[j].attended = IF l = 0 THEN <<>> ELSE [m \in 1 .. j |-> kvs[m].own]
  BY <1>2, <1>3, <1>4, <1>5
<1>7. Entering(l, kvs)
  BY <1>2, <1>6 DEF Entering
<1>8. QED
  BY <1>7 DEF kvs

LEMMA CInvInit == Init => CInv
<1> SUFFICES ASSUME Init PROVE CInv
  OBVIOUS
<1>1. LInv
  BY LInvInit
<1>2. \A l \in Layers : kv[l] = <<>>
  BY DEF Init
<1>3. CachedRows
  BY <1>2, EmptyEnters DEF Init, CachedRows, Cached
<1>4. QED
  BY <1>1, <1>3 DEF CInv, Init

LEMMA CInvPrefill ==
  ASSUME CInv, NEW es \in Prefixes, Prefill(es), ~ broken'
  PROVE  CachedRows' /\ PrefillRows' /\ pc' = "prefill"
<1>1. ~ broken /\ pc = "none" /\ pc' = "prefill" /\ layer' = 0 /\ kv' = kv
  BY DEF Prefill, Begin
<1>2. \A l \in Layers : Cached(l)' = Cached(l)
  BY <1>1, LmForwardAssumption DEF Cached, Layers
<1>3. CachedRows'
  BY <1>1, <1>2, CachedStay
<1>4. es \in Seq(AllEmbeds) /\ 0 \in Nat
  BY EmbedsAreEmbeds
<1>5. /\ hidden' \in Seq(Computed) /\ Len(hidden') = Len(es)
      /\ \A i \in 1 .. Len(es) : hidden'[i] = State(0, Row(es[i], 0 + i - 1), <<>>)
  BY <1>4, RowsTypes DEF Prefill, Begin, AllEmbeds
<1>6. \A i \in 1 .. Len(es) :
        hidden'[i].layer = 0 /\ hidden'[i].own.pos = i - 1 /\ hidden'[i].attended = <<>>
  <2>1. ASSUME NEW i \in 1 .. Len(es)
        PROVE  /\ hidden'[i].layer = 0 /\ hidden'[i].attended = <<>>
               /\ hidden'[i].own.pos = 0 + i - 1
    BY <1>5, Fields
  <2>2. \A i \in 1 .. Len(es) : 0 + i - 1 = i - 1
    OBVIOUS
  <2>3. QED
    BY <2>1, <2>2
<1>7. Entering(0, hidden')
  BY <1>5, <1>6 DEF Entering
<1>8. PrefillRows'
  BY <1>1, <1>7 DEF PrefillRows
<1>9. QED
  BY <1>1, <1>3, <1>8

LEMMA CInvPrefillLayer ==
  ASSUME CInv, PrefillLayer, ~ broken'
  PROVE  CachedRows' /\ PrefillRows' /\ pc' = "prefill"
<1>1. /\ ~ broken /\ pc = "prefill" /\ pc' = "prefill"
      /\ layer' = layer + 1 /\ ncached' = ncached
  BY DEF PrefillLayer
<1>2. layer \in Layers /\ layer + 1 \in 0 .. NLayers /\ layer \in Nat
  BY LayerStep DEF CInv, LInv, PrefillLayer
<1>3. CachedRows /\ PrefillRows
  BY <1>1 DEF CInv
<1>4. /\ hidden \in Seq(Computed) /\ Entering(layer, hidden) /\ Len(hidden) = ncached
      /\ Len(hidden) \in Nat
  BY <1>1, <1>3 DEF PrefillRows, Entering, CInv, LInv, Lengths
<1>5. /\ kv \in [Layers -> Seq(States)] /\ kv'[layer] = hidden
      /\ \A l \in Layers : l # layer => kv'[l] = kv[l]
  BY <1>2 DEF CInv, LInv, TypeOK, PrefillLayer
<1>6. \A i \in 1 .. Len(hidden) :
        /\ hidden'[i] = State(layer + 1, hidden[i].own, [m \in 1 .. i |-> hidden[m].own])
        /\ hidden'[i] \in Computed
  <2>1. <<>> \in Seq(Computed) /\ Len(<<>>) = 0 /\ <<>> \o hidden = hidden
    BY <1>4
  <2>2. ASSUME NEW past \in Seq(Computed), past = <<>>
        PROVE  \A i \in 1 .. Len(hidden) :
                 /\ LayerForward(layer, hidden, past, Len(past))[i]
                      = State(layer + 1, hidden[i].own,
                              [m \in 1 .. Len(past) + i |-> (past \o hidden)[m].own])
                 /\ State(layer + 1, hidden[i].own,
                          [m \in 1 .. Len(past) + i |-> (past \o hidden)[m].own]) \in Computed
    <3>1. Entering(layer, past \o hidden)
      BY <1>4, <2>1, <2>2
    <3>2. QED
      BY <1>2, <1>4, <3>1, LayerForwardEnters
  <2>3. \A i \in 1 .. Len(hidden) : 0 + i = i
    OBVIOUS
  <2>4. hidden' = LayerForward(layer, hidden, <<>>, 0)
    BY DEF PrefillLayer
  <2>5. ASSUME NEW i \in 1 .. Len(hidden)
        PROVE  /\ hidden'[i] = State(layer + 1, hidden[i].own,
                                    [m \in 1 .. 0 + i |-> (<<>> \o hidden)[m].own])
               /\ State(layer + 1, hidden[i].own,
                        [m \in 1 .. 0 + i |-> (<<>> \o hidden)[m].own]) \in Computed
    BY <2>1, <2>2, <2>4
  <2>6. ASSUME NEW i \in 1 .. Len(hidden)
        PROVE  [m \in 1 .. 0 + i |-> (<<>> \o hidden)[m].own] = [m \in 1 .. i |-> hidden[m].own]
    BY <2>1, <2>3
  <2>7. QED
    BY <2>5, <2>6
<1>7. hidden' \in Seq(Computed) /\ Len(hidden') = Len(hidden)
  <2>1. hidden' = LayerForward(layer, hidden, <<>>, 0)
    BY DEF PrefillLayer
  <2>2. hidden' = [i \in 1 .. Len(hidden) |-> hidden'[i]]
    BY <2>1 DEF LayerForward
  <2>3. [i \in 1 .. Len(hidden) |-> hidden'[i]] \in Seq(Computed)
    <3>1. \A i \in 1 .. Len(hidden) : hidden'[i] \in Computed
      BY <1>6
    <3> DEFINE n == Len(hidden)
    <3>2. n \in Nat
      BY <1>4
    <3> HIDE DEF n
    <3>3. [i \in 1 .. n |-> hidden'[i]] \in Seq(Computed)
      BY <3>1, <3>2 DEF n
    <3>4. QED
      BY <3>3 DEF n
  <2>4. Len([i \in 1 .. Len(hidden) |-> hidden'[i]]) = Len(hidden)
    BY <1>4
  <2>5. QED
    BY <2>2, <2>3, <2>4
<1>8. \A i \in 1 .. Len(hidden) :
        /\ hidden'[i].layer = layer + 1 /\ hidden'[i].own = hidden[i].own
        /\ hidden'[i].attended = [m \in 1 .. i |-> hidden[m].own]
  BY <1>6, Fields
<1>9. Entering(layer + 1, hidden')
  <2>1. ASSUME NEW i \in 1 .. Len(hidden)
        PROVE  [m \in 1 .. i |-> hidden[m].own] = [m \in 1 .. i |-> hidden'[m].own]
    <3>1. \A m \in 1 .. i : m \in 1 .. Len(hidden)
      OBVIOUS
    <3>2. QED
      BY <1>8, <3>1
  <2>2. \A i \in 1 .. Len(hidden) : hidden[i].own.pos = i - 1
    BY <1>4 DEF Entering
  <2>3. layer + 1 # 0
    BY <1>2
  <2>4. QED
    BY <1>7, <1>8, <2>1, <2>2, <2>3 DEF Entering
<1>10. \A j \in 1 .. Len(hidden) : hidden[j].own = kv'[0][j].own
  <2>1. 0 \in Layers
    BY LmForwardAssumption DEF Layers
  <2>2. CASE layer = 0
    BY <1>5, <2>2
  <2>3. CASE layer # 0
    <3>1. kv'[0] = kv[0]
      BY <1>5, <2>1, <2>3
    <3>2. layer > 0
      BY <1>2, <2>3
    <3>3. QED
      BY <1>3, <3>1, <3>2 DEF PrefillRows
  <2>4. QED
    BY <2>2, <2>3
<1>11. CachedRows'
  <2>1. SUFFICES
          ASSUME NEW l \in Layers
          PROVE  /\ Entering(l, kv'[l]) /\ Len(kv'[l]) = Cached(l)'
                 /\ \A j \in 1 .. Len(kv'[l]) : kv'[l][j].own = kv'[0][j].own
    BY DEF CachedRows
  <2>2. CASE l = layer
    <3>1. Cached(l)' = ncached
      BY <1>1, <1>2, <2>2 DEF Cached
    <3>2. QED
      BY <1>4, <1>5, <1>10, <2>2, <3>1
  <2>3. CASE l # layer
    <3>1. kv'[l] = kv[l]
      BY <1>5, <2>3
    <3>2. (l < layer') = (l < layer)
      BY <1>1, <1>2, <2>3 DEF Layers
    <3>3. Cached(l)' = Cached(l)
      BY <1>1, <3>2 DEF Cached
    <3>4. \A j \in 1 .. Len(kv[l]) : kv[l][j].own = kv'[0][j].own
      <4>1. CASE layer = 0
        <5>1. ~ (l < layer)
          BY <4>1 DEF Layers
        <5>2. Len(kv[l]) = 0
          BY <1>1, <1>3, <5>1 DEF CachedRows, Cached
        <5>3. QED
          BY <5>2
      <4>2. CASE layer # 0
        <5>1. 0 \in Layers
          BY LmForwardAssumption DEF Layers
        <5>2. kv'[0] = kv[0]
          BY <1>5, <4>2, <5>1
        <5>3. QED
          BY <1>3, <5>2 DEF CachedRows
      <4>3. QED
        BY <4>1, <4>2
    <3>5. QED
      BY <1>3, <3>1, <3>3, <3>4 DEF CachedRows
  <2>4. QED
    BY <2>2, <2>3
<1>12. PrefillRows'
  BY <1>1, <1>7, <1>8, <1>9, <1>10 DEF PrefillRows
<1>13. QED
  BY <1>1, <1>11, <1>12

LEMMA CInvPrefillEnd ==
  ASSUME CInv, PrefillReturn \/ PrefillThrow, ~ broken'
  PROVE  CachedRows' /\ pc' \in {"none", "idle"}
<1>1. CASE PrefillReturn
  <2>1. ~ broken /\ pc = "prefill" /\ pc' = "idle" /\ kv' = kv /\ ncached' = ncached
    BY <1>1 DEF PrefillReturn, End
  <2>2. layer = NLayers
    BY <1>1, LmForwardAssumption DEF PrefillReturn, MoreLayers, CInv, LInv, TypeOK
  <2>3. \A l \in Layers : l < layer
    BY <2>2, LmForwardAssumption DEF Layers
  <2>4. \A l \in Layers : Cached(l)' = Cached(l)
    BY <2>1, <2>3 DEF Cached
  <2>5. QED
    BY <2>1, <2>4, CachedStay
<1>2. CASE PrefillThrow
  <2>1. pc' = "none" /\ \A l \in Layers : kv'[l] = <<>>
    BY <1>2 DEF PrefillThrow, End
  <2>2. \A l \in Layers : Cached(l)' = 0
    BY <2>1 DEF Cached
  <2>3. QED
    BY <2>1, <2>2, EmptyEnters DEF CachedRows
<1>3. QED
  BY <1>1, <1>2

LEMMA CInvDecode ==
  ASSUME CInv, NEW e \in Embeds, Decode(e), ~ broken'
  PROVE  CachedRows' /\ DecodeRow' /\ pc' = "decode"
<1>1. /\ ~ broken /\ pc = "idle" /\ pc' = "decode" /\ layer' = 0 /\ kv' = kv
      /\ ncached' = ncached
  BY DEF Decode, Begin
<1>2. \A l \in Layers : Cached(l)' = Cached(l)
  BY <1>1, LmForwardAssumption DEF Cached, Layers
<1>3. CachedRows'
  BY <1>1, <1>2, CachedStay
<1>4. ncached \in Nat /\ <<e>> \in Seq(AllEmbeds) /\ Len(<<e>>) = 1 /\ <<e>>[1] = e
  BY EmbedsAreEmbeds DEF CInv, LInv, TypeOK
<1>5. hidden' = Inputs(RowsFrom(<<e>>, ncached))
  BY <1>4, OneRow DEF Decode, Begin, DecodePos
<1>6. hidden' \in Seq(Computed) /\ Len(hidden') = 1
  BY <1>4, <1>5, RowsTypes DEF AllEmbeds
<1>7. hidden'[1] = State(0, Row(e, ncached), <<>>)
  <2>1. hidden'[1] = State(0, Row(<<e>>[1], ncached + 1 - 1), <<>>)
    <3>1. \A i \in 1 .. Len(<<e>>) :
            Inputs(RowsFrom(<<e>>, ncached))[i] = State(0, Row(<<e>>[i], ncached + i - 1), <<>>)
      BY <1>4, RowsTypes DEF AllEmbeds
    <3>2. 1 \in 1 .. Len(<<e>>)
      BY <1>4
    <3>3. QED
      BY <1>5, <3>1, <3>2
  <2>2. ncached + 1 - 1 = ncached
    BY <1>4
  <2>3. QED
    BY <1>4, <2>1, <2>2
<1>8. /\ hidden'[1] \in Computed /\ hidden'[1].layer = 0
      /\ hidden'[1].own.pos = ncached /\ hidden'[1].attended = <<>>
  <2>1. hidden'[1] \in Computed
    BY <1>6
  <2>2. QED
    BY <1>7, <2>1, Fields
<1>9. DecodeRow'
  BY <1>1, <1>8 DEF DecodeRow
<1>10. QED
  BY <1>1, <1>3, <1>9

LEMMA CInvDecodeLayer ==
  ASSUME CInv, DecodeLayer, ~ broken'
  PROVE  CachedRows' /\ DecodeRow' /\ pc' = "decode"
<1> DEFINE past == kv[layer]
           h == hidden[1]
           all == past \o <<h>>
<1>1. /\ ~ broken /\ pc = "decode" /\ pc' = "decode"
      /\ layer' = layer + 1 /\ ncached' = ncached
  BY DEF DecodeLayer
<1>2. layer \in Layers /\ layer + 1 \in 0 .. NLayers /\ layer \in Nat /\ 0 \in Layers
  BY LayerStep, LmForwardAssumption DEF CInv, LInv, DecodeLayer, Layers
<1>3. CachedRows /\ DecodeRow
  BY <1>1 DEF CInv
<1>4. /\ hidden \in Seq(States) /\ Len(hidden) = 1 /\ ncached \in Nat
      /\ kv \in [Layers -> Seq(States)]
  BY <1>1 DEF CInv, LInv, Lengths, TypeOK
<1>5. h \in Computed /\ hidden = <<h>> /\ <<h>> \in Seq(Computed)
  BY <1>3, <1>4 DEF DecodeRow
<1>6. Len(past) = ncached /\ past \in Seq(Computed) /\ Entering(layer, past)
  <2>1. Cached(layer) = ncached
    BY <1>1, <1>2 DEF Cached
  <2>2. QED
    BY <1>2, <1>3, <2>1 DEF CachedRows, Entering
<1>7. /\ all \in Seq(Computed) /\ Len(all) = ncached + 1 /\ all[ncached + 1] = h
      /\ \A j \in 1 .. ncached : all[j] = past[j]
  BY <1>4, <1>5, <1>6
<1>8. /\ kv'[layer] = all
      /\ \A l \in Layers : l # layer => kv'[l] = kv[l]
  BY <1>2, <1>4, <1>5 DEF DecodeLayer, Appended
<1>9. \A j \in 1 .. ncached : past[j].own = kv[0][j].own
  BY <1>2, <1>3, <1>6 DEF CachedRows
<1>10. \A j \in 1 .. ncached + 1 : all[j].own = kv'[0][j].own
  <2>1. CASE layer = 0
    BY <1>8, <2>1
  <2>2. CASE layer # 0
    <3>1. kv'[0] = kv[0] /\ layer > 0
      BY <1>2, <1>8, <2>2
    <3>2. h.own = kv[0][ncached + 1].own
      BY <1>3, <3>1 DEF DecodeRow
    <3>3. \A j \in 1 .. ncached + 1 : j \in 1 .. ncached \/ j = ncached + 1
      BY <1>4
    <3>4. QED
      BY <1>7, <1>9, <3>1, <3>2, <3>3
  <2>3. QED
    BY <2>1, <2>2
<1>11. Entering(layer, all)
  <2>1. h.layer = layer /\ h.own.pos = Len(past)
    BY <1>3, <1>6 DEF DecodeRow
  <2>2. h.attended = IF layer = 0 THEN <<>>
                     ELSE [m \in 1 .. Len(past) + 1 |-> all[m].own]
    <3>1. CASE layer = 0
      BY <1>3, <3>1 DEF DecodeRow
    <3>2. CASE layer # 0
      <4>1. h.attended = [m \in 1 .. ncached + 1 |-> kv[0][m].own]
        BY <1>3, <3>2 DEF DecodeRow
      <4>2. kv'[0] = kv[0]
        BY <1>2, <1>8, <3>2
      <4>3. [m \in 1 .. ncached + 1 |-> kv[0][m].own] = [m \in 1 .. ncached + 1 |-> all[m].own]
        BY <1>10, <4>2
      <4>4. QED
        BY <1>6, <3>2, <4>1, <4>3
    <3>3. QED
      BY <3>1, <3>2
  <2>3. QED
    BY <1>5, <1>6, <2>1, <2>2, EnteringAppend
<1>12. hidden'[1] = State(layer + 1, h.own, [m \in 1 .. ncached + 1 |-> all[m].own])
       /\ hidden'[1] \in Computed
  <2>1. hidden' = LayerForward(layer, <<h>>, past, Len(past))
    BY <1>5, <1>6 DEF DecodeLayer
  <2>2. 1 \in 1 .. Len(<<h>>) /\ <<h>>[1] = h
    OBVIOUS
  <2>3. /\ LayerForward(layer, <<h>>, past, Len(past))[1]
             = State(layer + 1, <<h>>[1].own, [m \in 1 .. Len(past) + 1 |-> all[m].own])
        /\ State(layer + 1, <<h>>[1].own, [m \in 1 .. Len(past) + 1 |-> all[m].own]) \in Computed
    <3>1. \A i \in 1 .. Len(<<h>>) :
            /\ LayerForward(layer, <<h>>, past, Len(past))[i]
                 = State(layer + 1, <<h>>[i].own, [m \in 1 .. Len(past) + i |-> all[m].own])
            /\ State(layer + 1, <<h>>[i].own, [m \in 1 .. Len(past) + i |-> all[m].own])
                 \in Computed
      BY ZenonT(30), <1>2, <1>5, <1>6, <1>11, LayerForwardEnters
    <3>2. QED
      BY <2>2, <3>1
  <2>4. QED
    BY <1>6, <2>1, <2>2, <2>3
<1> HIDE DEF all, past, h
<1>13. CachedRows'
  <2>1. SUFFICES
          ASSUME NEW l \in Layers
          PROVE  /\ Entering(l, kv'[l]) /\ Len(kv'[l]) = Cached(l)'
                 /\ \A j \in 1 .. Len(kv'[l]) : kv'[l][j].own = kv'[0][j].own
    BY DEF CachedRows
  <2>2. CASE l = layer
    <3>1. Cached(l)' = ncached + 1
      BY <1>1, <1>2, <2>2 DEF Cached
    <3>2. QED
      BY <1>7, <1>8, <1>10, <1>11, <2>2, <3>1
  <2>3. CASE l # layer
    <3>1. kv'[l] = kv[l]
      BY <1>8, <2>3
    <3>2. (l < layer') = (l < layer)
      BY <1>1, <1>2, <2>3 DEF Layers
    <3>3. Cached(l)' = Cached(l)
      BY <1>1, <3>2 DEF Cached
    <3>4. \A j \in 1 .. Len(kv[l]) : kv[l][j].own = kv'[0][j].own
      <4>1. CASE layer = 0
        <5>1. ~ (l < layer)
          BY <4>1 DEF Layers
        <5>2. Len(kv[l]) = ncached
          BY <1>1, <1>3, <5>1 DEF CachedRows, Cached
        <5>3. \A j \in 1 .. ncached : kv'[0][j] = kv[0][j]
          BY <1>7, <1>8, <4>1 DEF past
        <5>4. QED
          BY <1>3, <5>2, <5>3 DEF CachedRows
      <4>2. CASE layer # 0
        <5>1. kv'[0] = kv[0]
          BY <1>2, <1>8, <4>2
        <5>2. QED
          BY <1>3, <5>1 DEF CachedRows
      <4>3. QED
        BY <4>1, <4>2
    <3>5. QED
      BY <1>3, <3>1, <3>3, <3>4 DEF CachedRows
  <2>4. QED
    BY <2>2, <2>3
<1>14. DecodeRow'
  <2>1. /\ hidden'[1].layer = layer + 1 /\ hidden'[1].own = h.own
        /\ hidden'[1].attended = [m \in 1 .. ncached + 1 |-> all[m].own]
    BY <1>12 DEF State
  <2>2. h.own.pos = ncached
    BY <1>3 DEF DecodeRow, h
  <2>3. h.own = kv'[0][ncached + 1].own
    <3>1. ncached + 1 \in 1 .. ncached + 1
      BY <1>4
    <3>2. QED
      BY <1>7, <1>10, <3>1
  <2>4. [m \in 1 .. ncached + 1 |-> all[m].own] = [m \in 1 .. ncached + 1 |-> kv'[0][m].own]
    BY <1>10
  <2>5. layer + 1 # 0
    BY <1>2
  <2>6. QED
    BY <1>1, <1>12, <2>1, <2>2, <2>3, <2>4, <2>5 DEF DecodeRow
<1>15. QED
  BY <1>1, <1>13, <1>14

LEMMA CInvDecodeEnd ==
  ASSUME CInv, DecodeReturn \/ DecodeThrow, ~ broken'
  PROVE  CachedRows' /\ pc' = "idle"
<1>1. ~ broken /\ pc = "decode" /\ pc' = "idle" /\ kv' = kv
  <2>1. CASE DecodeReturn
    BY <2>1 DEF DecodeReturn, End
  <2>2. CASE DecodeThrow
    BY <2>2 DEF DecodeThrow, End
  <2>3. QED
    BY <2>1, <2>2
<1>2. \A l \in Layers : Cached(l)' = Cached(l)
  <2>1. CASE DecodeReturn
    <3>1. layer = NLayers /\ ncached' = ncached + 1
      BY <2>1, LmForwardAssumption DEF DecodeReturn, MoreLayers, CInv, LInv, TypeOK
    <3>2. \A l \in Layers : l < layer
      BY <3>1, LmForwardAssumption DEF Layers
    <3>3. QED
      BY <1>1, <3>1, <3>2 DEF Cached
  <2>2. CASE DecodeThrow
    <3>1. ~ (layer > 0) /\ ncached' = ncached
      BY <2>2 DEF DecodeThrow
    <3>2. layer \in 0 .. NLayers /\ NLayers \in Nat
      BY LmForwardAssumption DEF CInv, LInv, TypeOK
    <3>3. \A l \in Layers : ~ (l < layer)
      BY <3>1, <3>2 DEF Layers
    <3>4. QED
      BY <1>1, <3>1, <3>3 DEF Cached
  <2>3. QED
    BY <2>1, <2>2
<1>3. QED
  BY <1>1, <1>2, CachedStay

(* extract_seg_output_embeddings_with_cache only reads the cache. *)
LEMMA CInvExtracts ==
  ASSUME CInv, ~ broken',
         (\E phrase \in Phrases : Extract(phrase)) \/ ExtractLayer \/ ExtractReturn
           \/ ExtractThrow \/ LogitsForHidden
  PROVE  CachedRows' /\ pc' \in {"idle", "extract"}
<1>1. /\ ~ broken /\ kv' = kv /\ ncached' = ncached
      /\ pc \in {"idle", "extract"} /\ pc' \in {"idle", "extract"}
  BY DEF Extract, ExtractLayer, ExtractReturn, ExtractThrow, LogitsForHidden, Begin, End
<1>2. \A l \in Layers : Cached(l)' = Cached(l)
  BY <1>1 DEF Cached
<1>3. QED
  BY <1>1, <1>2, CachedStay

LEMMA CInvStep ==
  ASSUME CInv, [Next]_vars
  PROVE  CInv'
<1>1. LInv'
  BY LInvStep DEF CInv
<1>2. CASE UNCHANGED vars
  BY <1>1, <1>2 DEF vars, CInv, CachedRows, Cached, PrefillRows, DecodeRow
<1>3. CASE Next
  <2>1. SUFFICES ASSUME ~ broken'
                 PROVE  /\ CachedRows'
                        /\ (pc' = "prefill" => PrefillRows')
                        /\ (pc' = "decode" => DecodeRow')
    BY <1>1 DEF CInv
  <2>2. CASE \E es \in Prefixes : Prefill(es)
    BY <2>1, <2>2, CInvPrefill
  <2>3. CASE PrefillLayer
    BY <2>1, <2>3, CInvPrefillLayer
  <2>4. CASE PrefillReturn \/ PrefillThrow
    BY <2>1, <2>4, CInvPrefillEnd
  <2>5. CASE \E e \in Embeds : Decode(e)
    BY <2>1, <2>5, CInvDecode
  <2>6. CASE DecodeLayer
    BY <2>1, <2>6, CInvDecodeLayer
  <2>7. CASE DecodeReturn \/ DecodeThrow
    BY <2>1, <2>7, CInvDecodeEnd
  <2>8. CASE (\E phrase \in Phrases : Extract(phrase)) \/ ExtractLayer \/ ExtractReturn
               \/ ExtractThrow \/ LogitsForHidden
    BY <2>1, <2>8, CInvExtracts
  <2>9. QED
    BY <1>3, <2>2, <2>3, <2>4, <2>5, <2>6, <2>7, <2>8 DEF Next
<1>4. QED
  BY <1>2, <1>3

(* Unless a decode_step has thrown half-way, every layer of the cache holds  *)
(* the same rows, entered in order, at consecutive positions, with as many  *)
(* more in the layers a running call has passed as it adds.                 *)
THEOREM CacheAlwaysPrefix == Spec => []CacheIsPrefix
<1>1. CInv => CacheIsPrefix
  <2>1. SUFFICES
          ASSUME CInv, ~ broken, NEW l \in Layers
          PROVE  /\ Len(kv[l]) = Cached(l)
                 /\ Coherent(l, kv[l])
                 /\ \A j \in 1 .. Len(kv[l]) :
                      kv[l][j].own.pos = j - 1 /\ kv[l][j].own = kv[0][j].own
    BY DEF CacheIsPrefix, Cached
  <2>2. /\ Entering(l, kv[l]) /\ Len(kv[l]) = Cached(l)
        /\ \A j \in 1 .. Len(kv[l]) : kv[l][j].own = kv[0][j].own
    BY <2>1 DEF CInv, CachedRows
  <2>3. \A j \in 1 .. Len(kv[l]) : kv[l][j].own.pos = j - 1
    BY <2>2 DEF Entering
  <2>4. QED
    BY <2>2, <2>3, EnteringIsCoherent
<1>2. QED
  BY <1>1, CInvInit, CInvStep, PTL DEF Spec

-----------------------------------------------------------------------------
(***************************************************************************)
(* What run computes.                                                      *)
(***************************************************************************)

Placed(rows) == rows \in Seq(RowSet) /\ \A j \in 1 .. Len(rows) : rows[j].pos = j - 1

(* The states of the rows that come after the first n, entering layer l of  *)
(* a pass over them all.                                                    *)
AtLayer(l, rows, n) ==
  [i \in 1 .. Len(rows) - n |->
     State(l, rows[n + i], IF l = 0 THEN <<>> ELSE [m \in 1 .. n + i |-> rows[m]])]

LEMMA AtLayerIs ==
  ASSUME NEW rows, Placed(rows), NEW n \in 0 .. Len(rows), NEW l \in 0 .. NLayers
  PROVE  AtLayer(l, rows, n) \in Seq(Computed) /\ Len(AtLayer(l, rows, n)) = Len(rows) - n
<1>1. /\ Len(rows) \in Nat /\ Len(rows) - n \in Nat
      /\ \A j \in 1 .. Len(rows) : rows[j] \in RowSet
  BY DEF Placed
<1>2. ASSUME NEW i \in 1 .. Len(rows) - n
      PROVE  State(l, rows[n + i], IF l = 0 THEN <<>> ELSE [m \in 1 .. n + i |-> rows[m]])
               \in Computed
  <2>1. n + i \in 1 .. Len(rows) /\ n + i \in Nat
    BY <1>1
  <2>2. [m \in 1 .. n + i |-> rows[m]] \in Seq(RowSet)
    BY <1>1, <2>1
  <2>3. <<>> \in Seq(RowSet)
    OBVIOUS
  <2>4. QED
    BY <1>1, <2>1, <2>2, <2>3 DEF State, Computed
<1>3. AtLayer(l, rows, n) \in [1 .. Len(rows) - n -> Computed]
  BY <1>2, Zenon DEF AtLayer
<1>4. QED
  BY <1>1, <1>3

(* The states of all the rows. *)
LEMMA AllAtLayer ==
  ASSUME NEW rows, Placed(rows), NEW l \in 0 .. NLayers
  PROVE  /\ AtLayer(l, rows, 0) \in Seq(Computed) /\ Len(AtLayer(l, rows, 0)) = Len(rows)
         /\ \A i \in 1 .. Len(rows) :
              /\ AtLayer(l, rows, 0)[i].layer = l
              /\ AtLayer(l, rows, 0)[i].own = rows[i]
              /\ AtLayer(l, rows, 0)[i].attended =
                   IF l = 0 THEN <<>> ELSE [m \in 1 .. i |-> rows[m]]
<1>1. Len(rows) \in Nat /\ 0 \in 0 .. Len(rows) /\ Len(rows) - 0 = Len(rows)
  BY DEF Placed
<1>2. AtLayer(l, rows, 0) \in Seq(Computed) /\ Len(AtLayer(l, rows, 0)) = Len(rows) - 0
  BY <1>1, AtLayerIs
<1>3. ASSUME NEW i \in 1 .. Len(rows)
      PROVE  AtLayer(l, rows, 0)[i]
               = State(l, rows[i], IF l = 0 THEN <<>> ELSE [m \in 1 .. i |-> rows[m]])
  <2>1. i \in 1 .. Len(rows) - 0 /\ 0 + i = i
    BY <1>1
  <2>2. AtLayer(l, rows, 0)[i]
          = State(l, rows[0 + i], IF l = 0 THEN <<>> ELSE [m \in 1 .. 0 + i |-> rows[m]])
    BY <2>1 DEF AtLayer
  <2>3. QED
    BY <2>1, <2>2
<1>4. ASSUME NEW i \in 1 .. Len(rows)
      PROVE  /\ AtLayer(l, rows, 0)[i].layer = l
             /\ AtLayer(l, rows, 0)[i].own = rows[i]
             /\ AtLayer(l, rows, 0)[i].attended =
                  IF l = 0 THEN <<>> ELSE [m \in 1 .. i |-> rows[m]]
  <2> DEFINE rest == IF l = 0 THEN <<>> ELSE [m \in 1 .. i |-> rows[m]]
  <2>1. AtLayer(l, rows, 0)[i] = State(l, rows[i], rest)
    BY <1>3
  <2> HIDE DEF rest
  <2>2. /\ AtLayer(l, rows, 0)[i].layer = l /\ AtLayer(l, rows, 0)[i].own = rows[i]
        /\ AtLayer(l, rows, 0)[i].attended = rest
    BY <2>1, Fields
  <2>3. QED
    BY <2>2 DEF rest
<1>5. QED
  BY <1>1, <1>2, <1>4

LEMMA PassEnters ==
  ASSUME NEW rows, Placed(rows), NEW l \in 0 .. NLayers
  PROVE  Entering(l, AtLayer(l, rows, 0))
<1> DEFINE kvs == AtLayer(l, rows, 0)
<1>1. /\ kvs \in Seq(Computed) /\ Len(kvs) = Len(rows)
      /\ \A i \in 1 .. Len(rows) :
           /\ kvs[i].layer = l /\ kvs[i].own = rows[i]
           /\ kvs[i].attended = IF l = 0 THEN <<>> ELSE [m \in 1 .. i |-> rows[m]]
  BY AllAtLayer
<1> HIDE DEF kvs
<1>2. \A i \in 1 .. Len(rows) : \A m \in 1 .. i : m \in 1 .. Len(rows)
  BY DEF Placed
<1>3. \A i \in 1 .. Len(rows) : kvs[i].own.pos = i - 1
  BY <1>1 DEF Placed
<1>4. ASSUME NEW i \in 1 .. Len(rows)
      PROVE  [m \in 1 .. i |-> rows[m]] = [m \in 1 .. i |-> kvs[m].own]
  BY <1>1, <1>2
<1>5. Entering(l, kvs)
  BY <1>1, <1>3, <1>4 DEF Entering
<1>6. QED
  BY <1>5 DEF kvs

LEMMA Joining ==
  ASSUME NEW S, NEW s \in Seq(S), NEW t \in Seq(S)
  PROVE  /\ s \o t \in Seq(S) /\ Len(s \o t) = Len(s) + Len(t)
         /\ \A j \in 1 .. Len(s) : (s \o t)[j] = s[j]
         /\ \A i \in 1 .. Len(t) : (s \o t)[Len(s) + i] = t[i]
OBVIOUS

(* A layer on new rows, the others in the cache, is a layer of the pass.    *)
LEMMA LayerAt ==
  ASSUME NEW rows, Placed(rows), NEW n \in 0 .. Len(rows), NEW l \in Layers,
         NEW past \in Seq(Computed), Len(past) = n,
         \A j \in 1 .. n : past[j] = AtLayer(l, rows, 0)[j]
  PROVE  LayerForward(l, AtLayer(l, rows, n), past, n) = AtLayer(l + 1, rows, n)
<1> DEFINE new == AtLayer(l, rows, n)
           all == AtLayer(l, rows, 0)
           k == Len(rows) - n
<1>1. /\ Len(rows) \in Nat /\ n \in Nat /\ k \in Nat /\ 0 \in 0 .. Len(rows)
      /\ l \in 0 .. NLayers /\ l + 1 \in 0 .. NLayers /\ l + 1 # 0
      /\ n + k = Len(rows) /\ Len(rows) - 0 = Len(rows)
  BY LmForwardAssumption DEF Placed, Layers
<1>2. /\ new \in Seq(Computed) /\ Len(new) = k
      /\ all \in Seq(Computed) /\ Len(all) = Len(rows)
  <2>1. new \in Seq(Computed) /\ Len(new) = k
    BY <1>1, AtLayerIs
  <2>2. QED
    BY <1>1, <2>1, AllAtLayer
<1>3. \A i \in 1 .. k : new[i] = all[n + i] /\ new[i].own = rows[n + i]
  <2>1. ASSUME NEW i \in 1 .. k
        PROVE  new[i] = all[n + i] /\ new[i].own = rows[n + i]
    <3>1. n + i \in 1 .. Len(rows) - 0 /\ 0 + (n + i) = n + i
      BY <1>1
    <3>2. /\ new[i] = State(l, rows[n + i], IF l = 0 THEN <<>> ELSE [m \in 1 .. n + i |-> rows[m]])
          /\ all[n + i] = State(l, rows[0 + (n + i)],
                               IF l = 0 THEN <<>> ELSE [m \in 1 .. 0 + (n + i) |-> rows[m]])
      BY <3>1, Zenon DEF AtLayer
    <3>3. new[i] = all[n + i]
      BY <3>1, <3>2, Zenon
    <3>4. new[i].own = rows[n + i]
      BY <3>2, Fields
    <3>5. QED
      BY <3>3, <3>4
  <2>2. QED
    BY <2>1
<1>4. \A m \in 1 .. Len(rows) : all[m].own = rows[m]
  BY <1>1, AllAtLayer
<1> HIDE DEF new, all, k
<1>5. past \o new = all
  <2>1. /\ past \o new \in Seq(Computed) /\ Len(past \o new) = Len(rows)
        /\ \A j \in 1 .. n : (past \o new)[j] = past[j]
        /\ \A i \in 1 .. k : (past \o new)[n + i] = new[i]
    <3>1. past \in Seq(Computed) /\ new \in Seq(Computed)
      BY <1>2
    <3>2. past \o new \in Seq(Computed)
      BY <3>1, Joining
    <3>3. Len(past \o new) = Len(past) + Len(new)
      BY <3>1, Joining
    <3>4. \A j \in 1 .. Len(past) : (past \o new)[j] = past[j]
      BY <3>1, Joining
    <3>5. \A i \in 1 .. Len(new) : (past \o new)[Len(past) + i] = new[i]
      BY <3>1, Joining
    <3>6. Len(past) = n /\ Len(new) = k /\ n + k = Len(rows)
      BY <1>1, <1>2
    <3>7. QED
      BY <3>2, <3>3, <3>4, <3>5, <3>6
  <2>2. ASSUME NEW j \in 1 .. Len(rows) PROVE (past \o new)[j] = all[j]
    <3>1. CASE j \in 1 .. n
      BY <2>1, <3>1 DEF all
    <3>2. CASE j \notin 1 .. n
      <4>1. j - n \in 1 .. k /\ n + (j - n) = j
        BY <1>1, <3>2
      <4>2. QED
        BY <1>3, <2>1, <4>1
    <3>3. QED
      BY <3>1, <3>2
  <2>3. QED
    BY <1>2, <2>1, <2>2, SeqEqual
<1>6. Entering(l, past \o new)
  BY <1>1, <1>5, PassEnters DEF all
<1>7. \A i \in 1 .. k :
        LayerForward(l, new, past, n)[i]
          = State(l + 1, new[i].own, [m \in 1 .. n + i |-> (past \o new)[m].own])
  BY <1>2, <1>6, LayerForwardEnters
<1>8. ASSUME NEW i \in 1 .. k
      PROVE  [m \in 1 .. n + i |-> (past \o new)[m].own] = [m \in 1 .. n + i |-> rows[m]]
  <2>1. \A m \in 1 .. n + i : m \in 1 .. Len(rows)
    BY <1>1
  <2>2. QED
    BY <1>4, <1>5, <2>1
<1>9. LayerForward(l, new, past, n) = [i \in 1 .. k |-> LayerForward(l, new, past, n)[i]]
  BY <1>2 DEF LayerForward
<1>10. AtLayer(l + 1, rows, n)
         = [i \in 1 .. k |-> State(l + 1, rows[n + i], [m \in 1 .. n + i |-> rows[m]])]
  BY <1>1 DEF AtLayer, k
<1>11. \A i \in 1 .. k :
         LayerForward(l, new, past, n)[i]
           = State(l + 1, rows[n + i], [m \in 1 .. n + i |-> rows[m]])
  BY <1>3, <1>7, <1>8
<1>12. LayerForward(l, new, past, n) = AtLayer(l + 1, rows, n)
  BY <1>9, <1>10, <1>11
<1>13. QED
  BY <1>12 DEF new

(* The layers of run, and what enters each of them. *)
Layered(rows, h) ==
  [l \in 0 .. NLayers |->
     IF l = 0 THEN Inputs(rows) ELSE LayerForward(l - 1, h[l - 1], <<>>, 0)]

Pass(rows) == CHOOSE h : h = Layered(rows, h)

PassIs(rows) == [l \in 0 .. NLayers |-> AtLayer(l, rows, 0)]

LEMMA PassStep ==
  ASSUME NEW rows, Placed(rows), NEW l \in 1 .. NLayers
  PROVE  LayerForward(l - 1, AtLayer(l - 1, rows, 0), <<>>, 0) = AtLayer(l, rows, 0)
<1>1. l - 1 \in Layers /\ (l - 1) + 1 = l /\ 0 \in 0 .. Len(rows)
  BY LmForwardAssumption DEF Layers, Placed
<1>2. <<>> \in Seq(Computed) /\ Len(<<>>) = 0 /\ 1 .. 0 = {}
  OBVIOUS
<1>3. LayerForward(l - 1, AtLayer(l - 1, rows, 0), <<>>, 0) = AtLayer((l - 1) + 1, rows, 0)
  BY <1>1, <1>2, LayerAt
<1>4. QED
  BY <1>1, <1>3

LEMMA PassBegins ==
  ASSUME NEW rows, Placed(rows)
  PROVE  Inputs(rows) = AtLayer(0, rows, 0)
<1>1. Len(rows) \in Nat /\ Len(rows) - 0 = Len(rows)
  BY DEF Placed
<1>2. \A i \in 1 .. Len(rows) : 0 + i = i
  OBVIOUS
<1>3. QED
  BY <1>1, <1>2 DEF Inputs, AtLayer

LEMMA PassRuns ==
  ASSUME NEW rows, Placed(rows)
  PROVE  PassIs(rows) = Layered(rows, PassIs(rows))
<1>1. NLayers \in Nat
  BY LmForwardAssumption
<1>2. ASSUME NEW l \in 0 .. NLayers
      PROVE  AtLayer(l, rows, 0)
               = IF l = 0 THEN Inputs(rows) ELSE LayerForward(l - 1, PassIs(rows)[l - 1], <<>>, 0)
  <2>1. CASE l = 0
    BY <2>1, PassBegins
  <2>2. CASE l # 0
    <3>1. l \in 1 .. NLayers /\ l - 1 \in 0 .. NLayers
      BY <1>1, <2>2
    <3>2. PassIs(rows)[l - 1] = AtLayer(l - 1, rows, 0)
      BY <3>1 DEF PassIs
    <3>3. QED
      BY <2>2, <3>1, <3>2, PassStep
  <2>3. QED
    BY <2>1, <2>2
<1>3. QED
  BY <1>2 DEF PassIs, Layered

(* run takes every row, through every layer, to itself and what is before it.*)
LEMMA RunIs ==
  ASSUME NEW rows, Placed(rows)
  PROVE  Run(rows) = AtLayer(NLayers, rows, 0)
<1> DEFINE T == {l \in Nat : l <= NLayers => Pass(rows)[l] = AtLayer(l, rows, 0)}
<1>1. NLayers \in Nat
  BY LmForwardAssumption
<1>2. Pass(rows) = Layered(rows, Pass(rows))
  BY PassRuns DEF Pass
<1>3. \A l \in 0 .. NLayers :
        Pass(rows)[l]
          = IF l = 0 THEN Inputs(rows) ELSE LayerForward(l - 1, Pass(rows)[l - 1], <<>>, 0)
  BY <1>2 DEF Layered
<1>4. 0 \in T
  BY <1>1, <1>3, PassBegins
<1>5. ASSUME NEW l \in Nat, l \in T PROVE l + 1 \in T
  <2>1. SUFFICES ASSUME l + 1 <= NLayers PROVE Pass(rows)[l + 1] = AtLayer(l + 1, rows, 0)
    OBVIOUS
  <2>2. l + 1 \in 0 .. NLayers /\ l + 1 \in 1 .. NLayers /\ l + 1 # 0 /\ (l + 1) - 1 = l
    BY <1>1, <2>1
  <2>3. Pass(rows)[l] = AtLayer(l, rows, 0)
    BY <1>1, <1>5, <2>1
  <2>4. Pass(rows)[l + 1] = LayerForward(l, Pass(rows)[l], <<>>, 0)
    BY <1>3, <2>2
  <2>5. LayerForward(l, AtLayer(l, rows, 0), <<>>, 0) = AtLayer(l + 1, rows, 0)
    BY <2>2, PassStep
  <2>6. QED
    BY <2>3, <2>4, <2>5
<1>6. NLayers \in T
  <2> HIDE DEF T
  <2>1. QED
    BY <1>1, <1>4, <1>5, SetInduction
<1>7. Run(rows) = Pass(rows)[NLayers]
  BY DEF Run, Pass, Layered
<1>8. QED
  BY <1>1, <1>6, <1>7

(* The contract runs the same layers. *)
LEMMA SameRun ==
  ASSUME NEW rows
  PROVE  NoCache!Run(rows) = Run(rows)
BY DEF NoCache!Run, Run, NoCache!Inputs, Inputs, NoCache!LayerForward, LayerForward,
   NoCache!Attend, Attend, NoCache!Coherent, Coherent, NoCache!Owns, Owns, NoCache!State, State

-----------------------------------------------------------------------------
(***************************************************************************)
(* Calls on the cache answer as run does.                                  *)
(***************************************************************************)

LEMMA FirstLayer == 0 \in Layers /\ 0 \in 0 .. NLayers /\ NLayers \in 0 .. NLayers
BY LmForwardAssumption DEF Layers

(* The rows of a context followed by new ones. *)
LEMMA NewRowsPlaced ==
  ASSUME NEW ctx, Placed(ctx), NEW es \in Seq(AllEmbeds)
  PROVE  LET rows == ctx \o RowsFrom(es, Len(ctx))
         IN  /\ Placed(rows) /\ Len(rows) = Len(ctx) + Len(es) /\ Len(ctx) \in 0 .. Len(rows)
             /\ \A j \in 1 .. Len(ctx) : rows[j] = ctx[j]
             /\ \A i \in 1 .. Len(es) : rows[Len(ctx) + i] = Row(es[i], Len(ctx) + i - 1)
<1> DEFINE n == Len(ctx)
           new == RowsFrom(es, n)
           rows == ctx \o new
<1>1. n \in Nat /\ ctx \in Seq(RowSet) /\ Len(es) \in Nat
  BY DEF Placed
<1>2. ASSUME NEW i \in 1 .. Len(es) PROVE Row(es[i], n + i - 1) \in RowSet
  <2>1. es[i] \in AllEmbeds /\ n + i - 1 \in Nat
    BY <1>1
  <2>2. QED
    BY <2>1 DEF Row, RowSet, AllEmbeds
<1>3. new \in Seq(RowSet) /\ Len(new) = Len(es)
  BY <1>1, <1>2 DEF RowsFrom
<1>4. \A i \in 1 .. Len(es) : new[i] = Row(es[i], n + i - 1)
  BY DEF RowsFrom
<1> HIDE DEF new, n
<1>5. /\ rows \in Seq(RowSet) /\ Len(rows) = n + Len(es) /\ n \in 0 .. Len(rows)
      /\ \A j \in 1 .. n : rows[j] = ctx[j]
      /\ \A i \in 1 .. Len(es) : rows[n + i] = new[i]
  BY <1>1, <1>3 DEF n
<1> HIDE DEF rows
<1>6. ASSUME NEW j \in 1 .. Len(rows) PROVE rows[j].pos = j - 1
  <2>1. CASE j \in 1 .. n
    BY <1>5, <2>1 DEF Placed, n
  <2>2. CASE j \notin 1 .. n
    <3>1. j - n \in 1 .. Len(es) /\ n + (j - n) = j
      BY <1>1, <1>5, <2>2
    <3>2. rows[j] = Row(es[j - n], n + (j - n) - 1)
      BY <1>4, <1>5, <3>1
    <3>3. rows[j].pos = n + (j - n) - 1
      BY <3>2, Fields
    <3>4. QED
      BY <1>1, <3>3
  <2>3. QED
    BY <2>1, <2>2
<1>7. Placed(rows)
  BY <1>5, <1>6 DEF Placed
<1>8. \A i \in 1 .. Len(es) : rows[n + i] = Row(es[i], n + i - 1)
  BY <1>4, <1>5
<1>9. QED
  BY <1>5, <1>7, <1>8 DEF rows, new, n

(* What a call begins with are the new rows before the first layer. *)
LEMMA BeginsAt ==
  ASSUME NEW ctx, Placed(ctx), NEW es \in Seq(AllEmbeds)
  PROVE  Inputs(RowsFrom(es, Len(ctx)))
           = AtLayer(0, ctx \o RowsFrom(es, Len(ctx)), Len(ctx))
<1> DEFINE n == Len(ctx)
           rows == ctx \o RowsFrom(es, n)
<1>1. /\ Len(rows) = n + Len(es) /\ n \in Nat
      /\ \A i \in 1 .. Len(es) : rows[n + i] = Row(es[i], n + i - 1)
  BY NewRowsPlaced DEF Placed
<1>2. Len(rows) - n = Len(es)
  BY <1>1
<1> HIDE DEF rows
<1>3. AtLayer(0, rows, n) = [i \in 1 .. Len(es) |-> State(0, Row(es[i], n + i - 1), <<>>)]
  BY <1>1, <1>2 DEF AtLayer
<1>4. Inputs(RowsFrom(es, n)) = [i \in 1 .. Len(es) |-> State(0, Row(es[i], n + i - 1), <<>>)]
  BY DEF RowsFrom, Inputs
<1>5. QED
  BY <1>3, <1>4 DEF rows

(* Counted from the first row on or from the first new one, a state is the  *)
(* same.                                                                    *)
LEMMA CountedFrom ==
  ASSUME NEW rows, Placed(rows), NEW n \in 0 .. Len(rows), NEW l,
         NEW i \in 1 .. Len(rows) - n
  PROVE  AtLayer(l, rows, n)[i] = AtLayer(l, rows, 0)[n + i]
<1>1. n + i \in 1 .. Len(rows) - 0 /\ 0 + (n + i) = n + i
  BY DEF Placed
<1>2. QED
  BY <1>1 DEF AtLayer

(* The states that enter a layer are determined by their rows. *)
LEMMA EnteringIs ==
  ASSUME NEW rows, Placed(rows), NEW l \in 0 .. NLayers, NEW kvs, Entering(l, kvs),
         Len(kvs) <= Len(rows), \A j \in 1 .. Len(kvs) : kvs[j].own = rows[j]
  PROVE  \A j \in 1 .. Len(kvs) : kvs[j] = AtLayer(l, rows, 0)[j]
<1>1. kvs \in Seq(Computed) /\ Len(kvs) \in Nat /\ Len(rows) \in Nat
  BY DEF Entering, Placed
<1>2. TAKE j \in 1 .. Len(kvs)
<1> DEFINE all == AtLayer(l, rows, 0)
           rest == IF l = 0 THEN <<>> ELSE [m \in 1 .. j |-> rows[m]]
<1>3. j \in 1 .. Len(rows) /\ \A m \in 1 .. j : m \in 1 .. Len(kvs)
  BY <1>1
<1>4. all[j].layer = l /\ all[j].own = rows[j] /\ all[j].attended = rest /\ all[j] \in Computed
  BY <1>3, AllAtLayer
<1>5. [m \in 1 .. j |-> kvs[m].own] = [m \in 1 .. j |-> rows[m]]
  BY <1>3
<1>6. kvs[j].layer = l /\ kvs[j].own = rows[j] /\ kvs[j].attended = rest
  BY <1>5 DEF Entering
<1> HIDE DEF all, rest
<1>7. kvs[j] \in Computed
  BY <1>1
<1>8. \A s, t \in Computed :
        s.layer = t.layer /\ s.own = t.own /\ s.attended = t.attended => s = t
  BY DEF Computed
<1>9. kvs[j] = all[j]
  BY <1>4, <1>6, <1>7, <1>8
<1>10. QED
  BY <1>9 DEF all

(* The embeddings a running call may have been given, and all its rows. *)
NewEmbeds ==
  CASE pc = "prefill" -> Prefixes
    [] pc = "decode"  -> {<<e>> : e \in Embeds}
    [] OTHER          -> {phrase \o Injected : phrase \in Phrases}

Whole(es) == Context \o RowsFrom(es, Len(Context))

(* A running call has its new rows at the layer it is at. *)
Running ==
  pc \in {"prefill", "decode", "extract"} =>
    \E es \in NewEmbeds : hidden = AtLayer(layer, Whole(es), Len(Context))

RInv ==
  /\ CInv
  /\ pc \in {"none", "prefill"} => ~ broken
  /\ ~ broken => Running

LEMMA NewEmbedsType ==
  ASSUME pc \in {"prefill", "decode", "extract"}
  PROVE  NewEmbeds \subseteq Seq(AllEmbeds)
<1>1. CASE pc = "prefill"
  BY <1>1, EmbedsAreEmbeds DEF NewEmbeds
<1>2. CASE pc = "decode"
  BY <1>2, EmbedsAreEmbeds DEF NewEmbeds
<1>3. CASE pc = "extract"
  BY <1>3, EmbedsAreEmbeds DEF NewEmbeds
<1>4. QED
  BY <1>1, <1>2, <1>3

(* The context is what the first layer has of the rows that count. *)
ContextRows ==
  /\ Placed(Context)
  /\ pc \in {"idle", "decode", "extract"} =>
       /\ Len(Context) = ncached /\ ncached \in Nat
       /\ \A j \in 1 .. ncached : Context[j] = kv[0][j].own

LEMMA ContextIs == CInv /\ ~ broken => ContextRows
<1> SUFFICES ASSUME CInv, ~ broken PROVE ContextRows
  OBVIOUS
<1>1. CASE pc \in {"none", "prefill"}
  BY <1>1 DEF ContextRows, Context, Placed
<1>2. CASE pc \in {"idle", "decode", "extract"}
  <2>1. Entering(0, kv[0]) /\ Len(kv[0]) >= ncached /\ ncached \in Nat
    BY <1>2, FirstLayer DEF CInv, LInv, Lengths, TypeOK, CachedRows
  <2>2. /\ kv[0] \in Seq(Computed) /\ Len(kv[0]) \in Nat
        /\ \A j \in 1 .. Len(kv[0]) : kv[0][j].own.pos = j - 1
    BY <2>1 DEF Entering
  <2>3. \A j \in 1 .. ncached : j \in 1 .. Len(kv[0]) /\ kv[0][j] \in Computed
    BY <2>1, <2>2
  <2>4. /\ SubSeq(kv[0], 1, ncached) \in Seq(Computed) /\ Len(SubSeq(kv[0], 1, ncached)) = ncached
        /\ \A j \in 1 .. ncached : SubSeq(kv[0], 1, ncached)[j] = kv[0][j]
    BY <2>1, <2>2
  <2>5. Context = [j \in 1 .. ncached |-> kv[0][j].own]
    BY <1>2, <2>4 DEF Context, Owns
  <2>6. \A j \in 1 .. ncached : kv[0][j].own \in RowSet
    BY <2>3 DEF Computed
  <2>7. Context \in Seq(RowSet) /\ Len(Context) = ncached
    BY <2>1, <2>5, <2>6
  <2>8. \A j \in 1 .. ncached : Context[j] = kv[0][j].own /\ kv[0][j].own.pos = j - 1
    BY <2>2, <2>3, <2>5
  <2>9. QED
    BY <2>1, <2>7, <2>8 DEF ContextRows, Placed
<1>3. QED
  BY <1>1, <1>2 DEF CInv, LInv, TypeOK

(* It stays as long as the counted rows of the first layer stay. *)
LEMMA ContextStays ==
  ASSUME CInv, CInv', ~ broken, ~ broken',
         pc \in {"idle", "decode", "extract"}, pc' \in {"idle", "decode", "extract"},
         ncached' = ncached, \A j \in 1 .. ncached : kv'[0][j].own = kv[0][j].own
  PROVE  Context' = Context
<1>1. /\ Context \in Seq(RowSet) /\ Len(Context) = ncached
      /\ \A j \in 1 .. ncached : Context[j] = kv[0][j].own
  BY ContextIs DEF ContextRows, Placed
<1>2. ContextRows'
  BY ContextIs, PTL
<1>3. /\ Context' \in Seq(RowSet) /\ Len(Context') = ncached
      /\ \A j \in 1 .. ncached : Context'[j] = kv'[0][j].own
  BY <1>2 DEF ContextRows, Placed
<1>4. QED
  BY <1>1, <1>3, SeqEqual

(* Where a call on the cache is, a layer has the K and V of the context.     *)
LEMMA PastIs ==
  ASSUME CInv, ~ broken, pc \in {"decode", "extract"}, MoreLayers(layer),
         NEW es \in Seq(AllEmbeds)
  PROVE  /\ kv[layer] \in Seq(Computed) /\ Len(kv[layer]) = ncached
         /\ \A j \in 1 .. ncached : kv[layer][j] = AtLayer(layer, Whole(es), 0)[j]
<1>1. layer \in Layers /\ layer \in Nat /\ layer \in 0 .. NLayers
  BY LayerStep, LmForwardAssumption DEF CInv, LInv, Layers
<1>2. Cached(layer) = ncached
  BY <1>1 DEF Cached
<1>3. /\ Entering(layer, kv[layer]) /\ Len(kv[layer]) = ncached
      /\ \A j \in 1 .. ncached : kv[layer][j].own = kv[0][j].own
  BY <1>1, <1>2 DEF CInv, CachedRows
<1>4. /\ Placed(Context) /\ Len(Context) = ncached /\ ncached \in Nat
      /\ \A j \in 1 .. ncached : Context[j] = kv[0][j].own
  BY ContextIs DEF ContextRows
<1>5. /\ Placed(Whole(es)) /\ ncached <= Len(Whole(es))
      /\ \A j \in 1 .. ncached : Whole(es)[j] = Context[j]
  <2>1. /\ Placed(Whole(es)) /\ Len(Context) \in 0 .. Len(Whole(es))
        /\ \A j \in 1 .. Len(Context) : Whole(es)[j] = Context[j]
    BY <1>4, NewRowsPlaced DEF Whole
  <2>2. QED
    BY <1>4, <2>1
<1>6. \A j \in 1 .. Len(kv[layer]) : kv[layer][j].own = Whole(es)[j]
  BY <1>3, <1>4, <1>5
<1>7. \A j \in 1 .. Len(kv[layer]) : kv[layer][j] = AtLayer(layer, Whole(es), 0)[j]
  BY <1>1, <1>3, <1>5, <1>6, EnteringIs
<1>8. QED
  BY <1>3, <1>7 DEF Entering

LEMMA RunningBegins ==
  ASSUME Placed(Context)', NEW es \in Seq(AllEmbeds), es \in NewEmbeds', layer' = 0,
         hidden' = Inputs(RowsFrom(es, Len(Context')))
  PROVE  Running'
<1>1. hidden' = AtLayer(0, Context' \o RowsFrom(es, Len(Context')), Len(Context'))
  BY BeginsAt DEF Placed
<1>2. QED
  BY <1>1 DEF Running, Whole

LEMMA RunningGoesOn ==
  ASSUME CInv, ~ broken, Running, pc \in {"prefill", "decode", "extract"}, MoreLayers(layer),
         pc' = pc, Context' = Context, layer' = layer + 1,
         NEW past \in Seq(Computed), Len(past) = Len(Context),
         \A es \in Seq(AllEmbeds) : \A j \in 1 .. Len(Context) :
            past[j] = AtLayer(layer, Whole(es), 0)[j],
         hidden' = LayerForward(layer, hidden, past, Len(Context))
  PROVE  Running'
<1>1. PICK es \in NewEmbeds : hidden = AtLayer(layer, Whole(es), Len(Context))
  BY DEF Running
<1>2. es \in Seq(AllEmbeds)
  BY NewEmbedsType
<1>3. layer \in Layers
  BY LayerStep DEF CInv, LInv
<1>4. Placed(Context)
  BY ContextIs DEF ContextRows
<1>5. Placed(Whole(es)) /\ Len(Context) \in 0 .. Len(Whole(es))
  BY <1>2, <1>4, NewRowsPlaced DEF Whole
<1>6. hidden' = AtLayer(layer + 1, Whole(es), Len(Context))
  BY <1>1, <1>2, <1>3, <1>5, LayerAt
<1>7. Whole(es)' = Whole(es) /\ es \in NewEmbeds'
  BY DEF Whole, NewEmbeds
<1>8. QED
  BY <1>6, <1>7 DEF Running

(* At its end a call has the last states of run. *)
LEMMA RunningEnds ==
  ASSUME CInv, ~ broken, Running, pc \in {"prefill", "decode", "extract"}, ~ MoreLayers(layer)
  PROVE  \E es \in NewEmbeds :
           LET rows == Whole(es)
           IN  /\ Placed(rows) /\ Len(rows) = Len(Context) + Len(es)
               /\ Len(hidden) = Len(es) /\ Len(Run(rows)) = Len(rows)
               /\ Run(rows) \in Seq(Computed)
               /\ \A i \in 1 .. Len(es) :
                    /\ hidden[i] = Run(rows)[Len(Context) + i]
                    /\ hidden[i].own = rows[Len(Context) + i]
<1>1. PICK es \in NewEmbeds : hidden = AtLayer(layer, Whole(es), Len(Context))
  BY DEF Running
<1>2. es \in Seq(AllEmbeds) /\ Placed(Context)
  BY NewEmbedsType, ContextIs DEF ContextRows
<1>3. layer = NLayers
  BY LmForwardAssumption DEF MoreLayers, CInv, LInv, TypeOK
<1> DEFINE rows == Whole(es)
           n == Len(Context)
<1>4. /\ Placed(rows) /\ Len(rows) = n + Len(es) /\ n \in 0 .. Len(rows)
      /\ n \in Nat /\ Len(es) \in Nat
  BY <1>2, NewRowsPlaced DEF Whole, Placed
<1>5. Run(rows) = AtLayer(NLayers, rows, 0)
  BY <1>4, RunIs
<1>6. Run(rows) \in Seq(Computed) /\ Len(Run(rows)) = Len(rows)
  BY <1>4, <1>5, AllAtLayer, FirstLayer
<1>7. Len(rows) - n = Len(es)
  BY <1>4
<1>8. Len(hidden) = Len(es)
  BY <1>1, <1>3, <1>4, <1>7, AtLayerIs, FirstLayer
<1>9. ASSUME NEW i \in 1 .. Len(es) PROVE hidden[i] = Run(rows)[n + i]
  BY <1>1, <1>3, <1>4, <1>5, <1>7, CountedFrom
<1>10. ASSUME NEW i \in 1 .. Len(es) PROVE hidden[i].own = rows[n + i]
  <2>1. n + i \in 1 .. Len(rows)
    BY <1>4
  <2>2. \A j \in 1 .. Len(rows) : AtLayer(NLayers, rows, 0)[j].own = rows[j]
    BY <1>4, AllAtLayer, FirstLayer
  <2>3. hidden[i] = AtLayer(NLayers, rows, 0)[n + i]
    BY <1>5, <1>9
  <2> HIDE DEF rows
  <2>4. QED
    BY <2>1, <2>2, <2>3
<1>11. QED
  BY <1>4, <1>6, <1>8, <1>9, <1>10

(* What the caller sees of a step. *)
Promised == [NoCache!Next]_(NoCache!vars)

LEMMA Stutters ==
  ASSUME Status' = Status, Context' = Context, result' = result
  PROVE  Promised
BY DEF Promised, NoCache!vars

(* The contract computes with the same rows. *)
LEMMA SameRows ==
  /\ \A e, p : NoCache!Row(e, p) = Row(e, p)
  /\ \A es, p : NoCache!RowsFrom(es, p) = RowsFrom(es, p)
  /\ NoCache!Injected = Injected
  /\ \A states : NoCache!SegOut(states) = SegOut(states)
  /\ \A states : NoCache!Last(states) = states[Len(states)]
BY DEF NoCache!Row, Row, NoCache!RowsFrom, RowsFrom, NoCache!Injected, Injected,
       NoCache!SegOut, SegOut, NoCache!Last

LEMMA RInvInit == Init => RInv /\ NoCache!Init
<1> SUFFICES ASSUME Init PROVE RInv /\ NoCache!Init
  OBVIOUS
<1>1. RInv
  BY CInvInit DEF Init, RInv, Running
<1>2. NoCache!Init
  BY DEF Init, NoCache!Init, Status, Context
<1>3. QED
  BY <1>1, <1>2

LEMMA PrefillKeeps ==
  ASSUME RInv, CInv', NEW es \in Prefixes, Prefill(es)
  PROVE  ~ broken' /\ Running' /\ Promised
<1>1. /\ pc = "none" /\ pc' = "prefill" /\ ~ broken /\ ~ broken' /\ result' = result
      /\ layer' = 0 /\ hidden' = Inputs(RowsFrom(es, 0))
  BY DEF Prefill, Begin, RInv
<1>2. /\ Context = <<>> /\ Context' = <<>> /\ Len(Context') = 0
      /\ Status' = Status /\ NewEmbeds' = Prefixes
  BY <1>1 DEF Context, Status, NewEmbeds
<1>3. Placed(Context)'
  BY <1>2 DEF Placed
<1>4. es \in Seq(AllEmbeds)
  BY EmbedsAreEmbeds
<1>5. Running'
  BY <1>1, <1>2, <1>3, <1>4, RunningBegins
<1>6. QED
  BY <1>1, <1>2, <1>5, Stutters

LEMMA PrefillLayerKeeps ==
  ASSUME RInv, CInv', PrefillLayer
  PROVE  ~ broken' /\ Running' /\ Promised
<1>1. /\ pc = "prefill" /\ pc' = pc /\ ~ broken /\ ~ broken' /\ result' = result
      /\ layer' = layer + 1 /\ hidden' = LayerForward(layer, hidden, <<>>, 0)
      /\ CInv /\ Running /\ MoreLayers(layer)
  BY DEF PrefillLayer, RInv
<1>2. Context = <<>> /\ Context' = Context /\ Status' = Status /\ Len(Context) = 0
  BY <1>1 DEF Context, Status
<1>3. Running'
  <2>1. <<>> \in Seq(Computed) /\ Len(<<>>) = 0 /\ 1 .. 0 = {}
    OBVIOUS
  <2>2. QED
    BY <1>1, <1>2, <2>1, RunningGoesOn
<1>4. QED
  BY <1>1, <1>2, <1>3, Stutters

(* The K and V of a prefill are those of its rows: the context begins.      *)
LEMMA PrefillReturnKeeps ==
  ASSUME RInv, CInv', PrefillReturn
  PROVE  ~ broken' /\ Running' /\ Promised
<1>1. /\ pc = "prefill" /\ pc' = "idle" /\ ~ broken /\ ~ broken'
      /\ kv' = kv /\ ncached' = ncached /\ CInv /\ Running /\ ~ MoreLayers(layer)
      /\ result' \in {<<>>, <<hidden[Len(hidden)]>>}
  BY DEF PrefillReturn, End, RInv
<1>2. Context = <<>> /\ Len(Context) = 0 /\ Status = "none" /\ Status' = "ready"
  BY <1>1 DEF Context, Status
<1>3. PICK es \in NewEmbeds :
        LET rows == Whole(es)
        IN  /\ Placed(rows) /\ Len(rows) = Len(Context) + Len(es)
            /\ Len(hidden) = Len(es) /\ Len(Run(rows)) = Len(rows)
            /\ \A i \in 1 .. Len(es) :
                 /\ hidden[i] = Run(rows)[Len(Context) + i]
                 /\ hidden[i].own = rows[Len(Context) + i]
  BY <1>1, RunningEnds
<1>4. es \in Prefixes /\ Len(es) \in Nat /\ Len(es) > 0 /\ es \in Seq(AllEmbeds)
  BY <1>1, <1>3, EmbedsAreEmbeds DEF NewEmbeds
<1>5. Whole(es) = RowsFrom(es, 0)
  <2>1. RowsFrom(es, 0) = [i \in 1 .. Len(es) |-> RowsFrom(es, 0)[i]]
    BY DEF RowsFrom
  <2>2. RowsFrom(es, 0) \in Seq({RowsFrom(es, 0)[i] : i \in 1 .. Len(es)})
    BY <1>4, <2>1
  <2>3. QED
    BY <1>2, <2>2 DEF Whole
<1> DEFINE rows == RowsFrom(es, 0)
<1>6. /\ rows \in Seq(RowSet) /\ Len(rows) = Len(es)
      /\ \A i \in 1 .. Len(es) : hidden[i] = Run(rows)[i] /\ hidden[i].own = rows[i]
  <2>1. \A i \in 1 .. Len(es) : 0 + i = i
    OBVIOUS
  <2>2. 0 + Len(es) = Len(es)
    BY <1>4
  <2>3. QED
    BY <1>2, <1>3, <1>5, <2>1, <2>2 DEF Placed
<1>7. <<hidden[Len(hidden)]>> = <<NoCache!Last(NoCache!Run(rows))>>
  <2>1. Len(es) \in 1 .. Len(es)
    BY <1>4
  <2>2. hidden[Len(hidden)] = Run(rows)[Len(Run(rows))]
    BY <1>3, <1>5, <1>6, <2>1
  <2>3. QED
    BY <2>2, SameRun, SameRows
<1>8. Context' = rows
  <2>1. ContextRows'
    BY <1>1, ContextIs, PTL
  <2>2. /\ Context' \in Seq(RowSet) /\ Len(Context') = ncached
        /\ \A j \in 1 .. ncached : Context'[j] = kv[0][j].own
    BY <1>1, <2>1 DEF ContextRows, Placed
  <2>3. Len(hidden) = ncached
    BY <1>1 DEF CInv, LInv, Lengths
  <2>4. layer > 0
    BY <1>1, LmForwardAssumption DEF MoreLayers, CInv, LInv, TypeOK
  <2>5. \A j \in 1 .. ncached : kv[0][j].own = hidden[j].own
    BY <1>1, <2>3, <2>4 DEF CInv, PrefillRows
  <2>6. Len(es) = ncached
    BY <1>3, <2>3
  <2> HIDE DEF rows
  <2>7. \A j \in 1 .. ncached : Context'[j] = rows[j]
    BY <1>6, <2>2, <2>5, <2>6
  <2>8. QED
    BY <1>6, <2>2, <2>6, <2>7, SeqEqual
<1>9. NoCache!Prefill(rows)
  BY <1>1, <1>2, <1>7, <1>8 DEF NoCache!Prefill
<1>10. NoCache!Next
  <2>1. NoCache!RowsFrom(es, 0) = rows
    BY SameRows
  <2>2. QED
    BY <1>4, <1>9, <2>1 DEF NoCache!Next
<1>11. Running'
  BY <1>1 DEF Running
<1>12. QED
  BY <1>1, <1>10, <1>11 DEF Promised

LEMMA PrefillThrowKeeps ==
  ASSUME RInv, PrefillThrow
  PROVE  ~ broken' /\ Running' /\ Promised
<1>1. pc = "prefill" /\ pc' = "none" /\ ~ broken /\ broken' = broken /\ result' = result
  BY DEF PrefillThrow, End, RInv
<1>2. Context' = Context /\ Status' = Status /\ Running'
  BY <1>1 DEF Context, Status, Running
<1>3. QED
  BY <1>1, <1>2, Stutters

(* Where the counted rows stay a caller sees nothing but the answer.         *)
LEMMA CacheStays ==
  ASSUME RInv, CInv', ~ broken, ~ broken', pc \in {"idle", "decode", "extract"},
         pc' \in {"idle", "decode", "extract"}, kv' = kv, ncached' = ncached
  PROVE  /\ Context' = Context /\ Placed(Context)' /\ Len(Context) = ncached
         /\ Status = "ready" /\ Status' = "ready"
<1>1. CInv
  BY DEF RInv
<1>2. Context' = Context
  BY <1>1, ContextStays
<1>3. Placed(Context) /\ Len(Context) = ncached
  BY <1>1, ContextIs DEF ContextRows
<1>4. QED
  BY <1>2, <1>3 DEF Status, Placed

LEMMA DecodeKeeps ==
  ASSUME RInv, CInv', ~ broken, NEW e \in Embeds, Decode(e)
  PROVE  ~ broken' /\ Running' /\ Promised
<1>1. /\ pc = "idle" /\ pc' = "decode" /\ ~ broken' /\ kv' = kv /\ ncached' = ncached
      /\ result' = result /\ layer' = 0 /\ hidden' = Inputs(<<Row(e, ncached)>>)
  BY DEF Decode, Begin, DecodePos
<1>2. /\ Context' = Context /\ Placed(Context)' /\ Len(Context) = ncached
      /\ Status = "ready" /\ Status' = "ready"
  BY <1>1, CacheStays
<1>3. <<e>> \in NewEmbeds' /\ <<e>> \in Seq(AllEmbeds)
  BY <1>1, EmbedsAreEmbeds DEF NewEmbeds
<1>4. <<Row(e, ncached)>> = RowsFrom(<<e>>, ncached)
  BY OneRow DEF RInv, CInv, LInv, TypeOK
<1>5. hidden' = Inputs(RowsFrom(<<e>>, Len(Context')))
  BY <1>1, <1>2, <1>4
<1>6. Running'
  BY <1>1, <1>2, <1>3, <1>5, RunningBegins
<1>7. QED
  BY <1>1, <1>2, <1>6, Stutters

LEMMA DecodeLayerKeeps ==
  ASSUME RInv, CInv', ~ broken, DecodeLayer
  PROVE  ~ broken' /\ Running' /\ Promised
<1>1. /\ pc = "decode" /\ pc' = pc /\ ~ broken' /\ ncached' = ncached /\ result' = result
      /\ layer' = layer + 1 /\ hidden' = LayerForward(layer, hidden, kv[layer], ncached)
      /\ kv' = [kv EXCEPT ![layer] = kv[layer] \o hidden]
      /\ CInv /\ Running /\ MoreLayers(layer)
  BY DEF DecodeLayer, Appended, RInv
<1>2. Placed(Context) /\ Len(Context) = ncached /\ ncached \in Nat
  BY <1>1, ContextIs DEF ContextRows
<1>3. \A es \in Seq(AllEmbeds) :
        /\ kv[layer] \in Seq(Computed) /\ Len(kv[layer]) = ncached
        /\ \A j \in 1 .. ncached : kv[layer][j] = AtLayer(layer, Whole(es), 0)[j]
  BY <1>1, PastIs
<1>4. kv[layer] \in Seq(Computed) /\ Len(kv[layer]) = ncached
  <2>1. <<>> \in Seq(AllEmbeds)
    OBVIOUS
  <2>2. QED
    BY <1>3, <2>1
<1>5. \A j \in 1 .. ncached : kv'[0][j].own = kv[0][j].own
  <2>1. kv \in [Layers -> Seq(States)] /\ hidden \in Seq(States) /\ 0 \in Layers
    BY <1>1, FirstLayer DEF CInv, LInv, TypeOK
  <2>2. CASE layer = 0
    <3>1. kv'[0] = kv[0] \o hidden /\ kv[0] \in Seq(States) /\ Len(kv[0]) = ncached
      BY <1>1, <1>4, <2>1, <2>2
    <3>2. \A j \in 1 .. ncached : kv'[0][j] = kv[0][j]
      BY <1>2, <2>1, <3>1
    <3>3. QED
      BY <3>2
  <2>3. CASE layer # 0
    BY <1>1, <2>1, <2>3
  <2>4. QED
    BY <2>2, <2>3
<1>6. Context' = Context
  BY <1>1, <1>5, ContextStays
<1>7. Running'
  BY <1>1, <1>2, <1>3, <1>4, <1>6, RunningGoesOn
<1>8. Status' = Status
  BY <1>1 DEF Status
<1>9. QED
  BY <1>1, <1>6, <1>7, <1>8, Stutters

(* The row decoded is the row after the context, and its state that of run. *)
LEMMA DecodeReturnKeeps ==
  ASSUME RInv, CInv', ~ broken, DecodeReturn
  PROVE  ~ broken' /\ Running' /\ Promised
<1>1. /\ pc = "decode" /\ pc' = "idle" /\ ~ broken' /\ kv' = kv /\ ncached' = ncached + 1
      /\ result' \in {result, hidden} /\ CInv /\ Running /\ ~ MoreLayers(layer)
  BY DEF DecodeReturn, End, RInv
<1>2. Status = "ready" /\ Status' = "ready"
  BY <1>1 DEF Status
<1>3. /\ Placed(Context) /\ Len(Context) = ncached /\ ncached \in Nat
      /\ \A j \in 1 .. ncached : Context[j] = kv[0][j].own
  BY <1>1, ContextIs DEF ContextRows
<1>4. PICK e \in Embeds :
        LET rows == Whole(<<e>>)
        IN  /\ Placed(rows) /\ Len(rows) = ncached + 1
            /\ Len(hidden) = 1 /\ Len(Run(rows)) = Len(rows)
            /\ hidden[1] = Run(rows)[ncached + 1] /\ hidden[1].own = rows[ncached + 1]
  <2>1. PICK es \in NewEmbeds :
          LET rows == Whole(es)
          IN  /\ Placed(rows) /\ Len(rows) = Len(Context) + Len(es)
              /\ Len(hidden) = Len(es) /\ Len(Run(rows)) = Len(rows)
              /\ \A i \in 1 .. Len(es) :
                   /\ hidden[i] = Run(rows)[Len(Context) + i]
                   /\ hidden[i].own = rows[Len(Context) + i]
    BY <1>1, RunningEnds
  <2>2. PICK e \in Embeds : es = <<e>>
    BY <1>1, <2>1 DEF NewEmbeds
  <2>3. Len(es) = 1 /\ 1 \in 1 .. Len(es)
    BY <2>2
  <2>4. QED
    BY <1>3, <2>1, <2>2, <2>3
<1> DEFINE rows == Whole(<<e>>)
<1>5. /\ \A j \in 1 .. ncached : rows[j] = Context[j]
      /\ rows[ncached + 1] = Row(e, ncached)
  <2>1. <<e>> \in Seq(AllEmbeds) /\ Len(<<e>>) = 1 /\ <<e>>[1] = e /\ ncached + 1 - 1 = ncached
    BY <1>3, EmbedsAreEmbeds
  <2>2. /\ \A j \in 1 .. Len(Context) : rows[j] = Context[j]
        /\ \A i \in 1 .. Len(<<e>>) :
             rows[Len(Context) + i] = Row(<<e>>[i], Len(Context) + i - 1)
    BY <1>3, <2>1, NewRowsPlaced DEF Whole
  <2> HIDE DEF rows
  <2>3. 1 \in 1 .. Len(<<e>>)
    BY <2>1
  <2>4. rows[ncached + 1] = Row(e, ncached + 1 - 1)
    BY <1>3, <2>1, <2>2, <2>3
  <2>5. QED
    BY <1>3, <2>1, <2>2, <2>4
<1>6. /\ Placed(rows) /\ Len(rows) = ncached + 1 /\ Len(hidden) = 1
      /\ Len(Run(rows)) = ncached + 1
      /\ hidden[1] = Run(rows)[ncached + 1] /\ hidden[1].own = rows[ncached + 1]
  BY <1>4
<1> HIDE DEF rows
<1>7. Context' = rows
  <2>1. ContextRows'
    BY <1>1, ContextIs, PTL
  <2>2. /\ Context' \in Seq(RowSet) /\ Len(Context') = ncached + 1
        /\ \A j \in 1 .. ncached + 1 : Context'[j] = kv[0][j].own
    BY <1>1, <2>1 DEF ContextRows, Placed
  <2>3. layer > 0
    BY <1>1, LmForwardAssumption DEF MoreLayers, CInv, LInv, TypeOK
  <2>4. kv[0][ncached + 1].own = rows[ncached + 1]
    BY <1>1, <1>6, <2>3 DEF CInv, DecodeRow
  <2>5. \A j \in 1 .. ncached + 1 : j \in 1 .. ncached \/ j = ncached + 1
    BY <1>3
  <2>6. \A j \in 1 .. ncached + 1 : Context'[j] = rows[j]
    BY <1>3, <1>5, <2>2, <2>4, <2>5
  <2>7. QED
    BY <1>6, <2>2, <2>6, SeqEqual DEF Placed
<1>8. rows = Append(Context, NoCache!Row(e, Len(Context)))
  <2>1. Context \in Seq(RowSet) /\ rows \in Seq(RowSet)
    BY <1>3, <1>6 DEF Placed
  <2>2. rows[ncached + 1] \in RowSet
    BY <1>3, <1>6, <2>1
  <2>3. /\ Append(Context, rows[ncached + 1]) \in Seq(RowSet)
        /\ Len(Append(Context, rows[ncached + 1])) = ncached + 1
        /\ \A j \in 1 .. ncached : Append(Context, rows[ncached + 1])[j] = Context[j]
        /\ Append(Context, rows[ncached + 1])[ncached + 1] = rows[ncached + 1]
    BY <1>3, <2>1, <2>2
  <2>4. \A j \in 1 .. ncached + 1 : j \in 1 .. ncached \/ j = ncached + 1
    BY <1>3
  <2>5. \A j \in 1 .. ncached + 1 : Append(Context, rows[ncached + 1])[j] = rows[j]
    BY <1>5, <2>3, <2>4
  <2>6. Append(Context, rows[ncached + 1]) = rows
    BY <1>6, <2>1, <2>3, <2>5, SeqEqual
  <2>7. QED
    BY <1>3, <1>5, <2>6, SameRows
<1>9. hidden = <<NoCache!Last(NoCache!Run(rows))>>
  <2>1. hidden = <<hidden[1]>>
    BY <1>1, <1>6 DEF CInv, LInv, TypeOK
  <2>2. NoCache!Last(NoCache!Run(rows)) = Run(rows)[Len(Run(rows))]
    BY SameRun, SameRows
  <2>3. QED
    BY <1>6, <2>1, <2>2
<1>10. NoCache!Decode(e)
  BY <1>1, <1>2, <1>7, <1>8, <1>9 DEF NoCache!Decode
<1>11. Running'
  BY <1>1 DEF Running
<1>12. QED
  BY <1>1, <1>10, <1>11 DEF Promised, NoCache!Next

LEMMA ExtractKeeps ==
  ASSUME RInv, CInv', ~ broken, NEW phrase \in Phrases, Extract(phrase)
  PROVE  ~ broken' /\ Running' /\ Promised
<1>1. /\ pc = "idle" /\ pc' = "extract" /\ ~ broken' /\ kv' = kv /\ ncached' = ncached
      /\ result' = result /\ layer' = 0
      /\ hidden' = Inputs(RowsFrom(phrase \o Injected, ncached))
  BY DEF Extract, Begin, ExtractPos
<1>2. /\ Context' = Context /\ Placed(Context)' /\ Len(Context) = ncached
      /\ Status = "ready" /\ Status' = "ready"
  BY <1>1, CacheStays
<1>3. phrase \o Injected \in NewEmbeds' /\ phrase \o Injected \in Seq(AllEmbeds)
  BY <1>1, EmbedsAreEmbeds DEF NewEmbeds
<1>4. Running'
  BY <1>1, <1>2, <1>3, RunningBegins
<1>5. QED
  BY <1>1, <1>2, <1>4, Stutters

LEMMA ExtractLayerKeeps ==
  ASSUME RInv, CInv', ~ broken, ExtractLayer
  PROVE  ~ broken' /\ Running' /\ Promised
<1>1. /\ pc = "extract" /\ pc' = pc /\ ~ broken' /\ kv' = kv /\ ncached' = ncached
      /\ result' = result /\ layer' = layer + 1
      /\ hidden' = LayerForward(layer, hidden, kv[layer], ncached)
      /\ CInv /\ Running /\ MoreLayers(layer)
  BY DEF ExtractLayer, RInv
<1>2. Context' = Context /\ Len(Context) = ncached /\ Status' = Status
  BY <1>1, CacheStays
<1>3. \A es \in Seq(AllEmbeds) :
        /\ kv[layer] \in Seq(Computed) /\ Len(kv[layer]) = ncached
        /\ \A j \in 1 .. ncached : kv[layer][j] = AtLayer(layer, Whole(es), 0)[j]
  BY <1>1, PastIs
<1>4. kv[layer] \in Seq(Computed) /\ Len(kv[layer]) = ncached
  <2>1. <<>> \in Seq(AllEmbeds)
    OBVIOUS
  <2>2. QED
    BY <1>3, <2>1
<1>5. Running'
  BY <1>1, <1>2, <1>3, <1>4, RunningGoesOn
<1>6. QED
  BY <1>1, <1>2, <1>5, Stutters

(* The states handed out are those of the mask queries in run. *)
LEMMA ExtractReturnKeeps ==
  ASSUME RInv, CInv', ~ broken, ExtractReturn
  PROVE  ~ broken' /\ Running' /\ Promised
<1>1. /\ pc = "extract" /\ pc' = "idle" /\ ~ broken' /\ kv' = kv /\ ncached' = ncached
      /\ result' = SegOut(hidden) /\ CInv /\ Running /\ ~ MoreLayers(layer)
  BY DEF ExtractReturn, End, RInv
<1>2. /\ Context' = Context /\ Len(Context) = ncached
      /\ Status = "ready" /\ Status' = "ready"
  BY <1>1, CacheStays
<1>3. PICK es \in NewEmbeds :
        LET rows == Whole(es)
        IN  /\ Placed(rows) /\ Len(rows) = Len(Context) + Len(es)
            /\ Len(hidden) = Len(es) /\ Len(Run(rows)) = Len(rows)
            /\ \A i \in 1 .. Len(es) :
                 /\ hidden[i] = Run(rows)[Len(Context) + i]
                 /\ hidden[i].own = rows[Len(Context) + i]
  BY <1>1, RunningEnds
<1>4. PICK phrase \in Phrases : es = phrase \o Injected
  BY <1>1, <1>3 DEF NewEmbeds
<1>5. Len(es) \in Nat /\ Len(es) >= NQueries + 2 /\ NQueries \in Nat /\ ncached \in Nat
  BY <1>1, <1>4, EmbedsAreEmbeds, LmForwardAssumption DEF CInv, LInv, TypeOK
<1>6. SegOut(hidden) = SegOut(Run(Whole(es)))
  <2>1. ASSUME NEW j \in 1 .. NQueries
        PROVE  hidden[Len(hidden) - NQueries - 1 + j]
                 = Run(Whole(es))[Len(Run(Whole(es))) - NQueries - 1 + j]
    <3>1. Len(es) - NQueries - 1 + j \in 1 .. Len(es)
      BY <1>5
    <3>2. ncached + (Len(es) - NQueries - 1 + j) = (ncached + Len(es)) - NQueries - 1 + j
      BY <1>5
    <3>3. /\ Len(hidden) = Len(es) /\ Len(Run(Whole(es))) = ncached + Len(es)
          /\ \A i \in 1 .. Len(es) : hidden[i] = Run(Whole(es))[ncached + i]
      BY <1>2, <1>3
    <3>4. QED
      BY <3>1, <3>2, <3>3
  <2>2. QED
    BY <2>1 DEF SegOut
<1>7. NoCache!Extract(phrase)
  <2>1. Context \o NoCache!RowsFrom(phrase \o NoCache!Injected, Len(Context)) = Whole(es)
    BY <1>4, SameRows DEF Whole
  <2>2. result' = NoCache!SegOut(NoCache!Run(Whole(es)))
    BY <1>1, <1>6, SameRun, SameRows
  <2>3. QED
    BY <1>2, <2>1, <2>2 DEF NoCache!Extract
<1>8. Running'
  BY <1>1 DEF Running
<1>9. QED
  BY <1>1, <1>7, <1>8 DEF Promised, NoCache!Next

LEMMA OthersKeep ==
  ASSUME RInv, CInv', ~ broken, DecodeThrow \/ ExtractThrow \/ LogitsForHidden
  PROVE  (~ broken' => Running') /\ Promised
<1>1. /\ pc \in {"idle", "decode", "extract"} /\ pc' = "idle" /\ kv' = kv
      /\ ncached' = ncached /\ result' = result
  BY DEF DecodeThrow, ExtractThrow, LogitsForHidden, End
<1>2. Running'
  BY <1>1 DEF Running
<1>3. CASE ~ broken'
  BY <1>1, <1>2, <1>3, CacheStays, Stutters
<1>4. CASE broken'
  <2>1. Context' = Context /\ Status = "ready" /\ Status' = "broken"
    BY <1>1, <1>4 DEF Context, Status
  <2>2. NoCache!Fail
    BY <1>1, <2>1 DEF NoCache!Fail
  <2>3. QED
    BY <1>2, <2>2 DEF Promised, NoCache!Next
<1>5. QED
  BY <1>3, <1>4, <1>2

(* Once a decode_step has failed half-way nothing is promised. *)
LEMMA BrokenStays ==
  ASSUME RInv, broken, Next
  PROVE  broken' /\ pc' \notin {"none", "prefill"} /\ Promised
<1>1. pc \in {"idle", "decode", "extract"}
  BY DEF RInv, CInv, LInv, TypeOK
<1>2. broken' /\ pc' \in {"idle", "decode", "extract"}
  BY <1>1 DEF Next, Prefill, PrefillLayer, PrefillReturn, PrefillThrow, Decode, DecodeLayer,
     DecodeReturn, DecodeThrow, Extract, ExtractLayer, ExtractReturn, ExtractThrow,
     LogitsForHidden, Begin, End
<1>3. Status = "broken" /\ Status' = "broken"
  BY <1>1, <1>2 DEF Status
<1>4. NoCache!Unreliable
  BY <1>3 DEF NoCache!Unreliable
<1>5. QED
  BY <1>2, <1>4 DEF Promised, NoCache!Next

LEMMA RInvStep ==
  ASSUME RInv, [Next]_vars
  PROVE  RInv' /\ Promised
<1>1. CInv'
  BY CInvStep DEF RInv
<1>2. CASE UNCHANGED vars
  <2>1. Status' = Status /\ Context' = Context /\ result' = result
    BY <1>2 DEF vars, Status, Context
  <2>2. (~ broken => Running)' /\ (pc \in {"none", "prefill"} => ~ broken)'
    BY <1>2, <2>1 DEF vars, RInv, Running, NewEmbeds, Whole
  <2>3. QED
    BY <1>1, <2>1, <2>2, Stutters DEF RInv
<1>3. CASE Next /\ broken
  BY <1>1, <1>3, BrokenStays DEF RInv
<1>4. CASE Next /\ ~ broken
  <2>1. SUFFICES /\ pc' \in {"none", "prefill"} => ~ broken'
                 /\ ~ broken' => Running'
                 /\ Promised
    BY <1>1 DEF RInv
  <2>2. CASE \E es \in Prefixes : Prefill(es)
    BY <1>1, <2>2, PrefillKeeps
  <2>3. CASE PrefillLayer
    BY <1>1, <2>3, PrefillLayerKeeps
  <2>4. CASE PrefillReturn
    BY <1>1, <2>4, PrefillReturnKeeps
  <2>5. CASE PrefillThrow
    BY <2>5, PrefillThrowKeeps
  <2>6. CASE \E e \in Embeds : Decode(e)
    BY <1>1, <1>4, <2>6, DecodeKeeps
  <2>7. CASE DecodeLayer
    BY <1>1, <1>4, <2>7, DecodeLayerKeeps
  <2>8. CASE DecodeReturn
    BY <1>1, <1>4, <2>8, DecodeReturnKeeps
  <2>9. CASE \E phrase \in Phrases : Extract(phrase)
    BY <1>1, <1>4, <2>9, ExtractKeeps
  <2>10. CASE ExtractLayer
    BY <1>1, <1>4, <2>10, ExtractLayerKeeps
  <2>11. CASE ExtractReturn
    BY <1>1, <1>4, <2>11, ExtractReturnKeeps
  <2>12. CASE DecodeThrow \/ ExtractThrow \/ LogitsForHidden
    <3>1. pc' = "idle"
      BY <2>12 DEF DecodeThrow, ExtractThrow, LogitsForHidden, End
    <3>2. QED
      BY <1>1, <1>4, <2>12, <3>1, OthersKeep
  <2>13. QED
    BY <1>4, <2>2, <2>3, <2>4, <2>5, <2>6, <2>7, <2>8, <2>9, <2>10, <2>11, <2>12 DEF Next
<1>5. QED
  BY <1>2, <1>3, <1>4

(* include/sam3/instructsam_lm_forward.h:116: a call on the cache returns    *)
(* what run returns on all the rows, for any number of layers and queries   *)
(* and whichever calls have thrown before, unless a decode_step did so half- *)
(* way.                                                                     *)
THEOREM CallsAnswerAsRun == Spec => ImplementsNoCache
<1>1. RInv /\ [Next]_vars => RInv' /\ [NoCache!Next]_(NoCache!vars)
  BY RInvStep DEF Promised
<1>2. QED
  BY <1>1, RInvInit, PTL DEF Spec, ImplementsNoCache, NoCache!Spec
=============================================================================
