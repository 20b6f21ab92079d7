----------------------------- MODULE Transformer -----------------------------
(***************************************************************************)
(* The layers of src/instructsam_lm_forward.cpp as functions.  A row is an *)
(* input embedding with its position.  The state of a row is represented   *)
(* by what it was computed from: the row itself, the layers it has gone    *)
(* through and, after the first of them, the rows it has attended to.  A   *)
(* state that no forward pass without a cache computes is Garbage.         *)
(***************************************************************************)
EXTENDS Integers, Sequences

CONSTANTS
  NLayers,                           \* kNumLayers, 28
  NQueries,                          \* mask queries, 10
  MaskStart, MaskEnd, MaskQuery(_),  \* the injected embeddings
  Garbage

Layers == 0 .. NLayers - 1

Row(e, p) == [embed |-> e, pos |-> p]

(* Rows for the embeddings es, at positions from p on. *)
RowsFrom(es, p) == [i \in 1 .. Len(es) |-> Row(es[i], p + i - 1)]

State(l, row, attended) == [layer |-> l, own |-> row, attended |-> attended]

(* hidden, before the first layer. *)
Inputs(rows) == [i \in 1 .. Len(rows) |-> State(0, rows[i], <<>>)]

Owns(states) == [j \in 1 .. Len(states) |-> states[j].own]

(* K and V of a row are functions of its state when it enters the layer.    *)
(* They fit together if each is of this layer and of the rows before it.    *)
Coherent(l, kvs) ==
  /\ \A j \in 1 .. Len(kvs) : kvs[j] # Garbage
  /\ \A j \in 1 .. Len(kvs) :
       /\ kvs[j].layer = l
       /\ kvs[j].attended = IF l = 0 THEN <<>> ELSE SubSeq(Owns(kvs), 1, j)

(* A row, whose own K and V come last, attends to kvs and goes on. *)
Attend(l, kvs) ==
  IF Coherent(l, kvs) THEN State(l + 1, kvs[Len(kvs)].own, Owns(kvs)) ELSE Garbage

(* layer_forward: row i of the new rows attends to the first n cached rows  *)
(* of the layer and to the new rows up to itself.                           *)
LayerForward(l, hidden, cachedKv, n) ==
  [i \in 1 .. Len(hidden) |->
     IF n > Len(cachedKv) THEN Garbage
     ELSE Attend(l, SubSeq(cachedKv, 1, n) \o SubSeq(hidden, 1, i))]

(* run: every row through every layer, with no cache. *)
Run(rows) ==
  LET hidden[l \in 0 .. NLayers] ==
        IF l = 0 THEN Inputs(rows) ELSE LayerForward(l - 1, hidden[l - 1], <<>>, 0)
  IN hidden[NLayers]

(* [mask_start, mask_queries, mask_end] *)
Injected ==
  <<MaskStart>> \o [j \in 1 .. NQueries |-> MaskQuery(j - 1)] \o <<MaskEnd>>

(* seg_out: the states of the mask queries, the last but one of a run. *)
SegOut(hidden) ==
  [j \in 1 .. NQueries |-> hidden[Len(hidden) - NQueries - 1 + j]]
=============================================================================
