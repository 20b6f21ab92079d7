--------------------------------- MODULE ViT ---------------------------------
(***************************************************************************)
(* What the vision trunk promises, told without a memory layout: the image *)
(* is a grid of patches, every layer lets each patch hear the patches of   *)
(* its window, or all of them, and what it hears depends on how far away   *)
(* the other patch is and in which direction.                              *)
(***************************************************************************)
EXTENDS Integers

CONSTANTS
  Grid,          \* patches along a side of the image (kGridSize, 72)
  Window,        \* patches along a side of a window (kWindowSize, 24)
  Pretrain,      \* side of the grid position embeddings were learned on (24)
  Heads,         \* attention heads (16)
  NLayers,       \* layers (32)
  GlobalLayers   \* layers that attend to the whole image (7, 15, 23, 31)

VARIABLES depth, grid
vitVars == <<depth, grid>>

Side == 0 .. Grid - 1
Patches == Side \X Side   \* row, column
HeadIds == 0 .. Heads - 1

(* A row of the trunk: the patch it stands for, the learned position that   *)
(* was added to it, and what each head heard in the last layer.             *)
Row(p, d, heard) ==
  [patch |-> p, pos |-> <<p[1] % Pretrain, p[2] % Pretrain>>, depth |-> d, heard |-> heard]

SameWindow(p, q) == p[1] \div Window = q[1] \div Window /\ p[2] \div Window = q[2] \div Window

(* Distances are in units of 1 / Grid of a position; in a global layer the  *)
(* whole image spans as many positions as a window does elsewhere.          *)
Unit(l) == IF l \in GlobalLayers THEN Window ELSE Grid

(* What head of patch p hears of patch q.  Sets of one element: an          *)
(* implementation that confuses rows or heads mixes several.               *)
Heard(head, p, q, dy, dx) ==
  [heads |-> {head}, by |-> {p}, from |-> {q}, dy |-> dy, dx |-> dx]

Hears(l, p) ==
  {Heard(h, p, q, Unit(l) * (p[1] - q[1]), Unit(l) * (p[2] - q[2])) : h \in HeadIds,
     q \in {r \in Patches : l \in GlobalLayers \/ SameWindow(p, r)}}

Init ==
  /\ depth = 0
  /\ grid = [p \in Patches |-> Row(p, 0, {})]

Layer ==
  /\ depth < NLayers
  /\ depth' = depth + 1
  /\ grid' = [p \in Patches |-> Row(p, depth + 1, Hears(depth, p))]

Spec == Init /\ [][Layer]_vitVars
=============================================================================
