------------------------------ MODULE MCVision ------------------------------
(* Four by four patches in windows of two by two; positions learned on a     *)
(* grid of three, so that they repeat within the image and not with the      *)
(* windows; a windowed layer, a global one and a windowed one.               *)
EXTENDS Vision

MCGlobalLayers == {1}
=============================================================================
