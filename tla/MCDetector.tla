----------------------------- MODULE MCDetector -----------------------------
(* Two by three pixels, two queries in two heads of two channels, a phrase of *)
(* two rows and one of padding; two layers of the encoder, three of the      *)
(* decoder, so that boxes that moved once are moved again.                   *)
EXTENDS Detector

MCValid == {0, 1}
=============================================================================
