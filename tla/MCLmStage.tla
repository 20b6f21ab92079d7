----------------------------- MODULE MCLmStage -----------------------------
(* A small instance of LmStage: a prompt with a text token and an image of *)
(* two cells that share one position.                                      *)
EXTENDS LmStage

CONSTANTS word, imEnd, bos, img1, img2

MCVocab == {word, RefStart, RefEnd, imEnd}
MCStopTokens == {imEnd}
MCPrefillCells ==
  {[pos |-> 0, item |-> bos], [pos |-> 1, item |-> img1], [pos |-> 1, item |-> img2]}
MCMaskQuery(i) == <<"mask query", i>>
=============================================================================
