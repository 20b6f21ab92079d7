------------------------------- MODULE MCCApi -------------------------------
(* Two threads that make three calls each, on a heap that cannot hold two  *)
(* results: an allocation may fail at any point.                           *)
EXTENDS CApi, TLC

CONSTANTS t1, t2, b1, b2, b3, b4

MCThreads == {t1, t2}
MCBlocks == {b1, b2, b3, b4}

(* Threads and blocks are told apart by nothing but their names.           *)
MCSymmetry == Permutations(MCThreads) \cup Permutations(MCBlocks)
=============================================================================
