---------------------------- MODULE MCModelCache ----------------------------
(* Three processes and a file of two chunks.  No symmetry is declared since *)
(* a liveness property is checked.                                          *)
EXTENDS ModelCache

CONSTANTS p1, p2, p3

MCProcs == {p1, p2, p3}
=============================================================================
