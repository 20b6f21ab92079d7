---- MODULE MCModelFile ----
(***************************************************************************)
(* Two checkpoints that share the tensor a, which the stock decoder calls  *)
(* x, and one that cannot be converted: its tensor c has the alias y, which *)
(* hashes to the short name of its tensor e.                               *)
(***************************************************************************)
EXTENDS ModelFile, TLC

CONSTANTS a, b, c, d, e, x, y

MCCanonical == {a, b, c, d, e}
MCAliases == {x, y}

MCTensorsOf ==
  ("first" :> {a, b}) @@ ("second" :> {a, d}) @@ ("clash" :> {b, c, e})

MCAlias == [n \in Canonical |-> IF n = a THEN x ELSE IF n = c THEN y ELSE None]

MCShort == (a :> 4) @@ (x :> 2) @@ (b :> 1) @@ (d :> 3) @@ (c :> 5) @@ (e :> 6) @@ (y :> 6)
====
