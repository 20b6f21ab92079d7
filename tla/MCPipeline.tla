----------------------------- MODULE MCPipeline -----------------------------
(* Texts: padded, filling the context, with a character that is token 0,   *)
(* nothing but padding, empty, and longer than the context; one and two    *)
(* points, none, and a box.                                                *)
EXTENDS Pipeline

Text(tokens, written) == [kind |-> "text", tokens |-> tokens, written |-> written]

MCRequests ==
  { Text(<<5, 6, 0, 0>>, 2), Text(<<5, 6, 7, 8>>, 4), Text(<<5, 0, 6, 0>>, 3),
    Text(<<0, 0>>, 0), Text(<<7>>, 1), Text(<<>>, 0), Text(<<5, 6, 7, 8, 9>>, 5) }
  \cup {[kind |-> "points", count |-> n] : n \in 0 .. 2}
  \cup {[kind |-> "box"]}
=============================================================================
