---------------------------- MODULE MCLmForward ----------------------------
(* Two layers, two mask queries, two embeddings; prefixes of one and two    *)
(* rows, an empty phrase and one of one embedding.                          *)
EXTENDS LmForward

CONSTANTS x, y

MCEmbeds == {x, y}
MCPrefixes == {<<x>>, <<x, y>>}
MCPhrases == {<<>>, <<y>>}
MCMaskQuery(j) == <<"mask query", j>>
=============================================================================
