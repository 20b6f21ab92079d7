---------------------------- MODULE MCMaskStage ----------------------------
(* Answers with one or two phrases for a text tensor of four rows: phrases *)
(* that leave rows of padding, that fill the tensor, and that overrun it;  *)
(* and answers with text around, nested markers, or no phrase at all.      *)
EXTENDS MaskStage

CONSTANTS a, b, prompt

MCTokens == {a, b, RefStart}
MCPhrases == {<<>>, <<a>>, <<a, b>>, <<b, a, a>>}
Marked(p) == <<RefStart>> \o p \o <<RefEnd>>
MCAnswers ==
  {Marked(p) : p \in MCPhrases} \cup {Marked(p) \o Marked(q) : p, q \in MCPhrases}
  \cup {<<RefEnd, a>> \o Marked(<<b>>) \o <<RefEnd>>, Marked(<<RefStart>>) \o <<a, RefStart>>,
        <<>>, <<a, RefEnd>>, <<RefStart, a>>}
MCPrefillCells == {[pos |-> 0, item |-> prompt]}
MCMaskQuery(j) == <<"mask query", j>>
=============================================================================
