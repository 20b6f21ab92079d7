---------------------------- MODULE MCTokenizer ----------------------------
(* Merge tables of up to four merges over two letters, among them merges    *)
(* of a letter with itself and of merged symbols; prompts with capitals,    *)
(* repeated words, digits, punctuation and more tokens than the context.    *)
EXTENDS Tokenizer

A == <<"a">>
B == <<"b">>
AA == <<"a", "a">>
AB == <<"a", "b">>
Ae == <<"a", "end">>
Be == <<"b", "end">>
ABe == <<"a", "b", "end">>

MCSingles == {A, B, Ae, Be}
MCPairs == MCSingles \X MCSingles
MCTables ==
  {<<p, q>> : p, q \in {m \in MCPairs : m[1] \in {A, B}}}
  \cup {<<>>, <<<<A, A>>, <<AA, B>>, <<A, Be>>>>, <<<<A, B>>, <<A, Be>>, <<AB, ABe>>>>,
        <<<<B, A>>, <<A, A>>, <<AA, AA>>, <<AA, Ae>>>>}
MCMergeTables == {t \in MCTables : WellFormed(t)}

MCLower(c) == IF c = "A" THEN "a" ELSE c
MCTexts ==
  {<<>>, <<" ">>, <<"a", "b", "a", "b">>, <<"A", "a", "a">>, <<"a", "b", " ", "A", "b">>,
   <<"a", "a", "a", "a", "a", "b">>, <<"b", "b", "1", "1", "a">>, <<" ", "a", "!", "!", "b", " ">>,
   <<"b", "a", "a", "b", "a">>}
=============================================================================
