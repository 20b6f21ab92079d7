----------------------------- MODULE Tokenizer -----------------------------
(***************************************************************************)
(* SimpleTokenizer::tokenize of src/tokenizer.cpp: a prompt is split into  *)
(* pieces, each piece is encoded by byte pair merging, or found in the     *)
(* cache that all calls on the tokenizer share, and the tokens are framed  *)
(* and cut or padded to the context length.                                *)
(*                                                                         *)
(* A symbol is a sequence of characters, the last of a piece ending in     *)
(* EndOfWord, and stands for its own token: the vocabulary has one id for  *)
(* each symbol that is a character or the result of a merge.               *)
(***************************************************************************)
EXTENDS Integers, SequencesExt

CONSTANTS
  Alpha, Digits, Space,  \* characters; every other one is punctuation
  Other,                 \* punctuation
  Lower(_),              \* tolower
  EndOfWord,             \* </w>
  Sot, Eot, Pad,         \* <start_of_text>, <end_of_text> and id 0
  ContextLength,         \* 32 in every caller
  MergeTables,           \* tables of merges, best rank first
  Texts,                 \* the prompts
  MaxCalls               \* bound: calls on one tokenizer

Chars == Alpha \cup Digits \cup Space \cup Other

Bytes == Alpha \cup Digits \cup Other

SingleSymbols == {<<c>> : c \in Bytes} \cup {<<c, EndOfWord>> : c \in Bytes}

AllSymbols == Seq(Chars \cup {EndOfWord})

Result(merge) == merge[1] \o merge[2]

(* The table that comes with the code, assets/bpe_simple_vocab_16e6.txt.gz, *)
(* merges only what is there already and gives each symbol once.            *)
WellFormed(table) ==
  \A i \in 1 .. Len(table) :
    LET known == SingleSymbols \cup {Result(table[j]) : j \in 1 .. i - 1}
    IN {table[i][1], table[i][2]} \subseteq known /\ Result(table[i]) \notin known

ASSUME TokenizerAssumption ==
  /\ ContextLength \in Nat \ {0, 1} /\ MaxCalls \in Nat
  /\ Texts \subseteq Seq(Chars)
  /\ \A table \in MergeTables : table \in Seq(AllSymbols \X AllSymbols) /\ WellFormed(table)
  /\ \A c \in Bytes : Lower(c) \in Bytes
  /\ EndOfWord \notin Chars

VARIABLES
  stage,
  merges,   \* bpe_ranks, as the sequence of the pairs in the order of ranks
  text,     \* the prompt of the call
  unread,     \* pieces not encoded yet
  word,     \* symbols of the piece that is being merged
  ids,
  cache,    \* from pieces to their symbols
  out,      \* what the last call returned
  calls

tokenizerVars == <<stage, merges, text, unread, word, ids, cache, out, calls>>

(* The cache begins with the two special tokens, which no piece spells. *)
TokenizerInit ==
  /\ stage = "idle" /\ merges \in MergeTables
  /\ text = <<>> /\ unread = <<>> /\ word = <<>> /\ ids = <<>>
  /\ cache = [p \in {} |-> <<>>]
  /\ out = <<>> /\ calls = 0

Encoder == SingleSymbols \cup {Result(merges[i]) : i \in 1 .. Len(merges)}

Kind(c) == CASE c \in Alpha  -> "alpha"
             [] c \in Digits -> "digit"
             [] c \in Space  -> "space"
             [] OTHER        -> "other"

(* collapse_ascii_whitespace_lower, then split_tokens_ascii: a piece is a   *)
(* run of characters of one kind.                                           *)
Pieces(t) ==
  LET split[i \in 0 .. Len(t)] ==
        IF i = 0 THEN [pieces |-> <<>>, last |-> "space"]
        ELSE LET before == split[i - 1]
                 kind == Kind(t[i])
             IN IF kind = "space" THEN [before EXCEPT !.last = "space"]
                ELSE IF kind = before.last
                  THEN [before EXCEPT !.pieces = Append(Front(@), Append(Last(@), Lower(t[i])))]
                  ELSE [pieces |-> Append(before.pieces, <<Lower(t[i])>>), last |-> kind]
  IN split[Len(t)].pieces

(* split_utf8_codepoints; the last symbol gets the end-of-word mark. *)
Symbols(piece) ==
  [i \in 1 .. Len(piece) |-> IF i = Len(piece) THEN <<piece[i], EndOfWord>> ELSE <<piece[i]>>]

PairsOf(w) == {<<w[i], w[i + 1]>> : i \in 1 .. Len(w) - 1}

Ranked(w) == {r \in 1 .. Len(merges) : merges[r] \in PairsOf(w)}

\* Faulty: the pair that was found last is merged.
BestPairLast(w) == merges[Max(Ranked(w))]

BestPair(w) == merges[Min(Ranked(w))]

(* One pass over the word, from the left, merging every occurrence. *)
Merged(w, pair) ==
  LET pass[i \in 0 .. Len(w)] ==
        IF i = 0 THEN <<>>
        ELSE LET new == pass[i - 1]
             IN IF new # <<>> /\ Last(new) = pair[1] /\ w[i] = pair[2]
                  THEN Append(Front(new), Result(pair))
                  ELSE Append(new, w[i])
  IN pass[Len(w)]

(* Symbols that the vocabulary lacks are dropped. *)
Encoded(symbols) ==
  LET kept[i \in 0 .. Len(symbols)] ==
        IF i = 0 THEN <<>>
        ELSE IF symbols[i] \in Encoder THEN Append(kept[i - 1], symbols[i])
        ELSE kept[i - 1]
  IN kept[Len(symbols)]

Tokenize(t) ==
  /\ stage = "idle" /\ calls < MaxCalls
  /\ text' = t /\ unread' = Pieces(t) /\ ids' = <<Sot>>
  /\ calls' = calls + 1 /\ stage' = "piece"
  /\ UNCHANGED <<merges, word, cache, out>>

CacheHit ==
  /\ stage = "piece" /\ unread # <<>> /\ Head(unread) \in DOMAIN cache
  /\ ids' = ids \o Encoded(cache[Head(unread)]) /\ unread' = Tail(unread)
  /\ UNCHANGED <<stage, merges, text, word, cache, out, calls>>

CacheMiss ==
  /\ stage = "piece" /\ unread # <<>> /\ Head(unread) \notin DOMAIN cache
  /\ word' = Symbols(Head(unread)) /\ stage' = "merge"
  /\ UNCHANGED <<merges, text, unread, ids, cache, out, calls>>

\* Faulty: the merged word is not taken over.
NextWordUnswapped(w) == w

NextWord(w) == Merged(w, BestPair(w))

MergeRound ==
  /\ stage = "merge" /\ Ranked(word) # {}
  /\ word' = NextWord(word)
  /\ UNCHANGED <<stage, merges, text, unread, ids, cache, out, calls>>

(* No pair of the word has a rank: it is cached and its tokens are added. *)
MergeDone ==
  /\ stage = "merge" /\ Ranked(word) = {}
  /\ cache' = [p \in DOMAIN cache \cup {Head(unread)} |->
                 IF p = Head(unread) THEN word ELSE cache[p]]
  /\ ids' = ids \o Encoded(word) /\ unread' = Tail(unread)
  /\ word' = <<>> /\ stage' = "piece"
  /\ UNCHANGED <<merges, text, out, calls>>

\* Faulty: the end is cut off together with the rest.
CutWithoutEnd(s) == SubSeq(s, 1, ContextLength)

(* ids.resize(context_length); ids.back() = eot *)
Cut(s) == Append(SubSeq(s, 1, ContextLength - 1), Eot)

TooLong(s) == Len(s) > ContextLength

Fitted(s) == IF TooLong(s) THEN Cut(s) ELSE s

Padded(s) == [i \in 1 .. ContextLength |-> IF i <= Len(s) THEN s[i] ELSE Pad]

Return ==
  /\ stage = "piece" /\ unread = <<>>
  /\ out' = Padded(Fitted(Append(ids, Eot)))
  /\ stage' = "idle"
  /\ UNCHANGED <<merges, text, unread, word, ids, cache, calls>>

CallsSpent == stage = "idle" /\ calls = MaxCalls /\ UNCHANGED tokenizerVars

TokenizerNext ==
  \/ \E t \in Texts : Tokenize(t)
  \/ CacheHit \/ CacheMiss \/ MergeRound \/ MergeDone \/ Return
  \/ CallsSpent

TokenizerSpec == TokenizerInit /\ [][TokenizerNext]_tokenizerVars

(* tokenize is straight-line code: a call that has begun goes on. *)
FairTokenizerSpec == TokenizerSpec /\ WF_tokenizerVars(stage # "idle" /\ TokenizerNext)

-----------------------------------------------------------------------------
(***************************************************************************)
(* Properties.                                                             *)
(***************************************************************************)

(* Byte pair encoding as it was trained: every merge is applied once, in    *)
(* the order of the ranks.                                                  *)
InRankOrder(piece) ==
  LET after[k \in 0 .. Len(merges)] ==
        IF k = 0 THEN Symbols(piece) ELSE Merged(after[k - 1], merges[k])
  IN after[Len(merges)]

(* Merging the best pair of the word until none has a rank, which looks     *)
(* only at the pairs of the word, comes to the same as going through the    *)
(* whole table once; and what one call has cached is right for all others.  *)
CacheIsInRankOrder == \A p \in DOMAIN cache : cache[p] = InRankOrder(p)

(* The tokens of the whole prompt, none of them lost. *)
WholePrompt ==
  LET ps == Pieces(text)
      tokens[n \in 0 .. Len(ps)] ==
        IF n = 0 THEN <<>> ELSE tokens[n - 1] \o InRankOrder(ps[n])
  IN tokens[Len(ps)]

(* A prompt that fits is returned whole between its two marks; of one that  *)
(* does not the head is, and the end mark is there all the same, last and   *)
(* only once.  What follows the end mark is padding.                        *)
FramesThePrompt ==
  stage = "idle" /\ calls > 0 =>
    \E k \in 2 .. ContextLength :
      /\ k = ContextLength \/ k = Len(WholePrompt) + 2
      /\ out[1] = Sot /\ out[k] = Eot
      /\ SubSeq(out, 2, k - 1) = SubSeq(WholePrompt, 1, k - 2)
      /\ k <= Len(WholePrompt) + 2
      /\ \A i \in k + 1 .. ContextLength : out[i] = Pad

(* Every call ends: each round of merging makes the word shorter. *)
Returns == stage # "idle" ~> stage = "idle"
=============================================================================
