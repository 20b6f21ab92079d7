---------------------------- MODULE SegContract ----------------------------
(***************************************************************************)
(* What the language-model stage of tools/instructsam.cpp promises to the  *)
(* mask stages that follow it, with no KV memory, no branching and no      *)
(* output cap: the model answers the query, every phrase it marks with     *)
(* <|object_ref_start|> ... <|object_ref_end|> is delivered in order, and  *)
(* the outputs of a phrase are the hidden states of the mask queries read  *)
(* right after that phrase, as if nothing came after it.                   *)
(***************************************************************************)
EXTENDS Integers, Sequences, FiniteSets

CONSTANTS
  Vocab, RefStart, RefEnd,   \* tokens
  MaskStart, MaskQuery(_),   \* the injected embeddings
  NQ,                        \* mask queries per phrase
  PrefillCells, NPast0       \* the prompt in the KV memory, and its length

VARIABLES
  status,      \* "answering", "delivering", "text", "complete", "failed"
  response,    \* the tokens the model answered
  delivered    \* one entry per phrase: its outputs, by slot

vars == <<status, response, delivered>>

(* <<s, e>>: the token at s opens a phrase that the token at e closes.  A  *)
(* start marker inside an open phrase belongs to the phrase, and a phrase  *)
(* is closed by the first end marker after its start.                      *)
IsPhrase(r, s, e) ==
  /\ r[s] = RefStart /\ r[e] = RefEnd /\ s < e
  /\ \A m \in s + 1 .. e - 1 : r[m] # RefEnd
  /\ \A m \in 1 .. s - 1 :
       r[m] = RefStart => \E n \in m + 1 .. s - 1 : r[n] = RefEnd

PhraseEnds(r) == {e \in 1 .. Len(r) : \E s \in 1 .. e : IsPhrase(r, s, e)}

(* The position in the KV memory of the token at index j of the response. *)
PosOf(j) == NPast0 + j - 1

(* All that the hidden state of mask query k may depend on when the phrase *)
(* ends at index e of response r: the prompt, the response up to e, then   *)
(* <mask_start> and the queries up to k.                                   *)
SegOutput(r, e, k) ==
  PrefillCells
  \cup {[pos |-> PosOf(j), item |-> r[j]] : j \in 1 .. e}
  \cup {[pos |-> PosOf(e) + 1, item |-> MaskStart]}
  \cup {[pos |-> PosOf(e) + 2 + j, item |-> MaskQuery(j)] : j \in 0 .. k}

PhraseOutput(r, e) == [k \in 0 .. NQ - 1 |-> SegOutput(r, e, k)]

Init ==
  /\ status = "answering"
  /\ response = <<>>
  /\ delivered = <<>>

(* The answer grows token by token, until it ends or the stage fails. *)
Answer ==
  /\ status = "answering"
  /\ status' \in {"answering", "delivering", "failed"}
  /\ \/ response' = response
     \/ \E t \in Vocab : response' = Append(response, t)
  /\ UNCHANGED delivered

(* The next phrase is the one with as many phrases before it as delivered. *)
Deliver ==
  /\ status = "delivering"
  /\ \E e \in PhraseEnds(response) :
       /\ Cardinality({f \in PhraseEnds(response) : f < e}) = Len(delivered)
       /\ delivered' = Append(delivered, PhraseOutput(response, e))
  /\ UNCHANGED <<status, response>>

Complete ==
  /\ status = "delivering"
  /\ Len(delivered) = Cardinality(PhraseEnds(response))
  /\ status' = IF PhraseEnds(response) = {} THEN "text" ELSE "complete"
  /\ UNCHANGED <<response, delivered>>

Fail ==
  /\ status = "delivering"
  /\ status' = "failed"
  /\ UNCHANGED <<response, delivered>>

Next == Answer \/ Deliver \/ Complete \/ Fail

Spec == Init /\ [][Next]_vars
=============================================================================
