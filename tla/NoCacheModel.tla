---------------------------- MODULE NoCacheModel ----------------------------
(***************************************************************************)
(* What a caller of InstructsamLmForward is promised: the answer of every  *)
(* call is the one of run, the forward pass over all rows from the first   *)
(* on, as if no K and V were kept from call to call.  Once a call has      *)
(* failed half-way the answers are not to be relied on.                    *)
(***************************************************************************)
EXTENDS Transformer

CONSTANTS Embeds, Prefixes, Phrases

VARIABLES
  status,    \* "none" before there is a context, then "ready" or "broken"
  context,   \* the rows given so far
  answer     \* the states the last call returned

vars == <<status, context, answer>>

Last(s) == s[Len(s)]

Init == status = "none" /\ context = <<>> /\ answer = <<>>

(* A context is begun; the state of its last row may be asked for as well. *)
Prefill(rows) ==
  /\ status = "none" /\ status' = "ready"
  /\ context' = rows
  /\ answer' \in {<<>>, <<Last(Run(rows))>>}

(* A row is added and its state is returned, or lost. *)
Decode(e) ==
  /\ status = "ready" /\ status' = "ready"
  /\ context' = Append(context, Row(e, Len(context)))
  /\ answer' \in {answer, <<Last(Run(context'))>>}

(* A phrase is looked at, and forgotten. *)
Extract(phrase) ==
  /\ status = "ready"
  /\ answer' = SegOut(Run(context \o RowsFrom(phrase \o Injected, Len(context))))
  /\ UNCHANGED <<status, context>>

Fail == status = "ready" /\ status' = "broken" /\ UNCHANGED <<context, answer>>

Unreliable == status = "broken" /\ status' = "broken"

Next ==
  \/ \E es \in Prefixes : Prefill(RowsFrom(es, 0))
  \/ \E e \in Embeds : Decode(e)
  \/ \E phrase \in Phrases : Extract(phrase)
  \/ Fail \/ Unreliable

Spec == Init /\ [][Next]_vars
=============================================================================
