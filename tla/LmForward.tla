------------------------------ MODULE LmForward ------------------------------
(***************************************************************************)
(* InstructsamLmForward of src/instructsam_lm_forward.cpp as its callers   *)
(* use it: a prefix is run once and its K and V are kept, then rows are    *)
(* decoded onto the cache one at a time, or the mask queries of a phrase   *)
(* are run against it.  Each layer is a step of its own, since loading its *)
(* weights may throw and what was done to the cache before stays done.     *)
(***************************************************************************)
EXTENDS Transformer

CONSTANTS
  Embeds,     \* input embeddings of tokens and of image patches
  Prefixes,   \* the prefixes that are run, none of them empty
  Phrases,    \* what is appended before the mask queries
  MaxCached,  \* bound: rows that a cache grows to, those of failed calls included
  TokenTypes  \* types token_embd.weight may have, of "f32", "f16" and "other"

RowSet == [embed : Embeds \cup {MaskStart, MaskEnd} \cup {MaskQuery(j) : j \in 0 .. NQueries - 1},
           pos : Nat]
Computed == [layer : 0 .. NLayers, own : RowSet, attended : Seq(RowSet)]

ASSUME LmForwardAssumption ==
  /\ NLayers \in Nat \ {0} /\ NQueries \in Nat \ {0} /\ MaxCached \in Nat
  /\ Prefixes \subseteq Seq(Embeds) /\ <<>> \notin Prefixes
  /\ Phrases \subseteq Seq(Embeds)
  /\ TokenTypes \subseteq {"f32", "f16", "other"}
  /\ Garbage \notin Computed

VARIABLES
  pc,
  layer,     \* the layer loop of the call that is running
  hidden,    \* its new rows
  kv,        \* KvCache: k and v of each layer, one entry per row
  ncached,   \* KvCache: n_cached
  broken,    \* a decode_step has thrown and left the layers unequal
  result,    \* what the last call that returned one has returned
  tokenEmbd, \* the type of token_embd.weight in the model file
  embdCache, \* embd_cache_f32_: empty, resized but all zero, or the table
  logits     \* what the last logits were computed with, or "none"

vars == <<pc, layer, hidden, kv, ncached, broken, result, tokenEmbd, embdCache, logits>>

Init ==
  /\ pc = "none" /\ layer = 0 /\ hidden = <<>>
  /\ kv = [l \in Layers |-> <<>>] /\ ncached = 0 /\ broken = FALSE
  /\ result = <<>>
  /\ tokenEmbd \in TokenTypes /\ embdCache = "empty" /\ logits = "none"

HeadUnchanged == UNCHANGED <<tokenEmbd, embdCache, logits>>

MoreLayers(l) == l < NLayers

(* A call returns or throws; its locals are gone. *)
End(next) == pc' = next /\ layer' = 0 /\ hidden' = <<>>

Begin(call, rows) ==
  /\ pc' = call /\ layer' = 0 /\ hidden' = Inputs(rows)

(* prefill_prefix and prefill_with_last_hidden. *)
Prefill(es) ==
  /\ pc = "none"
  /\ Begin("prefill", RowsFrom(es, 0))
  /\ ncached' = Len(es)
  /\ UNCHANGED <<kv, broken, result>> /\ HeadUnchanged

PrefillLayer ==
  /\ pc = "prefill" /\ MoreLayers(layer)
  /\ hidden' = LayerForward(layer, hidden, <<>>, 0)
  /\ kv' = [kv EXCEPT ![layer] = hidden]
  /\ layer' = layer + 1
  /\ UNCHANGED <<pc, ncached, broken, result>> /\ HeadUnchanged

(* prefill_prefix returns the cache alone, prefill_with_last_hidden the     *)
(* state of the last row as well.                                           *)
PrefillReturn ==
  /\ pc = "prefill" /\ ~ MoreLayers(layer)
  /\ result' \in {<<>>, <<hidden[Len(hidden)]>>}
  /\ End("idle")
  /\ UNCHANGED <<kv, ncached, broken>> /\ HeadUnchanged

(* The cache is a local of the call: it goes with it. *)
PrefillThrow ==
  /\ pc = "prefill"
  /\ End("none")
  /\ kv' = [l \in Layers |-> <<>>] /\ ncached' = 0
  /\ UNCHANGED <<broken, result>> /\ HeadUnchanged

\* Faulty: the position counts from one.
DecodePosLate(n) == n + 1

(* The position callers give: prefix plus steps, the rows cached so far. *)
DecodePos(n) == n

Decode(e) ==
  /\ pc = "idle" /\ Len(kv[0]) < MaxCached
  /\ Begin("decode", <<Row(e, DecodePos(ncached))>>)
  /\ UNCHANGED <<kv, ncached, broken, result>> /\ HeadUnchanged

\* Faulty: the new row overwrites the last one of the cache.
AppendedOver(kvs, hs) == SubSeq(kvs, 1, Len(kvs) - 1) \o hs

Appended(kvs, hs) == kvs \o hs

DecodeLayer ==
  /\ pc = "decode" /\ MoreLayers(layer)
  /\ hidden' = LayerForward(layer, hidden, kv[layer], ncached)
  /\ kv' = [kv EXCEPT ![layer] = Appended(kv[layer], hidden)]
  /\ layer' = layer + 1
  /\ UNCHANGED <<pc, ncached, broken, result>> /\ HeadUnchanged

(* n_cached is counted up before output_norm.weight is read, which throws   *)
(* when it is missing: then the row stays cached and its state is lost.     *)
DecodeReturn ==
  /\ pc = "decode" /\ ~ MoreLayers(layer)
  /\ ncached' = ncached + 1
  /\ result' \in {result, hidden}
  /\ End("idle")
  /\ UNCHANGED <<kv, broken>> /\ HeadUnchanged

(* The layers gone through have a row more than n_cached, the others not. *)
DecodeThrow ==
  /\ pc = "decode" /\ MoreLayers(layer)
  /\ broken' = (broken \/ layer > 0)
  /\ End("idle")
  /\ UNCHANGED <<kv, ncached, result>> /\ HeadUnchanged

\* Faulty: the positions of the phrase count from its own start.
ExtractPosFromZero(n) == 0

ExtractPos(n) == n

(* extract_seg_output_embeddings_with_cache *)
Extract(phrase) ==
  /\ pc = "idle"
  /\ Begin("extract", RowsFrom(phrase \o Injected, ExtractPos(ncached)))
  /\ UNCHANGED <<kv, ncached, broken, result>> /\ HeadUnchanged

ExtractLayer ==
  /\ pc = "extract" /\ MoreLayers(layer)
  /\ hidden' = LayerForward(layer, hidden, kv[layer], ncached)
  /\ layer' = layer + 1
  /\ UNCHANGED <<pc, kv, ncached, broken, result>> /\ HeadUnchanged

ExtractReturn ==
  /\ pc = "extract" /\ ~ MoreLayers(layer)
  /\ result' = SegOut(hidden)
  /\ End("idle")
  /\ UNCHANGED <<kv, ncached, broken>> /\ HeadUnchanged

ExtractThrow ==
  /\ pc = "extract"
  /\ End("idle")
  /\ UNCHANGED <<kv, ncached, broken, result>> /\ HeadUnchanged

(* The table after the switch on the type of token_embd.weight. *)
Filled(t) == IF t = "other" THEN "zero" ELSE "table"

(* logits_for_hidden.  The table is resized, which fills it with zeros, and *)
(* only then is the type looked at; a later call finds it not empty.        *)
LogitsForHidden ==
  /\ pc = "idle" /\ Len(result) = 1
  /\ embdCache' = IF embdCache = "empty" THEN Filled(tokenEmbd) ELSE embdCache
  /\ \/ /\ embdCache = "empty" /\ tokenEmbd = "other"
        /\ UNCHANGED logits
     \/ /\ embdCache # "empty" \/ tokenEmbd # "other"
        /\ logits' = embdCache'
  /\ UNCHANGED <<pc, layer, hidden, kv, ncached, broken, result, tokenEmbd>>

Next ==
  \/ (\E es \in Prefixes : Prefill(es)) \/ PrefillLayer \/ PrefillReturn \/ PrefillThrow
  \/ (\E e \in Embeds : Decode(e)) \/ DecodeLayer \/ DecodeReturn \/ DecodeThrow
  \/ (\E phrase \in Phrases : Extract(phrase)) \/ ExtractLayer \/ ExtractReturn \/ ExtractThrow
  \/ LogitsForHidden

Spec == Init /\ [][Next]_vars

-----------------------------------------------------------------------------
(***************************************************************************)
(* Properties.                                                             *)
(***************************************************************************)

(* The rows the caller has put into the cache, as its first layer has them. *)
Context == IF pc \in {"none", "prefill"} THEN <<>> ELSE Owns(SubSeq(kv[0], 1, ncached))

Status == IF pc \in {"none", "prefill"} THEN "none" ELSE IF broken THEN "broken" ELSE "ready"

NoCache == INSTANCE NoCacheModel
             WITH status <- Status, context <- Context, answer <- result

(* include/sam3/instructsam_lm_forward.h:116: "Same numerical result as the *)
(* no-cache version": whatever calls came before, and whichever of them     *)
(* failed without touching the cache, a call on the cache returns what run  *)
(* returns on all the rows.                                                 *)
ImplementsNoCache == NoCache!Spec

States == Computed \cup {Garbage}

TypeOK ==
  /\ pc \in {"none", "idle", "prefill", "decode", "extract"}
  /\ layer \in 0 .. NLayers
  /\ hidden \in Seq(States) /\ result \in Seq(States)
  /\ kv \in [Layers -> Seq(States)]
  /\ ncached \in Nat /\ broken \in BOOLEAN
  /\ tokenEmbd \in TokenTypes /\ embdCache \in {"empty", "zero", "table"}
  /\ logits \in {"none", "zero", "table"}

(* Unless a decode_step has thrown half-way, every layer holds the K and V  *)
(* of the same rows, those of the layer, with consecutive positions; while  *)
(* a call runs the layers it has gone through are ahead by the new rows.    *)
CacheIsPrefix ==
  ~ broken =>
    \A l \in Layers :
      /\ Len(kv[l]) = CASE pc = "none"    -> 0
                        [] pc = "prefill" -> IF l < layer THEN ncached ELSE 0
                        [] pc = "decode"  -> IF l < layer THEN ncached + 1 ELSE ncached
                        [] OTHER          -> ncached
      /\ Coherent(l, kv[l])
      /\ \A j \in 1 .. Len(kv[l]) :
           kv[l][j].own.pos = j - 1 /\ kv[l][j].own = kv[0][j].own

(* Also after a decode_step has thrown half-way, n_cached counts no row that *)
(* a layer has not: no later call reads past the end of a layer's K and V.   *)
CountedRowsAreThere ==
  pc \in {"idle", "decode", "extract"} => \A l \in Layers : Len(kv[l]) >= ncached

=============================================================================
