---------------------------- MODULE LlamaMemory ----------------------------
(***************************************************************************)
(* The part of llama.cpp that tools/instructsam.cpp relies on: the KV      *)
(* memory of a llama_context, split into sequences, and the rows of hidden *)
(* states a llama_decode leaves behind.  llama.cpp is not part of the      *)
(* repository; every operator is taken from how tools/instructsam.cpp and  *)
(* the probes under tools/ call it and from what their comments state.     *)
(*                                                                         *)
(* A cell of a sequence is a position and the item (token or injected      *)
(* embedding) stored there.  Several image cells may share a position      *)
(* (M-RoPE), so a sequence is a set of cells, not a list.  The hidden      *)
(* state a causal transformer computes at a position is represented by     *)
(* everything it may depend on: the cells at that position and before.     *)
(***************************************************************************)
EXTENDS Integers, FiniteSets

CONSTANTS
  NSeqMax,   \* cp.n_seq_max: sequences of the context, and its cap on outputs
  SeqCap,    \* cells one sequence can hold
  ReadBy,    \* what the argument of llama_get_embeddings_ith counts
  NaN,       \* the garbage in output rows above the cap
  Null       \* the null pointer for a row that does not exist

Cell(p, x) == [pos |-> p, item |-> x]

(* llama_memory_seq_rm(mem, s, p0, -1): drop every cell from p0 on. *)
SeqRm(mem, s, p0) == [mem EXCEPT ![s] = {c \in mem[s] : c.pos < p0}]

(* llama_memory_seq_cp(mem, src, dst, 0, -1): dst also holds all of src.  *)
(* What dst held before is kept, so a caller that wants a copy clears it. *)
SeqCp(mem, src, dst) == [mem EXCEPT ![dst] = mem[dst] \cup mem[src]]

(* llama_decode finds room for n more cells, or returns nonzero. *)
Fits(mem, s, n) == Cardinality(mem[s]) + n <= SeqCap

(* llama_decode stores the cells of the batch in sequence s. *)
Decoded(mem, s, batch) == [mem EXCEPT ![s] = mem[s] \cup batch]

(* The hidden state at position p of sequence s. *)
HiddenAt(mem, s, p) == {c \in mem[s] : c.pos <= p}

(* The batch index that output row k stands for: the k-th marked one. *)
MarkedRow(marks, k) ==
  CHOOSE m \in marks : Cardinality({x \in marks : x < m}) = k

(* llama_get_embeddings_ith(ctx, k) after a batch decoded at base, base+1, *)
(* ... with the batch indices in marks asked for.  ReadBy = "row" is the   *)
(* convention of tools/instructsam.cpp: k counts the marked tokens, and    *)
(* rows from the cap on are garbage.  ReadBy = "token" is the convention   *)
(* of tools/sam3_instructsam_llama_probe.cpp: k is the index in the batch, *)
(* and a token that was not marked has no row.                             *)
EmbeddingsIth(mem, s, base, marks, k) ==
  CASE ReadBy = "token" ->
         IF k \in marks THEN HiddenAt(mem, s, base + k) ELSE Null
    [] ReadBy = "row" ->
         IF k \notin 0 .. Cardinality(marks) - 1 THEN Null
         ELSE IF k >= NSeqMax THEN NaN
         ELSE HiddenAt(mem, s, base + MarkedRow(marks, k))
=============================================================================
