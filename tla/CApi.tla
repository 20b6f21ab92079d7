-------------------------------- MODULE CApi --------------------------------
(***************************************************************************)
(* The C interface (src/c_api.cpp) and the Rust binding that calls it      *)
(* (bindings/rust/src/lib.rs).  A Sam3Model is neither Send nor Sync, so   *)
(* every thread has a model of its own; what the threads share is the heap *)
(* that results are allocated from.  A call is split where another thread  *)
(* may allocate or free.                                                   *)
(***************************************************************************)
EXTENDS Integers, FiniteSets

CONSTANTS
  Threads,
  Blocks,     \* addresses malloc may return
  NULL,
  MaxCount,   \* bound: objects in a prediction
  MaxCalls    \* bound: calls of sam3_create or sam3_predict per thread

ASSUME CApiAssumption ==
  /\ NULL \notin Blocks
  /\ MaxCount \in Nat /\ MaxCalls \in Nat

Arrays == {"scores", "boxes", "masks"}

VARIABLES
  at,
  model,      \* the thread has a handle
  calls,      \* the number of calls the thread made; it identifies a call
  pred,       \* objects in the Sam3Prediction of the current call
  raw,        \* the sam3_result of the current call
  heap,       \* what the allocated blocks hold
  lastError,  \* g_last_error, one per thread: the call that failed
  answer      \* what the last call returned to the caller

apiVars == <<at, model, calls, pred, raw, heap, lastError, answer>>

ZeroRaw == [count |-> 0, array |-> [a \in Arrays |-> NULL]]

(* malloc leaves a block as it is; memcpy fills it with an array of a call. *)
Garbage == <<"garbage">>
NoError == <<"none">>
Call(t) == <<t, calls[t]>>
Nothing == [kind |-> "nothing"]

(* Blocks that are allocated, and the pointers of a result.                *)
Allocated == DOMAIN heap
PointersOf(r) == {r.array[a] : a \in Arrays} \ {NULL}

(* The heap after free of some blocks.                                     *)
Without(blocks) == [b \in Allocated \ blocks |-> heap[b]]

ApiInit ==
  /\ at = [t \in Threads |-> "idle"]
  /\ model = [t \in Threads |-> FALSE]
  /\ calls = [t \in Threads |-> 0]
  /\ pred = [t \in Threads |-> 0]
  /\ raw = [t \in Threads |-> ZeroRaw]
  /\ heap = [b \in {} |-> Garbage]
  /\ lastError = [t \in Threads |-> NoError]
  /\ answer = [t \in Threads |-> Nothing]

Goto(t, label) == at' = [at EXCEPT ![t] = label]
Count(t) == calls' = [calls EXCEPT ![t] = @ + 1]

\* Faulty: without thread_local.
ErrorsAfterShared(t) == [u \in Threads |-> Call(t)]

(* set_error: g_last_error is thread_local.                                *)
ErrorsAfter(t) == [lastError EXCEPT ![t] = Call(t)]

(* set_error and the error code; the binding goes on to clean up.          *)
Throw(t, label) == lastError' = ErrorsAfter(t) /\ Goto(t, label)

-----------------------------------------------------------------------------
(* Sam3Model::with_options: the model is loaded, or sam3_create returns    *)
(* null and the error is read.                                             *)
Create(t) ==
  /\ at[t] = "idle" /\ ~ model[t] /\ calls[t] < MaxCalls
  /\ Count(t) /\ Goto(t, "creating")
  /\ UNCHANGED <<model, pred, raw, heap, lastError, answer>>

Created(t) ==
  /\ at[t] = "creating"
  /\ \/ /\ model' = [model EXCEPT ![t] = TRUE] /\ Goto(t, "idle")
        /\ answer' = [answer EXCEPT ![t] = Nothing] /\ UNCHANGED lastError
     \/ Throw(t, "error") /\ UNCHANGED <<model, answer>>
  /\ UNCHANGED <<calls, pred, raw, heap>>

(* Drop for Sam3Model                                                      *)
Destroy(t) ==
  /\ at[t] = "idle" /\ model[t]
  /\ model' = [model EXCEPT ![t] = FALSE]
  /\ UNCHANGED <<at, calls, pred, raw, heap, lastError, answer>>

(* Sam3Model::predict or predict_tokens: a zeroed result is passed down.   *)
Predict(t) ==
  /\ at[t] = "idle" /\ model[t] /\ calls[t] < MaxCalls
  /\ Count(t) /\ Goto(t, "predicting")
  /\ raw' = [raw EXCEPT ![t] = ZeroRaw]
  /\ UNCHANGED <<model, pred, heap, lastError, answer>>

(* An argument the binding cannot pass on (path_to_cstring, CString::new)  *)
(* is an error of its own: nothing native is called and no result exists.  *)
Refuse(t) ==
  /\ at[t] = "idle" /\ calls[t] < MaxCalls
  /\ Count(t)
  /\ answer' = [answer EXCEPT ![t] = [kind |-> "error", from |-> <<t, calls'[t]>>]]
  /\ UNCHANGED <<at, model, pred, raw, heap, lastError>>

(* The pipeline throws, or returns; fill_result then clears the result and *)
(* copies the counts.  A null argument fails like an exception: the result *)
(* stays as it was passed, and the binding passes none.                    *)
Predicted(t) ==
  /\ at[t] = "predicting"
  /\ \/ Throw(t, "release") /\ UNCHANGED <<pred, raw>>
     \/ \E n \in 0 .. MaxCount :
          /\ pred' = [pred EXCEPT ![t] = n]
          /\ raw' = [raw EXCEPT ![t] = [ZeroRaw EXCEPT !.count = n]]
          /\ Goto(t, "scores") /\ UNCHANGED lastError
  /\ UNCHANGED <<model, calls, heap, answer>>

NextArray(a) == CASE a = "scores" -> "boxes" [] a = "boxes" -> "masks" [] a = "masks" -> "copy"

(* One malloc of fill_result; it may fail, and is only looked at later.    *)
Allocate(t, a) ==
  /\ at[t] = a
  /\ \/ \E b \in Blocks \ Allocated :
          /\ raw' = [raw EXCEPT ![t].array[a] = b]
          /\ heap' = [c \in Allocated \cup {b} |-> IF c = b THEN Garbage ELSE heap[c]]
     \/ UNCHANGED <<raw, heap>>
  /\ Goto(t, NextArray(a))
  /\ UNCHANGED <<model, calls, pred, lastError, answer>>

\* Faulty: the pointers are kept.
RawAfterFreeStale(r) == [r EXCEPT !.count = 0]

(* The memset that ends sam3_result_free.                                  *)
RawAfterFree(r) == ZeroRaw

(* sam3_result_free; freeing a null pointer does nothing.                  *)
ResultFree(t) ==
  /\ heap' = Without(PointersOf(raw[t]))
  /\ raw' = [raw EXCEPT ![t] = RawAfterFree(raw[t])]

AllocationFailed(t) ==
  /\ at[t] = "copy" /\ \E a \in Arrays : raw[t].array[a] = NULL
  /\ ResultFree(t)
  /\ Throw(t, "release")
  /\ UNCHANGED <<model, calls, pred, answer>>

\* Faulty: the scores are copied three times.
CopiedScores(t, a) == <<Call(t), "scores">>

(* The array of the prediction that memcpy copies into an array.           *)
Copied(t, a) == <<Call(t), a>>

(* The three memcpy, left out when the prediction is empty.                *)
Copy(t) ==
  /\ at[t] = "copy" /\ \A a \in Arrays : raw[t].array[a] # NULL
  /\ heap' = IF pred[t] = 0 THEN heap
             ELSE [b \in Allocated |->
                     IF \E a \in Arrays : raw[t].array[a] = b
                     THEN Copied(t, CHOOSE a \in Arrays : raw[t].array[a] = b)
                     ELSE heap[b]]
  /\ Goto(t, "convert")
  /\ UNCHANGED <<model, calls, pred, raw, lastError, answer>>

(* convert_prediction: the slices are copied, then the result is freed.    *)
Convert(t) ==
  /\ at[t] = "convert"
  /\ answer' = [answer EXCEPT ![t] =
       [kind |-> "prediction", count |-> raw[t].count,
        holds |-> [a \in Arrays |-> IF raw[t].count = 0 THEN Garbage ELSE heap[raw[t].array[a]]]]]
  /\ Goto(t, "converted")
  /\ UNCHANGED <<model, calls, pred, raw, heap, lastError>>

FreeResult(t) ==
  /\ at[t] = "converted"
  /\ ResultFree(t) /\ Goto(t, "idle")
  /\ UNCHANGED <<model, calls, pred, lastError, answer>>

(* A call failed: the binding frees the result, whatever it holds, and     *)
(* then asks for the error.                                                *)
Release(t) ==
  /\ at[t] = "release"
  /\ ResultFree(t) /\ Goto(t, "error")
  /\ UNCHANGED <<model, calls, pred, lastError, answer>>

ReadError(t) ==
  /\ at[t] = "error"
  /\ answer' = [answer EXCEPT ![t] = [kind |-> "error", from |-> lastError[t]]]
  /\ Goto(t, "idle")
  /\ UNCHANGED <<model, calls, pred, raw, heap, lastError>>

(* The callers may stop when they have made their calls.                   *)
Quiet ==
  /\ \A t \in Threads : at[t] = "idle" /\ ~ model[t] /\ calls[t] = MaxCalls
  /\ UNCHANGED apiVars

Step(t) ==
  \/ Create(t) \/ Created(t) \/ Destroy(t) \/ Predict(t) \/ Predicted(t)
  \/ Refuse(t)
  \/ \E a \in Arrays : Allocate(t, a)
  \/ AllocationFailed(t) \/ Copy(t) \/ Convert(t) \/ FreeResult(t)
  \/ Release(t) \/ ReadError(t)

ApiNext == (\E t \in Threads : Step(t)) \/ Quiet

ApiSpec == ApiInit /\ [][ApiNext]_apiVars

-----------------------------------------------------------------------------
(* Threads, results, heap and answers hold what their types say.           *)
Contents == {Garbage} \cup ((Threads \X (0 .. MaxCalls)) \X Arrays)
Errors == {NoError} \cup (Threads \X (0 .. MaxCalls))

ApiTypeOK ==
  /\ at \in [Threads -> Arrays \cup {"idle", "creating", "predicting", "copy", "convert",
                                     "converted", "release", "error"}]
  /\ model \in [Threads -> BOOLEAN]
  /\ calls \in [Threads -> 0 .. MaxCalls]
  /\ pred \in [Threads -> 0 .. MaxCount]
  /\ raw \in [Threads -> [count : 0 .. MaxCount, array : [Arrays -> Blocks \cup {NULL}]]]
  /\ Allocated \subseteq Blocks /\ heap \in [Allocated -> Contents]
  /\ lastError \in [Threads -> Errors]

(* Every block is held by exactly one pointer of exactly one result, every *)
(* pointer is to a block that is allocated, and a thread between two calls *)
(* holds none: nothing leaks, nothing is freed twice and nobody frees the  *)
(* block of another, although a failed call frees its result twice.        *)
HeapIsOwned ==
  /\ \A b \in Allocated : \E t \in Threads : b \in PointersOf(raw[t])
  /\ \A t \in Threads, a \in Arrays : raw[t].array[a] # NULL => raw[t].array[a] \in Allocated
  /\ \A t, u \in Threads, a, b \in Arrays :
       raw[t].array[a] = raw[u].array[b] /\ raw[t].array[a] # NULL => t = u /\ a = b
  /\ \A t \in Threads : at[t] = "idle" => PointersOf(raw[t]) = {}

(* The error a thread is told of is that of its own last call, although    *)
(* other threads fail meanwhile and sam3_result_free comes in between.     *)
ErrorIsOwn ==
  \A t \in Threads :
    at[t] = "idle" /\ answer[t].kind = "error" => answer[t].from = Call(t)

(* A prediction that reaches the caller has the scores, boxes and masks of *)
(* that very call, each in its own array.                                  *)
AnswerIsOwn ==
  \A t \in Threads :
    at[t] \in {"converted", "idle"} /\ answer[t].kind = "prediction" =>
      /\ answer[t].count = pred[t]
      /\ pred[t] > 0 => \A a \in Arrays : answer[t].holds[a] = <<Call(t), a>>
=============================================================================
