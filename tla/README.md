# InstructSAM in TLA+

A model of this repository's own code: the InstructSAM command line, the SAM3
image pipeline under it, and what surrounds them (tokenizer, model files, CPU
language model, C interface, bindings). Every module is translated from the
source; `PROJECT.json` maps each definition to the lines it stands for. The
modules are checked with TLC on small instances and, where marked, proved with
TLAPS for all values of their constants.

Paths below are relative to the repository's root, which `PROJECT.json` calls
`src/`.

## 1. The system

| Part | Code | State it keeps | Talks to |
|---|---|---|---|
| Command line | `tools/instructsam.cpp` (`main`, four stages) | locals of `main`: options, tokens of the answer, phrases, features, masks, scores; files in `--out-dir` | all InstructSAM parts, llama.cpp, libmtmd, stb |
| Language-model stage | the same, 593-846 | the llama context and its KV memory, `gen_tokens`, `n_past`, `phrase_tokens`, `seg_outs` | llama.cpp |
| Mask stage, outputs | the same, 848-1056 | text tensor and mask of a phrase, `per_obj_masks`, `per_obj_cls_scores` | detector |
| Detector | `src/instructsam_{detr_encoder,decoder,prompt_cross_attn,pixel_decoder,mask_tail}.cpp`, `lm_bridge` | the boxes, rows and positions of a phrase, from layer to layer; graphs and schedulers freed by hand | ggml, model file |
| InstructSAM vision encoder | `src/instructsam_{vision_encoder,preprocess,mmproj}.cpp` | a flat vector of rows, layer by layer | ggml, model file |
| Vision trunk and neck | `src/vision_{trunk,neck}.cpp` | one ggml graph each | pipeline, ggml |
| CPU language model | `src/instructsam_lm_forward.cpp` | a `KvCache` owned by the caller; a table cached on first use | model file |
| SAM3 pipeline | `src/pipeline.cpp` and the nine networks it runs | a tokenizer and a model; otherwise locals of a prediction | tokenizer, model file, ggml |
| CLIP tokenizer | `src/tokenizer.cpp` | merge ranks, vocabulary, a cache written by `const` calls | pipeline |
| Model file and reader | `tools/convert_instructsam_to_gguf.py`, `src/gguf_model.cpp` | the GGUF file and its sidecar; tensors and aliases | everything that reads weights |
| C interface, Rust binding | `src/c_api.cpp`, `bindings/rust/src/lib.rs` | handles, results on the heap, `thread_local g_last_error` | pipeline |
| Python package | `bindings/python/sam3cpp/__init__.py`, `src/module.cpp` | a cache directory shared by all processes of a user | Hugging Face, pipeline |
| Vendored and external | `third_party/ggml`, `third_party/stb`; llama.cpp and libmtmd (not in the tree) | KV memory, output buffers, graphs | |

The program is mostly straight-line C++, so little of it is concurrent. What
makes it hard is elsewhere:

* **The KV memory.** One llama context holds the answer in sequence 0, and each
  phrase branches off it into sequence 1, is trimmed to the end of the phrase,
  takes twelve injected embeddings, and gives two of its ten outputs. This is
  done five times per phrase, since the library returns at most `n_seq_max`
  outputs of a batch. Positions, trimming, marks and slots must all agree, and a
  mistake gives masks that look right for another phrase.
* **Masks of two polarities.** A prompt or phrase is padded; a mask says where.
  It is made in one file and read in four to six others, each with a conversion
  of its own. Attention does not fail on a wrong mask.
* **Memory order.** A tensor is a block of floats, and each step has its own idea
  of which index runs fastest: rows into windows and back, heads before rows or
  after, kernels of PyTorch, of MLX and of ggml, upsampling by a matrix product
  and a shuffle. Extents agree after most mistakes, so nothing throws.
* **Caches that outlive a call**: K and V of the CPU model, the tokenizer's
  cache, the cached table of embeddings, a model that is loaded again.
* **Failure half-way**: a weight missing in the third layer, a KV memory that is
  full, an allocation that fails, a write that stops.
* **Files and processes**: downloads of the same model by several processes,
  over one `.part` name; conversions that are killed between two files that
  belong together; names cut to 48 bits of a hash.
* **Threads**: only through the C interface, whose errors are read in a later
  call than the one that failed.

What makes each part correct is stated with the module that models it (section
3); the places where it could go wrong are the `hazards` of `PROJECT.json`.

## 2. Modules

| Module | Models | Proved in |
|---|---|---|
| `MaskStage` | the whole of `main`, from its options to its exit code; the language-model stage is one step of it, `SegContract`'s | `MaskStage_proofs` |
| `SegContract` | what the language-model stage promises: the abstract specification of `LmStage`, and what `MaskStage` builds on | `LmStage_proofs` |
| `LmStage` | stage 3 of `main` | `LmStage_proofs` |
| `LlamaMemory` | the KV memory and the outputs of a batch as `main` uses them (external) | |
| `Detector` | stage 4 of `main` for one phrase, network by network and layer by layer | `Detector_proofs` |
| `Detr` | the same without a memory layout: the abstract specification of `Detector` | `Detector_proofs` |
| `Vision` | the two vision stacks, from pixels to feature levels | `Vision_proofs` |
| `ViT` | a vision transformer without a memory layout: the abstract specification of `Vision` | `Vision_proofs` |
| `GgmlTensor` | axis order and reductions of the ggml operations these use (external) | `Lemmas` |
| `LmForward` | prefill, decode and extraction on a K/V cache | `LmForward_proofs` |
| `NoCacheModel` | the same calls without a cache: the abstract specification of `LmForward` | `LmForward_proofs` |
| `Transformer` | a causal forward pass, as the rows each state depends on | `LmForward_proofs` |
| `Pipeline` | a prediction of `Sam3ImagePipeline`, in all three forms | `Pipeline_proofs` |
| `Tokenizer` | `SimpleTokenizer` | `Files_proofs` |
| `ModelFile` | the converter, its two files, `GgufModel` | `Files_proofs` |
| `ModelCache` | `resolve_model_path` in several processes | `Files_proofs` |
| `CApi` | the C interface and the Rust binding, in several threads | `Pipeline_proofs` |

Each component has a module `MC...` that gives the constants their values for
TLC. No module uses a RECURSIVE operator. Names of `ModelCache`, `Tokenizer` and
`CApi` that other modules have too begin with `Cache`, `Tokenizer` and `Api`
(`CacheInit`, `CacheSpec`), so that one module can hold the proofs of several.

Three levels meet in the command line. `MaskStage` is the program. Its step
`Language` is `SegContract`, which `LmStage` implements (proved); its steps
`Encode` to `Score`, which keep what each attention sees of a phrase and what
the mask is made of, are told layer by layer and element by element in
`Detector`; what its step `VisionStage` computes with `--run-vision` is `Vision`.

Throughout, data is abstracted to what it was computed from. A hidden state is
the set of KV cells it may depend on; a row of a decoder is its query, its layer
and the box that steered it; an attention is the set of rows its mask leaves
visible; an element of a tensor is the pixel, channel and kernel taps it came
by; a tensor of a file is the checkpoint and name it came from. Two numbers
that must be equal are then equal in the model only if they were computed from
the same things, which is the question that can be asked without arithmetic.

`GgmlTensor` keeps tensors as ggml does: four extents and a block in memory
order. Its operators are named for what they stand for: `Tensor` for a new
tensor, `MulMat` for `ggml_mul_mat`, `FlashAttn` for `ggml_flash_attn_ext`,
`SoftMaxExt` for `ggml_soft_max_ext`, `Conv2d` and `ConvTranspose2d` for
`ggml_conv_2d` and `ggml_conv_transpose_2d_p0`, `Pool2x2` for `ggml_pool_2d`,
`AddTensors` for `ggml_add`; each takes, as an operator, what is made of the
elements that meet.

## 3. What each module says, and what the runs show

### LmStage (`lm_stage`)

`Setup` evaluates prompt and image (it or the loading before it may throw);
`Generate` records a token and, unless it is a stop token, decodes it onto
sequence 0; `ScanStep` is one turn of the loop that extracts phrases;
`Branch`, `Inject`, `ReadRows` are one of the five injections; `PushSegOut`
files the ten outputs; `Finish` and `TextOnly` are the two regular exits.
`NoLogits`, `BudgetSpent` and `CannotDetokenize` are the other ways on or out.
A decode fails when a sequence would outgrow `SeqCap`.

* `AnswerInKv`, `AnswerFrozen`: sequence 0 is the prompt and then exactly the
  decoded answer, and after decoding no step touches it.
* `PhraseMatchesKv`: the tokens a phrase's text features are made of are those
  that end at the position its queries are injected after.
* `SegOutsFaithful`: each slot holds the hidden state of its own query on the
  prefix that ends with its phrase.
* `ImplementsContract`: as a whole, the stage delivers what `SegContract` says:
  the phrases of the answer, in order, each with its ten outputs. `SegContract`
  defines phrases by quantifiers over the answer, with no loop or index.
* `NothingLeftLive`, `Terminates`.

`lm_stage` uses a vocabulary of four tokens (both markers, a word, a stop
token), which gives every answer up to isomorphism of words; seven tokens, so
that two phrases, nested, repeated and unclosed markers occur; two injections
in place of five, which is where an output of one can be taken for another's;
and `SeqCap` 15, at which long answers fill the memory while they grow and while
a phrase is injected. Fairness is `WF(Next)`: the stage is straight-line code.

### MaskStage (`mask_stage`, `mask_stage_decoder`)

`Load`, `Preprocess` and `VisionStage` end `main` with 0 (`--help`), 2 or 3 (a
model that cannot be opened) or an exception, or go on; `Language` delivers what
`SegContract` allows for some answer, or fails; an answer without phrases is
printed, with exit code 0. Then one action per network of a phrase, the blob,
the image, the PNGs and the overlay; `Throw` may end any of them. A phrase
longer than the text tensor is written past its end
(`tools/instructsam.cpp:912`), and then the process is lost or goes on with
`overrun` set. The output directory is taken to be empty at the start: old files
in it are not removed by `main`.

* `MaskIsOfItsPhrase`: the two halves of the pipeline meet in one mask. Its
  queries are the hidden states read after the i-th phrase of the answer, and
  its text is what the answer says from the start marker of the same phrase to
  its end marker. Nothing in the code carries a phrase's number along: four
  vectors are indexed alike.
* `PhraseIsSeen`: encoder, prompt attention and scoring see exactly the phrase
  with its markers. `DecoderSeesPhrase` says the same of the decoder and is
  violated (section 6).
* `NaNOnlyFromFullPhrases`: scores are not numbers for the phrases that fill the
  tensor to its last row, and for no other. This describes what follows from the
  decoder's reading of the mask: such a phrase leaves it no row.
* `BestSlotShown`: the argmax picks the first best slot, NaN included.
* `FilesConsistent`: what is on disk agrees at every moment, also after a
  failure; and exit code 0 after an answer with phrases means that the blob has
  a mask for each. Only of the last may the end be missing: `write_bin_f32` looks
  at the stream before its destructor writes what it still holds (`Cut`).

Four rows; phrases that leave padding, fill the tensor or overrun it; answers
with no, one or two phrases, nested, unopened and unclosed markers; three slots
and two levels of score: each case of the code occurs, and two phrases show
whether one leaks into the next.

### Detector (`detector`)

`Constants`, `Bridge`, `Encode` (one turn per layer), `LoadRefinement`, `Decode`
(one turn per layer), `Fuse`, `Stage0`, `Stage1`, `ScoreAndMask`. Each network
opens its own ggml graph and frees it by hand: `OpenGraph` may fail,
`TensorMissing` throws while a graph is being built, `ComputeFails` frees first.
The decoder is run with and without its two optional arguments, the boxes (which
its layers then refine) and the query positions.

* `ImplementsDetr`: what is kept in flat vectors, with heads, queries and
  channels in five different orders, implements `Detr`, which has none of them:
  every pixel hears every other from where it is; a query looks at it with the
  bias of its own box in its own head; the position and the bias of a layer come
  from the boxes the layer before has moved, the first from those of `main`.
* `MasksInPlace`: a pixel of mask `q` is made of the last row of query `q` and
  of the pixels of all three levels under it, their neighbours the right way
  round, each coefficient of the query meeting its own channel; score `q` is of
  the same row.
* `NoGraphLeft`: of all ways out only a missing tensor leaves a graph behind.

Two by three pixels (height and width differ, so that an exchange shows), two
queries, two heads of two channels, three rows of text one of which is padding,
two layers of the encoder and three of the decoder: the boxes that layer 0 moves
are read in layer 1 and moved again. One weight may be missing, of each network
and of each layer of the encoder; one is enough to throw. The shapes the
networks check are constants of `main`, so those checks never fail and are left
out.

### Vision (`vision`, `vision_deconv`)

`InstructsamVisionEncoder` keeps rows in flat vectors and calls ggml for single
operations; `VisionTrunk` and `VisionNeck` build one graph each. They compute
the same network in different orders, by different code. `Embed`; `WindowRows`,
`Attend` and `Merge` for each layer; `BeginLevel` and `LevelStep` for each level
of the pyramid; and the ways to fail, as in `Detector`.

* `ImplementsViT`: both implement the transformer told without a layout. Row
  `h * Grid + w` always stands for that patch with its own position, and in
  every layer each head of it heard the patches of its window, or all of them in
  a global layer, each from the right distance and in that head alone.
  The two partition into windows in different orders; a comment says that this
  does not matter, and the property says it too.
* `PyramidInPlace`: a pixel of a level comes from the patch under it, the taps
  of the transposed kernels on its way spell its place within the patch, the
  last kernel saw its neighbours the right way round, and each weight met the
  channel it is for. Two of `VisionNeck`'s levels are excepted here and are
  the subject of `DeconvInPlace`, which is violated (section 6).
* `EndsClean`: the levels asked for, in order; only a missing tensor leaves a
  graph behind, and not the positions of `sam3`, read before there is a graph.

Four by four patches in windows of two, positions learned on a grid of three (so
that they repeat within the image and not with the windows), three layers of
which the middle one is global, two heads, three channels of a level (so that
channels, heads and sides all differ). `sam3` makes each level alone or all.
The program takes no other input.

### LmForward (`lm_forward`)

A call runs layer by layer, and each layer may throw (its weights are loaded
there). `decode_step` extends a layer's K and V before it goes on to the next,
so a throw leaves the layers unequal: `broken`.

* `ImplementsNoCache`: whatever calls came before, a call on the cache returns
  what the forward pass over all rows returns; a call that fails without
  touching the cache changes nothing. After `broken` nothing is promised.
* `CacheIsPrefix`: the layers hold the same rows, at consecutive positions, the
  layers a running call has passed being ahead by its new row.
* `CountedRowsAreThere`: even after a throw no layer has fewer rows than
  `n_cached` says, so nothing is read past the end.

Two layers tell a layer from its neighbour; four rows allow a prefix, several
decodes and a failed one; two queries tell the first from the last.

### Pipeline (`pipeline`)

One action per network; `OpenGraph`, `TensorMissing` and `ComputeFails` are the
three ways each of them can fail. With more tokens than the text encoder has
positions, which `predict_tokens` does not check (`src/text_encoder.cpp:145`;
`predict` always passes 32), ggml's CPU backend aborts on an assertion and others
read on past the table; the model allows both.

* `PromptIsRead`: fusion, decoder, scoring and segmentation read the same rows
  of the prompt: CLS and all that was asked, and nothing that was computed from
  padding. Token 0 is both the padding and a character of the vocabulary (`!`),
  so characters of that id are not seen; the property says so.
* `BoxesAreRefined`: in every layer each query looks around its own box as the
  layer before left it; the box the grounding head computes again from the
  recorded reference is the one the decoder went on with; the presence token,
  row 0 of every layer, has no box.
* `RowsBelongTogether`: scores, boxes and masks of a result are of the same
  queries of the last layer, each query above the threshold once.
* `GraphsAreFreed`: no way out leaves a graph or scheduler, except a missing
  tensor, which is thrown while a graph is being built. The leak of that way is
  in the model and is not prevented by the property, here and in `NoGraphLeft`
  and `EndsClean` of the two modules above.

Three queries (the presence row shifts the others by one), two layers, four
positions, and eleven requests: padded, full, empty, all padding, one token,
too long, a character with the id of padding, no point, one, two, a box.
`predict_box` keeps scores above 0.3 although a comment at `src/pipeline.cpp:445`
says it returns all queries; the model does what the code does.

### Tokenizer (`tokenizer`)

Rounds of merging, the shared cache, framing, cutting and padding.

* `CacheIsInRankOrder`: merging the best pair of the word until none is left
  gives what applying every merge of the table once, in order, gives. The
  reference definition is a fold over the table; it holds for tables in which a
  merge comes after those that make its parts, which is assumed of tables
  (`WellFormed`) and true of the one in `assets/`.
* `FramesThePrompt`: a prompt that fits comes back whole between its marks; of a
  longer one the head does, with the end mark last and only once.
* `Returns`: every call ends, under `WF` of a call that has begun.

Tables of up to four merges over two letters, among them merges of a letter with
itself and of merged symbols; nine prompts; a context of five; two calls, so
that the second finds the cache of the first.

### ModelFile (`model_file`)

The converter names tensors, some twice, writes the GGUF file and then the
sidecar, and may be killed anywhere; a `GgufModel` may load at any point, each
of its two reads being one step. The file has its header before its data. A load
that copies the data needs both; one that maps the file (`use_mmap`, as `main`
does for the language model) needs the header only and looks at nothing else.
`memory` is "torn" when the data was not all there, or when the converter has
opened the mapped file again, which it does in place.

* `NamesNeverCross`: a name never finds the data of another tensor, and all
  names find data of one checkpoint, whatever mixture of files was loaded.
  Nothing is said of a torn mapping, which has whatever bytes are there.
* `NamesResolve`: a model read from the two files of one finished conversion
  finds every tensor under its name and its alias.

Both rest on `ModelFileAssumption`: names whose hashes collide occur in the same
checkpoints. The converter finds collisions within a checkpoint and throws; it
cannot see one between two checkpoints. Three checkpoints, two that share a
tensor with an alias and one with a collision between an alias and a name.

### ModelCache (`model_cache`)

Processes that resolve the same model meet on one `.part` name. Files are told
from names, as a file system does: who renamed or unlinked a name has not closed
what others write. `Kill`, `Stall` and `Raise` may happen at any point.

* `CachedLacksOnlyUnwritten`: the file under the model's name lacks only what
  one of the processes that opened this very file has not come to. A cached file
  may hence be incomplete (the code never compares Content-Length with what
  arrived), but downloads that run to their end leave a whole file, however they
  overlapped.
* `CachedStays`, `NoPartLeft`, `Resolves`: the model is never taken away again;
  no `.part` file is left when all returned or raised; nobody waits for another.

Three processes (one that writes, one that renames, one that truncates) and two
chunks. Fairness is `WF` of each process's own step: the operating system
schedules processes. A killed process, or one held by its server, has none.

### CApi (`capi`)

Threads, each with a model of its own (a `Sam3Model` is neither `Send` nor
`Sync`), call `sam3_predict` through the binding. A call is split where another
thread may allocate, free or fail; `Refuse` is a call the binding answers with an
error of its own, before anything native.

* `HeapIsOwned`: every block is held by one pointer of one result; nothing leaks
  or is freed twice, although a failed call frees its result twice.
* `ErrorIsOwn`, `AnswerIsOwn`: each thread is told its own error and the scores,
  boxes and masks of its own call.

Two threads, three calls each, and four blocks for two results of three: an
allocation may fail at any of its three places. Threads and blocks are symmetric.

## 4. What is proved

All proofs are for any values of the constants that satisfy the assumption the
module names (`LmStageAssumption`, `ModelCacheAssumption`, ...), by TLAPS down
to the last leaf. Every invariant of a passing run is proved, and so are all its
refinements and action properties; what is left to TLC is in section 5. What the
theorems state was checked by TLC first, by the run of the module.

* **`Lemmas`** is what several proofs need. Induction: the induction theorem of
  the library takes a predicate, which the provers cannot instantiate; its
  theorem of the least element takes sets, and `SetInduction` (a set that has 0
  and with each number the next has them all) follows, and from it `UpTo` for an
  interval. Loops: a recursive function on the naturals, which is how the
  modules write a loop, starts as it says and goes on as it says (`LoopRuns`).
  Places in memory: division with remainder for variable extents (`DivMod`,
  `DivDiv`), the place of four indices in a block and back (`FlatOf`, `CellOf`),
  and what `Reshape` and each permutation used do to an element, for all extents.
* **`LmStage_proofs`**: `TypeCorrect`, `AnswerAlwaysInKv`, `AnswerStaysFrozen`,
  `PhrasesMatchKv`, `OutputsAreFaithful`, `EverythingFreed`. The invariants form
  a chain. The answer invariant says what sequence 0 holds; it needs the type
  invariant, and is what makes a recorded phrase a range of cells
  (`PhraseInv`). On both rests the invariant of an injection: what sequence 1
  holds after the branch is a prefix of sequence 0, which depends on the second
  `seq_rm` and on the phrase's end being inside the answer; the batch puts query
  `k` at a known position; of the two marked rows each goes to its own slot
  (`TwoMarks`, by cardinality of the marks before a row). `OutputsAreFaithful`
  assumes that rows are counted as `main`'s comment says and `NSeqMax >= 2`.

  `StageImplementsContract` says that every behaviour of `LmStage` is one of
  `SegContract`, on the same assumption (`RowConvention`). What the theorems
  above do not give is that the scan finds exactly the phrases. `ScanInv` says so
  of the part gone through: the recorded ends are the ends of the phrases before
  the index, in rising order, and a start that is open is the last start marker
  with no end marker since. When the scan is over the recorded ends are in
  bijection with the phrases of the answer, so that the number of deliveries
  still to come is the contract's; each `PushSegOut` is then one step of the
  contract, and every other step a stutter or one of its failures.
* **`MaskStage_proofs`**: `TypeCorrect`, `PhraseAlwaysSeen`,
  `FullPhrasesAreNaN`, `MasksAreOfTheirPhrase`, `FilesAlwaysConsistent`,
  `BestSlotAlwaysShown`. The invariant `IInv` has five parts: the types;
  `Delivered`, which says that what stage 3 left are the phrases of the answer in
  the order of their ends; `Current`, that text, mask and what was seen so far
  are of the phrase whose turn it is; `Finished`, what each entry of the two
  vectors was made of; and `OnDisk`, what the files hold at each place of the
  program. The i-th phrase is the one with `i - 1` ends before it by counting
  them (`EndsCounted`). For `BestSlotAlwaysShown`, what the argmax loop holds
  after each slot is the first of the best so far, by `UpTo`; for scores that
  are not numbers it stays where it began.
* **`LmForward_proofs`**: `TypeCorrect`, `CountedRowsAlwaysThere`,
  `CacheAlwaysPrefix`, `CallsAnswerAsRun`. `Lengths` says how many rows each
  layer has, seen from where the running call is, and survives a throw half-way.
  `CachedRows`, `PrefillRows` and `DecodeRow` say what the rows are: a row of
  layer `l` is `Entering(l)`, computed from the rows before it at consecutive
  positions by the layers below. That one layer keeps this
  (`LayerForwardEnters`) is the heart of the proof; `decode_step` needs it for a
  single row that meets a cache another call filled. `CallsAnswerAsRun` is the
  refinement of `NoCacheModel`: `RInv` adds that the rows a running call holds
  are those a pass over all rows, cached and new, would hold at that layer, so
  that what the call returns after the last layer is what the pass returns; the
  pass through the layers in `NoCacheModel` is one function, followed layer by
  layer with `UpTo`.
* **`Pipeline_proofs`**, of `Pipeline`: `GraphsAlwaysFreed`,
  `BoxesAlwaysRefined`, `PromptAlwaysRead`, `RowsAlwaysBelongTogether`, each with
  an invariant of its own. `BoxInv`: the decoder has run as many layers as it has
  recorded references, and the rows of each are those of the references before.
  `PromptInv`: what the readers that have had their turn saw is `Visible`, the
  same rows of one prompt, whose making (`TextPrompt`, `GeometryPrompt`) is
  traced back to the request. `RowInv`: masks are of the rows of the last layer,
  and a result is gathered by one list, `Kept`, which has each query above the
  threshold once (`IsKept`, by induction over the queries gone through).

  Of `CApi`: `ApiTypeCorrect`, `BlocksAreOwned`, `ErrorsAreOwn`, `AnswersAreOwn`,
  for any number of threads and blocks. `HeapInv`: where a call stands tells
  which pointers of its result are null, every other pointer is the only one to
  an allocated block, and every block has its pointer; so a free of one thread
  cannot touch what another filled (`BlocksStay`). `ErrorsWait`: an error not yet
  read is that of the thread's current call. `Filled`: a result holds the arrays
  of its own call from the copy to the conversion, which needs that `fill_result`
  finds three different blocks (`CopyFills`).
* **`Files_proofs`**, of `ModelFile`: `TypeCorrect`, `NoNameCrosses`,
  `FinishedFilesResolve`. `IInv` says what the converter has recorded so far
  (each short name stands for the name in the map, and for its data), that the
  files are images of such a record, possibly of two different checkpoints, and
  that a model agrees with files that once existed. That a mixture of old and
  new files is harmless comes from `Short` being a function and from the
  assumption on collisions.

  Of `ModelCache`: `DownloadTypeCorrect`, `CachedFileWhole`, `NoPartLeftBehind`,
  `CachedForEver`, for any number of processes and chunks. `WriterInv`: nothing
  is written before a file is opened, a name stands for a file somebody opened,
  and what an opened file lacks is what one of its writers has not come to. The
  last is needed since opening truncates what others wrote.

  Of `Tokenizer`: `CacheAlwaysInRankOrder`, `PromptAlwaysFramed`, for every
  alphabet, well-formed table, context and prompt. A word being merged is one
  that going through the table in order reaches (`Reached`): a round of the code
  takes the best pair of the word, and the merges of the table between the last
  one taken and this one would leave the word as it is (`MergedSkips`,
  `NothingBetween`), because a merge makes only pairs whose own merges, if any,
  come later. A word without a pair of the table is the table's last. `Begun`
  says that the tokens so far are those of the pieces gone through; framing,
  cutting and padding are then followed for all lengths.
* **`Vision_proofs`**: `EndsCleanAlways`, `TrunkImplementsViT`,
  `PyramidAlwaysInPlace`, for every size of grid, window, table of positions and
  kernel, and every number of heads, layers and channels. `TrunkInv` says what
  each intermediate tensor holds at each place: between layers the rows of
  `TrunkRows(layer)`, and within a layer row `y` of batch `z` is the patch
  `Place(y, z)`, and later what that patch heard (`Sounds`). `Place` is the
  window order of either program; that it is one-to-one from batch and row to
  patches, and that what shares a batch is what shares a window, is where the
  arithmetic of division is. Each `Merge` is then a layer of `ViT`, every other
  step a stutter. `NeckInv` carries `Shows`, that each pixel of the tensor at
  work is of its own patch by its own taps and channel, along the operations
  left to do for a level (`Way`): each of the kernels, pooling and convolution
  keeps it, at its own resolution. The two levels `VisionNeck` makes with
  `deconv2d_bias` are excepted, as in the property.
* **`Detector_proofs`**: `NoGraphLeftEver`, `ImplementsDetrAlways`,
  `MasksAlwaysInPlace`, for every size, every number of heads, queries and
  layers, and every phrase. `EndInv` follows graphs and places through the run
  (by `Rank`: a place that was passed had its weights). `DetrInv` adds what the
  vectors hold: boxes moved by as many layers as were run (`BoxInv`), positions
  and biases made of those boxes (`PosInv`, `BiasInv`), and rows of pixels,
  queries and text as `Detr` has them after that many layers (`RowInv`). An
  attention is done once for all: if in head `h` the element of row `r` stands
  for what the row is (`Stands`), what comes out is the row having heard all
  that are visible (`Attended`); self, text and image attention, with their five
  orders, each only have to show that their operands stand. So a turn of
  `Encode` or `Decode` is a layer of `Detr` (`StepSeen`) and every other step a
  stutter. `MaskInv` goes on from there: the pixels show their level after the
  fusion (`Shows`) and each with its neighbours after a convolution
  (`ShowsRings`; `PairsAre` says which tap meets which pixel), at each of three
  resolutions, and in the last product each coefficient of a query meets its own
  channel (`MultipliedIs`).

## 5. What is only model-checked, and why

* Liveness (`Terminates`, `Returns`, `Resolves`): TLAPS does not prove temporal
  properties under fairness, nor ENABLED.
* The two properties that are violated, `DecoderSeesPhrase` and
  `DeconvInPlace` (section 6): there is nothing to prove.

## 6. Where the code disagrees with what is said of it

Two runs expect a violation; each is a `finding` in `PROJECT.json`, with lines.

1. `mask_stage_decoder`: `main` builds `text_mask` with 1 for the rows of the
   phrase and hands it to the detector's decoder, which gives minus infinity to
   exactly those rows (`src/instructsam_decoder.cpp:574`): its text attention sees
   padding only. The tests of the decoder use masks of zeros, which cannot tell.
2. `vision_deconv`: `deconv2d_bias` of `VisionNeck` copies
   `ggml_permute(x, 2, 0, 1, 3)` under a comment that calls it the permutation of
   `[W, H, IC, 1]` to `[IC, W, H, 1]` (`src/vision_neck.cpp:102-104`). It gives
   `[H, IC, W, 1]`, read as rows of channels. `(1, 2, 0, 3)` is the order meant.
   In the first upsampling of levels 0 and 1 rows and channels are mixed.

Observed while modelling, and stated by no run:

* `main` and a probe in `tools/` index `llama_get_embeddings_ith` differently;
  both cannot be right. The library is not in the repository, so `LlamaMemory`
  has a constant, `ReadBy`, for the two readings; `lm_stage` and the theorems
  use the one `main` relies on.
* "no `<|object_ref_start|>` markers in output" (`tools/instructsam.cpp:725`) is
  also printed for an answer with a start marker that is never closed.
* The table of `logits_for_hidden` is resized before it is known that it can be
  filled (`src/instructsam_lm_forward.cpp:777`): after an exception a second call
  returns zeros. `LmForward` models it.
* `tokenize` is `const` and writes its cache without a lock
  (`src/tokenizer.cpp:339`); one handle must not be used by two threads.
* The status of `ggml_graph_compute` is not looked at in the single
  operations the InstructSAM networks use (`include/sam3/detail/cpu_conv.h:87`).
* `read_bin_f32` of `main` does not notice a file that is cut short
  (`tools/instructsam.cpp:83`).
* The end of `pred_masks.f32` may be lost when its stream is closed, with exit
  code 0: nothing is flushed before the check (`tools/instructsam.cpp:104`).
* `main` maps the file of the language model (`tools/instructsam.cpp:527`) and the
  converter writes its output in place: converting over the file of a running
  program changes or removes its weights, and a file whose data is cut opens.
* `predict_box` keeps scores above 0.3 although a comment at
  `src/pipeline.cpp:445` says it returns all queries.
* The constructor of the pipeline silences logging whatever was set before
  (`src/pipeline.cpp:142`, against `include/sam3/c_api.h:20-21`).
* `GgufModel::cpu_backend` creates a backend on first use without a lock.
* By default `main` uses the cached vision features of a reference image
  whatever `--image` says (documented in its help).

## 7. What is not modelled

* Arithmetic: no value of any tensor, no image resampling, no quantisation, no
  precision; sine and cosine tables and norms are functions of a row or shape.
* InstructSAM's tokenizer (two calls of llama.cpp and a second try), its
  preprocessing (resampling of one image) and its projector (a thin wrapper
  `main` no longer calls); the language-model runner, which is a skeleton that
  throws.
* The Python module: copies under the interpreter lock.
* Readers and writers of arrays, exporters, comparers and probes: the
  repository's tests. Weight extraction and packaging: scripts that run once.
* Within modelled parts: the gzip file and UTF-8 of the tokenizer; types and
  shapes of the model file; the MLX converter; the dumps behind
  `SAM3_CLI_DUMP_INTERMEDIATES`; the probes of the vision encoder.
* What an overrun of the text tensor (`tools/instructsam.cpp:912`) overwrites:
  the model lets the process be lost or go on, and the properties about text
  exclude the phrases after one.

Four hazards have no property, because the code does nothing about them: that
overrun; a mapped model file that is cut or written again; a download whose body
ends early, which is cached as it is; and a server that falls silent, which holds
the process for ever. The models contain all four.

`PROJECT.json` lists each component with its status and reason.

## 8. What is left

In order of worth: a refinement from `MaskStage` to `Detector`, so that what its
steps keep of a phrase is what the layers were shown to do with it; the graphs
of `VisionNeck`'s levels 0 and 1 once `deconv2d_bias` is settled; two threads on
one handle, once the interface says whether that is allowed; the metadata and
types of the model file.
