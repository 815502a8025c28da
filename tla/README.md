# MemVanta in TLA+

This directory specifies the concurrent and stateful parts of MemVanta, the
C++20 runtime for quantized Llama models in `src/src` and
`src/include/memvanta`, checks the specifications with TLC on small instances,
and proves theorems about them with TLAPS. `PROJECT.json` holds the exact map
from definitions to source lines, the runs, the mutants every property is
tested against, and the hazards the properties are aimed at.

## 1. The system

| component | source | state | operations |
|---|---|---|---|
| TensorStore, MMapFile | `tensor_store.cpp`, `mmap_file.cpp` | the mapped file, the list of slices | construct (cut the file into slices), `data`, `prefetch`, page advice |
| TensorCache | `lru_cache.cpp` | `map_`, `lru_`, `used_`, `prefetched_used_`, its peak | `get_or_load`, `contains`, `insert_prefetched`, `evict_for` |
| Prefetcher | `prefetcher.cpp` | `q_`, `pending_`, `pending_bytes_`, `stop_`, `error_`, one thread | `request`, `pending`, `pending_bytes`, `rethrow_if_failed`, `stop`, the background `loop` |
| AdaptivePrefetchController | `prefetch_policy.cpp` | depth, probe, cooldown, the last rejected probe | `observe` |
| Runtime | `runtime.cpp` | the locals of one `run_stream`; owns a cache and a prefetcher | constructor, `run_stream` |
| WorkerPool | `worker_pool.cpp` | `generation_`, `finished_`, `error_`, `fn_`, `n_`, worker threads | `parallel_for`, the worker loop, destructor |
| GGUF parser | `gguf.cpp` | position, heap budget, metadata, tensor directory | read header, metadata, directory; look up |
| GGUF kernels | `gguf_kernels.cpp` | none | products of quantized matrices with one or several activations, divided among threads |
| PagedKVCache, LlamaModel | `llama_model.cpp` | config and buffers, pages of keys and values, `pos_`, the rope table | constructor (`load_config`), `reset`, `forward`, `prefill`, `generate` |
| GgufTokenizer | `llama_model.cpp` | vocabulary, merge ranks | `encode` (SentencePiece or byte pairs), `decode` |
| quantization, matmul | `quant*.cpp`, `matmul.cpp` | none | dot products outside the GGUF path |
| Sampler | `llama_model.cpp` | a random generator | sample |
| llama2 | `llama2.cpp` | a second model format | load, forward |
| tools | `main.cpp`, `real_main.cpp`, `tools_*.cpp` | none | command lines around the library |

How they interact. `Runtime::run_stream` (the consumer thread) walks over the
slices of a `TensorStore`. It asks its `Prefetcher` for the slices ahead; the
prefetcher's background thread copies them from the store into the
`TensorCache`, which the consumer reads from at the same time. Two mutexes are
involved, the cache's and the prefetcher's, and a condition variable. The
consumer decides what to request from `cache_.contains`, `prefetcher_.pending`
and `prefetcher_.pending_bytes`, three separate looks at a state that moves in
between. Every few slices it reports a window to the controller and gets a new
depth back. `LlamaModel` runs its matrix products on a `WorkerPool`, which has
two condition variables and a generation counter; its other calls are
sequential. A forward pass is a row of calls of the GGUF kernels on matrices of
the file, which they know the shape of, and on buffers the model sized from the
metadata. The tokenizer works on strings and on nothing else.

What is hard: the interleavings of consumer and background thread; a copy that
fails in the background at any moment; `stop` and destruction at any moment,
also from an exception; wake-ups lost between a predicate and a sleep; unsigned
byte counters kept by hand in several places; windows that must be reset by
hand; a controller with a memory of what it tried; a forward pass that fails
half-way; sizes and counts a file may choose freely; a merge queue whose entries
go stale; loops that leave a rest to the next loop. The full list, each item at
its line with the properties that cover it, is `hazards` in `PROJECT.json`.

What makes each component correct:

* TensorCache: list and map hold the same keys; `used_` is what is held and
  never above the capacity; eviction is least-recently-used and stops as soon as
  there is room; a failing allocation leaves all of it consistent.
* Prefetcher: what is pending is exactly what is queued or being copied, and
  `pending_bytes_` its size; no wake-up is lost; a failure cancels everything,
  atomically with becoming visible; `stop` returns and leaves nothing behind.
* Controller: the depth stays in its bounds; a probe is one step, earned, undone
  exactly, not repeated after a rejection; memory pressure wins over latency.
* Runtime: the look-ahead stays within the byte budget; every request is
  accounted for once; a background failure is never swallowed; the thread never
  outlives the objects it uses; the run ends.
* WorkerPool: every index is processed once, by the call it belongs to; a call
  throws if and only if its function did; every call and the destructor return.
* GGUF parser: nothing is read outside the file, and all that is kept is charged
  to the heap budget but for the index's copies of the names, whatever the file
  claims; tensors, their rows and the index can be used without a further check.
* TensorStore, MMapFile: slices tile the file; advice covers its range and stays
  in the mapping; every descriptor and mapping has one owner.
* LlamaModel: attention reads rows of the current sequence only, whatever calls
  failed before; tokens are fed once and in order; the logits are those of the
  last token; every call ends; what `load_config` accepts, the kernels can be
  run on without a further check.
* GGUF kernels: each element of a result is set once, to the product of its row
  and its token over all columns, whatever loops, threads and batches.
* GgufTokenizer: merges are those the definition of the algorithm prescribes;
  special tokens stand alone; decoding gives the text back (with exceptions that
  `DecodeInvertsEncode` names).

## 2. Modules

| module | models |
|---|---|
| `Bytes` | slices and their sizes, 64-bit sums (`U64Plus`, `U64Minus` wrap at `MaxU64`), `BytesOf` a set of slices |
| `TensorCache` | `lru_cache.cpp`, one action per call under the mutex |
| `BoundedLru` | the abstract cache: a recency order and a byte bound, no list, map or counters |
| `Prefetcher` | `prefetcher.cpp`, extends `TensorCache`: one action per critical section |
| `PrefetchPolicy` | `prefetch_policy.cpp`: `Observe(w)` is one call of `observe` |
| `PolicyRun` | the controller alone, fed with any sequence of windows |
| `Runtime` | `runtime.cpp`, composed of `Prefetcher` (and through it `TensorCache`) and `PrefetchPolicy` |
| `ParallelFor` | what `parallel_for` promises, without threads |
| `WorkerPool` | `worker_pool.cpp`: workers, callers, destructor |
| `MMapFile` | `mmap_file.cpp`: objects that own a descriptor and a mapping, beside what the system holds |
| `TensorStore` | `tensor_store.cpp`, extends `MMapFile`: the store's file among others |
| `Gguf` | `gguf.cpp`: the constructor of `GgufFile`, and the lookups |
| `PagedKVCache` | the KV cache of one layer (`llama_model.cpp`), as operators |
| `LlamaSession` | `LlamaModel`'s calls (`llama_model.cpp`), over one `PagedKVCache` per layer |
| `QuantBlocks` | layouts of rows and the loops over them (`gguf_kernels.cpp`), as operators |
| `Product` | what a matrix kernel promises, without threads, blocks or registers |
| `Kernels` | `gguf_kernels.cpp`, extends `QuantBlocks`: calls, chunks, threads, errors |
| `LlamaWeights` | `load_config` and the kernels of a pass (`llama_model.cpp`), extends `Kernels` |
| `BestMerge` | what SentencePiece encoding computes, without list or queue |
| `Strings` | strings that are put together, for the three below |
| `SentencePiece` | `encode_sentencepiece` (`llama_model.cpp`) |
| `Gpt2Bpe` | `encode_gpt2`, `pretokenize_gpt2`, `bpe_one` (`llama_model.cpp`) |
| `GgufTokenizer` | `encode` by either, and `decode` (`llama_model.cpp`) |
| `MC*` | values for TLC |
| `TensorCacheProofs`, `RuntimeProofs`, `WorkerPoolProofs`, `TensorStoreProofs`, `GgufProofs`, `SessionProofs`, `WeightsProofs`, `TokenizerProofs` | theorems, section 5 |

Correspondence.

* **TensorCache.** `resident` and `prefetched` are the keys of `map_` and those
  with their `prefetched` flag set, `lru` is `lru_`, front first; `used`,
  `prefetched_used`, `peak_prefetched_used` are the counters, all arithmetic modulo
  `MaxU64 + 1`. `get_or_load` is one of `Hit`, `LoadRejected` (larger than the
  cache), `LoadMiss`, `LoadAllocFails` (evictions done, then `bad_alloc`);
  `insert_prefetched` is `InsertSkipped`, `InsertCopied` or `InsertAllocFails`.
  `evict_for`'s loop is not a recursion but the longest prefix of the list that
  satisfies the loop's exit test (`LoopStops`), and `Victims` are the entries behind it.
* **Prefetcher.** `mu` says who holds `mu_` between two steps; it is only needed
  where `cv_.wait` evaluates its predicate and goes to sleep. `call`/`arg` is
  where the owner's call is: `request` is `RequestEnters` (rethrow check and the
  first `stop_` test), the filter on the cache, then `RequestDropped` or
  `RequestEnqueues` under `mu_`, then `RequestNotifies` outside it. The thread
  is `WorkerTakes`, `WorkerCopies`, `WorkerFails`, `WorkerSettles` and so on.
* **Runtime.** `pc` is the place in `run_stream`; an action reaches to the next
  access to state shared with the background thread. `cfg` is the `RunConfig`.
  Leaving by an exception (`unwind`) and the destructors are part of the model.
* **WorkerPool.** `wpc`, `cpc`, `opc` are where workers, callers and the
  destroying thread are; `threads` is set by the constructor. `ran`, `threw`,
  `result` are history variables for the refinement of `ParallelFor`.
* **PrefetchPolicy.** Latencies are integers and ratios percentages, so each
  comparison of doubles is one of integers (`1000 * a <= 1005 * b`). `ctl` holds
  the members of the controller, `adjustment` is the last return value.
* **MMapFile, TensorStore.** `files` are the members of each object, `fds` and
  `maps` what the operating system holds; an object whose constructor threw does
  not exist and no destructor runs for it. The loop of the constructor of
  `TensorStore` is one step per slice. Pages and words are small numbers.
* **Gguf.** `off` and `heap` are the position and the budget of `Reader`; an
  action reads one thing (a key with its type, a value, an array element, a
  descriptor) with all checks of the code in it, and ends in `Refuses` where the
  code throws. The file's content is chosen as it is read. A `checked_mul` that
  overflows counts as exceeding any limit; `a & (a - 1)` and `& ~(a - 1)` are
  divisibility and rounding. A string is its length.
* **LlamaSession.** Contents are abstracted to what they were computed from: a
  row of the KV cache and the logits are token sequences. `pc` is the place in
  `forward` or `forward_batch_impl` (`begin`: admission, rotary table; `write`
  and `attend`, once per layer; `finish`: position and output projection), then
  `next` back in the caller, `step` in `generate`. An allocation, or a function
  on the worker pool, may fail wherever there is one; a parallel loop is one
  step, which is what `ParallelFor` promises.
* **QuantBlocks, Kernels.** Arithmetic is abstracted to its operands: a dot
  product is the set of pairs of a stored weight and an activation its loops
  multiply, and `IsProduct` compares it with the pairs `tensor_read_row_f32`
  would make. The loops of each kernel are sets of counters (`Strides`, `Rest`).
  `team` are the chunks `parallel_rows` has not run yet, `way` what runs them
  (an OpenMP region, threads, the pool, the caller), and each chunk is one step;
  `y` says of each element which row and token it was computed from. An
  exception in a region or in a thread of its own ends the program, one on the
  pool or the calling thread reaches the caller.
* **LlamaWeights.** `file` is metadata and shapes as the parser leaves them,
  `model` the config, `pass` how far a forward pass has come: `LayerUses` lists
  the kernels of a layer with the buffers they read and write, `BufferSize` the
  sizes the code gives these.
* **SentencePiece.** `symbols` is the array of list nodes, `work` the priority
  queue as a set (`Top` is the comparator), `s` the text with its markers; an
  action is one turn of the loop: `DropStale` or `MergePair`. Characters are
  members of a set with an encoding in bytes. A token `<0xXX>` has two names,
  by the table `encode` found it in: the pieces or the bytes; `Spelling` is the
  same for both.
* **Gpt2Bpe.** `segment` is what is left between two special tokens, `syms` the
  word in `bpe_one`; an action is a special token, a word or one merge. `Kind`
  stands for the Unicode classes.
* **GgufTokenizer.** `encode` is one of the two with or without BOS; `Decode` and
  `Spelling` are `decode` and `decode_piece`.

Left out of these: counters that are only reported (hits, misses, bytes
copied, `bytes_*`), the checksum, timing (a latency is any member of a set),
failures of node-sized allocations and of thread creation (listed under
`hazards` with a note).

## 3. Runs

Every property of every passing run is violated by a mutant of the code model
(`mutants` in `PROJECT.json`; the mutated operators stand beside the originals,
marked "Mutant").

| run | question | bounds |
|---|---|---|
| `prefetcher` | do the cache's list, map and counters stay together and is it LRU under two threads and failing copies and allocations; is the accounting exact, does `stop` return and is every request settled? | 4 slices of 1, 2, 3, 5 bytes, capacity 4, `MaxU64` 5 |
| `policy` | is a step down taken exactly when a window asks for it, whatever probe came before; are probes earned, never repeated, never under pressure, never from fewer than ten slices; and is a steady demand served? | depths 1 to 3, 4 latencies, 6 kinds of feedback, 2 peaks, 3 stable windows (more within a row of steady ones), 1 eviction |
| `runtime` | does the whole stream keep its budget and its books, is each window the controller sees consistent, what becomes of the thread, and does the run end? | 4 slices of 1, 1, 2, 1 bytes, capacity 3, look-ahead of 2, windows of 2; five configurations: copy cache with a budget of 2 or of the whole cache, mapped file alone, each fixed or adaptive; 1 to 3 passes |
| `worker_pool` | does `parallel_for` implement `ParallelFor`, and does everybody return? | 2 callers, 3 threads or 1, n of 1, 3, 4, 2 calls |
| `llama_session` | after any sequence of calls, some of them failed half-way, does attention read only this sequence, and do calls do what they say? | context of 3 in pages of 2, 2 layers, 2 tokens, batches of at most 2 |
| `gguf` | is what the parser accepts safe to use? | words of 10 bits, files of 60 to 600 bytes, names of 1 and 150, 2 tensors or 2 items, 7 shapes, 4 types |
| `tensor_store` | do slices tile the file and is every resource owned once? | 3 objects, 2 descriptors, 2 mappings, files of 2 and 7 bytes, pages of 3, chunks of 0 to 5 |
| `tokenizer` | does the queue with stale entries merge what the definition merges, do byte pairs follow their table, do special tokens stand alone, and does decoding give the text back? | SentencePiece: texts of up to 6 characters, every choice of 6 pieces with 2 scores, with and without prefix, unknown token, control tokens, and a vocabulary that leads to the spelling of a byte token; byte pairs: inputs of up to 5 bytes, tables of up to 3 of 25 pairs, 3 special tokens |
| `kernels` | what `load_config` accepts: is each kernel of each pass a product, and does it fill exactly its buffers? | small models of 6 types, with one metadata value or one tensor wrong; batches of 1, 2, 5, 9; 1 or 3 threads, with and without OpenMP, `MEMVANTA_FORCE_Q8_ACT` |
| `hot_set` (violation) | does the budget bound the look-ahead hot set, as `runtime.hpp` says? | the slices of `runtime`, one pass, a fixed look-ahead of 3, an explicit budget of 2, capacity 4 |
| `reserved` (violation) | does a request consumed while its copy is pending stay reserved, as `runtime.cpp` says? | as `runtime`, the fixed copy configuration |
| `unigram` (violation) | is the segmentation the one with the best total score, as `V071_TOKENIZER_HARDENING.md` says? | texts of up to 3 characters, 5 pieces |

Why the bounds are enough. In `prefetcher` two slices fit together, one
insertion needs two evictions and one slice never fits: every branch of
`evict_for` and both failure paths occur. Nothing in the cache depends on more
than the list order and sums, and section 5 proves it for all sizes anyway (of
`CacheSpec`, the cache with one caller at a time: the mutex makes the calls of
two threads one sequence of calls). The sum of the sizes exceeds `MaxU64`, so the
overflow test of `request` fires, and the ids allow one being copied, one
queued and one requested. In the runtime runs the third slice is twice as long as the others:
at capacity 3 the budget admits some requests of a look-ahead and refuses
others, evictions hit requested slices, and a second pass starts with late
requests of the first. In `policy` the latencies lie on either side of the 0.5%,
1% and 5% thresholds, and five steady windows in a row are what two steps up
take (`Patience`). In `worker_pool` 4 indices over 3 threads give two chunks
and an empty one, and two calls are what it takes for a late worker of one call
to meet the next.

In `llama_session` two layers are what it takes for one to be written and the
other not when a pass fails; the context of three lets a batch of two cross a
page, fill the context or overflow it. In `gguf` one shape has one element more
than a word can count, one offset plus a size exceeds the word, one string is
longer than most files, and a file is long enough for an alignment to exceed
what is left of the word. In `tensor_store` the largest word lies between the
end of the longest file and the end of its last page, and there are fewer
descriptors than objects. In `tokenizer` six pieces with two scores each give
ties, chains of merges and pairs that overlap in texts of five letters; the
merge tables are all of at most three entries, the first length at which one
pair can be built from two others; special tokens begin with one another and
share letters with words. In `kernels` the constants of the code are divided by
common factors (a block of 32 weights becomes 8, 8 SIMD lanes become 2, a Q6_K
block of 256 becomes 16), so that each loop still runs more than once, with and
without a rest; batches of 5 and 9 leave one token after a group of 4 and of 8,
and three threads divide matrices of 2 to 32 rows unevenly or have no row.

Deadlock is checked wherever somebody can always go on. It is not in `policy`
(the bounds on counters end a behaviour), `gguf` (parsing ends), and `kernels` (a
refused file, or an error that ends the program, stops it).

### What the violation runs show

`hot_set`: `runtime.hpp:20` calls `prefetch_budget_bytes` the "maximum bytes
reserved by the look-ahead hot set". `run_stream` charges only queued and active
copies (`pending_bytes`): a slice that has been copied ahead and is waiting in
the cache is free of charge. `HotSet` counts the outstanding requests that are
being copied or wait in the cache, and the late ones only until their copy has
ended. In the trace nothing is late: with a budget of 2, slices 1 and 3 are
copied, the consumer takes slice 1, and slice 2 (2 bytes) is admitted while
slice 3 waits: 3 bytes.

`reserved`: the comment at `runtime.cpp:93` says requests consumed before the
worker finished stay reserved. One that is already in the cache when the
consumer comes to it is dropped from `requested` without asking whether its copy
is still pending.

`unigram`: `V071_TOKENIZER_HARDENING.md:16` announces a Viterbi segmentation, the
one with the best total score. `encode_sentencepiece` merges the best pair first
(`ImplementsBestMerge` says exactly that, and holds): in the trace `aab` becomes
`aa`, `b`, with the scores of -2 and -6, and not `a`, `ab` with -1 and -3.

### Observations that are not runs

A request counts as late whenever the
cache does not hold it, also when it was copied in time and evicted again
(`runtime.cpp:126`); and since a probe wants a late request and a usefulness of
0.90 in one window, `adaptive_window`'s default of 8 never deepens the
look-ahead (a conjunct of `UpIsEarned`). `EveryRequestAccounted` also says that
the loop after a pass (`runtime.cpp:247-255`) never finds anything.

`V073_PERFORMANCE_HARDENING.md:7` says that decode-time products use a persistent
pool: `forward` passes `nullptr` for it (`llama_model.cpp:1102-1141`), which
`docs/performance/PERSISTENT_DECODE_POOL_EXPERIMENT.md` explains as reverted. Its
line 11 says that eight rows of a batch are processed "rather than invoking the
four-row kernel twice": `q4_row_batch8_fp32` and `q8_row_batch8_fp32` invoke it
twice (`Batch8` in `Kernels`). The results are those of a product all the same.

A weight type without a kernel is found out in a chunk of a prefill. On the pool
the error reaches the caller. With fewer jobs than threads the pool is not used,
and the error ends the program (`ChunkThrows`). `load_config` compares shapes, not
the types of matrices: a model in BF16 loads, and fails when it is used.

The parser's heap budget (`gguf.hpp:91` calls it approximate) does not cover the
keys of `tensor_index_`: `gguf.cpp:415` copies each name, which was charged once
(line 39), and line 396 adds a flat 96 bytes for the node. Three names of 64 MiB
each are charged 192 MiB and held twice, 384 MiB, under a budget of 256 MiB.
`HeldIsCharged` states what does hold: the rest is charged, and the whole is at
most twice what was charged. In the run's instance a name of 150 bytes takes the
parse past its budget of 800 in this way.

A literal U+2581 in a text comes back from `decode` as a space, since tokens do not
tell it from the marker; `DecodeInvertsEncode` therefore leaves such texts out. For
byte pairs the property holds of special and greedily matched tokens in ASCII;
one with a character that is also an atom would be decoded as that atom's byte.

A token of type 6 is in `token_to_id_` under its spelling (`llama_model.cpp:437`)
like any piece. When a vocabulary has pieces that lead there, the six characters
`<0xC3>` in a text merge into it and decode to one byte, although
`V071_TOKENIZER_HARDENING.md:14` says "without [...] silent byte loss".
`DecodeInvertsEncode` leaves out texts encoded with such a token; without that
exclusion the `tokenizer` run finds the case.

## 4. Fairness

* `PrefetchFairness`, `RuntimeFairness`: the background thread is weakly fair
  (the scheduler runs it), the consumer strongly (a spuriously woken thread may
  hold `mu_` at every other moment, but `std::mutex` is assumed not to starve a
  waiter for ever). Nobody is forced to begin a call, and a sleeping thread wakes
  by notification; spurious wake-ups happen but are not promised.
* `PoolFairness`: each worker and each caller inside a call is strongly fair, the
  destroying thread weakly. Functions passed to the pool terminate.
* `SessionFairSpec`: a call that has begun goes on (weak fairness of the steps
  inside a call); nobody has to call.

The other runs check no liveness. `SteadyDemandIsServed` of the controller needs
no fairness, since it counts windows: after `Patience` steady ones in a row the
depth must be where it should.

## 5. Theorems

**Cache**, for every finite set of slices, every size, capacity and word
width: `BytesAssumption` (ids are numbers, sizes are words) and
`CapacityAssumption` (the capacity is a word) are all they rest on.

* `TensorCacheProofs!CacheCorrect`: `CacheSpec => []CacheInv`, where `CacheInv`
  is the conjunction of `CacheTypeOK`, `ListMatchesMap`, `UsedIsResidentBytes`
  and `PrefetchedBytesExact`; `CacheTypeCorrect`, `ListNeverDrifts`,
  `UsedNeverWraps`, `PrefetchedNeverDrifts` are its parts.
* `TensorCacheProofs!CacheImplementsLru`: `CacheSpec => ImplementsLru`, the refinement of
  `BoundedLru`.

**Prefetcher**, for every such set of slices, every capacity and every
interleaving of the two threads, from the same assumptions:

* `RuntimeProofs!PendingNeverDrifts`: `PrefetchSpec => []PendingIsExact`.
* `RuntimeProofs!StopsForGood`: `PrefetchSpec => []QuietAfterStop`.

**Controller**, for every range of depths, every pair of thresholds, every set of
latencies and windows of any content, from `PolicyAssumption` and `RunAssumption`
(numbers are numbers, the lower threshold is not above the upper, and in a window
each request met was useful or late, which `WindowsAreConsistent` proves of what
`run_stream` reports):

* `RuntimeProofs!PolicyAlways`: `RunSpec => []PolicyInv`, with `DemandIsServed`
  (`SteadyDemandIsServed`); and the action properties `DescentsAreEarned`
  (`DownIsEarned`, also from `Judged`), `ExperimentsAreNotRepeated`
  (`NoRepeatedExperiment`) and `UpsAreEarned` (`UpIsEarned`).

**Runtime**, for every number of slices and passes, every configuration and every
interleaving with the background thread, from the assumptions on cache and
prefetcher and `RuntimeAssumption` (configurations have their types, and the
slices together are no longer than a word can count, since they tile a file:
`SlicesTileFile`):

* `RuntimeProofs!RuntimeAlways`: `RuntimeSpec => []RuntimeInv`, with `BudgetHolds`
  (`PendingWithinBudget`), `RequestsAreAccounted` (`EveryRequestAccounted`),
  `WindowsAreConsistent` (`WindowIsConsistent`) and `RunsEndClean`
  (`RunEndsClean`).

**WorkerPool**, for every number of threads, callers and calls and every length,
from `PoolAssumption` (lengths are positive, there is a finite set of thread
counts to construct with, callers are no numbers):

* `WorkerPoolProofs!ChunksStayInTheirCall`: `PoolSpec => []NoChunkOutlivesCall`.
* `WorkerPoolProofs!PoolImplementsParallelFor`: `PoolSpec =>
  ImplementsParallelFor`, the refinement of `ParallelFor`.

**GGUF reader**, from `GgufAssumption` alone (limits, lengths and offsets are
words, in any word width; the content of the file is arbitrary):

* `GgufProofs!GgufCorrect`: `GgufSpec => []GgufInv`, with the corollaries
  `ReadsStayInFile`, `TensorsStayInFile`, `GgufTypeCorrect`; and
  `DataNeverOverlapsDescriptors`.
* `GgufProofs!UseCorrect`: `GgufSpec => []UseInv`, with `HeapCorrect`
  (`HeldIsCharged`, also from `SameNames`) and `LookupsCorrect` (`LookupsAreUsable`).

**Tokenizer**, from `SentencePieceAssumption` (texts are sequences of characters,
a character is a sequence of bytes, the space is one byte and not the marker,
scores are integers, the prefix setting is a Boolean, byte tokens are pieces) and `BpeAssumption` (atoms of different bytes differ, inputs
and tokens are sequences of bytes, no contraction begins another, merge tables are
finite sequences):

* `TokenizerProofs!ListCorrect` for `SpSpec`, and `NoCharacterIsLost`:
  `TokSpec => []ListTilesText`.
* `TokenizerProofs!SpCorrect`: `TokSpec => []SpInv`, and `GptCorrect`:
  `TokSpec => []GptInv`, the invariants of the two algorithms.
* `QueueCorrect`: `TokSpec => []QueueInv`, and `MergingCorrect`:
  `TokSpec => ImplementsBestMerge`, the refinement of `BestMerge`.
* `SpecialsCorrect`: `TokSpec => []SpecialsStandAlone`.
* `TableCorrect`: `TokSpec => []TableInv`, and `TableFollowed`:
  `TokSpec => []MergesFollowTable`.
* `DecodingCorrect`: `TokSpec => []DecodeInvertsEncode`, from both invariants.

**Weights**, from `WeightsAssumption`, `KernelsAssumption` and
`QuantBlocksAssumption` (numbers are numbers; the parser leaves no dimension
zero, and rows of quantized tensors fill their blocks, as `LookupsCorrect` proves
of it; rows are as long as `Columns` allows, which may be all of `Nat`), for files
of any shape, batches, thread counts, sizes of blocks and of registers:

* `WeightsProofs!AcceptedModelsFit`: `WeightsSpec => []WeightsFit`.
* `WeightsProofs!KernelsAreProducts`: `WeightsSpec => ImplementsProduct`, the
  refinement of `Product`.

**Session**, for every number of layers, context length, page size, prompt and
batch size, from `SessionAssumption` (sizes are numbers, the model has a layer, a
vocabulary and a training context, prompts are sequences of tokens):

* `SessionProofs!SessionInvariant`: `SessionSpec => []SessionInv`, with
  `CacheCorrect` (`CacheHoldsSequence`), `AttentionCorrect`
  (`AttentionReadsItsContext`), `FeedsCorrect` (`CallFeedsItsTokens`) and
  `LogitsCorrect` (`LogitsAreCurrent`).

**Store and mapping**, for any set of objects, descriptors, sizes, any page size
and word width, from `MMapAssumption` and `StoreAssumption` (sizes are words, a
page is not empty, no descriptor is the value that means none):

* `TensorStoreProofs!StoreAlways`: `StoreSpec => []StoreInv`, with `OwnedCorrect`
  (`EveryResourceIsOwnedOnce`), `AdviceCorrect` (`AdviceCoversRequest`) and
  `TilingCorrect` (`SlicesTileFile`). Advice is asked for, in the run and in the
  theorem, with the ranges the code uses: a slice or the whole file.

The argument for the cache. None of the four invariants is inductive alone. `evict_for`
subtracts the sizes of list entries from `used_`: that this is what the map
loses needs `ListMatchesMap`. That its loop leaves room needs
`UsedIsResidentBytes` (else the unsigned subtraction `capacity_ - used_` wraps
and the loop never runs). `prefetched_used_` may be decremented only because it
counts a subset of `used_`. `EvictionIsExact` is the central lemma: the prefix
kept is the longest that leaves room, the rest leaves the map, the counters
agree. Each action then has a lemma (`HitKeepsInv`, `LoadMissKeepsInv`,
`InsertCopiedKeepsInv`, `EvictForKeepsInv`). `BytesOfUnion`, `BytesOfDifference`,
`BytesOfWith` and their like do the sums. For the
refinement the abstract recency order is the set of pairs the list order
induces; `OrderPushFront`, `OrderWithoutAt` and `OrderPrefix` say what the three
list operations do to it.

The argument for the prefetcher. `PrefetchInv` is `PrefetcherTypeOK`,
`PendingIsExact`, `QuietAfterStop` and `Phases`. That the thread is gone and the
queue empty after `stop` needs to know that the owner is only in the later steps
of `stop` when `stop_` is set, and that the thread exits only then (`Phases`).
That settling a copy never makes `pending_bytes_` wrap needs the slice in hand to
be pending and not in the queue again, which is what `PendingIsExact` says of the
sets; `PushBack` and `PopFront` are its lemmas about the queue, and the sums come
from `TensorCacheProofs`. Of the cache no fact is needed: whatever the copies do to it,
the books are the prefetcher's own.

The argument for the controller. It remembers one rejected probe, `refused` all of
them. `Refusals` says that the one it remembers is the lowest and that it never
gets above it again before the phase changes, so one is enough. `Earned` says
what `stable_windows_` being positive means: the last window was late, highly
useful, and its latency the one to compare with; `UpIsEarned` is that, and the
guard of the step. `Judged` relates the latencies the controller keeps to `baseline`,
the one of the last window that did not end a probe by a descent; it holds because a
rejection puts back the reference of the probe, and `DownIsEarned` follows case by
case. `Served` counts: `WindowsLeft` is how many steady windows it
takes from here (three for each step, two for the first), and a steady window
always takes one off. The attempt to prove it corrected the property: a stream
that starts at the lowest depth needs one window more than `Patience` if its first
counts, since the first only gives a latency to compare with; `Steady` therefore
asks for a window that is not the first. (`policy` starts at the lowest depth.)

The argument for the runtime. The consumer reads `pending_bytes()` once per slice
and works from the copy. `Headroom` says why that is safe: in the look-ahead loop
what is pending is at most `reserved`, for background steps only take away, and
while a request is under way it is at most `reserved` plus that slice, which was
found to fit (`Fits`) before; the charge that follows keeps up, saturated or not
(`ChargedKeepsBudget`). The accounts are the consumer's own: `Ahead` says
which slices can be outstanding (those behind the one in hand), so that a request
is met exactly when its slice comes up, none is left after the last one, and the
cardinalities and sums of `Books` move by one slice at a time (`ConsumedBooks`,
`AdmittedBooks`). `Windows` relates the counters of a window to where the
consumer is, and `Calling` the place in `run_stream` to the call of the prefetcher
in progress, from which `QuietAfterStop` gives that a run that returns has no
error and no thread. Each step of either thread either leaves the consumer's
locals alone (`StreamStays`) or leaves the prefetcher alone (`AloneIs`), or is one
of the two in which both move, a request and its charge.

The argument for the pool. A caller leaves when it has counted `threads_ - 1`
reports. `PoolInv` says what `finished_` counts: the workers that have seen the
current generation and are not busy with it (`Reported`). When these are all
(`AllReported`, by cardinality), nobody is busy, and nobody becomes busy before
the next generation. For the refinement, `CallInv` relates the history of
indices to the chunks handed over (`HandedOver`), and `ChunksPartition` shows
that rounded-up chunks partition `0 .. n - 1` for all `n` and thread counts: so a
worker that takes its chunk is a step of `ParallelFor` on fresh indices, and a
caller that leaves has had all of them processed.

The argument for the reader. `RequireIsSafe`, `StringIsSafe` and `ChargeIsSafe`
say what the checks of `Reader` are worth for one read; each action has a lemma
that composes them. The inductive invariant adds the types of what was kept
(widths and offsets must be numbers), that no tensor exists before `dataOffset`
is set (else setting it could move the data section behind one), and that the
descriptors are complete when the first tensor is placed. `RoundedUpBounds` and
`RoundedUpIsMultiple` are the two facts about rounding.

On top of it `UseInv` has two parts. `Lookups` says that index and list of tensors
are inverse to each other, that items and tensors were counted as they were kept,
and that each tensor's rows fill it; the last needs the one calculation of the
parser, that a product whose first factor is whole blocks is as many blocks as the
checks divide it into (`BlocksOfRows`). `HeapBooks` strengthens the account by
`Advance`, what was charged in bulk for items, descriptors and tensors still to
come: `HeldIsCharged` is not inductive without it, for a step that keeps a node
charges nothing for it. The index's copies of the names, which nothing was charged
for, are bounded by those that were (`IndexWithinDescriptors`: each key is the name
of a tensor of its own, which is that of its descriptor). Sums over collections are sizes of tables of cells
(`Total`), so that one row more (`RowAdded`) is a fact about finite sets and needs
no induction.

The argument for the tokenizer. `ListTilesText` is inductive once the array has
its type and queue entries have their ends in it: a merge is only taken of two
nodes that are linked both ways, so the node before the pair, the pair and the
node behind it are all that changes, and `MergeKeepsInv` goes through them.

The refinement needs that the queue misses nothing. `EveryPairQueued` says that two
neighbours whose strings together are a piece have their pair in the queue with its
present size; a merge changes only the neighbours of the node it enlarges, and adds
both of their pairs. Stale pairs may stay: `PairsAreScored` says that each pair has
the score of the string it was added for, so the best pair that is current is the
best of the text (what `IsCurrent` rejects stutters), and where none is left no
neighbours are a piece. `OnPath` lists the nodes in the order of `next`, which is
the order of their indices, so that the smallest index among equals is the leftmost
pair; `PathAfterMerge` and `PairReplaced` say that a merge takes one element out of
that list and replaces two strings by one.

Decoding needs more than the list. `SpInv` adds that `next` leads forward, and that
a node of more than one character is a piece of the vocabulary: a queued pair keeps
the string it was added for as long as it is current (`PairsArePieces`), since
`off` never changes and `IsCurrent` compares the lengths. With it `ChainIsText` says
that the strings along the list are pieces or single characters and together the
text, and `TokensDecode` that each gives its bytes back, the marker as a space, where its
token is none of a byte (`ReadsBack`).
`GptInv` keeps the account of what has been emitted: the tokens so far decode to as
many bytes as have been passed (`GptPlace`; what is in `syms` and `segment` comes
on top), to the bytes themselves where no token is unknown (`GptReads`), and no
special token starts inside an ordinary one (`GptApart`), for which a segment must
end at the first place where one does.

`TableInv` says where a word is on its way through the table: it lies between two
rows, in the sense that applying the next entry to all of it gives the row after
(`MergesTo`), and no pair of an earlier entry is left in it (`NoneBelow`). That
merging the first occurrence of the lowest rank keeps this has three parts.
`FirstMerges`: a pass over the word gives the same whether or not its first
occurrence has been merged before. `RowsPassed`: entries that occur nowhere leave
the word alone and may be passed. `PartsAreEarlier`: the token an entry makes is a
part of later entries only, so no pair of an earlier one appears. The
last is false when two entries make the same token, which an earlier form of
`Trained` allowed: the proof did not go through, and TLC found a table of five such
entries for which the property fails. `Trained` now asks that tokens differ, as they do
in a vocabulary.

Both invariants speak of strings put together from sequences of any length. The library's
induction theorems cannot be used (they take an operator), so `NumbersFromZero`
does induction with sets: a set of numbers with 0 and all successors is `Nat`, since
the complement would have a least element (`WFMin` over `NatLessThanWellFounded`).
`SequencesGrow` is the same for sequences. From them `ConcatJoins` follows: the
concatenation of a sequence of strings distributes over `\o`.

The argument for the weights. A kernel that runs was begun on the matrices of
the place the pass is at (`RunInv`), so that all depends on `MatricesFill`: the
shapes `load_config` compares are those the buffers have, matrix by matrix. That
each head lies in its row (`HeadsOfConfig`) is the one with arithmetic: the head
sizes divide exactly, and `h / group` is below the number of key-value heads.

The argument for the products goes from the inside out. A dot product is one over
all columns when its turns and the columns are in bijection and a turn multiplies
the weight and the activation of its column (`WalkFromColumns`, then one lemma for
each loop, `F16Walk` to `Q4Q8Walk`): columns are blocks, halves, registers and
lanes by division with remainder (`BlockPlace`, `StridePlace`), with nothing left
over, or a rest for the loop behind. That the pairs are as many as the columns
needs the weights of a row to be stored in different bits: `NibblePlace`, and
`Q6BitsApart` for the low four and the high two bits of Q6_K, each of which alone
tells the elements of a block apart (`Apart`). For the batch loops `TokensAreAll`
says that groups of four or eight and the loop for the rest take each token once,
as itself; for the threads `ChunksCover` that the rounded-up chunks of any number
of rows for any number of threads leave none out. `CallInv` then says where a call
is: each element is unset or right, matrices before the one in hand are all right,
and an element of it that is not right has its place in a chunk still to run. So
a call that joins its last chunk has set them all. A call fails only for a
type without a kernel, which is the `failed` part of the same invariant; this rests
on the model's assumption that creating threads and allocating the temporaries of
a kernel succeed. Which of the
four ways runs the chunks, and in which order, is not used.

The argument for the session. That the cache holds the sequence is kept by
every step because rows are only written from `pos` on, and `pos` moves when all
layers have been written. What has been written of the pass in progress is
`Layered`: the layers below `layer`, and `layer` itself once it attends, hold
`seq \o batch`; so a row is computed from the row of the layer below that
belongs to the same prefix. `Feeds` says what `batch` and `todo` are: with `seq`
they make up what the call has to feed, so each cut of `todo` into a batch, each
early end, and the last token `generate` keeps to itself are facts about
sequences. `Current` says which pass computes logits: the one after which nothing
is left to feed. A failed pass leaves `seq` and `pos` alone, so all it can leave
behind are rows at or above `pos`, which the invariant does not speak of.

The argument for the mapping. `Books` says that the objects that hold a mapping
hold different descriptors and different mappings, and that the system holds
these and no others; cardinalities agree because owners and resources are in
bijection (`OneEach`). Opening, moving (also onto itself) and closing are each
shown on `Books`, so that `TensorStore`, whose constructor opens and whose
destructor closes, keeps it by the same lemmas. That no byte of the file is in
two slices or in none needs to know while the loop runs that slice `i` starts
at `(i - 1) * chunk` (`Cut`); when it ends, the offset divided by the chunk size
is a slice, and the only one.

Only model-checked: liveness under fairness (`StopTerminates`, `PendingDrains`,
`RunTerminates`, `EverybodyReturns`, `CallsEnd`), which is out of the prover's
reach.

## 6. Not modelled

* Floating-point work (the arithmetic of the kernels, normalisation, rotation,
  attention weights, the quantization of activations and of keys and values, half
  precision, sampling): correctness there is numeric accuracy, which TLC cannot
  evaluate. What kernels multiply with what is modelled.
* `quant.cpp`, `quant_kernels.cpp` and `matmul.cpp`: stateless arithmetic outside
  the GGUF path.
* `llama2.cpp`: a second, older checkpoint format with a forward pass of its own;
  nothing in `LlamaModel` or the runtime depends on it. (Unlike `MMapFile`, its
  constructor keeps the descriptor, and the mapping, in raw members when it throws
  after line 81, and no destructor runs.)
* The overflow checks of `checked_math.hpp` on sizes of workspaces and pages, and
  the workspace limit: sizes in `LlamaSession` are unbounded numbers. The parser's
  checks of the same kind are modelled, in words.
* `GgufFile`'s typed getters: each is one lookup with a type test.
* The tokenizer's classes of Unicode characters and what it does with invalid
  UTF-8 beyond taking a stray byte for a character; the constructor's reading of
  vocabulary arrays.
* Failures of allocations of the size of a node, failures to create a thread, and
  OpenMP regions that are granted fewer threads than they ask for (listed under
  `hazards`).
* The command line tools, `common.cpp`, scripts, benchmarks and the site: argument
  parsing, units and printing.

## 7. Plan

1. Done: cache, prefetcher, controller, runtime, pool; session and KV cache; GGUF
   reader; store and mapping; tokenizer; kernels and weights.
2. Next: `LlamaSession` over `WorkerPool` and `Kernels` instead of their promises;
   words of a fixed width in the session, for the checks of `checked_math.hpp`; the
   constructor of `Llama2Model`, which owns a descriptor and a mapping as `MMapFile`
   does.
3. Next theorems: the same refinements for the compositions of 2. All safety
   properties and refinements of the present runs are proved.
