# A TLA+ model of PowerServe

PowerServe serves language models on phones: llama, qwen2 and internvl models
on the CPU (GGML) or on the NPU of a Snapdragon (QNN), with speculative
decoding, behind a command line program and an HTTP server. This directory
holds TLA+ specifications of the parts whose correctness depends on the order of
things, TLC configurations that check them, and proofs of the main invariants.

    tlc -config MCSpecDecode.cfg MCSpecDecode.tla
    tlapm SpecDecodeProofs.tla

Paths below are relative to `src/` of the repository.

## Inventory

| Part | Code | State | Operations | Talks to |
|---|---|---|---|---|
| KV cache | `core/kv_cache.hpp`, QNN store in `backend/qnn/causal_models.*` | entries, attention bias, `position` | `save_tokens`, `unmask_tokens`, `advance_tokens`, `rollback_tokens`, `truncate_tokens`, `mask`, `unmask`, `move`, `copy` | called by forward passes and by the decoders |
| Speculative decoding | `speculative/spec_model.hpp`, `speculative/token_tree.*` | token tree, two heaps, `token_queue`, `m_tokens`, `n_rest` | constructor (prefill), `next`/`decode`, `draft`, `verify`, `switch_parent` | the caches of two models, sampler |
| Plain decoding | `model/model.hpp`, `model/*/`, `app/run/run.cpp` | `m_tokens`, `n_rest`, pool of the backend; lists of images (internvl) | prefill in batches, `decode`, `end`; `preprocess` | executor, backend, sampler |
| Sampler | `sampler/*` | penalty window and counts, random generator | `apply`, `accept`, chain | decoders |
| Graph, executor | `graph/*`, `executor/*`, `model/module/*` | operators, tensors, buffers | build, allocate, run in order | backends |
| GGML backend | `backend/ggml/*`, called functions of `libs/ggml/src/ggml.c` | work buffer, counter of chunks, GGML KV cache, thread pool | `plan`, `setup_work_data`, operators | thread pool |
| Thread pool | `core/thread_pool.*`, `core/spin_barrier.*` | `m_current_task`, `m_exited`, two barriers | `run`, `barrier`, destructor | every GGML operator |
| QNN backend | `backend/qnn/*` | graphs of several batch sizes for each chunk of layers, the buffers they share, attention bias, caches | load, `split_batch`, `forward` with and without images | vendor library |
| Platform | `backend/platform.*` | backends per model | `init_*`, `reset_kv_position`, `get_kv_position` | decoders, server |
| Server | `app/server/server_handler.hpp`, `openai_api.hpp`, `simple_server.*` | registry of models, sessions, queues of chunks | setup/destroy model, setup/destroy session, streaming | one thread per session, HTTP threads |
| Local server | `app/server/local_server.*` | task queue, responses | create, poll, wait, fetch, destroy | worker thread |
| Storage | `storage/*` | mappings and buffers of files | load, get, unload | model loaders |
| Tokenizer | `tokenizer/*` | tables | encode, decode | `libs/llama_tokenizer` |
| Configuration | `core/config.*`, `app/common/*` | none after start | parse | everything |
| Logging, tracing | `core/{logger,perf,perfetto_trace,timer}*` | counters | record | everything |

What is hard in it, and what makes each part correct:

* **KV cache and speculative decoding.** The target and the draft model keep a
  cache each. A round advances, masks, rolls back and patches them one at a
  time, any step may throw because a cache is full, and the next generation
  starts from what was left. Correct means: both caches are those of the text
  generated so far, attention never sees anything else, and the emitted text is
  one the target could have generated alone.
* **Thread pool.** Two barriers that only count up, a task pointer and an exit
  flag without a lock. Correct means: every worker runs every task exactly once,
  `run` returns when all have, phases inside a task do not mix, the destructor
  ends.
* **Graph and kernels.** The operators of a pass are ordered by their creation
  alone; all threads work on each of them and share a work buffer, and for products a
  counter that decides who computes what. Correct means: every operator
  finds what it reads complete and right, nothing of an output is left out or computed
  twice, nobody leaves the buffer.
* **QNN backend.** A pass goes through several chunks and batches, on graphs of
  different sizes that share buffers, and each leaves behind what it does not overwrite. Any graph
  may fail. Correct means: the caches of all chunks are one cache, and each row of the
  result comes from its own text.
* **Images.** A prompt leaves its images in two lists of the model for a later pass.
  Correct means: that pass is of the same prompt, and finds the rows they belong to.
* **Server.** Sessions outlive requests, the registry hands out references, and
  chunks cross threads. Correct means: a model is not destroyed while a session
  uses it, a stream ends exactly once, after all its chunks, and nobody joins
  under a lock that the joined thread needs.
* **Local server.** A response is finished by one thread and destroyed by
  another. Correct means: each request is executed once and its waiter wakes.
* **Sampler, work plan, storage.** Sequential, with windows and limits that have
  to be off by none.

`PROJECT.json` lists every hazard with the line where it bites.

## Plan

Order of work, most important first.

1. `KVCache`, `SpecDecode`, `Decode`: speculative decoding over both caches, and
   the specification of plain text generation it implements.
2. `SpinBarrier`, `ThreadPool`, `ForkJoin`: the pool, and what `run` promises.
3. `TokenIterator`: plain decoding on both backends, implementing `Decode` too.
4. `Server`: the registry of models, the sessions and their threads, the chunks
   of a stream and its UTF-8 buffer (`Utf8`). Its state is per request, so that
   `LocalServer`, which extends it with a task queue, waiters and one worker,
   reuses its actions; the HTTP server runs them with a pool of threads.
5. `Sampler`: the chain of samplers, used by `TokenIterator`.
6. `MulMat`, `ModelGraph`, `ForwardPass`: one pass through a model on the CPU, from
   the graph over the work plan and the operators to the chunks of a product.
   `ForwardPass` extends the other two, and `MulMat` the barrier.

7. `CausalLM`, `CacheStore`: one model on the NPU, chunk by chunk and batch by batch, and
   the single cache it implements, which `SpecDecode` and `TokenIterator` take for granted.

All of these are done, and every invariant, action property and refinement of a run that
passes is proved. What is left is out of the prover's reach (liveness) or a case the theorems
exclude by name: products of two columns at a time (`RowsPerDot = 2`).

## Modules

| Module | Models |
|---|---|
| `KVCache` | the methods of the cache and what a forward pass computes; constant operators only |
| `SpecDecode` | `SpecTokenIterator` and `TokenTree`, extends `KVCache` |
| `TokenIterator` | `ModelTokenIterator` on both backends, extends `KVCache` and `Sampler` |
| `Sampler` | the chain of samplers; constant operators only |
| `Decode` | abstract: tokens sampled one at a time, each from the text before it |
| `SpinBarrier` | `SpinBarrier::wait` |
| `ThreadPool` | `ThreadPool`, with two instances of `SpinBarrier` |
| `ForkJoin` | abstract: the promise of `ThreadPool::run` |
| `MulMat` | a matrix product on all threads, `powerserve_compute_forward_mul_mat`, extends `SpinBarrier` |
| `ModelGraph` | the graphs that `LlamaModel` and `Qwen2Model` build; constant operators only |
| `ForwardPass` | `Executor`, `plan`, the operators of `GGMLBackend` and its cache, extends `MulMat` and `ModelGraph` |
| `CausalLM` | loading and evaluating a model on the NPU, `CausalLM` and `QNNBackend::forward`, extends `KVCache` |
| `CacheStore` | abstract: the one cache that the chunks of `CausalLM` make up; `Forward` of `KVCache` on it |
| `Utf8` | characters that are cut in the middle; constant operators only |
| `Server` | `ServerContext`, the inference functions, the handlers and the threads that run them, extends `Utf8` |
| `LocalServer` | `LocalServer`, extends `Server` |
| `MCSpecDecode`, `MCTokenIterator`, `MCThreadPool`, `MCForwardPass`, `MCCausalLM`, `MCServer`, `MCLocalServer` | values of constants for TLC |
| `SpinRounds` | the rounds of a barrier as operators and lemmas, its state given as parameters: `SpinBarrier` has one, `ThreadPool` two |
| `KVCacheProofs`, `SpecDecodeProofs`, `ThreadPoolProofs`, `ForwardPassProofs`, `CausalLMProofs`, `ServerProofs`, `TokenIteratorProofs` | proofs |

### Cache and forward pass

A cache is a record of `size`, `position`, the set `open` of entries the bias
shows, and `entry`. The bias is per column for past entries, so a set is all of
it. The numbers in an entry are replaced by the sequence of tokens they were
computed from: `Encode` gives an entry the sequence `Append(s, t)` when the
visible entries are exactly the proper prefixes of the new one, one each, and at
the right position, and `Garbage` otherwise. So any wrong mask, stale entry or
wrong position is visible in the result and spreads the way it would in the
network. The batch is evaluated in order, each token seeing the open entries of
the cache and the tokens of the batch its mask row names.

### Speculative decoding

Everything runs in the caller's thread. `pc` says where it is:

| Actions | Code |
|---|---|
| `Start` | constructor up to the assertion on positions, with `reset_kv_position` |
| `PrefillBatch`, `PrefillDone` | `forward` of one batch of the prompt for one model, then `m_tokens` |
| `NextQueued`, `BeginRound`, `Finish` | `next` and `decode` with tokens left, a new round, the caller's loop ends |
| `DraftLeaf`, `DraftExpand`, `DraftDone` | one turn of the loop of `draft`, with `switch_parent`; the rollback behind it |
| `TargetForward` | the pass over the whole tree and its rollback |
| `VerifyNode` | one turn of the loop of `verify` |
| `Deliver` | the queue moves to `m_tokens` and the first token is popped |

Probabilities become the choices they decide: which `top_k` tokens the draft
model proposes, which of them may be expanded, which candidate leads its heap,
and when `min_prob` cuts (once it has, it does for the rest, because the heap is
ordered). A `ModuleException` (`Throw`) leaves the caches as they are and
ends the generation; a failed `POWERSERVE_ASSERT` (`Abort`) ends the process.
The assertions that would throw inside `mask` and `unmask` count as `Abort`, so
that `NoAssertionFails` covers them.
`emitted`, `sampledFrom` and `delivered` are history variables.

Not modelled here: the random state of the sampler, timing, a caller that asks
for no token at all. `SpecAssumption` requires the tree to fit into one batch of
the target, which the code takes for granted.

### Plain decoding

`Construct` is the constructor up to its loop, `PrefillBatch` one batch of the
backend, `NextToken` a call of `next` that returns, `Destruct` the destructor.
`npu` is chosen at the start. On the NPU an iterator's batch is cut again by
`split_batch`, attention sees what the bias leaves open, and the check for room
comes first; on the CPU attention sees every entry before the batch
(`CpuSeen`), and a batch that does not fit is written before it is noticed: the
model stops in `undefined`. A `pool` flag says whether the CPU's thread pool
exists; after an exception in the constructor it stays, as no destructor runs.
`Destruct` is one step: that a generation ends (`GenerationEnds`) is a claim about
the loop, and whether the pool's destructor returns is a matter of `ThreadPool`.
Images (internvl) are not modelled.

Logits are chosen freely and `Sampled` says which tokens the chain may make of
them. A `ProbArray` is the set of candidates with their values, the ones whose value
is minus infinity, and the two flags the samplers assert of each other; the order
of equal values is left open. Penalties lower a value by the number of times the
token is counted, which stands for the three factors of the code; temperature
keeps the order and softmax makes it probabilities. The state of the chain is
`m_prev` and `m_ignore_eos`; the caller makes a new chain for each generation.

### Barrier and pool

The ticket (`fetch_add`) and the load that ends the spinning are separate
steps, as are all reads and writes of `m_current_task` and `m_exited`. `pc` has
one place per statement between two of them. A relaxed load does not order what
follows; `LoadsAcquire` says whether it does on the machine at hand. With
`LoadsAcquire = FALSE` a worker may read any value `m_current_task` has had
since the write its own ticket made visible to it (`published`, `readable`).
Reading half of a `std::function` is not modelled.

### Forward pass

`ForwardGraph` is the sequence of operators that `forward` creates, layer by layer,
with the edges the code gives them and no others: a `COPY` into the cache
has no output, a `VIEW` of the cache no input. `next` is the operator that `Executor::run`
is at. Numbers are reduced to whether they are right. A tensor is in `right` when all
units of it were computed and everything it was made from was right. `cache` has the
entries that are, `<<layer, "k" or "v", position>>`; a `VIEW` that has not
been executed points to the start of the cache, and a `COPY` through it spoils
the entries there.

| Actions | Code |
|---|---|
| `StartPass`, `EndPass`, `NewGeneration` | `forward` up to `run` with `plan` and `setup_work_data`; `advance`; `reset_kv_cache` |
| `MainThread` | operators that run on the calling thread, or only set pointers and strides |
| `RmsNorm`, `Add`, `Rope`, `SoftmaxExt`, `Cont`, `Copy` | the part of one thread of an operator: rows in turn, or a block of rows |
| `EndKernel`, `EndCopy` | `ThreadPool::run` returns |
| `StartProduct`, `Product`, `EndProduct` | a product, with the actions of `MulMat`: |
| `Begin`, `End` | `GGMLBackend::matmul` |
| `Convert`, `Store` | a thread's columns of the activations go to the work buffer; thread 0 sets the counter |
| `Meet`, `Met` | the barrier of the pool (`Arrive` and `Leave` of `SpinBarrier`) |
| `Multiply`, `NoChunkLeft`, `Fetch` | one turn of the loop over chunks; the `fetch_add` |

Outside products the threads of an operator share nothing but the work buffer, of which each
has an area, so a thread does its part in one step; that `run` waits for all of
them is what `ForkJoin` promises. `area` is how far that part reaches into the buffer, and a
thread that reaches past its end leaves the process in `overrun`. In a product
each access to what threads share is a step. `EndKernel` and `End` may take place
only when all threads are through.

The build that is modelled is the one of `CMakeLists.txt`: no llamafile kernels, no NUMA, and
weights for which `type_traits` has no `gemv`. `RowsPerDot` is 2 where the
compiler has int8 matrix multiplication and the weights are quantised, and 1
otherwise; the runs, and the theorems that say what a product computes, have 1 (see the hazard in
`PROJECT.json` for 2). A batch that does not fit into the cache is the subject
of `TokenIterator`; `StartPass` excludes it.

### NPU backend

`CausalLM` has what `KVCache` leaves out. The layers are compiled in `Chunks`, and each chunk for
every size in `BatchSizes`; the graphs of a chunk share the buffers of the largest. `x`
is the input of each chunk, `bias` the columns of cache and batch that each row of each
chunk sees, `keys` what a chunk computes for a row, `cache` what it has saved. All
of these keep what is not overwritten, rows past the end of a batch included.

| Actions | Code |
|---|---|
| `LoadChunk`, `Loaded` | a turn of `load_model_chunks` with `initialize`; `advance_tokens(kv_size)` behind it |
| `Call` | `QNNBackend::forward` up to its loop, with `split_batch` |
| `Fill` | `fill_rope_embeds`, `fill_attention_mask` and the embeddings of one batch |
| `Execute`, `ExecuteFails` | one chunk, and copying its rows to the next |
| `ComputeLogits` | the output layer, which is compiled for sizes of its own, or none |
| `Keep`, `KeepFails` | `save_kv` and `advance` |
| `Rollback`, `Reset` | `rollback_tokens`, `reset_kv_cache` |

A row is, as in `KVCache`, the text it was computed from, or `Garbage`; a chunk passes a
row on only if what it sees agrees with what the chunk before made of it. A row
that sees a later row, or not itself, is `Garbage`. Requests are texts or trees; whoever submits a tree gives its
entries back before the next request, as `SpecDecode` does, and
`ModelAssumption` lets a tree fit into the largest batch.

`CacheStore` says what this is to its callers: one record of `KVCache`, to which a batch
appends what `Forward` computes. `ImplementsCacheStore` maps to it: an entry
is the one all chunks agree on, it is open if every row of every chunk sees it. So what the
decoders assume of the NPU is checked against the code that provides it.

### Server

Two program counters per request: `conn[r]` for the thread that serves its
connection, `gen[r]` for the one that generates, which is the same thread unless
the answer is streamed.

| Actions | Code |
|---|---|
| `Send`, `Accept`, `AnswerAtOnce` | a request arrives, a thread of the HTTP library takes it; bad requests and the list of models are answered at once |
| `StartInline`, `StartSession` | the two branches of `handler_completion` and `handler_chat`, with `setup_session` and `init` |
| `SetupCached`, `BeginLoad`, `LoadModel`, `LoadFails`, `KeepContext` | `setup_model` by `init_model` of each folder |
| `Construct`, `BeginForward`, `EndForward`, `Finish`, `Close`, `Unwind` | `stream_inference`/`blocking_inference`: iterator, loop, last chunk, destructor, exception |
| `FetchResult`, `SendDone`, `EraseSession`, `JoinThread` | the loop of the content provider and `destroy_session` |
| `SpinAtEnd`, `SpinAtStart`, `SpinAtUnload` | `~ThreadPool` does not return: in `reset_threadpool`, in `setup_threadpool` over an old pool, in `destroy_all_models_unsafe` |
| `UseDestroyed`, `LosePool`, `ForwardAborts`, `DumpThrows` | how the process ends |

`lock` is the holder of `m_lock` where code holds it across steps, while it loads
and while it joins; shorter sections are one step each. A reference into
the registry is `live` or `dangling`, a cache has an `owner`, and a backend may
have a thread pool. The process is `up`, or ends `aborted` (an assertion),
`terminated` (an exception nobody catches) or `undefined`, and then nothing more
is claimed. `multimodel` stands for the build flag and is chosen at
the start. Bytes are what they say about their character, so that the buffer of
incomplete characters is modelled by what it does. The model is of the build
for the NPU, where a request with a draft model uses `SpecTokenIterator`, which
needs no thread pool of its own. The generators themselves are
`TokenIterator` and `SpecDecode`; here a token is any piece of text, a stop or an
exception. A client that goes away changes nothing: the results of
`sink.write` are ignored.

Wherever a thread pool is destroyed its destructor returns or spins for ever (the
finding of `thread_pool_destructor`); the second is a step that puts the request
into `spinning`, and the thread that generates for it takes no step any more
(`Infer`). It may leave `m_lock` held, by itself in `destroy_all_models_unsafe` or
by who joins it.

External and assumed from use: the HTTP library hands each request to one of
`PoolSize` threads and lets exceptions of a content provider escape; `json::dump`
throws on what is no text (`IsText`); the concurrent queue is first in, first out
for its one producer.

`LocalServer` puts a queue and one worker in front of the same actions. The
client and the worker meet in `wire[r].done` (`m_done`). `m_stop` is declared
after the thread that reads it, so `started` says whether the worker has found it
clear. `create_*_response` differ only in the handler they name.

## What is checked

| Run | Bounds | Shows |
|---|---|---|
| `spec_decode` | 2 tokens, prompts of 1, 4 and 7 tokens in batches of 4 and 2, caches of 6 and 4, tree of 4, 2 generations of up to 2 tokens | the caches follow the text, drafts see their own branch, nothing leaks past `position`, output is in order and lossless, no assertion fails, every generation ends |
| `token_iterator` | both backends, prompts of 1, 3, 5 and 7 tokens, cache of 6, batches of 3 cut by 2, 3 generations of up to 3 of 3 tokens, top 2 of them, a window of 2 | the cache follows the text, every token is sampled from exactly the text before it, an ignored end of the text never comes, every generation ends |
| `token_iterator_overrun` | the same, 1 generation | the CPU writes past the end of a full cache (a finding) |
| `forward_pass` | 2 threads, 2 layers with 2 heads, 1 KV head and biases, 2 passes of 2 or 1 tokens, chunks of 1 and 2 | the threads meet in every product, convert before they multiply and divide the result without gap or overlap; every operator reads what is right, the cache stays complete, conversions, and at this length of text the areas of the threads, fit into the work buffer; passes end |
| `work_buffer` | 2 threads, 1 layer, tokens one by one up to a cache of 12, cache lines of 8 bytes | the softmax leaves the work buffer (a finding) |
| `causal_lm` | 2 chunks for batches of 1 and 3, output for 2 and 3, cache of 7, 4 texts of up to 5 tokens and 2 trees, 3 calls | every logit comes from its own text, the caches of all chunks follow it, together they are one cache; also after failed calls |
| `thread_pool` | 3 workers, 2 tasks of 2 barriers | the pool implements `ForkJoin`, phases are aligned, the task stays valid, `run` returns |
| `thread_pool_destructor` | 2 workers, 1 task | the destructor may hang (a finding) |
| `thread_pool_relaxed` | 2 workers, 1 task, `LoadsAcquire = FALSE` | a worker may skip a task (a finding) |
| `server` | 2 requests on 2 threads, two models and a missing one, up to 2 tokens, chunks merged by 2 | the registry stays consistent, joining under the lock is safe, a stream says what one piece would, every request is answered unless the process ends or a destructor that spins holds it up, in the ways `HeldUp` lists |
| `server_overlap` | the same | a thread pool gets two tasks at once (a finding) |
| `local_server` | 2 requests, one model with and without a draft, 3 tokens of bytes that make whole, cut and broken characters | generations never meet, streams are right, waiters wake unless a destructor spins under the task before theirs, or under their own before its last chunk |

The bounds are small and still reach what matters. In `spec_decode` the draft
cache of 4 overflows in `draft`, in the middle of `verify` and in the next
generation; a tree of 4 nodes with two tokens has siblings, two levels below
the root and unused slots; a second generation starts after every kind of
exception. Two generations suffice because a generation reads nothing of the
earlier ones but the caches, which `Start` truncates. The prompt
of 4 tokens takes the draft model two batches and leaves it no room to draft, and that of 7 fails in the
target's second batch. There is no stop token in `spec_decode`: a third token is out of TLC's reach, and one of
two leaves no branches; `token_iterator` has one. In `token_iterator` the prompts
end inside a batch, at the end of one, and do not fit. In `forward_pass` a pass has 18
products, and one more for the output, so the barrier goes through dozens of
rounds; products are cut into as many chunks as there are threads, along rows or
along columns, some of them empty, or into eight that the counter hands out. Two layers suffice to take the
output of one for the input of another, two passes for a cache that already has
entries. In `causal_lm` a text of 5 tokens
is cut into batches of 3 and 2, the second of which leaves a row of the first in
place, and is followed by single tokens on the smaller graph; a cache of 7 fills up in
the first or second batch. Two tasks in `thread_pool` suffice for a task to meet the tail of the
one before it. Two requests suffice for the server's hazards, each of which
is between two: one destroys, replaces or waits for what the other
uses. Two tokens leave one piece of text, as the first token is not shown, and
three leave a character in two pieces. `CHECK_DEADLOCK FALSE` is set because the bounded systems stop.

Each property of a passing run has a mutant: an operator marked
"(broken variant: ...)" that replaces one operation by a plausible mistake and
makes the property fail.

Fairness. `SpecDecode` and `TokenIterator`: `WF_vars(Generate)`, the caller keeps calling `next`
until the generation has ended; no fairness for asking. `CausalLM` has safety
properties only. `ForwardPass`: one weak
fairness for all that can go on inside a pass, since a thread that is not
scheduled for a while does not keep the others from running out of things to do;
nobody is obliged to begin one. `ThreadPool`: each worker runs, and main runs
while it is in a call (`InCall`); it is never obliged to call. `Server`,
`LocalServer`: every thread runs, clients are not obliged to ask. Weak fairness
is enough although requests compete for threads and `m_lock`, because each takes
a bounded number of steps, or spins in a destructor. The properties name that
exception and are no wider than it. In `EveryRequestAnswered` a request may stay
unanswered if its own thread spins; if it waits for `m_lock` and a request whose thread spins
holds the lock; or if all threads of the HTTP library are taken (which takes more
requests than threads, so `server` with two of each does not reach this part).
A stream whose thread spins behind its last chunk is told up to `[DONE]`. Both
properties speak of all requests together, from some moment on (`<>[]`): requests
are finite in number, are sent once, and leave none of these states again. Without any of
these parts the property fails, in `server` or, for the last, with one thread.

### Findings

* **The destructor of the pool may spin for ever.** It sets `m_exited`
  and then waits for all workers at the run barrier, but a worker tests the flag
  *before* it takes its ticket and may exit without one
  (`core/thread_pool.cpp:38,74`). In the server this takes a request with it: an answer in one
  piece is written behind the destructor, and the thread of a stream is joined with `m_lock`
  held (`server_handler.hpp:388`), so nobody gets the lock any more.
* **A worker may miss a task on AArch64.** The load in `SpinBarrier::wait` is
  relaxed, and `m_current_task`, not atomic, is read after it. A worker may see
  the empty task, skip it, and take the ticket that counts as its end.
* **Two requests for one model share one thread pool.** Nothing keeps
  the generations of two HTTP requests apart; the second trips the assertion of
  `async_run` (`core/thread_pool.cpp:60`). The local server has one worker and is not
  affected, unless a request that failed left its session behind (`LocalRunsOneTask`).
* **The CPU's cache is written past its end.** The assertion that the cache has
  room comes after the graph has written the entries
  (`model/llama/llama_model.cpp:109`), on the NPU before. `NpuNeverOverruns` and
  `FittingRequestsStayInside` say who is safe.
* **The softmax leaves the work buffer.** `plan` drops the largest size it has
  seen whenever it meets a `PERMUTE`, `CONT`, `GET_MASK` or `GET_EMBEDDING`
  (`backend/ggml/ggml.cpp:47-52`), and two of them follow the softmax in
  every layer. What the softmax needs grows with the text, the buffer does not.
  With 4 threads, a hidden dimension of 8192 and tokens one by one it writes past
  the end from 549 entries on; `ShortTextsFit` says that up to 548 it does not.

Seen on the way and modelled as it is (`Sampler`), without a run of its own: the
repetition penalty does not look back. Its deque begins with `penalty_last_n`
zeros, tokens are appended at the end, and the first `penalty_last_n` are counted
(`sampler/sampler.cpp:138`): the zeros, for ever. Not modelled: the images of
a generation that is broken off stay in two lists of the model and trip an assertion in the next prompt
(`backend/qnn/qnn_backend.cpp:123`, `model/internvl/internvl_model.cpp:82`; only `executor/executor.cpp:128-129` clears
them); `img_idx` is never increased, so of two images the first is put where the second belongs
(`model/internvl/internvl_model.cpp:96-101`); and the shared memory of a first, trial buffer is asked for in three sizes, but
`load_model_chunks` only goes on to the next after `std::runtime_error` (`backend/qnn/causal_models.cpp:110`), which the exceptions of the
QNN wrappers are not.

## What is proved

| Theorem | For all values of the constants |
|---|---|
| `CachesSound`, `NothingLeaks` (`SpecDecodeProofs`) | positions stay within the caches, nothing at or after `position` is open, and what a round has saved can be rolled back |
| `DeliveredInOrder` (`SpecDecodeProofs`) | delivered tokens, waiting tokens and queue are the last prompt token and all emitted ones, in order |
| `NeverAborts` (`SpecDecodeProofs`) | no assertion of speculative decoding can fail, whatever exceptions ended the generations before |
| `CachesFollow` (`SpecDecodeProofs`) | both caches hold the text so far, and attention shows all of it |
| `OwnBranches` (`SpecDecodeProofs`) | each drafted entry comes from the text and its own branch alone |
| `LosslessDecoding` (`SpecDecodeProofs`) | speculative decoding implements `Decode`: every token is sampled from exactly the text before it |
| `TypesCorrect` (`SpecDecodeProofs`) | type correctness of `SpecDecode` |
| `BarrierTypes`, `BarrierKeepsTogether` (`ForwardPassProofs`) | nobody returns from the n-th wait before all have called it n times, for any finite number of threads and rounds |
| `PoolImplementsForkJoin` (`ThreadPoolProofs`) | where a relaxed load acquires, `run` returns when every worker has executed its task exactly once, for any number of workers, calls and barriers in a task |
| `PoolTypes`, `TaskOutlivesWork`, `PhasesNeverMix` (`ThreadPoolProofs`) | under the same assumption, the task does not change while it is executed, and the phases of a task stay together |
| `ProductsMeet`, `ConversionIsOver` (`ForwardPassProofs`) | in every product all threads meet, and nobody multiplies before all activations are converted |
| `ElementsOnce` (`ForwardPassProofs`) | every element of a product is computed by exactly one thread and none is left, for any shape, chunk sizes and number of threads, when `RowsPerDot = 1` |
| `PassImplementsMulMat` and its corollaries `PassKeepsTogether`, `PassConvertsBeforeUse`, `PassComputesElementsOnce` (`ForwardPassProofs`) | a forward pass does with its products what `MulMat` allows, so all of this holds of whole passes of any model |
| `ForwardPassTypes` (`ForwardPassProofs`) | type correctness of `ForwardPass`: threads are in a product only in a `MAT_MUL`, and have done parts only of the operator that runs |
| `ConversionsFit` (`ForwardPassProofs`) | the activations that a product converts fit into the work buffer, whatever `plan` has forgotten |
| `ShortTextsFit` (`ForwardPassProofs`) | with texts short enough for the buffer (`AreasSmall`) no thread leaves its area of it |
| `OperatorsComputeRight` (`ForwardPassProofs`) | every operator of the graph reads only what is there and right, and computes all of its output, for models of any size and any batches, when `RowsPerDot = 1` |
| `CacheIsComplete` (`ForwardPassProofs`) | the cache has the keys and values of every layer for every position passed, when `RowsPerDot = 1` |
| `ResultsOfOwnText` (`CausalLMProofs`) | each row that `forward` delivers comes from the text, or the branch, of its own token, for any chunks and sizes of graphs |
| `CachesHoldText` (`CausalLMProofs`) | between calls, failed ones included, the caches and masks of all chunks are those of the text |
| `BackendImplementsStore` (`CausalLMProofs`) | the backend implements `CacheStore`, the single cache of the decoders |
| `PassTypes` (`CausalLMProofs`) | type correctness of `CausalLM`: there is a row of the rope embedding for every position |
| `JoinNeverDeadlocks` (`ServerProofs`) | whoever joins a session's thread holds the lock, and that thread does not need it any more |
| `RegistryIsConsistent` (`ServerProofs`) | between two holders of the lock, contexts have their models and models their backends |
| `StreamAnswers` (`ServerProofs`) | what a stream has told when it ends is the answer in one piece, or a beginning of it with whole characters when an exception ended it |
| `ServerTypes` (`ServerProofs`) | type correctness of `Server`: only what exists is loaded, only what was asked for is kept |
| `GenerationsStayApart` (`ServerProofs`) | in `LocalServer`, unless a session was left behind, no generation loses its context or its cache to another |
| `LocalStreamAnswers` (`ServerProofs`) | the same as `StreamAnswers` in `LocalServer`, for a stream that ends |
| `LocalRunsOneTask` (`ServerProofs`) | in `LocalServer`, unless a session was left behind, no thread pool is given a second task |
| `CacheAlwaysFollows` (`TokenIteratorProofs`) | with plain decoding the cache holds the text so far, for any batch sizes of the iterator and of the NPU, on both backends |
| `DecodingIsFaithful` (`TokenIteratorProofs`) | plain decoding implements `Decode` too |
| `IteratorTypes` (`TokenIteratorProofs`) | type correctness of `TokenIterator`, and that whatever is evaluated has a thread pool |
| `NpuNeverOverruns` (`TokenIteratorProofs`) | on the NPU nothing is written past the end of the cache, whatever is asked for |
| `FittingRequestsStayInside` (`TokenIteratorProofs`) | nor on the CPU, when each prompt, with what may be generated for it, fits into the cache (`RequestsFit`) |
| `EosStaysIgnored` (`TokenIteratorProofs`) | no sampler that ignores the end of the text lets it through |

*Caches.* `NothingOpenPastPosition` is not inductive: a rollback by more than was
saved would break it. The invariant `IInv` adds that each cache is `Sound` and
that the draft cache is at least `nSaved` entries past the system prompt while a
round drafts. `KVCacheProofs` has one lemma per method of the cache, each saying
when the method keeps a cache sound; the step proof goes through the actions and
cites them. Contents play no part, so a forward pass is opaque.

*Order.* Sequences only: `OrderInv` adds what each place in the code knows about
`tokens` and `queue` (not empty in `serve`, exactly one token during a round),
and each step moves the border between two parts of one concatenation.

*Assertions.* That none fails is a statement about the tree. `AbortInv` says that a
node comes after its parent, which has been evaluated, and stands one position further
(`Parented`); that a node lies in the draft's cache at or behind the place it will be
accepted to, so that the `move` of `verify` never goes upwards (`DraftedAhead`); and that the
candidates in the heaps wait for evaluated nodes. `Positions` says that both caches stand
at the same position between rounds, also after a round whose draft broke off, and a
generation that failed leaves behind at least the system prompt.

*Speculation is lossless.* `TextInv` says what the caches hold in each phase.
Up to `Held` the entries of each cache are the beginnings of the text, one each and shown
to attention. While the tree grows (`OwnBranch`), an evaluated node's entry is that of its
parent with its own token added, and attention shows the text without its last token and the
branch in hand (`BranchShown`); that needs the entries to lie behind the text, in the order of the nodes
(`BehindText`, `Ordered`), or one would hide another. The target's pass over the tree gives every
node the text of its branch, the root the text so far (`Walked`), and each node `verify` accepts makes that the text: what
it hands to the sampler is exactly the text before the token, which is the step of
`Decode`. When a node is accepted its entry has to be in the draft's cache at the next
position, moved there or evaluated anew, without touching the entries of nodes that
may be accepted after it (`DraftedInCache`, `Ordered`).

*Recursion.* A forward pass (`Forward`, over the tokens of a batch) and a branch (`Branches`, over
parents) are recursive functions, and the lemmas about what they compute are inductions. They are proved by the least
counterexample: the set of tokens for which the claim fails is a set of natural
numbers, if it is not empty it has a least element (`LeastElement`, from the library's theorem on
well-founded relations), and the recursion unfolded once there contradicts it. These lemmas are
in `KVCacheProofs`, and both decoders use them. The same is done with `FlattenSeq`, which
puts the layers of a graph together, and `Plan` in `ForwardPassProofs`, and with the batches, the
way to a token and the rows a chunk computes in `CausalLMProofs` (`SplitTable`, `PathTable`, `AttendedTable`).

*Plain decoding.* `IteratorInv` says that the cache always holds the text up to its position
(`CacheHolds`), also where a generation was broken off, so that what the constructor leaves of it is
the system prompt. During the prefill the iterator keeps a position of its own, which
moves once per batch of `batch_size` tokens, while the NPU may cut that batch again. `PrefillInv` says
that the place computed from it is the position of the cache (`position + InBatch`);
`CountOn` is the arithmetic on `prefilled % BatchSize` behind it. From then on one token
waits, the last of the text (`ServeInv`). The CPU, which computes the place of an entry from the batch
and sees every entry before it, and the NPU, which writes at `position` and sees what the bias
leaves open, then do the same (`EvaluatedAppends`, `PassEntries`). A cache that overruns ends in
`undefined`, which the invariant lets through: `token_iterator_overrun` shows that it happens.

*Room in the cache.* That it does not happen to requests that fit is an invariant of its own, on top of `IteratorInv`:
`StepsInv` says that what is left to generate and what has been generated are together not
more than `MaxSteps`. With the place of the cache from `PrefillInv` and `ServeInv` a batch, or a
token, that is about to be evaluated then has room (`BatchHasRoom`, `TokenHasRoom`). What earlier
generations have left does not matter, the constructor truncates it. On the NPU the assertion comes
before the write, and nothing has to be assumed.

*Barrier.* The invariant counts: with `W` threads, `count` is the sum of the
tickets, `target` of a waiting thread is the end of the round of its ticket, and
all threads have taken as many tickets as full rounds or one more. The proof
needs no sum: it keeps the set of threads that have arrived in the current round
and its cardinality.

*Pool.* That the barriers keep threads together says nothing of a task until one
knows which round each thread is in. `PoolInv` says it for every place in the
code: with `calls` calls behind it main has entered the run barrier `2 * calls` times
when it is idle, one less while the task runs; a worker that has executed `k`
tasks has entered it `2k` times, and `2k + 1` times while it executes the next. A
worker that has returned `2k + 1` times can, by the invariant of the barrier, only
meet a main that is between the two passages of call `k + 1`
(`WhileExecuting`, `WhileReading`) or in the destructor: the parity excludes every other place, so what
it reads is the task of that call or nothing. When main returns from its second
passage every worker has entered as often, which makes all of them done
(`MainImplements`). `SyncTurn` counts the barriers inside tasks the same way,
`Syncs` for each task. `LoadsAcquire` is needed in one place, `ReadTaskInvariant`: without it a worker may read an older
task, which the run `thread_pool_relaxed` shows. The destructor may hang
(`thread_pool_destructor`), and the invariant holds all the same.

*Products.* `BarrierInv` adds to the invariant of the barrier that every product is
a round of it: a thread's numbers of calls and returns are those of the first
product plus one where its place says so. A thread behind the barrier has returned
once more than before, so all threads have come to it, and whoever has come
has converted its columns, those congruent to its number. For the chunks,
`Claimed(p)` is what thread `p` has computed or has in hand, or its own number
before it has begun. Claims of two threads never meet (`ClaimsApart`): they are
own numbers or lie between the number of threads and the counter, and
`fetch_add` hands out the counter itself. Everything below the counter is claimed by
somebody, and a thread that is done has met a number past the last chunk, or there are no
more chunks than threads; so when all are done all chunks are computed
(`AllTaken`). That chunks do not overlap and cover the result is arithmetic on
quotients and remainders (`PartsDisjoint`, `PartsCover`, `ChunkPlace`, `PlaceChunk`). The
assumption `RowsPerDot = 1` is used in nothing but that arithmetic.

*Forward pass.* `PassInv` ties the places of the threads to the graph that runs. Of the graph
it keeps one fact, `Flow(b, s, have, got)`: each operator of `s` needs only what was there
(`have`) or what an operator before it has given, and at the end there is `got`. `Gives` of a copy into the cache are the
entries of the batch in its layer's half (`k_stored`, `v_stored`), which is what the scores need, although the graph has no
edge between them. Flows are joined (`FlowJoins`), so there is one lemma
per part of `ModelGraph` (`HeadFlow`, `StoreFlow`, `ScoresFlow`, `FeedForwardFlow`, `LayerFlow`), and one for
all layers (`LayersFlow`). `KernelInv` and `ProductInv` say that parts are done, and units written, only of the
operator that runs, by the threads that are through. `RightInv` adds that whatever an operator behind `next` has given is right
(`MadeRight`) or, if it is an entry, cached. An operator is complete when all threads are through (`KernelComplete`: blocks
and rows in turn cover the units; for a product `EveryElementOnce`), so the next one finds what it needs, and
at the end of the pass the entries of all layers are there for `advance`.

*Work buffer.* `plan` is followed along the graph (`Planned`): behind the last operator that makes it
forget comes the feed forward network of the last layer, whose products need as much as any
(`PlanCovers`); the buffer is set up for that before the pass (`PlanFits`, `GraphInv`) and never shrinks.
That covers all conversions. The areas of the softmax and of the rotation it covers only as
long as texts are short. `AreaInv` says that the buffer has what the
last network asked for (`Asked`) and a gap per thread, and `AreasSmall` that this is enough for the longest text. It
is not enough in `work_buffer`.

*NPU backend.* The buffers are shared by graphs of several sizes and keep what other batches have left, so
the invariant speaks only of `Rows`, those of the batch at hand: the others may hold anything. `RowInv`
follows them from chunk to chunk: the mask of row `u` shows the batch's tokens that `u` descends from
(`Sees`), the input of every chunk up to `stage` is the text of the row, and so is what those chunks have computed. That
a chunk passes this on is `Attended`, solved row by row: a row's text without its last token is that of its
parent, a row before it that sees the same but for `u` itself, or the text in the cache (`FollowsRow`, `FollowsText`).
`CallInv` says that the batches which are left continue the text (`Consecutive`), `ResultInv` how long the result is, `HoldInv`
that the caches of all chunks hold the text with every row's mask at `position`, and `LoadInv` the same of the
chunks loaded so far. For `BackendImplementsStore` the caches of the chunks are read as one record
(`StoredIs`), and `Forward` of `KVCache` on that record computes, row by row, what the chunks did (`StoreForwardIs`); a batch kept is
the step of `CacheStore`, everything before it a stutter.

*Server.* `JoinIsSafe` is about two threads and a queue between them. What makes
it true is that a chunk with a stop reason is the last thing a session's thread
puts into the queue, after its last use of the lock: `ThreadsInStep` says that
the queue of a thread that is not yet `closing` holds no stop reason. That the
joining thread is the holder is `LockHeld`, and `RegistryInv` says what
the registry looks like in the middle of loading too, and under a thread that spins
there between destroying the backends and clearing the maps: it keeps the lock
for ever, so nobody finds the registry like that (`BackendsKept`, `SpinStep`).

*Streams.* A stream is right because nothing is lost between three places: what the client has,
what waits in the queue, and the buffer. `Told` is the first two together. While the generation goes
on (`Underway`), `Told` followed by the buffer is the text, `Told` ends with a whole character, and
the buffer is empty or ends in the middle of one. Then what `remove_incomplete_utf8_char` cuts off the
buffer is what it cuts off the whole text (`RemoveBehind`), and the last chunk completes the
answer (`FinishEnds`); without it, after an exception, `Told` is a beginning of the text (`ExceptionEnds`).
From then on (`Ending`) the last chunk of the queue, and no other, has a stop reason, so the client that fetches one in a merged
result has fetched everything (`FetchLast`, `Ended`). Behind this are two groups of lemmas. That
whole characters behind whole characters are whole (`WholeConcat`) and that a text ends with one
cut character at most (`CutOffUnique`) is arithmetic on positions from the end. That merging chunks
loses nothing (`TextsSplit`) is an induction over `FlattenSeq` of the community modules, by the least counterexample as
above.

*Local server.* Its steps are those of `Server`, some that change nothing of it, and `DumpCaught`
(`LocalSteps`), so the invariants of `Server` hold there too (`LocalServerInv`). That
generations do not meet is not inductive: it needs that the worker's request is the only one
that is served and the only one with a thread that generates, that a stream which is served has its session,
and that a generation with tokens left owns its caches (`OneServed`). All of this is lost once a session is left
behind, and a session that was left behind stays (`LeftBehindStays`). A second task needs a request that decodes
while another is in a forward pass (`AbortsOnlyBusy`), which `OneServed` excludes.

*End of the text.* Each sampler only takes candidates away and rules out what was
ruled out before (`Narrows`), so what `RepeatPenalty` rules out first is not
among those `Stochastic` chooses from. The invariant `EosInv` adds that an
iterator that is asked for a token has one to evaluate.

The assumptions are those named in the modules (`SpecAssumption`,
`ThreadsAssumption`, `PoolAssumption`, `MulMatAssumption`, `ModelAssumption`, `PassAssumption`,
`ServerAssumption`, `IteratorAssumption`, `SamplerAssumption`), as weak as the code allows, which TLC evaluates in the runs.

Only model-checked is liveness: `GenerationEnds` of both decoders, `PassEnds`, `RunReturns`,
`EveryRequestAnswered` and `EveryWaiterWakes`. All invariants, action properties and refinements of the runs that pass
are proved. The companions of the findings have a condition, and the
runs with a violation show what happens without it: `AreasSmall`, `RequestsFit`, `LeftBehind = {}`,
`LoadsAcquire`.

## Not modelled

The tokenizer (a wrapper of a vendored library), the arithmetic of the numeric kernels and the vendor
library of the NPU, configuration and command line,
logging and tracing: no state whose order matters. `FileLoader` is used once
per file, on one thread, before anything else: `get_buffer` is called once and the loader kept or dropped
(`backend/qnn/qnn.cpp:413`, `backend/qnn/graph_interface.cpp:233`), so no order of calls
differs from another. Of the images of internvl little is left besides pixels; what there is, two lists and the
offsets in them, is listed under the hazards. Most of
the lines of the repository are the vendored GGML with backends PowerServe
does not build (CUDA, Vulkan, SYCL, CANN, Metal) and tables of the tokenizer: of those only the
functions that PowerServe calls for a forward pass are modelled. Of the server,
`destroy_model`, which nothing calls (and which looks models up by name while they
are filed by path), and the two waits of `SimpleServer` are left out.
