# A verification project for llm_infer

TLA+ models of the parts of `llm_infer` whose correctness depends on order,
concurrency or long sequences of calls; TLC configurations that check them on
small instances; and proofs that TLAPS checks for every instance.

Modules are checked from this directory: `tlc -config <run>.cfg <module>`,
`tlapm <module>.tla` for the eight modules of section 4. `PROJECT.json` lists the runs, the source lines
behind every definition, the mutations each property detects, the hazards of the
code and the findings.

## 1. The system

`llm_infer` runs GGUF language models on a CPU, on an Android GPU, or with its
matrix-vector products on a simulated processing-in-memory (PIM) device. All
paths are relative to `src/`.

| Component | Source | State | Operations | Properties that make it correct |
|---|---|---|---|---|
| Fork-join pool, PIM simulator | `pim_func/src/pool.cpp` | job (fn, ctx, n), `generation`, `remaining`, `stop`, `nth`, one condition variable per worker; `seen` in each worker | set_threads, n_threads, run, shutdown; worker loop | each share once, by its own thread; `ctx` alive; no lost wakeup; run and shutdown return |
| Fork-join pool, host backends | `c/backends/host/*/*/pool.c` | the same, without restart | the same; shutdown at exit | the same |
| Hybrid mailbox | `pim_func/src/hybrid.cpp` | a header in shared memory: `gemv_seq/done`, `isr_seq/done`, `stop`, fields of the job, commands, region table | submit, request_stop, MAC worker loop, guest loop, start and stop of the worker | each side works on the job that is submitted; the client gets that job's answer; every job is answered; calls return |
| Arena set-up | `pim_func/src/hybrid.cpp` | segment, mapping, `magic`, `a_ready`, `b_ready` | create_server, attach_client, guest_attach | a client attaches to the live server or reports failure |
| Weights in banks | `pim_func/src/{c_api,mem,device,layout}.cpp` | intern table, `next_row`, dense regions, row index, sparse store, arena bump pointer | intern, invalidate, prepare, adopt, shutdown | rows are disjoint; what is read is what was last prepared |
| PIM device | `pim_func/src/{device,isa,gb,pu,mac_simd}.cpp` | GPRs, global buffer, accumulators | WR_GB, WR_BIAS, MAC_ABK, RD_MAC, EOC | a plan computes the product |
| Planner, GEMV, PIM backend | `c/backends/pim/` | none / per-call buffers | plan_linear, pim_backend_gemv, linear | every output row computed once; fallback to the CPU |
| Retire hook, MMIO mailbox | `pim_func/src/hook.cpp`, `guest_mmio.h` | the weight being interned, copy request | begin, push, request copy, complete | the weight loaded is the one begun |
| KV cache, forward pass | `c/cache.c`, `c/model.c`, `c/gdn.c`, `attn.c` | K and V per position, recurrent state, `n_seq` | forward, reset | logits are those of the text and nothing else |
| Chat program | `c/chat.c`, `c/generate.c` | history, `cached_ids` | a line, `/reset`, `/exit`, next token | reuse of the cache is invisible |
| Batch generation | `c/generate.c` | one row per prompt, `done` | prefill, step | rows are independent |
| GPU backend | `c/backends/host/android/gpu/` | host and device copy of each buffer, dirty flags, recorded commands | intern, host_read, host_write, record, submit; the operations of a forward | every operation reads what the program wrote last |
| Tokenizer | `c/tokenizer.c`, `unicode.c`, `heap.c` | vocabulary, merge heap, stream decoder | encode, decode, push | the heap's merges are those of the plain algorithm; no byte is lost; streaming shows what decoding would |
| Containers | `c/hashmap.c`, `heap.c`, `util.c` | slots | put, get, grow | a map |
| Loader, weights | `c/gguf.c`, `model.c`, `quant.c` | mapped file, entries, views and copies of tensors, bound layers, interned sizes | open, load, bind, intern, free | what is loaded is what the file holds; every object freed once |
| Sampler | `c/sampler.c` | random state | sample | a token of the cut set |
| Host kernels | `c/backends/host/*/*/tensor.c`, `weight.c` | none | linear, linear_rows, linear_rows_add | every output once, by one thread |
| Python twin, generated data | see `PROJECT.json` | | | |

Interactions. The chat and batch programs call the forward pass, which calls a
backend's kernels. Host kernels split a product over the pool. The PIM backend
prepares the weight's banks and either executes the planned commands on its own
device, or splits waves over the pool, or, in the hybrid mode, hands the product
to the mailbox; there process B computes `y` with its own pool from the regions
that process A placed in the arena, while the guest inside gem5 issues the
commands for their timing.

What is hard: condition variables and futexes; a second life of the pool; a job
header that three parties read without a lock; sequence numbers that wrap;
weights whose place outlives the call that placed them; regions that overlap
though the rows used do not; a cache that is trusted because its bookkeeping
says so; rows of a batch that end at different times. The complete list, each at
its line, is under `hazards`.

## 2. Modules

| Module | Models | Used by |
|---|---|---|
| `ForkJoin` | abstract: a run is open, each share is executed once, then the run ends | refined by `ForkJoinPool` |
| `ForkJoinPool` | `pool.cpp` and its twins | `ForkJoinPool_proofs` |
| `ForkJoinPool_proofs` | the proofs | |
| `RemoteGemv` | abstract: a call is open, `y` is computed once, its commands are issued once and in order, it closes | refined by `HybridMailbox` |
| `HybridMailbox` | the shared header and its four parties | `HybridMailbox_proofs` |
| `HybridMailbox_proofs` | the proofs | |
| `PimBanks`, `MCPimBanks` | intern table, row allocator, regions, sparse store, arena, adoption | `PimBanks_proofs` |
| `PimBanks_proofs` | the proofs | |
| `KvForward` | a row of the cache and of the logits | `ChatSession`, `BatchGenerate` |
| `ChatSession` | `chat.c` | `Inference` |
| `BatchGenerate` | `generate_batch` | `Inference` |
| `LoadModel` | the model file from `open_gguf` to `loaded_model_free` | `Inference` |
| `Inference`, `MCInference` | one process, which is one of the programs | `Inference_proofs` |
| `Inference_proofs` | the proofs: what a row of the cache holds, who owns what on the heap, that a file is read as it was written | |
| `LoopTheorems` | lemmas: induction over and recursion along the rounds of a loop, over `0 .. N` or over a set of numbers; division into rows, lists | `PimBanks_proofs`, `Inference_proofs`, `PimDevice_proofs`, `Backends_proofs` |
| `HostLinear` | the host kernels: who computes which cells, in which blocks and strips | `LinearOps` |
| `PimDevice` | commands on registers, global buffer, accumulators, banks; fast paths and micro steps | `LinearOps` |
| `PimDevice_proofs` | lemmas: a fast path does what the steps do | `Backends_proofs` |
| `LinearOps` | one product on every path: PIM in three issue modes, waves over threads, host kernels | `Backends` |
| `GpuBuffers` | buffer table, command buffer, uploads and submits of the Vulkan runtime | `GpuForward` |
| `GpuForward` | the operations of a forward pass with what they read, write and announce | `Backends` |
| `Backends`, `MCBackends` | one build, which has one of the backends | `Backends_proofs` |
| `Backends_proofs` | the proofs: who writes which cells, which commands are issued; lemmas about strips, blocks and sums | `Products_proofs` |
| `Products_proofs` | the proofs: every path computes the product | |
| `Utf8`, `Pretokenize` | characters and their classes; the three scanners, and the regular expressions they stand for | `Tokenizer` |
| `MinHeap`, `OpenHash` | the merge heap; the hash map with probing and growth | `Tokenizer` |
| `Tokenizer`, `MCTokenizer` | a tokenizer from the tables of a file: encode, decode, stream | |

In every component module the definitions whose comment begins with "Mutant:"
are the alternatives of the mutation runs; they are no part of `Next`.

### ForkJoinPool

All shared state is accessed under the mutex `mu`, so an action is one critical
section, or one call of `fn`. `pthread_cond_wait` is the state `"wait"`, entered
in one step together with the test of the predicate and left by a signal
(`Signal`) or spuriously, back to the test. A worker is a pair of the start that
spawned it and its thread number, since workers of two starts can share a
number and a condition variable. `jobctx` is the number of the run whose `ctx`
it points to. `ensure_init` is `EnterStarted`/`EnterFresh`, `Spawn`, `Spawned`;
a failing `pthread_create` is `SpawnFallback` in `pool.cpp` and `SpawnDie` in
`pool.c`, selected by `Restartable`. One client thread is assumed: in the
repository no process calls the pool from two threads at once.

### HybridMailbox

The header's fields are volatile and unlocked, so each load or store of a
sequence number or of `stop` is an action; the order of the stores in
`pim_hybrid_submit` is kept. The plain fields and buffers of a job are
represented by the number of the job they belong to (`xJob`, `hdrJob`), which is
what stale reads are about. `FUTEX_WAIT` compares and sleeps atomically;
`Interrupt` is an early return. Sequence numbers are taken modulo `SeqMod`.
`pool_run` in the worker is one step: that is what the refinement of `ForkJoin`
justifies. `OneProcess` makes client and controller one thread, as in
`pim_func/tests/test_hybrid.cpp`.

### PimBanks

A row of one channel is the unit. Its content names the key, the version of the
host's weights and the group of output rows, so that a stale or misplaced row is
told from the right one. `Load` is `load_weights_f32` with the regions it makes
or reuses (`EnsureDense`; `EnsureAll` is its loop over the channels), their order in the row index (`RegionFor`: the latest
that covers a row), and the sparse store for rows without a region. A region has
a row per *group* although the groups are dealt to the channels, so regions
reach over later ones; `RowsDisjoint` is what makes this harmless and confirms
the comment in `mem.h` that rows are unique.

### KvForward, ChatSession, BatchGenerate, Inference

Numbers are abstracted to the text they were computed from: an entry of the
K/V cache is the sequence of tokens its hidden state attended to, the recurrent
state the sequence it absorbed. Old entries stay in place after a reset, as in
`kvcache_reset`. An entry that does not continue those below it was computed
from another text; what attends to it is `Mixed`, which no property accepts.
`Encode` is the chat template followed by the tokenizer; `Retok` is what the
tokenizer makes of a text whose tokens were sampled one by one, which may be
other tokens. A sampled token may be any token of `Vocab`, which the model has;
`Unknown` are the tokens of the tokenizer from `hp->n_vocab` on, which
`llama_model_forward` dies of (a file may give a `vocab_size` below the length of
its table of tokens). The limit of `generate_next` is `Reached`, which `Sample` and
`Enough` both ask, and that of the loop of `generate_batch` is `MoreSteps`.
`TurnEnds` and `BatchEnds` say how a reply may end: with at most `MaxTokens` tokens,
and dead only when it has outgrown the cache or, of a batch, when a prompt has an
unknown token. A limit that is lost or too loose ends in a death or in a reply that
neither allows. The branch of
`chat.c` for a line with nothing left to feed (`new = <<>>` in `Say`) is in the
model but not reached: an encoded conversation ends in the head of the reply,
which the cache never holds at that place. `Inference` is a process that is
one of the programs.

### LoadModel

A file is the set of fields of the GGUF format, each with its place, its width
and its value. Reading as many bytes as a field has, from its place, gives the
value; anything else makes `whole` false for ever. So a reader that skips a byte,
takes a length for a value or aligns wrongly is found, without a byte being
written down. The heap is a set of objects; `Free` notes when it is asked for one
that is not there. Names are pairs (layer, role), and a weight is the place of its
data and a number of elements. The files of `MCInference` are one of each
architecture (with own alignment, biases, tied embeddings, a matrix whose rows do
not fit its blocks and is dequantised, the layer that no forward uses) and eight
that the loader refuses, one of them for a tensor of more than `IntMax` elements
(18 here, `INT_MAX` in the code). An array of floats keeps the low half of each double
(`gguf.c:118` copies from the union, against `gguf.h:51`, "packed array of the
element type"); nothing reads one, and `LoadedIsFile` excepts them.

### LinearOps, HostLinear, PimDevice

A product is computed with integers in place of floats, so a sum is right
whatever its order; rounding is not modelled. One action is one call of the code
up to the point where another thread or the simulator can act: a thread of
`pool_run` loads a cell and stores it in two actions, a micro command retires in
any order. Registers, global buffer, accumulators, banks and arena are never
cleared between calls unless the code does. `ProductRight` compares with a
product defined from `W` and `x` alone. The strips of the SIMD kernels are their
widths; what a vector instruction does with its lanes is the sum over them.

### GpuBuffers, GpuForward

Memory is cut in rows of `n_embd`, and a value is the operation that wrote it.
Beside the program's two copies of every buffer the model keeps the memory that a
machine with one copy would have; an operation that reads anything else is
`wrong`. An operation says which cells it reads and writes, whether it is recorded
or runs at once, and which `host_read` and `host_write` surround it in the code.
`Dispatch` records; uploads act at once; `Submit` executes what is recorded when
the sets are used up, at a `host_read` that needs it, or at the end. Buffers are
freed and allocated when the context grows, while the table keeps entries of
what was freed: `Policies` are the ways malloc may answer (first freed, last
freed, never the same).

### Tokenizer

Texts are bytes, pieces of the vocabulary code points. `Merge` is one turn of the
loop over the heap, which holds stale items; `BpeIsGreedy` compares with byte-pair
encoding as it is defined. The scanners of `Pretokenize` are those of the code, and
`RegexWords` the regular expressions of the models they were written from. The hash
of `OpenHash` is any function (`MCHash` has three values, so that most names
collide); a string map is a function. Texts given to `encode` are valid UTF-8 and
have no NUL, as C strings from the terminal and the template are; sampled tokens
may be any, so decoding meets every broken sequence.

## 3. Runs

| Run | Result | States | Shows |
|---|---|---|---|
| `pool_pim` | pass | 12,382 | 3 threads, two starts of which the last may fail to spawn, 2 jobs: type, `CtxAlive`, `RemainingExact`, `NoLostWakeup`, `ExactlyOnce`, refinement of `ForkJoin`, `RunReturns`, `ShutdownReturns` |
| `pool_host` | pass | 40,158 | 4 threads, one start that may fail, 3 jobs, shutdown at exit: `ExactlyOnce`, and no deadlock |
| `pool_respawn` | violation | | `ExactlyOnce` when a start that failed is followed by another |
| `mailbox_gem5` | pass | 156,256 | three jobs with and without dropped commands, sequence numbers modulo 3, two lives of the worker, guest, stop from either side: the windows in which worker and guest read, refinement of `RemoteGemv`, every job answered, the guest stops |
| `mailbox_submit` | violation | | a submit sleeps for ever after its answer |
| `mailbox_stop` | violation | | stopping the worker waits for ever |
| `banks` | pass | 11,822 | two weights, shapes 3x2 and 6x1 (same size, different factoring), 2 channels, 6 rows, any order of calls: `RowsDisjoint`, `ClientReads`, `WorkerReads` |
| `banks_arena` | violation | | `Placed` when the arena is full |
| `inference` | pass | 13,431 | chats of two turns, a reset, two turns; batches of two prompts of lengths 1, 2, 3 and 16; thirteen model files: `ChatContext`, `CachedIds`, `DiesOnlyWhenFull`, `RowsIndependent`, `LoadedIsFile`, `OwnedOnce`, `TurnEnds`, `BatchEnds` |
| `text` | pass | 314,784 | all texts up to 6 bytes over two letters for three tables of merges, up to 4 characters for the scanners, up to 6 for special tokens, replies of 4 tokens: `BpeIsGreedy`, `WordsMatch`, `TextKept`, `StreamIsDecode` |
| `backends` | pass | 90,848 | seven matrices on every backend, two products in a row; fifteen models and three requests on the Vulkan backend: `ProductRight`, `OneWriter`, `FastIsScalar`, `KernelsReadRight`, `LogitsRight` |
| `backends_mixed` | violation | | `KernelsReadRight` for a gated layer with q quantised, k and v not |

Bounds, and why they are enough.

- Pool: three threads give a job with all workers, one that leaves a worker out,
  and an inline one; two jobs give a late worker of the first in the second; two
  starts give stale workers; arguments run from 0 to one above the cap.
- Mailbox: `SeqMod = 3` wraps within three jobs and keeps the number of the
  current, the last and the next job apart, which is all that 2^32 does for
  parties that are at most one job behind. `CmdCounts = {1, 3}` with
  `MaxCmds = 2` has a job that fits and one that is cut.
- Banks: six rows are too few for all placements of the two weights, so that
  `pim_prepare` answers -2 in some behaviours; 40 units of arena are enough for
  all others, which `banks_arena` then takes away. Two channels suffice for
  regions that reach too far; `host_hw` has one and `gem5_hw` four.
- Inference: `MaxSeq = 17` holds a conversation of two turns with the longest
  replies of the first but not of both, so that the cache overflows in some
  behaviours. The vocabulary has a letter, a blank, `END`, a stop, and two
  letters that are one token when encoded again: replies that are stripped,
  encoded differently, or reused are all there. One line and one prompt have a token
  that the model lacks; one prompt leaves room in the cache for one token, so that
  a batch outgrows it. Stale entries need a reset,
  which `/reset` and a missed prefix both give.
- Files: at least one of each scalar type, each kind of array, each way a tensor
  is kept, each second name of a weight, and refusals at every stage of loading.
- Text: six letters are long enough for merges of merges, for pairs that compete
  and for items on the heap that go stale before they are popped; four characters
  hold every two neighbouring classes with something before and after. `MinCap = 4` in place of 64 makes the hash map
  grow within a vocabulary of ten.
- Products: two waves and a half-filled group on two channels, a padded burst,
  more columns than the global buffer holds or, where that is larger, than
  `pim_hybrid_submit` takes (`XMax = 6`; `YMax = 8` is not reached), and matrices just wider than each
  block and strip of the host kernels, which have their real sizes. A second
  product meets what the first left behind.
- Vulkan: two layers, of one kind or of both; prompts that make the buffers grow
  once and twice; a reset; a row that ends early. `MaxSets = 5` (1024 in the code)
  submits in the middle of a layer; `Cap = 120` (1024) is not reached. `Align = 1`:
  every row of `h` starts at a multiple of `minStorageBufferOffsetAlignment`. The
  path for other rows (`tensor.c:40`) is in the model; what it does is below.

`CHECK_DEADLOCK FALSE` stands in the runs of systems that may stop: a mailbox
that is stopped, banks whose bounds are used up, a program that ends. In the pool
runs deadlock is checked: a client that is outside every call may rest.

Fairness. `ForkJoinPool`, `HybridMailbox` and `Inference` assume weak fairness
for every thread's own steps: the operating system schedules a runnable thread
again and again, and `fn` and the products come to an end. Nothing is assumed of
the environment: no call of the client, no spurious wakeup, no interrupt of a
futex, no line of the user is ever owed. Weak fairness is enough as no action of
a thread is disabled and enabled for ever by others, except mutexes, which an
action hides: a fair mutex is assumed in that sense.

Findings. `pool_respawn`: `pool.cpp` falls back to one thread when a spawn fails
but leaks the workers it has, and a later start adds workers with the same
numbers. `mailbox_submit`: the value `futex_wait` compares with is read after
the test. `mailbox_stop`: `stop` is not the word the worker sleeps on.
`banks_arena`: the null of `ensure_dense` is ignored and `pim_prepare` reports
success. `backends_mixed`: `split_q_gate` writes a buffer that recorded commands
have yet to read. For the two of the mailbox, `mailbox_gem5` states the liveness
that remains (a job *is* answered, the guest *does* stop).

Beyond these, exploring `GpuForward` without the limits that `MCModels` and
`Policies` set shows kernels that read wrong values in four more cases,
which the passing run leaves out and which are worth knowing: with `gate`
quantised and `down` not, `linear_rows_ex` finds the entry of another buffer that
contains its own, whose `live` length is older (`backend.h:59` promises a
re-upload); a gated delta layer whose `ssm_out` is float writes its row on the
device and `gdn.c:229` announces the host's old one; an allocator that merges
neighbouring free blocks may put a new buffer inside the entry of a freed one,
which `gpu_find_containing` then returns; and, with `Align = 2`, a row of `h` that
is not aligned is downloaded and given an entry of its own the first time
(`tensor.c:40`), but the next product on that row finds the entry, clean and with
an unchanged host copy, and reads the old row. The table also grows by about 15
entries per token when malloc never gives the same block twice, and ends the
program at 1024.

## 4. Proofs

Everything below is proved for every value of the constants that the assumptions
of the modules allow.

| Module | Theorem | States | Under |
|---|---|---|---|
| `ForkJoinPool_proofs` | `TypeCorrect` | `Spec => []TypeOK` | |
| | `Inductive` | `Spec => []IInv` | `NoRespawn` |
| | `CtxAliveAlways`, `RemainingAlwaysExact`, `NoWakeupLost`, `ExactlyOnceAlways` | the four safety properties | `NoRespawn` |
| | `Refinement` | `Spec => ImplementsForkJoin` | `NoRespawn` |
| `HybridMailbox_proofs` | `TypeCorrect` | `Spec => []TypeOK` | |
| | `WorkerWindow` | `Spec => []WorkerInWindow` | |
| | `Inductive` | `Spec => []IInv` | `JobsMatchGuest` |
| | `GuestWindow` | `Spec => []GuestInWindow` | `JobsMatchGuest` |
| | `Refinement` | `Spec => ImplementsRemoteGemv` | `JobsMatchGuest` |
| `PimBanks_proofs` | `Inductive` | `Spec => []IInv` | |
| | `TypeCorrect`, `DisjointRows` | `[]TypeOK`, `[]RowsDisjoint` | |
| | `ClientFinds`, `WorkerFinds` | `[]ClientReads`, `[]WorkerReads` | |
| `Inference_proofs` | `ChatInductive` | `Spec => []ChatInv` | `EncodesToTokens` |
| | `ChatType`, `CacheIsKnown` | `[]ChatTypeOK`, `[]CachedIds` | `EncodesToTokens` |
| | `SampledFromConversation` | `[]ChatContext` | `EncodesToTokens` |
| | `DeathIsOverflow` | `[]DiesOnlyWhenFull` | `EncodesToTokens` |
| | `RowsApart` | `Spec => []RowsIndependent` | |
| | `Ownership` | `Spec => []OwnedOnce` | |
| | `ReadsFile` | `Spec => []ReadRight` | `WellFormed` |
| | `LoadsFile` | `Spec /\ []VectorsFit => []LoadedIsFile` | `WellFormed` |
| `Backends_proofs` | `Shares` | `BuiltSpec => []LinearInv` | |
| | `WritersApart` | `BuiltSpec => []OneWriter` | |
| | `Commands` | `BuiltSpec => []DeviceInv` | |
| | `FastPaths` | `BuiltSpec => []FastIsScalar` | |
| `Products_proofs` | `Results` | `BuiltSpec => []ResultInv` | |
| | `Products` | `BuiltSpec => []ProductRight` | |
| | `TypeCorrect` | `BuiltSpec => []LinearTypeOK` | |
| | `BuildTypes` | `BuiltSpec => [](built = "linear" => BuiltTypeOK)` | |

The hypotheses:

- `NoRespawn`: no start of the pool follows one whose spawn failed, which is always
  so for the host backends. It is needed: `pool_respawn` is the counterexample
  without it.
- `JobsMatchGuest`: with a guest, every job has commands for it; without one, none
  has. The backend submits that way (the plan of a product has at least one wave),
  and so does `test_hybrid.cpp`, where there is no guest. It is needed: with a job of
  no commands `pim_hybrid_submit` does not wait for the guest (hazard at
  `hybrid.cpp:411`).
- `EncodesToTokens`: `Retok` returns a sequence, of whatever elements. It is all
  that is assumed of the tokenizer.
- `WellFormed`: every file is one that the format can express: entries and tensors are
  lists, an entry has a number, a string or an array of these (of an array of arrays,
  which `gguf.c` dies of, nothing follows its head), lengths are numbers, and the
  alignment that the writer used is the one the entries give, or 32. `gguf.c` believes
  all of it. Which entries there are, what they say, and the number, names, types, sizes
  and offsets of the tensors are free.
- `VectorsFit`: once layers are bound there is a number of them, and a vector
  has as many floats as the hyperparameters give it. `llama_model_init` tells the
  backend `intern_w(..., n_embd)` and the like without a look at the tensor
  (`model.c`), so the part of `LoadedIsFile` about what the backend is told needs it; all
  the rest, `ReadRight`, does not. The twelve files of the run satisfy both hypotheses.

### The pool

The properties are not inductive: that `remaining` is exact says
nothing of which worker has looked at the job. `IInv` adds

- `SpawnInv`: which threads exist, and that those of earlier starts are gone;
- `JobInv`: a worker that has seen the latest generation has copied the latest
  job (`SeenInv`); one that executes `fn` has the client's job (`BusyInv`); the
  client's job is the published one (`WidthInv`); `remaining` is the number of
  workers that owe a share, and outside a job nobody owes any (`CountInv`);
- `CallInv`: `fn` was called for `t` once, iff the client or worker `t` has got
  that far;
- `WakeInv`: which workers may be asleep.

Each part has a lemma (`SpawnStep`, `SeenStep`, `BusyStep`, `WidthStep`,
`CountStep`, `CallStep`, `SleepersStep`, `ClientWakeStep`) that has one case per
action. `CountStep` is the long one: it follows the set `Owing` through every
step and uses the cardinality theorems. `StepRefines` maps each step to a step of
`ForkJoin` or a stutter.

### The mailbox

That the worker is at no job but the open one rests on three facts about the
sequence numbers: what the worker has seen is what it has answered unless it is
at a job (`SeenInv`); what is published and not answered is the job the client
waits for (`ClientInv`); the next number differs from the last also when it wraps
(`NextSeqType`), which is all that is needed of their width. `MacInv` counts the
computations of `y`, which the refinement needs. The guest has the same facts one step
later, since `isr_seq` is stored before `gemv_seq` (`GuestSeenInv`, `IssuedInv`);
they are disturbed by a submit that returns while the guest is still at the job,
which is what `JobsMatchGuest` excludes. Worker and client need no such thing:
`WorkerWindow` has no hypothesis.

### The banks

`RowsDisjoint` follows from `RowInv`: rows are given below `next_row`, and a
second interning of a matrix keeps them only if they are as many. What is
hard is `ClientReads`: reading looks for the *latest* region of the channel that
covers a row, while regions have a row per group and so reach over the rows
of later matrices. `HomeInv` says that the regions which begin after that of a
matrix begin above its end, so that the latest one that covers its rows is its
own; `RegionInv` that the client's regions are the last of the table, in its
order, and in different places; `ContentInv` that a region which is some matrix's
holds that matrix in its present version. The loop over the channels
(`EnsureAll`) and the store of the groups are followed round by round with
`LoopTheorems`. The worker's index is compared with the client's: it may have
earlier regions in addition, of a client that has gone, which never win.

### The chat and the batch

`HoldsText(row, t)` says that each entry of a row has
attended to the text `t` up to its place and to nothing else; entries above
`n_seq` are whatever they were. `ForwardText` shows that a forward of tokens that
fit makes a row of `t` a row of `t` and the tokens that count, `LogitsText` that its
logits are of that text, `ResetText` that a reset row holds the empty text although
its K and V are old. `ChatInv` then says which text it is at each point: at the
prompt the one in `cached_ids`, in a turn the encoded conversation and the reply.
`SayKeeps` is the step that can go wrong: after a hit the row holds a prefix of the
conversation and is fed the rest (`RestOfPrefix`), after a miss it is reset. That
the tokenizer may split a reply differently the next time makes no difference,
because `IsPrefix` compares tokens. `BatchInv` has a text for every row, and
`PaddedText` shows that of a padded prompt the tokens that count are the prompt.

### The model file

`HeapInv` of `Inference_proofs` gives the heap to the last object at each point from
`open_gguf` to `loaded_model_free`, in terms of what has been read (`Tables`), loaded
(`Copies`) and bound (`Bindings`) so far; that the owners have nothing in common
(`ModelApart`, `VocabularyApart`) makes freeing one leave the others whole. The last
free hands back the tables of weights and tensors whether or not there are any:
`OrderInv` says that there are, because a program that gets that far has bound
`token_embd` (`EmbeddingsFound`). Nothing is assumed of the file: what is read is
any number of entries and tensors, of any names, types and sizes, and the numbers
`llama_model_init` takes from it may be any.

`LoadsFile` compares with the bytes. A header is a list of lists of fields, and
`ListAt` says where each begins. First, fields do not overlap (`OneField`): two of them
begin at one place only if one is empty, and then their widths differ, so the field that a
read finds by its place and width is the one written there (`ReadField`). Then the
readers: of a string (`StringFields`), of the elements of an array, a round of
`FoldLeft` at a time (`ElemPlaces`), of an entry (`ReadAnEntry`), of a tensor
(`ReadTensor`). `FileInv` puts them together: while entries are read, the place in the
file is where the next list begins (`TablesBegun`), so `NextEntry` and `NextTensor` read
the right one; and once the table is read, `gg.data` is where the writer rounded up to, by
an alignment that is found in what has been read (`FoundTold`). `WeightInv` follows for
views and for copies.

### The shares of a product

`OneWriter` speaks of sums that are being added to `y`; `WorkInv` extends it to the
blocks a thread still has to do. A thread's cells only get fewer during a run,
so what has to be shown is that a run starts with the cells apart, for both kinds of
run. The host cuts the rows: `SlicesApart` is that rounding `nOut * t / n` down
keeps the order of the cuts, and `JobIn`, `QuantJobIn` that the blocks of
`linear_range`, `linear_rows_range` and `qlinear_job` stay in their slice, whatever the
block size of the kernel and the rest. The PIM backend deals out waves
(`WaveJobStarts`): an output has one group of banks, a group one wave and a wave one
thread (`RowAndPlace`, three times), with one channel as in `wave_job` or many as in
`mac_wave_fn`, also when the last wave has fewer groups and when there are more
threads than waves. What it needs of `LinearAssumption` is a thread, and a channel
that computes. What the shares are, and that nothing behind `y` is written, is
`ProductRight`.

### The commands

`FastIsScalar` compares two ways of executing a command: channel by channel with
whole bursts, and step by step, lane by lane, bank by bank, channel by channel,
column by column. `PimDevice_proofs` goes from the inside out. A bank's steps
add up to the dot product (`BankIsDot`), a channel's steps are the fast path of the
channel (`WrGbIsSteps`, `WrBiasIsSteps`, `MacAbkIsSteps`, `RdMacIsSteps`), a
command's on one column those of its channels (`MicroAgrees`), on all columns
`ExecuteAgrees`. The loops are nested the other way round for `MAC_ABK`, whose fast
path takes a channel's columns together: `MacAbkAgrees` shows that both orders leave
in every accumulator what it had and the sums of the columns of its own channel, because the
command writes nothing that it reads of another channel or column. Each step is for
any device of the right shape and a command that can be read one way (`OneReading`):
it names a channel, and `RD_MAC` a single one. Both are needed. With an empty mask
the steps go to channel 0 (`channels_of`) and the fast paths nowhere; with two
channels `RD_MAC` reads the lowest one fast and the highest one step by step. So it
remains to show that no other command is ever issued, and none to a device of
another shape: that is `DeviceInv`, for the plan (`PlanType`), for weights loaded by
this process or through the mailbox (`Completes`; the buffer has a place for each weight, and
the pushes fill it in order), for activations, and for micro commands that
retire in any order. `LinearAssumption` gives the shapes: as many registers, columns
and channels as one likes, and weights and activations for every output and input.

### The products

`ProductRight` says nothing until a product is returned, so it is as far from
inductive as can be. `ResultInv` says at each point what is there already:

- `RowsInv`: a matrix has as many rows of the banks as its outputs need, below
  `next_row`, and no two matrices share one; `WeightsInv`: a matrix that is not
  stale is in its rows, burst by burst, padded with zeros. Loading another matrix
  leaves it there (`RowsKept`), since the rows of two matrices are apart.
- `MailInv`: what the pushes have put into the buffer of the mailbox is the beginning
  of the matrix that was begun, so that the simulator loads that one and not the
  last.
- `OffloadInv`: a product that goes to the device is for one activation and of an
  operation the configuration offloads; its matrix is one the device can hold.
- `PoolRight`, while threads work: the blocks still to be done are those whose
  cells are not yet computed, a cell that is done has the product, a block that is
  held has the product and what `y` had, everything else is as before the call.
- `FireInv`, while commands are executed: where the plan is, and what the device
  then holds. `Firing(d, rem)` has a case for each kind of order
  (`AtBuffer`, `AtBias`, `AtMac`, `AtRead`, `AtEnd`), in which `rem` are the
  pairs of a channel and a column whose micro commands have not retired: they may
  in any order, and the accumulators hold the sums of the columns that have.

The arithmetic is in `Backends_proofs` and the first part of `Products_proofs`. A dot product in strips of any
widths that end in one of 1 is the dot product (`StripsAreDot`), so a host kernel's block is right whatever the
vector width. The columns of a row, padded, add up to it too (`RowDot`). For the
paths that are shared out, the slices tile the outputs, the blocks tile a slice and
the waves tile the groups: every cell is in one block (`BlocksRight`). For the
device, `PlanAt` gives the order at each place of a plan without following the
construction of the plan: the activation, then for each wave a bias, the products and one
read for each channel. After the read of the last channel of wave `w` the
registers have what `Unpack` puts at the outputs of wave `w`; after the last wave
that is all of `y`. The fast paths need no argument of their own: `FastIsScalar` is
proved before, and a product on a fast device is the product of the steps.

Two things had to be said for this. `ChannelAssumption`: the channels that compute
are listed upwards from 0, at most eight. `pim_channels` lists the bits of the mask
that way, and the masks are `0x1` (`c_api.cpp`, the host's hardware) and `0x0F`
(`hook.cpp`, the simulator's). It is needed: a product that is split over the pool
reads the activation back from the global buffer of channel 0, which `WR_GB` fills
only if the mask has that channel; and the test for a plan's registers
(`n_cols + 8 < gprs`) leaves eight for the channels' results. And the guard of `Call`: a
product has at least one output and one input. `pim_backend_gemv` returns -1
otherwise and the CPU computes an empty sum, which the model leaves out.

`LinearTypeOK` is then nearly there: `NumbersInv` adds that `y` and the arena
hold numbers also where no product was ever put. In a build with the Vulkan backend
the types of its tables are model-checked (`BuildTypes` says what is proved).

### Induction over data

The prover cannot use the library's induction theorems, which take an operator as a
parameter. `LoopTheorems` states induction over `0 .. N` with a set in place
of the operator, and the existence of the function that gives the states of a loop;
both rest on the library's theorem that `<` on the naturals is well-founded. The
loops of `PimBanks`, `FlattenSeq` in `Encode` and in the plans, and the loops of
the device are reasoned about in this way. The last are folds over a set of numbers
from the lowest up (`Each`), so their states are indexed by the set of the rounds that
are over (`EachRecursion`, `EachInduction`).

### Only model-checked

All liveness, which this prover does not reach (no fairness, no `ENABLED`).
Of `BuiltTypeOK`, the tables of the Vulkan backend: that the table of buffers is
not full is a matter of the instance, since a program that generates long enough
may fill it (section 3). `KernelsReadRight` and `LogitsRight` hold under the limits
of `MCModels` and `Policies` only, beyond which section 3 has four cases that break
them; an invariant that implies them would have to name these limits, model by
model. `Tokenizer`, which uses recursive operators: what they compute for every text
is induction over data.

## 5. Not modelled

Rounding: products are checked over integers, and attention, normalisation,
rotation, the delta rule, dequantisation and sampling are what they were computed
from. The element-wise kernels, which have no control. Setting the hybrid arena up:
the models start when both sides are attached (two hazards of it are listed). The
choice of a Vulkan device and its pipelines, and the shaders. The table of merges
prepared on the host, which gives what `index_merges_from_gguf` gives. The ISA's
opcodes that nothing issues. Options, output and logging. Generated tables and
build scripts. The Python twin: a second implementation for reading. Reordering of
plain stores by the processor in the mailbox: the code places release fences
before it stores a sequence number, and the models take loads and stores in
program order. 2^31 jobs of one pool, after which `generation` overflows. What
is planned is below.

## 6. Plan

The order was that of importance; done are 1 to 8.

1. `ForkJoin`, `ForkJoinPool`: the base of all parallel products; proofs.
2. `RemoteGemv`, `HybridMailbox`: the protocol between three programs.
3. `PimBanks`: weights of the client and of the worker.
4. `KvForward`, `ChatSession`, `BatchGenerate`, `Inference`: what is computed.
5. `HostLinear`, `PimDevice`, `LinearOps`: a product on every path.
6. `GpuBuffers`, `GpuForward`, `Backends`: copies of buffers, recorded commands.
7. `Utf8`, `Pretokenize`, `MinHeap`, `OpenHash`, `Tokenizer`: text to tokens and back.
8. `LoadModel`: what the file says, and who owns what.
9. `HybridAttach`: server, client and guest from start to a usable header, with a
   segment left by an earlier server.

Not done is `HybridAttach`, and of the theorems those that "Only model-checked" lists.
