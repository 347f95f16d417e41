# TLA+ models of Transformer Engine

Transformer Engine accelerates Transformer training and inference on NVIDIA
GPUs. Most of its lines are kernels and tensor plumbing, where a mistake shows
as a wrong number in a unit test. What such tests reach badly is the *state
between the calls*: global FP8 state that outlives a module call and is touched
again by recomputes in the middle of a backward, a KV cache whose pages and
rows pass from one sequence to another over many iterations, tensors copied to
the host and back under the feet of two streams, ranks that push chunks into
each other's memory, graphs that share buffers. This directory models that
state in TLA+, checks it with TLC on small instances and proves the
central facts for all instances with TLAPS. Paths below are relative to
`src/transformer_engine/` unless they start with `src/`.

## 1. Inventory

### 1.1 FP8 global state and delayed scaling (modelled in part)

`pytorch/quantization.py`, `pytorch/module/base.py`, `pytorch/module/linear.py`,
`common/recipe/delayed_scaling.cu`

* **State.** One `FP8GlobalState` per process: `fp8_enabled`,
  `is_first_fp8_module`, `autocast_depth`, the recipe, the global amax buffers
  (aliases of row 0 of every registered history), and
  `fp8_tensors_recompute_buffer`, one deque per module. Each module has
  `fp8` and, for each direction, an amax history and a scale; during a recompute
  also `updated_amax_history_fwd` and `updated_scale_fwd`.
* **Operations.** `autocast.__enter__/__exit__`, `prepare_forward`, the
  quantization kernels (which take the maximum into row 0), `end_forward`, the
  backward of a module, `reduce_and_update_fp8_tensors`.
* **Interactions.** The script enters contexts and calls modules; autograd calls
  the backwards; leaving the outermost enabled context reduces the forward
  amaxes; the backward of the *first* FP8 module reduces the backward amaxes.
* **Hard.** The decision who is first and who reduces rests on a flag and a
  depth that nested contexts and recomputes save, restore and overwrite; several
  microbatches are between forward and backward at once.
* **Correct means.** Every amax goes into exactly one step's scale; a history
  is the window of the last `amax_history_len` steps; contexts restore what they
  found; overflow never becomes a scale.

### 1.2 Activation recompute (modelled in part)

`pytorch/distributed.py` (`checkpoint`, `_CheckpointFunction`,
`_CheckpointFrame`, `activation_recompute_forward`)

* **State.** Two module globals (in a region, in the recompute phase), a queue
  of first-module flags, what a checkpointed callable needs to be run again.
* **Operations.** First forward (under `no_grad` if reentrant), recompute from
  `_CheckpointFunction.backward` or from the unpack hook of a saved tensor.
* **Interactions.** `prepare_forward` stashes tensors in the first phase and
  switches to the stash in the second; `end_forward` switches back.
* **Hard.** The stash is first in first out per module; the recompute runs in
  the middle of a backward, inside an autocast of its own.
* **Correct means.** The recompute quantizes exactly as the first forward did,
  leaves no trace in the histories, and uses the stash up.

### 1.3 KV cache for inference (modelled)

`pytorch/attention/inference.py`, `common/fused_attn/kv_cache.cu`

* **State.** `sequences` (an ordered dictionary from id to length), per layer
  the caches; paged: `free_pages`, `allocated_pages`, `page_table`; non-paged:
  `batch_indices`, `need_reindex`.
* **Operations.** `pre_step(step_dict)` once per iteration, `step` once per
  layer, `reset`.
* **Interactions.** The caller's loop composes batches; every attention layer
  copies its tokens through the one page table or one set of batch indices.
* **Hard.** Recycling of pages and ids, page boundaries, in-place moves of rows,
  an exception half-way through `pre_step`, iteration order of sets.
* **Correct means.** Pages are neither lost nor shared; a legal batch always
  finds pages; attention sees exactly the tokens each sequence was given.

### 1.4 Activation offloading (modelled)

`pytorch/cpu_offload.py`

* **State.** Per layer an `OffloadableLayerState` (`not_offloaded`,
  `offload_started`, `offload_finished`, `reload_started`) with groups of GPU and
  pinned tensors; the synchronizer's counters; two CUDA streams and their events.
* **Operations.** `push_tensor` and `pop_tensor` from the saved-tensor hooks,
  `fwd_step`, `bwd_step`, `finish_part_of_bwd`, and under the manual schedule
  the caller's `start_offload_layer`, `release_activation_forward_gpu_memory`,
  `start_reload_layer`.
* **Hard.** The host runs ahead of both streams; memory is given back as soon
  as Python drops the last reference, whatever is still queued on a stream.
* **Correct means.** A backward reads what its forward computed; no hook raises;
  the promised peak is kept; nothing is held between passes.

### 1.5 Ring attention (modelled in part)

`pytorch/attention/dot_product_attention/context_parallel.py`
(`AttnFuncWithCPAndKVP2P`)

* **State.** Each rank has two slices of the queries, two communication buffers,
  two streams, running totals of output and softmax statistics; in the backward
  the gradients of the keys, which travel with the keys.
* **Operations.** Per step: post the exchange, attend to the keys at hand, merge
  into the totals; in the backward also add to the travelling gradient.
* **Hard.** Steps alternate between the streams and overlap the exchanges;
  whether a step copies or adds, and into which half, depends on step, rank
  and causality; sends and receives must match round the ring.
* **Correct means.** Outputs and gradients gather every chunk they should,
  exactly once; every rank finishes.

### 1.6 Communication and GEMM overlap (modelled in part)

`common/comm_gemm_overlap/comm_gemm_overlap.cpp` (`CommOverlapP2PBase`),
`common/comm_gemm_overlap/userbuffers/userbuffers.cu`

* **State.** Per rank: send, receive, compute and main streams, events, a
  buffer with a slot for every chunk that peers write into, a flag and a
  `recv_id` per peer.
* **Operations.** `split_overlap_ag` (plain and aggregated), `split_overlap_rs`,
  the external all-gather; in the kernels: write, signal, wait for a signal.
* **Hard.** Nothing tells a sender that what it overwrites has been read; what
  orders the streams of a rank is one event re-recorded again and again.
* **Correct means.** Each GEMM multiplies the chunks of its own call, each
  partial sum is added once, no rank waits for ever.

### 1.7 CUDA graphs of a pipeline schedule (modelled in part)

`pytorch/graph.py` (`_make_graphed_callables` with `_order`),
`WeightGradStore` in `pytorch/module/_common.py`

* **State.** For each callable (chunk, microbatch, layer) its graphs and static
  tensors; queues of inputs that may be used again; one memory pool.
* **Operations.** Assigning static inputs; capturing forward, backward and
  delayed wgrad in the order of the schedule; replaying them.
* **Hard.** Inputs, grad outputs and pool memory are shared by microbatches
  whose lifetimes do not overlap *in the schedule*; nothing checks that at
  replay.
* **Correct means.** Every layer adds up one right weight gradient for every
  microbatch; what is sent to other stages is intact when it is sent.

### 1.8 Parts not modelled

| Part | Source | State and operations | Why not |
|---|---|---|---|
| Change of recipe | `pytorch/module/base.py` 1045-1140, `pytorch/graph.py` 1285-1310 | histories are replaced by longer or shorter ones and re-entered in the global buffers | in the plan |
| Tensor handle allocators | `common/transformer_engine.cpp` 437-625 | a free list and a vector under a lock, read without it | in the plan |
| Weight workspaces, quantized tensors | `pytorch/quantized_tensor.py`, `pytorch/tensor/` | cached quantized weights | layout and numerics |
| Random number states | `pytorch/distributed.py` | named generator states, a stack discipline | sequential and direct |
| Operation fuser | `pytorch/ops/` | pattern matching | no state between calls of its own |
| Optimizers | `pytorch/optimizers/` | moments, master weights | numerics |
| Attention backends | `pytorch/attention/dot_product_attention/` | selection from configuration | no state, but for the KV cache |
| Expert parallelism | `pytorch/ep.py`, `common/ep/` | wraps NCCL EP | the protocol is not in the repository |
| JAX | `jax/` | functional | state is passed as values |
| Debug tools, runtime utilities | `debug/`, `common/util/` | statistics; kernel and handle caches | optional; once-flags and one lock |
| CUDA kernels | `common/` | none | numerics |

What is hard to test in the modelled parts is listed, line by line, in the
`hazards` of `PROJECT.json`, with the properties that cover it. Section 5 has
those that no property covers.

## 2. Modules

| Module | Contents |
|---|---|
| `AmaxHistory` | The operators on one delayed-scaling tensor: record, roll, scale, both update paths. |
| `AmaxWindow` | **Abstract specification**: every tensor has a sliding window of amaxes; an update ages the window by exactly one, and needs a fresh amax unless idle tensors age too (`IdleAges`). |
| `FP8DelayedScaling` | The composed system: contexts, modules, checkpoints, recomputes, backwards, several microbatches. Instantiates `AmaxHistory` and implements `AmaxWindow` over all tensors of both directions. |
| `KVRequests` | The caller of the KV cache: which batches may follow which. |
| `PagedKVCache` | `PagedKVCacheManager` with the copy kernel. |
| `NonPagedKVCache` | `NonPagedKVCacheManager` with the reindex and the copy kernel. |
| `MCPagedKVCache`, `MCNonPagedKVCache` | Symmetry of the sequence ids, for TLC. |
| `CpuOffload`, `MCCpuOffload` | Offloading of activations with host, main stream and offload stream; the schedules TLC tries. |
| `RingAttention` | Forward and backward of ring attention over all ranks. |
| `CommGemmOverlap`, `MCCommGemmOverlap` | What the host queues on the streams of every rank, and the kernels that run it; the sequences of calls TLC tries. |
| `GraphedCallables`, `MCGraphedCallables` | Capture of graphs along a pipeline schedule and their replay; all small schedules. |
| `FP8DelayedScaling_proofs` | Theorems about delayed scaling, with proofs. |
| `KVRequests_proofs` | Lemmas about the caller that both caches need. |
| `PagedKVCache_proofs`, `NonPagedKVCache_proofs` | Theorems about the two caches. |
| `RingAttention_proofs` | Theorems about attention over the ring. |
| `CpuOffload_proofs` | Theorems about activation offloading: the host's state, and what the streams compute. |
| `GraphedCallables_proofs` | Theorems about capture along a schedule, replay and the sharing of static inputs. |

### 2.1 Amaxes as sets

An amax is a maximum over tensors, and all the code does with it is take
maxima, test it for 0 and for finiteness, and divide by it. `AmaxHistory`
represents it by the *set of observations* it is the maximum of: maximum is
union, 0 is the empty set, an amax is infinite if it contains an observation of
`Overflow`, and a scale is named by the amax it came from. This tells apart all
that a number would, and more: two different amaxes that happen to be equal
stay different, so a wrong history cannot pass by accident.

### 2.2 `FP8DelayedScaling`: state and actions

| Variable | Code |
|---|---|
| `qstate` | `fp8_enabled`, `is_first_fp8_module`, `autocast_depth` of `FP8GlobalStateManager.quantization_state` |
| `contexts` | the active `autocast` objects with the state each saved |
| `recompute` | `_IN_ACTIVATION_RECOMPUTE_REGION`, `_ACTIVATION_RECOMPUTE_PHASE` |
| `firstStash` | `activation_recompute_forward._is_first_fp8_module` |
| `fp8`, `fwd`, `bwd` | `module.fp8`, `fp8_meta["scaling_fwd"]`, `fp8_meta["scaling_bwd"]` |
| `buffered` | the modules in `global_amax_buffer` |
| `stash`, `updated` | `fp8_tensors_recompute_buffer`, `fp8_meta["updated_*_fwd"]` |
| `tape`, `region`, `pending`, `todo` | autograd: the graph being recorded, the checkpointed callable in progress, graphs waiting for their backward, nodes the running backward has still to reach |

| Action | Code |
|---|---|
| `EnterContext`, `ExitContext` | `autocast.__enter__`, `__exit__`, with `set_autocast_state` before `autocast_exit` as in the code |
| `CallModule`, `ReturnFromModule` | `prepare_forward`; the forward, its kernel's amax, the first-module check and `end_forward` |
| `StartCheckpoint`, `EndCheckpoint` | first forward of `te.checkpoint` |
| `StartBackward`, `BackwardModule`, `ReduceBackward`, `EndBackward` | autograd visiting the nodes last to first; `_Linear.backward` and the reduction of its first module |
| `StartReplay`, `ReplayEnter`, `ReplayExit`, `ReplayCall`, `ReplayReturn`, `EndReplay` | a recompute |
| `ReplayRaises`, `Unwind` | `popleft` of an empty deque, or no tensors set aside: the exception leaves the `with` blocks of the callable and of the recompute one by one, each with its `autocast.__exit__`, and the last also with the region flags |
| `StartForward`, `EndMicrobatch`, `Finished` | the script |

What the script may do is a set of constants (`Enabled`, `Reentrant`,
`FP8Only`, `HighOnly`, `EnableInDisabled`, `InnerAutocast`, `LifoBackward`,
`SkipBackward`), so that each run says under which use of the library a
property holds. Nothing the library does depends on them.

### 2.3 The KV cache: state and actions

`KVRequests` has the caller: `batch` is `step_dict`, `fed` the tokens given to
each sequence so far, which is what attention ought to see. A token carries its
sequence, the iteration the sequence was admitted in and its position, so a
token of another sequence, or of an earlier use of the same id, is told from a
fresh one. The batches are those of the loop in
`src/tests/pytorch/attention/test_kv_cache.py`.

`PagedKVCache` splits `pre_step` into `BeginStep`, one `Finish` per finished
sequence, one `Advance` per unfinished one, one `Admit` per new one and
`FillPageTable`, because `allocate_page` may raise in any of them and leaves
that intermediate state behind (`pc = "raised"`). `Step` is one layer's
`step`, `Reset` the `reset` of the manager. `NonPagedKVCache` has `PreStep` (no
step of it can fail; the keys of the `OrderedDict` stay in their order when
some are popped, so the unfinished and the finished rows are the tracked ids
in the order of `order`), `Step` with the reindex kernel's in-place loop as a
recursive function over the rows, and `Reset`. Both kernels run one after the
other on one stream; inside a kernel a thread handles one element of every row
in turn, which is the order modelled.

### 2.4 `CpuOffload`

Three processes: `Host` runs the hooks in Python's order and appends operations
to the streams `Main` and `Copy`, each of which runs its queue in order, a
`wait` only once the event, a position in the other stream, has been passed.
`layers[l]` is the `OffloadableLayerState` (state, the groups `fwd`, `bwd` and
`cpu`), `saved[l]` what the unpack hooks hold. A GPU block is free when no group
and no saved item refers to it, and is handed out again *at once*, which is what
the caching allocator does for the stream that allocated it: this is how a
missing wait becomes a wrong value. A script goes on only while what it asks for
`Fits`: without memory for its activations, or for a group that is reloaded, it
would end. Values are (pass, layer, tensor).
`FwdStep`, `Push`, `BwdStep`, `PopTensor`, `FinishPartOfBwd`, `StartReload`
and so on are the methods of those names; `StartOffloadAt`-like tables are the
dictionaries that the default synchronizer precomputes.

### 2.5 `RingAttention`

A tensor is the *set of chunks* that have contributed to it, with a mark
(`Twice`, `Uninit`) for what was added twice or read before it was written. So
"the output is right" is an equality of sets, independent of the softmax. `at`
and `posted` are the two streams of the forward, `comm` the requests of each
rank in order, `Transfer` a message between two ranks that have both posted
it. `DqRule` and `DkvRule` are the tables of copy, add and neither that the
backward follows half by half.

### 2.6 `CommGemmOverlap`

The host never waits for a device in this code, so all it queues for a sequence
of calls is worked out once (`Programs`): for each stream a list of kernels and
for each kernel the positions in other streams it must wait for, from
`cudaEventRecord` and `cudaStreamWaitEvent` in the order of the code (an event
recorded again keeps its earlier waiters at the earlier position). The actions
are kernels: `RunFill`, `RunPush` (one block of a send: write, then signal),
`RunCopy` and `RunSignal` (the copy-engine form), `RunRecv`, `RunGemm`,
`RunConsume`. Streams of all ranks advance in any order. A chunk carries the
call it belongs to, so that a chunk of a later or earlier call in the same slot
is seen.

### 2.7 `GraphedCallables`

`iteration = 0` is the capture: `cursor` walks through `_order`, and
`CaptureForward`, `CaptureBackward` and `CaptureWgrad` are the three branches
of the loop. A graph remembers which tensors of the pool were alive when it was
captured. Replay then follows the same order, and a replayed graph destroys the
contents of every pool tensor that was *not* alive: this is the worst
allocator, so a property that holds under it holds under every one. The caller
sends an output or an input gradient at any time between the pass that
produces it and the latest moment that the schedule allows, for gradients the
one that the comment in `graph.py` (line 910) assumes of Megatron-Core.

A configuration (`ConfigsAssumption`) gives each chunk as many forwards as
backwards, each backward after its forward, a wgrad after some backward of its
chunk, and with delayed wgrads one layer to a chunk. `graph.py` checks the last
of these and the total number of passes and leaves the others to the caller.
Whether the wgrads fit the dgrads is not assumed: this is what the checks of the
capture are for.

## 3. Runs

### 3.1 Runs that pass

| Run | States | Shows |
|---|---|---|
| `fp8_train` | 343 k | Pipelined training, two modules in FP8, both kinds of checkpoint, FIFO backwards: recomputes use the scale of the first forward (`RecomputeSameScale`), never lack a stash (`NoRaise`) and use it up (`NothingLeftInStash`); all amaxes are rolled (`ForwardAmaxesRolled`, `GradientAmaxesRolled`), into a gapless window (`HistoryIsWindow`), as in `AmaxWindow` (`ImplementsWindow`). |
| `fp8_any_script` | 63 k | No restriction on the script: dropped microbatches, backwards in any order, calls in either precision, any nesting, and recomputes that raise and unwind their contexts. `ContextsRestored` holds. |
| `fp8_unfused` | 803 k | The unfused update with `most_recent`, two modules, two microbatches in flight, an overflow: `ImplementsWindow`, with windows in which idle tensors age (`IdleAges`). |
| `kv_paged` | 308 k | Pages, page boundaries and recycling with the pool `InferenceParams` insists on: `PagesCoverTokens`, `NeverFull`, `CacheFaithful`. |
| `kv_full` | 21 k | A pool that is too small, new ids in any order: `RaisesOnlyWhenFull`, and `PagePartition`: nothing is lost in the exception or the reset after it. |
| `kv_nonpaged` | 225 k | Reindexing in place for batches that shrink, grow and shift: `CacheFaithful`. |
| `offload` | 122 k | Default and manual schedules, one to four layers, retained pinned buffers or not: `Faithful`, `NoRaise`, `PeakMemory`, `NothingKept`, and `BackwardRuns` under fairness. |
| `ring` | 114 k | Three ranks, causal or not, both forms of exchange, three precisions: `AttentionExact`, `QueryGradients`, `KeyGradients`, and `AllFinish` under fairness. |
| `comm_overlap` | 75 k | Two to four ranks, one or two compute streams, copy engine or kernels, calls in sequence over the same buffers: `GatheredExact`, `ReducedExact`, and `CallsEnd` under fairness. |
| `graphs` | 115 k | All schedules of two chunks (of one and of two layers, of equal or different shapes) and two microbatches, of one chunk and three, with and without reuse, with delayed wgrads, and schedules that are refused: `GradientsExact`, `SentExact`, `InputsMinimal`, `AcceptsAlternating`. |

**Bounds.** Three microbatches with two in flight is the least with which one
stash is taken while two are in the deque and another is added. History length
3 (2 in `fp8_any_script` and `fp8_unfused`) makes amaxes age out of the window within the run, and
leaves room for an empty row between two others. Two modules are needed for one to be first and one not. Nesting depth
2 is the least with a context inside another; a recompute inside it adds its
own. For the KV cache, pages of two tokens and lengths up to four give
sequences that start inside a page or at its end, cross a boundary, and end
full; three ids over a batch of two make ids wait, replace each other and come
back; four iterations let a page serve two sequences. The
non-paged runs have four ids over three rows: moves of two rows, over one
another, need three. Two layers show a layer using the page table or indices
after another has. For offloading, three layers of which one or two are
offloaded, and four with two, give every relation between the layer at which an
offload ends and that at which a reload starts; two passes reuse what the first
left. Three ranks are the least with a rank that is neither first nor last in
the ring (it has a lower and an upper tile of a causal mask) and with two even
neighbours. Two ranks, and four ranks with a causal mask, also pass (2,970 and
221,929 states). For the overlap, two rounds of a layer use every buffer, flag
and event again; three ranks give a chunk that is passed on; four are needed for
aggregation in pairs. The communicator's default of 16 blocks is represented by
`CommSms = 2`. Two iterations replay each graph after every other. `MaxSteps`, `MaxIter`, `MaxInFlight`, `MaxDepth` and
`MaxRegionOps` bound the environment only, never the library.

`CHECK_DEADLOCK FALSE` is set where the environment may stop: an inference loop
ends after `MaxSteps`, and a script may open a checkpoint in which, by its own
policy, it can make no call. The other runs end when every stream, rank or
iteration is through; that they do get there is what their liveness properties
state.

### 3.2 Runs that find a violation

Each checks what a comment or document of the repository says.

| Run | What TLC finds |
|---|---|
| `ring_fp8` | The FP8 backward exchanges the gradients of the keys by `all_to_all_single` with output and input exchanged: a rank returns what its own queries gave to all slices. |
| `ub_blocks` | A send of several blocks signals once per block, but the receive goes on after the first signal: the GEMM reads a chunk of which only a part has come. |

The following uses do not keep what a comment or document promises either. They
have no run of their own; each is reproduced by the constants given.

| Property, configuration, change | What TLC finds |
|---|---|
| `HistoryIsWindow`, `FP8Train.cfg`, `Fused = FALSE` | With `NVTE_UNFUSED_FP8_UPDATE=1`, each recompute rolls an empty row into the forward histories: the recompute's autocast exits at depth 0 with grad enabled and reduces a second time. `_update_amax_history` does not skip a zero amax as the fused kernel does. |
| `RecomputeSameScale`, `FP8Train.cfg`, `LifoBackward = TRUE` | A loss over two passes through a model runs the newer pass's backward first, but stashes are taken oldest first: each recompute has the other's scale. |
| `ForwardAmaxesRolled`, `FP8Train.cfg`, `InnerAutocast = TRUE` | If the callable of a reentrant checkpoint opens the autocast, its forward amaxes are never reduced and the scales stay at their initial value. |
| `ForwardAmaxesRolled`, `FP8AnyScript.cfg`, `InnerAutocast = FALSE` | An enabled context inside a disabled one: the inner exit is not the outermost and the outermost is not enabled, so neither reduces. |
| `BatchOrder` of `NonPagedKVCache`, `KVNonPaged.cfg`, `AnyOrder = TRUE` | `pre_step` visits new ids in the iteration order of a Python set, not in that of `step_dict`: two new sequences may get each other's cached lengths. |
| `LengthsMatch` of `NonPagedKVCache`, `KVNonPaged.cfg`, `DecodeLens = {1, 2}` | An unfinished sequence that is given two tokens in one iteration is advanced by one. |
| `Faithful`, `CpuOffload.cfg`, `StopEarly = TRUE` | A backward that ends before the first layer leaves a reload in flight; `release_all_memory` forgets it without waiting, and it lands in blocks that the next forward has been given. |
| `GradientsExact`, `Graphs.cfg`, `Configs <- LooseWgrad` | The schedule forward, dgrad, forward, wgrad, dgrad, wgrad is accepted with reuse of buffers, but the wgrad reads the static input that the second forward has overwritten. |
| `GatheredExact`, `CommOverlap.cfg`, two all-gathers in a row in one buffer | A rank that is ahead overwrites chunks a neighbour still multiplies; the layers never do this, a reduce-scatter or another gather comes between. |

Two further uses: `SkipBackward = TRUE` in
`FP8Train.cfg` violates `NothingLeftInStash` and `RecomputeSameScale` (a
forward with checkpoints whose backward never runs leaves its stash to a later
one), and `FP8Only = {}` with `Enabled = {TRUE, FALSE}` violates
`RecomputeSameScale` (a module called in both precisions decides by its last
forward whether it recomputes).

### 3.3 Fairness and liveness

`FP8DelayedScaling` and the KV cache state no fairness: that code
runs to completion inside the caller's thread and waits for nothing. That each
amax is *eventually* reduced, and each page eventually returned, is stated as
safety at the points where the script is between passes. `GraphedCallables`
likewise: a capture or replay is a sequence of calls.

The other three have processes that wait for each other, and state weak
fairness only, which says that a process that can go on does.

* `CpuOffload`: the host never blocks, and a CUDA stream runs its head as soon
  as its events have happened (`WF_vars(Host)`, `WF_vars(Main)`,
  `WF_vars(Copy)`). `BackwardRuns`: a backward that has begun comes to its end
  and its kernels run. That could fail by a wait for an event which is queued
  behind the waiter, or by a hook that raises.
* `RingAttention`: streams run, and NCCL carries out what both sides have posted
  (`WF_vars(Communicate)`, `WF_vars(Compute(r))`). `AllFinish` could fail by
  sends and receives that do not match round the ring.
* `CommGemmOverlap`: as every schedule of the kernels is finite, fairness of
  the whole next-state relation is enough (`WF_vars(Next)`). `CallsEnd` could
  fail by a receive that counts more signals than are sent, or by events that
  close a circle between streams and ranks.

## 4. Proofs

The theorems hold for every value of the constants that the named assumptions
allow (`ScriptAssumption`, `RequestAssumption`,
`PageAssumption`, `RingAssumption`, `OffloadAssumption`, `ConfigsAssumption`,
`IterationsAssumption`); TLC evaluates those on every run.

**`FP8DelayedScaling_proofs`, state and windows.**
* `TypeCorrect` and `StateRestored` hold in *every* script. The
  invariant is `TypeOK /\ Running /\ Nesting`. `ContextsRestored` alone is not
  inductive: an exit must be known to bring back the disabled state when it is
  the last, and that is a fact about the outermost context, which `Nesting`
  carries while others lie above it, together with depth = number of contexts.
* `WindowsImplemented`: if every module is called in FP8 only, the system
  implements `AmaxWindow`, with either update, whatever is nested, dropped,
  checkpointed or run backward in whatever order, and also when a recompute
  raises. The array with row 0 as the slot of the current amax is the window
  read from the last row backwards, and one roll maps row `HistoryLen + 1 - i`
  to the age `i + 1`; the cases `HistoryLen = 1` and `i = 1` are apart. While a
  recompute has a module on its old tensors, the refinement mapping reads the
  tensors set aside. The invariant adds `Flow` (the recompute phase and the
  module being recomputed agree with the mode) and `AllFP8` (a module with a
  recorded call has FP8 on, so a recompute switches to the stash and never
  records into the real history). With the fused update only tensors with a
  fresh amax age. With the unfused one all that are reduced do, also those with
  an empty row: what that does to the history is not hidden by the refinement
  but stated by `HistoryIsWindow`, which holds of the fused update only
  (section 3.2).

**`FP8DelayedScaling_proofs`, gradients.** `GradientsReduced`: in *every* script a backward
reduces the amaxes of all the gradients it has quantized, although only one
module of a graph, the "first FP8 module", triggers the reduction. The argument:
while a gradient waits, a node that reduces is still to come in the backward
walk (`Clean`). For this no FP8 module of a graph may precede all the first
modules (`Led`), which rests on the flag `IS_FIRST_FP8_MODULE`:
* `Flags`: it is down only behind a first module, and never in a recompute,
  which starts outside of all contexts and so raises it;
* `Levels`: a recompute opens and closes the contexts that its first forward
  did; the level of each call is a function of its position, so nothing has to
  be counted;
* `Buffered`: every FP8 module is registered before its gradient is quantized.

**`FP8DelayedScaling_proofs`, recompute.** `RecomputesSameScale`, `RecomputesNeverRaise` and
`StashesUsedUp`: for every number of modules, depth of nesting and of the
pipeline, length of history and mixture of the two kinds of checkpoint, a
recompute runs with the scale of its first forward, finds its stash, and leaves
none behind. They are proved for scripts that call modules in FP8 only, drop no
graph and run backwards in the order of the forwards (`FifoScript`). The three
conditions are necessary (section 3.2), and the run `fp8_train` meets them. The
code matches stashes with calls by order alone, with a deque per module. The
argument follows that order:
* `Stashed`: an increasing map takes each position of a module's deque to the
  microbatch that saved it, and these microbatches are exactly those with a
  checkpointed call of the module whose recompute is `Due`. Its keys grow at the
  right end only and shrink at the left end only (`QueueAppend`, `QueueTail`);
* `Order`, `Distinct`, `Plain`: pending microbatches are in the order of their
  forwards, and a graph calls a module under a checkpoint at most once, so the
  oldest one due is the one being recomputed (`OldestDue`, `StashHead`);
* `Recomputing`: in a replay the module has its stash's tensors on, its own set
  aside, and the region flags of the phase;
* `Counted`: as many first-module flags are queued as checkpoints are still to
  be recomputed, so no recompute finds the queue empty.

**`FP8DelayedScaling_proofs`, forward amaxes.** `ForwardReduced`: whenever no pass is in
progress, no forward amax waits in row 0, for scripts that open no context inside
a checkpointed callable and no enabled one inside a disabled one
(`OuterContexts`). TLC refutes the property with either condition dropped
(section 3.2): what reduces is the exit of the outermost context, provided that
it is enabled and runs with gradients. The invariant `FInv`:
* `Held`: in a forward whose outermost context is disabled, FP8 is off, and so are
  all the states the contexts have saved; a callable opens no context;
* `RowsHeld`: in a forward an amax in row 0 belongs to a registered module, and the
  outermost context is an enabled one, whose exit is still to come;
* `RowsEmpty`, `AsideEmpty`: outside of forwards only a module in the middle of a
  recompute shows an amax, for the tensors it has on are stashed ones, taken in
  the middle of a forward; those it goes back to have none.

**`FP8DelayedScaling_proofs`, histories.** `HistoriesAreWindows`: with the fused update,
in *every* script (either precision, graphs dropped, backwards in any order,
stashes taken by the wrong recompute) no history has an empty row between two
amaxes or one amax in two rows. A history could go wrong in two ways: an update
without a fresh amax, which the fused kernel skips, and a second record of what has
been rolled already. The second is what the invariant `HInv` excludes. `Fresh`:
what a pass is still to record is not in the history it will be recorded in. For
a gradient this needs to know what is still to run, although a recompute
replaces one node of the graph by several: `Remaining` is the rest of the graph
with the callable in progress and what its replay has recorded, and
`RemainingStep` shows that no step of a backward makes it lead to a module it
did not lead to, or to one module twice (`Once`, `Singles`). `Waiting` is the
same for the microbatches whose backward has not begun, and `Sounds` carries the
property through stashes and tensors set aside, which are histories as well.

**`PagedKVCache_proofs`, pages.** `PagesPartitioned` and `RaiseMeansFull`, for every
pool (also one smaller than `InferenceParams` asks for), every batch, and every
order of the new ids. The invariant is `PagesTyped /\ PagePartition /\
RaisedEmpty`; the lemmas `JoinInjective`, `CutInjective` and `MovePages` say
that cutting pages off the head of one list and appending them to another
keeps every page in one place.

**`PagedKVCache_proofs`, lengths and capacity.** `StateTyped`, `PagesCover` and `PoolSuffices`, for
every pool, page size, batch size, context and decode length, and every order of
the new ids. The invariant `CInv` adds to the one above, as long as nothing was
raised:
* `Covered`: each sequence holds `PagesFor` its length;
* `Visits`: what the loops have still to visit: the finished are those tracked
  and not in the batch, the new ones are in the batch and not tracked;
* `Lengths`: a cached length never passes the number of tokens fed, and is below
  it while the sequence waits to be advanced;
* `Caller`: no sequence is fed more than `MaxLen` tokens.

`PoolSuffices` counts. When a page is taken the finished are gone, so every
tracked sequence and the next new one is in the batch and has a place there. The
map from a held page to its place in the batch and its place in the sequence's
list is an injection, by the page partition, into the `MaxBatch * MaxPages`
places; the places the sequence does not fill yet are not among its values, so
at least as many pages are free. That `PagesFor` of a length up to `MaxLen` is
at most `MaxPages` uses that the page size divides `MaxLen` (asserted at
`inference.py` 168-178).

**`PagedKVCache_proofs`, contents.** `CacheShowsTokens`: attention sees exactly the
tokens the caller has fed, in every layer, for every number of layers and
however pages are recycled. It is proved for callers that are `Serial`: one
token for each unfinished sequence, new ids visited in the order of the batch.
Both conditions are necessary: the code advances an unfinished sequence by one
whatever `step_dict` says, and matches rows by order (section 3.2, which refutes
the same in the non-paged manager). The invariant `FInv` adds that `order` is
the batch with the new ones still to come cut off (`Ordered`), that between
steps lengths equal the tokens fed (`Exact`), that the cell of each page list at
which a token belongs holds it, in the layers that have run their step
(`Stored`), and that the rows of the page table are the page lists. The three
arguments that are not bookkeeping: two enumerations of one set in the order of
a third are equal (`SameOrder`); different tokens have different cells, by the
page partition (`SlotsDiffer`), so that a copy overwrites nothing that is still
to be seen; and the cell of a token does not move when its sequence takes a
further page.

**`NonPagedKVCache_proofs`.** `NonPagedTypes`, for every caller: every tracked
sequence has a row and is in the batch, so unfinished and finished rows fill
`batch_indices` up to the size of the old batch, and no kernel leaves its row.
`RowsShowTokens`: for `Serial` callers, the same as for the paged cache, every
layer shows attention exactly the tokens fed, for every number of rows and
however often the batch changes. Both conditions on the caller are necessary
(section 3.2). The invariant `SInv` adds to the types:
* `order = batch.ids` and `Exact`: the rows the kernels count are those of the
  batch, and the cached lengths are the tokens fed (`SameAsBatch`, `NextExact`);
* `Moves`: the rows that hold old tokens come first, ascending, each taken from
  a row that is not before it. So the row read in a round of the in-place loop
  has not been written (`RoundMoves`), and none of these rows lies behind the
  last descent of `batch_indices`, at which the kernel stops (`LeadingCovers`);
* `Settled`: a batch of the same ids has `batch_indices` the identity, which
  makes it a page table of one page per sequence for the copy kernel;
* `Stored`: a layer that has run its step holds all tokens in the rows of the
  batch; one that has not, the old ones in the rows of the batch before.

`KVRequests_proofs` has what both caches need of the caller: what a batch feeds
(`NextBatchFeeds`), and that an order of ids is determined by the set and the
order it is taken from (`OneOrder`).

**`RingAttention_proofs`.** `RingTypes`, `ForwardExact`, `QueryGradientsExact` and
`KeyGradientsExact`: for every number of ranks, causal or not, with one batch
of transfers per exchange or the calls in the order of the rank's parity, and in
every order of the two streams and of the transfers, the forward has met every
key once, and so have the gradients of the queries (at every precision) and of
the keys (in f16). The invariant is `RInv`:
* `InFlight`: a rank has at most its last exchange in flight, and what is left
  of it is one of six sequences, whatever the parity; `Balanced`: a rank has
  sent as often as its right neighbour has received, in either pass. So a
  transfer, which looks only at the head of two queues, always joins the two
  ends of the same exchange (`SameExchange`), also when one rank is still in the
  forward and the other in the backward;
* `Turns`: one stream is at the step to be corrected next and the other at the
  step after it, and no step starts before its keys have come. `KeysInPlace`:
  the slice received `j` hops ago is that of rank `(r - j) % CpSize`;
* `PartsExact`, `LseExact`, `OutExact`, `DqExact`, `DkvExact`, `TileExact`: each
  accumulator as a function of the step. After step `i` it holds what the slices
  so far meet, except that a causal half which no tile has touched is still
  uninitialised memory; a step's merge rule must copy exactly there and add
  everywhere else (`MergeStep`, `DqStep`, `DkvStep`);
* `SlicesInPlace`: of two buffers used in turn, which one holds the keys of the
  step, and what has arrived in the other.

All arithmetic modulo the number of ranks goes through `Modulo`. What the
recursion over steps `Merged` and the fold `SlotSum` of delayed scaling compute
is proved by a least counterexample (`LeastNatural`, `SmallestSubset`), which
the library's well-foundedness theorems give without an induction theorem. The
gradients of the keys in FP8 are not exact (section 3.2).

**`CpuOffload_proofs`.** `OffloadTypes`, `NoHookRaises`, `PeakMemoryKept` and
`MemoryGivenBack`: for every number of layers and of layers offloaded, under the
default and the manual schedule, for every sequence of saved tensors (repeated,
kept, or neither), every amount of memory, and however far the streams lag
behind, also when backwards stop early or do not run. None of the four is
inductive; the invariant is `IInv`:
* `Good`: what each state of a layer says of its groups. A layer that has
  started to reload holds one tensor for each pinned buffer, its `aux` maps each
  saved index to one of them, and the indices that the unpack hooks still hold
  are within the group they point into (`SavedAre`, `Covered`, `Lengths`), so
  `pop_tensor` always finds what `push_tensor` promised. Deduplication is proved
  to keep one place for each tensor, by counting (`OneBlockEach`);
* `OnSchedule`: under the default schedule the state of every layer is a
  *function* of the phase, the layer reached by the forward and the layer
  reached by the backward (`StateAt`). The tables of the synchronizer enter only
  here: in the step of `fwd_step` or `bwd_step` the layers they name are those
  whose `StateAt` changes, hence each is in the state that the called method
  asserts. `PeakMemory` follows: the layers that `StateAt` leaves on the GPU lie in
  a window of `num_layers - num_offloaded_layers` consecutive layers;
* `DeviceTyped`, `EventsPut`: what is queued on a stream is a wait, a kernel or a
  copy, and no event lies beyond the end of the stream it was recorded on.

**`CpuOffload_proofs`, what is computed.** `BackwardReadsForward`: for every model, list of
saved tensors, amount of memory and schedule, and in every order of the host and
the two streams, the kernels of a backward read what the forward of the same
pass and layer computed. Nothing in the code compares values or tracks them, so
the invariant, `DInv` on top of `IInv`, is about what is *queued*. It follows each
read back to the write that it will see, and that write to its own source:
* `UsesRight`: a queued kernel of a backward gets its value: the value is in the
  block now and every queued write comes later (`GetsNow`), or the last write
  queued before it is a kernel's (`GetsComputed`) or a copy from a buffer
  (`GetsReloaded`). "Before" across streams is a queued wait (`Waits`). As a
  stream runs its head, a reader goes from the last two cases to the first
  (`Runs`); as the host queues more, nothing queued changes (`Grows`);
* `LayerRight`: the same for what stands for a saved tensor in each state of its
  layer: a block of the forward, a pinned buffer that is being or has been
  filled, a block being reloaded. A block may be written again while a copy out of
  it is queued only if the main stream waits for that copy, or as long as the
  layer still holds the block (`Gives`): this is the duty of
  `release_activation_forward_gpu_memory`, which drops the blocks after it has
  made the main stream wait;
* `ReloadsKept`: the target of a queued reload is still held by a tensor that is to
  be popped, unless the main stream waits for the reload: so the block is never
  given to a kernel that the copy would overtake. `pop_tensor` gives up the one
  and queues the other in the same call;
* `Whole`: under the default schedule a backward comes down to the first layer, so
  no reload is in flight when a forward begins.

The theorem's one hypothesis is `StopEarly = FALSE`, which `Whole` needs and
section 3.2 shows to be necessary: `release_all_memory` does not wait for the
reload of a layer that was skipped. A schedule in which backwards do not run at
all (`SkipBackward`) is covered.

**`GraphedCallables_proofs`.** For every set of schedules, number of chunks,
layers, microbatches and iterations. A point is a position `x` of the schedule
and a step `s` within its pass, and the invariant `Inv` says of each variable
what it is at a point:
* *Pool.* `Needed` is what must not be lost at a point: activations between
  forward and backward, the input gradient that the next layer down reads, the last one
  of the pass before. The capture keeps all of it alive (`AllocRight`), so each
  graph remembers it (`GraphsRight`), so the replay of a graph, which destroys
  the rest, leaves it alone (`PoolRight`).
* *Sharing.* `FoldInv` follows the two queues of `_make_graphed_callables`
  through the schedule: whatever is between its forward and its backward, or waits to be
  used again, has a sample of its own (`SampleDistinct`, hence `SampleApart` and
  `InputsRight`), and no sample gets lost (`SampleKept`). A forward takes a
  sample nobody used before only when all there are are in use (`Reuses`,
  `AllInUse`): hence `SharingMinimal`, that reuse allocates of each shape no
  more inputs than the schedule needs at some point.
* *Checks.* `AcceptsExactly`: though they count passes between two positions, look
  at graphs, and fail on an empty store, together the checks refuse a schedule if
  and only if dgrads and wgrads of some chunk do not alternate: the counts agree
  iff as many wgrads are owed at the one end as at the other (`AcceptedAt`,
  `Owed`, `AcceptedLegal`), and the store holds one entry exactly while a chunk
  owes a wgrad (`StoreRight`, `WgradsRight`).
* *Sends.* `SentRight`: an output waits while its backward is to come, so `Needed`
  covers it; of the input gradients at most the last two are unsent, and all but
  the last are sent before a graph that may destroy them is replayed
  (`SendingRight`).
* *Gradients.* `PromptGradientsExact`, under `Prompt`: if static inputs are shared and
  wgrads delayed, each wgrad comes right behind its dgrad. `OwedRight` then says
  that what a wgrad will read is still there, and `GradsRight` counts what has been
  added. Some such condition is necessary: section 3.2 has a schedule without it
  that the checks accept, and whose gradients are wrong. Without sharing, or without
  delay, nothing is assumed.

`GraphsTypeOK` says that no pass indexes outside the schedule: a position of
the forward has a microbatch left, a position of the backward one that is open.

**Only model-checked.** All of `CommGemmOverlap`; and every liveness property
(`BackwardRuns`, `AllFinish`, `CallsEnd`), as the prover does neither fairness
nor `ENABLED`. Nor can it use an induction theorem, which takes an operator as a
parameter. A least counterexample takes its place for the recursion and the fold
of the ring, for the loop of the reindex kernel (`LeastNatural`) and for the queues
that a schedule fills (`PositionInduction`); the schedules
that `CommGemmOverlap` folds together are checked only. `KeyGradients` does not hold in
FP8 (section 3.2), so its theorem is about f16.

## 5. What the models leave out

* Recipes other than delayed scaling (they keep no state between steps),
  calibration, several recipes or groups at once, a change of the recipe.
* The all-reduce of amaxes over ranks: one rank is modelled, and the maximum
  over ranks is one more union.
* FP8 primary weights, whose amaxes are reduced after the optimizer step, and
  graph capture (`_graph=True`), in which no reduction takes place.
* A checkpoint inside a checkpoint, and random number states.
* An exception other than that of a recompute without its tensors, and a script
  that catches it: the model unwinds the contexts of the recompute, and then the
  script is over. The backward is given up with whatever gradient amaxes it had
  not reduced, and nothing is claimed of those. Nor is `HistoryIsWindow` claimed
  from the exception on, for TLC refutes it there: a recompute that raises in
  `end_forward` has recorded its amaxes a second time.
* KV cache: layouts of `q` and of the returned views, custom cache managers,
  lengths beyond `max_sequence_length` (nothing compares a length with it), a
  retry of `pre_step` after its exception (which advances every unfinished
  sequence twice), a caller that reorders unfinished sequences.
* Offloading: which tensors qualify, the parts of tensor subclasses, the legacy
  path, a second forward before the backward of the first (unsupported by the
  default synchronizer, which then drops the first state), a forward that is
  interrupted (`num_of_fwds` is left in the middle).
* Ring attention: the all-gather and all-to-all variants, hierarchical groups,
  sliding windows, packed sequences, and every number.
* Overlap: atomic GEMMs, the pipelined and bulk kernels of `CommOverlapBase`,
  cuBLASMp, memory ordering within a kernel, and time: a receive that times out
  prints a line and returns, and the GEMM goes on with what is there.
* Graphs: warm-up, saving and restoring FP8 tensors and random states, hooks,
  capture without `_order`, replay on a side stream, gradients returned without
  a clone. An exception in a capture leaves the wrapped `__call__` of the module
  classes, a disabled garbage collector and the capture flag behind.
* Leaving a checkpoint region sets both region flags to `False` instead of to
  what they were, and a module stays registered in the global buffers under the
  recipe of its first call: hazards of nested checkpoints and of several
  recipes, which are not modelled.

## 6. Plan

1. **`AmaxBuffers`**: the aliasing between module histories and global buffers
   when `amax_history_len` changes (`adjust_amax_history_length`), composed of
   `AmaxHistory`; a module registered under its first recipe only; saving and
   restoring the same tensors around a graph capture.
2. **`TensorAllocator`**: threads, lock, free list, lock-free lookup.
3. Nested checkpoints in `FP8DelayedScaling`.
4. **Proofs**: that no rank's flag is passed.
5. Runs are kept to one per question; a run of section 3.2 gives way when a
   stronger one of a new component asks for its place.
