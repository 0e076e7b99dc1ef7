# Verification of the HIP execution provider's memory and inference machinery

This directory holds TLA+ models of the parts of this repository whose
correctness depends on *sequences* and *interleavings*: who owns which piece of
GPU memory, when a piece may be given to somebody else, and what becomes of a
failure between a kernel and ONNX Runtime. TLC checks them on small instances;
TLAPS proves theorems about them for every value of the constants.

Paths below are relative to the repository's root.

## 1. The system

The repository compiles an ONNX graph through MLIR into a native library (or JIT
code) and runs it as an ONNX Runtime execution provider. Three worlds matter:

* **the compiler** (`lib/Conversion`, `lib/Dialect`, `lib/Compiler`): lowers the
  graph, plans its memory into *pool domains* (`PoolAllocs.cpp`), and generates
  `inference_init`, `inference_compute` and `inference_cleanup`
  (`GenerateInterface.cpp`);
* **the runtime** (`lib/Runtime`): the C functions the generated code calls, all
  of them on one `RuntimeState` per session;
* **the execution provider** (`backend-mlir-compiler`, `morphizen`): loads the
  library, runs `Compute`, and offers ONNX Runtime a GPU allocator.

```
 ONNX Runtime --Alloc/Free--> HipGpuAllocator (one, all sessions)      [HipGpuAllocator]
                                                                  refines [BufferService]
      |
      +--Compute--> MlirCustomOp --> inference_compute                 [InferenceCompute]
                        | slot, TLS stream     | prepare_input, sync, flag, free_input
                        |                      +--> staging pool (per library)
                        +-- output callback    +--> main_graph
                                                      | get_pool, ensure_*, run_scan/loop/if
                                                      v
                                               session device memory   [SessionMemory]
                                                      | device_alloc/free
                                                      v
                                               transient arena         [TransientArena]
                                                                  refines [RegionAllocator]

 compiler: memory planning passes --domain ids and offsets--> get_pool          [PoolPlan]
 run_loop and its stream (main_graph waits inside the driver)                   [LoopDriver]
 MatMul/Gemm <-> tables shared by all sessions of one runtime image             [OpTables]
```

### Inventory

| Component | State it keeps | Operations | What is hard | What makes it correct |
|---|---|---|---|---|
| Transient arena allocator, `lib/Runtime/transient_arena.h` | maps of free and live blocks, used bytes, high-water mark | `init`, `allocate` (lowest fit), `release` (coalesce both ways) | arbitrary order of releases; sizes at the region's edge | no unit in two blocks, none lost, free blocks never adjacent; it is a lowest-fit allocator |
| Session device memory, `hipdnn_ep_runtime_state.cpp` | pools and cached Scan pools (base, size, count), the scratches, the arena, fallback table, live-bytes statistic | `device_alloc/free`, `pool_init`, `get_pool_base`, `ensure_*`, `cleanup` | kernels still in flight when a buffer is replaced; hipMalloc failing between free and alloc; teardown order | every block has exactly one owner; nothing in flight refers to freed memory; cleanup leaves nothing |
| Control-flow drivers, `hipdnn_ep_runtime_loop.cpp`, `_if.cpp` | the `scan_pool_active` flag, locals that hold the caller's pools; for Loop the counter, condition and carried buffers | `run_scan`, `run_loop`, `run_if` | bodies that are pool-planned functions of their own, nested in a caller that waits with live buffers | a body takes and frees nothing of its caller; the caller's pools return |
| GPU allocator of the provider, `morphizen-hip-gpu-allocator.cpp` | free lists per size class, large pool by capacity, registry, checked-out records, counters | `Alloc`, `Free`, destructor | the mutex is dropped around the driver; heuristics decided on state that changes meanwhile | a buffer is in one place; the registry is exact; idle buffers are kept only while a tensor grows |
| Generated interface, `GenerateInterface.cpp` | the stack frame of `inference_compute`: its TensorBuffers and the status | `inference_init`, `inference_compute`, `inference_cleanup` | one cleanup block for every failure | a failure that is reported makes the inference return an error, an error means a failure of this inference; inputs go back once |
| Tensor staging, `hipdnn_ep_runtime_tensor.cpp` | process-wide map of idle staging buffers | `prepare_input`, `stream_sync`, `free_input` | shared by sessions whose streams are independent | a staging buffer has one user, GPU included |
| Error flag, output-allocator slot, current stream (`output_allocator.cpp`, `tls_stream.cpp`) | one device int and one slot per session, one stream pointer per thread | reset, set, read-and-clear; set/clear slot; publish stream | a flag that is not cleared when it is nonzero; a slot that points to a stack frame; a stale thread-local | no failure lost or inherited; the callback is live; copies run on the right stream |
| Provider Compute, `MlirCustomOp.cpp` | the output context on its stack | `begin_compute`, `compute_with_output_allocator` | what is done with the return code | failures do not look like success |
| Operator runtime, `lib/Runtime/real/*` | caches keyed by a device pointer, kernel images | kernels, GEMM wrappers, `memrefCopy` | numerics, mostly | - |
| Operator-state slots, WeakStore, algorithm tables, `op_state.h/.cpp`, `GenerateOpStateInit.cpp`, `real/matmul.cpp`, `real/gemm.cpp` | slots per session; a locked map of weak references; per table one entry per problem shape with its own tuning mutex | construct, destroy, `get_or_create`, look up, tune, launch | the last holder goes while another session asks; double-checked tuning; an algorithm read without a lock | one table for all; whatever algorithm is launched, the session's workspace covers it; a choice stays; nobody waits forever |
| Memory planning, `OptimizeMemRefs.cpp`, `PoolAllocs.cpp` | intervals, slots, domains, offsets, at compile time | reuse, partition, pack, emit | sizes that are known at run time only; reuse of reused buffers; groups that share a slab | live buffers never overlap, everything lies in its pool, every pool has a place in the program |
| Constants, profiling, conversions, compiler driver, artifact loading, MorphiZen glue and core, hipDNN graph library, tools | - | - | - | - |

The last row and the operator runtime are not modelled; section 7 and `PROJECT.json`
give the reasons. The *hazards* of the code, each at its
line, are in `PROJECT.json` too, with the properties that would catch them.

## 2. The modules

| Module | Models | Built on |
|---|---|---|
| `RegionAllocator` | what a region allocator promises (abstract): live blocks do not overlap; the lowest hole that is long enough is taken; it refuses only when there is none | - |
| `TransientArena` | `transient_arena.h` | `INSTANCE RegionAllocator` (refinement) |
| `TransientArenaProofs` | theorems about it | `TransientArena`, TLAPS |
| `SessionMemory` | pools, scratches, Scan/Loop/If entry and exit, growth, cleanup | `INSTANCE TransientArena` (composition) |
| `SessionMemoryProofs` | theorems about it | `SessionMemory`, `INSTANCE TransientArenaProofs` (the arena's lemmas), TLAPS |
| `BufferService` | what callers of the provider's allocator and the driver below it may rely on (abstract): one caller per buffer, with the capacity of its request; a buffer goes back to the driver while nobody has it, or at the end | - |
| `HipGpuAllocator` | the provider's allocator, with threads and a driver | `INSTANCE BufferService` (refinement) |
| `HipGpuAllocatorProofs` | theorems about it | `HipGpuAllocator`, TLAPS |
| `PoolPlan` | `hip-optimize-memrefs` and `hip-pool-allocs` on one function, and the arithmetic they emit | - |
| `PoolPlanProofs` | theorems about it | `PoolPlan`, TLAPS |
| `LoopDriver` | both ONNX Loop drivers, their buffers, the stream and the GPU | - |
| `LoopDriverProofs` | theorems about it | `LoopDriver`, TLAPS |
| `OpTables` | slots, WeakStore and the shared MatMul and Gemm tables, with one thread per session | - |
| `OpTablesProofs` | theorems about it | `OpTables`, TLAPS |
| `InferenceCompute` | Compute, `inference_compute`, staging pool, flag, slot, TLS stream, GPU queues | - |
| `InferenceComputeProofs` | theorems about it | `InferenceCompute`, TLAPS |
| `FiniteSetFacts` | least and largest elements of sets of naturals, images of finite sets, running sums: lemmas the proof modules share | TLAPS |
| `MC*` | constants, symmetry and views for TLC | the module named |

In every module a definition that starts with "A slip" or "Slip" is a wrong
variant of the definition below it. It is not part of the specification; it
documents which mistake the properties catch (each property is known to fail for
at least one of them, substituted for the real definition).

### TransientArena

`free` and `live` are the two `std::map`s, as functions from unit offsets to
lengths (0 where the map has no key); lengths are in units of `kAlign` = 4096
bytes, because the code rounds every request up and the region down to that unit.
`used`, `hwm` are the two counters and `answer` what the last `allocate`
returned; a release sets it back, so that two refusals with a release between
them are two events for the refinement. The hit/miss counters are left out: only a log line reads them.
`Allocate(bytes)` is the whole function, early returns included (zero bytes is
rounded to one unit, no block: refused without a change); `Release` merges with
both neighbours, and is about an offset where a live block starts. For any other
offset the code returns false without a change; `ArenaTakes` in `SessionMemory`,
the only caller, has that case.

### SessionMemory

A pointer is an integer: arena units first, then addresses of the driver;
`device_free` distinguishes them by range, and so does `InArena`. `pools` and
`scanPools` are `num_pool_domains/pool_base/pool_size` and their `scan_pool_*`
copies; `scratch` are the grow-on-demand buffers; `stack` the functions running
(`main_graph` first) with the pool views each has been given; `inflight` the
buffers that kernels on the stream still use.

| Action | Code |
|---|---|
| `DeviceAlloc`, `DeviceFree` | `hipdnn_ep_state_device_alloc/free`: arena, else hipMalloc; a release to the arena synchronises the device; a pointer that is no live block is only complained about (`ArenaTakes`), so that a wrong free shows in the properties and does not disable the step |
| `GetPool`, `EnsureScratch`, then `GrowFree`, `GrowAlloc` | `hipdnn_ep_get_pool_base`, `ensure_workspace` and its siblings. A growth is three steps, because the GPU and a failing hipMalloc come between synchronise, free and allocate |
| `PoolInit`, `NoPoolInit` | `hipdnn_ep_pool_init` in `inference_init`, if the size is known |
| `EnterScan`, `LeaveScan` | the swap of the three pool fields in `run_scan` and its refusal of nesting |
| `EnterLoop`, `LeaveLoop` | `runLoopImpl` and `run_if`, which do not swap |
| `Iterate` | the next call of a body |
| `Launch`, `Retire` | a kernel that refers to a buffer or view the running functions hold, a view whose memory was freed (`Dangling`) included; the GPU finishing it |
| `Compute`, `ComputeDone` | around `main_graph`; on the error paths that skip the wait, kernels stay in flight |
| `Cleanup`, `CleanupStep` | `hipdnn_ep_state_cleanup` in its order: synchronise, scratches, pools, Scan pools, arena |

### HipGpuAllocator

`AllocImpl` is one locked step (`Alloc`: class hit, class miss, large hit, large
miss), then unlocked driver calls (`Release` of what was retired, one buffer at a
time; `DriverAlloc`; `DrainAndRetry`; `RetryFails`) and a locked registration
(`Register`). `Free` is `FreeImpl`; what it gives to the driver goes by the same
unlocked `Release`. `owned` is the driver's table: an address may be handed out
again as soon as it is back, to any thread. `held` is what the callers have. The
size classes and the heuristics (`ReplacesLiveBuffer`, `ReplacedByLiveBuffer`,
`Outgrown`, `Aged`, `LargeCapacity`) use the code's numbers.
The `std::vector`/`std::deque` order inside a class or bucket is abstracted to a
set: which of several equal buffers is taken is a free choice.

### InferenceCompute

A session's inference is a program counter (`run[s].pc`) that moves through
`prepare`, `graph`, `read`, `free` or `error`, and `returned`, one action per
call the generated function makes. The GPU is one queue per session (`stream`),
executed by `Gpu`; a thread waits only where the code synchronises. `content`
tells for each staging buffer whose input it holds. `FreedInputs` models what
`free_input` does with a TensorBuffer that was never written: a value from the
stack, which may look like an address of the pool (`Wild`). `Return` is the rest
of Compute: slot cleared, return code logged, completeness guard, status 0.
External pieces (the HIP driver, the kernels, ONNX Runtime's calls) appear only
through what the code in `src/` asks of them.

Failures are of two sorts, and a run record has a field for each. `failed` says that
something failed; `reported` that somebody was told: a kernel that raises the flag,
`hipdnn_ep_state_set_error_flag` after its wait, or a call of the interface that
returns a status. What is not reported: an operator whose status the generated call
drops (`DropStatus`, as `wrap_hipblasLtMatmul`), a `MemrefCopy` that only prints, with
some of its rows queued or none, and a `SetErrorFlag` whose own copy or wait fails. In
the last case the queued copy reads a code from a stack frame that is gone, and may be
executed during the next inference.

### PoolPlan

The state is the pass's own: a source function (`kind`, `lastUse`, `dimAt` and the
option `lifetimeOnly`, chosen in `Init` and never changed), `slot`/`slotLast` of
`OptimizeMemRefs`, `domains` of `partitionByDominanceDomain`, and `unit`, `bin`,
`slab`, `packed` of the packing. Every action is one turn of a loop of the code:
`AssignSlot`, `AssignDomain`, `PackStatic`, `PackSmall`, `PackGroup`, `AssignSlab`.
`SlabWidth`, `Offset` and `PoolSize` are the arithmetic of phase 5, evaluated for
given dimensions. The order of equal static sizes is free, because `llvm::sort` is
not stable. The last use of a buffer (`findLastAliasedUseIndex`) is an input.

### LoopDriver

`stream` is what is submitted and not executed: per iteration one `Copy` and
`Kernels` kernels of the body. The host's actions are the steps of
`ensureLoopBuffers`, then `Iterate`, `CheckCond` (event recorded and waited for),
`LeaveLoop`; `EnsureFails`, `IterateFails`, `CheckCondFails` are the error returns, which
leave what is already there. `ExecuteCopy` and `ExecuteKernel` are the GPU. The
pinned array is named by its capacity, so a copy that was submitted before a growth
reads `Garbage` after it. A kernel records what it read in `seen`.

### OpTables

`store` is the WeakStore (per operator, one device), `slot` the `shared_ptr`s of the
sessions; a table dies with the last of them. `entry` is a table's entry of the one
problem shape, `tuner` the holder of its `tune_mu`. A MatMul is `QueryMatmul`,
`EnsureMatmul`, `Check` and `Lock` (the two reads of `tuned`), `WriteAlgo` and
`PublishTuned` or `GiveUp`, then `RunMatmul`, which reads the algorithm without
a lock; while it is being overwritten the entry is `torn`. A Gemm is `QueryGemm`,
`Select` (benchmark, unlocked), `PublishGemm` (`try_emplace`), `EnsureGemm`, `RunGemm`.

## 3. The runs

`LoopDriver` and `OpTables` state fairness and check a liveness property; the other
modules' `Spec == Init /\ [][Next]_vars` has invariants, action and refinement
properties.

| Run | Instance | Distinct states | Shows |
|---|---|---|---|
| `TransientArena` | 7 units plus a remainder; requests 0, 1, 4097, 3 units, all, and more than all | 6 014 | NoOverlap, NoLostUnit, Coalesced, WholeWhenIdle; the refinement of `RegionAllocator` |
| `SessionMemory` | arena of 2 units, 1 driver block, 2 domains, 2 scratches, Scan, depth 2 | 1 039 222 | SlotsOwnMemory, InFlightLive, HeldIsOutstanding, CapturesIntact, ViewsAreCurrent, NothingLeft |
| `SessionNested` | arena of 3 units, 1 domain, 1 scratch, Scan and Loop, depth 4 | 737 333 | SlotsOwnMemory survives nesting; a Scan body and all it calls take nothing of the functions that wait for it (ScanCapturesIntact) |
| `SessionLoop` | Loop only | violation | finding 1 |
| `HipGpuAllocator` | 2 threads, 3 addresses, a pooled size and 64, 65, 66 MB | 1 775 716 | OnePlace, RegistryExact, CoversRequest, LiveAccounting, RetainedWhileGrowing; the refinement of `BufferService` (ImplementsService) |
| `InferenceCompute` | 2 sessions, 2 threads, 3 buffers, 1 input, 2 inferences each, failing operators, reported or not | 3 219 551 | StagingExclusive, KernelsReadOwnInputs, WorkDoneAtReturn |
| `InferenceFaults` | 1 session, 1 thread, 2 inputs, 3 inferences, every failure | 6 673 557 | ErrorReturned, CallbackLive |
| `PoolPlan` | 3 buffers: empty, static of 1 and 3 bytes, 1 or 2 bytes times `n` or `m`; alignment 2; dimensions 0, 1, 3; both options | 284 160 | LiveBuffersDisjoint, WithinPool, DomainsInOrder |
| `LoopDriver` | 3 loops of at most 2 iterations, 2 kernels per body | 322 087 | BodiesReadOwnInputs, LoopsComplete |
| `OpTables` | 2 sessions, 3 tables, 4 operator calls, 0, 1 or 3 candidates | 301 530 | TablesShared, RunsCovered, SettledAlgo, OpsReturn |
| `InferenceReport` | 1 session, failing operators | violation | finding 2 |
| `InferencePrepare` | 1 session, failing inputs | violation | finding 3 |

### The properties in words

* **The arena** – `NoOverlap`: no unit is in two blocks. `NoLostUnit`: every unit
  is in a block. `Coalesced`: free blocks never touch. `WholeWhenIdle`: nothing
  handed out means one free block. `ImplementsAbstract`: the free list *is* a lowest-fit allocator – in
  particular it never refuses a request that a hole could serve.
* **Session memory** – `SlotsOwnMemory`: every allocated block belongs to exactly
  one slot, whose recorded size it covers. `InFlightLive`: no kernel refers to
  memory that was given back. `HeldIsOutstanding`: the statistic matches, so its
  unsigned subtraction cannot wrap. `CapturesIntact`: what the comment in
  `run_scan` demands of a body. `ViewsAreCurrent`: the caller finds its own pools
  again. `NothingLeft`: cleanup returns everything before the arena goes.
  `ScanCapturesIntact`: an action property of Scans among Loops. While a Scan body runs,
  no step of it or of what it calls gives away or frees a view of the functions that
  wait for it, although a Loop *inside* the body shares the body's pools (finding 1) and
  a Loop *around* the Scan may have broken views before it began.
* **The GPU allocator** – `OnePlace`, `RegistryExact`, `CoversRequest`,
  `LiveAccounting` (the counters the heuristics read agree with what callers
  hold), `RetainedWhileGrowing`. `ImplementsService`: with `held` read as what is granted
  and `owned` as what backs it, the allocator is a `BufferService`. The locked sections,
  the driver calls between them, retiring, draining and aging are invisible to a caller,
  except that buffers come from somewhere; in particular a pooled buffer serves a request
  of its capacity although it was allocated for another one, keeps its bytes until it
  goes back, and after the destructor nothing backs anything.
* **Inference** – `StagingExclusive` and `KernelsReadOwnInputs` (staging buffers
  shared by sessions on independent streams), `WorkDoneAtReturn` (nothing of an
  inference that returned 0 is still queued, on any stream), `ErrorReturned` (a
  failure that was reported is in the return code, however the GPU's queue was ordered,
  and a nonzero code is never about an earlier inference; for what is *not*
  reported see section 6), `CallbackLive` (the slot never points to a dead stack frame).
* **Memory planning** – `LiveBuffersDisjoint`: buffers of the *source* function that
  are alive together end in different pools or on disjoint bytes, after reuse,
  grouping and packing, for every value of the dimensions. `WithinPool`: they are
  aligned and inside the size asked of `hip.get_pool`. `DomainsInOrder`: each domain has
  a place for its pool, and domains follow each other, which is why looking at older
  ones never helps.
* **Loop** – `BodiesReadOwnInputs`: a kernel reads its own iteration's number, and
  runs only while the condition holds. `LoopsComplete`: every loop returns, and one
  that reports success is executed as often as ONNX says.
* **Operator tables** – `TablesShared`: one table per operator, for all sessions,
  alive while used. `RunsCovered`: whatever algorithm is launched fits the workspace
  of the launching session and is not half overwritten. `SettledAlgo`: a published
  choice never changes. `OpsReturn`: every call returns.

### Bounds, and why they are enough

* *Arena*: seven units give every shape of merge (left, right, both, none) with
  blocks on either side, and requests on both sides of each rounding. The proofs
  remove the bound.
* *SessionMemory*: the sizes make a request fit, grow inside the arena, fall out
  of it to the driver, and fail there. `MaxInFlight` = 1 kernel suffices because
  `InFlightLive` speaks of one kernel at a time. `VIEW Deciding` drops the
  high-water mark and the last answer, which no action and none of the run's
  properties reads. `MaxDepth` bounds nesting: 2 shows a caller and a body, 4
  reaches a Loop in a Scan in a Loop, and the refusal of a Scan in a Scan. `SessionNested`
  is small enough without a view; its third unit holds a grown pool of the caller
  beside a pool of the body.
* *HipGpuAllocator*: three addresses allow a live buffer, an idle one and one
  in the driver's hands; with sizes one growth step apart every heuristic takes
  both outcomes. `VIEW Ages` maps `large_ops_` and the stamps to ages, cut at the
  age beyond which `Aged` cannot tell them apart, so the run has no bound on the
  number of operations. Symmetry in threads and addresses is sound: nothing
  orders them, and the view commutes with it.
* *InferenceCompute*: `MaxRuns` = 2 or 3 lets a flag, slot, stream pointer or
  staging buffer left behind by one inference meet the next one. `Faults` names
  the failures a run explores: with every kind at once on two sessions the state
  space is out of reach, hence two runs. In `InferenceFaults` one thread suffices: the
  flag and the slot belong to the session, which serves one inference at a time. Staging buffers have one size; the pool
  is keyed by exact size in the code, so sizes do not interact.

* *PoolPlan*: three buffers are the least with reuse of a reused slot, a gap between
  two placed buffers and a slab of groups with different factors. Alignment 2 with
  coefficients 1 and 2 separates small from grouped. A larger instance with four
  buffers of kinds static 1, static 3, 1 times `n`, 2 times `m` also passes (1.5
  million states).
* *LoopDriver*: three loops let a failed loop, one that grows the array and one that
  runs ahead follow each other; two trips show a carried condition; two kernels a body
  that is cut short. Three trips pass too (1 780 628 states).
* *OpTables*: two sessions suffice for every race about an entry. Each operator has
  at most one live table, and a third table stands for a new one beside an expired
  pointer. Lists of 0, 1 and 3 candidates
  cover the default algorithm, no choice, and a first guess that is neither the
  smallest nor the largest. Three sessions with three calls pass too (1 295 615
  states).

`CHECK_DEADLOCK FALSE` stands where the system really stops: a session that was
cleaned up, an allocator that was destroyed, inferences used up, a process that
`LOG(FATAL)` ended. The arena never stops, and its run checks for deadlock.

`PoolPlan` ends with its plan, and `LoopDriver` and `OpTables` when the calls are
used up.

**Fairness.** `LoopDriver` assumes weak fairness of `Driver` (the host thread inside a
driver keeps running; it waits only in `hipStreamSynchronize` and
`hipEventSynchronize`) and of `Gpu` (submitted work is executed). Nobody must start a
loop or clean up. `OpTables` assumes weak fairness of each session's operator call.
`std::mutex` promises no fairness between waiting threads, and weak fairness promises
none either: a waiter gets in because the number of calls is bounded, and because a
tuner always leaves the lock. The other modules assume nothing.

## 4. What is proved

`tlapm` checks every leaf; nothing is assumed but the named `ASSUME`s.

* `TransientArenaProofs`, from `ArenaAssumption` (the region and the requests are
  natural numbers): `ArenaTypes`, `ArenaNoOverlap`, `ArenaNoLostUnit`,
  `ArenaCoalesced`, `ArenaWholeWhenIdle`, `ArenaImplementsAbstract`.
  The inductive invariant is `TypeOK /\ NoOverlap /\ NoLostUnit /\ Coalesced`.
  None of the last three is inductive alone: a merge keeps blocks apart
  (`Coalesced`) only if nothing overlaps, and tiles the region only if nothing
  was lost. The argument treats a state as a *tiling* of the units and has two
  geometric lemmas: splitting a tile leaves a tiling (`SplitTiles`), and merging
  adjacent tiles does (`MergeTiles`). `ArenaWholeWhenIdle` follows from the
  invariant: a free block that did not start at 0 would have a neighbour.
  The refinement uses that the maximal runs of vacant units are exactly the free
  blocks (`FreeIsVacant`, `VacantIsFree`), so the lowest block that is long
  enough is the lowest hole that is.
* `SessionMemoryProofs`, from `SessionAssumption`, for every arena, number of domains,
  scratches and driver blocks, every set of sizes and every depth of nesting.
  With bodies of every kind: `SessionTypes`, `SessionSlotsOwnMemory`,
  `SessionHeldIsOutstanding`, `SessionNothingLeft`, `SessionScanCapturesIntact`. The invariant is `SessionInv`. Its core, `OwnInv`, says that the slots (scratches,
  current pools, the pools on the other side of a Scan) *divide* the allocated blocks:
  each block has a slot, no two slots have the same one, and a slot's size is no larger
  than its block. It is not inductive alone. A growth frees and allocates in two steps,
  so `CallInv` says whose growth is under way and that the stream is idle before the
  free; the swap of a Scan renames the slots, which preserves the division only if
  at most one Scan is active and its frame is where the other pools are (`StackInv`);
  a domain beyond `num` must have no buffer (`PoolsInv`). The memory itself
  (`MemoryInv`) carries the arena's own inductive invariant, whose lemmas are
  used through `INSTANCE`. `HeldIsOutstanding` is a sum over addresses; it moves by the
  block that is taken or given back (`SumChanges`).
  `SessionScanCapturesIntact` needs `ViewsHome` besides (`HomeInv`): every view that a
  function holds is Null, dangling, or what is *now* in the slot it was given from, in
  the current pools for the Scan body and what it calls and in the saved ones for those
  that wait. Two slots never share a block (`OwnInv`), so the current pools' growths free
  and get nothing of the others.
  `SessionInFlightLive`, `SessionViewsAreCurrent` and `SessionCapturesIntact` have the
  hypothesis `ScanBodiesOnly` (no Loop or If body), because the code breaks all three
  without it: that is finding 1. A Loop body that grows its caller's pool leaves the
  caller a freed view, and a kernel of the caller then runs on it. Their invariant,
  `ScanOnly`, adds to `HomeInv` that nothing dangles, neither a view nor what a kernel
  uses, because a function holds no view of the pool that it is about to grow.
* `HipGpuAllocatorProofs`, from `RequestsAreBytes`, for any number of threads, addresses,
  sizes and any growth tolerance: `AllocatorTypes`, `AllocatorOnePlace`,
  `AllocatorRegistryExact`, `AllocatorCoversRequest`, `AllocatorLiveAccounting`,
  `AllocatorReleasedAtTeardown`, `AllocatorRetainedWhileGrowing`,
  `AllocatorImplementsService`.
  `Retention` is inductive by itself: a step adds to the large pool only while the
  counter of grown buffers stays positive, and the step that lowers it to zero empties
  the pool in the same critical section. This is where it matters that the code counts
  the buffer it checks in as no longer growing *before* deciding to keep it.
  The others share `IInv`, which says where every address of the driver is: registered
  and held by a caller whose request it fits (`RegistryInv`), registered and idle under
  its own capacity (`IdleInv`), or unregistered and in the hands of exactly one
  thread, on its way to or from the driver (`HandsInv`). The last part is what the
  unlocked windows need: an address the driver hands out again cannot be one that
  another thread still has to release.
  `AllocatorImplementsService` goes through the actions: each locked section and each
  driver call is one `Acquire`, `GiveUp`, `Grant` or `TakeBack`, `Destroy` is `Close`, and
  every other step is a stutter. A grant needs that what is idle under a capacity, or
  on its way from the driver to a caller, has exactly those bytes in the driver's table
  (`RegistryInv`, `IdleInv`, `HandsInv`); a give-up, that what a thread still has to release nobody holds.
* `InferenceComputeProofs`, from `CountsAreNumbers` and `MarkersDiffer`, for any number of
  sessions, threads, inputs, outputs, buffers and runs.
  `ComputeErrorReturned` and `ComputeCallbackLive` hold for every set of failures. Their
  invariant, `FaultInv`, speaks of the future: `Outcome` is what the device error flag
  will be when the queued work is done. Until the flag is read, that outcome is true if
  something was reported to it and only if something failed. A raise that an earlier
  inference left queued comes before the reset, so it does not count. Failures that
  nobody reports may change neither side, and the theorem says nothing of them.
  `ComputeTypes`, `ComputeStagingExclusive`, `ComputeKernelsReadOwnInputs` and
  `ComputeWorkDoneAtReturn` have the hypothesis `OperatorFaultsOnly`: failures
  come from operators. With a failure before the final synchronisation the inputs go
  back to the pool while copies are queued, and TensorBuffers nobody filled go with
  them (finding 3, and the hazards at `GenerateInterface.cpp:952` and `:957`).
  `OperatorInv` adds that the stream holds only the running inference's own work on its
  own buffers, copies before kernels (`StreamInv`), and that a staged input is in its
  buffer or its copy is queued (`ContentInv`).
* `OpTablesProofs`, from `TablesAssumption`, for any number of sessions, calls and
  candidate lists: `OpTypes`, `OpTablesShared`, `OpRunsCovered` and the action property
  `OpSettledAlgo`. A rely-guarantee argument: what is claimed of a thread (`ThreadInv`)
  speaks of its own state and of the entry it works with. Its own steps establish it;
  of another thread's step it relies on `Undisturbed`, that is, the entry only
  *matures* (the candidates stay, the need shrinks to something below `largest`,
  tuned stays tuned) and rests while the thread holds `tune_mu`.
* `PoolPlanProofs`, from `PlanAssumption`, for any number of allocations, kinds,
  alignment and values of the dimensions, with both options: `PlanTypes`,
  `PlanDomainsInOrder`, `PlanLiveBuffersDisjoint`, `PlanWithinPool`.
  `PlanInv` has a part per pass. `ReuseInv`: a folded buffer fits its slot, and the
  tenants of one slot follow each other in time; it is inductive because the last
  use of a slot is that of its newest tenant. `DomainsInv`: the domains are consecutive
  runs of the program, hence an allocation that fits an older domain would fit the
  newest. `PackInv`: what is alive together has different units (best fit in a gap,
  or behind everything) or different bins, and groups in one slab are never
  alive together. When a domain is packed, the emitted arithmetic is shown to
  stack static allocations, slabs and buckets (`SlabsStacked`, `BucketsStacked`), each
  as wide as its contents (`SlabWidthIs`). There units become bytes: a
  group multiplies its units by one factor, so disjoint units stay disjoint for every
  value of it, and a slab's width, the maximum over *different* factors, is
  aligned in both cases the code distinguishes.
* `LoopDriverProofs`, from `LoopAssumption`: `LoopTypes` and
  `LoopBodiesReadOwnInputs`, for any number of loops, trips and kernels. What a kernel
  reads depends on everything submitted before it, so the invariant treats the stream
  as a queue of promises. `StreamInv`: each kernel is preceded by an element of its own
  iteration (or finds its number in `loop_iter_dev` when it is first), and each
  copy reads the array that is now allocated – true because growth waits for an
  empty stream. `CondHolds`: no kernel of a loop without failed predecessors has
  behind it an element that may still lower the condition. `SetterAwaited`: an element
  that sets the condition is in the stream only while the host waits for it, or its
  loop failed. `ReadyToIterate` and `HostInv` say what the host knows when it submits.
  None is inductive alone: `Iterate` needs `ReadyToIterate`, which `CheckCond` gives
  because the stream is then empty.

`FiniteSetFacts` replaces induction over data, which the installed provers cannot
instantiate, by least counterexamples: a nonempty set of naturals has a least element
(from the well-foundedness of `<`), a finite one a largest, and a recursive sum over
`0 .. n` exists and has the values one expects. Sums in the models are therefore
recursive *functions* (`SumTo`, `BytesBelow`), not folds over sets.

Every invariant of the passing runs is the conclusion of
a theorem, and so are both refinements (`ArenaImplementsAbstract`,
`AllocatorImplementsService`). Every action property is one too (`OpSettledAlgo`,
`SessionScanCapturesIntact`). Model-checked only: the liveness
properties `LoopsComplete` and `OpsReturn` (fairness and `ENABLED` are out of the
prover's reach), and the instances that the two hypotheses above exclude. What
`SessionNested` says of ownership with Loop and Scan bodies is covered by the
unconditional theorems.

## 5. Findings

1. **Loop and If bodies share their caller's pools** (`SessionLoop`,
   `CapturesIntact`). `run_scan` swaps the pool arrays and says why: domain ids
   restart at zero in each function. `runLoopImpl`
   (`hipdnn_ep_runtime_loop.cpp:246`) and `hipdnn_ep_run_if` do not. The run shows
   a body given the pool its caller still uses, and a growth that frees it.
2. **A reported operator failure ends as success** (`InferenceReport`,
   `FailureIsNotSuccess`). `arg_max.cpp:55-58` wants a failure to land in the
   error flag lest it "looks like success"; the flag does become
   `inference_compute`'s return code (`ErrorReturned` holds for what is reported), but
   `MlirCustomOp.cpp:806` logs a nonzero code and the provider returns no status.
3. **Unprepared inputs are freed** (`InferencePrepare`, `FreesPreparedInputs`).
   `hipdnn_ep_runtime.h:638` documents `free_input`'s argument as a TensorBuffer
   from `prepare_input`; the cleanup block frees all of them, also when
   `prepare_input` failed on the first and the rest is uninitialised stack.

## 6. What holds that one may not expect

* `RetainedWhileGrowing` survives the window in which the buffer a request was
  judged against is freed before the request registers.
* The wait in `inference_compute` is doubled by the one in
  `hipdnn_ep_state_read_and_clear_error_flag`: staging would be safe with either.
* That a nonzero code is never about an earlier inference (`ErrorReturned`) rests on
  the reset at the *start* of an inference: a nonzero flag is left set by the read, and
  a `set_error_flag` whose wait failed leaves a raise on the stream.
* `WorkDoneAtReturn` rests on `begin_compute` publishing the stream for *every*
  inference, because `memrefCopy` takes the stream of its thread.

* A MatMul's workspace is sized for all candidates while tuning is pending, and for
  the chosen one afterwards. A session that sized it before and launches after
  another one has chosen is still covered (`RunsCovered`): all candidates were the
  ones it had to cover.
* Looking for a domain among older ones never finds more than the newest offers
  (`DomainsInOrder`).

Observations that are no findings of a run, as the models exempt or exclude them:

* Some operator failures are never reported. `hipdnn_ep_runtime.h:439-440` says that
  generated graphs "discard most wrap_* statuses, so a nonzero status must also be
  stored" in the error flag. `wrap_hipblasLtMatmul` returns -1 without storing it
  (`matmul.cpp:466-582`; the call drops it at `MatmulLowering.cpp:206`), and
  `memrefCopy`, which has no status, only prints (`hip.cpp:188`, `228`, `247`, `294`).
  Both are in the model, and `ErrorReturned` therefore speaks of reported failures. For
  `run[s].failed => run[s].ret # 0` when an inference returns, TLC has a counterexample
  of 12 states with one session and `Faults = {"op"}`.
* `BodiesReadOwnInputs` speaks of the condition only if no loop failed before. A
  dynamic loop that fails in `checkCond` leaves bodies on the stream; the next loop
  writes `*cond_host = 1`, and a late body may overwrite it. The comment at
  `hipdnn_ep_runtime_loop.cpp:220-223` ("no host-vs-stream race") does not consider
  it. Without the exemption TLC finds it in 18 states.
* The return value of the Loop and Scan drivers is dropped by the generated code
  (`LoopLowering.cpp:397`, `ScanLowering.cpp:316`), the body trampoline returns 0
  always: the graph goes on after a loop that failed, which is how the above can occur.
  It is one more failure that is never reported; the models do not have it, because
  `InferenceCompute` does not call the Loop driver.
* `autotuneMatmul` is meant to run once per shape. If no candidate can be measured it
  leaves the entry untuned, and the next call tunes again, and may overwrite
  `entry->algo` while the first caller, out of the lock, reads it. `RunsCovered` exempts
  entries with such a retry (`retried`).
* `gemm.cpp:104` says of concurrent misses that the last writer wins; `try_emplace` keeps
  the first, which is what `SettledAlgo` needs.
* With the JIT each session has its own copy of the runtime (`LlvmIrJit`), so that
  the "process-wide" stores of `op_state.h`, `matmul.cpp` and `gemm.cpp` and the staging
  pool are per session there. The models describe sessions of one image.
* Loop, If and Scan bodies also share the host scratch of their caller: every
  function starts at its offset 0 (see the hazards).

## 7. What is not modelled

* Data races on containers: the staging pool is an unlocked map that two sessions
  may use at once; each call is one step here, so the sharing of buffers is
  covered and a torn map is not.
* Two concurrent `Run`s of one session: the runtime documents one inference per
  state at a time and the models keep that precondition.
* Staging after the failures that skip the synchronisation: in `InferenceFaults`,
  which does not claim `StagingExclusive`.
* Pinned host scratches, constants loading and library handles of the session;
  `finalize_output`, which generated code no longer calls.
* Numerical kernels, pattern rewriting, dialect conversions, file formats, logging,
  profiling. They are most of the repository's lines (190 000, in files of pure
  computation): sequential functions from a term or a tensor to another, without
  state that outlives a call. A state machine of them would restate them.
* Data races on plain words that are not modelled as separate steps: only
  `entry->algo` of MatMul is (`torn`).
* `PartitionPoolDomains.cpp` of the Hipsr dialect, a pure function over one list;
  `AssignOpStateSlots.cpp`, which numbers operators; devices beyond one in `OpTables`
  (their keys share nothing).
* The plugin loader's unlocked store and the provider's lazily created helpers, which
  rely on ONNX Runtime's setup calls not being concurrent.

## 8. Plan

In order of importance:

1. The host scratch in `SessionMemory`, with the bodies that share it, and the
   theorem that says what remains true of it.
2. Caches that an inference fills under a device pointer (`gqa.cpp:159`,
   `sparse_attention_indexer.cpp:19`) in `InferenceCompute`: when a pooled address is
   reused within one inference they may be stale.
3. Theorems about inferences that fail before the final synchronisation: which of
   the staging properties survive, and under which weaker hypothesis.
4. Liveness, with TLC: an Alloc returns under a driver that answers; an inference
   ends under a GPU that progresses.
