# A verification project for DrivingSDK

DrivingSDK makes third-party training code (mmcv, mmdet, mmengine, ...) run on
Ascend NPUs. It is a Python package, `mx_driving`, over C++ bindings and AscendC
kernels. Most of the repository is numerical or vendored; the project takes the
parts that keep state, react to failures or depend on the order of things:

- the **patcher** (`src/mx_driving/patcher/`), which replaces functions of other
  packages at run time and takes over parts of Python's import machinery. It runs
  once, at the start of every training job, and when it goes wrong the job trains
  with the wrong operators and says nothing;
- the **training loops and optimizer hooks** it puts in place, in jobs that crash
  and are resumed;
- the **samplers** that divide a dataset over the ranks of a distributed training;
- one multi-core **kernel**, `UniqueV2`, whose cores share memory and synchronise
  through flags and barriers.

## 1. The system

### Components

| Component | Source (under `src/mx_driving/`) | State | Operations |
|---|---|---|---|
| Patcher | `patcher/patcher.py` 228-450, 834-977 | timeline `_entries`, `_blacklist`, `_applied`, `_resolved_class_patches`, `_collected_patches`, profiling and brake options | `add`, `disable`, `with_profiling`, `brake_at`, `print_info`, `apply` |
| Patch objects | `patcher/patch.py` | `is_applied` per object; the attributes of other packages they overwrite | `BasePatch.apply` of `AtomicPatch`, `RegistryPatch`, `LegacyPatch` |
| Logger | `patcher/patcher_logger.py` | event actions, buffers, rank, summary options; one instance per process | `applied`, `skipped`, `failed`, `add_*`, `configure`, `configure_summary`, `set_rank`, `flush_summary` |
| Import control | `patcher/patcher.py` 452-665, 978-1180 | `sys.modules`, the attributes that link modules, `_skipped_modules` | `skip_import`, `replace_import`, `inject_import`, stubs and their finder |
| Lazy imports | `patcher/patch.py` 646-825 | a resolved flag and a cell per decorated function | `with_imports` |
| Legacy builder | `patcher/legacy.py`, `patcher/__init__.py` | the calls recorded by the old API | `PatcherBuilder`, function patches |
| Versions | `patcher/version.py` | the cached mmcv version | `check_mmcv_version`, `ensure_mmcv_version` |
| Training loops | `patcher/mmcv_patch.py`, `patcher/mmengine_patch.py` | iteration counters, profiler, accumulated gradients | the patched `run`/`train` loops, brake, profiling, `OptimizerHook` |
| Framework patches | `patcher/mmdet_patch.py`, `torch_patch.py`, ... | none | replacement bodies |
| Samplers | `dataset/agent_dataset.py`, `dataset/utils/` | buckets, epoch, the order drawn from it | bucketing, the three samplers, the batch sampler |
| Sparse modules | `modules/sparse_*.py` | `indice_dict` shared by the layers of a model | convolution layers |
| Kernel UniqueV2 | `../kernels/unique_v2/` | two workspace buffers, a flag per core and event, counts per block | tiling, sorting, a tree of merges, deduplication, output |
| Operators, bindings, other kernels, ONNX plugin | `ops/`, `csrc/`, `../kernels/`, `../onnx_plugin/` | the hash buffer of `OpApiCommon`; device queues | numerical code |
| Examples, build, CI | `../model_examples/`, ... | none at run time | |

### Interactions

- A **patcher** calls a **patch object**, which overwrites attributes of packages
  and returns results; for each it calls the **logger**.
- The **logger** answers by returning, by raising `PatchError` or by
  `sys.exit()`, whichever action is configured, so reporting an event may end
  `apply()` half way. All patchers of a process share its buffers.
- **Import control** runs the bodies of other modules in the middle of
  `replace_import()`; they import again and see `sys.modules` as it is then.
- **Training-loop patches** are added to the timeline by `apply()` itself when
  profiling or the brake is asked for.
- **`with_imports`** is the one place in the patcher that several threads can
  enter at the same time.
- A patched **training loop** calls the optimizer hook and mmcv's checkpoint hook
  after every iteration; what a crash leaves is the last checkpoint.
- The **samplers** of different ranks never talk to each other; they agree because
  they seed the same generator with the same epoch, and meet in the collective
  operations of the trainer.
- The cores of a **kernel** share the workspace and meet in barriers (`SyncAll`)
  and flags (`IBSet`, `IBWait`).

### What is hard, and the properties that make each part correct

| Part | Hard behaviour | What must hold |
|---|---|---|
| Patcher | an exception in the middle of `apply()` keeps its effects, and `apply()` may be called again; two caches (children of classes, collection) that calls invalidate in different ways | no patch object twice on its target; nothing disabled gets in, nothing incompatible goes together; order of insertion; every patch reported; a finished patcher is inert |
| Patch objects | aliases and legacy functions may fail half way | the flag `is_applied` tells the truth |
| Logger | reconfiguration while events are buffered; rank read at first use | a failure that must stop is never buffered away; events are neither lost nor repeated |
| Import control | re-entrant imports, failing bodies, both orders of registration and import | no real package hidden by a stub; skipped and replaced modules stay so and can be reached |
| Lazy imports | first calls from several threads | each decorator once; never a call of nothing |
| Training loops | `==` on counters, groups of gradients, crashes, resumed runs | the brake fires exactly at its step; every optimizer step takes a mean; no batch is trained twice; the loss scale survives |
| Samplers | padding, short buckets, ranks that draw independently | an epoch covers the dataset; all ranks get the same number of batches; all or none fail |
| UniqueV2 | any interleaving of the cores, duplicates across blocks, padding | no unordered access to shared memory; the output is sorted and has no duplicates; every core returns |

`PROJECT.json` lists each hazard with its line.

## 2. The modules

| Module | What it is |
|---|---|
| `PatcherLogger` | the logger; its operators (`Log`, `FlushSummary`) are used by `Patcher` |
| `Patcher` | patcher, patch objects and logger together |
| `ApplyContract` | the abstract specification of `apply()` |
| `PatcherRefinement` | the refinement mapping from `Patcher` to `ApplyContract` |
| `ImportControl` | `skip_import`, `replace_import` and stubs on the import machinery |
| `WithImports` | lazy imports under several threads |
| `TrainingLoop` | the patched loops and optimizer hooks in a job that crashes and resumes |
| `Samplers` | bucketing and sampling on all ranks of a training |
| `UniqueTiling` | how UniqueV2 divides its input; pure operators, used by `UniqueV2` |
| `UniqueV2` | the cores of the kernel |
| `PatcherProofs`, `ImportControlProofs`, `WithImportsProofs`, `TrainingLoopProofs`, `SamplersProofs`, `UniqueV2Proofs` | theorems about the module of that name; `PatcherProofs` also about the logger and the refinement, `UniqueV2Proofs` about `UniqueTiling` |
| `UniqueV2SortProofs` | that the cores of the kernel sort the tensor together, drop its duplicates and write the result |
| `SequenceFacts` | lemmas about numbers, sequences and recursive functions that these share |
| `MC...` | finite instances for TLC |

### PatcherLogger

`buf` holds the four lists that `flush_summary()` prints and clears: a sequence of
patch identities per section. `action`, `buffered`, `summaryOn` and `show` are the
configuration; `rank` is `Unset` until a path that prints reads the environment
(`envRank`). `Log(b, e, p)` is a pure operator, one call of `applied()`,
`skipped()` or `failed()` with the buffers `b`: it returns the new buffers, the
rank and how the call ends. As an operator, `Patcher` can make two calls of it
in one step, as `_apply_single_patch` does when its `except` clause reports what
the first report raised. Left out: wording, the levels (four levels are one
action `"log"`), and `error()`, `warning()`, `info()`, `debug()`, which keep no
state but the rank.

`LoggerNext` lets any caller do anything at any time, `configure()` in the middle
of buffered events included. Inside `Patcher` the configuration is chosen in
`Init` and then fixed, as an entry script does.

### Patcher

- **Timeline.** `entries` is `_entries`: a Patch class (whose `patches()` makes
  new objects on demand) or a patch object. Objects are numbered in the order they
  are made: `<<batch, position>>` is the identity of one, so making the children
  of a class anew is a visible fact (`resolved` is `_resolved_class_patches`).
- **Effects.** `attr[s]` is what a target attribute `s` carries: the layers that
  wrap it, the outermost last; a replacement discards what is below. `done` is
  the set of objects with `is_applied`.
- **Control.** `pc` is the piece of `apply()` that runs next: `check`,
  `bootstrap`, `collect`, `run` (`info` for `print_info()`); `at` is the index
  of the loop over the entries, `todo` what the loop over patches has left. A
  piece is what lies between two calls that can raise, so each exception finds the
  state the code leaves behind.

| Action | Code |
|---|---|
| `AddClass`, `AddDirect`, `AddSameObject` | `add()`; `completes = FALSE` is the call that a bad later argument ends with `TypeError` after this one was appended, before the caches are invalidated |
| `Disable`, `WantLoopPatches`, `PrintInfo` | `disable()`, `with_profiling()`/`brake_at()`, `print_info()` |
| `StartApply` | `apply()` up to the conflict check, `_add_training_loop_patches` included |
| `CheckConflicts` | `_check_conflicts()` |
| `BootstrapEntry`, `BootstrapDone` | `_apply_bootstrap_patches()` |
| `CollectEntry`, `Collected` | `_collect_all_patches()`; `CollectionRaises` is `patches()` raising |
| `SkipDisabled`, `PassOver`, `Attempt` | one turn of `_apply_single_patch()` with its report |
| `FinishApply` | the end of `apply()`: `_applied = True`, `flush_summary()` |

What a patch does is any member of `Results(a)`: a status and the slots written
when it ends. For `AtomicPatch` and `RegistryPatch` the status is that of the main
target and each alias may have been written or not; a `LegacyPatch` may have
written anything, whether it returns or gives up. Target resolution and prechecks are behind this
choice.

### ApplyContract and PatcherRefinement

`ApplyContract` is what a caller of `apply()` may rely on, without caches, objects,
flags and logger: targets change only in a call that found no conflict, for one
enabled patch at a time; bootstrap patches come first, then the patches of the
whole timeline, each once and in order; a call that returns has settled all of
them and is final, one that gives up rolls nothing back and leaves the patcher
open for another. `PatcherRefinement` maps `pc` to its `phase`, what the loop has
behind it to `settled`, and drops the identity of the objects from `attr`.
`MeetsContract` is the refinement as a property. The contract lets a patch be
written again by a later call: that no *object* is layered twice is `OncePerObject`
and that a retry may nest wrappers is the run `nested`.

### ImportControl

`kind[p]` is what `sys.modules` holds for a path; `linked` is the set of paths
whose parent has an attribute that is *this* module. The calls under way form a
stack: an `import` frame looks in `sys.modules`, imports the parent, asks the
finders and runs the body (which may import anything in `BodyImports` and may
raise); a `replace` frame imports the replacement's own requirements
(`BaseImports`), registers the replacement and goes up through the parents, as
`replace_import()` and `_register_parent_packages()` do. The import machinery is
not in the repository; it is modelled as far as the code relies on it and
marked external.

Two simplifications: a replacement made on a base that is a package takes over its
`__path__` (`patcher.py:637`), where the model takes a replaced module to have none; and
below a loaded module without a `__path__` the probe of `skip_import()` asks for the full
dotted name on all of `sys.path` (`patcher.py:1084`), which is taken to find nothing.
The attributes a replacement exports are data and left out. `Init` is a process
that has loaded none of the paths; everything already imported is an `Import`
before the first control.

### WithImports

`resolved` and `cell` are the two variables that all calls of one decorated
function share; `pc`, `at`, `bound` and `held` are the local state of a call:
where it is, its loop index, the names it has put in `new_globals` and the
function it has read and not yet stored. Importing a module and calling a
decorator run other code, so each import spec is a step, and a decorator is two:
`ReadCell` (the argument is read) and `StoreCell` (the result is written). A
function is abstracted to the names bound in its globals and the decorators around
it. `available` grows: some modules can be imported only later. A call that
Python re-enters in the middle of an import is one of the interleavings of two
threads. A decorator of `Stubs` comes from a stub module and is used without arguments:
called with the function, the stub returns `None` (`patcher.py:1035`), on which a later
decorator may raise. Decorator expressions and the older `apply_decorators` list are one
sequence. Left out: the attributes copied from the original function (the copy
goes to whatever the cell holds, with the same values for every thread), and the
static and class method wrappers.

### TrainingLoop

A job is one process at a time. `iter`, `epoch`, `drawn`, `flow`, `count`,
`grads`, `scaler` are in the memory of the process and lost in a crash
(`Restart`, at any point); `ckpt` survives, and `Launch` is `resume()`. A batch is
its position in the order of the data, a gradient the batch with the number its
loss was divided by, and `params.seen` the gradients the optimizer was stepped with.
Loops and hooks are the code's: `job.loop` and `job.hook` choose among the four
patched loops and the four hooks. What surrounds them is mmcv's own runner and
checkpoint hook, read from the copy vendored in `model_examples/FlashOCC/mmcv`
(mmengine's is not in the repository; `Validate` stands for it). `TrainIter` is a
batch with the optimizer hook, the first of the hooks after an iteration;
`CheckpointIter` the checkpoint hook after it; `CountIter` the counters and the
brake. Left out: the profiler, which only watches, gradient clipping, logging; a run resumed
on another number of devices, for which `resume()` scales `_iter`
(`base_runner.py:384-393`); a `loss_scale` that is a fixed number, which `update()` then sets
again after every step (`mmcv_patch.py:491-493`, `514`): the model's is dynamic.

What the model keeps because the code does it: `IterBasedRunner` saves the number
of the iteration under way, so a resumed run repeats one iteration number with new
data; its `resume()` leaves `runner.meta` alone, so `Fp16OptimizerHook.before_run`
finds no scaler; the loader of `IterBasedRunner` begins anew after a resume while
mmengine's is advanced; `brake_at(0)` is dropped (`patcher.py:918`).

### Samplers

Each rank draws its list for the epoch (`Draw`: `set_epoch()` and `__iter__()`),
takes batches (`TakeBatch`) and meets the others in `AllReduce`, which waits for
all. `orders[e]` is what the generator makes of epoch `e`: chosen once among the
results of `bucket_arange` (`Arrangements`) and the same for every rank that asks,
as the seed is the same. Samples are numbered in the order the dataset sorted them
in, so a bucket is a range; the three ways of bucketing are operators. `given` is a
history variable. A rank may be an epoch ahead of another between two collective
operations.

### UniqueTiling and UniqueV2

Buffers are addressed as in the code: pairs of a key and an index while sorting, packed
keys afterwards, both in the same memory, and `ReadAt` may fall in front of a block.
An action is what a core does between two synchronisations, or one round of a merge
(`MergeRound`): the instruction `MrgSort` takes from up to four queues until one is
exhausted, and which of equal keys it takes is left open (`Taken`). `Ascending` stands for
the sort of a tile and of what a round has taken: its i-th key is the least one that i keys do
not exceed. `cur`, `bind`,
`group`, `waits`, `eventID` are the locals of `BlockSortV2` and `GlobalSortV2`.
Keys are not negated, and are the values after the `Cast` of an integer tensor to float (the
documentation asks for integers within 2^24, beyond which two may become one). `SyncAll`, `IBSet` and `IBWait` are external; flags are
per core and event and consumed by the wait. The initial contents of
`lastTileUniqueVal`, which has no initialiser, are chosen from `Stale`. `ByteRange` is the
256 of a `uint8_t`, at which `lastQueTileNum` may wrap; `BlocksFit` says that no block of a call
has more tiles than that, and `OrdinaryCalls` that no block of several tiles begins with
infinity. `UniqueTypeOK` has two halves: `ControlOK`, what each core keeps of its own, and `MemoryOK`, what is in the
workspace.

## 3. What is checked

| Run | Expect | Question |
|---|---|---|
| `lifecycle` | pass | one patcher through every order of calls, logging leniently |
| `retry` | pass | `apply()` cut short by any event action, and called again |
| `logger` | pass | the logger under any caller |
| `imports` | pass | import controls and imports in any order |
| `first_calls` | pass | two threads call a lazily resolved function for the first time |
| `training` | pass | jobs that crash anywhere and are resumed |
| `samplers` | pass | ranks that draw their samples independently |
| `unique` | pass | up to five cores sort and deduplicate a tensor |
| `nested` | violation | "repeated `apply()` never nests a wrapper" |
| `skip_action` | violation | "`exception` raises for every event" |
| `skipped_leaf` | violation | "a skipped module can be reached by its name" |
| `unique_infinite` | violation | "the result is sorted and deduplicated", for tensors whose infinite elements fill whole blocks |

### Properties

*lifecycle*
- `NoConflictWhileApplying`: past the conflict check, no two enabled classes
  exclude each other, although classes were added, repeated and disabled in any order.
- `EveryPatchAccounted`: when the loop is done each patch of the timeline, as it stands
  and not as it was when a collection was cached, is in the right section of the report.
- `DisabledStaysOut`: no step layers a patch that is disabled by its own name or
  by the name of its class; the blacklist changes between attempts and the caches
  survive it.
- `MeetsContract`: `Patcher` implements `ApplyContract`. Its difficulty is a
  collection cached by `print_info()` and not invalidated by an `add()` that raised,
  the bootstrap patches that are met again in the main loop, and calls that give up
  anywhere.

*retry*
- `OncePerObject`: whatever failed and however often `apply()` was called, no
  object is twice on its own target. It holds of patches whose flag tells the
  truth (`Flagged`): a legacy function may give up half way, and an alias that
  raises after the main target was written leaves an effect without a flag.
- `AppliedSectionExact`: until `apply()` returns, the buffered Applied section is
  exactly the set of objects in effect, each once, over all retries.
  The children of a class that are made anew are other objects: that these may
  wrap their predecessors is the run `nested`.
- `StrictFailureStops`: under `on_fail="exception"` a failing attempt ends the call.
- `ApplyEnds`: every `apply()` returns, raises or ends the process.

*logger*
- `FailureNeverSwallowed`, `SummaryHonest` (rank 0, whole sections, silent events
  hidden unless asked for).
- `NoEventLost`: an event stays in its buffer until all buffers are emptied together, and
  rank 0 empties them only into a summary that shows each section that is asked for,
  however buffering, actions, rank and summary are reconfigured in between.

*imports*
- `RealNotShadowed`: a path on disk is a stub only if it was skipped itself or lies
  below something that is not the package on disk.
- `ReplacementReachable`: after `replace_import(p)` has returned, `import p` leads
  to the replacement through its packages' attributes, whatever failed since.
- `SkipHolds`, `LoadedNotReplaced`: a skipped module stays a stub; a loaded one is
  not replaced.
- `CallsEnd`: imports that import each other end.

*first_calls*
- `NeverCallsNothing`: no interleaving makes a call find the cell empty.
- `ExactWhenAlone`: if no two resolutions overlapped, the function that is run has
  every working decorator once and in order (one that follows a stub may be missing), also after attempts that an import
  cut short. The premise matters: threads that overlap *do* lose decorators (one
  rebuilds the bare function under the other) and *do* double them.
- `ClosedOnceSettled`: after the last resolution nothing is imported again and the
  function is final.
- `CallsReturn`: every call ends, however threads overtake each other.

*training*
- `StepsTakeMeans`: the shares of the gradients of one optimizer step add up to one,
  in the shorter last group too; only the first group of a process resumed in the
  middle of one is lighter, and none is heavier.
- `EachBatchOnce`: whatever crashes, no batch trains the parameters twice, and none is
  left out when groups do not span epochs; a run that reaches its end leaves no
  gradient behind. The loader of `IterBasedRunner` is excepted, see above.
- `BrakeStops`: a process that began before the step of the brake stops exactly there;
  one that began there or beyond never does. (A checkpoint saved at the step resumes such a
  process; the step is the same for all processes of a job.)
- `ScalerKept`: the scaler remembers every overflow over all resumptions, except under
  `IterBasedRunner`, where it forgets those of earlier processes.
- `RunEnds`.

*samplers*
- `EpochCovered`: over all ranks every sample is trained in every epoch, and as few of
  them twice as the padding takes; with `drop_last` none twice and fewer left out
  than there are ranks.
- `SameBucket`: when every bucket holds a sample for each rank, the batches that meet in
  one collective operation come from one bucket, which is what these samplers are for.
- `EpochsEnd`: no rank waits for one that has no batch left; samplers raise on all ranks
  before any of them trains, or on none.

*unique*
- `RaceFree`: what one core is about to write no other core is about to read or write,
  the copy of a sorted block back to the first buffer included.
- `SortedTogether`: when duplicates are dropped, all cores look at the same buffer and it
  is the sorted tensor, whatever the shape of the tree of merges.
- `ResultExact`: the output is the sorted set of the elements, infinity once.
- `OutputAgrees`: cores that write the same place of the output (a key on the boundary
  of two blocks) write the same key.
- `Terminates`: every core returns; no wait is for a flag that nobody sets.

### Bounds, and why they are enough

- `MCPatcher`: two slots, because a patch with an alias needs two; three classes
  (one bootstrap, two that exclude each other), one with two children so that a
  batch has an order; two direct patches, one legacy. `MaxEntries = 3` is room for
  a class, its repetition or its enemy and a direct patch, and for a class and the
  training-loop patches of two attempts. `MaxSessions = 2` (3 in `retry`) allows a
  failed call and its repetition. `MaxBatches` is never reached. `Disablable`,
  `DirectAtoms` and `LateAdds` say what the caller of one run does; a run that
  varies the logging varies the timeline less.
- `MCPatcherLogger`: one identity and one buffered event per section: events do
  not interact beyond their section, and longer buffers add nothing but size.
  Two ranks: 0 and another one.
- `MCImportControl`: a package with a subpackage, a leaf and a sibling whose body
  raises, and a package that is not on disk: every combination of present and
  missing parent two levels deep. `OwnBases`: the replacements import at most the
  missing package. One that itself imports the module it replaces does load it and
  overwrite it (`patcher.py:594` looks in `sys.modules` before the import), and
  `LoadedNotReplaced` fails for it; it is listed as a hazard, since nothing in the
  repository says what should happen.

- `MCWithImports`: two threads are enough for one to be overtaken at every step;
  two import specs (a whole module, and names of one that may raise or come later),
  four decorators: one that needs each spec, the second of them from a stub module, one that
  may raise, and one that may raise on what the stub returns.
- `MCTrainingLoop`: groups that divide the run, that do not and that are longer than
  it; checkpoints inside a group; brakes at 0, inside and after the run; workflows
  with validation before and after training. `MaxRestarts = 2` lets a resumed run
  crash again; `MaxSkips = 1` overflow per process.
- `MCSamplers`: five samples on two and three ranks (padding of one, buckets smaller
  than, equal to and larger than the ranks), two epochs. Left out: an
  `AgentDynamicBatchSampler` over fewer than half as many samples as ranks, where
  only the ranks past the end raise and `EpochsEnd` fails for the others.
- `MCUniqueV2`: tiles of two elements instead of 8192. All tensors of up to five
  elements over three keys on two and five cores, and longer ones that need two levels
  of merges inside a block and over the blocks, keys that run over several blocks
  and whole blocks of padding. `BufferLen` is scaled with the tile so that merges take several
  rounds. `Ordinary` leaves out the calls in which the last block has several tiles and
  begins with infinity, and those in which nothing but infinity fills several blocks. Of the 56
  short ones TLC finds a wrong result in 51 (`unique_infinite` shows one); the others are tensors of
  nothing but infinity on few cores, for which the float in front of the buffer that
  `CopyOut` reads happens to be an index.
- `ConfigEvents` and `ConfigSections` leave out reconfigurations that only repeat
  another event's; `RecordImport` stands for the three kinds of import event.

`CHECK_DEADLOCK FALSE`: the runs of `Patcher` stop at their bounds or when an
action `"exit"` ends the process, and the logger's when its buffers are full and
nothing else is left to vary. `imports`, `first_calls`, `training`, `samplers` and
`unique` are checked for deadlock. `skipped_leaf` needs no such check.

### Fairness

`WF_vars(Proceed)` in `Patcher` and in `ImportControl`: a call that has begun is
run by its thread and does not stop between two steps. Every step of it is a finite
piece of Python, so weak fairness is what the interpreter gives. `Call`, what the
script does, has no fairness. In `WithImports`, `WF_vars(Proceed(t))` for each thread:
it holds no lock of its own and the interpreter switches between runnable threads
for ever. (Python's import locks are the import machinery's and not modelled.) The logger needs none: each of its calls is one step.
In `TrainingLoop`, `WF_vars(Work)`: a process goes on, and a crashed job is launched
again; crashes have no fairness and are bounded. In `Samplers` and `UniqueV2`,
`WF_vars(Work)` over all ranks or cores: as long as one can go on, one does. Nothing
more is assumed, since each of them has finitely much to do; a rank or core that is
blocked is blocked by the others.

### Disagreements between the code and what is said of it

1. **`nested`**: `tests/patcher/test_patcher.py:703` says that a second `apply()`
   does not apply patches again and lines 712-713 that this prevents nested
   wrappers. After an `apply()` that raised (`on_fail="exception"`), with profiling
   or a brake, the retry adds the training-loop patches (`patcher.py:931`) with
   `add()`, which drops the cached children; the wrappers of the first attempt
   are made anew and wrapped around themselves.
2. **`skip_action`**: the docstring of `configure()` (`patcher_logger.py:259`) says
   `"exception"` raises `PatchError` for every event. `applied()` and `skipped()`
   buffer first and return, so with the default buffering only `on_fail` raises.
3. **`skipped_leaf`**: `docs/zh/features/patcher_features.md:125` says importing a
   skipped module succeeds and yields a stub. A submodule skipped before its
   package on disk is imported is found in `sys.modules` by the import machinery,
   which then does not set the attribute: `import pkg.leaf` succeeds and
   `pkg.leaf` raises `AttributeError`.

4. **`unique_infinite`**: `docs/zh/api/context/npu_unique[beta].md:11` says the result
   is sorted and has no duplicates, and the comment at `unique_v2.h:201` that an
   infinite element is appended to it. A tile of nothing but infinity yields no key;
   `lastTileUniqueVal` (line 94, no initialiser) is then compared before it was
   written (line 586), and `CopyOut` reads the element before a block whose count is
   0 (line 620), so the length of the result depends on stale memory.

Seen while modelling, without a run of its own:

- `docs/zh/features/patcher_features.md:562` documents `("module", "attr", "alias")`
  as an import with an alias. `with_imports` takes each element after the first for
  an attribute (`patch.py:763`), does not find `alias`, and leaves the name unbound;
  its docstring describes what it does.
- `lastQueTileNum` (`unique_v2.h:436`) is a `uint8_t`. A block of more than 256 tiles
  is merged with runs of 256. When no remainder is left the last run is a whole one, its
  length 256 wraps to 0 and it is not merged; a remainder fits and is right. Theorem `WideRunsLost` proves the wrap, `RunsCoverGroup` that nothing of
  the kind happens below it.
- `AgentDynamicBatchDataLoader` passes its sampler inside `batch_sampler`, where
  a trainer's `set_epoch()` does not find it, and its `shuffle` and `batch_size` are ignored.
- A run resumed from a checkpoint at the step of the brake is not stopped by it.
- A function decorated lazily with a stub used without arguments becomes `None`
  (`_StubModule.__call__`, `patcher.py:1035`), and calling it raises `TypeError`.
- The host allots `(blockNum + 31) / 32 * 32` bytes for the counts of the blocks
  (`unique_v2/op_host/unique_v2.cpp:60`); the kernel addresses `(blockNum + 7) / 8 * 8` of
  four bytes each (`unique_v2.h:165-166`), which for more than eight blocks is more. The
  model has no sizes.

## 4. What is proved

Every theorem holds for all values of the constants, from the `ASSUME` of its module
alone (TLC evaluates the assumptions of a module on every run of it). Some have a
hypothesis besides: `LoadedStays` that replacements are independent of what they replace;
`Sorted`, and the theorems that rest on it, that no block has more than `ByteRange` tiles
(`BlocksFit`); and those about the result, that infinity fills no block of several tiles
and not the whole of several blocks (`OrdinaryCalls`). The code does not guarantee the last two: what it does without them is
`WideRunsLost` and the finding of `unique_infinite`.

| Theorem | Property |
|---|---|
| `TypeCorrect` | `TypeOK` |
| `ConflictSafe` | `NoConflictWhileApplying` |
| `DisabledNeverApplied` | `DisabledStaysOut` |
| `StrictStops` | `StrictFailureStops` |
| `OnceEach` | `OncePerObject` |
| `AppliedReported` | `AppliedSectionExact` |
| `AllAccounted` | `EveryPatchAccounted` |
| `Implements` | `MeetsContract` |
| `LoggerTypes`, `FailureStops`, `NothingLost`, `SummaryExact` | `LoggerTypeOK`, `FailureNeverSwallowed`, `NoEventLost`, `SummaryHonest` |
| `ImportTypes`, `RealStays`, `SkippedForGood`, `ReplacementHolds` | `ImportTypeOK`, `RealNotShadowed`, `SkipHolds`, `ReplacementReachable` |
| `LoadedStays` | `LoadedNotReplaced`, assuming `BasesIndependent` |
| `TypesKept`, `CallsSomething`, `AloneExact`, `SettledIsFinal` | `WithImportsTypeOK`, `NeverCallsNothing`, `ExactWhenAlone`, `ClosedOnceSettled` |
| `LoopTypes`, `BrakeExact`, `StepsAreMeans`, `ScalerFollows` | `TrainingTypeOK`, `BrakeStops`, `StepsTakeMeans`, `ScalerKept` |
| `BatchesOnce` | `EachBatchOnce` |
| `SamplersInvariant`, `TypeCorrect` (of `SamplersProofs`) | `SamplersInv`, `SamplersTypeOK` |
| `AllCovered`, `OneBucket` | `EpochCovered`, `SameBucket` |
| `UniqueInvariant`, `ControlTypes` | `UniqueInv`, the half `ControlOK` of `UniqueTypeOK` |
| `NoRaces` | `RaceFree` |
| `Sorted` | `SortedTogether`, assuming `BlocksFit` |
| `Packed` | `UniqueInv`, `DataOK` and `PackOK`, assuming `BlocksFit` and `OrdinaryCalls` |
| `UniqueTypes`, `Exact`, `Agrees` | `UniqueTypeOK`, `ResultExact`, `OutputAgrees`, assuming the same |
| `BlocksPartition`, `RunsCoverGroup`, `WideRunsLost` | the tiling and the runs of a merge |

**Patcher.** `TypeOK` is not inductive: that `todo` and a cached collection point into
the timeline, and that their classes are resolved, depends on where `apply()` is.
`ControlInv` says this for each `pc`, and `CoreInv == TypeOK /\ ControlInv` is
inductive; one lemma per action carries it over. On top of it:

- `ConflictSafe` needs that neither the timeline nor the blacklist changes between
  the check and the end of the call, which is part of `ControlInv`.
- `LayersFlagged` (an own layer of a patch with a truthful flag belongs to an object
  in `done`) is what makes `OncePerObject` inductive: an object is attempted only
  when it is not in `done`.
- `PassedPatchesAccounted` (each patch of the collection the loop has passed is in
  the right section) is `EveryPatchAccounted` for the middle of the loop, and lemma
  `LoopsFollow` says that the collection is that of the timeline: the loops go through the
  bootstrap classes and the patches of the timeline as it stands (`LoopsFollowTimeline`),
  so no cache is stale there.
- `Implements` maps each action to one of `ApplyContract` or a stutter. It needs
  `LoopsFollow` too, and `AppliedAtRest` (an applied patcher has no call under way).

**Import control.** `ImportInv` adds `StackInv` to the types: a module whose body
runs is in `sys.modules` and so is its package, a registered replacement and the
packages its loop has passed stay, and no call inside another removes a module
the outer one relies on, so that a body that raises cannot pull the ground from
under the calls that wait. `ReachInv` says that every replaced module and every
package above it can be reached (`Held`), and that no call under way is about to
remove or unlink one (`Spares`). `LoadedStays` is the one theorem with a hypothesis on
the constants beyond the assumptions of its module: `BasesIndependent`, no replacement
imports, however indirectly, the module on disk that it replaces (without it the
statement is false, see the bounds of `MCImportControl`; it is trivially true of a replacement
made of exports alone, and TLC evaluates it for the run). `BaseInv` follows the import of a
replacement: the calls inside it stay among the modules it needs (`Spared`), so that none of
them loads the module whose absence was checked before.

**Lazy imports.** `NeverCallsNothing` needs `CellFilled`: from `Build` on the cell is
never empty, and a thread about to store has read a function. `ExactWhenAlone`
needs `AloneInv`: without overlap at most one thread resolves, none after the flag
is set, and the cell is exactly what its loop has made so far (`Decorated`).

**Training loops.** `LoopInv` adds to the types where each loop may stand (`Placed`),
what a checkpoint may hold (`Saved`) and the group under way (`Grouped`): the
gradients that wait are the iterations since the last multiple of the group or the
start of the process, without a gap, each divided by what `LossFactor` says. Lemma
`GroupShares`, integer arithmetic over `div` and `mod`, then gives that a group that
ends is divided by its length. `ScalerKept` is inductive with the same statement
about the checkpoint. `EachBatchOnce` is inductive with `TrainedInv`: of loops other than
`IterBasedRunner` the loader stands where the run does, after a resume too (`LoaderKept`),
and the optimizer has been given the batches behind the group under way in their order, and
without a gap where groups do not span epochs, by the process and by the checkpoint
(`History`); of all loops, a run at its end has no gradient left (`Flushed`).

**Samplers.** Two things are proved of one list before any rank moves. A list that
`bucket_arange` can return lists every sample once and, when each bucket holds a sample for
each rank, is level: the k-th samples of the ranks' shares come from one bucket
(`Arranged`). The padded or cut list (`Even`) is then dealt: the shares hold each of its
positions once. The induction over the buckets is in the model's own terms: `FlattenSeq` is a recursive function,
and what its n-th value is follows from the well-ordering of the natural numbers
(`NatMin`, `FlattenSteps`, `FlattenPlaces` in `SequenceFacts`), which needs no operator as
a parameter. `SamplersInv` says of the running system that what a rank has been `given` in an
epoch is exactly the first part of its share (`GivenOK`), that ranks take the same number
of batches between two collective operations (`InStep`), and that every order drawn is arranged
(`OrdersOK`). `AllCovered` counts: positions of the padded list are
dealt once each, so only samples the padding repeats are trained twice, and with
`drop_last` fewer are left out than there are ranks. `OneBucket` is `InStep` with
levelness: ranks that meet are at the same batch of their shares.

**UniqueV2.** `RaceFree` compares what one core will write with what every other core will read
or write in its next step. `UniqueInv` keeps cores from each other with three arguments,
one for each phase between barriers (`PhaseOK`):

- `SortingOK`: a core's merges stay inside its own block.
- `GatheringOK`: a core is `Active` while it still has a run to merge on its level. One that
  leads a group owns the blocks of the runs it has waited for, since no core of them is
  active any more (`LevelOK`), and a flag that is set announces such a run (`FlagOK`): the
  flag of a core that leads a level must come after its merge, and the wait before the
  next read.
- `PackingOK`: all cores merged equally many levels, and the chain of the flags of the
  last event goes through the cores in their order.

It rests on the tiling: blocks do not overlap (`BlocksPartition`), and the runs of a merge stay
inside their group even where `lastQueTileNum` wraps, so the loss of a run (`WideRunsLost`)
is not also a race. The assumptions are the range of a `uint8_t`, `ByteRange <= 256`, and that a
call has at least two elements and a device from two to `ByteRange - 1` cores, the number
that `unique_v2.cpp:34` keeps in a `uint8_t`.

`Sorted` is about what the memory holds. "Sorted" is said with counts: the keys of a part of the
workspace do not decrease, and as many of them are at most x as of the tensor, for every x
(`Holds`). For two sequences of which both hold, equality follows key by key, with no
permutation in between, and a round of a merge moves counts from the queues to the output.
`DataOK` is inductive relative to `UniqueInv` and says where these parts are: on its level of
`BlockSort` a core has the runs it has not merged in the current buffer and those it has in the
other (`BlockData`), in a merge under way the output is sorted, no key of it
exceeds one that is left in a queue, and the counts of both add up (`Merging`);
the same on the levels of `GlobalSort` for the blocks of the runs a leader has
waited for (`RunsWaited`), and a flag that is set announces a whole sorted run in the
buffer its reader will look at (`FlagData`). That the other cores leave these parts alone is what
`UniqueInv` says. `NoFlags` is needed to know that no flag of an earlier
level is left for a later one to find. The hypothesis `BlocksFit` keeps the counters of
`BlockSortV2` from wrapping: `WideRunsLost` is what happens to a block of more
than 256 tiles, and TLC evaluates `BlocksFit` for the calls of the run `unique` (`CallsFit`).

`Exact` is about the output, and `PackOK` carries it from the second barrier to the end. Let
`Tidy` be the sorted tensor and `Values` its keys once each, in increasing order.

- While a core drops duplicates (`PackedAt`), the front of its block holds each finite key of the
  tiles it has passed once (`KeptTiles`), `uniq` is their number, `lastVal` the last of them,
  and what is behind is still `Tidy`: a tile never writes beyond what has been read, because
  it keeps at most as many keys as it has elements. A tile begins with the key
  kept last or with a greater one, so comparing these two is enough.
- A tile keeps a key that differs from the next one, and its last key if that is finite, so
  it never keeps infinity; the last core appends it once. Here `OrdinaryCalls` is
  needed: a block of several tiles begins with a finite key, so its first tile keeps one, and `lastVal` is never compared before it is written.
- `Before(b)` adds up the counts of the blocks in front and takes off the keys that two of them
  share. By induction over the blocks (`BlockRanks`) it is the rank, among `Values`, of
  the first key of block b. A block of padding or infinity alone has the count 0, and the element
  that `SameAcross` then reads is an index left by the sort in the block before: no key, and in
  the first of several blocks there is a finite key, by `OrdinaryCalls` again.
- So every core writes a part of `Values` at its own place (`BlockCopied`), from which follow
  that cores agree where they overlap (`Agrees`), that the last core knows the length, and
  that nothing is left out when all have returned (`ValueKept`, `PackedResult`).

Only model-checked:

- the liveness properties `ApplyEnds`, `CallsEnd`, `CallsReturn`, `RunEnds`, `EpochsEnd` and
  `Terminates`, outside the prover's reach;
- `ResultExact` beyond the hypotheses of `Exact`: it is false of some of these tensors, and the
  run `unique_infinite` shows one.

## 5. What is not modelled

- Of the patcher: `allow_internal_format()` sets a flag of `torch_npu`; the text of
  `print_info()` and of the summary is layout; `inject_import()`, the resolution of
  dotted targets, prechecks one by one and the runtime dispatch of a wrapped function
  are behind the choice `Results(a)`. The legacy builder translates calls. The
  version cache is one variable.
- Of the training loops: the profiler, which needs its external schedule.
- Of the datasets: the `agents_num` file that ranks may write at the same time,
  collation, point transforms.
- The index cache of the sparse modules, the hash buffer of `OpApiCommon`.
- Operators, bindings and the other kernels: numerical code. Of the kernels that share memory
  between cores, the others use barriers alone.
- Examples, build files, CI. `model_examples/` vendors whole third-party frameworks and
  is by far the largest part of the repository's lines; together with operators and
  kernels it is why a small share of all lines is modelled. The code of the SDK that
  keeps state is a few thousand lines of Python and the kernel named above.

## 6. Plan

1. `PatcherLogger`, `Patcher`, their contract, runs and proofs. *Done.*
2. `ImportControl`, its run and proofs. *Done but for* `inject_import()`.
3. `WithImports`, its run and proofs. *Done.*
4. `TrainingLoop`, its run and proofs. *Done but for* the profiler.
5. `UniqueV2` and its tiling, with the proofs that its cores do not race, sort the tensor
   and write the result. *Done.*
6. `Samplers`, its run and proofs. *Done but for* the `agents_num` file.
7. `AtomicPatch`: targets, aliases, prechecks, `runtime_check` and stubs, refining
   the choice `Results(a)` of `Patcher`.
8. `SparseConv` (the shared index cache), the legacy builder, the version cache.
