# A TLA+ model of RWKV Lightning CUDA

RWKV Lightning CUDA serves RWKV-7 language models: a C++/CUDA inference server
behind HTTP, a Go router that spreads requests over several such servers, a Go
launcher with a Web UI, and programs that train adapters. This directory holds
TLA+ modules of its parts, TLC configurations that check them on small
instances, and TLAPS proofs for every size. `PROJECT.json` links every
definition to the source lines it models, and lists the hazards of the code at
the lines where they bite.

To check a run: `tlc -config Server.cfg MCServer` in this directory (the module
of every configuration is in `PROJECT.json`, "runs"). To check proofs:
`tlapm SchedulerProofs.tla`.

## The system

A generation waits in the prefill admission controller (in dynamic mode it also
leases the resident model from the model router), has its prompt prefilled in
chunks and its tokens decoded by the scheduler's owner thread, and gets its text
through a callback on its own thread. Stop and pause requests from other HTTP
threads set flags in the request registry, which admission and scheduler read.
When it ends, its state goes to the session cache or to the paused requests.
The Go router forwards such requests to workers, and keeps track of which worker
has which adapter or uploaded state; the launcher starts the server, and tuning
and quantization jobs, as its children. Training runs in processes of its own,
or behind the online server, which serves policies while it updates them.

| Component (source) | State | Hard because | Modules |
|---|---|---|---|
| Continuous-batching scheduler (`rwkv_inference_engine.cpp`) | queues, rows, groups of device slots, event queues | one owner thread and many callers; slow readers, callbacks that throw, device failures, shutdown at any point | `Scheduler`, `SchedulerProofs` |
| Prefill admission (`rwkv_prefill_admission.cpp`) | tickets, reservation, capacity | the capacity follows free VRAM; callers cancel and queries fail while queued | `PrefillAdmission` |
| Model router (`rwkv_model_router.cpp`) | resident engine, leases, FIFO of loads | leases race loads; loads fail | `ModelRouter` |
| Request registry, pause and resume (`request_registry.hpp`, `chat_routes.cpp`, `server_routes.cpp`, `session_routes.cpp`, `batch_routes.cpp`) | active and paused requests, the worker pool | stop, pause, finish and resume under one id, from different threads | `RequestRegistry` |
| Session states (`rwkv_state_cache.cpp`) | three levels: device, host, SQLite | read, generate, write is not atomic; evictions, crash between levels | `SessionStore` (promise), `StateCache`, `StateCacheProofs` |
| Device state (`rwkv7_fast_v4.cu`) | lanes of shift and recurrence arrays | rows packed, exported and copied lane by lane with different layouts | `BackendState` |
| Prompt prefix cache, cached prefill (`prefix_cache.hpp`, `prefix_cache_pool.hpp`, engine) | trie, LRU, buffer pool | eviction under readers; batches share snapshots | `PrefixCache`, `BatchPrefill` |
| Text assembly and stops (`text_stop_matcher.hpp`, `utf8.hpp`) | pending bytes, tail | characters and stop strings cut by tokens | `TextAssembly` |
| Sampler (`utils/sampling.cu`, `rwkv_sampler.cpp`) | the threshold search of a block | ties, limits, rounded sums | `Sampler` |
| Adapter cache (`miss/adapter.cpp`) | registry in RAM, residents on the GPU | two budgets, eviction under use | `AdapterCache`, `AdapterCacheProofs` |
| Uploaded states (`rwkv_uploaded_state_store.cpp`) | entries, handles, files | files outlive their entries; retries | `UploadedStateStore` |
| Online RL server (`online_rl/server.cpp`, `bf16_training/trainer.cpp`) | learner, policies, cache, checkpoints | publication and update may fail half-way; resume | `OnlineRL`, `OnlineRLProofs`, `Rollout` |
| Offline training (`bf16_training/main.cpp`, `trainer.cpp`) | trainer, checkpoint files | killed anywhere, resumed | `AdapterTraining` |
| Blocks and chunked backward (`bf16_training/*.cu`, `executor.cpp`) | tapes, carried gradients | gradients across chunk boundaries | `ChunkedBackward` |
| Weight loading (`rwkv7_fast_v4.cu`, `pth_tensor.cpp`) | tensors, two copy slots, streams | copies and conversions overlap | `WeightLoading` |
| Forward pass and dispatch (`rwkv7_fast_v4.cu`) | named buffers, tables | many paths, aliased buffers | `ForwardPass`, `LinearDispatch` |
| Linear and norm kernels (`cuda/rwkv7_v3a_ops.cu`) | threads, shared memory | alignment, tails, barriers | `WarpSums`, `BlockReduction`, `LinearKernels`, `NormKernels` |
| W8A16 kernels and tuning (`quant/gemmv/rwkv_w8a16.cu`) | pipeline stages, the tuning file | asynchronous copies; two writers of one file | `W8Pipeline`, `W8TileLoop`, `W8Dispatch`, `TuneCache` |
| Go router: choice of worker (`internal/router`: `scheduler.go`, `proxy.go`) | load, health, sessions | concurrent reservation and failure | `RouterScheduler` |
| Go router: placement (`adapter_placement.go`, `adapter_sync.go`, `state_placement.go`, `state_sync.go`, `resource_sync.go`) | placement per id, epochs | partial broadcasts, late effects, stale lists | `AdapterReplication`, `AdapterReplicationProofs`, `StateReplication` |
| Launcher: supervision (`main.go`, `api.go`, `devices.go`) | processes, jobs, cards | children exit, ignore stops, restart; handlers overlap | `Launcher`, `LauncherProofs` |

Not modelled: the other HTTP routes (parsing and formatting around these parts);
tokenizer and checkpoint formats (sequential parsing); the element-wise and
recurrence kernels, softmax, penalties and the random generator (floating-point
arithmetic without control); the launcher's registry, forwarding, file browser
and metrics; the Web UI. Two components are modelled in part: rounding of half
precision and fragment layouts are left out of the kernels, and the wrappers
that add no state out of the engine's batch entry points.

## How a module relates to the code

A module has the component's fields as variables, one action per critical
section, handler or step between two points at which another thread may run,
and the fairness that the component's threads justify. Where the code holds a
mutex for a whole operation the operation is one action; where it lets go, or
reads a flag or queue afresh, it is several. Some decisions worth knowing:

- **Scheduler.** Callers (`client[q]`) run `execute_prefill` and `generate`; the
  owner's counter `loop.pc` walks through `loop()`: arrive, admit, chunk, check,
  sweep, and for every group rebuild, sample, rebuild, forward, rebuild, with
  `fail` from any point at which the backend may throw. A walk over rows is one
  action per row, because each reads `cancelled` and the event queue afresh.
  Device slots carry whose state they hold and how many tokens it has consumed.
- **PrefillAdmission.** `acquire()` holds the mutex except in its 100 ms wait:
  each turn of its loop is one action. A capacity provider that throws inside a
  permit's destructor ends the process.
- **ModelRouter.** A lease is returned in two steps, its count and then its
  reference. An engine is named by the load that built it.
- **StateCache** implements **SessionStore**: a map from keys to states, each the
  sequence of turns it has been through; a crash may bring back an older state
  of a key, but none from before its last deletion. A turn is get, then put; a
  deletion lists the keys and erases them one by one.
- **BackendState, ForwardPass, NormKernels, LinearKernels, Sampler.** A value is
  named by what it was computed from, so that a wrong lane, buffer, term or row
  shows whatever the numbers are. Sums are integers; `Sampler` also runs with
  sums rounded to two bits. `ChunkedBackward` computes over residues modulo a
  prime with dual numbers, where the derivative is exact.
- **AdapterReplication, StateReplication.** One id, any number of handlers. A
  request to a worker may be lost before or after it took effect, be retried,
  and take effect after its deadline; a worker may restart.
- **Launcher.** `launch` and `Stop` run under `p.mu`; the goroutine that waits for
  the child is the action `Reap`. Handlers share `l.mu`. A child may ignore an
  interrupt; it ends when killed.

## Runs

A suite composes the modules of one side of the system: it EXTENDS one of them
and instantiates the others, and the variable `part` says which of them a
behaviour is about. The variables of the other parts stay `None` (those of the
extended module as they are at first), so a run's states are the sum of its
parts' states and not their product. `Parts` names the parts of a run; the
parts do not interact, the modules themselves hold the interaction.

| Run | Instance | Shows |
|---|---|---|
| `server` | two requests and four loads of two models (one may fail) and of an unknown id; a chat paused and resumed twice; a chat, its resume and a session on one worker, with a prefill that throws; a chat, its resume and a batch that do not stream, with exceptions in the queue and while generating | `LeasePinsModel`, `ModelIsConsistent`, `StateHasOneOwner`, `ControlReachesOwner`, `EveryCallEnds` (liveness) |
| `engine` | callers of 2, 1 and 0 rows under capacities -1, 1 and 2; texts of up to five bytes with three stop strings; ten tokens on four threads; rounded sums | `ReservedIsHeld`, `AdmittedInTurn`, `EveryoneServed` (liveness), `TextIsTheOutput`, `DrawIsProportional` |
| `stores` | three turns and a pause of two sessions with one place in each upper level, a deletion, a stop, a crash; two states of one and two lanes; three prompts in three buffers; two batches; a tuned server restarted four times | `CacheConsistent`, `ImplementsStore` (refinement), `StateIsItsHistory`, `LookupsAreTrue` |
| `adapters` | three versions of sizes 1 to 3 under budgets 5 (RAM) and 3 (GPU); uploads of state files under drawn ids, and under one given id erased and uploaded again while a request holds it; two processes and one tuning file | `WithinBudgets`, `RunningIsResident`, `LatestIsNewest`, `UploadsAreTrue` |
| `training` | an online server of adapters killed and resumed, one of states with a fault and the retry after it, rollouts of two requests on two threads, training cut once and resumed, gradients over chunks of 1 to 3, with a call that fails and the batch after it | `VersionNamesOnePolicy`, `LearnerIsExact`, `RolloutsAreTrue`, `RecoveryIsExact`, `GradientIsDerivative` |
| `kernels` | three layers loaded through two slots; forward passes of every path; products, norms and reductions on warps of 2 to 8; shapes on either side of every bound of the tables; pipelines of up to five tiles | `WeightsAreWhole`, `KernelsFit`, `ComputesTheModel`, `CallsStoreTheNorm`, `EveryLaunchEnds` (liveness) |
| `cluster` | two workers, three overlapping mutations of two versions with one fault (two for States); three workers of weights 1, 2, 1 with a failure | `MutationIsExclusive`, `PlacementsAreTrue`, `LoadIsShared` |
| `progress` | two handlers, a shutdown and a GPU job over two cards, with and without `--card`; two router calls of every kind with retries and a fault | `GpuExclusive`, `ShownIsReal`, `EveryoneEnds` (liveness) |
| `scheduler_safety` | call P of two rows that may be stopped and may refuse output, call Q of one row with a stop string; two slots; an event limit of 1; a group that may fail | `CompletionAccounting`, `RowHasOneHome`, `CallerOutlivesRows`, `SlotCap`, `OutputIsFaithful` |
| `scheduler_liveness` | one slot, a caller that may never read again, a prefill chunk and the destructor | `EveryoneReturns` (liveness) |
| `scheduler_refusal` (violation) | P of two rows whose emit may refuse | `StateCoversOutput` fails, see Findings |
| `adapter_deletion` (violation) | deletions and lists, one fault | `DeletedStaysDisabled` fails, see Findings |

A suite's property is a conjunction over its parts of the named properties of
the modules (`ShownIsReal`, for instance, of `TypeOK`, `StateIsTrue`, `ReadyIsReal`
and others); the comment above each says it in words.

**Bounds.** Each instance is the smallest in which its hazards meet: a row that
joins a running group, is set aside and comes back while another takes its
place needs three rows and two slots; an eviction that meets an old row of its
own key in the database needs two sessions and one place per level; a deferred
completion of one mutation during the next, while a third waits, needs three
calls; a shape, prompt or width lies on either side of every bound the code
compares with. Unbounded counters of the code are bounded by constants named
`Max...` in the guards of the environment's actions: faults, crashes, stops,
starts, calls, controls. Two bounds of `OnlineRL` are in the server's own
actions, because the request that asks for the step may also be refused or
change nothing: a `Train` that would be update number `MaxUpdates + 1` is not
taken, nor a `PublishBegin` that would be version `MaxVersion + 1`, and the
behaviour goes no further than that request. With a fault `MaxVersion` is 2, which reaches the
publication retried after an export that failed half-way; with restarts it is
1, and `OnlineRLProofs` covers every other value. `Symmetric` in the
cluster runs permutes calls and versions, in safety properties only. The adapter part of
`cluster` has no lists; `adapter_deletion` and `progress` have, and
`DeletedVersionsStay` proves the deletion of a version with them.
Requests and calls are one-shot in the suites, so those systems stop and
deadlock is not checked there; the scheduler's runs check it.

**Fairness.** Threads that are not waiting for the environment go on (weak
fairness for each handler, worker, owner thread, kernel warp and stream); an
attempt over the network has a deadline, so a handler goes on whatever is lost;
a killed child exits. Nothing obliges a client to read (`Stalled`), a request to
be stopped, a query or load to fail or to succeed, or VRAM to become free:
`EveryoneServed` says what follows if it does. Polling callers and permits are
fair because the calls under a permit end, which `EveryoneReturns` checks.

## Proofs

Eight modules hold theorems of a component's `Spec`, for every value of its
constants. Each states the types, then an inductive invariant that implies the
properties the runs check. What the proofs assume of the constants are the named
assumptions of the components (`ConstantsAssumption`, `CallersAssumption`,
`LauncherAssumption`, `ReplicationAssumption`, `StateCacheAssumption`,
`OnlineAssumption`, `BudgetAssumption` and so on): finitely many rows or callers where the code counts
them, positive limits, a group for every request. TLC evaluates them in every run.

| Module | Theorems | The invariant, and why the property alone is not inductive |
|---|---|---|
| `SchedulerProofs` | `TypeCorrect`, `RowsCompletedOnce` (`CompletionAccounting`), `SlotsWithinCap` (`SlotCap`), `RowsHaveOneHome` (`RowHasOneHome`), `CallersOutliveRows` (`CallerOutlivesRows`), `OutputStaysFaithful` (`OutputIsFaithful`) | Three layers, each proved on top of the one before. `IInv == TypeOK /\ Shape /\ CompletionAccounting /\ Capacity`: `remaining` stays a natural number only because it counts the rows not yet completed; the owner indexes slots by the positions of rows, which `Shape` keeps as many; `admit_pending()` compares a local count, not the groups, with the cap, and `Capacity` says that it is their number. `HInv` (where the rows are) and `OInv` (what the calls get): see below. |
| `ModelRouter` | `TypeCorrect`, `LeasesPinTheModel` (`LeasePinsModel`), `ModelStaysConsistent` (`ModelIsConsistent`), `QueueHoldsTheWaiters`, `ChangesAreUnleased` | The load in progress is the head of the queue, and the queue holds exactly the waiting threads: without both a second load could begin, or a thread that gave up could still be waited for. |
| `PrefillAdmission` | `TypeCorrect`, `ReservationsAreExact` (`ReservedIsHeld`), `QueueHoldsTheWaiters`, `AdmissionsAreInTurn` (`AdmittedInTurn`) | The queue is sorted by tickets all older than the next one, so its head is the earliest waiter; what is reserved is within the limit taken at start-up. |
| `AdapterCacheProofs` | `TypeCorrect`, `BudgetsHold` (`WithinBudgets`), `RunningStaysResident` (`RunningIsResident`), `LatestStaysNewest` (`LatestIsNewest`) | `gpu_bytes` is the sum over the residents and each resident is listed once, so an eviction subtracts what an admission added; whoever decodes leases a resident, and an eviction passes over what is leased; the order of registrations names the registered versions once each, and `latest_` is its last. |
| `LauncherProofs` | `TypeCorrect`, `GpusAreExclusive` (`GpuExclusive`), `PinBinds`, `StatesAreTrue`, `RestartsFollowExits`, `HandlersExclude` | A child uses the devices that were reserved for it when its handler looked, and a handler between its look and its launch holds the lock: so what it saw is still so. |
| `AdapterReplicationProofs` | `TypeCorrect`, `MutationsExclude` (`MutationIsExclusive`), `ReadyVersionsAreReal`, `AcknowledgedUploadsStay`, `DeletedVersionsStay` | A mutation owns the busy placement from beginning to completion, so that a deferred completion of an earlier one never finds its own. The epoch moves when a mutation begins and when it ends, so a list that is still fresh was taken while none was under way. |
| `StateCacheProofs` | `TypeCorrect`, `LevelsStayConsistent` (`CacheConsistent`), and while SQLite works `DeletedStaysGone` (`DeletedMeansGone`), `CacheImplementsStore` (`ImplementsStore`) | Each order names the entries of its level once. Whatever a level holds, even a row of the database hidden by a newer state, was put since the key's last deletion: a crash may uncover it. Of a session that is being deleted only what was put since, or is still on the call's list, can be read. |
| `OnlineRLProofs` | `TypeCorrect`, `VersionsNameOnePolicy` (`VersionNamesOnePolicy`), `LearnerStaysExact` (`LearnerIsExact`) | The learner's parameters, and those of every export, were reached by updates on policies that were published (`Known`). A train request names the version of the newest policy and is taken only when nothing was learnt since: that the policy then has the learner's parameters is `StepTells`, kept by failed publications, which may leave an export but no policy. No version of the current run above `version`, and none of a later run, has parameters yet (`Unused`), so a failed publication may only skip a number. The reference is retired from the cache when its policy is dropped (`CacheKept`). |

The argument of `HInv`. A row to complete is queued with its call,
pending, or a member of the group of its own key, and is so exactly while its
caller is inside `generate()`: `Housed`, with `NoDuplicates` and `OwnGroup`.
That no step loses or doubles a row rests on three further facts. A completed
row may stay listed until its group is rebuilt, but only one of a call that is cancelled
or asked for no tokens can still be pending or a newcomer (`Left`), and
`admit_pending()` or the rebuild drops it. A caller that has seen `done` has no row
left (`CallersDone`), which takes `CompletionAccounting` and is what makes its
return safe. And a rebuild, a walk of several steps, pushes a paused row to
`pending_rows_` before it replaces the group's rows: in between the row is in
both, and if the backend throws there, `fail_group()` completes it where it
stands. `Owning` says, for each point of the owner's loop, which members
have been looked at, that each of them to complete is kept or pending and not
both, and that outside these walks no row is in two places.

The argument of `OInv`. It has four parts, which need one another:

- *States* (`StateMatch`). The slot of a row is its own and has consumed all
  tokens of the row, or all but the last in the group between its sampling and
  its forward pass; what a row outside the groups will continue from has
  consumed all. A rebuild may copy slots by old positions because `KeptFrom`
  says where each kept row was, which is where `HInv` enters.
- *Events* (`EventsTrue`, `Flushed`, `OutputConserved`, `StopNoticeIsLast`). The
  events a caller holds or will take are of its own rows; the notice that a row
  stopped is behind its last text; and the tokens in them, those delivered and those held
  back add up to the tokens sampled. `TokensIn` is a recursive sum over a sequence:
  that it distributes over appending and concatenation, and that a sweep that
  delivers a batch moves the sum from one side to the other, is proved by
  induction on the length.
- *Who cancels* (`ErrorCancels`, `CancelledByCallers`, `Exact`, `Refused`). Between
  the owner's check of a call and the end of its step only the caller itself can
  have cancelled the call, by refusing output or by a callback that threw. So
  the state of a call that accepted everything has consumed exactly its output,
  and that of a refused call of one row at least what was delivered. For several
  rows this is false: see Findings.
- *The queue* (`LoadBounded`). An admission and each step look at the queue of a
  call before they add to it. `Load` counts two places for each row not yet completed,
  one for the event being sampled and one for its completion; during a sweep
  the rows already sampled (`SampledRows`) have used one each.

`AdapterCacheProofs` sums sizes over sets of versions and removes versions from
sequences (`Without`); the lemmas about both are in the module.

Induction over data. The induction theorems of the library take an operator as a
parameter, which the provers cannot instantiate. Its theorem `WFMin` takes a set: a
non-empty set of natural numbers has a least element (with
`NatLessThanWellFounded`). A claim about sequences of every length is proved
from this: were it false, there would be a shortest counterexample. `Least` states it once in
each module that needs it.

`StateCacheProofs` first states what each operation of the manager does to a
cache of any size (`Putting`, `Getting`, `Deleting`, `Closing`), through lemmas
about one level and its order (`Linking`, `Unlinking`, `Popping`) and about
evictions (`EvictingL1`, `EvictingL2`), which leave unchanged what every key is
found with (`View`). The steps of the routes follow from these, once for the
invariant and once for the refinement: a get maps to `Read`, a put to `Write`, an
erasure to `Delete`, shutdown to `Close`, restart to `Open`, and eviction, listing
and failed turns to stuttering. The two theorems about deletion and refinement
assume `~DiskFails`: the code ignores SQLite's answers, and both are false
otherwise. The consistency of the levels is proved with a failing disk too.

Only model-checked: every liveness property (the provers have neither fairness
nor ENABLED), and the safety properties that no theorem above names, which are
those of the registry (`StateHasOneOwner`, `ControlReachesOwner`), uploaded
states (`UploadsAreTrue`), the placement of States (`PlacementsAreTrue`) and the choice
of workers (`LoadIsShared`), the device's states (`StateIsItsHistory`), prefix cache and tuning
file (`LookupsAreTrue`), text assembly (`TextIsTheOutput`), rollouts, offline
training and gradients (`RolloutsAreTrue`, `RecoveryIsExact`,
`GradientIsDerivative`), the sampler (`DrawIsProportional`), weights and kernels
(`WeightsAreWhole`, `KernelsFit`, `ComputesTheModel`, `CallsStoreTheNorm`), and
`ShownIsReal`, of which `LauncherProofs` and `AdapterReplicationProofs` prove the
parts about the launcher and adapters. Most of these modules are computations over
bounded inputs, two with RECURSIVE operators (`PrefixCache`, `Rollout`), which no
proof may reach; the concurrent ones among them are next.

## Findings

- `scheduler_refusal`: `docs/continuous-batching.zh-CN.md:21` says that a token
  already output advances the state before it is exported. `step()` queues the
  sampled text, then rebuilds the group before `forward_decode`
  (`rwkv_inference_engine.cpp:622`); if emit refuses an event in that window the
  whole request is exported at once, and a sibling row whose token was just
  accepted is exported with a state that has not consumed it. A call of a single
  row is not affected.
- `adapter_deletion`: the router's `README.md:49` says that an uncertain deletion
  stays disabled. A mutation's new placement does not copy `deleted`
  (`adapter_placement.go:30`): after a deletion of the whole id that one worker
  did not perform, the deletion of one version makes the others available again
  with the next list.

## Hazards that no property covers

`PROJECT.json`, "hazards", lists what is hard to test in this code, each with the
properties about it. Some have none, because the code allows what a property
would forbid:

- A lease gives its count back before its reference, so the next model may be
  built while the old one is still in VRAM (`rwkv_model_router.cpp:28`;
  `docs/run.md:78` says otherwise).
- `acquire()` does not look at the queue of loads, so overlapping requests may
  keep a load waiting (`rwkv_model_router.cpp:75`).
- Two overlapping turns of one session: the later put wins, and one that read
  before a deletion undoes it (`session_routes.cpp:90`).
- The cache goes on as if SQLite had answered yes (`rwkv_state_cache.cpp:288`):
  what becomes of a session whose row was not written is promised nowhere. The
  model has a failing disk (`DiskFails`), with which the consistency of the levels is
  proved; `stores` runs without it.

Modelled, and not promised by the code: a call whose handler an exception
leaves, from the queue of admission or from a prefill that does not stream, stays
registered after it has ended (`chat_routes.cpp:153`; `EndedLeavesRegistry`
says that these calls do and no others). An uploaded state that is erased while a request
holds it, and uploaded again under the same id, takes over the file the request
has still to read; when the request lets go of the old entry, the
entry's destructor removes the new file (`rwkv_uploaded_state_store.cpp:143`, `:212`). So
`UploadsAreTrue` speaks of ids to which this has not happened (`reused` records
the others), though `docs/http-api.md:67` makes no such exception. A delete call answers true for the copy
in memory even if the SQLite `DELETE` failed, so `stores` has `DiskFails = FALSE`;
a pause that ends before its request is acknowledged without a saved state; the
launcher's shutdown does not wait for a child started meanwhile
(`main.go:1074`); and the search of the top-p kernel rests on sums that round as
`Rounding` models them (`sampling.cu:972`).

## What comes next

1. The registry (`StateHasOneOwner`, `ControlReachesOwner`): what the worker pool
   holds, by the lemmas about queues that `SchedulerProofs` has.
2. The placement of States, along the argument for adapters.
3. Text assembly (`TextIsTheOutput`) by induction on the bytes received.
