# TLA+ models of MoE Cache Lab

MoE Cache Lab records which experts a mixture-of-experts model routes its tokens
to, replays those routing traces through simulated expert caches, derives exact
capacity frontiers from them, and runs frozen experiments that collect the
traces and measure the collectors. This directory holds models of the parts
whose correctness depends on sequences of steps, the TLC configurations that
check them, and TLAPS proofs of the results that the reports rely on. Paths
below are relative to `src/moe_cache_lab/` of the repository.

To check everything: `tlc -config X.cfg M` for each run of the table below and
`tlapm M.tla` for each `*Proofs.tla`.

## Inventory

### Byte-capacity cache simulation (`byte_cache.py`)

*State.* A policy object: `entries` (resident experts with their last touch, and
for LFU a frequency) and `clock`. A replay keeps counters; a lifecycle keeps one
shared policy or makes one per workload, and the results of the workloads.
*Operations.* `access_bundle` (one event: pin, evict one victim at a time, touch),
`_replay_byte_cache`, `simulate_byte_cache_workloads`. *Interaction.* Fed by
canonical traces; its counters feed `preflight.py`, `hardware_cost.py`, and the
prediction that `runtime_copy_validation.py` compares with real copies. *Hard.*
The byte total that shadows the residency through the eviction loop, experts of
different sizes, ties inside an event, pinning, frequencies that must die with a
residency, peaks and ledgers across workload boundaries. *Correct if* the loop
always finds a victim and ends within the capacity, the counters account for the
residency, and LRU and LFU are what their names say.

### Exact capacity frontier (`capacity_frontier.py`)

*State.* `last_touch_event` and a histogram of required capacities. *Operations.*
One pass over the events; breakpoints, first capacity with a hit, and target
capacities are derived at the end. *Interaction.* Claims, without a replay, what
`byte_cache.py` would count at every capacity. *Hard.* The stack distance at
ties, atomic events, clamping to the feasibility floor, rounding of targets.
*Correct if* a replay at any feasible capacity agrees.

### V0.4 profiler attempts (`v04.py`, `v04_aggregation.py`)

*State.* The local variables of a collection, and the attempt directories in an
output root: staging directories, published directories, a manifest in each.
*Operations.* `collect_v04` (fresh, `--rerun-of`, `--retry-of`), with an admission
and a child process four times over, a deadline, an aggregate, publication by
rename; `_finalize_nonvalid`; `validate_v04`, which validates the lineage too.
*Interaction.* Invocations communicate through the manifests in the output root
only. *Hard.* A process can be killed between any two steps and leaves its
staging directory; an exception during publication finalizes again; deadlines
pass between children; the reason of a failure decides what may follow.
*Correct if* what is published stays valid and means what its state says, every
invocation ends, and the frozen state transitions of `V04_EXPERIMENT.md` hold.

### Entry-capacity cache replay (`cache.py`, `views.py`)

*State.* As the byte cache with unit sizes, and a fixed-frequency cache with a
target set; counters for the whole replay and for two phases. *Operations.*
`access_bundle` of LRU, LFU, fixed-frequency; `_replay_bundles`; validation of
plans, provenance and bundle chronology. *Hard.* The fixed-frequency cache
displaces and restores within an event. *Correct if* it never exceeds its
capacity, restores exactly its target, and the phase rows sum to the combined row.

### Copy executor and comparison (`runtime_copy_executor.py`, `runtime_copy_validation.py`)

*State.* Slots, a free list, `resident_to_slot`, `last_touch`. *Operations.* Copy
an expert's components into a slot on a miss; compare the observation with the
frozen prediction of the byte cache. *Interaction.* Predictor and executor run in
processes of their own over one trace file; only their counters meet. *Hard.* A
second LRU written independently, with slots instead of bytes, that overwrites the
slot of a victim piece by piece. *Correct if* no slot has two uses, what is
resident is complete, and the comparison says AGREEMENT for every trace the two
accept.

### Traces and views (`trace.py`, `trace_v2.py`, `trace_validation.py`, `views.py`)

Immutable sequences of routing events with chronology rules (token positions,
phases, one event per token and layer, contiguous generation), and two ways to
bundle the events of a trace for a replay. *Correct if* a trace with a missing,
repeated or reordered event is rejected, and both views account for all events.

### Collectors (`collector.py`, `switch_collector.py`, `v04.py`)

*State.* Hooks on a loaded model, which outlives a collection; the outputs they
captured; the generation loop. *Operations.* register, forward, take, examine a
candidate token, feed it back, remove. *Interaction.* A V0.4 child runs every
prompt with and without hooks and compares both with what Stage 1 recorded.
*Hard.* Partial registration, a removal that fails, captures of one forward call
leaking into the next, the end of the loop at its horizon, a model that does not
compute the same twice. *Correct if* no hook outlives a collection, an outcome is
a whole run, and a child that is accepted agrees with the record.

### Stage 1 repetitions, corpus workflow, experiment bundle (`stage1.py`, `workflow.py`, `experiment_bundle.py`)

Producers of directories with manifests: child processes under one deadline and
a staging directory that is renamed (Stage 1), writes into a directory that may
hold an earlier run (workflow), seven files and a sidecar written in order and
then verified (bundle). *Interaction.* Files only; a reader may come at any time.
*Hard.* A crash between writes, a directory that is reused, a manifest that is
older than the files beside it, two writers of one output, a child that hangs.
*Correct if* whatever validates is complete and of one run.

### Pre-flight, transfer costs, sensitivity (`preflight.py`, `preflight_config.py`, `hardware_cost.py`, `sensitivity_summary.py`)

Pure functions over the replays of a grid of capacities, policies and lifecycles:
bytes and operations cost exact fractions of a second, rows are reconciled with
the sums of their workloads, and neighbours in the grid are compared. *Hard.* Three
modules that account for the same bytes independently of each other, per workload
and in total, with two lifecycles. *Correct if* they and the cache agree.

### Analysis and evidence (`analysis.py`, `cross_model_locality.py`, `evidence.py`)

Pure functions over traces: usage, concentration, overlap of successive events,
gaps between uses; coverage of layers and experts over several workloads.
*Correct if* the summaries by layer, stream, phase and workload partition the
same events and selections.

### Not modelled

- Stage 1 benchmark (`stage1_benchmark.py`): sums of the replays of `cache.py` and a
  decision rule over them. No state, and no step that can be interrupted.
- Reports and renderers (`preflight_output.py` and others): formatting of results.
- Command line (`cli.py`): argument parsing and dispatch.
- Audit and probe scripts (`scripts/` of the repository): drivers that run the components once and
  compare recorded numbers.

What is left out of the components that are modelled is in their notes in
`PROJECT.json`: floating-point numerics (entropies, tolerances, durations and their
statistics), the shape of JSON documents, the command-line producer (`producer.py`),
provenance fields and dependency checks, the Windows resource probe, fixed-target plans that are built in advance. No property
is about which of several equally good targets the oracle takes, or which of several
errors a failing collection reports.

## Modules

| module | models | extends |
|---|---|---|
| `ExpertBytes` | size maps, bytes of a set, (last touch, key) order, recency stack | |
| `RecencyCache` | *abstract*: hits are the required experts in the prefix of the recency stack that fits | `ExpertBytes` |
| `ByteCache` | `byte_cache.py`: policies, access, replay, lifecycles | `ExpertBytes` |
| `CapacityFrontier` | `capacity_frontier.py`: the pass and what is derived from it | `ExpertBytes` |
| `FrontierOfCache` | both over the same trace | `ByteCache`, instance of `CapacityFrontier` |
| `CopyExecutor` | `execute_independent_replay`: slots, free list, loads component by component | `ExpertBytes` |
| `CopyValidation` | the executor and the predictor's replay over one trace, and their comparison | `CopyExecutor`, instance of `ByteCache` |
| `EntryCache` | `cache.py`: LRU, LFU, fixed-frequency targets, rows per phase | `ExpertBytes` |
| `EntryParity` | its dynamic policies next to `ByteCache`, one byte per expert | `EntryCache`, two instances of `ByteCache` |
| `V04Attempts` | `collect_v04`, `_finalize_nonvalid`, `validate_v04` over time | |
| `RoutingTraces` | `trace.py`, `trace_v2.py`: what both formats accept | |
| `RoutingViews` | `views.py`: the two views, bundles, the summary | `RoutingTraces` |
| `RoutingLocality` | `analysis.py`, `cross_model_locality.py` | `RoutingTraces` |
| `EvidenceCoverage` | `evidence.py` | `RoutingLocality` |
| `ObservedModel` | a model with hooks, their captures, its greedy continuation | |
| `CollectionOutcomes` | the checks on a finished collection, and comparisons of two | `RoutingViews` |
| `GraniteCollector` | `collector.py`, and `run_prompt` of `v04.py` | `ObservedModel`, `CollectionOutcomes` |
| `SwitchCollector` | `switch_collector.py` with its baseline and dispatch check | the same |
| `V04Child` | `collect_v04_child` and the validators of its manifests | `GraniteCollector` |
| `Collection` | one model used by any of the three; its outcomes analysed | `V04Child`, `SwitchCollector`, `EvidenceCoverage` |
| `ArtifactFiles` | files absent, torn or complete | |
| `Publication` | *abstract*: a reader sees nothing and then one thing for good | |
| `Stage1Set` | `stage1.py`: parents, children, staging, rename, validation | `ArtifactFiles`, instance of `Publication` |
| `CorpusCollection` | `workflow.py`: `collect_corpus` beside `load_suite_inputs` | `ArtifactFiles` |
| `ExperimentBundle` | `experiment_bundle.py`: writers, the verifier | `ArtifactFiles`, instance of `Publication` |
| `Artifacts` | the three producers | `Stage1Set`, `CorpusCollection`, instance of `ExperimentBundle` |
| `LifecycleReplay` | `byte_cache.py` as a function of its input | `ExpertBytes` |
| `TransferCosts` | `hardware_cost.py`: estimates and their reconciliation | `LifecycleReplay` |
| `SensitivitySummary` | `sensitivity_summary.py` | `TransferCosts` |
| `Preflight` | `preflight.py`, `preflight_config.py` | `SensitivitySummary` |
| `LifecycleGrid` | the cache in steps beside the pre-flight of what it has replayed | `ByteCache`, `Preflight` |
| `MC*` | the finite instances whose constants are functions or records | |
| `ExpertBytesProofs` | lemmas on bytes, cardinalities and the first of an order | `ExpertBytes` |
| `ByteCacheProofs` | theorems on types, assertions, ledger, LRU and LFU | `ByteCache` |
| `AnalysisProofs` | theorems on the frontier, alone and beside the cache, and on the lifecycle grid | `FrontierOfCache`, `LifecycleGrid`, `ByteCacheProofs` |
| `CopyValidationProofs` | theorems on the executor and the comparison | `CopyValidation`, instance of `ByteCacheProofs` |
| `EntryParityProofs` | theorems on the entry replay, alone and beside the byte replay | `EntryParity` |
| `V04AttemptsProofs` | theorems on the attempts | `V04Attempts` |
| `ArtifactsProofs` | theorems on the three producers | `Artifacts` |
| `CollectionProofs` | theorems on the hooks, the V0.4 child and the outcomes | `Collection` |

### How state and actions correspond to the code

`ExpertBytes`. An expert is the rank of its key, because keys are only compared
and looked up. `Bytes(S)` is the sum of the sizes of `S`, written as the
cardinality of a set of cells, so that sums need no recursion and the facts about
them follow from those about finite sets.

`ByteCache`. `entries` and `clock` are the policy's; `access` holds the locals of
`access_bundle` (`running` is its `resident_bytes`), `counters` those of
`_replay_byte_cache`, `totals` the sums of `ByteCacheLifecycleSimulation`.
`StartAccess` is lines 161-176; its guard on the required bytes is the check that
`_validate_required_by_event` (520-541) made of the whole trace before the replay,
`Evict` one iteration of the loop at 177-187, `FinishAccess` lines 189-203 and
the additions of the replay at 477-482, `SkipEvent` its `continue`,
`StartWorkload` and `EndWorkload` the loop of `simulate_byte_cache_workloads`.
`touched` and `log` are history variables: they record what happened and are read
by no guard. A trace is not a variable: every event may require any feasible set,
which covers all traces up to `MaxEvents` events. The code rejects a trace with an
infeasible event before it replays any of it, so no state after one exists.

`CapacityFrontier`. `reuses` is the histogram kept as the set of the requests it
counts, so that hits at a capacity are a cardinality. The derived values are
operators over the state, and therefore checked after every prefix of a trace.

`CopyExecutor`. The variables are the locals of `execute_independent_replay`
(`runtime_copy_executor.py:217-228`). `Hit`, `TakeFreeSlot` and `TakeVictimSlot`
are lines 241-253, one `CopyComponent` is one iteration of the loop over the
components, `Install` lines 281-292; `load` holds `key`, `slot_index` and how far
that loop has come. A component of a slot is the set of the experts whose tensor
was copied into it last, empty before the first copy. An event with more than one
expert, or with an expert without payload, makes the code raise and the run is
over: it has no action. `CopyValidation` lets executor and predictor take each
event together and finish it in any order. In the code one runs after the other;
the two share no variable, so the order is immaterial, and together they can be
compared after every prefix of a trace and not only at its end.

`EntryCache`. `policy` is chosen in the initial state. A fixed-frequency policy is
given its selection bundle by bundle (`Select`), then `BeginReplay` makes the
policy and warms it; `selection` stays for the oracle only, which replays what it
selected from. `StartBundle` is the top of `access_bundle`; `Evict` and `Touch`
are lines 149-158 and 175-190, `Displace` and `Restore` the two halves of
`FixedFrequencyCache.access_bundle` (219-225 and 229-236), which are steps of
their own so that what holds in the middle of an event can be said. `Return` is
the addition to the combined row and the row of the phase at 420-426. A bundle
that cannot fit makes the code raise before it replays any. `EntryParity` hands
each bundle of a dynamic policy to `ByteCache` too, which finishes it after the
entry replay has; the code shares nothing between the two, so the order is
immaterial.

`V04Attempts`. `work[a]` holds the locals of invocation `a` that end up in its
manifest, `manifest[a]` the `v04-set.json` it has written, `place[a]` whether that
file is absent, in staging, or in the published directory. `Record` is
`_finalize_nonvalid` up to its write, `Raise` the `except` clause of
`collect_v04`; `Publish`, `Finalize` and their failing twins are validation, late
check and rename. `Validates` is `validate_v04` with `_validate_rerun`: the
history of the manifest, its source recursively, at most one consumer. What a
child measures is abstracted to: it fails in one of the ways the parent
distinguishes, or it is valid and does or does not agree with the others. The
deadline is a choice (`LaunchTooLate`, `DecideTooLate`, `PublishFails`), never
before the first child, where its clock starts. Root causes are records that are
equal when the code's digests are.

`ObservedModel`, `GraniteCollector`, `SwitchCollector`. A hook is a record of the
router or expert it sits on and the capture it writes into. `hooked` is what is
registered on the model, `handles` what the collection under way can still remove,
`store` what its hooks have captured; `capture` numbers the captures. `stuck`
(removal failed) and `dropped` (handles lost in the dispatch check) are history.
`run` and `probe` hold the locals of a collection; a phase is a place where it
can fail. Registering, removing and calling the model each have a failing twin.
A hook that an earlier collection has left writes into that collection's capture,
which nobody reads any more. The model's continuation `greedy` is chosen in the initial state; only a
V0.4 child is given a model that may compute something else in every run, since
comparing the runs is what a child does. Routers select by layer and token.

`V04Child`. `child` holds the position in the schedule, the runs so far and the
manifest. `Kill` is the parent's timeout: the process is gone, with its model.

`Collection`. `use` is chosen in the initial state and selects among the three,
whose code never shares a model. `AccountsAgree` evaluates views, analysis and
evidence on every set of traces that a use has returned; they are functions of
their input and have no actions.

`Stage1Set`. `parent[p]` holds phase, start, the child under way and the staging
directory, `output` the published one. `ChildStep` is a child process, which
can be killed, fail, or hang until the parent's timeout; a parent, too, can be
killed at any point. A rename onto a directory that is not empty fails, which is
how the race of two parents is decided. Files of a staging directory appear in one
step: nobody but their writer reads it.

`CorpusCollection`. Every file is written in two steps, and a collector may stop
after either. The loader reads the manifest, and then each trace twice, for its
digest and for its contents, as the code does. `disturbed` is history: whether a
collection wrote while the loader read. A torn trace is rejected: the workflow knows
the number of its events.

`ExperimentBundle`. `writer[w]` has the files it prepared and the next one to write.
The source trace is read twice before; in between somebody may rewrite it. Here a
torn trace may read as a shorter one that is valid, since the format is line by line
and has no count.

`Artifacts`. `producer` is chosen in the initial state: the three share no
directory, and the properties of each are about its own state only.

A SHA-256 digest is modelled by the contents it stands for.

`LifecycleReplay` to `LifecycleGrid`. `declared` is history: the events of each
workload the cache has been given. `GridAgrees` and `LRUNeverPaysMore` evaluate the
whole pre-flight on it when the cache is between two events. Fractions are pairs,
compared by multiplication; `NsPerSecond` is small because TLC's integers have 32
bits. Rows are sets, so the order of the rows in a report is left out.

## Runs

| run | config | instance | states | shows |
|---|---|---|---|---|
| `byte_lru` | `ByteCacheLRU.cfg` | 4 experts of sizes 1, 2, 3, 1; capacity 4; persistent; 4 events, 2 workloads | 227 480 | assertions, ledger, recency prefix, refinement of `RecencyCache`, termination of an access |
| `byte_lfu` | `ByteCacheLFU.cfg` | 3 experts of sizes 1, 2, 1; capacity 3 of a grid of 2, 3, 4; a new cache per workload; 4 events, 2 workloads | 48 083 | frequencies and victims of LFU; replays, costs and comparisons of the whole grid reconcile; monotonicity of LRU |
| `frontier` | `FrontierOfCache.cfg` | the experts of `byte_lru`, capacity 5, one workload | 102 872 | the frontier agrees with the replay |
| `copy_validation` | `CopyValidation.cfg` | 4 experts of size 2 and 2 components; 2 slots, capacity 5; 6 events | 50 816 | slots, agreement of the counters, refinement of `RecencyCache` |
| `entry_cache` | `EntryParity.cfg` | 4 experts, 3 in one layer; capacity 2; 4 bundles, selections of 3 | 360 788 | restoration of targets, rows, the oracle's optimality, agreement with `ByteCache` |
| `v04_attempts` | `V04Attempts.cfg` | 3 invocations one after the other, 2 children, 2 prerequisites, 2 launch failures | 436 403 | published attempts stay valid and mean what they say; invocations end |
| `collection` | `Collection.cfg` | 2 collections, 1 failing removal; 2 routed layers, prompts of 1 and 2 tokens, horizon 2, 4 continuations; children 1 and 2 | 71 991 | hooks, whole runs, children, accounts of the traces; collections end |
| `artifacts` | `Artifacts.cfg` | 2 parents, 2 repetitions of 2 prompts, deadline 1 of a clock to 2; 2 corpora, 2 revisions, 2 collections; 2 writers of a bundle | 182 028 | readers accept nothing or a whole artifact of one producer, once; parents end |
| `switch_hooks` | `SwitchHooks.cfg` | as `collection` | | *violated*: see findings |
| `v04_timeout` | `V04Timeout.cfg` | as `v04_attempts` | | *violated*: see findings |
| `v04_allowance` | `V04Allowance.cfg` | as `v04_attempts` | | *violated*: see findings |
| `v04_refusal` | `V04Refusal.cfg` | as `v04_attempts` | | *violated*: see findings |

*Bounds.* Four experts with three sizes are the least with which an event that
needs room evicts one large or several small victims, a pinned expert can be the
oldest, two experts tie in an event and differ in size, and something remains
that is neither required nor a victim. Four events are enough to load, touch,
evict and reload an expert and to touch another in between. The capacities leave
room for any single expert but not for all. Two workloads show a boundary with
a full and with an empty cache. Two slots for four experts, and six events, are
enough to fill the slots, renew one, evict, reload a victim and evict again; the
capacity of five bytes is not a multiple of the payload, so that slots and bytes
are really different measures; the executor refines the recency cache of the four
bytes of its slots, the predictor that of five. With three experts in one
layer and room for two, a bundle of a fixed cache can hit one target, displace the
other and miss; with fewer targets than room it displaces none. Selections of three
bundles give every order of frequencies of two experts, and ties. Three invocations make the chains that the
lineage rules distinguish (first, rerun or retry, and a third one that sees both);
two children stand for four since the code treats the first (deadline clock) and
the last (aggregate) specially and no others. Launch failures are represented by
one whose cause names the child and one whose cause does not: equality of causes
is all the code uses. The sum of the bytes of a set is the number
of its cells (`Cells`), which is how the modules say `sum(...)` without recursion.
Counters are bounded by `MaxEvents`, `MaxWorkloads` and
`MaxAttempts` in the guards; deadlock is not checked since a model that has used
up its bound stops, as a replay does that has reached the end of its trace.

The grid has one capacity on either side of the one that runs, so that every cell
has a neighbour; three experts are enough since four would only repeat ties
that `byte_lru` has. Four events are enough for the property to mean something: with
LFU in the place of LRU, `LRUNeverPaysMore` is violated within them. Two
collections show what the first leaves for the second, one failing removal that a
hook survives; two layers tell the order of layers from the order of tokens; the
continuations end at once, after one token, exactly at the horizon, and not at
all. Child 1 and child 2 have the two schedules there are. Two parents race for
one output, and each has a repetition to compare with its first; the clock passes
the deadline before, between and during the children. A corpus of two
prompts can be half replaced. Of three routings, two agree on the prefix that V0.2
recorded and the third does not.

*Symmetry* is not used: keys are ordered, and attempts are numbered in the order
in which they begin.

*Fairness.* `EveryAccessCompletes` assumes weak fairness of the steps inside an
access: a replay is a loop in one thread without a wait. `EveryInvocationEnds`
assumes weak fairness of the steps an invocation takes by itself; that a child
process returns is justified by the timeout that `run_child_process` passes to
`communicate`. Crashes and interrupts, and the operator starting an invocation,
are under no fairness. `EverySetEnds` assumes that time passes and that a parent
takes its next step: a child may hang for ever, since the parent's wait has a
timeout. `EveryCollectionEnds` assumes that a collection that has begun is
computed on, by a loop in one thread; beginning one and killing a child are under
no fairness.

*Mutants.* Each property names a mutated definition (`...Unpinned`,
`...ByHighestKey`, `...OffByOne`, kept beside the original and marked *slip*) under
which TLC finds it violated; no specification uses them.

### Findings

- **Timeouts between children** (`v04.py:1415`). `V04_EXPERIMENT.md:202` promises
  that a timeout invalidates and *preserves* the attempt. If the deadline has
  passed when the next child is to be launched, or at the end, there is no failed
  child to record; the manifest does not validate and the attempt stays in staging.
- **A deferred rerun uses up the allowance** (`v04.py:2037`). `V04_EXPERIMENT.md:281`
  says it does not.
- **A refusal that names an impossible retry** (`v04.py:1279`). A manifest that a
  killed retry leaves in staging counts as a consumer in one scan and not in the
  other; the fresh attempt and the retry are then both refused. (A retry of the staged
  manifest itself is still accepted if that manifest validates; the message does not
  name it.)
- **Router hooks that stay** (`switch_collector.py:556`). The observer calls itself
  temporary (`switch_collector.py:379`). If the registration of an expert hook fails
  in the dispatch check, the `finally` that removes hooks has not been entered, and
  the router hooks registered before stay on the model.

## Proofs

Every theorem holds for every value of the constants that satisfies the named
assumptions of the modules: a finite set of experts, positive sizes bounded by some
`MaxSize`, a positive capacity, a policy and a lifecycle of the code's, any bounds.
What else a theorem assumes is said below. `PROJECT.json` lists them.

### Byte cache

- `ByteCacheTypeOK`, `ByteCacheAssertionsHold`. The inductive invariant relates
  the running total to the residency during an access, records that `missing` was
  fixed at its start and that nothing required has been evicted since, and that
  the required experts fit on their own. From it the candidates are not empty while
  room is lacking: otherwise everything resident is required, and would fit.
- `LRUResidencyIsRecencyPrefix`, `LRUImplementsRecencyCache`. Inside an access the
  residency is the intersection of the prefix that was resident at its start with a
  final segment of the victim order, plus the pinned experts; when the loop ends,
  that is the prefix of the new stack. The refinement maps every step within an
  access to a stutter and its end to `Access`.
- `ByteCacheLedgerBalances`. Needs the ledger of the access in progress, and that
  each eviction removes exactly one expert and its bytes.
- `LFUFrequencyIsResidentLifetime`, `LFULeastUsedGoesFirst`. The log numbers the
  accesses as the clock does. An access that does not require an expert leaves the
  uses of its stay alone; one that hits adds one; one that loads makes it one,
  because every earlier access is before the new load. Evictions happen inside an
  access, which is not in the log yet, so the frequencies they compare are uses of
  the stay at that moment.

### Capacity frontier

- `FrontierTypeOK`, `FrontierAccountingReconciles`, `FrontierWorkingSetIsEnough`
  about the derivation alone, `FrontierAccountsBesideCache`,
  `FrontierReachBesideCache` about it beside the cache. Needs that a reuse is
  recorded once per event and expert, which makes the set of reuses grow by the
  number of reused experts.
- `FrontierPredictsLRUReplay`. The capacity of the replay is feasible, so the frontier
  does answer for it (`exact_hits_at` raises below its floor): the floor is the most an
  event has required, and the replay has accepted every event. For the answer
  the frontier's state is tied to the cache's history:
  `lastTouch` orders the experts as `touched` does, although the two count different
  things (all events, and those that require something), so an expert is in the
  fitting prefix exactly if its required capacity is at most the capacity.
- `FrontierNamesTheLine`. Hits grow with the capacity and only at breakpoints, so
  the hits at any feasible capacity are those at the largest breakpoint below it,
  and the least capacity of a target, which the frontier looks for among the
  breakpoints, is least among all capacities. That the replay's capacity is feasible
  at all follows from the requests that the replay has accepted.

### Lifecycle grid

- `DeclaredEventsFit`, `StepsAreReplayed`. The replay in `ByteCache` takes one victim
  at a time; that of the pre-flight, `Replay`, gives up all victims of an event at
  once, and is a function of the whole trace. `StepsInv` ties the two: there are
  completed workloads and events of the one that runs, together all that has been
  declared, such that the clock, the residency, the recency, the frequencies and the
  counters are those of the replay function for them; inside an access, what is gone
  is the beginning of the victims of the function. One lemma per step of `ByteCache`.
- `LRULargerNeverDearer`. Two LRU replays of one trace, the one with more room or a
  warmer start, keep the same recency; the smaller residency is the most recent part
  of the larger (the stack property, which fails for LFU and of which
  `byte_lfu` has the counterexample as a mutant). So no hit is lost event by event,
  and loads, bytes and the estimated service follow by monotonicity of the sums.
- `GridRoutesAgree`. With `StepsInv`, the cell that has been replayed has the totals
  and the residency of the steps. That the acceptors accept rests on invariants of one
  replay, carried along it: hits and misses add up to requests, loads to misses, bytes
  to sizes, and ending residency to starting residency plus loads less evictions. That
  the estimates of the workloads add up exactly rests on sums of fractions over a
  common denominator. That the hit rate of a row lies between those of its workloads is
  the mediant inequality, carried along the sum.

A replay is a fold over a sequence. Induction over data is out of the prover's reach as
a library theorem, so it is done by hand: a fold is the last link of a chain with one
link per item, and that a fact holds at all links follows from a least link at which it
does not. Equality of two folds, and "one item more", are proved the same way.
`ConfigAssumption` includes that there are finitely many capacities, as in the tuple
that the configuration holds: the code takes their maximum.

### Copy executor

- `CopyExecutorTypeOK`, `CopyExecutorSlotsHoldResidents`. Needs that the components
  copied so far of the load in progress are those of the new expert, and that this
  expert is not resident yet.
- `CopyExecutorImplementsRecencyCache`. Assumes one payload layout and slots that fit
  the capacity, both of which the code checks. What is resident or being loaded is
  closed upwards in the recency order, has one slot each, and a slot is free only if
  nothing touched has been given up; with bytes a multiple of the payload this is the
  longest prefix that fits the bytes of the slots (`slotBytes`), however many they are.
- `CopyValidationAgrees`. Assumes in addition that there are as many slots as fit the
  capacity (`ProtocolAssumption`), which the code does not check: the frozen protocol
  has eight slots of an eighth of the capacity. With fewer slots the executor is the
  cache of a smaller capacity than the predictor's, so the two may evict at different
  moments; nothing is said here about that comparison. Executor and predictor are
  not compared step by step, since each evicts at its own time. Both hold, between
  events, the fitting prefix of the recency stack of one history: the executor by its
  own invariant, the predictor by the theorems of `ByteCacheProofs`, instantiated
  with the predictor's variables. When an event is handed to both they therefore
  agree on hit or miss, and what is still under way on either side is what the other
  will count.

### Entry cache

- `EntryCacheTypeOK`, `EntryCacheTargetsRestored`. The targets are the first of a
  strict total order, so they are `Capacity` many or all there are. Between the two
  steps of a fixed-frequency bundle the residency is the targets without the
  displaced ones, and the missing ones, which are no targets; as many are displaced
  as room is lacking, because the experts that are not required are enough. That
  both steps stay within the capacity, and that the second restores the targets,
  follows.
- `EntryCacheRowsReconcile`. The combined row gains what the row of the phase gains.
  Loads without evictions are what is resident, but in the middle of an LRU or LFU
  bundle they are ahead by its evictions, and in the middle of a fixed one they are
  still the targets.
- `EntryCacheOracleIsBestFixed`. A hit is a pair of a bundle and an expert. For a set
  `T` that fits, the experts of `T` that are no targets are embedded in the targets
  that are not in `T`, each of which is required at least as often, and with them
  their pairs. That the replay hits exactly the pairs of the targets is an invariant
  over the bundles replayed so far.
- `EntryReplayAgreesWithBytes`, `ParityReplaysEntries`. While one replay is ahead, the
  invariant says how the residencies differ: by experts that go before everything
  unpinned that the replay ahead has kept, and only if what it kept leaves no room
  for one more. So the replay behind evicts exactly those, in whatever order, and
  stops. For LRU all frequencies are zero, so one order serves both policies.

### Attempts of the profiler experiment

- `V04TypeOK`, `V04ValidMeansComplete`, `V04BlockedMeansRecurrence`, for any number of
  invocations at the same time. The inductive invariant says how a state and its
  cause come about in the locals of an invocation, that a manifest says what these
  said when it was written, and that an attempt that names a source names one that
  has ended, whose manifest will not change, and remembers what it said. Every
  attempt names an earlier one, so the recursive definition of validation has a
  solution; facts about all chains are proved from a least counterexample.
- `V04PublishedStaysValid` assumes `MaxRunning <= 1`: invocations started one after
  the other. The code has no lock, and with two retries of one source at a time both
  can pass the check for a consumer before either has written a manifest (see the
  hazards), after which neither validates. Under the assumption a source is consumed
  at most once; and since manifests are added and never withdrawn, what has been
  refused once because of its lineage is not accepted later.

### Artifact producers

- `Stage1PublishedSetValidates`, `Stage1SetIsPublishedOnce`. Assumes at least one
  routing, prompt and repetition. The inductive invariant says what every file
  of a staging directory may be; that a repetition record is about its own directory
  and its own writer; that a set manifest is about the records beside it; and that a
  parent that is about to rename has found its staging directory valid. Nobody else
  writes there, so it still is, and the rename publishes it only if nothing stands
  at the output. Kills of parents and children preserve all of it.
- `CorpusAcceptedSuiteIsOneRun`. Assumes a corpus with a trace (`CorpusAssumption`). A
  complete manifest was written by one collection over the records of the traces it
  had written; the loader holds such a manifest, each trace it has read fits it, and
  is the recorded one unless a collection has written in between.
- `BundleVerifiesWhole`, `BundleRootIsPublishedOnce`. The root belongs to the writer
  that has made it, who writes its files in their order and never looks at the source
  again. The sidecar is last, and it names what the writer prepared
  (`BundleAssumption`: there is a file before it).

### Collectors

- `CollectionLeavesNoHook`. The inductive invariant says that every hook on the
  model is held by a handle, stuck or dropped, and in which phases no handle is held;
  those include every phase in which a collection is over. For any model, prompts
  and layers, and any number of collections, failures and children.
- `InvalidChildReports`, `ValidChildMatches`. Assumes of the schedules what the
  program fixes as literals (`ChildAssumption`): distinct calibration and evaluation
  prompts, each of them a prompt of the run, at least one for calibration. The
  inductive invariant relates what the child has collected to how far its plan has
  come: after `n` returned runs they are the first `n` of the plan, each with the
  mode and prompt planned for it, and a run that was the second of its pair agrees
  with the first. A child that has passed all of its gates has compared every pair
  and every profiled run with the trusted record; a reference run records no routing
  and so is tied to the record only through its partner, which the plan places once
  in every pair. A failed child may stop after any number of runs, and the counts in
  its manifest are those of the runs in it.
- `GraniteOutcomesWhole`, about the Granite part of `OutcomeIsWholeRun`. Assumes that
  every router selects the given number of distinct experts for any token
  (`GraniteAssumption`, which is what `torch.topk` returns), that tokens are numbers,
  and that no collection looks further than the continuation goes. The inductive
  invariant says that what is fed is the beginning of the continuation, without an
  EOS token unless the tool ignores it; that while a call is due the events are those
  of everything fed before its input, and afterwards include its own; and that all
  hooks that are due are installed, so a call that returns has reached every router.
  A whole run is two tables, row by row, and a position in it is a row and a column by
  division with remainder; the orders that `RoutingTrace` checks are orders of rows and
  columns, which is why no outcome is ever rejected.

- `OutcomesWhole`, the whole of `OutcomeIsWholeRun`: the Granite part and that of a
  Switch collection. Assumes that a Switch router selects one expert or none for any
  token and that the sparse layers are in the order of the blocks
  (`SwitchAssumption`). The inductive invariant goes through the three passes: the
  baseline follows the greedy continuation until it ends; the observed pass may follow
  any continuation of the model, and its events are the whole run for what it has been
  fed, without the row of the call that is due; the comparison of the two makes the
  observed generation the greedy one; and the dispatch check keeps it while every
  router and every expert module has its hook, so that the counted rows are those
  assigned. The orders that `RoutingTraceV2` checks are again those of places in two
  tables, now through the increasing sequence of sparse layers, of which one stage may
  have none.

*Only model-checked:* of the collectors `AccountsAgree`. The traces it is about, and
most of what it compares, are filtered with `SelectSeq` and sorted with `SortSeq`, and
the prover has no definition of either: not even that a filtered sequence is one.
*Not provable here:* the liveness properties (`EveryAccessCompletes`,
`EveryInvocationEnds`, `EverySetEnds`, `EveryCollectionEnds`: liveness and fairness
are outside the prover's reach). Of the recursion in `Validates` only what follows
from its defining equation is used.

## Plan

1. *(done)* Byte cache, its abstract specification, the frontier that predicts it,
   their proofs; the attempts of the profiler experiment.
2. *(done)* Copy executor: slots as an implementation of `RecencyCache` with one size,
   and the comparison with the byte cache over one trace.
3. *(done)* Entry-capacity cache: fixed-frequency displacement and restoration,
   counters per phase, agreement with the byte cache. Left: replays of a part of a
   prebuilt plan.
4. *(done)* Collectors and traces: hooks, take, the generation loops, the V0.4 child,
   the acceptors of both formats, and what is derived from a trace.
5. *(done)* Artifact producers: Stage 1, corpus workflow and experiment bundle with
   crashes between writes; `Publication`, which Stage 1 implements by a rename and the
   bundle by its verifier, and the workflow does not.
6. *(done)* Transfer costs, sensitivity and the lifecycle grid over `ByteCache`.
7. Theorems. *(done)* Byte cache, frontier, copy executor and comparison, entry
   cache and its agreement with the byte cache, lifecycle grid, attempts, artifact
   producers, hooks of the collectors, the V0.4 child, and the outcomes of Granite and
   Switch collections. Left: `AccountsAgree`.
8. Concurrent invocations of `V04Attempts` (`MaxRunning = 2`) for the race of two
   retries of one source, and fresh attempts after `inconclusive_final`.
