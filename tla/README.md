# TLA+ models and proofs for TOVAH v14

TOVAH is a single-process Python kernel that modifies itself: it stages patches of its own
methods, promotes them through a ladder of gates, binds them to its class, reverts them, and
takes proposals from child kernels (a hub and subkernels) to which it delegates goals. This
directory models the parts of it in which a long sequence of legal calls could do what no
single call may, model-checks them with TLC, and proves the central results with TLAPS.

    tlc -config ladder_bindings.cfg MCLadder.tla      # one run
    tlapm PromotionLadderProofs.tla                   # the proofs of one module

## Inventory

The kernel has one thread. The main loop (`kernel/kernel.py`, `run_loop`) reads operator
commands, runs the autonomous cycle and saves; packets of child kernels are dispatched by
`_dispatch_kernel_packet`. A handler is never interrupted by another handler, so a handler is
one atomic action. The process itself may end anywhere, which matters between two writes.

| Component | State | Operations | What makes it hard | What makes it correct |
|---|---|---|---|---|
| Patch governance (`mutation/`, `kernel/patch_preflight.py`, `core/contracts.py`) | staged records, ladder stages, evidence log, source metadata, class bindings, saved originals, policy sets | stage, advance, apply, inject, revert, unprotect, remove block, add target | names are reused for other code; several patches stack on one method; the sets the checks use change under the ladder | no stage skipped; only vetted code runs; originals recoverable; records, stages and class agree |
| Promotion policy (`tasks/worker_roles.py`, `modules/calibration.py`) | none | two pure tests over role, trust, locality, risk, evidence and standing | two tables written apart | nobody below a trusted local hub reaches the class |
| Quarantine (`mutation/quarantine.py`) | records in memory | quarantine, release, is_quarantined | kept beside the ladder, not asked by it | a quarantined patch is not promoted |
| Persistence (`persistence/`, `kernel.py` `save_state`, `_save_kernel_ecology_state`) | state file, ecology file | two writes, one after the other; the second also alone | crash between them, failed write | what runs after a restart is what the gates allowed |
| Delegation (`tasks/delegation.py`, `tasks/distributed_queue.py`, `kernel/subkernel.py`) | leases, jobs, pending goals | choose, spawn, issue, assign, outcome | four ledgers for one delegation; outcomes unchecked; silent write failure | the ledgers agree; no worker over capacity; no goal dropped |
| Trust (`cluster/`) | score and baseline of each node | record_outcome, recovery, cooldown | penalties, bonuses and clamping meet | the score stays in its levels |
| Budgets (`tools/budgets.py`) | calls spent per worker | check, spend, recover | counts leases as well as calls | quota never exceeded |
| Hub (`kernel/hub_kernel.py`, `kernel.py` 972-2085) | promotion queue, work queue, review waves | process the queue, surface, resolve, complete an evidence task, revert | queues rebuilt from lists read earlier; truncation; keys that change as more becomes known | no artifact before two reviewers; a request leaves the queues through a wave |
| Task queue (`tasks/queue.py`, `tasks/cleanup.py`) | tasks, completed identifiers | create, advance, complete, clean up | truncation of both lists; dependencies on what was purged; shared identifiers | work starts after its dependencies, and starts |
| Goals and plans (`tasks/plans.py`, `_autonomous_cycle`) | goal, attempts, plans | cycle, clean up stale plans, commands | steps that raise, plans whose steps are never run | no goal is pursued and no plan blocks for ever |
| Module registry (`modules/registry.py`) | proposals, experimental manifests, cooldowns of modules and families | propose, request promotion, feedback | the same module under new identifiers, senders and targets | a refusal cannot be got round |
| Memory (`memory/`) | three banks, branches | store, consolidate, forget, sync | branch and banks live in different files | nothing enters the banks twice unless a revert or a lost write brought it back |
| Bilateral core (`core/`) | truth and falsity of beliefs, cache of verdicts | evidence, recovery, self-assessment | a handler ended by an exception before it refreshes the cache | decisions read verdicts that are those the beliefs give |
| Tools (`tools/`) | budgets per resource, quotas and grants of workers | request, run a tool, ask an advisor, reset, restart | two ledgers, saved by some handlers only | no quota and no budget overdrawn |
| Files and snapshots (`persistence/`) | state file, weights, snapshots on disk and in memory | save, checkpoint, snapshot, roll back, boot | crash or failure between write and rename; names shared within a second | files stay whole; a rollback restores what was saved last |
| Training (`training/`, `neural/checkpointing.py`) | accumulated gradients, snapshots, checkpoint; live stream, export | train, skip, roll back, resume; record, export, train live | skipped and half-done batches; restarts; two ways to split | no gradient counts twice; the stream is exact |
| HoTT layer (`hott/`) | environment of the type checker; otherwise pure | check, normalize; substitute, glue, compare, certify | binding under shadowing; composition over long chains; groups that do not commute | computing keeps types where nothing is shadowed; what is composed still holds |
| Sheaf observer, mutation log, debug, evaluations, scripts, configuration | - | reports, offline work, constants | - | not modelled |

Components call each other directly in one process: packets become calls of the ladder, the
trust ledger, the budgets and the queues; a command becomes a call of the ladder; the hub's
outcomes come back to the ladder as evidence, standing and quarantine. The HoTT layer and the
training loop are called by commands or by nothing in the kernel. `PROJECT.json` lists every
component with its status, and the hazards with the line where each bites.

## Modules

| Module | Models |
|---|---|
| `PromotionGate` | the pure policy: role profiles, promotion targets, risk budgets, adaptive thresholds, the shadow and the live gate |
| `PromotionLadder` | staging, the ladder, quarantine, revert, commands and packets over the class; all the properties of them |
| `MethodTable` | an abstract specification: how the class may change at all |
| `LadderPersistence` | the ladder with the two files, failing writes, restarts |
| `RestartAudit` | the same with the history of gates kept across restarts |
| `Delegation` | leases, jobs, trust, capacity, goals, with crash and failing writes |
| `WorkLedger` | an abstract specification: what becomes of a goal handed out, and of the copy of the ledger |
| `HubReview` | promotion queue, evidence tasks, cooldowns, review waves |
| `ModuleRegistry` | proposals of modules, their review, feedback and cooldowns |
| `Memory` | the banks, consolidation, branches, over the two files they live in |
| `ToolAccess` | tool requests by packet, tool runs and advisor calls, quotas and budgets |
| `Boot` | state file, file of weights, snapshots: writing in two steps, failing, crashing, booting |
| `TaskQueue` | tasks, dependencies, deadlines, clean-up, restarts |
| `Mission` | the autonomous cycle over goal and plans, with fairness |
| `Beliefs` | truth and falsity of beliefs and the cache of verdicts |
| `Pretrain` | accumulation, steps, divergence guard, checkpoint and resume |
| `Corpus` | records, the live stream of shards, export, split, live training |
| `Environment` | the declarations a type checker has admitted, whatever checker it is |
| `Formal` | the dependent type checker that guards this environment |
| `Evidence`, `Substitution`, `Cocycle`, `Identity`, `Certificate` | the rest of the HoTT layer: evidence, replacement of modules, gluing, identity of memories, certified patches |
| `MCLadder`, `MCRestart`, `MCAudit`, `MCFormal` | instances for TLC |
| `MCServices`, `MCCycle` | several modules in one specification |
| `MCCheckedCycle` | `MCCycle` with the type checker of `Formal` |
| `Selections` | what a list comprehension keeps, by places; used by `HubReview` and `Memory` |
| `Foundations` | lemmas about sets, sequences, induction and recursion that the proofs share |
| `PromotionLadderProofs`, `LadderPersistenceProofs`, `DelegationProofs`, `BootProofs` | theorems of one component each |
| `ServicesProofs` | theorems of registry, memory, tools and hub, and of the services side by side (`MCServices`) |
| `CycleProofs` | theorems of tasks, beliefs, pretraining, corpus and missions |
| `HottProofs` | theorems of the environment, substitution, gluing, identity and certificates, and of the cycle side by side (`MCCycle`) |

`MCServices` and `MCCycle` put side by side components of which none reads another's variables.
Their variable `part` names the one that runs; the others rest in their first state, so the run
reaches exactly the states of each component and not their product. Nothing is claimed of their
interaction there: a component that does interact models the other side itself. The ladder
knows what hub and packets do to it; `Delegation` has trust and budgets in it, `Memory` and
`ToolAccess` the two files.

### From code to state and actions

`PromotionLadder`: `staged` is `staged_patches` (code and status), `stage` is
`PromotionLadder.state`, `evidence` the length of `evidence_log`, `meta` what `_source_context`
makes of `source_metadata`; `bound`, `originals` and `evolved` are the kernel class,
`_original_methods` and `_evolved_method_names`; `protected`, `blocked`, `granted` are the
sets operator commands change. A patch is a model value. A piece of code is a model value too,
and the constant function `Info` says what the checks find in it: the method it defines, its
required parameters, the constructs it uses, whether it meets the contract, compiles, and
defines the method when it is run. The checks themselves are then set expressions, evaluated
each time with the policy sets and the bindings of the moment - which is where staging and
applying can disagree.

Each command and each packet handler is one action that includes all it does: `StagePatch`
replaces the record, resets the stage and declares main as the source; `ApplyBlocked` and
`ApplyLive` contain the whole loop of `apply_staged_patch` (`Climbs`); `InjectBlocked` and
`InjectLive` are `INJECT_METHOD` from preflight to binding; `ProposalRejected` shows that a
rejected proposal leaves its metadata and evidence behind. `Quarantine`, `StandingMoves` and
`EvidenceGathered` are what the hub does to the ladder. Time appears only as a flag: whether a
cooldown lies in the future. Regression failures are inputs from `FailureCounts`; the ladder
tolerates one.

The HoTT certificate gate of the ladder is absent: the kernel never hands it a certificate.
`RUN_CODE`, which runs what the operator types, is outside any model. Definitions whose comment says "Variant" are
plausible wrong forms of the definition they stand before; no specification uses them, and the
mutation checks put them in its place to see that the properties notice.

`Delegation`: subkernels are numbered as they are spawned and delegations as they are made, so
a lease and its job share a number. `trust` is a score from 0 to 4 with its baseline. The
choice among equally trusted workers is left open. Outcomes carry any severity and may be
reported for a closed lease, as `record_delegation_outcome` allows. `WorkLedger` knows neither
workers' trust nor goals: only a list of who was handed what and how it ended, and the copy a
restart returns to. `LedgerSpec` says that the leases are such a list and the jobs are too, with
`AsLeases` translating what the queue calls its states.

`HubReview`: scores, caution and cooldowns are floats compared with the clock; which requests
rank first, which are on cooldown and which are mature is left open at each step, but what
waits for an open wave ranks last. The control is the code's: the merge of two requests of one
dedup key, the picks, the evidence task that takes a request out and puts it back, surfacing
and resolving, the cuts.

`ModuleRegistry`: a proposal is a record with module, sender, target and status; feedback
leaves whether module and family are on cooldown and whether recent failures bar the module
from main. `barred` and `slipped` are history variables of the property.

`Memory`, `ToolAccess`, `Delegation` and `Boot` keep a variable for each file. A handler that
saves writes it as its last step; a restart reads it back. In `Memory` the banks are in one
file and the branches in the other, written at different times. A write of the ecology file may
fail, which its callers ignore, and HUB_REVERT copies the memory of the last rollback point back
into the branch: the history variables `unsaved` and `replayed` follow which items return to
the branch that way after they entered the banks. In `Boot` a write may fail
before or after the temporary file, which `save_json` renames; the file of weights and the
snapshots follow `persistence/` in the same way. Damage done to a file from outside is a
separate, counted step.

`TaskQueue` and `Mission` are the maintenance and the thinking of one iteration of `run_loop`.
The clock becomes flags: a deadline has passed, a plan is older than `PLAN_MAX_AGE_SECONDS`. In
`Mission` every step of a plan may succeed, fail, or raise and leave its status behind.

`Beliefs` works in hundredths and rounds products down. A handler moves its beliefs and
refreshes the verdicts where the code does; a research cycle is a sequence of calls that ends
well or at the one that raises. The commands RESEARCH: and RUN_LAB: run the same calls, and an
exception of theirs is caught without a refresh. `budgeted` marks where in an iteration the
loop stands: commands come first, `UpdateBudgets` derives the verdicts, the rest follows.

`ToolAccess` reads permission and budget of a tool from `Contracts`, the table of
`tools/contracts.py`. A call is refused by `Refused`, `BudgetManager.spend`, before the tool
runs; a package is installed without any budget being asked.

`Pretrain`: of a number the model keeps whether it is finite. A microbatch is numbered over all
epochs, and a gradient is the sequence of microbatches it was summed from, which is what
`zero_grad`, the skip paths, the roll-back and the resume move. `Corpus`: an observation is a
record of a kind; `ExampleOf` makes the example of it, with the lineage and the masses the
extractors give. (Every gate's answer becomes an example of an advance, refusals too: the
extractor looks for the word "blocked" in a reason, and no gate puts it there.) Shards, counter,
export directory and the split of `split_train_val` are the code's, with the shuffle of its seed
given as a constant.

`Environment` has `add_axiom` and `add_definition` as actions on `env`, which ask a checker given
as two constants, `Formed` (is this a type?) and `HasType` (has this term this type?). `Formal`
is the checker: the terms of `hott/formal.py` with the constructors grouped that one rule treats
alike, free variables, substitution with renaming, weak head and full normal form, inference
and checking as recursive operators. The runs bind the two constants to its `FormedIn` and
`HasTypeIn`; what does not depend on the checker can be proved without it.
`Substitution` replaces a module whenever `can_substitute` says so, again and again; `Cocycle`
is the breadth-first walk of `is_trivializable` one visit per step, over a group given by its
operation; `Identity` classifies pairs of memories; `Certificate` makes chains of patches.
An invariant there has a value and a probe that computes it, raises, or catches its exception
and returns one error value, as the six built-in probes do ("error", "nostate",
"uninitialized"): fingerprints of two errors are equal, so what an error hides may move and
the patch is certified. `ProtectedKept` therefore speaks of invariants computed at the start.
`can_substitute` says in its docstring (`hott/module_equivalence.py`, lines 303-307) that all
required guarantees must be present and no prohibition may be violated. The code weighs them by
their priority against 0.55 and takes the greatest weight: a required guarantee of priority
below 7 (5 is the default) and a prohibition of priority 0 do not refute, and any number of
them goes. The docstring and the code disagree there; `OnlyLightOnesLost` states what the code
keeps of that promise in one replacement, `CallersServed` what a chain of them keeps.
Nothing in the kernel calls these yet: the models are of what the functions promise to a caller
who acts on their answer.

## Runs

Bounds are the constants of the `.cfg` files. All runs of the ladder tolerate one failed test
and offer one or two (`FailureCounts = {1, 2}`), and cut the evidence log at 3 or 4 entries
instead of 150, keeping 3 instead of 100: the strictest gate asks for three, so every
comparison the gates make happens on both sides of the cut.

| Run | Question | Bounds |
|---|---|---|
| `ladder_bindings` | do records, stages, class and originals stay together when patches fight over a method? | 2 patches, 1 method, 2 pieces of code with 0 and 1 parameters; symmetry on patches |
| `ladder_sources` | does anything a hub or a subkernel sends let a stage be skipped, or evidence be lost? | 1 patch, hub and subkernel, 2 trust levels, 2 standings, requests with 0 or 2 items |
| `ladder_commands` | is whatever overrides a method of the unified set, loadable and fit for its callers while sets are opened, and does code of a subkernel stay out without a hub? | 1 patch, 3 methods (patchable, free slot, protected), code that fails at each check, 1 subkernel that may claim sovereign trust |
| `ladder_restart` | does the class move only as `MethodTable` allows across crashes, half-finished saves and failing writes? | 1 patch, 2 methods, 2 pieces of code |
| `kernel_services` | do registry, memory, tools, delegation, hub and boot keep their promises through refusals, failing writes and restarts? | see below |
| `autonomous_cycle` | do tasks, two workers' delegation, beliefs, HoTT layer, corpus and training keep theirs, and do leases and jobs both follow `WorkLedger`? | see below |
| `mission` | does every goal and every plan end? | 2 plans, 1 research step, 2 attempts, 1 command |
| `restart_skips_gates` | is every gate passed across restarts? No. | as `ladder_restart` |
| `quarantine_ignored` | does quarantine keep a patch from being applied? No. | as `ladder_bindings` |
| `subkernel_code_live` | with a hub, is subkernel code kept out of the class? No. | as `ladder_sources` |
| `dedup_key_drifts` | does a module wait in the hub's queue once? No. | 1 patch, 1 module, queues of 2 |
| `empty_type_proved` | has the empty type no element? No. | 2 axioms, 1 definition |

Two patches are enough for stacking: the ladder compares a patch with what is bound, never
with a third patch. One is enough where the question is about reuse of a name. The patches of
`ladder_bindings` are interchangeable and no property names one, so the symmetry is sound;
its properties are invariants and one action property, none a liveness property.

Bounds of `kernel_services` (510,000 states), and what they let happen:

- registry: 2 proposals of 1 module by a trusted hub and an unknown subkernel, for hub or main:
  a refused module comes back under the other identifier, sender or target.
- memory: 1 local entry or summary, 2 branch items, banks of 2 entries, 2 mishaps (a crash, a
  revert or a failed write), 1 rollback point: a bank is cut, a crash falls between the two
  files, a failed write is followed by a restart or by a revert.
- tools: 2 workers; `web_search`, which every role may use, and `browser_action`, which is logged,
  has a budget of its own and needs a package; quotas (none for the subkernel), leases and
  limits of 1, 2 calls, 1 installation, 2 requests, 1 success: each limit is met and exceeded
  by one.
- delegation: 1 worker of capacity and quota 1, 2 goals, writes that fail: a full worker, and a
  file that is old. In `autonomous_cycle` there are 2 workers of capacity 2 and 3 goals, so
  that the choice of a target matters and capacity is reached by reports twice over.
- hub: 1 patch, 1 module, queues of 2, 2 waves: an evidence task, a merge, a wave that waits
  for another, a full queue.
- boot: 2 versions, 2 snapshots on disk and 1 in memory, 1 crash, 1 damaged file, 3 failures.

Bounds of `autonomous_cycle` (690,000 states):

- tasks: 2 in a queue of 2, 3 completions (a task may be completed again) of which a save keeps
  1, 1 crash: the cut of either list drops what the other refers to.
- beliefs: 3 handlers between restarts; verdicts depend on five beliefs, a handler on at most three.
- types: every constructor in a definition, one transparent or opaque definition on top, and
  definitions whose binders shadow each other.
- modules: contracts over 1 capability and 2 properties whose weights tip the balance to either
  side, guarantees of priority 5 and 9, prohibitions of priority 0 and 1. Cocycles: 3 fragments, 4 overlaps, elements and their inverses of the symmetric group
  of three: a cycle, a tree and a disconnected cover. Memories: 3, every two and a third.
  Certificates: 2 protected invariants, 1 watched, 2 values, probes that compute,
  raise or return an error value.
- pretraining: 3 batches in 2 epochs, accumulation of 2, 2 runs: a remainder at the end of the
  epoch, a skip within an accumulation, a resume.
- corpus: 3 records, shards of 2 lines, 1 restart, 1 training, no val_ shard: the split is by
  index and moves as the stream grows. Lines change sides then, and the live model takes its
  own training lines from the newest shards, so that what `training/eval.py` calls held-out
  it may have been trained on. No property is claimed about that.

### Fairness and deadlock

Only `mission` assumes fairness: weak fairness of the cycle, of the clean-up of stale plans, and
of each plan's ageing. `run_loop` calls the first two in every iteration until the process ends,
and time passes. A paused kernel does neither, and a degraded one runs no cycle: a behaviour
that stays so for ever (`Halted`) is excused. The operator is not fair: RESUME need not come.
The other properties are safety properties.

The runs of the ladder check for deadlock. `kernel_services`, `autonomous_cycle`, `mission` and
`empty_type_proved` do not: numbered proposals, tasks, runs and records are used up, a walk over
a cover ends, an operator may leave the kernel paused.

### What the failing runs show

- `restart_skips_gates`. `_load_kernel_ecology_state` takes the stages from the ecology file,
  `load_state` the code from the state file. Packets save only the ecology. Stage new code
  under an old name, advance it, let a packet save the ecology, and restart before the periodic
  save: the old code is back with the new code's stage, and is applied from there.
  `promotion_ladder.py` says that no stage can be skipped.
- `quarantine_ignored`. `apply_live` and `advance` look at the stage, never at the quarantine;
  `quarantine.py` says such patches cannot be promoted until released.
- `subkernel_code_live`. `_stage_patch_proposal` writes the sender's role under the patch name
  before it checks the proposal. A subkernel stages code, the hub proposes something under the
  same name that is rejected, and the subkernel's code now carries the role of the hub.
- `dedup_key_drifts`. `artifact_dedup_key` puts the kind of a module into its key, and the kind
  is filled in only when the proposal is known. After its evidence task a module has another
  key than the request that arrived before, and waits in the queue twice. The docstring says
  the key is the same whenever the proposal becomes known.
- `empty_type_proved`. `infer` looks the type of a variable up by name in a context it extends
  by name. The variable bound by the inner binder of `\X:Type. \x:X. \X:Type. x` is not the one
  the type of `x` is about, but has its name: applied to `A` and `a`, the term is given the type
  `Pi X:Type. X`, and `add_definition` accepts it.

## Proofs

`PromotionLadderProofs` proves for any number of patches, methods, kernels and pieces of code,
from the named assumptions of the module (`CodeAssumption`, `TargetAssumption`,
`SourceAssumption`, `EvidenceAssumption`):

- `TypeCorrect`, one lemma per group of actions.
- `NoStageSkipped`: `StageBacked` is inductive relative to the types. The ghost `passed` is
  reset when a name gets new code, so the invariant is about the code staged now.
- `OnlyVettedCodeRuns`, `OriginalsSurvive`, `ReportExact`: from
  `ClassInv == TypeOK /\ StageBacked /\ LiveVetted /\ SavedVetted /\ BaselineKept /\
  EvolvedExact /\ NativeKept`. None of them is inductive alone: a revert binds what was
  saved, so the saved functions must be vetted or original (`SavedVetted`), and a saved
  native method must never be "nothing" (`NativeKept`). The lemma `ClassMoves` reduces the
  next-state relation to three cases - bind with all gates passed, revert, class unchanged -
  and each conjunct is checked on those.
- `CallersNeverBreak`, an action property, and `LadderImplementsTable`: every step of the
  ladder is a step or a stutter of `MethodTable` under `live <- bound, saved <- originals`.
- `NoPhantoms`, `RecordMatchesLadder`: from
  `RecordInv == TypeOK /\ NoPhantomApplied /\ StageMatchesStatus`, over the six ways a step can
  move records and stages (`RecordMoves`).
- `EvidenceNeverLost`: for any limits that keep at least three entries.
- `LiveImpliesShadow`, `OnlyTrustedLocalHub`: facts about the gates as functions.
- `SubkernelsAloneNeverLive`: under the hypothesis that every child is a subkernel,
  `TypeOK /\ AuthorRecorded /\ OnlyMainLive` is inductive. The failing run shows that the
  hypothesis is needed.

`LadderPersistenceProofs` adds the two files. `HandlersAreSteps` shows that what a handler does
to the memory is a step of the ladder, so the lemmas above carry over.

- `FilesAlwaysReadable`: `PTypeOK` is inductive: what either file holds has the types the
  memory has, so that any pair of them can be read back.
- `PersistenceImplementsTable`: steps map to steps or stutters of `MethodTable`, a restart to
  its reboot. It needs no invariant, and `ClassInv` could not serve: a restart breaks
  `StageBacked` (that is the finding). `TableMoves` takes from each action only what it does to
  bound and saved functions.
- `ClassAlwaysSound`, `OriginalsInEveryLife`, `CallersNeverBreakOverRestarts`: what a restart does
  not break, although it breaks the gates. The invariant `TableInv` (of every method,
  `MethodInv`) says of the class alone, without records or stages, that an override is of the
  unified set, loads, fits the function that was there at first, and has that function saved
  behind it. Binding looks at the class and not at the files, so the files may hold anything.

`DelegationProofs` proves `NoWorkerOverloaded`, `LedgersAgree` and `GoalsNeverDropped` for
any number of workers and goals. The inductive invariant says of the memory and of the file
that each is consistent by itself (`MemoryBooks /\ DiskBooks`): a restart replaces one by the
other, so neither half is inductive without the other.

`DelegationKeepsLedger` is the refinement: `DSpec => LedgerSpec`. `LedgerStep` maps the handlers to
the steps of `WorkLedger` by the leases: spawning, tools and reviews to stutters or to a copying,
a delegation to `Handed` (a worker is chosen among those with room; a spawned one has no lease,
by `Held`), an outcome to `Ended`, a restart to `Returned`. The jobs then follow (`JobsFollow`),
because `Books` makes the jobs, read as leases, equal to the leases in memory and in the file.

`BootProofs`: `FilesAlwaysWhole` from `WholeInv` (what is written and what a rollback reads is
whole; only damage from outside tears the state file), and `RollbackRestoresLast` from
`SnapshotInv`: the last entry of the cache, if it has weights, and the newest file, if it is
whole, are the snapshot last saved in full; a rollback reads the one or the other, after
snapshots that failed and restarts that emptied the cache.

`SnapshotsBounded` adds the sizes (`SizesInv`): a clean-up runs after every complete snapshot,
so that only a crash inside a save leaves one too many, one for each crash.
`DelegationTyped` adds trust and levels (`StaffInv`).

`Foundations` holds what the later proofs needed and the library states only for a predicate
taken as a parameter. `Induction` is over a set (`0 \in S`, `n - 1 \in S => n \in S`), which the
provers can instantiate; `Recursion` gives every function `f[n] == IF n = 0 THEN base ELSE
step[f[n - 1], n]` its existence, its range and its equation. `Pick(s, I)` is the comprehension
`[x for x in s if ...]` by the places `I` it keeps, and `PickIs`, `KthIs` say that it keeps
exactly those, in order and each once. Loops over rows, calls or items are written as such
functions, and an invariant of a loop is a set the induction stays in. `MinIs`, `MaxIs`,
`RemoveAtIs` and `SetToSeqIs` are about operators of the community modules.

`ServicesProofs`:

- `NoWayRoundARefusal` from `RefusedCools`: a barred module is on cooldown, and no review of a
  module on cooldown admits it.
- `MemoryOnce` from `MemoryInv`: of the branch's items that nothing brought back (`Fresh`), the
  banks in memory and the banks on disk hold only those no branch holds any more (`Gone`), each
  once (`Tidy`), and the branch on disk is part of the one in memory unless a write failed
  since. The halves about the files are what a restart needs; a revert, and a restart after a
  failed write, take what they bring back out of `Fresh`. The consolidation is a loop over the
  entries of the moment, the promotion one over a set in any order; each keeps `Tidy` entry by
  entry. The property does not hold of the items brought back: those are promoted again.
- `QuotaAlwaysHeld` from `AccessInv`: the ecology file always holds the usage in memory, since
  every packet that moves it saves it, and what was granted is at most what is used plus what
  successes gave back. Without the first half a restart would give calls back.
- `ToolRatesHeld` from `RateInv`: since the last reset `called[r] <= budget[r]` for every
  resource a tool names, as the budget is spent before the tool runs. The property says
  nothing of package installations, for which no budget is asked. A restart starts from a
  saved budget, which may be older; then the calls are counted anew.
- `WavesAreDisjoint` from `HubInv`: queues in their limits, waves bounded, no key in two open
  waves. A wave is chosen among rows no open wave holds the key of, one row for each key; the
  loops that follow a choice keep the queues' types, whatever the ranking.
- `RequestsLeaveThroughWaves`, an action property: row by row, what waits stays in one of the two
  queues or is in the wave being opened. `CutNow` excuses a step that ends with a full queue,
  or begins with more requests and tasks than a queue has room for: the loop may then cut in
  the middle and take out more afterwards, so that the queue it leaves is not full. The proof
  attempt found this: with the first half alone the statement fails for longer queues than TLC
  was given.
- `ServicesTyped`, and with the lemma `ServicesApart` every theorem above for the composition of
  `kernel_services`: whatever the composition does, each service takes a step of its own or
  rests, so the composition's specification implies all six.

`CycleProofs`:

- `DependenciesCameFirst`, `NothingReadyWaits`, `TasksTyped` from `TInv`. What is active or completed
  has its dependencies in `everDone`, in memory and in the file (`Grounded`): a restart replaces
  one by the other, and completed identifiers kept are only ever some of those.
- `BeliefsCohere` from `BeliefInv`: once the budgets are updated the verdicts agree with the
  beliefs, before that all but the one on `search` do (`Settled`), which a research command
  that raised leaves behind; and there is no support against `coherent`, in memory or in the
  file, since every measurement is made after the update. One lemma says that each handler of
  an observation keeps degrees in their range, one that a loop over such calls does, wherever an
  exception ends it. Products are rounded down (`Percents`).
- `OneStepEach` from `PTInv`: the microbatches in the accumulated gradient are older than the
  place of the loop and newer than those of every step (`Accumulating`), and those of one step
  are of one epoch. That order gives disjointness and survives skips, the end of an epoch and
  a checkpoint resumed.
- `NothingWrittenIsLost`, `CorpusTyped` from `CorpusInv`: shard after shard the stream holds what was
  written (`Holds`, whose witness is the text up to each shard), no shard is longer than its
  size, and the last has as many lines as the counter says. `HoldsWhole` ties `Holds` to
  `FlattenSeq` of the community modules.
- `MissionTyped` from `MInv`: attempts exceed their maximum by one, and only once the goal is shelved.

`HottProofs`:

- `WalkDecides`: for every cover and every group (`GroupAssumption` states associativity, unit and
  inverse, nothing about commuting). The invariant `WalkInv` says that the neighbours of a visited fragment are
  known (`Reached`), and that over any solution `a` the values known differ from `a` by one element
  in each connected part (`OneKey`). A walk that ends without a clash leaves a solution behind;
  after a clash `OneKey` leaves none.
- `NothingRedeclared`: a declared name keeps its type and its term. `AxiomsDoNotUnfold`: only what
  has a term is unfolded. Both hold for every checker: `EnvironmentAssumption` only says that
  the two constants answer yes or no.
- `CycleTyped`: `CycleTypeOK` for the composition of `autonomous_cycle`, from the type invariants of
  its parts; `CycleApart` says that a step of the composition is a step of one of them.
- `ReplacementsServe` from `ServedInv`, `GenuineConflicts` from the symmetry of `IdentityPath` and of
  the diagnosis. `LossesAreLight`: for any contracts, a replacement drops a required guarantee
  only below priority 7 and violates a prohibition only of priority 0.
- `CertifiedChains` along any chain, for any set of invariants: what was computed at the start
  stays, and a raising probe of a protected invariant refutes every patch from then on
  (`StillRaises`). It says nothing of what hides behind an error value.

Only model-checked:

- `TypesKept`: a term in which no binder shadows a name keeps its type in normal form. It is
  about the recursive operators of `Formal`, which take the provers away from every module that
  reaches them. Without the condition it is false, of the definitions the run itself tries:
  `empty_type_proved` shows what becomes of one.
- `GoalReleased` and `PlanEnds`: liveness under fairness.
- the five properties the code does not have, for which TLC gives the counterexample.

## Not modelled

- Sheaf observer: linear algebra over floats that only reports. Mutation log, packet log, debug,
  telemetry: written and never read back. Configuration: constants.
- Networks, optimizers, objectives, metrics, tokenizers, `training/eval.py`: numbers over floats.
  What their control depends on - is it finite - is in `Pretrain`.
- The HoTT certificate gate of the ladder (the kernel supplies no certificate),
  `bilateral_univalence` (always raises), `RUN_CODE` (whatever the operator types).
- In the hub, `process_wave_escalations`, `process_proposal_rework` and
  `process_blocked_growth_followups`: the program leaves no work item for them, because
  `resolve_surfaced_review_waves` overwrites the queue it has just extended. The caution map is
  part of the ranking, which is open.
- Revocation of leases, retry counts of tasks: nothing calls or counts them. A lease's expiry is
  never enforced.
- The text of goals, the answers of language models, the network, packages and the browser:
  chosen by the environment.
- Schema migration beyond the fields it fills in; calibration profiles other than the default;
  the lanes of the bilateral core no handler of the loop uses.
- `scripts/`, `evals/`, corpus and probe tools: run by hand, offline.

What is left to do: the `Lane` projections as functions; one specification of hub and ladder in
which a wave's verdict quarantines the patch; the loops of the hub that change waves after their
verdict as one abstract specification; and, once binders of one name are told apart in
`hott/formal.py`, `Formal` with functions over terms of bounded depth, so that substitution and
typing can be proved about.
