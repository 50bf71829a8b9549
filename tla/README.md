# SparseCraft search loop: specifications, checks and proofs

TLA+ models of the hardware/software co-design search in this repository: a
driver (`src/src/loop.py`) that lets a proposer edit a Gemmini tree, takes the
tree through a ladder of gates, lets a repair agent try to fix what a gate
refuses, measures what passes, and decides whether the search moves there.

The models are translated from the Python under `src/src/`. TLC checks them on
small instances; TLAPS proves part of what it checks for every value of the
constants.

## 1. The system

| Component | Source | State it keeps | Operations |
|---|---|---|---|
| Search loop | `loop.py` `main` | parent (state, RTL digest, diff), `seen`, `seen_info`, history, records, base point, last netlist | iterations: propose, evaluate, repair, score, publish, move or roll back, contain a raise; `--resume` |
| Gate ladder | `loop.py` `evaluate_tree` | the iteration's record, `round_idents`, `pending_synth` | N13 scope, N20 legality, N21 identity, N12 compile, N30 elaborate, N12b netlist, N32 kernel, N50 simulate, N41 compare |
| Repair loop | `loop.py`, `recovery.py` | attempts in total and per class, the failure that stands | classify, budget, repair turn, re-enter the ladder, revert guards |
| Failure taxonomy | `recovery.py` | none (tables) | `classify`, `revert_check`, texts |
| Pareto admission | `pareto.py` | front, archive, visits | `feasible`, `reward`, `admit`, `hypervolume` |
| Build tree | `diff_nodes.py`, `nodes.py` | the container's working tree | reset and re-apply a diff, collect a diff, digests |
| Tool calls and their cache | `loop.py`, `nodes.py` | cached results under their tags; `gemmini_params.h` and `gen-collateral/` on disk | elaborate, netlist digest, build the kernel, simulate, synthesize; serve or execute |
| Design state | `design_state.py` | none (a value) | canonical form, hash, hardware and software hash, rendering |
| Legality T0 | `t0_legality.py` | none | `derive`, `check`, `check_patch_scope` |
| Analytic tier T1 | `t1_model.py`, `zbu_model.py` | a header cache | prediction, energy, skippable rows |
| Synthesis T3 | `loop.py`, `synth_node.py`, `synth_recipe.py` | `pending_synth`, one slot | dispatch beside the simulation, join or redo; run yosys and OpenSTA, parse |
| Proposers | `proposers.py` | the greedy arm's incumbent, trials left, pending trial | `propose`, `observe` |
| Agent calls | `agent.py`, `candidates.py` | prompts, sessions | compose, call, parse |
| Counters | `metrics.py` | none | parse a simulator log |
| SpMM kernel | `kernels/spmm.c` | scratchpad and accumulator rows, commands in flight, Y | preload X, load X and A, multiply, store Y, compare |
| Workloads | `workload/` | none (generated headers) | shapes, blocks of A, X, the golden Y |

The driver is one process. It calls remote functions and blocks on each (`get`);
only the synthesis of a round runs beside the rest of it. What makes it hard is
not parallelism but the number of places where a step can stop: every remote
call can return a failure or raise, every repair round re-enters the ladder with
a tree edited in the meantime, and four pieces of state (the container's tree,
the parent's triple, `seen`, the journals) have to tell one story afterwards. Two
further places have concurrency or reuse of their own: the results of the tool
calls are cached under tags that are meant to name all their inputs, and the
kernel issues commands to an accelerator that completes them later and out of
order.

What makes each component correct:

- **ladder and repairs**: what reaches scoring was checked by every gate in its
  final form; a repair cannot pass by undoing the mutation; caps hold; the
  verdict that stands is a measured one; an iteration ends.
- **search loop**: between iterations the container holds the parent; the parent
  is the last admitted design, its record written or cut short; no design is
  measured twice; the journals agree;
  the run ends; seen from outside the run is a sequence of admitted, rejected,
  failed and lost iterations.
- **admission**: the front is an antichain that covers every scored point; a
  niche keeps its best; feasibility before everything.
- **tool calls**: a measurement is about the design in the tree, whatever was
  cached, left on disk or dispatched before; an edit refused as a no-op is one.
- **control arms**: a control arm's own idea of where the search is agrees with
  the loop's, and it is exhausted only when every neighbour was tried.
- **kernel and legality**: a legal schedule addresses nothing beyond the
  hardware; Y is A * X under every schedule and every order of completion.

## 2. Modules

```
FailureClasses            classes, caps, revert check            (no state)
  RepairLoop              one iteration: ladder + repairs
    RepairLoopProofs      its invariants, proved
    SearchLoop            the run: proposals, endings, rollback
      SearchLoopProofs    its invariants, proved
      SearchRefinement    ... implements SearchContract (abstract)
        SearchRefinementProofs  ... step by step, proved
      RunResume           the run with a process that dies and --resume
        RunResumeProofs   its invariants after any number of deaths, proved
      ControlArms         the run proposed by the random or the greedy arm
        ControlArmsProofs incumbent against parent, and what an exhausted
                          greedy arm has tried, proved
ParetoAdmission           front, archive, admit
  ParetoAdmissionProofs   its invariants, proved
  Hypervolume             the slab sum next to the volume it stands for
NodeCache                 the tool calls of a round, their tags, what is on disk
  NodeCacheProofs         its invariants, proved
T0Legality                the rules of the legality check        (no state)
  SpmmKernel              the kernel and the accelerator it issues to
                          ... implements SpmmContract (abstract)
    SpmmKernelProofs      types and address bounds, proved
SpmmWorkloads             the shapes of the generated headers    (no state)
MCRepairLoop, MCSearchLoop, MCRunResume, MCControlArms, MCParetoAdmission,
MCHypervolume, MCNodeCache, MCSpmmKernel
```

### FailureClasses, RepairLoop

A design state is a function from fields to levels, an RTL source its digest, a
tree the pair plus whether it touches a path outside the writable set. `pc` is
the gate that runs next. Each gate is one action whose disjuncts are the
returns of that stretch of `evaluate_tree`, tried in the source's order
(`IdentityVerdict` lists the early returns of N21 in theirs). `Returns` is the
`return GateFail(...)`/`return GatePass(...)` together with what the caller does
with it: after round 0 it fixes `proposed_state` and `proposed_rtl`, after a
repair round it drops a revert, a no-edit or a duplicate and lets the failure
before stand. `MayRepair`, `OpenRepair` and `RepairTurn` are the `while` loop
with its guards in order; a repair turn may leave any tree of `AgentTree`
whether or not its call succeeded. `RaiseOut` is a remote call that raises.

`rec` keeps the two fields of the record later code reads back
(`state_hash`, `rtl_digest`), with the source's timing: the state is written
after the revert check and before the legality verdict, the digest when N21
starts, and neither is restored when a round is dropped.

What the tools answer is not predicted. A gate that calls one may pass, fail,
or fail with an infrastructure signature in its log; `Netlist` is a parameter,
so that the no-op test compares something that depends on the tree, the
generated toggles and the RTL.

### SearchLoop, SearchContract, SearchRefinement

SearchLoop adds what survives an iteration. The ending of an iteration is split
where a raise can fall between: record and rollback, remember, write the record
again; score, publish, adopt or roll back, write the record. `AdoptParent` moves
the parent in memory only; `WriteRecord` is the last write of `iter_NNN.json` and
the end of the iteration, of a measured design and of a failed one.
`EndingRaises` may fall before each of them, so a raise of that write leaves a
parent that has moved. `ContainRaise` is the `except BaseException` handler: it
overwrites the record and neither rolls back nor takes a move back. `AbortRun` is
the `SystemExit` of the integrity check and of a missing workload header, which
is not contained.

`Rollback` is `rollback_to_parent` with its fallback: if the parent's diff does
not apply (`ApplyMayFail`) the tree is the pinned commit with the parent's
parameters, and the RTL is lost. N60's decision is left open in this module;
ParetoAdmission has it.

A run may start from a seed (`--seed-diff`): a tree that the container holds
while the loop's parent is still the baseline (`SeedTrees`). Iteration 1 then
measures the seed, not the baseline, and if it fails the rollback takes the seed
away; `TreeIsParentAtRest` exempts the seed until it was evaluated.

A control arm's proposal is written by `apply_design_state` in two files, the
parameters and the toggles generated from them. `ProposerRaises` lets it raise
before, between or after them.

The locals of an iteration are reset where it ends instead of where the next
one starts. Nothing reads them in between, and states that differ only in dead
locals are one state.

SearchContract is what a reader of a run relies on: iterations that are
admitted, rejected, failed or lost, a parent that moves at most once in an
iteration (`Move`), to a legal design in scope never measured before, and a
container that holds the parent again after a rejection or a failure. An
iteration whose parent moved ends admitted or lost and in no other way; a lost
one moved it or did not, and the container holds whatever was left.
SearchRefinement maps the loop to it: the contract's log is the list of records
that are final, its measured set the history entries of those iterations,
`moved` the parent being the design that was scored in this one (`Moved`).

### RunResume

The steps of SearchLoop, with the disk beside them: `records` holds the verdict
of each `iter_NNN.json`, `filed` what the record and its diff file hold next to
it (state hash, RTL and netlist digest, whether N60 scored the design, its diff),
filed whenever a step writes the record. The process may die `MaxRestarts` times.
`history` is what memory holds; `history.json` holds the same, because every step
of the loop that changes it writes the file, but for the last entries whose write
raised: `OnDisk` is every prefix of `history` that lacks only such entries.
`Restart` is a death of the process at any step together with the `--resume` that
follows; nothing runs in between. `Resumes` is `reconstruct_run` and the resume
block of `main`: it replays the measured records, rebuilds parent, reference,
admitted designs, `seen`, `seen_info`, the history's missing entries and the last
netlist, and rolls the tree to the parent. Missing entries are sorted in by
iteration, and the sort is stable (`ByIteration`): a process that died twice in
one iteration may have left two entries of it. It must refuse when nothing was
measured (there is no diagnosis to restore) or when a scored iteration raised
afterwards: its record has `admit_info` and the verdict INFRA_FAILURE, which no
replay gives. It may always refuse: an input changed, a file is cut short, or a
replayed reward differs, since the cost of a design is replayed from another
number (`wall_clock_s`) than the one it was scored with.

### ControlArms

The two control arms over SearchLoop's steps. `GreedyProposes` is `observe` and
`propose` one after the other, as the loop calls them: first the arm learns
whether its pending trial was admitted (`Learns`, from iteration 3 on and only
as `last_admitted` says), then it rebuilds its list if its incumbent is new or
changed, and takes the foremost trial. `todo` is a set with the seed-dependent
order of the levers (`rank`) beside it; the values of one lever may come in any
order, as they are shuffled. A lever may set several fields, like `array_dim`.
`trials` and `misled` are observed only. `Misled` names the case in which the arm
was told of the wrong admission: the baseline became the parent and the first
trial did not (section 5); `IncumbentIsParent` holds in every other.

### NodeCache

RepairLoop takes every answer of a tool to be about the tree. Here an answer
carries what it was really made from: `Artifact`, `Binary` and `Log` hold the
hardware, RTL, schedule and kernel source that went in, and `builds`, `kernels`
and `logs` hold them under the tags the code computes. `Serves` is `cache_hit`
with `cache_provider`: an entry is served when the scope allows it and it is no
failure by its success flag or exit code. A log has two verdicts, the exit code
of its run (`ok`) and what the driver makes of it (`good`): only the first keeps
it from being served (section 5). An executed elaboration rewrites
`gemmini_params.h` (`header`) and `gen-collateral/` (`collateral`), and one that
fails may leave either as it was, or no Verilog at all; a served one leaves both,
a rollback restores the header with the tracked files and leaves the collateral.
The kernel is compiled against the header on disk, and the netlist digest, which
has a tag but no provider, reads the collateral on disk. `pending` is
`pending_synth`. `Relaunch` is another run in the same container, with a kernel
that may have been edited and, in scope "run", an empty cache.

What the gates before elaboration decide is left to RepairLoop: here a round
goes from the lookup of the design to its elaboration.

### T0Legality, SpmmContract, SpmmKernel, SpmmWorkloads

`Legal` is `t0_legality.check` over a record with the fields the rules read, one
operator per family of rules. `Kilo` is the number of bytes in a unit of
capacity, so that a small instance can have small memories.

SpmmKernel is `main` and `row_mac` with both build paths (`accres`). Every loop
that issues a command is an action that issues one and moves its counters
(`Advance`, `Enter`); addresses are counted in tiles, which every address is a
multiple of. `issued` are the commands in flight. The accelerator is external:
commands of one kind complete in order, a command waits for earlier ones whose
tiles it shares, everything else may overtake. A tile holds the name of the
block that was moved into it, a sum is the bag of its products, and a load with
the wrong stride moves junk. SpmmContract is what any schedule promises: a row of
Y only ever gains products it still owes, and the refinement is checked as
`ComputesTheProduct`.

SpmmWorkloads has the shapes of the five headers. MCSpmmKernel evaluates the
rules with the constants of the source on them (`SourceGap`, `SourceWidths`), so
that what the small instance shows about resident X is seen to hold of the
shipped workloads too.

### ParetoAdmission, Hypervolume

A point is its objectives, its niche and whether it fits the SRAM budget. The
reward is any value of a set: it is a logarithm of ratios less the wall-clock
cost of the iteration, so it does not follow from the order of the objectives.
The front is a set where the code has a list; two equal points, which the list
keeps side by side, are one element, and no operation of the module
distinguishes the two. `Plan` says whether the caller passes a `plan_id`: the
loop passes none, the API allows it, and the run covers both. Hypervolume
transcribes the slab sum and sets it beside the number of unit cells dominated.

## 3. What the runs check

| Run | Instance | Shows |
|---|---|---|
| `repair_loop` | 2 fields, 3 levels, 2 RTL sources, legal states coupled (`gate + k <= 2`), budget 2 | types, caps, `PassIsAdmissible`, `RepairKeepsMutation`, `VerdictIsAboutTheDesign`, `IterationSettles` |
| `search_agent` | 1 field, 2 RTL sources, the pinned tree, two legal and one illegal edit, 3 iterations, one repair each | `TreeIsParentAtRest`, `ParentIsLastAdmitted`, `NeverMeasuredTwice`, `HistoryAgreesWithRecords` |
| `search_no_repair` | two legal, one illegal and one out-of-scope edit, 3 iterations, no repairs, a seed, `git apply` may fail | types, `ImplementsContract`, `RunEnds` |
| `control_arms` | 3 fields, 2 levers of which one sets two fields, coupled legality, 5 iterations, both arms | `TreeIsParentAtRest` when the proposal itself rewrites the toggles, `IncumbentIsParent`, `ExhaustedIsLocalOptimum` |
| `run_resume` | 1 field, 2 RTL sources, a legal, an illegal and an out-of-scope tree, 3 iterations, one repair each, two deaths at any steps | `ResumeKeepsTheSearch`, `RecordsMeasureOnce`, `EveryDesignIsTold`, `TreeIsParentAtRest` |
| `pareto` | 2 objectives with 3 values, 2 niches, 2 rewards, 4 iterations | `FrontIsAntichain`, `FrontCoversOffered`, `ArchiveHoldsBest` |
| `node_cache` | 2 hardware states, 2 schedules, 2 RTL and 2 kernel sources, 5 designs, 2 launches; scopes "run" and "off" with 3 iterations and a repair, "global" with 2 | `ArtifactIsOfThisDesign`, `BinaryIsOfThisSource`, `MeasuresTheTypedDesign`, `NoOpIsReal`, `SynthesisIsOfThisDesign`, `UncachedRoundIsExact`, `OwnHeaderWhenElaborated` |
| `spmm_kernel` | blocks of 2, X 3 tiles wide, 2 rows of 3 blocks, 2 scratchpads of 8 and 16 tiles, 4 commands in flight, every legal schedule, dense and sparse, both build paths | `ScheduleStaysInBounds`, `TilesLeaveOnceAndWhole`, `ComputesTheProduct`, `ProductIsReached` |
| `stale_measurement`, `first_trial_credited`, `resident_x_fits`, `hypervolume_exact` | as above | section 5 |

Why the bounds are enough. Two repair turns are the least in which a second
repair sees a tree and a failure that came out of a repair, and in which a
class cap (1 for most classes) is met before the total. Two fields, three
levels and a coupled legality rule give a repair the moves the revert check
separates: back to the parent, past it, part of the way, and another field
altogether. Three iterations are the least in which a raise in the second
leaves a tree for the third and a design of the first can come back, and in which
an admission that was cut short after the move is followed by one that is
recorded or by a rollback to it. Two legal edits beside the pinned tree are the
least in which one is admitted and another measured after it; proposals that
differ from these in nothing the gates read are left out. Two deaths
are the least in which an iteration's record comes from one attempt and its
history entry from another, and in which a resume restores what a resume
restored. Five
iterations of a control arm are the baseline, an admission, the rebuild it
causes, and the exhaustion of a walk that was rebuilt. Four points are the least
in which a displaced member's displacer is displaced itself, with a point in the
other niche beside them; two objectives already give dominance, ties and
incomparable points. In `node_cache`, three iterations let a design be admitted,
another be built over it and a third be served from the first; two launches let
a kernel change in between; the second RTL shows in the netlist of one hardware
state only, so that an edit can be a no-op and a real one, and without a cache
three iterations with a repair let N12b compare with a netlist that a rollback
has left behind. In `spmm_kernel` the
smallest legal scratchpad is filled to its last tile by two blocks a chunk, a row
of three blocks takes two chunks, X is three tiles wide so that a load of two
leaves a narrower one, and four commands in flight let the loads of a chunk meet
the products of the chunk before. The runs that stop on purpose (a run ends, an
iteration settles, the program ends) check no deadlock.

Two runs give TLC a `VIEW`, to take two states for one when they differ only in
what no later step reads and no property of the run asks for but its type. In
`node_cache` that is the content of the cache in scope "off": calls write it,
`Serves` asks for the scope first, and the scope is that of all launches. In
`control_arms` it is `admitted`, `seenInfo`, the history and the records: a run
of SearchLoop only writes them, and of the properties `TreeIsParentAtRest` alone
reads the records, for whether the iteration before raised, which the view keeps
(`JustRaised`). The types of what a view drops are checked on one state of each
class only; that they hold in all is proved (`ArmTypeCorrect`,
`CacheTypeCorrect`).

**Fairness.** `WF_vars(Next)` for the loop: the driver is one thread of control,
every call it makes has a time limit or returns, and it never waits for anything
else. Nothing is assumed about which of its answers a tool gives.
`IterationSettles` and `RunEnds` therefore rest on the caps and on the iteration
counter only. The kernel has `WF_vars(Processor)` and `WF_vars(Accelerator)`: the
processor runs its program, and the accelerator does not hold a command it may
complete. NodeCache states no liveness: that a run ends is SearchLoop's.

## 4. What is proved

Eight modules hold proofs: 38 theorems, with no assumption beyond the named
ones on the constants. They hold for every set of fields, levels, RTL digests,
agent trees, seeds, legal states, netlist function and repair budget; every
number of iterations and of deaths of the process, with a `git apply` that may
fail; every set of levers and values; every set of objectives, niches and
rewards; every set of designs, kernel sources, command lines and launches; every
workload shape, schedule, block pattern and number of commands in flight.

| Module | Theorem | Property |
|---|---|---|
| RepairLoopProofs | `IterationTypeCorrect` | `IterationTypeOK` |
| RepairLoopProofs | `BudgetIsRespected` | `BudgetRespected` |
| RepairLoopProofs | `PassesAreAdmissible` | `PassIsAdmissible` |
| RepairLoopProofs | `RepairsKeepMutation` | `RepairKeepsMutation` |
| RepairLoopProofs | `VerdictsAreAboutTheDesign` | `VerdictIsAboutTheDesign` |
| SearchLoopProofs | `RunTypeCorrect` | `SearchTypeOK` |
| SearchLoopProofs | `ContainerHoldsParent` | `TreeIsParentAtRest` |
| SearchLoopProofs | `ParentWasAdmittedLast` | `ParentIsLastAdmitted` |
| SearchLoopProofs | `EveryMeasurementIsNew` | `NeverMeasuredTwice` |
| SearchLoopProofs | `HistoryMatchesRecords` | `HistoryAgreesWithRecords` |
| SearchLoopProofs | `MeasuredDesignsAreAdmissible` | `PassIsAdmissible` |
| SearchLoopProofs | `MeasuredDesignsKeepMutation` | `RepairKeepsMutation` |
| SearchLoopProofs | `RecordedVerdictsAreAboutTheDesign` | `VerdictIsAboutTheDesign` |
| SearchLoopProofs | `RunStaysInBudget` | `BudgetRespected` |
| SearchRefinementProofs | `LoopImplementsContract` | `ImplementsContract` (a refinement) |
| RunResumeProofs | `ResumedTypeCorrect` | `SearchTypeOK` |
| RunResumeProofs | `ResumedContainerHoldsParent` | `TreeIsParentAtRest` |
| RunResumeProofs | `ResumedRunMeasuresOnce` | `RecordsMeasureOnce` |
| RunResumeProofs | `ResumedRunTellsAll` | `EveryDesignIsTold` |
| RunResumeProofs | `ResumeContinuesTheSearch` | `ResumeKeepsTheSearch` (an action property) |
| ControlArmsProofs | `ArmTypeCorrect` | `ArmTypeOK` |
| ControlArmsProofs | `IncumbentFollowsParent` | `IncumbentIsParent` |
| ControlArmsProofs | `ContainerHoldsParentOfArm` | `TreeIsParentAtRest` |
| ControlArmsProofs | `ExhaustedMeansTried` | `ExhaustedIsLocalOptimum` |
| ParetoAdmissionProofs | `ParetoTypeCorrect` | `ParetoTypeOK` |
| ParetoAdmissionProofs | `FrontStaysAntichain` | `FrontIsAntichain` |
| ParetoAdmissionProofs | `FrontStaysCovering` | `FrontCoversOffered` |
| ParetoAdmissionProofs | `ArchiveStaysBest` | `ArchiveHoldsBest` |
| NodeCacheProofs | `CacheTypeCorrect` | `CacheTypeOK` |
| NodeCacheProofs | `ArtifactsAreOfTheDesign` | `ArtifactIsOfThisDesign` |
| NodeCacheProofs | `BinariesAreOfTheSource` | `BinaryIsOfThisSource` |
| NodeCacheProofs | `MeasurementsAreOfTheTypedDesign` | `MeasuresTheTypedDesign` |
| NodeCacheProofs | `NoOpsAreReal` | `NoOpIsReal` |
| NodeCacheProofs | `SynthesisIsTheDesigns` | `SynthesisIsOfThisDesign` |
| NodeCacheProofs | `UncachedRoundsAreExact` | `UncachedRoundIsExact` |
| NodeCacheProofs | `HeadersAreTheDesigns` | `OwnHeaderWhenElaborated` (an action property) |
| SpmmKernelProofs | `SpmmTypeCorrect` | `SpmmTypeOK` |
| SpmmKernelProofs | `SchedulesStayInBounds` | `ScheduleStaysInBounds` |

The assumptions say what the constants are (`MaxLevelAssumption`,
`ConstAssumption`, `SearchAssumption`, `ResumeAssumption`, `LeverAssumption`,
`ParetoAssumption`, `NodeCacheAssumption`, `T0Assumption`, `KernelAssumption`),
that `None` is none of the values it is used beside (`NoneAssumption`,
`NoVerdictAssumption`, `NoTrialAssumption`, `NodeCacheNone`), and, in
ControlArms, that the proposer is a control arm (`ControlAssumption`). TLC
evaluates each of them on a run.

**One iteration.** `PassIsAdmissible` and the two after it say something only
once an iteration is over, so they are not inductive. The strengthening
(`LadderInv`) says for every `pc` which gates are already behind the current
round and what they established: in scope from "legality" on, recorded and legal
from "identity" on, in `seen` with its digest from "compile" on, generated
toggles from "elaborate" on; the same for the revert guards; and that the failure
in `res` is a repairable one whenever a repair is under way. `RepairTurn` is the
step that needs it: it changes the tree arbitrarily and is harmless only because
it returns `pc` to "scope".

**A run.** `RunInv` carries the same facts across iterations. An iteration starts
with its caps given back (`RoundInv`), from where RepairLoop's own lemmas prove
every gate; the new steps are the endings. What passed stays in scope, legal and
in `seen` until it is scored (`PassedInv`), what is scored as admitted is in
`admitted` (`ScoreInv`), and what was published is the entry of this iteration
(`PublishedInv`). `NeverMeasuredTwice` is not inductive: a design is measured
several steps after the dedup check let it in. `UnmeasuredInv` bridges them:
every measured entry is in `seen`, and from "compile" on the design in the tree
is in `seen` but in no measured entry. `ParentIsLastAdmitted` has to survive a
move whose record is not written yet, and one whose record never says so.
`MoveInv` says what a moved parent is while its iteration runs: the design that
was scored as admitted, whose entry is in the history; `CutShort` lets the same
entry stand for it when a raise takes the record's place, and a later recorded
admission always moves on from it. `TreeIsParentAtRest` needs to know, before the
iteration ends, what the tree holds while a failure is remembered and while the
last record is written (`RestInv`), and that the parent's diff is a diff of the
parent and in scope (`ParentDiff`), or an admitted edit could leave behind what
no rollback restores. `HistoryAgreesWithRecords` needs `HistoryInv` (no entry of
a later iteration, and one of the running one only after it was told), `EntryInv`
(that entry has the verdict the record will get) and `RecordInv` (which verdicts
a record may have once its iteration is over); `FailureFiled` is the order the
code writes the two in.

The refinement is proved with `RunInv` in hand: the initial states map to initial
states, and each step maps to a step or a stutter. Only five kinds of step are not
stutters: the start of an iteration, the move of the parent, the last write of
the record, an abort and a contained raise. An abort needs that no parent has moved
yet, the two endings need `MoveInv`: a record of an admission is of an iteration
that moved the parent, a record of a rejection or a failure of one that did not.
The contract's guard "never measured before" is where `UnmeasuredInv` is needed a
second time, and "to a legal design in scope" is `PassedInv`.

**Death and resume.** `RunInv` does not survive a resume, and it should not: the
rebuilt `seen` is smaller than the one that died (section 5), the history may
hold an entry of an attempt that no record is about, and the parent is restored
from a record and not from an entry. `ResumeInv` therefore states the same facts
over what is on disk: which iterations have a record and which may have one
already (`WrittenInv`), that a score is of the design in the tree under the
recorded name (`ScoredInv`), that a measured record's design is in `seen`
(`OnceInv`), that the parent is what the last admitted record and its diff file
say (`ParentFiled`), the reference what the first measured one says (`BaseInv`),
and likewise for the admitted designs, `seen_info` and the history
(`AdmittedInv`, `InfoInv`, `ToldInv`). Two of these hold with a reservation. While
the parent has moved and its record has not been written, the disk names the
parent before (`MovedInv`); and once a raise has taken the place of a measured
iteration's record, the disk names another parent for good, but then
`ScoresStand` is false and no resume replays it. `InfoInv` and `ToldInv` leave
out what an iteration told whose record a raise overwrote, and `Tells` what the
running one tells before its record says so. `ResumeKeepsTheSearch` then follows
at every death, because each of these is what `reconstruct_run` computes. The
stable sort of the history (`ByIteration`) is proved to keep every entry.

**Control arms.** `ExhaustedMeansTried` rests on `WalkInv`: every neighbour of
the incumbent is still in `todo` or was proposed, which `Rebuilds` restores when
the incumbent moves. `IncumbentFollowsParent` rests on `RunInv`, on `NoteInv`
(when `last_admitted` still carries an older admission: one that moved the
parent, recorded or cut short) and on `HandshakeInv`:
while a trial is judged the incumbent is the parent and the tree holds the trial;
afterwards the note says which of the two the parent is.

**Admission.** The front's two invariants are each inductive with the type
invariant; `FrontStaysCovering` rests on the transitivity of `Dominates`, proved
as a lemma: the witness for a point whose dominator is displaced is the new
point.

**Tool calls.** `CacheInv` is the argument of any content-addressed store: what
lies under a tag has the inputs the tag names (`StoresAreTagged`), an entry is
only written under the tag of the design it was made from, and a round only reads
under the tag of its own. `PendingIsTagged` says the same of the synthesis under
way; `NetlistIsOfTheRun` says that without a cache the netlist N12b compares with
is that of a design this run has seen, which is what makes `NoOpIsReal` hold
although neither a rejection nor a rollback resets it; `ResultsAreThere` and
`DiskIsOfThisDesign` carry the results and the disk through a round.

**The kernel's bounds** have two halves. The lemma `Layout` turns the capacity
rules of the legality check, which count bytes and rows with the width of X the
rules assume, into the tiles the kernel's addresses need; `KernelInv` bounds the
loop counters by the loop the program is in and says that every command in flight
names tiles that exist. The assumption `SPMM_N <= SPMM_DIM * (SPMM_DIM + 1)` is
what the accumulator's rule needs when the division of its capacity loses part
of a row; every shipped workload satisfies it (64 against 272). The assumption
narrows T0 in two more places: every design's array is as wide as the workload's
blocks (section 5), and `dma_maxbytes` is at least that width. T0 has no such
rule, it takes the widest load to be one tile where `dma_maxbytes` is less
(`t0_legality.py:257`), while the kernel divides and has none
(`MAX_BLOCK_LEN` is then 0); the field is 64 by default against a width of 16.

**Only model-checked.** `IterationSettles`, `RunEnds` and `ProductIsReached` are
liveness under fairness, which the prover does not reach. `TilesLeaveOnceAndWhole`
and `ComputesTheProduct` need an invariant that relates the bags of products in
the accumulator to every command still in flight; they are planned.
`HypervolumeIsExact` is false (section 5), and the slab sum folds over a sequence.

## 5. Where the code and its comments part

Four places are shown by a run that TLC must find violated:

- `stale_measurement`: the tag of `simulate` has no digest of the RTL, so after
  an RTL-only edit the log of the previous RTL is served as this design's
  measurement, and N41 judges it (`loop.py:1846` against `loop.py:1750`,
  `loop.py:1787` and `configs/no_cache.yaml:6`). The recorded run
  `results/v1-final15/console.log` serves one tag repeatedly (lines 950 and 972,
  1434 and 1456).
- `first_trial_credited`: `last_admitted` is cleared only where it is reported,
  from iteration 3 on, so the baseline's admission is reported as the first
  trial's. If that trial was not admitted, the greedy arm moves on from a design
  the search never moved to, and its trials differ from the parent in two levers
  (`loop.py:1333` against `loop.py:1262`, `proposers.py:175` and `178`).
- `resident_x_fits`: no rule of T0 looks at `x_resident`. A legal state with
  32 KB (dnn512, jag512) or 64 KB (dnn1024) makes the kernel address beyond the
  last row (`t0_legality.py:248` against `design_state.py:110`, `113` and
  `prompts/task/propose.md:152`).
- `hypervolume_exact`: on three objectives the slab sum takes the best energy
  and the best area from different points and overcounts (`pareto.py:211`).

Others are described by the models, without a run of their own.

In the ladder: a dropped repair round restores the failure, not the record's
`state_hash` and `rtl_digest`, so the failure is filed under another design
(`loop.py:2051` against `2104`); when the proposal failed at T0 its RTL digest
was never taken, so a repair may restore the parent's RTL and pass
(`loop.py:1605`, `1930` against `docs/architecture.md:134`); a tool failure with
an infrastructure signature keeps its own verdict and enters the history that
later proposers are shown (`loop.py:2107` against `docs/architecture.md:101`);
AGENT_FAILED looks at design-state fields only, so an RTL-only edit of a failed
call is thrown away (`loop.py:1575` against the comment at 1572); a design stays
in `seen` after an infrastructure failure and is later refused as already
evaluated (`loop.py:1643`, `1659`).

In the search: a raising iteration is not rolled back, the exception in
`TreeIsParentAtRest` and the contract's `Lost` (`loop.py:2500`); the parent moves
before its record is written, so when that write raises the search goes on from a
design whose iteration is recorded as INFRA_FAILURE (`loop.py:2468` against
`2491`), the second case of `ParentIsLastAdmitted`, and such a run cannot be
resumed, since the record has `admit_info` under a verdict no replay gives; the
first measured design becomes the reference and enters the front untested, also
when iteration 1 measured nothing or measured a seed (`loop.py:2354`); no caller
passes `plan_id`, so ADMIT_STEP is unreachable (`loop.py:2365`); the cost a
design is scored with is the wall clock of its iteration, with the hours of a
waited-out usage limit in it (`loop.py:2353`); the greedy arm abandons a trial
that an infrastructure failure lost, as if it had been rejected.

In the tool calls: the kernel is compiled against whatever header is on disk,
which a served elaboration does not regenerate and a rollback restores to the
parent's (`nodes.py:436`, "the freshly generated Gemmini header"; the exception
that `OwnHeaderWhenElaborated` and `UncachedRoundIsExact` leave). N12b compares
with the netlist elaborated last while its diagnosis names the parent's
(`loop.py:1795`, `1810`); the digest shares the elaboration's tag but has no
provider (`loop.py:1070`), so after a served elaboration it reads the Verilog of
another build, against the comment at `loop.py:1783`, and a genuine RTL edit may
be refused as RTL_NOOP, more than the recorded digest that `docs/v1-to-v2.md:336`
speaks of; this is why `NoOpIsReal` is about the runs without a cache. A log is
stored as a success whatever the kernel computed: `_is_failure` looks at the
success flag and the exit code, and the kernel returns 0 after a wrong result as
after a right one (`loop.py:1045`, `spmm.c:424`). A log that ends in
EQUIV_FAILED, EQUIV_MISSING or the tripwire is therefore served again, against
the docstring (`loop.py:1031`: "failures are never served"): a repair of such a
failure that changes the RTL alone gets back the log it was to repair. The
provider is registered for `synthesize`, which the loop never calls: a synthesis
always runs (`docs/v1-to-v2.md:333`).

In the kernel: the accumulator-resident path has no fence after the last row, so
the clock is read and Y compared while stores may be in flight (`spmm.c:369`;
`Compare` may see the old Y); the comment at `spmm.c:68` says a counter was
dropped that `spmm.c:318` still configures; T0 does not require the array to be
as wide as the blocks the workload headers were generated for, which
`KernelAssumption` therefore has to assume (`docs/v1-to-v2.md:325`).

On `--resume`: `seen` is rebuilt from one identity per record, so the design that
failed before a repair (or before an edit out of scope) is forgotten and may be
built again (`loop.py:558` against `loop.py:791` and `docs/v1-to-v2.md:162`); a
repair that ends out of scope after an earlier round had a state hash leaves a
record that a resumed run adds to the history, which the run it replaces did not
(`loop.py:555` against `2107`); a raise after N60 makes a run unresumable
(`loop.py:539`); so does having measured nothing yet (`loop.py:1293`); a raise
after a failure was told overwrites its record, so the verdict, and the entry if
its `history.json` was not written, are lost to a resumed run (`loop.py:2127`,
`2500`), the exception `Forgotten` in `ResumeKeepsTheSearch`; a death between the
move of the parent and the record takes the move back and the iteration is run
again (`loop.py:2468`, `2491`), its other exception; the
netlist digest of one round and the RTL digest of a later one can be restored as
a pair (`loop.py:507`); a process that dies between `history.json` and the record
leaves an entry for an iteration that is run again, and a second death between
the record and the history of that second attempt leaves the stale entry in its
place, which is why `EveryDesignIsTold` compares the state told up to the first
death only; and when a repair that ended out of scope is recorded under a design
that failed on its merits before, the resumed run tells the proposer
SCOPE_VIOLATION where it was told that failure (`loop.py:561`), the exception in
`ResumeKeepsTheSearch`.

## 6. Not modelled

- **Text**: prompts, work orders, transcripts, evidence, diagnoses, reports, RTL
  templates, the parsing of logs.
- **Numbers without control**: the energy and area formulas (`t1_model.py`), the
  reward's logarithm, the descriptor. The zero-block unit's count of skippable
  rows (`zbu_model.py`) checks divisibility before it divides, so its one
  boundary is an error return.
- **Agent calls**: what a turn may leave in the tree is in RepairLoop and
  SearchLoop; its prompts, sessions and retries are time and text. The edits of a
  turn that a usage limit interrupted are among the trees a turn may leave.
- The handler's own write of the record is taken to succeed. In the code its
  failure is swallowed (`loop.py:2507`): the iteration may then have no record or
  an earlier one of its own. Without one, a resume refuses, since the records
  have a gap (`loop.py:475`).
- A raise inside `rollback_to_parent` leaves the tree as it was or, if it falls
  later, as the rollback left it; a tree half reset is not a state of the model.
- `collect_diff` is taken to succeed and the parameters file to be present and
  readable after a proposal.
- Of a resumed run, the candidate pool, the prediction tally and the control
  arms' own state.
- `archive/legacy-kernels/attn_prefill.c`, which no build compiles; set-up and
  analysis scripts; container images; the random generation of workloads.

The program is Python; the repository's C is one kernel of 425 lines, its
archived predecessor, and 36,454 lines of generated arrays in the workload
headers. Of the headers the models keep the shapes and the blocks as names:
their numbers are data that no property tells apart, so a count of covered C
lines says little about what is modelled. The kernel itself is modelled whole,
without its counters and its printing.

## 7. Plan

1. *(done)* RepairLoop, SearchLoop with its contract, ParetoAdmission.
2. *(done)* RunResume: a death at any step and `reconstruct_run` over what is on
   disk; the resumed state against the state that was lost.
3. *(done)* NodeCache: tags of cached calls against what the calls read, the
   build outputs on disk, the synthesis dispatched in one round and joined after
   another.
4. *(done)* ControlArms: the greedy arm's observe/propose handshake. `--seed-diff`.
5. *(done)* T0Legality; SpmmKernel with its contract.
6. *(done)* Proofs: SearchLoop's invariants and the refinement of SearchContract
   step by step; `IncumbentIsParent` over them; RunResume's invariants for any
   number of deaths.
7. Proofs, next: `TilesLeaveOnceAndWhole` with the invariant on commands in
   flight it needs, then the safety part of the kernel's refinement
   (`ComputesTheProduct`) step by step.
