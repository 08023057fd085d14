# PolyServe in TLA+

A verification development kept beside the code of PolyServe. PolyServe probes a machine,
finds the inference engines that can run a model on it, measures them over a staged
search, and serves the best configuration behind a proxy. What is modelled is the part of
it that is hard to test: processes that crash and outlive their leaders, threads that
share a supervisor, power limits that outlive the run that set them, requests that
interleave at every `await`, load generators that die half-way, a search whose steps
depend on what failed before, plans made of estimates, and profiles that outlive the
machine they were measured on.

`PROJECT.json` lists the components, the runs, what each definition stands for in the
source (`map`), the hazards and the theorems. Paths below are relative to
`src/polyserve/`.

## 1. Inventory

| Component | State it keeps | Operations | Interacts with | What makes it correct | Module |
|---|---|---|---|---|---|
| Backend process, `backends/base.py` `Process` | the Popen handle; the OS keeps the process group | `start`, `alive`, `wait_ready`, `stop` | every component that launches an engine | when `stop` returns the server has ended and SIGKILL has reached the rest of its group, or it raises, and it always comes back | `Process` |
| Supervisor, `serve/supervisor.py` | current process, restarts, stop event, last error, power | `start`, `_launch`, `_watch`, `healthy`, `stop` | main thread, watcher thread, Process, Power | one launch at a time on GPU and port; a broken engine is replaced or given up; `stop` is clean | `Supervisor`, `Lease` |
| Disaggregated pair, `disagg.py` | the pair of processes, restarts, stop event | `launch_pair`, `PDProcesses.stop`, `_watch`, `stop` | Process twice, the router's two addresses | both engines live and die together; two pairs never share the GPUs | `DisaggSupervisor`, `Lease` |
| Replicas, `layout.py` | one supervisor per GPU; outstanding requests per replica | `ReplicaSupervisor.start/stop`, `_choose`, `_release`, `forward` | Supervisor, event loop | counters account for every request; nothing is left running | `LoadBalancer`, `Runner` |
| Proxy, `serve/proxy.py`, and traffic watch, `drift.py` | requests in flight, window of concurrency samples, one-time warning | `passthrough`, `began`, `ended`, `should_warn` | event loop, engine | nothing counted twice; a warning is true | `Proxy` |
| Power, `power.py` | device limit and clocks, restore file, original limit in memory, exit hooks | `apply`, `restore`, hooks, `reset_from_file` | NVML, other runs through the file, trial runner, supervisor | the original is never lost; a measurement runs under its setting | `Power`, `Runner` |
| Trial runners, `calibrate/search.py`, `layout.py`, `disagg.py` | the engines and the router of one measurement, the setting in force | `run`, `sweep`, `run_replicas`, `DisaggTrialRunner.sweep` | Process, Power, the router, measurement | every setting has a result; nothing is left running | `Runner` |
| Staged search, `calibrate/search.py` | results, memo of trials, budget clock, notes | the stages, `_run`, the confirmation | trial runners, objectives | every configuration tried once, the winner is the best of what ran | `Search` |
| Objectives and intervals, `calibrate/objectives.py`, `calibrate/tail.py` | none (pure) | `rank`, `pick`, `enough_level`, `close_call_level`, `quantile_interval` | search, measurement | feasible before infeasible; ties only within tolerance; a verdict is as sure as its interval | `Objectives`, `Ranking`, `Tail` |
| Measurement, `calibrate/measure.py` | outcomes per level; client processes and their queues | `_drive`, `_drive_clients`, `run_trial` | engine, telemetry, workload | every request is reported once; a trial ends | `LoadGen`, `Trial` |
| Workload, `calibrate/workload.py`, `datasets.py` | prompts | the prompts of a level, `level_requests`, `workload_from_file` | measurement | fresh prompts per level | `Workload` |
| Pipeline and cache, `pipeline.py`, `cache.py` | profiles on disk | `resolve_profile` and its phased and layout variants, `save`, `load` | selector, planner, search | a profile is served only for the machine and the request it was made for, and found again | `Pipeline` |
| Planner, `memory.py`, `selector.py`, `prepare_and_plan` | the plan | `select_backends`, `estimate`, `plan`, `default_profile` | engines, pipeline | what is kept is what fits | `Planner` |
| Engines, `backends/*.py`, `speculative.py`, `quantized.py`, `gguf.py`, `hfconfig.py` | none | precisions, grids, variants, launch arguments, preparation | planner, search | one name, one server | `Engines` |
| Command line, `cli.py` | the served application | `serve` | all of the above | exits leave nothing behind | `Supervisor`, `Runner`, `Frontend` |
| Predictor, quality probe, benchmarks, reports | - | - | - | - | - |

Hard behaviour, in the order of what a mistake costs: leaked engines that keep a GPU
(Process, Supervisor, pairs, the runners' frames); a machine left capped (Power); a server
nobody watches (Supervisor); a wrong winner or a wrong profile (search, objectives,
planner, cache); misleading statistics (load generator, prompts, proxy). `PROJECT.json`
lists each hazard at its line with the properties that are about it.

## 2. Modules

Modules of the same name as the class model it; `MC*` modules give the constants of a
run; `*Proofs` modules hold theorems.

### Process
`Process.tla`, for `backends/base.py`. One element of `Procs` is one launch, that is one
process group: `leader[p]` is the server (`"unborn"`, `"starting"`, `"serving"`,
`"hung"`, `"doomed"` after SIGKILL, `"dead"`), `kids[p]` says whether children of it are
left in the group (`"none"`, `"live"`, `"doomed"`). SIGKILL ends nothing at once: a doomed
process is there until the kernel has ended it (`Die`, `KidsExit`), and holds on to its
memory on the GPU till then. `stop()` waits for the leader only, and its last
`killpg` is followed by no wait at all (`base.py:138`): it may return while killed
children are still there, which is why `tests/test_process_group.py:26` polls for their
end. A launch therefore *holds* its GPU and port (`Holds`) until its server has ended and
SIGKILL has reached every child, and *occupies* them (`Occupies`) until nothing is left;
the properties are about the first, and those about the second do not hold (section 6).
`Parents`, a bound of the runs, are the launches whose server may fork.
`call[t]` is where thread `t` is inside `stop()`: the grace period, the wait after the
kill, the last `killpg`, and how it ended. The server's own life (`BecomeReady`, `Hang`,
`Unhang`, `Fork`, `Die`, `KidsExit`) is unconstrained; a timeout may fire whenever what it
waits for has not happened.

### Lease, Supervisor
`Supervisor.tla` extends `Process` with the two threads of `serve/supervisor.py`: `mpc`
for the main thread (`start`, serving, `stop`, called again by the finally block) and
`wpc` for the watcher. Every blocking call is a state of its own, so that the other
thread can run inside it. Launch number `k` is made when `restarts = k`, which makes the
restart budget the only bound. `Lease.tla` is what the supervisor promises without
threads: a lease of the GPU and the port, given to one launch after the other.
`ImplementsLease` maps the launches that hold it (`Holds`) to the holder. That the next
launch may meet the killed children of the former on the GPU is no part of the lease;
`GpuFreeOnLaunch` says that it does not, and is refuted.

### DisaggSupervisor
`DisaggSupervisor.tla` extends `Process` with the pair of `disagg.py`: a launch is two
processes on two GPUs, started, awaited and stopped in the order of the code; `PDProcesses.stop`
swallows exceptions, and `launch_pair` may raise between its two starts. The pair implements
`Lease` too (`ImplementsLease`), with the two GPUs leased as one: a holder is a launch of which
both engines were started and one still works, that is, has a server or children that
SIGKILL has not reached (`Works`). A launch that raised between its two starts
is outside, as the supervisor never got it in hand (`CleanupLost` of `Runner` lists what it
leaves behind).

### Power
`Power.tla`, for `power.py`: several runs of PolyServe, one restore file, one device.
`apply` and `restore` are broken at their NVML calls and at the removal of the file;
between any two the run may be killed, NVML may refuse, and SIGTERM may arrive.

### LoadBalancer, Proxy, Frontend
`LoadBalancer.tla` (`layout.py`) and `Proxy.tla` (`serve/proxy.py`, `drift.py`) break
their request handler at every `await`, where the event loop may run any other request.
Each keeps, beside the program's counter, what really happened to each request.
`Frontend.tla` is the choice `serve` makes between them (`cli.py`): it instantiates both
over one set of requests, and `app` says which one is at work. Its properties are those of
the one at work.

### Objectives, Ranking
`Objectives.tla`, for `calibrate/objectives.py` and the order of levels in `run_trial`:
the score and the constraint of a level, the level a trial is scored at, the order of
trials, the ties that join the leader and how they are broken. `Rank` gives the records
of `rank()`, `Pick` the winner's index. Metrics are small whole numbers, percentages are
compared by cross-multiplication, and `1e9` is `NoEnergy`. The module ends with what `pick`
and `enough_level` promise, said without the code's sorting: how far ties may take the
winner from the best feasible score (`NearBest`), what a cap must have saved
(`CapEarned`), and that stopping early changes no score (`Settles`). `Ranking.tla` asks for
them of lists that grow by a trial or by a level at a time, as a search makes them, under an
objective chosen once: `WinnerNearBest`, `CapEarnsItsPlace` and `EnoughSettles`.
`MCObjectives.tla` gives it kinds of trials and levels to choose from, and adds the samples
of `Tail`.

### Tail
`Tail.tla`, for `calibrate/tail.py` and `close_call_level`: the ranks of the order
statistics that bound a percentile, the clamped form the screen uses, `samples_needed`,
and the percentile of a level itself. A quantile is `q/Den`, a probability over `n`
samples a whole number of parts of `Den^n`, so that every comparison is exact; the code's
floating point is the one thing abstracted. `Covers` and `Judged` compare the ranks with a
reference that enumerates every sample of a population.

### Search
`Search.tla` extends `Objectives` with `StagedSearch` of `calibrate/search.py`. The
program's nesting (stages calling stages calling `_run`) is an agenda: a control task
(`keep`, `early`, `contenders`, `tune`, `beam`, `start`) is replaced by the tasks it
stands for when its turn comes (`Expand`), a measuring task puts what it asks for in
`todo` (`Plan`), and each configuration asked for is one step: `Recall` from the memo,
`SkipTrial` for want of budget, or `Measure` with any outcome. `retry` is the recursion
of `_run` through `_headroom_retry`. `Remeasure` is `stage_confirm`, the `Sweep` actions
are the power stage on one running engine. The memo is not a variable: it is the first
trial of a configuration outside the confirmation (`Memo`), as the code never overwrites
an entry. A configuration is a record of what the stages change, of `Configs`; a candidate
outside it (less memory than none) does not fit. The engines' grids and variants are
constants or small functions. One confirmation round is modelled, as the
pipeline asks for (`confirm_rounds` keeps its default of 1); the median over the rounds,
the predictor, the quality probe and `refused` are left out. Of two levels with the same
score the model takes a fixed one, where the code takes the one measured first.

### LoadGen, Workload, Trial
`LoadGen.tla` is one level of `calibrate/measure.py`: `_drive` with its semaphore, and
`_drive_clients` with its client processes (`client[i]`), the two queues (`ready`, `out`)
and the parent (`dpc`), which looks at the processes only when a queue was quiet. A client
may die at any step, before it is ready, with requests in flight or after it has posted.
Prompts are positions; `req[p]` is what the client saw of the request, `merged[p]` what
the level reports. `Workload.tla` says which prompts a level is given: two prompts are the
same text exactly when `PromptAt` is the same. `Trial.tla` extends both with `run_trial`,
as the search calls it once on an engine and the sweeps once per power setting: the
warm-up, the order of the levels, the telemetry window, the second measurement of a close
call, the stop at a level that is enough. `sent` is what the engine's prefix cache knows.

### Engines, Planner
`Engines.tla` holds what `backends/*.py` say of five engines: precisions, grids, defaults,
variants, and the record of settings a configuration becomes on the command line
(`LaunchSpec`), in which a field an engine has no flag for does not appear. Sizes are
whole MiB, fractions percentages. `Planner.tla` extends it with `memory.py`,
`selector.py` and `prepare_and_plan`: one engine after the other is prepared, its grid cut
down, its weights fetched (`Download`), converted (`Convert`) and its grid planned again
with the true sizes (`Replan`), and each step may fail. A file that is downloaded or made
has a true size of its own, any of `SizeErrors` percent of the estimate; a precision that
a conversion could not make is dropped from the table (`Recorded`). Without a calibration
nothing is fetched while planning: `Choose` takes a configuration of the first engine that
was prepared, its weights are fetched by the same actions, and `Serve` starts the server
with what there is, without another plan (`default_profile`); `ServeFails` are its
exceptions. `SearchSpace` is what calibration
can reach from the plan, `MultiGpuSpace` what is measured around a winner on several GPUs
(`tp_candidates`, `candidate_pairs`).

### Pipeline
`Pipeline.tla` is `resolve_profile` with `_resolve_phased` and `_resolve_layout` over
`cache.py`. Each run reads the machine once (`seen`), looks a profile up, calibrates when
there is none and saves. A save is broken at its system calls: the temporary name is
opened (`dir` and `tmp` map names to files), written in two halves, and renamed. Runs
overlap, are killed while they save (`Kill`), and engines are upgraded or removed
(`Install`). A cache path is the record of what the file name and its hash are made of.
What a calibration measures is `Search`'s business: here it returns any engine and
precision the request allows, or fails.

### Runner
`Runner.tla` puts the frames that launch engines side by side: one engine for one setting
or for several, an engine per GPU behind a router, a pair behind its router, and
`serve`'s replicas. They differ in what their `try` blocks cover and which exceptions they
swallow; the model keeps exactly that (`LaunchGuarded`, `StopSwallows`, `ErrorIsResult`,
`AfterInterrupt`). `blame` records what went wrong and where, so that a property can name
the faults after which something is left behind.

## 3. Runs

| Run | Module | Bounds | Shows |
|---|---|---|---|
| `supervisor` | `MCSupervisor` | three launches | exclusive use of the GPU, `stop()` right with two callers at once and whatever the server does, liveness of watcher and stop, refinement of `Lease` |
| `pair` | `MCDisaggSupervisor` | two pairs, children of every engine but one | `stop()` and recovery of a pair of engines, refinement of `Lease` |
| `power` | `MCPower` | three runs, one GPU, two stretches each | the record, the original limit, the setting in force |
| `frontend` | `MCFrontend` | five requests; two replicas, or one engine with a window of three | counters account for every request; the least loaded replica is next; a warning is true |
| `objectives` | `MCObjectives` | three trials, or three levels of one; samples of at most five of populations of four | what ties, caps and early stopping cost the winner, under every objective, and how often a level's verdict is wrong |
| `search` | `MCSearch` | two engines, seven configurations, three settings of the search, two surprising trials | the memo, the budget, the dropped engines, the confirmation, and that a search that saw a success has a winner |
| `trial` | `MCTrial` | up to four prompts per level, two levels, two clients, two deaths, two settings | a level reports every request once, asks for the load it should, sends fresh prompts where the sample has room, and the trial ends |
| `planner` | `MCPlanner` | five machines, three models, six requests | the plan is what fits by the true sizes; a name is one server; the weights of what is searched, or served uncalibrated, are in place |
| `pipeline` | `MCPipeline` | two runs of ten commands, one upgrade or removal, one kill | what is served suits the request and the machine; only a race tears a file; an unphased profile is found again |
| `runner` | `MCRunner` | two jobs of eight kinds, two faults | what a job leaves running, under which setting it measured, that every setting has a result |
| `pair_router` | `MCDisaggRouter.cfg` | as `pair` | counterexample: stale addresses |
| `pipeline_phased` | `MCPipelinePhased.cfg` | two runs of two phased commands | counterexample: a phased profile is not found again |

Why the bounds are enough. Two threads are all the code has. Two launches show one
relaunch, three a relaunch of a relaunch, after which the counters are in the state of
the end of the budget. Three runs of the power controller are one that is killed, one
that recovers it and is killed in turn, and one that recovers that; two stretches are one
with an empty and one with a filled memory. Five requests on two replicas can make one
replica lose a request, hold one and be compared with another that holds two, and fill the
window of the proxy. Three
trials are a leader, one that ties with it and one that does not; seven kinds of
measurement cover ties within noise and within `power_max_loss`, both sides of every
constraint and missing energy. Five samples are the fewest at which both ends of an
interval can be inner order statistics. In the search every trial but two turns out typical
(`MaxSurprises`): one surprise makes an engine lead, fail, break the ceiling or run out
of memory, and the second meets what the search made of the first. The grid prunes the
large context at the small memory setting, so that the baseline has to fall back; one
engine has a memory and a batch sweep and two strategies, the other a prefill knob alone,
so that offers differ; the three settings are speculation first with a power sweep, a
budget of six trials, and an exploration. In a trial two levels are the fewest that can be
reordered, two clients the fewest of which one dies, three prompts the fewest they get
uneven shares of, and four the fewest that tell a client's part of the concurrency from the
whole of it; of the files one has
room for every level and for measuring it again, one for the levels alone and one for
neither, and the lower level of each is capped by `requests_per_slot`. The machines
of the planner go from a card that holds everything, over cards on which only some of the
layers, precisions or caches fit, to a CPU; the requests bring its rules together: a
precision that is forced, one that must be converted, a context only few sizes hold, no
measurement. A file is a tenth smaller or 15 % larger than its estimate, which is enough for
the second plan to drop configurations of the first and to take up others. Two runs are the fewest that race for a file, and the ten commands contain
each pair that shares a path. Two faults in the runner are one that starts a clean-up and
one inside it; two jobs show what the first leaves to the second.

Deadlock checking is off where the system may stop: an exited PolyServe whose engines are
gone, a finished set of requests, a full list of trials, a trial, a plan or a run that is
over. It is on for the search, whose only way to stop is to have returned or raised.

## 4. Fairness

`Process`: weak fairness of every step inside `stop()`; all its waits have timeouts.
`Supervisor` and `DisaggSupervisor`: weak fairness of each thread as a whole, since the
two are scheduled by the operating system and every wait they make has a timeout.
`Trial`: weak fairness of the parent and of each client process while a level is driven;
a request ends because it has a timeout, and a queue is waited for with one. A process
that hangs for ever outside a request is not among the failures: `_drive_clients` waits
for it for ever, and the property says nothing of it. Nothing
is assumed of the engine (it need not die when asked, nor recover), of NVML, of clients
or of whoever calls `stop()`, and nothing makes a load generator die. The other modules
state only safety: a search, a plan, a command and a runner's frames are sequential, and
that the search never gets stuck before its end is the deadlock check.

## 5. Proofs

TLC checks the instances of section 3; TLAPS proves what follows for every value of the
constants that meets the named assumptions. Each proof module has the same layout: lemmas
about the operators, one lemma per part of the inductive invariant with one step per
action, then the theorems `Spec => []...`. Every inductive invariant is defined in the
module of its component, where TLC can be asked for it, and was checked by TLC on the
component's run before it was proved.

`SupervisorProofs.tla` proves in its first section, for any sets of launches and threads
and any callers, that `StopProgress` of `Process.tla` is inductive and that it implies `TypeOKProcess`, `KilledOnReturn` and
`KilledOnRaise`. Neither of the last two is inductive alone: that the group is dead or
killed on return needs to know that a call in its last `killpg` works on a dead leader,
and that a dead or doomed leader forks no more. The lemmas on single operations are what the proof about the
supervisor cites for its steps, and `DisaggSupervisorProofs` states those it needs again
(the two supervisors cannot be extended by one module). Assumed: `NoProc` is no launch (`NoProcAssumption`).

Then it proves for any restart budget that `SupervisorInv` is inductive,
and from it `ExclusiveBackend`, `CleanStop`, `WatchReturnsWithReason`, `TypeOKSupervisor`
and the refinement `ImplementsLease`. The strengthening says that only the current launch
can hold the GPU (`OnlyCurrentLives`), that a watcher on its way to a relaunch has the current
launch stopped before it leaves for the back-off and the next number free
(`RelaunchPrepared`), and which states the two threads can be in together
(`ThreadsAgree`). Assumed: launches are `0..MaxRestarts`, and the two threads differ.

`DisaggSupervisorProofs.tla` proves `ExclusivePair`, `CleanStop` and the refinement
`ImplementsLease` of a pair for any restart budget. `PairInv` adds to `StopProgress` how far each thread has come inside
`launch_pair()` or `PDProcesses.stop()` (`Inside`), that a launch begins with its prefill
engine (`PrefillFirst`), and that every whole launch other than the pair in place and the
one being made is over (`FormerOver`). `FormerOver` is the one that matters: `stop()` of
a pair swallows the exceptions of its halves, so that "stopped" means killed, not reaped,
and the proof carries that through the two nested stops. That only one whole launch can
have a working engine is stated once (`OnePair`), for the exclusion and for the lease. The
refinement needs one fact that the invariant leaves out, that launches are made whole in
the order of their numbers, each once (`LaunchesInOrder`). A step then does one of three
things (`StepLeases`): `LaunchMakes` says that a second engine that starts makes the current
launch a holder while nothing of a former one works, and is a `Grant`; the engines that come
to their end take a holder away, a `Release`; and what is left is a stutter.

`PowerProofs.tla` proves `RecordedWhenServing`, `OriginalTrue`, `AppliedIsSet` and
`CleanExit`. Each of the theorems has the hypothesis `OneAtATime`: at most one run is
alive at a time, and all use the same GPU. Without it they are false: two runs share one
restore file (the hazard at `power.py:281`, which no property covers). The instance of
the `power` run meets it, with three runs that follow each other, are killed and recover
each other's file. `PowerInv` says what a controller remembers (`Knows`), that only the
shared GPU is recorded or changed (`SharedGpu`), that a run at work on a setting has the
file behind it as long as no run has gone from no setting to one a second time
(`FileBehind`), and what
the device is set to between any two calls of `apply()` and `restore()`
(`DeviceFollows`). `AppliedIsSet` and `CleanExit` speak of runs that are neither killed
nor refused by the driver, as the code promises nothing else.

`FrontendProofs.tla` proves `Accounted`, `BalancedUnlessLost` and `WarnsOfRealDrift` for
any number of requests and replicas, and for any window and thresholds of the traffic
watch. The counters are compared with the cardinality of the
requests that are open or lost; a step moves one request, and `CountOne` says what that
does to such a cardinality. `SamplesTrue` (until a request is lost, each sample of the
window is the number of requests that were open) is what the warning needs.

`PlanRunProofs.tla` proves of a job `NothingLeftRunning`, `MeasuredUnderItsSetting` and
`EverySettingReported`, for any number of GPUs, settings, jobs and faults. That the first
holds for any number of faults means that `CleanupLost` is the complete list of the places
where an engine is left behind. `RunnerInv` says where each kind of job can be
(`KindAgrees`), that the results and the settings still to do make up the job's settings
(`BookComplete`), what the device is set to unless a driver refused (`MeterTrue`), and
what the frame holds at each place (`NothingHeld`). Assumed: what a job of each kind uses
and measures (`JobsAssumption`), and that the default is a setting (`SettingAssumption`).

The same module proves of the planner `PlannedWhatFits` and `WeightsInPlace`, for any machines,
models, requests, precisions and sizes of the files, whichever engines and steps fail.
Neither is inductive alone: an engine is planned from estimates before its weights are
there and again with the true sizes, and in between what is kept of it need not fit.
`PlannerInv` says of the engine in hand (`InHand`) and of every other what is known:
whatever becomes of its files, what is prepared describes the model asked for and its grid
was made of every precision that is offered (`DescribesModel`), nothing is kept that is not
of the engine's own grid (`FromGrid`), what is kept is what fits but of the engine in hand
(`Planned`). For the weights it says that what of the grid of the engine in hand fits by
the sizes now known is still to be fetched or in place (`WillBeInPlace`), that the tables
of files and of sizes have the same precisions (`Sources`), and what is known of the
configuration served uncalibrated while its weights are fetched (`ChoiceIsAskedFor`). The
second plan ranges over the whole grid, not over what the first one kept, and only the
latter was fetched: that nothing comes back whose file is still on the Hub holds because
what was not fetched has the size, and so the verdict, of the first plan
(`InPlaceStep`). The lemma `PlannedWhatFits` turns on is `SameGrid`: a grid depends on which precisions there are and on the
model, not on the sizes of the files, so that the second plan, which starts from the true
sizes, ranges over the same grid (`KeptIsRunnable`). Assumed: the GGUF precisions come in
an order (`GgufAssumption`), a forced engine is a known one, as `select_backends` checks
first (`RequestsAssumption`), and a model's longest context is a number
(`ModelsAssumption`).

It also proves `NamesTellServersApart`, for everything a search or a layout on several GPUs
can reach. The argument is a shape (`Shape`): the fields an engine has no flag for, or reads
only through another one, are the same in all configurations of its grid, and every variant
of a stage keeps them so (`GridSearched`, `StagesSearched`, `MultiGpuShaped`); on
configurations of that shape the launch arguments can be undone (`LaunchTells`). For
llama.cpp this needs that the physical batch never exceeds the logical one, which the
prefill stage sees to by raising both (`UbatchIs`): an argument that is the greater of two
fields then still names each of them. As the property counts launches, the configurations
have to be finitely many (`ConfigurationsFinite`).

`PipelineProofs.tla` proves `ServedForRequest`, `ServedIsCurrent`, `OnlyARaceTears` and
`UnphasedFoundAgain`, for any number of runs, requests, engines, upgrades and kills.
`PipelineInv` follows the profile a run has in hand from the probe to the rename
(`InHand`: it is of the machine the run saw and usable for its request), and the files
under their two names (`OneName`, `NotYetWritten`, `Alone`): a run that no other raced
owns its temporary name from `open` to `rename`, which is what makes a torn file the
work of a race. `WellFiled` says that what can be read whole lies where its own command
looks for it; from it, and not from the lookup, follows that what a run serves was made
for its request. `UnphasedFoundAgain` is an action property: the proof shows that the
command that saved a profile, met again on the same machine, has the same path and can
use what lies there.

`SearchProofs.tla` proves `TriedOnce`, `BudgetKept`, `SomethingWins`,
`ChosenOnFreshRuns` and `LeaderKept` for any grid, any engines with their optional
strategies, any outcomes of the trials, any times, any budget and all four objectives.
`SearchInv` has these parts:

* `StagesInOrder`: which kinds of tasks may follow which in the agenda, that the
  confirmation, the power sweep and the choice end it, and that stage 1 has each key once.
  It holds what the nesting of the program's calls says implicitly;
* `TrialsInOrder`: no trial of the confirmation or the power sweep exists before its task
  has come. `TriedOnce` needs it, since the memo leaves confirmations out;
* `StageOneKept`: the trial stage 1 keeps of a key is the one that succeeded, if one did,
  and is not changed after the next key has begun;
* `DroppedLose`: a backend once dropped would be dropped again by the trials of now. The
  losers are computed once more at each key, from more trials, and the best only gets
  better. `LeaderKept` follows because the leader of the ranking is no loser, for each of
  the four objectives: this is a fact about `Rank` and `Pick` of `Objectives.tla`, which
  is proved from their definitions (`WinnerNotLosing`);
* `PoolComplete`: what the choice is made from;
* `Books`: a retry belongs to the task at hand, and the time spent is that of the trials
  counted, which is what the comparison of `OverBudget` with an average needs.

The longest part of the proof shows that what the stages ask for is made of
configurations of the search space (`TypeOKSearch`): baselines, sweeps, variants,
combinations and the exploration, each a sequence sorted, filtered or cut by the operators
of section 2. Sorting is defined by the place each element takes in an order
(`SortedBy`), and that each place is taken exactly once is proved for any finite strict
order (`PlaceTaken`). Assumed: the grid is finite and its configurations differ in what
the stages change (`GridAssumption`), the strategies and settings are of their kinds
(`SettingsAssumption`), and a trial that succeeded was launched (`OutcomesAssumption`).

The same module proves what a ranking promises, for any finite list of trials with any
number of levels, under each objective and for any ceiling, floor and tolerances:
`NearBest`, `CapEarned` and `Settles`. A trial is scored at the level
that is least outside the constraint and then best (`LevelChosen`); the records `rank()`
makes of the trials are in a strict order (`BeforeOrders`), and so are the tied ones
(`TieBeforeOrders`), so that `pick` has one leader and one winner that joins it
(`WinnerFrom`). The cap's promise follows because a trial of the same configuration whose
score lies between the leader's and the winner's joins the leader too. The hypotheses are
what the code's data is: levels were measured and are numbers (`Comparable`), and
configurations that differ in power only have the same strategies and the same room
(`PowerAside`). `EnoughIsEnough` needs that throughput rises with load, which
`enough_level` takes for granted. The trials of a search are comparable at every step
(`SearchChoosesNearBest`). So are the lists of `Ranking`, of which `ListsChooseNearBest`,
`ListsEarnCaps` and `ListsSettle` prove the three properties the `objectives` run checks, for
any kinds of trials and levels and lists of any length. Their hypothesis
`objective = Objective` ties the variable the run chooses to the constant the lemmas are
about; as the constant is any of the four, it leaves no behaviour out. What the grown lists
are assumed to be is `ListsAssumption`, which TLC evaluates on the run.

Of the order itself `SearchRanksAll` says what `pick` alone does not show: whichever trials
of a search are ranked, each that succeeded is listed once, nothing feasible comes after
something that is not, and only a trial that competes for the first place stands before a
better one. It follows from what sorting by place gives (`Sorts`): every element has a
place, and a later place is later in the order.

`TrialProofs.tla` proves `Reported`, `LoadAsAsked` and `FreshWhereRoom`, for any
workloads, numbers of prompts and clients, deaths, orders of the levels and settings.
`LoadInv` is the invariant of one level. Its parts say that requests and processes exist
for what was asked for (`AsAsked`), that outcomes in the queue or in the parent's hands are
those of a client that saw its whole share answered (`PostedServed`), that the parent stops
to collect only when it has everything or nobody can send the rest (`NoneMissed`, for which
the second look at the queue is needed), and that each client keeps its share of the
concurrency (`SharesKept`). From the last, `LoadAsAsked` follows by counting: the requests
in flight are mapped one to one to the places of the clients' semaphores, of which there
are no more than the concurrency and what rounding adds. `FreshWhereRoom` rests on
`SentInTurn`: what the first trial has sent is the warm-up, the batches of the levels and
re-measurements that are over (`Taken`), and what this drive has sent of its own. That the
batch of a drive is none of `Taken` (`BatchApart`) needs that the order of the levels puts
each in one place (`LevelPlaces`) and that a level measured again takes a batch behind all
levels; that prompts of different batches differ is arithmetic on the offsets, as long as
the pool does not wrap around (`PromptsDiffer`). Assumed: a call asks for at least one
request and one client, at levels of at least one request at a time (`CallsAssumption`,
`LoadBoundsAssumption`), and `MinLevelRequests` is positive.

Only model-checked, and why:

* every liveness property (`WatcherQuits`, `StopReturns`, `RecoversOrGivesUp`, `PairRecovers`,
  `TrialEnds`): the provers have no rule for fairness and ENABLED here;
* `VerdictsHold` of `MCObjectives`: `Tail`'s binomial sums are defined by recursion over
  data, which these provers cannot follow.

## 6. Disagreements found

With a run of their own:

* `pair_router`: the router keeps the addresses of the first pair (`cli.py:852`), and a
  relaunched pair has new ports.
* `pipeline_phased`: `_resolve_phased` looks a profile up under the key of the options
  alone (`pipeline.py:581`), while it is saved under the key of its unified part, which
  names the percentile of the objective. At the 95th percentile it is never found again,
  and a profile made for the median is served instead if there is one.

Stated in a module as a definition of its own; TLC refutes each when it is added to the
run in parentheses:

* `Supervisor!StopIsFinal` (`supervisor`): a watcher in back-off launches after `stop()`
  has returned (`serve/supervisor.py:132`).
* `Power!RecordedBeforeChanged` (`power`): the second setting after a restore is not
  recorded (`power.py:272`; line 13 says every change is).
* `MCObjectives!FallsBackToThroughput` (`objectives`): without energy telemetry a score is
  `1e9 - tok_s`, and 2 % of it ties every trial (`calibrate/objectives.py:124`).
* `Search!DroppedNotTuned` (`search`): a backend dropped in stage 1 comes back through
  `_contenders` (`calibrate/search.py:790`).
* `MCObjectives!ScreenAsAttained` (`objectives`): `calibrate/tail.py:67` calls the clamped
  interval a screen at `attained_confidence`, the coverage of the two extreme samples; when
  one end is an inner order statistic and the other is clamped, it covers less.
* `Trial!EveryLevelFresh` (`trial`): a sample smaller than the levels ask for wraps around,
  and a sweep sends every power setting the prompts of the one before, so that later
  settings are answered from the prefix cache (`calibrate/search.py:217`).
* `Planner!PlannedIsOnDisk` (`planner`): when a precision of the grid was dropped by the
  conversion, planning again ends in a `KeyError`, and the plan made of estimates stays
  (`pipeline.py:339`).
* `Planner!UncalibratedFits` (`planner`): `default_profile` fetches the weights after it has
  chosen and does not plan again (`pipeline.py:398`), so that a file larger than its
  estimate is served although it does not fit and another configuration may.
* `Process!ReapedOnReturn` (`supervisor`): `stop()` returns while killed children are still
  ending (`backends/base.py:138`); `tests/test_process_group.py:1` says the group is reaped.
* `Supervisor!GpuFreeOnLaunch` (`supervisor`): for the same reason a relaunch may find the
  memory of the former launch's children still held.

Met while modelling and kept in the model:

* Balancer and proxy: a request whose reply breaks off is never counted out (`Lost`).
* Power: a second GPU's run overwrites the restore file; clocks locked by a killed run
  stay locked; SIGTERM inside `apply()` or `restore()` makes the handler wait for the lock
  of its own thread (`"stuck"`, `power.py:299`).
* Supervisor: an exception of `process.stop()` in `_watch` (`serve/supervisor.py:120`) ends
  the watcher with restarts left (`wpc = "crashed"`).
* Search: a configuration that fails its confirmation may be chosen all the same when no
  other was confirmed (`calibrate/search.py:1012`); the memory stage keeps the
  configuration it asked for when only its retry started (`calibrate/search.py:577`); the
  power sweep is not held to the budget.
* Runner (`CleanupLost` lists them): `launch_replicas` and `launch_pair` leave an engine
  behind when a later `Popen` raises or an interrupt comes while they wait
  (`layout.py:163`, `disagg.py:373`); the pair's finally block calls `restore()` unguarded,
  before it stops anything (`disagg.py:462`); `ReplicaSupervisor.stop` stops at the first
  supervisor that raises (`layout.py:251`); after a restore the driver refused, the default
  setting is measured under the leftover cap. `SetPower` puts a clock lock on a clean
  device; after a cap of which the driver refused half it would not be one (`power.py:232`),
  but a sweep has its caps before its locks, and that order of three does not occur.
* Pipeline: the ceilings and the KV connector are not in a profile's key; a forced backend,
  and the unified part of `--phases disaggregated`, overwrite the profile the unforced
  command finds; two runs that save at once share one temporary name, and one of them may
  raise or leave a mixture (`cache.py:44`).
* Planner: the host check of a partial offload leaves out the cache of the layers that
  stay on the host; `default_profile` takes the first prepared engine even when nothing of
  it fits; a forced backend is not checked for availability; more free memory can make a
  configuration infeasible, as the margin grows with it; an uncalibrated llama.cpp server
  does not start when only the F16 file could be made, which nobody asked it for
  (`backends/llamacpp.py:223`).
* Load generator: the concurrency of a client is rounded up, so that a level may run with
  up to one request per client more than it is reported at (`calibrate/measure.py:420`).
  That it never runs with fewer is not checked: a client with a single prompt left cannot
  keep a share of two in flight.

## 7. Not modelled

Telemetry, tokenizers, Hub queries, log parsing, probing, reports and the command line's
printing are I/O or formatting. The predictor is a floating-point regression. The quality
probe reports and gates nothing. The splitter of a pair's requests keeps no state from one
request to the next. The watchers of several replicas are each a `Supervisor`; their
product is not checked. Floating-point rounding of `tail.py` and of the memory estimates
is left out: the models compute exactly.

## 8. Plan

Done: every module of the table above, and proofs of every safety property a run checks,
the two refinements among them, but for `VerdictsHold` of `MCObjectives`. Left, in this order:

1. The power run with two GPUs, and the restore file two runs share.
2. The composition of several `Supervisor`s under `ReplicaSupervisor`, and of the balancer
   with replicas that are relaunched.
3. `predict.py`'s order of trials, as a permutation the search must be right under.
