# Verification of shell-operator

The repository holds Argo CD applications, Helm charts and installation scripts,
and one program: `shell-operator/`, written in Go.  It runs *hooks* (executables)
when Kubernetes objects change, when a crontab fires and at start-up.  This
project models that program in TLA+, checks the models with TLC and proves what
matters most with TLAPS.

## The system

A hook tells its *bindings* when it is called with `--config`: `onStartup`,
`kubernetes` (watch objects of a kind) and `schedule` (a crontab).  A binding may
name a queue, a group and `allowFailure`.

| Component | State | Operations | Goroutines |
|---|---|---|---|
| task queue (`pkg/task/queue/task_queue.go`) | slice of tasks, context, delay | AddFirst/Last/After, Remove*, Iterate, Filter, Start, Stop | one worker per queue |
| queue set (`queue_set.go`) | map of queues | NewNamedQueue, GetByName, DoWithLock, WaitStopWithTimeout | callers |
| operator (`pkg/shell-operator/operator.go`) | — | Start, TaskHandler, CombineBindingContextForHook, Shutdown | start-up; handlers run on the workers |
| events handler (`manager_events_handler.go`) | — | select on the two event channels, queue tasks | one |
| hook manager, controllers (`pkg/hook`) | hooks in order, links from monitors and crontab ids to bindings | Enable*Bindings, StartMonitors, Handle*Event | workers and events handler |
| kube events manager (`pkg/kube_events_manager`) | monitors, `KubeEventCh` | AddMonitor, StartMonitor, StopMonitor, PauseHandleEvents | informers send |
| monitor, namespace informer (`monitor.go`, `namespace_informer.go`) | `ResourceInformers`, `VaryingInformers`, `cancelForNs`, contexts | CreateInformers, Start, Stop, addFn, delFn | one per namespace informer |
| resource informer (`resource_informer.go`) | `CachedObjects`, `stopped` | LoadExistedObjects, HandleWatchEvent | one per informer |
| schedule manager (`pkg/schedule_manager`) | `Entries`, cron functions, `ScheduleCh` | Add, Remove, Start, Stop | one per fire |
| metric storage, vault (`pkg/metric_storage`) | vectors by name, collectors with the series of groups, their locks | SendBatch, ExpireGroupMetrics, CounterAdd, GaugeSet, HistogramObserve, Register* | workers; the HTTP server scrapes |
| configuration (`pkg/hook/hook_config.go`, `pkg/hook/config`) | — | find the version, validate, convert, check | start-up |
| hook, binding context (`pkg/hook/hook.go`, `binding_context`) | the file of a run | UpdateSnapshots, MapV0, MapV1, Run | workers |

How they interact: informers and cron functions send into `KubeEventCh` and
`ScheduleCh`, both of capacity one.  The events handler reads them with one
`select`, asks the hook manager which bindings are concerned, and appends one
`HookRun` task per binding to the binding's queue.  The worker of a queue gives
the head to `TaskHandler`; for hooks of version v1 the handler first combines the
tasks of the same hook that stand right behind the head.  The main queue also
runs the tasks that enable bindings: these create monitors (with an initial
list), start them, and put the `Synchronization` runs at the head.  Before a hook
is run, the snapshots its binding includes are read anew from the caches of the
monitors; after it, the metrics it has written go to the metric storage, and a
batch that is refused makes the run fail.

What is hard: everything is asynchronous and retried.  Tasks are appended while
a worker collects and deletes others; a failed task has to block its queue and
nothing else; the creation of monitors can fail half-way and is repeated; events
may arrive before the Synchronization they refer to and before their queue
exists; informers list twice, lose their watch and repeat themselves; snapshots
change while a task waits; metrics of one group come from several queues; the
context may be cancelled anywhere.  `PROJECT.json` lists these hazards line by
line with the properties that guard them.

What makes the parts correct:

* queue — no task vanishes or runs again, the head blocks, the worker ends when
  and only when it is stopped;
* operator — every event reaches its hook exactly once and in order, after the
  start-up hooks and after Synchronization, unless it is given up with a failed run;
* monitor — every matching namespace is watched, by one informer that can be
  cancelled; a namespace that left is not;
* informer — snapshots are the state of the cluster and agree with the events;
* schedule manager — one function per used crontab, no fire is lost;
* configuration and hook runs — a hook is run for what it asked for and for
  nothing else, with the snapshots it asked for, as they are when it runs;
* metric storage — nothing that was added is lost, a group shows its last batch,
  a scrape never fails.

## Modules

| Module | Models |
|---|---|
| `SequentialQueue` | what a task queue promises: one line, only the head runs, a finished task is replaced by its HeadTasks in one step |
| `TaskQueue` | one queue: the slice, the worker of `Start`/`waitForTask`, the operations of other goroutines, cancellation |
| `TaskQueueProofs` | proofs about `TaskQueue`, the refinement of `SequentialQueue` included |
| `ShellOperator` | start-up, events handler, all queues and `TaskHandler`; its queues are `SequentialQueue`s |
| `ShellOperatorProofs` | proofs about `ShellOperator`: its types, facts about its operators, its safety properties |
| `Slices` | a loop that appends some elements of a slice to a new one, used by `ShellOperator` and `HookConfiguration` |
| `InductionLemmas` | induction over numbers and sequences in a form the provers can use, and `FlattenSeq` |
| `ScheduleManager`, `ScheduleManagerProofs` | `schedule_manager.go` |
| `ResourceInformer`, `ResourceInformerProofs` | `resource_informer.go`, with the API server and the client-go SharedInformer as environment |
| `Monitor`, `MonitorProofs` | `monitor.go` and `namespace_informer.go`, with the operations of `kube_events_manager.go` on one monitor |
| `MetricStorage`, `MetricStorageProofs` | `metric_storage.go`, the vault with its collectors, the operations of a metrics file, and the part of `TaskHandleHookRun` that uses them |
| `HookConfiguration` | `hook_config.go` and `pkg/hook/config` as operators: schemas, conversion, checks |
| `HookRuns`, `HookRunsProofs` | hook manager, hook controllers, binding contexts and `Hook.Run` on top of `HookConfiguration`; the proofs are about both |
| `MC*` | small instances for TLC |

Operators whose comment begins with *Mutant* are wrong versions of the
definition below them.  No specification uses them; with one of them in place
of the right version TLC has to find the property named in `PROJECT.json`
violated, which shows that the property can fail.

### TaskQueue

Each critical section of `q.m` is one action.  `pc` is the place of the worker:
`wait` (entry of `waitForTask`), `poll` (`IsEmpty`), `get` (`GetFirst`), `sleep`
(the `select`), `handle` (inside the handler), `apply`/`push` (the result is
applied: AfterTasks, TailTasks, then under HeadLock the removal and the
HeadTasks one by one), `copy`/`assign` (inside `AddAfter`, which has no lock),
`stopped`, `crashed` (a Go panic).  The handler is what its results are: fail,
repeat, or succeed with any numbers of new tasks, and it may call `Filter` on
the way (`Combine`).  Tasks are numbers in the order of creation; `done`,
`merged`, `taken` and `late` are history variables.  A delay is present or absent.
`AddBefore` and an `AfterHandle` have no user in this repository and are left
out; an unknown status and a nil handler do not occur.

### ShellOperator

`stage` is the progress of `operator.Start`; the main worker runs while the
other queues are created.  `work[q]` is the place of the worker of `q` in
`TaskHandler`: collect similar tasks (`Iterate`), delete them (`Filter`) and save
the combined contexts, run; or create the monitors of a hook one by one with a
failure possible at each, start them in any order, and replace the task by the
Synchronization tasks, reversed as `AddFirst` does it; or link and add the
crontabs.  A binding context is its binding and a number.  History variables
record what was `emitted`, what the hooks are `owed`, what was `done` or
`dropped`, and for a context removed by the compaction of a group its `heir`.
Hook configurations are constants: hooks, bindings and crontabs have names of their
own and every binding has a queue (`ShellOperatorAssumption`).  What `Filter` and the
compaction leave is `Keep`: the elements at some positions, in their order.
`InOrder` compares the events on their way with those handled or given up, and not
with those compacted: with a context of a binding outside the group between two of
its members, an event is represented by a later one while an earlier event of the
same binding still waits before it, which is as intended.

### ScheduleManager

`entries` is `Entries`, `cron` the functions the library knows by EntryID.  Each
fire is a goroutine (`jobs`) that waits for the channel.  `MayAdd` restricts the
environment to the operator's use (`Reuse = FALSE`: a crontab is not used again
once its last id was removed) or lifts the restriction.

### ResourceInformer

`cluster` is the API server, `store`, `watch` and `notes` the SharedInformer.
`HandleWatchEvent` is three steps: filter, update of the cache under its lock,
callback.  `LoadExistedObjects` becomes a Synchronization or does not: informers that
`addFn` makes for a namespace that starts to match have none, nor have bindings of
version v0 or with `executeHookOnSynchronization: false`.  `view` is what a hook knows
that only follows Synchronization and events, `untold` the objects of a list it was not
given, until their first event.  `stopped` is set by Stop, PauseHandleEvents or the context.
`GapDeletes` says whether objects are deleted between the two initial lists.

### Monitor

A monitor has static informers or selects its namespaces by labels, chosen in
`Init`.  `matching` are the namespaces the labels select, `store`, `watch` and
`notes` the SharedInformer of namespaces.  The informers of a namespace are one
value with a generation, so that an informer made later for the same namespace is
another one.  `VaryingInformers[n]` is none, an informer, or `Failed` (the nil the
code stores after an error).  `addFn` is two steps, the check and the
registration, because it asks the API server in between; `delFn` is one.
`running`, `cancelled` and `paused` are the states of the informers' goroutines,
contexts and flags.  `Stop` cancels the context that `Start` made: static informers
and the namespace informer hang on an older one and go on, although the comment
says "Stop stops all informers"; `StopMonitor` has no caller in this repository.
`missed` and `late` are history variables.

### MetricStorage

`vecs` are `Counters`, `Gauges` and `Histograms`, each vector with its label names
and its children; `collectors` is the map of `GroupedVault`, `mtx` its lock.  A call
of `CounterAdd`, `GaugeSet` or `HistogramObserve` is three steps, because each takes
a lock of its own: the look under the read lock, the second look and the
registration under the write lock, the write.  A panic of the Prometheus library
is recovered: the value is lost and the call ends.  `work` is the place of each
worker in `SendBatch`: the groups of the batch in the order of a Go map, for each
the expiry collector by collector under `mtx`, then the operations one by one, the
look for the collector under `mtx` and the write under the lock of the collector
only; after the groups the operations without a group.  Operations still to be
applied are given by their positions in the batch, the first one first.  The run is then
counted with three calls, 1 for its outcome and 0 for the other two.  Values are counted in
halves, because grouped counters cut theirs to whole numbers.  Each series knows,
as history, which applications of its group contributed to it.  `Asked` is the
reference: what the operations of a batch ask for, computed without the state.
Negative additions, which the validation lets through, are left out
(`OutputAssumption`): `CounterAdd` panics, recovers and loses the value
(metric_storage.go:180), and a grouped counter casts it to uint64 (collector.go:70, 75).

### HookConfiguration and HookRuns

A printed configuration is a function from keys to values, with `Mistyped` for a
value the schema forbids.  `Accepted` and `LoadAndValidate` are the two results of
the function of that name.  `HookRuns` begins with what every hook prints (`raw`),
loads the hooks in order, fills the main queue, and then interleaves the workers
(make monitors, start them one by one, link crontabs, refresh, run), the monitors
(`Change`: the cache is updated and an event reported, as in `ResourceInformer`) and the
events handler, which puts the object of the event and the snapshots of the moment into
the context.  A monitor has several informers and the channel a place, so a monitor goes on
to change while events of it wait, and these are handled in any order.  What a cache holds is the
number of changes it has seen, so that a stale snapshot is one with a smaller
number.  The refresh reads one monitor after the other.  `RunHook` writes the file
of the hook's version; `MapV0` without an object is a panic and ends the process.
The properties compare the file with `raw` and never with the converted
configuration, so that they check the conversion as well.  Tasks are not combined
here, that is `ShellOperator`'s part: every context of a combined list is refreshed
and converted by itself.

## Runs

Bounds are constants of the modules, each commented where it is declared.

| Run | Result | Shows |
|---|---|---|
| `tq_operator` | pass | the queue as shell-operator uses it: `NothingLost`, `NothingTwice`, `HeadBlocks`, `EndsOnlyWhenCancelled`, refinement of `SequentialQueue`, and that tasks finish and Stop ends the worker.  Four tasks, two HeadTasks, one TailTask: a task at work, two it puts first and one from outside between them |
| `tq_api` | pass | every operation by anybody, AfterTasks included: the handler is never given nil (`TypeOK`), although tasks are removed between `IsEmpty` and `GetFirst`; after a Stop at most one more handler call begins |
| `op_group` | pass | two hooks, main and a named queue, two bindings in a group with a queue each, a third one without a group, onStartup, a schedule, allowed and not allowed failures, two events per monitor: `NoContextLost`, `NoContextTwice`, `InOrder`, `SyncFirstInMain`, `StartupFirst`.  Two events per monitor are the least that can be out of order or be compacted |
| `op_allow` | violation | `FailuresRepeated`: one hook, two bindings of the main queue of which one allows failures; combined with it, an event of the other is given up |
| `op_live` | pass | the same with one event per monitor: `EveryContextHandled`, `AllEnabled` |
| `sched` | pass | two ids with one crontab, one with another, two fires each: `OneFunction`, `EveryFireReceived` |
| `informer` | pass | two objects, four values (two equal for the filter, one it fails on), two changes, one resync or lost watch, with and without a Synchronization: `SnapshotIsReplay`, `QuietIsActual`, `EventuallyActual` |
| `informer_gap` | violation | `QuietIsActual`: an object deleted between the two lists stays in the cache |
| `monitor` | pass | two namespaces, three changes (leave, come again, leave), one lost watch, one failure, static or selected: `NoOrphan`, `QuietWatches`, `AtMostOneLate`, `EventuallyWatched`, `StopEndsVarying` |
| `metrics` | pass | two workers, two hooks, one of them on both workers, three runs; the hooks share a metric name and a group, one has a group of its own, label sets differ, files have explicit expiries, invalid operations and a name used for two kinds: `AddsCounted`, `NoStaleSeries`, `GroupIsLastBatch`, `ScrapeSucceeds`.  Three runs are the least in which a batch is repeated, or its group expired, while another is being applied |
| `hooks` | pass | one hook with four good configurations (a group with a schedule; includes across bindings; bindings without names; version v0) and fifteen that are refused, a second hook with onStartup and a schedule, two queues, two changes, of one monitor or of two, two ticks, two failures: `SnapshotsAsConfigured`, `SnapshotsFresh`, `RunsAsAsked`.  One change is enough to make a snapshot stale while a task waits, two let the cache of a monitor move on while its event is on its way; two failures are one of a monitor and one of a run, or a run repeated twice |
| `hook_v0` | violation | `EventsOfV0Told`: the first event of a v0 binding is a nil pointer |

Each violation is a finding in `PROJECT.json` with the line of the code and the
line of the doc, comment or test it disagrees with.  Deadlock is not checked: with
every bounded event used up the system rests, and a stopped queue has ended.

### What the passing runs leave out

Where the code does less than its docs say, the passing runs are restricted, by a
constant or in the property, to the part that holds.  Besides the findings:

* `AddAfter` takes no lock: a task appended while it copies the slice is lost
  (task_queue.go:225; the comment at :25 says "Each task is executed until
  success").  `ClientOps` and `MaxAfter` are set to the operator's use, which has no
  AfterTasks; `NothingLost` fails with `MaxAfter = 1`.
* Monitors are started before the Synchronization tasks are queued, and these go
  to the main queue whatever the binding's queue is (operator.go:353, 381), so the
  events of a binding with a queue of its own may run first, although HOOKS.md:16
  says that the monitor is started after the Synchronization run.  Hence
  `SyncFirstInMain` is about bindings of the main queue.
* Combination compares hook and task type only (operator.go:509) and the first task's
  `AllowFailure` is left: `op_allow` shows that contexts of a binding without
  `allowFailure` are given up with it, against HOOKS.md:229.  The other properties of
  `ShellOperator` and their proofs do not depend on the flag; `NoContextLost` counts a
  context that was given up as handled.
* An informer made by `addFn` (monitor.go:137) puts the objects of a namespace that starts
  to match into its cache, nobody makes a Synchronization of them, and their Added
  notifications are skipped for an equal checksum (resource_informer.go:310): they are in
  the snapshots and the hook is never told, although HOOKS.md:285 says that the binding
  starts matching them "with the "Added" event".  `SnapshotIsReplay` leaves these objects
  (`untold`) out until there is an event about them, and no others; that a quiet informer
  has told every object of its cache fails after four steps, list, list, take, update.
* A counter of a group starts again with every batch: the example at METRICS.md:136-147 and
  :170 shows 2 after a second batch that adds 1, the code gives 1.  METRICS.md:78, "expires
  previous metrics with the same group and applies new metric values", is what
  `GroupIsLastBatch` and `NoStaleSeries` state.
* An operation with "action" and "value" and without a group, a form of METRICS.md:46, passes
  the validation, and `SendBatchV0`, which looks at "add" and "set" only, makes the
  batch and with it the hook run fail (metric_storage.go:325).  A file of `metrics` has one:
  its run fails half-way and the properties hold all the same.
* The Synchronization of a binding with a group has the type "Group" in its file, as
  binding_context_test.go:337 has it, and not "Synchronization", which HOOKS.md:327, :648 and
  the example after it name.  No property is about the type in the file.
* HOOKS.md:87 promises the alphabetical order for hooks with an equal `onStartup`; the sort at
  hook_manager.go:218 is not stable.  `StartupOrder` of `ShellOperator` is any order, and
  `StartupFirst` says that it is kept.
* A crontab whose last id was removed keeps its entry without a function
  (schedule_manager.go:106), so a later `Add` starts none, against the comment at :54.
  `Reuse = FALSE`; the operator itself never removes.
* `UpdateSnapshots` looks for a binding by its name (hook_controller.go:199, 206):
  of several bindings without a name all are given the snapshots of the first, against
  HOOKS.md:338.  `SnapshotsAsConfigured` is about hooks whose bindings have names of
  their own; without that condition it fails for the configuration `Unnamed`.
* The key of a grouped series has no group (collector.go:67, a TODO), although the
  comment at :58 says "identified by label values and a group": a series two groups
  write belongs to the first.  In `metrics` groups share no series, which METRICS.md's
  own example keeps to; `GroupsApart`, the hypothesis of the proof, says that of any
  metrics files: those of a hook use a name with one type in one group.
* A name used with and without a group belongs to the first use and the other is
  dropped with a log line; METRICS.md:100-101 and :130 show `common_metric` in both.
* A grouped counter cuts each addition to a whole number (collector.go:70, 75).
* `hook_run_sys_cpu_seconds` and `hook_run_user_cpu_seconds` of METRICS.md:35-36 are
  registered and stay empty; operator.go:435-436 writes to other names.
* HOOKS.md:148 and :235 name `fullObjectInSnapshot`, HOOKS.md:111 a string for
  `includeSnapshotsFrom`; the schema of v1 refuses both.

### Fairness

* `TaskQueue`: the worker goes on (weak fairness of every step together); the
  handler succeeds again and again if called again and again, for
  `EveryTaskFinishes`; the `select` does not ignore a closed channel for ever
  (Go chooses among ready cases at random).
* `ShellOperator`: every goroutine goes on; a hook that is run again and again
  succeeds some time; the API server, asked for the same monitor again and
  again, does not fail for ever.
* `ScheduleManager`: the reader of the channel goes on; goroutines that wait for
  a channel are served in turn, as Go's queues of waiting senders are.
* `ResourceInformer`: the SharedInformer lists, and notifications are handled.
* `Monitor`: the main queue makes and starts the monitor, the SharedInformer lists
  and notifies, a cancelled informer ends.

No fairness is assumed of Stop, of events, or of failures.

## Proofs

All theorems hold for every value of the constants under the named assumptions of
the modules (`TaskQueueAssumption`, `ShellOperatorAssumption`,
`MetricStorageAssumption`, `ResourceInformerAssumption`, `MonitorAssumption`,
`ScheduleManagerAssumption`, `HookRunsAssumption`: bounds are naturals, sets, sequences
and names are what they should be; `PrintedAssumption`: what a hook prints is of the
types that the schemas of a configuration check; `OutputAssumption`: what a metrics file
adds to a counter is a number of halves or missing), which TLC evaluates in every run.  Some have a hypothesis besides;
each leaves out a case in which the statement is false of the code (see "What the
passing runs leave out"), and the passing runs that check the property satisfy it:

| Hypothesis | Says | Used by |
|---|---|---|
| `SafeUse` | other goroutines call `AddLast` only, there are no AfterTasks: how shell-operator uses a queue | the safety theorems and the refinement of `TaskQueue` |
| `~GapDeletes` | no object is deleted between the two initial lists | `QuietIsActualAlways` |
| `Reuse = FALSE` | no id is added to a crontab whose last id was removed | `OneFunctionAlways` |
| `GroupsApart` | the metrics files of a hook use a name with one type in one group | `ExpiredIsGone`, `GroupShowsLastBatch` |

Every safety invariant that the passing runs check is proved, and so is the refinement.

### The arguments

`TaskQueueProofs`

* `TypeCorrect`: `TypeInv` is `TypeOK` with what the handler needs to know, that the
  task at work is a task and not nil.
* `SafeInv` gives `NothingLost`, `NothingTwice`, `HeadBlocks`, `EndsOnlyWhenCancelled`.
  Beyond these it says that the tasks of a result still to be applied are new and
  distinct, that there is no unset element, and that at `get` the queue is not empty,
  true because only the worker removes tasks.
* `AtMostOneLateCallAlways` needs no `SafeUse`: `LateInv` says where the worker is
  once a call has begun after the Stop, in that call or at its end.
* `Implements`: under the mapping that shows HeadTasks still to be pushed as already
  in the line (in reverse, as `AddFirst` leaves them), every step of the worker is a
  step of `SequentialQueue` or invisible.  So the result of a handler looks atomic to
  everybody, although `AddLast` may come in between.  `ShellOperator` builds on that.

`ShellOperatorProofs`

* `TypeCorrect`: `TypeInv` has the shapes of tasks and contexts, which task may be
  at the head for each place of a worker, and which queues exist at which stage.
* The steps are first summed up by what they do to the queues (`Shapes`: a queue
  is added, a task appended, the first task replaced by others while tasks behind
  it are taken away), so that each invariant is shown once per shape.
* `PlaceInv` says which queue a context belongs to, and `LinkInv` that whoever emits
  events has its link, so that no event finds no hook.
* `NoContextLostAlways`: `LostInv` follows a context from the channel to the hook; a
  compacted one has an heir of its group and hook that is itself on its way or
  handled, so that heirs form no chain of vanished contexts.
* `NoContextTwiceAlways` and `InOrderAlways`: `LineInv`.  Contexts in a queue, in the
  tasks the events handler is appending and in the channel are in one order (`Prec`:
  they differ, and events of one binding have rising numbers), every context that
  was made is `Known`, and one still to be handled is `Open`: nothing handled comes
  after it.  The combination needs the most thought: it takes away tasks right behind
  the head that were collected earlier, while others were appended.
* `SyncFirstInMainAlways`: `SyncInv`.  While a hook has not got the Synchronization of
  a binding it has got no event of it, and each of its events in the main queue stands
  behind the Synchronization or behind the task that will queue it (`SyncBefore`).
  The monitors are started before the Synchronization is queued; it comes first all
  the same because it is put at the head, and the combination keeps the order.
* `StartupFirstAlways`: `StartInv` says that until the last onStartup hook has succeeded
  the main queue is a suffix of what `PrepopulateMainQueue` has put there, and
  nothing else exists yet that could run.

`MetricStorageProofs`

* `TypeCorrect`: `TypeInv` adds to `TypeOK` what a worker remembers of its batch at each
  stage, and that the lock of the vault is with the worker that expires.
* `ScrapesSucceed`: `OwnerInv`.  A name is registered once, whichever of two
  workers looks first, because the second look is under the lock that registers.
* `EveryAddCounted`: `ToldInv` relates the children of a vector to the calls made.
* `ExpiredIsGone`: while a worker expires its group, the collectors it is done with
  hold nothing of what it expires (`StaleInv`), although other workers go on writing:
  what they write is of an application that has not ended (`FreshInv`), and of
  another group or hook if it is in another's series (`ByInv`, where `GroupsApart` is
  needed).
* `GroupShowsLastBatch`: `BatchInv` speaks of a batch that is half applied.  `Live` are the
  operations applied so far that no later "expire" of the batch has undone, and `Matches`
  says that a collector has a series of the group for each key they write and no other,
  with the sum of their values for a counter and the last one for a gauge.  `ProgressInv`
  keeps that for an application that is alone: while it expires, nothing is `Live` and the
  collectors it is done with have no series of the group; each operation stored, skipped
  or dropped keeps `Matches` (`MatchesAdd`, `MatchesSkip`).  When the batch ends all its
  operations are done, which gives `LastInv` for the group, and from then on steps of
  others leave the group `Untouched`: by `ByInv` they write to series of other groups.
  No collector made later has a metric that an operation of the batch asked for and was
  dropped: the names of all operations done are registered (`Named`), and a new
  collector has a name that is not.  `AloneInv` says that of two applications of a group
  neither counts as alone.  What `SumHalves` yields when an operation is added does not
  depend on the order in which the sum is taken (`SumAdd`, by induction over finite sets).

`ResourceInformerProofs`

* `SnapshotIsReplayAlways`: `ReplayInv`, the cache and the replay of the events differ
  only in the notification at hand.  The step that needs thought is an equal
  checksum: the cache changes and no event is fired, and both sides still agree
  because the hook sees checksums.  Of the objects of a list that was no Synchronization
  nothing is said until the event about one of them is decided on (`Told`).
* `QuietIsActualAlways`: `ActualInv`, the last notification about an object says what the
  SharedInformer has, and an object nothing is waiting for is in the cache so.

`MonitorProofs`

* `NoOrphan` is inductive together with `TypeOK` and `StageInv`, which says that `addFn`
  is busy only with a namespace that has no entry (so the entry it writes replaces
  nothing) and that nothing runs before `Start`.
* `QuietWatchesAlways`: `NotesInv` is for namespaces what `ActualInv` is for objects;
  `WorkInv` adds that the informers in the map are at work, which rests on a new
  informer not being among the cancelled ones.
* `AtMostOneLateAlways`: once the flag of the namespace informer is set, no
  notification gives `addFn` another namespace.

`ScheduleManagerProofs`

* `OneFunction` only counts; `EntryInv` says which function it is, the one named by the
  entry, so that `Remove` takes the function of its own crontab and no other.
  `TypeInv` adds that every EntryID in use is at most `lastEntry`, so the next one is
  new, and that goroutines waiting to send are bounded by the fires.

`HookRunsProofs`

* `RunsInvariant`: `IInv` has six parts, about the configurations (`ConfigInv`), what has
  been done at start-up (`StartInv`), links (`LinkInv`), caches (`CacheInv`), queued tasks
  (`QueueInv`) and what a worker has at hand (`WorkInv`).  The other theorems follow from it.
* `RunsOnlyAsAsked`: `GoodConfig` relates a configuration to what the hook has printed,
  whichever schema that was.  The lemmas under it say what `ConvertV0`, `ConvertV1`,
  the default names, `MergeArrays` (the names of both lists, none twice) and
  `GroupSnapshots` (the names of the bindings of a group) yield for lists of any length.
  `RunOK` says that a context in a queue is one of a binding of the configuration, with the
  queue, the event type and the fields the binding asks for; it is kept because every way
  into a queue (`KubeRunOK`, `ScheduleRunOK`, the two enabling tasks) makes contexts from
  the configuration and none is changed in a queue.
* `RunsWithFreshSnapshots`: the versions in the file of a running hook were read since the
  run began (`HookOK`), and no cache goes back (`CacheInv`).
* `RunsWithSnapshotsAsked`: the names in the file are those the binding includes, because
  `UniqueNames` makes the first binding with the name of a context its own binding; none of
  the snapshots is missing because the monitors of a hook are all made before any
  of its bindings can be run (`AllMade`, `RunReady`).
* `RunsTypeCorrect` is part of `IInv`.

`InductionLemmas`: the induction theorems of the library have a predicate for a
parameter, which the installed provers cannot instantiate.  The lemmas here have a set
in its place, and follow from the least element of a set of numbers.  With them it is
proved what `FlattenSeq`, and so `Keep`, `ContextsOf` and the compaction, yield for
sequences of any length, and `MetricStorageProofs` that sums over finite sets exist and
grow by what is added.

### Only model-checked

Liveness under fairness is beyond the prover: `EveryTaskFinishes` and `StopEnds` of
`TaskQueue`, `AllEnabled` and `EveryContextHandled` of `ShellOperator`, `EveryFireReceived`
of `ScheduleManager`, `EventuallyActual` of `ResourceInformer`, `EventuallyWatched` and
`StopEndsVarying` of `Monitor`.

## Not modelled

Log and status texts, the length of delays (with the exponential backoff, whose
only effect is that length), the content of objects, the grammar of selectors,
crontabs and filters, running of processes, the Kubernetes client.  `Shutdown` is
the three Stops that are actions of their components, followed by a wait of at
most ten seconds that changes nothing and the end of the process.  Three data
races are listed as hazards and not modelled: the map of queues is written without
its lock while the main worker reads it, the maps of links are written by the main
worker while the events handler ranges over them, and `VaryingInformers` is written
by the namespace informer while snapshots are read; the Go runtime ends the process
when it notices one.  The manifests,
charts and scripts of the repository are configuration and have no state machine.

## Plan

Done: `SequentialQueue`, `TaskQueue` with its proofs and the refinement,
and `ShellOperator`, `ScheduleManager`, `ResourceInformer`, `Monitor`, `MetricStorage`,
`HookConfiguration` and `HookRuns` with their proofs.

Left is nothing but liveness, which stays with TLC.
