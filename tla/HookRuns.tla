------------------------------ MODULE HookRuns ------------------------------
(***************************************************************************)
(* From the configurations of the hooks to the binding contexts they are   *)
(* run with: pkg/hook (hook manager, hook, binding contexts) and           *)
(* pkg/hook/controller.  The worker of the main queue enables bindings,    *)
(* the events handler makes contexts from events, the workers of the       *)
(* queues refresh the snapshots of a context, write it to a file and run   *)
(* the hook, all of them at the same time.                                 *)
(*                                                                         *)
(* What a monitor has in its cache is the number of changes it has seen.   *)
(* A monitor brings its cache up to date first and reports then, as in     *)
(* ResourceInformer; its informers block in EventCb each by itself, so the *)
(* cache of a monitor moves on while events of it wait for the channel or  *)
(* in it, and no order is left between them.  Tasks are not combined here  *)
(* (see ShellOperator): every context of a list is refreshed by itself.    *)
(* A task goes and the tasks that take its place come in one step, as in   *)
(* SequentialQueue, which TaskQueue implements.                            *)
(***************************************************************************)
EXTENDS HookConfiguration

CONSTANTS
    HookNames,      \* the hooks in the order of their paths
    Printed,        \* hook -> what it may print for --config
    Queue,          \* the names of the queues, "main" among them
    MaxBindings,    \* bound: kubernetes bindings of a hook
    MaxChanges,     \* bound: changes one monitor sees
    MaxAllChanges,  \* bound: changes all monitors see
    MaxTicks,       \* bound: how often crontabs fire
    MaxFailures     \* bound: failures of monitors and hooks

Hook == ToSet(HookNames)
Monitor == Hook \X (1..MaxBindings)

IsList(s) == s \in Seq(ToSet(s))

\* What the schemas and Unmarshal leave open of the fields of a binding: a value
\* of the right type is a list where one is due, and never a nil pointer.
TypedBinding(b) ==
    \A k \in DOMAIN b : b[k] # Mistyped =>
        /\ b[k] # Nil
        /\ k = "queue" => b[k] \in Queue \union {Unset}
        /\ k = "includeSnapshotsFrom" => IsList(b[k])

Typed(o) ==
    \A k \in DOMAIN o \intersect {"schedule", "kubernetes", "onKubernetesEvent"} :
        o[k] # Mistyped => /\ IsList(o[k])
                           /\ k = "schedule" \/ Len(o[k]) <= MaxBindings
                           /\ \A i \in DOMAIN o[k] : TypedBinding(o[k][i])

\* The names a configuration has for its snapshots.
SnapshotNames(c) == {c.kubernetes[i].name : i \in DOMAIN c.kubernetes}

ASSUME HookRunsAssumption ==
    /\ HookNames \in Seq(Hook) /\ IsInjective(HookNames)
    /\ Hook \subseteq DOMAIN Printed
    /\ "main" \in Queue
    /\ MaxBindings \in Nat /\ MaxChanges \in Nat /\ MaxTicks \in Nat /\ MaxFailures \in Nat

\* A number is no nil pointer, and neither is a map of snapshots.
ASSUME PrintedAssumption ==
    /\ \A h \in Hook : \A o \in Printed[h] : Typed(o)
    /\ Nil \notin Nat
    /\ \A h \in Hook : \A o \in Printed[h] : Accepted(o) =>
          \A S \in SUBSET SnapshotNames(LoadAndValidate(o)) :
              Nil \notin [S -> [of : Nat, ver : Nat]]

VARIABLES
    raw,            \* what the hooks print
    stage,          \* how far the start has come
    config,         \* hm.hooksByName: the configurations of the hooks loaded
    queues,         \* the tasks of every queue
    work,           \* what the worker of every queue is doing
    monitors,       \* Monitors of the kube events manager, by hook and index
    started,        \* those that were started
    links,          \* BindingMonitorLinks of all hooks
    scheduleLinks,  \* ScheduleLinks of all hooks
    cache,          \* what every monitor has seen
    event,          \* the events of every monitor that are not handled yet
    ticks,          \* fires of crontabs so far
    failures        \* failures of monitors and hooks so far

bindings == <<monitors, started, links, scheduleLinks>>
cluster == <<cache, event, ticks>>
vars == <<raw, stage, config, queues, work, monitors, started, links, scheduleLinks,
          cache, event, ticks, failures>>

Kube(h) == config[h].kubernetes
Idle == [at |-> "idle"]
NoSnapshots == [n \in {} |-> Nil]

Init ==
    /\ raw \in [Hook -> UNION {Printed[h] : h \in Hook}]
    /\ \A h \in Hook : raw[h] \in Printed[h]
    /\ stage = "loading"
    /\ config = [h \in {} |-> Nil]
    /\ queues = [q \in Queue |-> << >>] /\ work = [q \in Queue |-> Idle]
    /\ monitors = {} /\ started = {} /\ links = {} /\ scheduleLinks = {}
    /\ cache = [m \in Monitor |-> 0] /\ event = [m \in Monitor |-> {}]
    /\ ticks = 0 /\ failures = 0

-----------------------------------------------------------------------------
(* Binding contexts.  An object or a list of objects is the number of      *)
(* changes its monitor had seen.  The field from, which the code does not  *)
(* have, is the index of the binding a context was made for.               *)

Context(kind, name, group, include) ==
    [kind |-> kind, binding |-> name, group |-> group, include |-> include,
     type |-> Unset, watch |-> Unset, object |-> Nil, snap |-> NoSnapshots, from |-> 0]

OnStartupContext == Context("onStartup", "onStartup", Unset, << >>)

\* The objects of a binding that does not keep them are nil pointers.
ConvertKubeEventToBindingContext(h, i, type, watch, ver) ==
    LET link == Kube(h)[i]
    IN [Context("kubernetes", link.name, link.group, link.include) EXCEPT
           !.type = type, !.watch = watch, !.from = i,
           !.object = IF link.full THEN ver ELSE Nil]

\* What a context shows of a binding: of bindings with this name the last one
\* that has a monitor, and an empty list if there is none.
SnapshotFrom(h, name) ==
    LET hit == {i \in DOMAIN Kube(h) : Kube(h)[i].name = name /\ <<h, i>> \in monitors}
        last == CHOOSE i \in hit : \A j \in hit : j <= i
    IN IF hit = {} THEN [of |-> 0, ver |-> 0] ELSE [of |-> last, ver |-> cache[<<h, last>>]]

SnapshotsFrom(h, names) == [n \in ToSet(names) |-> SnapshotFrom(h, n)]

\* Snapshots are looked for by the kind and the name of a binding: they are
\* those of the first binding with this name.
KubernetesSnapshotsFor(h, kind, name) ==
    LET bs == IF kind = "onStartup" THEN << >> ELSE config[h][kind]
        i == SelectInSeq(bs, LAMBDA b : b.name = name)
    IN IF i = 0 THEN << >> ELSE bs[i].include

HookRun(h, ctx, allow) == [kind |-> "HookRun", hook |-> h, ctx |-> ctx, allow |-> allow]
EnableTask(kind, h) == [kind |-> kind, hook |-> h]

-----------------------------------------------------------------------------
(* The file a hook is given, with Nil for a field that is not there.       *)

File(binding, type, watch, object, snapshots) ==
    [binding |-> binding, type |-> type, watch |-> watch, object |-> object,
     snapshots |-> snapshots]

\* A group hides what happened to which binding.
MapV1(c) ==
    LET snapshots == IF c.include = << >> THEN Nil ELSE c.snap
    IN CASE c.kind = "onStartup" -> File(c.binding, Nil, Nil, Nil, Nil)
         [] c.kind # "onStartup" /\ c.group # Unset ->
               File(c.group, "Group", Nil, Nil, snapshots)
         [] c.kind = "schedule" /\ c.group = Unset ->
               File(c.binding, "Schedule", Nil, Nil, snapshots)
         [] c.kind = "kubernetes" /\ c.group = Unset ->
               File(c.binding, c.type, IF c.watch = Unset THEN Nil ELSE c.watch, c.object, snapshots)

\* Namespace, kind and name of the object are read through its pointer; the
\* event has the name of v0.
MapV0(c) ==
    IF c.kind # "kubernetes" THEN File(c.binding, Nil, Nil, Nil, Nil)
    ELSE IF c.object = Nil THEN Nil
    ELSE File(c.binding, Nil, CHOOSE e \in DOMAIN EventV0 : EventV0[e] = c.watch, c.object, Nil)

ConvertBindingContext(version, c) == IF version = "v0" THEN MapV0(c) ELSE MapV1(c)

-----------------------------------------------------------------------------
(* Loading.                                                                *)

\* loadHook for the next hook; one configuration that is wrong is too many.
LoadHook ==
    /\ stage = "loading"
    /\ \E h \in Hook \ DOMAIN config :
          /\ h = HookNames[Cardinality(DOMAIN config) + 1]
          /\ \/ /\ Accepted(raw[h])
                /\ config' = [x \in DOMAIN config \union {h} |->
                                 IF x = h THEN LoadAndValidate(raw[h]) ELSE config[x]]
                /\ UNCHANGED stage
             \/ /\ ~Accepted(raw[h])
                /\ stage' = "failed"
                /\ UNCHANGED config
    /\ UNCHANGED <<raw, queues, work, bindings, cluster, failures>>

\* The sort by the value of onStartup is not stable.
GetHooksInOrder(s) ==
    /\ ToSet(s) = {h \in Hook : HasBinding(config[h], "onStartup")}
    /\ \A i, j \in DOMAIN s : i < j => config[s[i]].onStartup <= config[s[j]].onStartup

EnableTasks(h) ==
    (IF HasBinding(config[h], "kubernetes") THEN <<EnableTask("EnableKubernetes", h)>> ELSE << >>)
    \o (IF HasBinding(config[h], "schedule") THEN <<EnableTask("EnableSchedule", h)>> ELSE << >>)

PrepopulateMainQueue ==
    /\ stage = "loading"
    /\ DOMAIN config = Hook
    /\ stage' = "up"
    /\ \E s \in UNION {SetToSeqs(hs) : hs \in SUBSET Hook} :
          /\ GetHooksInOrder(s)
          /\ queues' = [queues EXCEPT !["main"] =
                           [i \in DOMAIN s |-> HookRun(s[i], OnStartupContext, FALSE)]
                           \o FlattenSeq([i \in DOMAIN HookNames |-> EnableTasks(HookNames[i])])]
    /\ UNCHANGED <<raw, config, work, bindings, cluster, failures>>

-----------------------------------------------------------------------------
(* Workers.                                                                *)

Move(q, w) == work' = [work EXCEPT ![q] = w]

Finish(q, heads) ==
    /\ queues' = [queues EXCEPT ![q] = heads \o Tail(@)]
    /\ Move(q, Idle)

\* Mutant: the snapshots put into the context with the event are used.
RefreshNothing(h, ctx) == [at |-> "refresh", todo |-> << >>, snap |-> ctx.snap, since |-> cache]

\* UpdateSnapshots does nothing for a hook without kubernetes bindings.
Refresh(h, ctx) ==
    [at |-> "refresh", since |-> cache,
     todo |-> KubernetesSnapshotsFor(h, ctx.kind, ctx.binding),
     snap |-> IF Kube(h) = << >> THEN ctx.snap ELSE NoSnapshots]

Begin(q) ==
    /\ work[q] = Idle
    /\ queues[q] # << >>
    /\ LET t == Head(queues[q])
       IN Move(q, CASE t.kind = "EnableKubernetes" -> [at |-> "add", i |-> 1, infos |-> << >>]
                    [] t.kind = "EnableSchedule" -> [at |-> "link", i |-> 1]
                    [] t.kind = "HookRun" -> Refresh(t.hook, t.ctx))
    /\ UNCHANGED <<raw, stage, config, queues, bindings, cluster, failures>>

\* EnableKubernetesBindings, binding by binding.  A monitor made anew by a retry
\* may find other objects than the one before.
AddMonitor(q) ==
    /\ work[q].at = "add"
    /\ LET h == Head(queues[q]).hook
           i == work[q].i
           b == Kube(h)[i]
           m == <<h, i>>
           again == IF m \in monitors THEN {cache[m], cache[m] + 1} ELSE {cache[m]}
       IN /\ i \in DOMAIN Kube(h)
          /\ monitors' = monitors \union {<<h, i>>}
          /\ links' = links \union {<<h, i>>}
          /\ \E ver \in again \intersect (0..MaxChanges) :
                LET sync == ConvertKubeEventToBindingContext(h, i, "Synchronization", Unset, ver)
                IN /\ cache' = [cache EXCEPT ![m] = ver]
                   /\ Move(q, [work[q] EXCEPT
                                  !.i = @ + 1,
                                  !.infos = IF b.mode = "v0" \/ ~b.sync THEN @
                                            ELSE Append(@, HookRun(h, sync, b.allowFailure))])
    /\ UNCHANGED <<raw, stage, config, queues, started, scheduleLinks, event, ticks, failures>>

\* The error drops the contexts made so far; monitors and links stay.
AddMonitorFails(q) ==
    /\ work[q].at = "add"
    /\ work[q].i \in DOMAIN Kube(Head(queues[q]).hook)
    /\ failures < MaxFailures
    /\ failures' = failures + 1
    /\ Move(q, Idle)
    /\ UNCHANGED <<raw, stage, config, queues, bindings, cluster>>

ToStart(h) == {m \in links \ started : m[1] = h}

\* StartMonitors, in the order of a map.
StartMonitor(q) ==
    /\ work[q].at = "add"
    /\ LET h == Head(queues[q]).hook
       IN /\ work[q].i > Len(Kube(h))
          /\ \E m \in ToStart(h) : started' = started \union {m}
    /\ UNCHANGED <<raw, stage, config, queues, work, monitors, links, scheduleLinks, cluster,
                   failures>>

\* The Synchronization tasks go to the head of the queue.
KubernetesEnabled(q) ==
    /\ work[q].at = "add"
    /\ LET h == Head(queues[q]).hook
       IN work[q].i > Len(Kube(h)) /\ ToStart(h) = {}
    /\ Finish(q, Reverse(work[q].infos))
    /\ UNCHANGED <<raw, stage, config, bindings, cluster, failures>>

\* EnableScheduleBindings, binding by binding.
EnableSchedule(q) ==
    /\ work[q].at = "link"
    /\ LET h == Head(queues[q]).hook
           n == Len(config[h].schedule)
       IN /\ scheduleLinks' = scheduleLinks \union {<<h, work[q].i>>}
          /\ \/ /\ work[q].i < n
                /\ Move(q, [work[q] EXCEPT !.i = @ + 1])
                /\ UNCHANGED queues
             \/ /\ work[q].i = n
                /\ Finish(q, << >>)
    /\ UNCHANGED <<raw, stage, config, monitors, started, links, cluster, failures>>

\* UpdateSnapshots reads one monitor after the other.
ReadSnapshot(q) ==
    /\ work[q].at = "refresh"
    /\ work[q].todo # << >>
    /\ LET n == Head(work[q].todo)
           h == Head(queues[q]).hook
           s == [x \in DOMAIN work[q].snap \union {n} |->
                    IF x = n THEN SnapshotFrom(h, n) ELSE work[q].snap[x]]
       IN Move(q, [work[q] EXCEPT !.todo = Tail(@), !.snap = s])
    /\ UNCHANGED <<raw, stage, config, queues, bindings, cluster, failures>>

\* The file is written and the hook started.
RunHook(q) ==
    /\ work[q].at = "refresh"
    /\ work[q].todo = << >>
    /\ LET t == Head(queues[q])
           file == ConvertBindingContext(config[t.hook].version,
                                         [t.ctx EXCEPT !.snap = work[q].snap])
       IN Move(q, [at |-> IF file = Nil THEN "panic" ELSE "hook",
                   file |-> file, since |-> work[q].since])
    /\ UNCHANGED <<raw, stage, config, queues, bindings, cluster, failures>>

HookSucceeds(q) ==
    /\ work[q].at = "hook"
    /\ Finish(q, << >>)
    /\ UNCHANGED <<raw, stage, config, bindings, cluster, failures>>

\* A failure that is not allowed leaves the task where it is.
HookFails(q) ==
    /\ work[q].at = "hook"
    /\ failures < MaxFailures
    /\ failures' = failures + 1
    /\ \/ /\ Head(queues[q]).allow
          /\ Finish(q, << >>)
       \/ /\ ~Head(queues[q]).allow
          /\ Move(q, Idle)
          /\ UNCHANGED queues
    /\ UNCHANGED <<raw, stage, config, bindings, cluster>>

-----------------------------------------------------------------------------
(* Events.                                                                 *)

CanChange(m) ==
    /\ m \in started
    /\ cache[m] < MaxChanges
    /\ MapThenSumSet(LAMBDA n : cache[n], Monitor) < MaxAllChanges

\* Mutant: a change that is an event is reported and not cached.
ChangeUncached(m, watch) ==
    /\ CanChange(m)
    /\ watch \in Kube(m[1])[m[2]].events
    /\ event' = [event EXCEPT ![m] = @ \union {[watch |-> watch, ver |-> cache[m] + 1]}]
    /\ UNCHANGED <<raw, stage, config, queues, work, bindings, cache, ticks, failures>>

\* An informer of a monitor sees a change, while others of it may wait for the
\* channel; the change is an event if it is wanted.
Change(m, watch) ==
    /\ CanChange(m)
    /\ cache' = [cache EXCEPT ![m] = @ + 1]
    /\ event' = [event EXCEPT ![m] = @ \union
                    {e \in {[watch |-> watch, ver |-> cache[m] + 1]} :
                        watch \in Kube(m[1])[m[2]].events}]
    /\ UNCHANGED <<raw, stage, config, queues, work, bindings, ticks, failures>>

\* HandleKubeEvent: the hook that has a link for the monitor gets a task, with
\* the object as it was and the snapshots as they are now.
HandleKubeEvent(m, e) ==
    /\ m \in links
    /\ LET h == m[1]
           b == Kube(h)[m[2]]
           c == ConvertKubeEventToBindingContext(h, m[2], "Event", e.watch, e.ver)
           ctx == [c EXCEPT !.snap = SnapshotsFrom(h, b.include)]
       IN queues' = [queues EXCEPT ![b.queue] = Append(@, HookRun(h, ctx, b.allowFailure))]
    /\ event' = [event EXCEPT ![m] = @ \ {e}]
    /\ UNCHANGED <<raw, stage, config, work, bindings, cache, ticks, failures>>

ScheduleRun(h, i) ==
    LET b == config[h].schedule[i]
        c == Context("schedule", b.name, b.group, b.include)
    IN [task |-> HookRun(h, [c EXCEPT !.from = i, !.snap = SnapshotsFrom(h, b.include)],
                         b.allowFailure),
        queue |-> b.queue]

\* HandleScheduleEvent: hook by hook, the links of a hook in the order of a map.
HandleScheduleEvent(crontab) ==
    /\ ticks < MaxTicks
    /\ LET hit == {l \in scheduleLinks : config[l[1]].schedule[l[2]].crontab = crontab}
           pos(h) == SelectInSeq(HookNames, LAMBDA x : x = h)
       IN /\ hit # {}
          /\ \E s \in SetToSeqs(hit) :
                /\ \A i, j \in DOMAIN s : i < j => pos(s[i][1]) <= pos(s[j][1])
                /\ LET runs == [i \in DOMAIN s |-> ScheduleRun(s[i][1], s[i][2])]
                       of(q) == Keep(runs, {i \in DOMAIN runs : runs[i].queue = q})
                   IN queues' = [q \in Queue |->
                                    queues[q] \o [i \in DOMAIN of(q) |-> of(q)[i].task]]
    /\ ticks' = ticks + 1
    /\ UNCHANGED <<raw, stage, config, work, bindings, cache, event, failures>>

Crontabs == UNION {{config[h].schedule[i].crontab : i \in DOMAIN config[h].schedule} :
                     h \in DOMAIN config}

\* A panic ends the process.
Next ==
    /\ \A q \in Queue : work[q].at # "panic"
    /\ \/ LoadHook \/ PrepopulateMainQueue
       \/ \E q \in Queue :
             \/ Begin(q) \/ AddMonitor(q) \/ AddMonitorFails(q) \/ StartMonitor(q)
             \/ KubernetesEnabled(q) \/ EnableSchedule(q) \/ ReadSnapshot(q) \/ RunHook(q)
             \/ HookSucceeds(q) \/ HookFails(q)
       \/ \E m \in Monitor : \/ \E watch \in {"Added", "Modified", "Deleted"} : Change(m, watch)
                             \/ \E e \in event[m] : HandleKubeEvent(m, e)
       \/ \E c \in Crontabs : HandleScheduleEvent(c)

Spec == Init /\ [][Next]_vars

-----------------------------------------------------------------------------
(* Properties.                                                             *)

\* A run is about a hook that was loaded, a link stands for a monitor, and an event
\* on its way is one its binding wants, of a started monitor whose snapshots have
\* this change already, whatever else the monitor has seen since.
TypeOK ==
    /\ stage \in {"loading", "failed", "up"}
    /\ DOMAIN config \subseteq Hook
    /\ \A q \in Queue : \A i \in DOMAIN queues[q] : queues[q][i].hook \in DOMAIN config
    /\ \A q \in Queue : work[q].at = "hook" => Head(queues[q]).kind = "HookRun"
    /\ started \subseteq links /\ links \subseteq monitors /\ monitors \subseteq Monitor
    /\ \A m \in Monitor : \A e \in event[m] :
          m \in started /\ e.ver <= cache[m] /\ e.watch \in Kube(m[1])[m[2]].events
    /\ cache \in [Monitor -> 0..MaxChanges]

RawKube(h) == Get(raw[h], "kubernetes", << >>)
RawOf(h, c) == raw[h][c.kind][c.from]

\* The names that includeSnapshotsFrom and the group of a binding ask for.
Wanted(h, o) ==
    LET group == {i \in DOMAIN RawKube(h) : /\ Get(RawKube(h)[i], "group", Unset) # Unset
                                            /\ Get(RawKube(h)[i], "group", Unset) = Get(o, "group", Unset)}
    IN ToSet(Get(o, "includeSnapshotsFrom", << >>))
       \union {NameOr(RawKube(h)[i], "kubernetes") : i \in group}

\* The snapshots in the file of a run are those its binding asks for, each read
\* from the monitor of the binding with that name.
HasSnapshots(h, c, f) ==
    LET wanted == Wanted(h, RawOf(h, c))
    IN IF wanted = {} THEN f.snapshots = Nil
       ELSE /\ f.snapshots # Nil
            /\ DOMAIN f.snapshots = wanted
            /\ \A n \in wanted : LET i == f.snapshots[n].of
                               IN i # 0 /\ NameOr(RawKube(h)[i], "kubernetes") = n

Running(q) == work[q].at = "hook"
IsBindingRun(t) == config[t.hook].version = "v1" /\ t.ctx.kind # "onStartup"

UniqueNames(h) ==
    /\ \A i, j \in DOMAIN Kube(h) : Kube(h)[i].name = Kube(h)[j].name => i = j
    /\ \A i, j \in DOMAIN config[h].schedule :
          config[h].schedule[i].name = config[h].schedule[j].name => i = j

\* A hook whose bindings have names of their own is given exactly the snapshots
\* the binding asks for, by itself or by its group, whichever event triggered it,
\* and none is empty because its monitor is not there yet.
SnapshotsAsConfigured ==
    \A q \in Queue : Running(q) =>
        LET t == Head(queues[q])
        IN IsBindingRun(t) /\ UniqueNames(t.hook) => HasSnapshots(t.hook, t.ctx, work[q].file)

\* The snapshots a hook is given, also when a run is repeated, are not older than
\* the run: what monitors saw while its task waited is in them.
SnapshotsFresh ==
    \A q \in Queue : Running(q) /\ work[q].file.snapshots # Nil =>
        \A n \in DOMAIN work[q].file.snapshots :
            LET s == work[q].file.snapshots[n]
                m == <<Head(queues[q]).hook, s.of>>
            IN s.of # 0 => work[q].since[m] <= s.ver /\ s.ver <= cache[m]

\* A hook is run only for what the hook has asked for in its configuration: with
\* Synchronization unless it was refused, with the events listed and no others,
\* in its queue, under the name of its group or binding, with full objects
\* unless these are not kept.
RunsAsAsked ==
    \A q \in Queue : Running(q) =>
        LET t == Head(queues[q])
            f == work[q].file
            o == RawOf(t.hook, t.ctx)
            group == Get(o, "group", Unset)
            every == <<"Added", "Modified", "Deleted">>
        IN IsBindingRun(t) =>
             /\ f.binding = IF group # Unset THEN group ELSE NameOr(o, t.ctx.kind)
             /\ t.ctx.type # "Synchronization" => q = QueueOrMain(o)
             /\ t.ctx.type = "Synchronization" => Get(o, "executeHookOnSynchronization", TRUE)
             /\ t.ctx.type = "Event" =>
                   t.ctx.watch \in ToSet(Get(o, "executeHookOnEvent", Get(o, "watchEvent", every)))
             /\ f.type \in {"Synchronization", "Event"} =>
                   (f.object # Nil <=> Get(o, "keepFullObjectsInMemory", TRUE))

\* Every event a hook of version v0 is run for reaches the hook: the name, kind
\* and namespace of the object are there to be written.
EventsOfV0Told == \A q \in Queue : work[q].at # "panic"
==============================================================================
