---------------------------- MODULE ShellOperator ----------------------------
(***************************************************************************)
(* The operator at work (pkg/shell-operator): the start sequence, the main *)
(* and the named task queues with TaskHandler behind them, the goroutine   *)
(* of ManagerEventsHandler that turns events into tasks, and the two       *)
(* channels of capacity one that carry Kubernetes and cron events to it.   *)
(*                                                                         *)
(* A task queue is taken to be what SequentialQueue says and TaskQueue     *)
(* proves: only the head runs, it keeps its place until it is finished,    *)
(* and a finished task is replaced by its HeadTasks in one step.           *)
(*                                                                         *)
(* A binding context is its binding and a number: 0 for Synchronization    *)
(* and onStartup, the number of the event otherwise.                       *)
(***************************************************************************)
EXTENDS Naturals, Sequences, SequencesExt, FiniteSets, FiniteSetsExt, Slices

CONSTANTS
    HookNames,      \* the hooks in the order of their paths
    StartupOrder,   \* the hooks with an onStartup binding, in their order
    HookConfig,     \* hook -> version, kubernetes and schedule bindings
    BindingConfig,  \* binding -> queue, allowFailure, group, sync, crontab
    MaxEvents,      \* bound: events of one monitor
    MaxTicks        \* bound: how often one crontab fires

Hook == ToSet(HookNames)
Kube(h) == HookConfig[h].kubernetes
Sched(h) == HookConfig[h].schedule
KubeBindings == UNION {ToSet(Kube(h)) : h \in Hook}
SchedBindings == UNION {ToSet(Sched(h)) : h \in Hook}
Crontabs == {BindingConfig[b].crontab : b \in SchedBindings}
Bindings == KubeBindings \union SchedBindings
BindingsOf(h) == ToSet(Kube(h)) \union ToSet(Sched(h))
HookOf(b) == CHOOSE h \in Hook : b \in BindingsOf(h)

\* Bindings, hooks and crontabs have names of their own; the configuration of a
\* binding without a queue has "main" for it.
ASSUME ShellOperatorAssumption ==
    /\ HookNames \in Seq(Hook) /\ IsInjective(HookNames)
    /\ StartupOrder \in Seq(Hook) /\ IsInjective(StartupOrder)
    /\ \A h \in Hook : /\ Kube(h) \in Seq(DOMAIN BindingConfig) /\ IsInjective(Kube(h))
                       /\ Sched(h) \in Seq(DOMAIN BindingConfig) /\ IsInjective(Sched(h))
    /\ \A g, h \in Hook : g # h => BindingsOf(g) \intersect BindingsOf(h) = {}
    /\ KubeBindings \intersect (SchedBindings \union Crontabs) = {}
    /\ Hook \intersect Bindings = {}
    /\ \A b \in Bindings : BindingConfig[b].allowFailure \in BOOLEAN /\ BindingConfig[b].queue # ""
    /\ MaxEvents \in Nat
    /\ MaxTicks \in Nat

VARIABLES
    stage,          \* how far operator.Start has come
    queues,         \* TaskQueues.Queues: the tasks of every queue there is
    work,           \* what the goroutine of every queue is doing
    linked,         \* BindingMonitorLinks and ScheduleLinks of all hooks
    monitors,       \* the monitors that were started
    entries,        \* ids registered in Entries of the schedule manager
    kubeCh,         \* KubeEventCh
    scheduleCh,     \* ScheduleCh
    tailTasks,      \* tasks the events handler has still to queue
    emitted,        \* history: events of every monitor, fires of every crontab
    owed,           \* history: contexts the hooks are owed by these events
    done,           \* history: contexts a hook was run with successfully
    dropped,        \* history: contexts of failed runs that were not repeated
    heir            \* history: the context that stands for a compacted one

startup == <<stage, linked, monitors, entries>>
events == <<kubeCh, scheduleCh, tailTasks, emitted, owed>>
results == <<done, dropped, heir>>
vars == <<stage, queues, work, linked, monitors, entries, kubeCh, scheduleCh,
          tailTasks, emitted, owed, done, dropped, heir>>

Context(b, n) == [binding |-> b, n |-> n]

\* The onStartup context of a hook carries the hook's name for a binding.
Group(c) == IF c.binding \in Hook THEN "" ELSE BindingConfig[c.binding].group

HookRun(h, ctxs, allow, q) ==
    [kind |-> "HookRun", hook |-> h, ctxs |-> ctxs, allow |-> allow, queue |-> q]

EnableTask(kind, h) ==
    [kind |-> kind, hook |-> h, ctxs |-> << >>, allow |-> FALSE, queue |-> ""]

BindingRun(b, n, q) ==
    HookRun(HookOf(b), <<Context(b, n)>>, BindingConfig[b].allowFailure, q)

Idle == [at |-> "idle", i |-> 0, others |-> << >>]
At(place) == [at |-> place, i |-> 1, others |-> << >>]

Init ==
    /\ stage = "prepopulate"
    /\ queues = << >>
    /\ work = << >>
    /\ linked = {} /\ monitors = {} /\ entries = {}
    /\ kubeCh = << >> /\ scheduleCh = << >> /\ tailTasks = << >>
    /\ emitted = [x \in KubeBindings \union Crontabs |-> 0]
    /\ owed = {} /\ done = {} /\ dropped = {}
    /\ heir = << >>

-----------------------------------------------------------------------------
(* operator.Start.                                                         *)

\* One EnableKubernetesBindings and one EnableScheduleBindings task per hook
\* that has such bindings, hook by hook.
EnableTasks(h) ==
    (IF Kube(h) # << >> THEN <<EnableTask("EnableKubernetesBindings", h)>> ELSE << >>)
    \o (IF Sched(h) # << >> THEN <<EnableTask("EnableScheduleBindings", h)>> ELSE << >>)

\* Mutant: the enabling tasks are queued before the onStartup tasks.
PrepopulateEnableFirst ==
    /\ stage = "prepopulate"
    /\ queues' = [q \in {"main"} |->
                     FlattenSeq([i \in DOMAIN HookNames |-> EnableTasks(HookNames[i])])
                     \o [i \in DOMAIN StartupOrder |->
                         HookRun(StartupOrder[i], <<Context(StartupOrder[i], 0)>>, FALSE, "")]]
    /\ stage' = "main"
    /\ UNCHANGED <<work, linked, monitors, entries, events, results>>

\* onStartup tasks have no queue name.
PrepopulateMainQueue ==
    /\ stage = "prepopulate"
    /\ queues' = [q \in {"main"} |->
                     [i \in DOMAIN StartupOrder |->
                         HookRun(StartupOrder[i], <<Context(StartupOrder[i], 0)>>, FALSE, "")]
                     \o FlattenSeq([i \in DOMAIN HookNames |-> EnableTasks(HookNames[i])])]
    /\ stage' = "main"
    /\ UNCHANGED <<work, linked, monitors, entries, events, results>>

StartMain ==
    /\ stage = "main"
    /\ work' = [q \in {"main"} |-> Idle]
    /\ stage' = "queues"
    /\ UNCHANGED <<queues, linked, monitors, entries, events, results>>

NamedQueues == {BindingConfig[b].queue : b \in Bindings}

\* The main queue is at work already while the others are created.
InitAndStartHookQueues(q) ==
    /\ stage = "queues"
    /\ q \notin DOMAIN queues
    /\ queues' = [x \in DOMAIN queues \union {q} |-> IF x = q THEN << >> ELSE queues[x]]
    /\ work' = [x \in DOMAIN work \union {q} |-> IF x = q THEN Idle ELSE work[x]]
    /\ UNCHANGED <<startup, events, results>>

\* ManagerEventsHandler.Start, then ScheduleManager.Start.
StartEventsHandler ==
    /\ stage = "queues"
    /\ NamedQueues \subseteq DOMAIN queues
    /\ stage' = "handler"
    /\ UNCHANGED <<queues, work, linked, monitors, entries, events, results>>

StartScheduleManager ==
    /\ stage = "handler"
    /\ stage' = "up"
    /\ UNCHANGED <<queues, work, linked, monitors, entries, events, results>>

StartOperator ==
    \/ PrepopulateMainQueue \/ StartMain
    \/ \E q \in NamedQueues : InitAndStartHookQueues(q)
    \/ StartEventsHandler \/ StartScheduleManager

-----------------------------------------------------------------------------
(* Events.  A producer that finds its channel full waits.                  *)

MonitorEvent(b) ==
    /\ b \in monitors
    /\ emitted[b] < MaxEvents
    /\ kubeCh = << >>
    /\ emitted' = [emitted EXCEPT ![b] = @ + 1]
    /\ kubeCh' = <<Context(b, emitted[b] + 1)>>
    /\ owed' = owed \union {Context(b, emitted[b] + 1)}
    /\ UNCHANGED <<queues, work, startup, scheduleCh, tailTasks, results>>

CronFires(c) ==
    /\ stage = "up"
    /\ \E b \in entries : BindingConfig[b].crontab = c
    /\ emitted[c] < MaxTicks
    /\ scheduleCh = << >>
    /\ emitted' = [emitted EXCEPT ![c] = @ + 1]
    /\ scheduleCh' = <<[crontab |-> c, n |-> emitted[c] + 1]>>
    /\ owed' = owed \union {Context(b, emitted[c] + 1) :
                               b \in {x \in entries : BindingConfig[x].crontab = c}}
    /\ UNCHANGED <<queues, work, startup, kubeCh, tailTasks, results>>

HandlerReady == stage \in {"handler", "up"} /\ tailTasks = << >>

\* Mutant: the channels are read in turn instead of with select.
TakeKubeEventInTurn ==
    /\ HandlerReady
    /\ kubeCh # << >> /\ scheduleCh # << >>
    /\ LET c == Head(kubeCh)
       IN tailTasks' = <<BindingRun(c.binding, c.n, BindingConfig[c.binding].queue)>>
    /\ kubeCh' = Tail(kubeCh)
    /\ UNCHANGED <<queues, work, startup, scheduleCh, emitted, owed, results>>

\* HandleKubeEvent: the hook that has a link for the monitor gets a task.
TakeKubeEvent ==
    /\ HandlerReady
    /\ kubeCh # << >>
    /\ LET c == Head(kubeCh)
           b == c.binding
       IN tailTasks' = IF b \in linked THEN <<BindingRun(b, c.n, BindingConfig[b].queue)>>
                                       ELSE << >>
    /\ kubeCh' = Tail(kubeCh)
    /\ UNCHANGED <<queues, work, startup, scheduleCh, emitted, owed, results>>

\* HandleScheduleEvent: hook by hook, the links of one hook in the order the
\* iteration over a Go map happens to have.
TakeScheduleEvent ==
    /\ HandlerReady
    /\ scheduleCh # << >>
    /\ LET e == Head(scheduleCh)
           hit == {b \in SchedBindings \intersect linked : BindingConfig[b].crontab = e.crontab}
           pos(b) == CHOOSE i \in DOMAIN HookNames : HookNames[i] = HookOf(b)
       IN \E s \in SetToSeqs(hit) :
             /\ \A i, j \in DOMAIN s : i < j => pos(s[i]) <= pos(s[j])
             /\ tailTasks' = [i \in DOMAIN s |->
                                 BindingRun(s[i], e.n, BindingConfig[s[i]].queue)]
    /\ scheduleCh' = Tail(scheduleCh)
    /\ UNCHANGED <<queues, work, startup, kubeCh, emitted, owed, results>>

\* A task for a queue that does not exist is logged and forgotten.
QueueTask ==
    /\ tailTasks # << >>
    /\ LET t == Head(tailTasks)
       IN queues' = IF t.queue \in DOMAIN queues
                    THEN [queues EXCEPT ![t.queue] = Append(@, t)]
                    ELSE queues
    /\ tailTasks' = Tail(tailTasks)
    /\ UNCHANGED <<work, startup, kubeCh, scheduleCh, emitted, owed, results>>

EventsHandler == TakeKubeEvent \/ TakeScheduleEvent \/ QueueTask

-----------------------------------------------------------------------------
(* TaskHandler.  The task at work is the head of its queue.                *)

Move(q, w) == work' = [work EXCEPT ![q] = w]

Finish(q, heads) ==
    /\ queues' = [queues EXCEPT ![q] = heads \o Tail(@)]
    /\ Move(q, Idle)

\* Only hooks of version v1 combine, and only in a queue of that name.
Begin(q) ==
    /\ work[q] = Idle
    /\ queues[q] # << >>
    /\ LET t == Head(queues[q])
       IN Move(q, CASE t.kind = "HookRun" ->
                          IF HookConfig[t.hook].version = "v1" /\ t.queue \in DOMAIN queues
                          THEN At("combine") ELSE At("run")
                    [] t.kind = "EnableKubernetesBindings" -> At("enable")
                    [] t.kind = "EnableScheduleBindings" -> At("link"))
    /\ UNCHANGED <<queues, startup, events, results>>

\* The tasks right behind the head with its hook and its type.
Similar(s) ==
    SubSeq(s, 2, Max({n \in DOMAIN s : \A i \in 2..n : /\ s[i].hook = s[1].hook
                                                     /\ s[i].kind = s[1].kind}))

\* Iterate collects them under the lock of the queue ...
CombineIterate(q) ==
    /\ work[q].at = "combine"
    /\ LET others == Similar(queues[q])
       IN Move(q, IF others = << >> THEN At("run")
                                    ELSE [at |-> "filter", i |-> 1, others |-> others])
    /\ UNCHANGED <<queues, startup, events, results>>

ContextsOf(tasks) == FlattenSeq([i \in DOMAIN tasks |-> tasks[i].ctxs])

\* A context is skipped when the next one has the same group.
Skipped(s, i) == Group(s[i]) # "" /\ i < Len(s) /\ Group(s[i + 1]) = Group(s[i])

Compact(s) == Keep(s, {i \in DOMAIN s : ~Skipped(s, i)})

\* The first context that is not skipped, from position i on.
Survivor(s, i) == s[CHOOSE j \in i..Len(s) : /\ ~Skipped(s, j)
                                             /\ \A k \in i..(j - 1) : Skipped(s, k)]

NewHeirs(s) ==
    LET gone == {s[i] : i \in {j \in DOMAIN s : Skipped(s, j)}}
        next(c) == IF c \in gone THEN Survivor(s, CHOOSE i \in DOMAIN s : s[i] = c) ELSE c
    IN [c \in DOMAIN heir \union gone |-> next(IF c \in DOMAIN heir THEN heir[c] ELSE c)]

\* The tasks of s that are not among others.
Without(s, others) == Keep(s, {i \in DOMAIN s : s[i] \notin ToSet(others)})

\* Mutant: the combined contexts are used for the run, but not saved.
CombineFilterUnsaved(q) ==
    /\ work[q].at = "filter"
    /\ queues' = [queues EXCEPT ![q] = <<Head(@)>> \o Without(Tail(@), work[q].others)]
    /\ Move(q, At("run"))
    /\ UNCHANGED <<startup, events, results>>

\* ... and Filter deletes them under the lock taken anew.  The contexts of all
\* of them, compacted, become the metadata of the head.
CombineFilter(q) ==
    /\ work[q].at = "filter"
    /\ LET t == Head(queues[q])
           others == work[q].others
           combined == t.ctxs \o ContextsOf(others)
           rest == Without(Tail(queues[q]), others)
       IN /\ queues' = [queues EXCEPT ![q] = <<[t EXCEPT !.ctxs = Compact(combined)]>> \o rest]
          /\ heir' = NewHeirs(combined)
    /\ Move(q, At("run"))
    /\ UNCHANGED <<startup, events, done, dropped>>

\* Mutant: the worker goes on with a task that has left the queue.
HookSucceedsAgain(q) ==
    /\ work[q].at = "run"
    /\ done' = done \union ToSet(Head(queues[q]).ctxs)
    /\ queues' = [queues EXCEPT ![q] = Tail(@)]
    /\ UNCHANGED <<work, startup, events, dropped, heir>>

HookSucceeds(q) ==
    /\ work[q].at = "run"
    /\ done' = done \union ToSet(Head(queues[q]).ctxs)
    /\ Finish(q, << >>)
    /\ UNCHANGED <<startup, events, dropped, heir>>

\* Mutant: a failed task goes to the end of the queue.
HookFailsRequeue(q) ==
    /\ work[q].at = "run"
    /\ queues' = [queues EXCEPT ![q] = Append(Tail(@), Head(@))]
    /\ Move(q, Idle)
    /\ UNCHANGED <<startup, events, results>>

\* The hook exits with an error, or its metrics are bad.
HookFails(q) ==
    /\ work[q].at = "run"
    /\ \/ /\ Head(queues[q]).allow
          /\ dropped' = dropped \union ToSet(Head(queues[q]).ctxs)
          /\ Finish(q, << >>)
       \/ /\ ~Head(queues[q]).allow
          /\ Move(q, Idle)
          /\ UNCHANGED <<queues, dropped>>
    /\ UNCHANGED <<startup, events, done, heir>>

\* EnableKubernetesBindings: AddMonitor for one binding after the other.
AddMonitor(q, b) ==
    /\ work[q].at = "enable"
    /\ LET bs == Kube(Head(queues[q]).hook)
       IN /\ b = bs[work[q].i]
          /\ linked' = linked \union {b}
          /\ Move(q, IF work[q].i < Len(bs) THEN [work[q] EXCEPT !.i = @ + 1]
                                            ELSE At("monitors"))
    /\ UNCHANGED <<stage, queues, monitors, entries, events, results>>

\* Mutant: a hook whose monitors cannot be made is given up.
AddMonitorGivesUp(q) ==
    /\ work[q].at = "enable"
    /\ Finish(q, << >>)
    /\ UNCHANGED <<startup, events, results>>

\* Mutant: the Synchronization tasks made before the error are queued.
AddMonitorFailsHalfway(q) ==
    /\ work[q].at = "enable"
    /\ LET bs == SubSeq(Kube(Head(queues[q]).hook), 1, work[q].i - 1)
       IN queues' = [queues EXCEPT ![q] =
                        [i \in DOMAIN bs |-> BindingRun(bs[i], 0, "main")] \o @]
    /\ Move(q, Idle)
    /\ UNCHANGED <<startup, events, results>>

\* An error leaves the monitors and links made so far; the retry makes them anew.
AddMonitorFails(q) ==
    /\ work[q].at = "enable"
    /\ Move(q, Idle)
    /\ UNCHANGED <<queues, startup, events, results>>

\* The Synchronization tasks of a hook all go to the main queue.
SyncTasks(h) ==
    LET bs == Keep(Kube(h), {i \in DOMAIN Kube(h) : /\ HookConfig[h].version = "v1"
                                                    /\ BindingConfig[Kube(h)[i]].sync})
    IN [i \in DOMAIN bs |-> BindingRun(bs[i], 0, "main")]

\* StartMonitors ranges over a map of links.
StartMonitor(q) ==
    /\ work[q].at = "monitors"
    /\ \E b \in ToSet(Kube(Head(queues[q]).hook)) \ monitors :
          monitors' = monitors \union {b}
    /\ UNCHANGED <<stage, linked, entries, queues, work, events, results>>

\* Mutant: the Synchronization tasks are put at the end.
KubernetesEnabledAtTail(q) ==
    /\ work[q].at = "monitors"
    /\ ToSet(Kube(Head(queues[q]).hook)) \subseteq monitors
    /\ queues' = [queues EXCEPT ![q] = Tail(@) \o SyncTasks(Head(@).hook)]
    /\ Move(q, Idle)
    /\ UNCHANGED <<startup, events, results>>

\* The HeadTasks are put first one by one, which reverses them.
KubernetesEnabled(q) ==
    /\ work[q].at = "monitors"
    /\ ToSet(Kube(Head(queues[q]).hook)) \subseteq monitors
    /\ Finish(q, Reverse(SyncTasks(Head(queues[q]).hook)))
    /\ UNCHANGED <<startup, events, results>>

\* EnableScheduleBindings: the link of a binding, then its cron entry.
LinkSchedule(q) ==
    /\ work[q].at = "link"
    /\ linked' = linked \union {Sched(Head(queues[q]).hook)[work[q].i]}
    /\ Move(q, [work[q] EXCEPT !.at = "add"])
    /\ UNCHANGED <<stage, queues, monitors, entries, events, results>>

AddSchedule(q) ==
    /\ work[q].at = "add"
    /\ LET bs == Sched(Head(queues[q]).hook)
       IN /\ entries' = entries \union {bs[work[q].i]}
          /\ IF work[q].i < Len(bs)
             THEN Move(q, [At("link") EXCEPT !.i = work[q].i + 1]) /\ UNCHANGED queues
             ELSE Finish(q, << >>)
    /\ UNCHANGED <<stage, linked, monitors, events, results>>

TaskHandler(q) ==
    \/ Begin(q) \/ CombineIterate(q) \/ CombineFilter(q) \/ HookSucceeds(q) \/ HookFails(q)
    \/ (\E b \in KubeBindings : AddMonitor(q, b)) \/ AddMonitorFails(q)
    \/ StartMonitor(q) \/ KubernetesEnabled(q)
    \/ LinkSchedule(q) \/ AddSchedule(q)

-----------------------------------------------------------------------------

AllQueues == NamedQueues \union {"main"}

Next ==
    \/ StartOperator
    \/ EventsHandler
    \/ \E b \in KubeBindings : MonitorEvent(b)
    \/ \E c \in Crontabs : CronFires(c)
    \/ \E q \in AllQueues \intersect DOMAIN work : TaskHandler(q)

Spec == Init /\ [][Next]_vars

\* Every goroutine goes on, neither the hooks of a queue nor the API server,
\* asked for the same monitor again and again, fail for ever.
FairSpec ==
    /\ Spec
    /\ WF_vars(StartOperator)
    /\ WF_vars(EventsHandler)
    /\ \A q \in AllQueues :
          /\ WF_vars(q \in DOMAIN work /\ TaskHandler(q))
          /\ SF_vars(q \in DOMAIN work /\ HookSucceeds(q))
          /\ \A b \in KubeBindings : SF_vars(q \in DOMAIN work /\ AddMonitor(q, b))

-----------------------------------------------------------------------------
(* Properties.                                                             *)

Contexts == [binding : Bindings \union Hook, n : 0..(MaxEvents + MaxTicks)]
Tasks == [kind : {"HookRun", "EnableKubernetesBindings", "EnableScheduleBindings"},
          hook : Hook, ctxs : Seq(Contexts), allow : BOOLEAN, queue : AllQueues \union {""}]

\* Tasks, contexts and queues are well formed, and a worker that is at work in
\* TaskHandler has its task at the head of its queue.
TypeOK ==
    /\ stage \in {"prepopulate", "main", "queues", "handler", "up"}
    /\ DOMAIN queues \subseteq AllQueues
    /\ \A q \in DOMAIN queues : queues[q] \in Seq(Tasks)
    /\ DOMAIN work \subseteq DOMAIN queues
    /\ \A q \in DOMAIN work :
          /\ work[q].at \in {"idle", "combine", "filter", "run", "enable", "monitors", "link", "add"}
          /\ work[q].others \in Seq(Tasks)
          /\ work[q] # Idle => queues[q] # << >>
    /\ linked \subseteq Bindings
    /\ monitors \subseteq KubeBindings
    /\ entries \subseteq SchedBindings
    /\ Len(kubeCh) <= 1 /\ ToSet(kubeCh) \subseteq Contexts
    /\ Len(scheduleCh) <= 1
    /\ tailTasks \in Seq(Tasks)
    /\ owed \subseteq Contexts
    /\ done \subseteq Contexts
    /\ dropped \subseteq Contexts
    /\ DOMAIN heir \subseteq Contexts

\* Where a context can be between its event and the end of a hook run.
Queued(q) == IF q \in DOMAIN queues THEN ContextsOf(queues[q]) ELSE << >>
InQueue(c) == \E q \in DOMAIN queues : c \in ToSet(Queued(q))
Ticking(c) == \E i \in DOMAIN scheduleCh :
                 /\ c.binding \in SchedBindings
                 /\ BindingConfig[c.binding].crontab = scheduleCh[i].crontab
                 /\ c.n = scheduleCh[i].n
InFlight(c) == \/ c \in ToSet(kubeCh)
               \/ Ticking(c)
               \/ c \in ToSet(ContextsOf(tailTasks))
               \/ InQueue(c)
Handled(c) == c \in done \union dropped

SyncBindings(h) == {b \in ToSet(Kube(h)) : HookConfig[h].version = "v1" /\ BindingConfig[b].sync}

Pending(kind, h) == \/ "main" \notin DOMAIN queues
                    \/ EnableTask(kind, h) \in ToSet(queues["main"])

\* What the hooks are owed: an onStartup run, a Synchronization run for every
\* binding once the hook's bindings are enabled, and a run for every event.
Owed == owed \union {Context(b, 0) : b \in UNION {SyncBindings(h) :
                                h \in {x \in Hook : ~Pending("EnableKubernetesBindings", x)}}}
             \union (IF stage = "prepopulate" THEN {} ELSE {Context(h, 0) : h \in ToSet(StartupOrder)})

\* No event is lost between its monitor or crontab and the hook: not in the
\* channels, not for a queue or a link that does not exist yet, not by the
\* combination of tasks nor by a retry.  A compacted context has an heir of the
\* same hook and group that is on its way or was handled.
NoContextLost ==
    \A c \in Owed :
        \/ InFlight(c)
        \/ Handled(c)
        \/ /\ c \in DOMAIN heir
           /\ Group(heir[c]) = Group(c) /\ HookOf(heir[c].binding) = HookOf(c.binding)
           /\ InFlight(heir[c]) \/ Handled(heir[c])

\* No context reaches a hook twice by different ways: the retries of
\* EnableKubernetesBindings queue one Synchronization per binding, and a
\* combined or compacted context is in no other task.
NoContextTwice ==
    LET line(q) == Queued(q) IN
    /\ \A q \in DOMAIN queues : \A i, j \in DOMAIN line(q) : i # j => line(q)[i] # line(q)[j]
    /\ \A p, q \in DOMAIN queues : p # q => ToSet(line(p)) \intersect ToSet(line(q)) = {}
    /\ \A c \in done \union dropped \union DOMAIN heir : ~InFlight(c)

\* What is on its way to a hook by the queue of b, the first to come first, and
\* where the events of b are.
LineOf(b) == Queued(BindingConfig[b].queue) \o ContextsOf(tailTasks) \o kubeCh
EventsOf(b) == {i \in DOMAIN LineOf(b) : LineOf(b)[i].binding = b /\ LineOf(b)[i].n > 0}

\* A hook sees the events of a binding in the order of the monitor, whatever
\* is combined, compacted, repeated or added meanwhile.
InOrder ==
    \A b \in KubeBindings :
        /\ \A i, j \in EventsOf(b) : i < j => LineOf(b)[i].n < LineOf(b)[j].n
        /\ \A c \in done \union dropped :
              c.binding = b => \A i \in EventsOf(b) : c.n < LineOf(b)[i].n

\* The contexts of the runs that have begun.
Given(q) == IF q \in DOMAIN work /\ work[q].at = "run" THEN Head(queues[q]).ctxs ELSE << >>

\* The hook has been run with the Synchronization of b, or is right now, with
\* the Synchronization before the contexts of any event.
SyncSeen(b) == \/ Context(b, 0) \in done \union dropped \union DOMAIN heir
               \/ \E q \in DOMAIN work : LET s == Given(q) IN
                     \E i \in DOMAIN s : /\ s[i] = Context(b, 0)
                                         /\ \A j \in 1..(i - 1) : s[j].binding # b

EventGiven(b) == \/ \E c \in done \union dropped : c.binding = b /\ c.n > 0
                 \/ \E q \in DOMAIN work : \E c \in ToSet(Given(q)) : c.binding = b /\ c.n > 0

\* A hook is run with the Synchronization of a binding before it is run with
\* an event of that binding.  Monitors are started before the Synchronization
\* runs, so only the order of the main queue can guarantee it.
SyncFirst(b) == EventGiven(b) => SyncSeen(b)

\* For a binding whose events go to the main queue, where the Synchronization
\* tasks are put at the head, the order holds whatever fails on the way.
SyncFirstInMain ==
    \A h \in Hook : \A b \in SyncBindings(h) : BindingConfig[b].queue = "main" => SyncFirst(b)

\* onStartup hooks run in their order, and no other hook run begins before
\* the last of them has succeeded, in whatever queue.
StartupFirst ==
    /\ \A i \in DOMAIN StartupOrder : Context(StartupOrder[i], 0) \in done =>
          \A j \in 1..(i - 1) : Context(StartupOrder[j], 0) \in done
    /\ (\E c \in done \union dropped \union UNION {ToSet(Given(q)) : q \in DOMAIN work} :
           c.binding \notin Hook)
       => \A h \in ToSet(StartupOrder) : Context(h, 0) \in done

\* "If `false` or the parameter is not set, the hook is restarted" (HOOKS.md): a
\* context is given up only when its own binding allows failures.  Of tasks that
\* CombineBindingContextForHook puts together the first one's flag is left.
FailuresRepeated ==
    \A c \in dropped : c.binding \notin Hook /\ BindingConfig[c.binding].allowFailure

\* Everything the hooks are owed is handled in the end, and so is a context
\* that stands for compacted ones.
EveryContextHandled ==
    \A c \in [binding : Bindings \union Hook, n : 0..(MaxEvents + MaxTicks)] :
        c \in Owed ~> (Handled(c) \/ (c \in DOMAIN heir /\ Handled(heir[c])))

\* The operator comes up: every hook gets its monitors and its cron entries.
AllEnabled == <>[](monitors = KubeBindings /\ entries = SchedBindings)
==============================================================================
