------------------------------- MODULE Monitor -------------------------------
(***************************************************************************)
(* A monitor (pkg/kube_events_manager/monitor.go) with its namespace       *)
(* informer (namespace_informer.go) and the operations of the              *)
(* KubeEventsManager on it: which namespaces have resource informers while *)
(* namespaces that match the labels of the binding come and go.            *)
(*                                                                         *)
(* A binding names its namespaces (static informers) or selects them by    *)
(* labels (varying informers), never both: Namespaces() is empty when      *)
(* there is a label selector.  The informers of one namespace, one for     *)
(* each object name, are made, started and cancelled together: one         *)
(* Informer stands for them.  What an informer does is ResourceInformer.   *)
(* API server and SharedInformer of namespaces are external.               *)
(***************************************************************************)
EXTENDS Naturals, Sequences, SequencesExt, FiniteSets

CONSTANTS
    Namespace,
    None,           \* no entry in a map
    Failed,         \* the entry of a namespace whose informers could not be made
    MaxChanges,     \* bound: namespaces that start or cease to match
    MaxBreaks,      \* bound: lost watches
    MaxFailures     \* bound: informers that cannot be made

ASSUME MonitorAssumption ==
    /\ IsFiniteSet(Namespace)
    /\ None # Failed /\ None \notin Namespace
    /\ None \notin [ns : Namespace, gen : Nat]
    /\ Failed \notin [ns : Namespace, gen : Nat]
    /\ MaxChanges \in Nat /\ MaxBreaks \in Nat /\ MaxFailures \in Nat

VARIABLES
    matching,           \* namespaces in the cluster that match the labels
    changes, breaks, failures,
    watch, store, notes,    \* the SharedInformer of namespaces, as in ResourceInformer
    staticNamespaces,   \* {} for a binding with a label selector
    stage,              \* of the monitor: new, creating, started, stopped
    todo,               \* namespaces CreateInformers has still to make informers for
    ResourceInformers,  \* static informers
    VaryingInformers, cancelForNs,
    born,               \* how many informers were made for a namespace
    running,            \* informers that were started and have not ended
    cancelled,          \* informers whose context is cancelled
    paused,             \* informers whose flag stopped is set by PauseHandleEvents
    pausing,            \* how far PauseHandleEvents is: no, informers, done
    adding,             \* the namespace addFn makes informers for
    missed,             \* history: listed by CreateInformers, gone at the first list of Run
    late                \* history: informers started after PauseHandleEvents was over

Informer == [ns : Namespace, gen : Nat]

server == <<matching, changes, breaks, watch, store, notes, missed>>
maps == <<ResourceInformers, VaryingInformers, cancelForNs, born>>
informers == <<running, cancelled, paused>>
vars == <<matching, changes, breaks, failures, watch, store, notes, staticNamespaces, stage, todo,
          ResourceInformers, VaryingInformers, cancelForNs, born, running, cancelled, paused,
          pausing, adding, missed, late>>

Init ==
    /\ matching \in SUBSET Namespace
    /\ staticNamespaces \in SUBSET Namespace
    /\ changes = 0 /\ breaks = 0 /\ failures = 0
    /\ watch = "none" /\ store = {} /\ notes = << >>
    /\ stage = "new" /\ todo = {}
    /\ ResourceInformers = {}
    /\ VaryingInformers = [n \in Namespace |-> None]
    /\ cancelForNs = [n \in Namespace |-> None]
    /\ born = [n \in Namespace |-> 0]
    /\ running = {} /\ cancelled = {} /\ paused = {}
    /\ pausing = "no" /\ adding = None
    /\ missed = {} /\ late = 0

ByLabels == staticNamespaces = {}
Registered == {n \in Namespace : VaryingInformers[n] # None}
Varying == {VaryingInformers[n] : n \in Registered} \ {Failed}

-----------------------------------------------------------------------------
(* The cluster and the SharedInformer of namespaces.                       *)

Watching == watch = "alive"
Note(type, n) == [type |-> type, ns |-> n]

NamespaceChanges(n, type) ==
    /\ changes < MaxChanges
    /\ changes' = changes + 1
    /\ matching' = IF type = "Added" THEN matching \union {n} ELSE matching \ {n}
    /\ store' = IF Watching THEN matching' ELSE store
    /\ notes' = IF Watching THEN Append(notes, Note(type, n)) ELSE notes
    /\ missed' = IF Watching THEN missed \ {n} ELSE missed
    /\ UNCHANGED <<breaks, failures, watch, staticNamespaces, stage, todo, maps, informers,
                   pausing, adding, late>>

\* A namespace is created or deleted, or its labels are changed.
NamespaceAppears(n) == n \notin matching /\ NamespaceChanges(n, "Added")
NamespaceLeaves(n) == n \in matching /\ NamespaceChanges(n, "Deleted")

WatchBreaks ==
    /\ Watching
    /\ breaks < MaxBreaks
    /\ breaks' = breaks + 1
    /\ watch' = "lost"
    /\ UNCHANGED <<matching, changes, failures, store, notes, missed, staticNamespaces, stage,
                   todo, maps, informers, pausing, adding, late>>

\* The first list of Run, and the list after a lost watch.  Nothing cancels the
\* context of the namespace informer, which is the one the monitor had before
\* Start.  Updates of known namespaces are left out, OnUpdate ignores them.
InformerLists ==
    /\ ByLabels
    /\ stage \in {"started", "stopped"}
    /\ ~Watching
    /\ watch' = "alive"
    /\ store' = matching
    /\ missed' = (IF watch = "none" THEN Registered ELSE missed) \ matching
    /\ \E order \in SetToSeqs((matching \ store) \union (store \ matching)) :
          notes' = notes \o [i \in DOMAIN order |->
                        Note(IF order[i] \in matching THEN "Added" ELSE "Deleted", order[i])]
    /\ UNCHANGED <<matching, changes, breaks, failures, staticNamespaces, stage, todo, maps,
                   informers, pausing, adding, late>>

Environment ==
    \/ \E n \in Namespace : NamespaceAppears(n) \/ NamespaceLeaves(n)
    \/ WatchBreaks
    \/ InformerLists

-----------------------------------------------------------------------------
(* AddMonitor: CreateInformers, with the list of namespaces of             *)
(* NamespaceInformer.CreateSharedInformer.  An error of that list leaves   *)
(* nothing behind.                                                         *)

Create ==
    /\ stage = "new"
    /\ stage' = "creating"
    /\ todo' = IF ByLabels THEN matching ELSE staticNamespaces
    /\ UNCHANGED <<server, failures, staticNamespaces, maps, informers, pausing, adding, late>>

\* CreateInformersForNamespace gives a new informer ...
NewInformer(n) == [ns |-> n, gen |-> born[n]]

CreateInformersForNamespace(n) ==
    /\ stage = "creating"
    /\ n \in todo
    /\ todo' = todo \ {n}
    /\ born' = [born EXCEPT ![n] = @ + 1]
    /\ IF ByLabels
       THEN /\ VaryingInformers' = [VaryingInformers EXCEPT ![n] = NewInformer(n)]
            /\ UNCHANGED ResourceInformers
       ELSE /\ ResourceInformers' = ResourceInformers \union {NewInformer(n)}
            /\ UNCHANGED VaryingInformers
    /\ UNCHANGED <<server, failures, staticNamespaces, stage, cancelForNs, informers, pausing,
                   adding, late>>

\* ... or an error.  It is logged for a selected namespace; for a named one
\* AddMonitor returns it, and the task that is tried again makes a new monitor.
CreateFails(n) ==
    /\ stage = "creating"
    /\ n \in todo
    /\ failures < MaxFailures
    /\ failures' = failures + 1
    /\ IF ByLabels
       THEN /\ todo' = todo \ {n}
            /\ VaryingInformers' = [VaryingInformers EXCEPT ![n] = Failed]
            /\ UNCHANGED <<stage, ResourceInformers>>
       ELSE /\ todo' = {}
            /\ stage' = "new"
            /\ ResourceInformers' = {}
            /\ UNCHANGED VaryingInformers
    /\ UNCHANGED <<server, staticNamespaces, cancelForNs, born, informers, pausing, adding, late>>

AddMonitor ==
    \/ Create
    \/ \E n \in Namespace : CreateInformersForNamespace(n) \/ CreateFails(n)

\* The monitor is among those of the manager.
HasMonitor == (stage = "creating" /\ todo = {}) \/ stage = "started"

-----------------------------------------------------------------------------
(* Start, Stop and PauseHandleEvents of the monitor.                       *)

\* Mutant: no cancel functions for the informers made by CreateInformers.
StartForgetsCancel ==
    /\ stage = "creating" /\ todo = {}
    /\ stage' = "started"
    /\ running' = ResourceInformers \union Varying
    /\ UNCHANGED <<server, failures, staticNamespaces, todo, maps, cancelled, paused, pausing,
                   adding, late>>

\* Every selected namespace gets a context of its own, below the new m.ctx.
Start ==
    /\ stage = "creating" /\ todo = {}
    /\ stage' = "started"
    /\ running' = ResourceInformers \union Varying
    /\ cancelForNs' = VaryingInformers
    /\ UNCHANGED <<server, failures, staticNamespaces, todo, ResourceInformers, VaryingInformers,
                   born, cancelled, paused, pausing, adding, late>>

\* m.cancel is the one of Start: static informers and the namespace informer
\* have contexts below the one of WithContext and are not concerned.
Stop ==
    /\ stage = "started"
    /\ stage' = "stopped"
    /\ cancelled' = cancelled \union (running \ ResourceInformers)
    /\ UNCHANGED <<server, failures, staticNamespaces, todo, maps, running, paused, pausing,
                   adding, late>>

\* The goroutine of an informer that waits for its context.
InformerEnds(i) ==
    /\ i \in running \intersect cancelled
    /\ running' = running \ {i}
    /\ UNCHANGED <<server, failures, staticNamespaces, stage, todo, maps, cancelled, paused,
                   pausing, adding, late>>

\* The flags of all informers, then the one of the namespace informer.
PauseInformers ==
    /\ HasMonitor
    /\ pausing = "no"
    /\ pausing' = "informers"
    /\ paused' = paused \union ResourceInformers \union Varying
    /\ UNCHANGED <<server, failures, staticNamespaces, stage, todo, maps, running, cancelled,
                   adding, late>>

PauseNamespaceInformer ==
    /\ pausing = "informers"
    /\ pausing' = "done"
    /\ UNCHANGED <<server, failures, staticNamespaces, stage, todo, maps, informers, adding, late>>

-----------------------------------------------------------------------------
(* OnAdd and OnDelete of the namespace informer, which handles one         *)
(* notification at a time.                                                 *)

niStopped == pausing = "done"

TakeNote(type) ==
    /\ adding = None
    /\ notes # << >>
    /\ Head(notes).type = type
    /\ notes' = Tail(notes)
    /\ UNCHANGED <<matching, changes, breaks, watch, store, missed, failures, staticNamespaces,
                   stage, todo, ResourceInformers, born, running, paused, pausing, late>>

\* Mutant: addFn does not ask whether the namespace has informers already.
OnAddAgain ==
    /\ TakeNote("Added")
    /\ adding' = IF niStopped THEN None ELSE Head(notes).ns
    /\ UNCHANGED <<VaryingInformers, cancelForNs, cancelled>>

\* Mutant: notifications are handled after a pause.
OnAddPaused ==
    /\ TakeNote("Added")
    /\ adding' = IF Head(notes).ns \in Registered THEN None ELSE Head(notes).ns
    /\ UNCHANGED <<VaryingInformers, cancelForNs, cancelled>>

OnAdd ==
    /\ TakeNote("Added")
    /\ adding' = IF niStopped \/ Head(notes).ns \in Registered THEN None ELSE Head(notes).ns
    /\ UNCHANGED <<VaryingInformers, cancelForNs, cancelled>>

\* addFn registers what it has made: an informer, which it starts below the
\* context of Start, or nothing after an error, with a cancel function all the same.
Register(n, entry) ==
    /\ VaryingInformers' = [VaryingInformers EXCEPT ![n] = entry]
    /\ cancelForNs' = [cancelForNs EXCEPT ![n] = entry]
    /\ adding' = None
    /\ UNCHANGED <<server, staticNamespaces, stage, todo, ResourceInformers, paused, pausing>>

\* Mutant: the context of a namespace that is added later has no parent.
AddFnDetached ==
    /\ adding # None
    /\ Register(adding, NewInformer(adding))
    /\ born' = [born EXCEPT ![adding] = @ + 1]
    /\ running' = running \union {NewInformer(adding)}
    /\ late' = IF niStopped THEN late + 1 ELSE late
    /\ UNCHANGED <<failures, cancelled>>

AddFn ==
    /\ adding # None
    /\ Register(adding, NewInformer(adding))
    /\ born' = [born EXCEPT ![adding] = @ + 1]
    /\ running' = running \union {NewInformer(adding)}
    /\ cancelled' = IF stage = "stopped" THEN cancelled \union {NewInformer(adding)} ELSE cancelled
    /\ late' = IF niStopped THEN late + 1 ELSE late
    /\ UNCHANGED failures

AddFnFails ==
    /\ adding # None
    /\ failures < MaxFailures
    /\ failures' = failures + 1
    /\ Register(adding, Failed)
    /\ UNCHANGED <<born, running, cancelled, late>>

\* Mutant: the informers are cancelled and stay in the map.
OnDeleteKeepsEntry ==
    /\ TakeNote("Deleted")
    /\ LET n == Head(notes).ns
           ignored == niStopped \/ cancelForNs[n] = None
       IN /\ cancelled' = IF ignored THEN cancelled
                          ELSE cancelled \union ({cancelForNs[n]} \ {Failed})
          /\ cancelForNs' = IF ignored THEN cancelForNs ELSE [cancelForNs EXCEPT ![n] = None]
    /\ UNCHANGED <<VaryingInformers, adding>>

\* Mutant: the informers leave the map and are not cancelled.
OnDeleteKeepsRunning ==
    /\ TakeNote("Deleted")
    /\ LET n == Head(notes).ns
           ignored == niStopped \/ cancelForNs[n] = None
       IN /\ VaryingInformers' = IF ignored THEN VaryingInformers
                                 ELSE [VaryingInformers EXCEPT ![n] = None]
          /\ cancelForNs' = IF ignored THEN cancelForNs ELSE [cancelForNs EXCEPT ![n] = None]
    /\ UNCHANGED <<cancelled, adding>>

OnDelete ==
    /\ TakeNote("Deleted")
    /\ LET n == Head(notes).ns
           ignored == niStopped \/ cancelForNs[n] = None
       IN /\ cancelled' = IF ignored THEN cancelled
                          ELSE cancelled \union ({cancelForNs[n]} \ {Failed})
          /\ VaryingInformers' = IF ignored THEN VaryingInformers
                                 ELSE [VaryingInformers EXCEPT ![n] = None]
          /\ cancelForNs' = IF ignored THEN cancelForNs ELSE [cancelForNs EXCEPT ![n] = None]
    /\ UNCHANGED adding

NamespaceInformer == OnAdd \/ OnDelete \/ AddFn \/ AddFnFails

Next ==
    \/ Environment
    \/ AddMonitor
    \/ Start
    \/ Stop
    \/ PauseInformers
    \/ PauseNamespaceInformer
    \/ NamespaceInformer
    \/ \E i \in running : InformerEnds(i)

Spec == Init /\ [][Next]_vars

\* The main queue makes and starts the monitor, the SharedInformer lists and
\* notifies, and the goroutines of the informers wait for their contexts.
FairSpec ==
    /\ Spec
    /\ WF_vars(AddMonitor)
    /\ WF_vars(Start)
    /\ WF_vars(InformerLists)
    /\ WF_vars(NamespaceInformer)
    /\ \A n \in Namespace, k \in 0..MaxChanges : WF_vars(InformerEnds([ns |-> n, gen |-> k]))

-----------------------------------------------------------------------------
(* Properties.                                                             *)

\* Once the monitor is started the two maps have the same entries, each for its
\* own namespace: what is in the snapshots can be cancelled.
TypeOK ==
    /\ matching \subseteq Namespace /\ store \subseteq Namespace /\ missed \subseteq Namespace
    /\ staticNamespaces \subseteq Namespace /\ todo \subseteq Namespace
    /\ notes \in Seq([type : {"Added", "Deleted"}, ns : Namespace])
    /\ watch \in {"none", "alive", "lost"}
    /\ stage \in {"new", "creating", "started", "stopped"}
    /\ pausing \in {"no", "informers", "done"}
    /\ adding \in Namespace \union {None}
    /\ born \in [Namespace -> Nat]
    /\ \A n \in Namespace : VaryingInformers[n] \in {None, Failed} \union [ns : {n}, gen : Nat]
    /\ cancelForNs = IF stage \in {"started", "stopped"} THEN VaryingInformers
                     ELSE [n \in Namespace |-> None]
    /\ ResourceInformers \subseteq Informer
    /\ running \subseteq Informer /\ cancelled \subseteq Informer /\ paused \subseteq Informer
    /\ late \in Nat

\* An informer that was started and not cancelled is the one its namespace has
\* in the map, or a static one: no notification that comes twice, from the list
\* and from the watch or after a lost watch, leaves an informer that sends its
\* events beside another one and that nobody can cancel or pause.
NoOrphan ==
    \A i \in running \ cancelled :
        i \in ResourceInformers \/ (VaryingInformers[i.ns] = i /\ cancelForNs[i.ns] = i)

Watched == {i.ns : i \in running \ cancelled}
Broken == {n \in Namespace : VaryingInformers[n] = Failed}
Expected == ((matching \union missed) \ Broken)

Quiet ==
    /\ ByLabels /\ stage = "started" /\ pausing = "no"
    /\ Watching /\ notes = << >> /\ adding = None

\* When every notification has been handled the watched namespaces are those
\* that match, also after namespaces came, went and came again while the watch
\* was lost or informers were being made.  The exceptions are exact: a namespace
\* whose informers could not be made is not watched until it is deleted, and one
\* that left between the list of CreateInformers and that of Run stays watched.
QuietWatches == Quiet => Watched = Expected

\* The namespaces are watched in the end.
EventuallyWatched ==
    <>[](ByLabels /\ stage = "started" /\ pausing = "no" => Watched = Expected)

\* After PauseHandleEvents at most one more informer is started: that of the
\* namespace addFn was busy with.
AtMostOneLate == late <= 1

\* Stop lasts for selected namespaces: their informers end, also those of a
\* namespace that addFn was busy with or that the surviving namespace informer
\* reports later.
StopEndsVarying == <>[](stage = "stopped" => running \subseteq ResourceInformers)
==============================================================================
