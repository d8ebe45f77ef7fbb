-------------------------- MODULE HookConfiguration --------------------------
(***************************************************************************)
(* pkg/hook/hook_config.go and pkg/hook/config: what a hook prints for     *)
(* --config is checked against the schema of its version, converted and    *)
(* checked again.                                                          *)
(*                                                                         *)
(* A YAML object is a function with the keys that were written for its     *)
(* domain.  A value of a type the schema does not allow is Mistyped.       *)
(* Selectors count only as far as they can make a configuration invalid.   *)
(***************************************************************************)
EXTENDS Naturals, Sequences, SequencesExt, FiniteSets, Slices

CONSTANTS
    Mistyped,       \* a value whose type the schema forbids
    Unparsable,     \* the strings cron.Parse and the parsers of selectors refuse
    Nil             \* a field that was not given, a nil pointer

\* The value of a string that was not given.
Unset == ""

Get(o, k, default) == IF k \in DOMAIN o THEN o[k] ELSE default
WellTyped(o) == \A k \in DOMAIN o : o[k] # Mistyped

-----------------------------------------------------------------------------
(* Schemas.                                                                *)

\* An empty version is found, but there is no schema for it.
ConfigVersion(o) ==
    LET v == Get(o, "configVersion", "v0")
    IN IF v # Mistyped /\ v \in {"v0", "v1"} THEN v ELSE Nil

\* An object without additionalProperties.
Object(o, required, optional) ==
    /\ required \subseteq DOMAIN o
    /\ DOMAIN o \subseteq required \union optional
    /\ WellTyped(o)

\* An array that has at least one item if it is there.
Array(o, k, Item(_)) ==
    k \in DOMAIN o => o[k] # << >> /\ \A i \in DOMAIN o[k] : Item(o[k][i])

IsName(x) == TRUE

ScheduleSchema(o) ==
    /\ Object(o, {"crontab"}, {"name", "allowFailure", "includeSnapshotsFrom", "queue", "group"})
    /\ Array(o, "includeSnapshotsFrom", IsName)

\* The lists of events may be empty, the list of snapshots may not.
KubernetesSchema(o) ==
    /\ Object(o, {"kind"}, {"name", "apiVersion", "watchEvent", "executeHookOnEvent",
                            "includeSnapshotsFrom", "queue", "jqFilter", "group",
                            "keepFullObjectsInMemory", "allowFailure",
                            "executeHookOnSynchronization", "waitForSynchronization",
                            "resynchronizationPeriod", "nameSelector", "labelSelector",
                            "fieldSelector", "namespace"})
    /\ Array(o, "includeSnapshotsFrom", IsName)
    /\ \A k \in {"watchEvent", "executeHookOnEvent"} :
          ToSet(Get(o, k, << >>)) \subseteq {"Added", "Modified", "Deleted"}

SchemaV1(o) ==
    /\ Object(o, {"configVersion"}, {"onStartup", "schedule", "kubernetes"})
    /\ Cardinality(DOMAIN o) >= 2
    /\ Array(o, "schedule", ScheduleSchema)
    /\ Array(o, "kubernetes", KubernetesSchema)

\* The bindings of v0 may have any fields; those known are typed by Unmarshal.
SchemaV0(o) ==
    /\ Object(o, {}, {"onStartup", "schedule", "onKubernetesEvent"})
    /\ DOMAIN o # {}
    /\ \A k \in {"schedule", "onKubernetesEvent"} :
          \A i \in DOMAIN Get(o, k, << >>) : WellTyped(o[k][i])

-----------------------------------------------------------------------------
(* Conversion.                                                             *)

NameOr(o, default) == IF Get(o, "name", Unset) = Unset THEN default ELSE o.name
QueueOrMain(o) == IF Get(o, "queue", Unset) = Unset THEN "main" ELSE o.queue
AllowFailure(o) == Get(o, "allowFailure", FALSE)

\* Mutant: an empty list counts as a list that was not given.
WithEventTypesNonEmpty(types) ==
    IF types \in {Nil, << >>} THEN {"Added", "Modified", "Deleted"} ELSE ToSet(types)

\* No list means every event, an empty list means none.
WithEventTypes(types) ==
    IF types = Nil THEN {"Added", "Modified", "Deleted"} ELSE ToSet(types)

ConvertKubernetesV1(o) ==
    [name |-> NameOr(o, "kubernetes"),
     group |-> Get(o, "group", Unset),
     queue |-> QueueOrMain(o),
     allowFailure |-> AllowFailure(o),
     include |-> Get(o, "includeSnapshotsFrom", << >>),
     events |-> WithEventTypes(Get(o, "executeHookOnEvent", Get(o, "watchEvent", Nil))),
     sync |-> Get(o, "executeHookOnSynchronization", TRUE),
     wait |-> Get(o, "waitForSynchronization", TRUE) \/ Get(o, "queue", Unset) = Unset,
     full |-> Get(o, "keepFullObjectsInMemory", TRUE),
     mode |-> Unset]

EventV0 == [add |-> "Added", update |-> "Modified", delete |-> "Deleted"]

\* What the conversion does not set keeps the zero value of its type.
ConvertKubernetesV0(o) ==
    LET names == Get(o, "event", << >>)
    IN [name |-> NameOr(o, "onKubernetesEvent"), group |-> Unset, queue |-> "main",
        allowFailure |-> AllowFailure(o), include |-> << >>,
        events |-> WithEventTypes([i \in DOMAIN names |-> EventV0[names[i]]]),
        sync |-> FALSE, wait |-> FALSE, full |-> FALSE, mode |-> "v0"]

ConvertScheduleV1(o) ==
    [name |-> NameOr(o, "schedule"), crontab |-> o.crontab, group |-> Get(o, "group", Unset),
     queue |-> QueueOrMain(o), allowFailure |-> AllowFailure(o),
     include |-> Get(o, "includeSnapshotsFrom", << >>)]

ConvertScheduleV0(o) ==
    [name |-> NameOr(o, "schedule"), crontab |-> o.crontab, group |-> Unset,
     queue |-> "main", allowFailure |-> AllowFailure(o), include |-> << >>]

\* a1 and what a2 has besides, every name of it once.
MergeArrays(a1, a2) ==
    a1 \o Keep(a2, {i \in DOMAIN a2 : /\ a2[i] \notin ToSet(a1)
                                     /\ \A j \in 1..(i - 1) : a2[j] # a2[i]})

\* The names of the kubernetes bindings in a group.
GroupSnapshots(kube, g) ==
    LET members == Keep(kube, {i \in DOMAIN kube : kube[i].group = g /\ g # Unset})
    IN [i \in DOMAIN members |-> members[i].name]

\* Mutant: schedules get the snapshots of their group only if they ask for none.
WithGroupSnapshotsOrOwn(bindings, kube) ==
    [i \in DOMAIN bindings |->
        IF bindings[i].include # << >> THEN bindings[i]
        ELSE [bindings[i] EXCEPT !.include = GroupSnapshots(kube, bindings[i].group)]]

WithGroupSnapshots(bindings, kube) ==
    [i \in DOMAIN bindings |->
        [bindings[i] EXCEPT !.include = MergeArrays(@, GroupSnapshots(kube, bindings[i].group))]]

Converted(o, k, Convert(_)) ==
    LET items == Get(o, k, << >>) IN [i \in DOMAIN items |-> Convert(items[i])]

ConvertV0(o) ==
    [version |-> "v0",
     onStartup |-> Get(o, "onStartup", Nil),
     schedule |-> Converted(o, "schedule", ConvertScheduleV0),
     kubernetes |-> Converted(o, "onKubernetesEvent", ConvertKubernetesV0)]

ConvertV1(o) ==
    LET kube == Converted(o, "kubernetes", ConvertKubernetesV1)
    IN [version |-> "v1",
        onStartup |-> Get(o, "onStartup", Nil),
        schedule |-> WithGroupSnapshots(Converted(o, "schedule", ConvertScheduleV1), kube),
        kubernetes |-> WithGroupSnapshots(kube, kube)]

HasBinding(c, kind) == IF kind = "onStartup" THEN c.onStartup # Nil ELSE c[kind] # << >>

-----------------------------------------------------------------------------
(* Checks a schema cannot express.                                         *)

\* Every name is the name of one kubernetes binding and of no second one.
CheckIncludeSnapshots(names, kube) ==
    \A i \in DOMAIN names : Cardinality({j \in DOMAIN kube : kube[j].name = names[i]}) = 1

CheckSchedule(o) == Get(o, "crontab", Unset) \notin Unparsable

CheckOnKubernetesEventV1(o) ==
    /\ \A k \in {"apiVersion", "labelSelector", "fieldSelector"} \intersect DOMAIN o :
          o[k] = Unset \/ o[k] \notin Unparsable
    /\ ~(Get(o, "nameSelector", {}) # {} /\ Get(o, "fieldSelector", Unset) = "metadata.name")

CheckV0(o) ==
    /\ \A i \in DOMAIN Get(o, "schedule", << >>) : CheckSchedule(o.schedule[i])
    /\ \A i \in DOMAIN Get(o, "onKubernetesEvent", << >>) :
          ToSet(Get(o.onKubernetesEvent[i], "event", << >>)) \subseteq DOMAIN EventV0

CheckV1(o) ==
    LET kube == Converted(o, "kubernetes", ConvertKubernetesV1)
        schedules == Converted(o, "schedule", ConvertScheduleV1)
    IN /\ \A i \in DOMAIN kube : /\ CheckOnKubernetesEventV1(o.kubernetes[i])
                                 /\ CheckIncludeSnapshots(kube[i].include, kube)
       /\ \A i \in DOMAIN schedules : /\ CheckSchedule(o.schedule[i])
                                      /\ CheckIncludeSnapshots(schedules[i].include, kube)

\* LoadAndValidate succeeds, and ...
Accepted(o) ==
    CASE ConfigVersion(o) = "v0" -> SchemaV0(o) /\ CheckV0(o)
      [] ConfigVersion(o) = "v1" -> SchemaV1(o) /\ CheckV1(o)
      [] OTHER -> FALSE

\* ... yields this configuration.
LoadAndValidate(o) == IF ConfigVersion(o) = "v0" THEN ConvertV0(o) ELSE ConvertV1(o)
==============================================================================
