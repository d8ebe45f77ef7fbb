----------------------------- MODULE MCHookRuns -----------------------------
(* Instances of HookRuns: the configurations the hooks may print.          *)
EXTENDS HookRuns

MCHookNames == <<"a", "b">>
MCQueue == {"main", "q"}
MCUnparsable == {"", "61 * * * *", "a/b/c"}

V1(kube, sched) ==
    [configVersion |-> "v1"] @@ (IF kube = << >> THEN << >> ELSE [kubernetes |-> kube])
                             @@ (IF sched = << >> THEN << >> ELSE [schedule |-> sched])

Pods == [kind |-> "Pod", name |-> "pods"]
Maps == [kind |-> "ConfigMap", name |-> "maps"]
Minute == [crontab |-> "m"]

\* Two kubernetes bindings and a schedule in one group; the second binding only
\* defines a snapshot.
Grouped == V1(<<Pods @@ [group |-> "g", queue |-> "q"],
                Maps @@ [group |-> "g", executeHookOnEvent |-> << >>,
                         executeHookOnSynchronization |-> FALSE]>>,
              <<Minute @@ [group |-> "g", includeSnapshotsFrom |-> <<"maps">>]>>)

\* Includes across bindings, a schedule with more than its group, objects not kept.
Including == V1(<<Pods @@ [includeSnapshotsFrom |-> <<"maps", "pods">>, allowFailure |-> TRUE,
                           watchEvent |-> <<"Added">>, keepFullObjectsInMemory |-> FALSE],
                  Maps @@ [group |-> "g", queue |-> "q", waitForSynchronization |-> FALSE,
                           executeHookOnEvent |-> <<"Deleted">>, watchEvent |-> <<"Added">>]>>,
                <<Minute @@ [name |-> "s", group |-> "g", includeSnapshotsFrom |-> <<"pods">>,
                             queue |-> "q"],
                  Minute>>)

\* Bindings without names: the second asks for a snapshot, the first does not.
Unnamed == V1(<<[kind |-> "Pod"], Maps>>,
              <<[crontab |-> "m"], [crontab |-> "h", includeSnapshotsFrom |-> <<"maps">>]>>)

OldFashioned == [onStartup |-> 5, schedule |-> <<Minute>>,
                 onKubernetesEvent |-> <<[kind |-> "Pod"]>>]
OldEvents == [onKubernetesEvent |-> <<[kind |-> "Pod", event |-> <<"add", "delete">>]>>]

\* Configurations that are refused, each for a reason of its own.
Refused ==
    {[configVersion |-> "v2", onStartup |-> 1],
     [configVersion |-> "v0", onStartup |-> 1],
     [configVersion |-> Mistyped, onStartup |-> 1],
     [configVersion |-> "v1"],
     [configVersion |-> "v1", onStartup |-> Mistyped],
     [schedule |-> <<[crontab |-> "61 * * * *"]>>],
     [onKubernetesEvent |-> <<[event |-> <<"create">>]>>],
     V1(<<Pods @@ [fullObjectInSnapshot |-> TRUE]>>, << >>),
     V1(<<[name |-> "pods"]>>, << >>),
     V1(<<Pods @@ [includeSnapshotsFrom |-> <<"maps">>]>>, << >>),
     V1(<<Pods, Pods @@ [includeSnapshotsFrom |-> <<"pods">>]>>, << >>),
     V1(<<Pods @@ [executeHookOnEvent |-> <<"Created">>]>>, << >>),
     V1(<<Pods @@ [apiVersion |-> "a/b/c"]>>, << >>),
     V1(<<Pods @@ [nameSelector |-> {"x"}, fieldSelector |-> "metadata.name"]>>, << >>),
     V1(<<Pods>>, <<Minute @@ [includeSnapshotsFrom |-> Mistyped]>>)}

Simple == [configVersion |-> "v1", onStartup |-> 5, schedule |-> <<Minute>>]

MCPrinted ==
    [a |-> {Grouped, Including, Unnamed, OldFashioned} \union Refused, b |-> {Simple}]
MCPrintedV0 == [a |-> {OldEvents}, b |-> {Simple}]
==============================================================================
