--------------------------- MODULE MCShellOperator ---------------------------
(***************************************************************************)
(* Small sets of hooks for ShellOperator.                                  *)
(***************************************************************************)
EXTENDS ShellOperator

Kubernetes(q, allow, group, sync) ==
    [queue |-> q, allowFailure |-> allow, group |-> group, sync |-> sync, crontab |-> ""]
Schedule(q, allow, group, crontab) ==
    [queue |-> q, allowFailure |-> allow, group |-> group, sync |-> FALSE, crontab |-> crontab]

\* Hook a has a group of two bindings, one in the main queue and one in a queue
\* of its own.  Hook b runs at startup and has events in the main queue and a
\* schedule in the other, which may both fail.
GroupHooks == <<"a", "b">>
GroupStartup == <<"b">>
GroupHookConfig ==
    [a |-> [version |-> "v1", kubernetes |-> <<"a1", "a2">>, schedule |-> << >>],
     b |-> [version |-> "v1", kubernetes |-> <<"b1">>, schedule |-> <<"b2">>]]
GroupBindings ==
    [a1 |-> Kubernetes("main", FALSE, "g", TRUE),
     a2 |-> Kubernetes("side", FALSE, "g", TRUE),
     b1 |-> Kubernetes("main", TRUE, "", TRUE),
     b2 |-> Schedule("side", TRUE, "", "cron")]

\* One hook with two bindings in the main queue, of which one may fail.
MixedHooks == <<"a">>
MixedStartup == << >>
MixedHookConfig == [a |-> [version |-> "v1", kubernetes |-> <<"a1", "a2">>, schedule |-> << >>]]
MixedBindings ==
    [a1 |-> Kubernetes("main", FALSE, "", TRUE),
     a2 |-> Kubernetes("main", TRUE, "", TRUE)]
==============================================================================
