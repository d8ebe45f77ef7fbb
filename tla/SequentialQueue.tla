--------------------------- MODULE SequentialQueue ---------------------------
(***************************************************************************)
(* What a task queue of shell-operator promises to the code that adds      *)
(* tasks and to the hooks that are run from it, without goroutines, locks, *)
(* delays or polling: tasks wait in one line, only the head is ever run,   *)
(* a task that is not finished stays at the head, and a finished task is   *)
(* replaced, in one step, by the tasks it asks to run first.               *)
(* TaskQueue implements this specification; ShellOperator is built on it.  *)
(***************************************************************************)
EXTENDS Naturals, Sequences, SequencesExt

CONSTANTS Task,         \* the tasks there can be
          Nil,          \* no task
          MaxHead       \* how many tasks a finished task may put first

VARIABLES pending,      \* the tasks in the order they will run
          running,      \* the task the handler works on, or Nil
          stopped       \* no task will be started any more

qvars == <<pending, running, stopped>>

Init ==
    /\ pending = << >>
    /\ running = Nil
    /\ stopped = FALSE

\* A new task joins the end of the line.
Submit(t) ==
    /\ t \notin ToSet(pending)
    /\ pending' = Append(pending, t)
    /\ UNCHANGED <<running, stopped>>

\* The head, and nothing else, is given to the handler.
Begin ==
    /\ ~stopped
    /\ running = Nil
    /\ pending # << >>
    /\ running' = Head(pending)
    /\ UNCHANGED <<pending, stopped>>

\* The line without the first k tasks behind its head.
WithoutBehind(s, k) == <<Head(s)>> \o SubSeq(s, k + 2, Len(s))

\* The running task takes over the work of the k tasks that follow it.
Absorb(k) ==
    /\ running # Nil
    /\ k + 1 <= Len(pending)
    /\ pending' = WithoutBehind(pending, k)
    /\ UNCHANGED <<running, stopped>>

\* The task is not finished: it keeps its place and will be run again.
Retry ==
    /\ running # Nil
    /\ running' = Nil
    /\ UNCHANGED <<pending, stopped>>

\* The task is finished: it leaves the line, and the tasks of heads run next.
Finish(heads) ==
    /\ running # Nil
    /\ pending' = heads \o Tail(pending)
    /\ running' = Nil
    /\ UNCHANGED stopped

\* The queue stops; what is left in the line is given up.
Halt ==
    /\ ~stopped
    /\ stopped' = TRUE
    /\ running' = Nil
    /\ UNCHANGED pending

Next ==
    \/ \E t \in Task : Submit(t)
    \/ Begin
    \/ \E k \in 1..Len(pending) : Absorb(k)
    \/ Retry
    \/ \E heads \in BoundedSeq(Task, MaxHead) : Finish(heads)
    \/ Halt

Spec == Init /\ [][Next]_qvars
==============================================================================
