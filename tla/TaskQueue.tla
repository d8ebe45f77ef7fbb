------------------------------ MODULE TaskQueue ------------------------------
(***************************************************************************)
(* One TaskQueue (pkg/task/queue/task_queue.go): the slice of tasks, the   *)
(* goroutine that Start launches, the cancellation of its context, and the *)
(* goroutines that add and remove tasks while it works.                    *)
(*                                                                         *)
(* Every step under the lock q.m is one action, so that the other          *)
(* goroutines interleave wherever the code lets go of it: between IsEmpty  *)
(* and GetFirst, between the handler's return and the end of its result,   *)
(* and inside AddAfter, which takes no lock at all.                        *)
(*                                                                         *)
(* Tasks are named by numbers, in the order they are created.  Delays are  *)
(* reduced to "sleep" or "do not sleep".                                   *)
(***************************************************************************)
EXTENDS Naturals, Sequences, SequencesExt

CONSTANTS
    ClientOps,      \* the operations other goroutines call on the queue
    MaxTasks,       \* bound: tasks created in one behaviour
    MaxHead,        \* bound: HeadTasks of one result
    MaxTail,        \* bound: TailTasks of one result
    MaxAfter,       \* bound: AfterTasks of one result
    MaxFailures     \* the failure counter is not told apart above this

AllClientOps == {"AddFirst", "AddLast", "RemoveFirst", "RemoveLast", "Remove"}

ASSUME TaskQueueAssumption ==
    /\ ClientOps \subseteq AllClientOps
    /\ MaxTasks \in Nat
    /\ MaxHead \in Nat
    /\ MaxTail \in Nat
    /\ MaxAfter \in Nat
    /\ MaxFailures \in Nat

Nil == 0

VARIABLES
    items,          \* q.items
    pc,             \* where the goroutine of Start is
    sleepDelay,     \* is a delay due before the next task?
    cur,            \* the task being handled or due for a retry, or Nil
    res,            \* the parts of the TaskResult that are still to be applied
    newItems,       \* the slice AddAfter builds without holding a lock
    failureCount,   \* GetFailureCount of every task
    cancelled,      \* ctx.Done() is closed
    nextId,         \* the last task created
    done, merged, taken, \* history: finished, combined, removed by a client
    late            \* history: handler calls begun after the cancellation

qstate == <<items, newItems, failureCount, nextId>>
history == <<done, merged, taken, late>>
vars == <<items, pc, sleepDelay, cur, res, newItems, failureCount, cancelled,
          nextId, done, merged, taken, late>>

NoResult == [after |-> << >>, tail |-> << >>, head |-> << >>, delay |-> FALSE]

Init ==
    /\ items = << >>
    /\ pc = "new"
    /\ sleepDelay = FALSE
    /\ cur = Nil
    /\ res = NoResult
    /\ newItems = << >>
    /\ failureCount = [t \in 1..MaxTasks |-> 0]
    /\ cancelled = FALSE
    /\ nextId = 0
    /\ done = {} /\ merged = {} /\ taken = {}
    /\ late = 0

-----------------------------------------------------------------------------
(* Other goroutines.  Each operation is one critical section of q.m.       *)

AddFirst ==
    /\ nextId < MaxTasks
    /\ nextId' = nextId + 1
    /\ items' = <<nextId + 1>> \o items
    /\ UNCHANGED <<pc, sleepDelay, cur, res, newItems, failureCount, cancelled, history>>

\* Mutant: the new task is put before the one at work.
AddLastAtHead ==
    /\ nextId < MaxTasks
    /\ nextId' = nextId + 1
    /\ items' = <<nextId + 1>> \o items
    /\ UNCHANGED <<pc, sleepDelay, cur, res, newItems, failureCount, cancelled, history>>

AddLast ==
    /\ nextId < MaxTasks
    /\ nextId' = nextId + 1
    /\ items' = Append(items, nextId + 1)
    /\ UNCHANGED <<pc, sleepDelay, cur, res, newItems, failureCount, cancelled, history>>

RemoveHead ==
    /\ items # << >>
    /\ items' = Tail(items)
    /\ taken' = taken \union {Head(items)}
    /\ UNCHANGED <<pc, sleepDelay, cur, res, newItems, failureCount, cancelled, nextId,
                   done, merged, late>>

RemoveLast ==
    /\ items # << >>
    /\ items' = Front(items)
    /\ taken' = taken \union {Last(items)}
    /\ UNCHANGED <<pc, sleepDelay, cur, res, newItems, failureCount, cancelled, nextId,
                   done, merged, late>>

\* The loop of Remove reads the id of each element up to the one it looks for:
\* an element AddAfter left unset is a nil dereference.
RemovePanics(s, t) == \E i \in 1..Len(s) : s[i] = Nil /\ \A j \in 1..i : s[j] # t

RemoveById(t) ==
    /\ t \in ToSet(items)
    /\ ~RemovePanics(items, t)
    /\ items' = RemoveFirst(items, t)
    /\ taken' = taken \union {t}
    /\ UNCHANGED <<pc, sleepDelay, cur, res, newItems, failureCount, cancelled, nextId,
                   done, merged, late>>

\* Stop, or the cancellation of the context of the queue set.
Stop ==
    /\ ~cancelled
    /\ cancelled' = TRUE
    /\ UNCHANGED <<pc, sleepDelay, cur, res, qstate, history>>

Client ==
    \/ "AddFirst" \in ClientOps /\ AddFirst
    \/ "AddLast" \in ClientOps /\ AddLast
    \/ "RemoveFirst" \in ClientOps /\ RemoveHead
    \/ "RemoveLast" \in ClientOps /\ RemoveLast
    \/ "Remove" \in ClientOps /\ \E t \in 1..MaxTasks : RemoveById(t)

-----------------------------------------------------------------------------
(* The goroutine of Start: waiting for a task.                             *)

Start ==
    /\ pc = "new"
    /\ pc' = "wait"
    /\ UNCHANGED <<sleepDelay, cur, res, cancelled, qstate, history>>

\* waitForTask looks at the context once, before its loop.
EnterWait ==
    /\ pc = "wait"
    /\ pc' = IF cancelled THEN "stopped" ELSE "poll"
    /\ UNCHANGED <<sleepDelay, cur, res, cancelled, qstate, history>>

\* Mutant: the loop does not ask whether the queue is empty.
PollAnyway ==
    /\ pc = "poll"
    /\ pc' = IF ~sleepDelay THEN "get" ELSE "sleep"
    /\ UNCHANGED <<sleepDelay, cur, res, cancelled, qstate, history>>

\* The IsEmpty test of the loop.  GetFirst takes the lock anew.
Poll ==
    /\ pc = "poll"
    /\ pc' = IF items # << >> /\ ~sleepDelay THEN "get" ELSE "sleep"
    /\ UNCHANGED <<sleepDelay, cur, res, cancelled, qstate, history>>

\* Mutant: the delay is never cleared.
SleepOverAgain ==
    /\ pc = "sleep"
    /\ pc' = "poll"
    /\ UNCHANGED <<sleepDelay, cur, res, cancelled, qstate, history>>

\* select: the delay ticker ...
SleepOver ==
    /\ pc = "sleep"
    /\ sleepDelay' = FALSE
    /\ pc' = "poll"
    /\ UNCHANGED <<cur, res, cancelled, qstate, history>>

\* Mutant: select without the case for the Done channel.
SleepDeaf ==
    /\ pc = "sleep"
    /\ cancelled
    /\ UNCHANGED vars

\* ... or the closed Done channel, in any order when both are ready.
SleepCancelled ==
    /\ pc = "sleep"
    /\ cancelled
    /\ pc' = "stopped"
    /\ UNCHANGED <<sleepDelay, cur, res, cancelled, qstate, history>>

GetFirst(s) == IF s = << >> THEN Nil ELSE s[1]

\* Mutant: the loop of Start gives the handler whatever GetFirst returns.
GetHeadUnchecked ==
    /\ pc = "get"
    /\ pc' = "handle"
    /\ cur' = GetFirst(items)
    /\ late' = IF cancelled THEN late + 1 ELSE late
    /\ UNCHANGED <<sleepDelay, res, cancelled, qstate, done, merged, taken>>

\* The loop of Start takes a nil task for a cancelled context.
GetHead ==
    /\ pc = "get"
    /\ \/ /\ GetFirst(items) = Nil
          /\ pc' = "stopped"
          /\ UNCHANGED <<cur, late>>
       \/ /\ GetFirst(items) # Nil
          /\ pc' = "handle"
          /\ cur' = GetFirst(items)
          /\ late' = IF cancelled THEN late + 1 ELSE late
    /\ UNCHANGED <<sleepDelay, res, cancelled, qstate, done, merged, taken>>

-----------------------------------------------------------------------------
(* The handler, and what the loop does with its result.                    *)

\* Mutant: the tasks behind the head are deleted with the one after them.
CombineTooMany(k) ==
    /\ pc = "handle"
    /\ k + 1 <= Len(items)
    /\ items[1] = cur
    /\ Nil \notin ToSet(items)
    /\ merged' = merged \union ToSet(SubSeq(items, 2, k + 1))
    /\ items' = <<items[1]>> \o SubSeq(items, k + 3, Len(items))
    /\ UNCHANGED <<pc, sleepDelay, cur, res, newItems, failureCount, cancelled, nextId,
                   done, taken, late>>

\* While it runs, the handler may combine the k tasks behind its own into it:
\* Filter removes them from the queue.
Combine(k) ==
    /\ pc = "handle"
    /\ k + 1 <= Len(items)
    /\ items[1] = cur
    /\ Nil \notin ToSet(items)
    /\ merged' = merged \union ToSet(SubSeq(items, 2, k + 1))
    /\ items' = <<items[1]>> \o SubSeq(items, k + 2, Len(items))
    /\ UNCHANGED <<pc, sleepDelay, cur, res, newItems, failureCount, cancelled, nextId,
                   done, taken, late>>

\* Mutant: the context is not looked at when the handler has returned.
HandlerReturnsUnchecked ==
    /\ pc = "handle"
    /\ cancelled
    /\ pc' = "poll"
    /\ UNCHANGED <<sleepDelay, cur, res, cancelled, qstate, history>>

\* The Done channel is looked at when the handler has returned, before its
\* result: the result is dropped and the task stays in the queue.
HandlerReturnsLate ==
    /\ pc = "handle"
    /\ cancelled
    /\ pc' = "stopped"
    /\ UNCHANGED <<sleepDelay, cur, res, cancelled, qstate, history>>

HandlerFails ==
    /\ pc = "handle"
    /\ ~cancelled
    /\ failureCount' = [failureCount EXCEPT ![cur] = IF @ < MaxFailures THEN @ + 1 ELSE @]
    /\ sleepDelay' = TRUE
    /\ pc' = "wait"
    /\ UNCHANGED <<items, cur, res, newItems, cancelled, nextId, history>>

HandlerRepeats ==
    /\ pc = "handle"
    /\ ~cancelled
    /\ sleepDelay' = TRUE
    /\ pc' = "wait"
    /\ UNCHANGED <<cur, res, cancelled, qstate, history>>

\* n new tasks, created after the first ones.
NewTasks(first, n) == [i \in 1..n |-> first + i]

HandlerSucceeds(a, l, h, delay) ==
    /\ pc = "handle"
    /\ ~cancelled
    /\ nextId + a + l + h <= MaxTasks
    /\ nextId' = nextId + a + l + h
    /\ res' = [after |-> NewTasks(nextId, a),
               tail |-> NewTasks(nextId + a, l),
               head |-> NewTasks(nextId + a + l, h),
               delay |-> delay]
    /\ pc' = "apply"
    /\ UNCHANGED <<items, sleepDelay, cur, newItems, failureCount, cancelled, history>>

\* The position of the task the loop of AddAfter looks for, 0 if there is none.
IndexOf(s, t) == SelectInSeq(s, LAMBDA v : v = t)

\* AddAfter(cur, t), the last of the AfterTasks first: the length of the new
\* slice, the copy and the assignment are three looks at q.items without a lock.
AfterMake ==
    /\ pc = "apply"
    /\ res.after # << >>
    /\ newItems' = [i \in 1..(Len(items) + 1) |-> Nil]
    /\ pc' = "copy"
    /\ UNCHANGED <<items, sleepDelay, cur, res, failureCount, cancelled, nextId, history>>

AfterCopy ==
    /\ pc = "copy"
    /\ LET k == IndexOf(items, cur)
           copied == IF k = 0 THEN items ELSE InsertAt(items, k + 1, Last(res.after))
       IN \/ /\ RemovePanics(items, cur) \/ Len(copied) > Len(newItems)
             /\ pc' = "crashed"
             /\ UNCHANGED newItems
          \/ /\ ~RemovePanics(items, cur) /\ Len(copied) <= Len(newItems)
             /\ newItems' = [i \in 1..Len(newItems) |->
                                IF i <= Len(copied) THEN copied[i] ELSE Nil]
             /\ pc' = "assign"
    /\ UNCHANGED <<items, sleepDelay, cur, res, failureCount, cancelled, nextId, history>>

AfterAssign ==
    /\ pc = "assign"
    /\ items' = newItems
    /\ res' = [res EXCEPT !.after = Front(@)]
    /\ pc' = "apply"
    /\ UNCHANGED <<sleepDelay, cur, newItems, failureCount, cancelled, nextId, history>>

ApplyTail ==
    /\ pc = "apply"
    /\ res.after = << >>
    /\ res.tail # << >>
    /\ items' = Append(items, Head(res.tail))
    /\ res' = [res EXCEPT !.tail = Tail(@)]
    /\ UNCHANGED <<pc, sleepDelay, cur, newItems, failureCount, cancelled, nextId, history>>

\* Mutant: the finished task is not taken out of the slice.
ApplyWithoutRemove ==
    /\ pc = "apply"
    /\ res.after = << >>
    /\ res.tail = << >>
    /\ done' = done \union {cur}
    /\ cur' = Nil
    /\ pc' = "push"
    /\ UNCHANGED <<items, sleepDelay, res, newItems, failureCount, cancelled, nextId,
                   merged, taken, late>>

\* Under HeadLock, which no other goroutine takes: Remove ...
ApplyRemove ==
    /\ pc = "apply"
    /\ res.after = << >>
    /\ res.tail = << >>
    /\ \/ /\ RemovePanics(items, cur)
          /\ pc' = "crashed"
          /\ UNCHANGED <<items, cur, done>>
       \/ /\ ~RemovePanics(items, cur)
          /\ items' = RemoveFirst(items, cur)
          /\ done' = done \union {cur}
          /\ cur' = Nil
          /\ pc' = "push"
    /\ UNCHANGED <<sleepDelay, res, newItems, failureCount, cancelled, nextId,
                   merged, taken, late>>

\* Mutant: the HeadTasks are put at the end.
ApplyHeadAtTail ==
    /\ pc = "push"
    /\ res.head # << >>
    /\ items' = Append(items, Head(res.head))
    /\ res' = [res EXCEPT !.head = Tail(@)]
    /\ UNCHANGED <<pc, sleepDelay, cur, newItems, failureCount, cancelled, nextId, history>>

\* ... and AddFirst for each of the HeadTasks, in their order.
ApplyHead ==
    /\ pc = "push"
    /\ res.head # << >>
    /\ items' = <<Head(res.head)>> \o items
    /\ res' = [res EXCEPT !.head = Tail(@)]
    /\ UNCHANGED <<pc, sleepDelay, cur, newItems, failureCount, cancelled, nextId, history>>

ResultApplied ==
    /\ pc = "push"
    /\ res.head = << >>
    /\ sleepDelay' = res.delay
    /\ res' = NoResult
    /\ pc' = "wait"
    /\ UNCHANGED <<cur, cancelled, qstate, history>>

Success ==
    \E a \in 0..MaxAfter, l \in 0..MaxTail, h \in 0..MaxHead, delay \in BOOLEAN :
        HandlerSucceeds(a, l, h, delay)

HandlerReturns == HandlerReturnsLate \/ HandlerFails \/ HandlerRepeats \/ Success

Apply == AfterMake \/ AfterCopy \/ AfterAssign \/ ApplyTail \/ ApplyRemove
            \/ ApplyHead \/ ResultApplied

Worker == Start \/ EnterWait \/ Poll \/ SleepOver \/ SleepCancelled \/ GetHead
            \/ HandlerReturns \/ Apply

Next ==
    \/ Client
    \/ Stop
    \/ Worker
    \/ \E k \in 1..MaxTasks : Combine(k)

Spec == Init /\ [][Next]_vars

\* The goroutine is scheduled, a handler call returns and does not fail for
\* ever, and the select in waitForTask does not ignore a closed channel for ever.
FairSpec ==
    /\ Spec
    /\ WF_vars(Worker)
    /\ SF_vars(Success)
    /\ SF_vars(SleepCancelled)

-----------------------------------------------------------------------------
(* Properties.                                                             *)

Places == {"new", "wait", "poll", "sleep", "get", "handle", "apply", "copy",
           "assign", "push", "stopped", "crashed"}

\* Every variable keeps its type, and the handler is called with a task, never with
\* nil, although another goroutine may empty the queue between IsEmpty and GetFirst
\* and AddAfter leaves unset elements behind.
TypeOK ==
    /\ items \in Seq(0..MaxTasks)
    /\ pc \in Places
    /\ sleepDelay \in BOOLEAN
    /\ cur \in 0..MaxTasks
    /\ res \in [after : Seq(1..MaxTasks), tail : Seq(1..MaxTasks),
                head : Seq(1..MaxTasks), delay : BOOLEAN]
    /\ newItems \in Seq(0..MaxTasks)
    /\ failureCount \in [1..MaxTasks -> 0..MaxFailures]
    /\ cancelled \in BOOLEAN
    /\ nextId \in 0..MaxTasks
    /\ done \subseteq 1..MaxTasks
    /\ merged \subseteq 1..MaxTasks
    /\ taken \subseteq 0..MaxTasks
    /\ late \in Nat
    /\ pc \in {"handle", "apply", "copy", "assign"} => cur # Nil

\* Tasks of a result that are not in the slice yet.
Undelivered == ToSet(res.after) \union ToSet(res.tail) \union ToSet(res.head)

Ended == done \union merged \union taken

\* "Each task is executed until success": a task that was handed to the queue
\* is in the slice, in a result being applied, finished, combined into another
\* task, or removed on request.  No interleaving makes it vanish.
NothingLost ==
    pc # "crashed" => 1..nextId \subseteq ToSet(items) \union Undelivered \union Ended

\* No interleaving lets a task be in the slice twice, or come back into it
\* after it was finished, combined or removed: it would be executed again.
NothingTwice ==
    /\ \A i, j \in 1..Len(items) : i # j => items[i] # items[j]
    /\ ToSet(items) \cap (Undelivered \union Ended) = {}

\* The task that is handled, or that failed and is due for a retry, is at the
\* head of the slice: whatever is added meanwhile, the next task handled is the
\* failed one, and it blocks the tasks behind it until it succeeds.
HeadBlocks == (cur # Nil /\ pc # "crashed") => GetFirst(items) = cur

\* The goroutine ends only when the context was cancelled: waitForTask returns
\* "a task that can be processed or a nil if context is canceled".
EndsOnlyWhenCancelled == pc = "stopped" => cancelled

\* Stop lets the goroutine begin at most one more handler call: the one it was
\* about to begin, or one that the ticker lets through.
AtMostOneLateCall == late <= 1

\* Every task in the slice is finished or combined in the end, unless the
\* queue is stopped first.
EveryTaskFinishes ==
    \A t \in 1..MaxTasks : t \in ToSet(items) ~> (t \in done \union merged \/ cancelled)

\* Stop ends the goroutine: WaitStopWithTimeout finds it in status "stop".
StopEnds == cancelled ~> pc = "stopped"

-----------------------------------------------------------------------------
(* TaskQueue implements SequentialQueue when, as in shell-operator, other  *)
(* goroutines only call AddLast and no result has AfterTasks.              *)

SafeUse == ClientOps \subseteq {"AddLast"} /\ MaxAfter = 0

Executor == INSTANCE SequentialQueue WITH
    Task <- 1..MaxTasks,
    pending <- IF pc = "push" THEN Reverse(res.head) \o items ELSE items,
    running <- IF pc \in {"handle", "apply", "copy", "assign"} THEN cur ELSE Nil,
    stopped <- pc = "stopped"

\* The steps a result is applied in look like one step to everybody else.
ImplementsSequentialQueue == Executor!Init /\ [][Executor!Next]_(Executor!qvars)
=============================================================================
