--------------------------- MODULE ScheduleManager ---------------------------
(***************************************************************************)
(* pkg/schedule_manager: one cron function per crontab, shared by all the  *)
(* bindings (ids) that use the crontab, and the channel of capacity one    *)
(* into which the functions send.  The cron library is external: it knows  *)
(* functions by EntryID and runs each one in a goroutine of its own, which *)
(* waits while the channel is full.                                        *)
(***************************************************************************)
EXTENDS Naturals, Sequences, FiniteSets

CONSTANTS
    Id,             \* the ids of the schedule entries
    CrontabOf,      \* the crontab of every id
    Reuse,          \* is a crontab used again when its last id was removed?
    MaxFires        \* bound: how often one crontab fires

Crontab == {CrontabOf[i] : i \in Id}

ASSUME ScheduleManagerAssumption ==
    /\ IsFiniteSet(Id)
    /\ DOMAIN CrontabOf = Id
    /\ Reuse \in BOOLEAN
    /\ MaxFires \in Nat

VARIABLES
    entries,        \* Entries: crontab -> EntryID and Ids
    cron,           \* EntryID -> crontab, for the functions the library runs
    lastEntry,      \* the last EntryID the library gave away
    running,        \* cron.Start was called and cron.Stop was not
    started,        \* Start was called
    cancelled,      \* ctx.Done() is closed
    jobs,           \* goroutines of the functions that wait to send
    ScheduleCh,
    fired, received \* history: how often a crontab fired and was received

table == <<entries, cron, lastEntry>>
traffic == <<jobs, ScheduleCh, fired, received>>
vars == <<entries, cron, lastEntry, running, started, cancelled, jobs, ScheduleCh,
          fired, received>>

None == [c \in {} |-> 0]
With(f, x, y) == [k \in DOMAIN f \union {x} |-> IF k = x THEN y ELSE f[k]]
Without(f, x) == [k \in DOMAIN f \ {x} |-> f[k]]

Init ==
    /\ entries = None /\ cron = None /\ lastEntry = 0
    /\ running = FALSE /\ started = FALSE /\ cancelled = FALSE
    /\ jobs = [c \in Crontab |-> 0]
    /\ ScheduleCh = << >>
    /\ fired = [c \in Crontab |-> 0]
    /\ received = [c \in Crontab |-> 0]

\* Does the environment still use this crontab?
MayAdd(id) ==
    LET c == CrontabOf[id]
    IN (~Reuse /\ c \in DOMAIN entries) => entries[c].ids # {}

\* Mutant: the EntryID is not kept.
AddForgetsEntryID(id) ==
    LET c == CrontabOf[id]
    IN /\ MayAdd(id)
       /\ c \notin DOMAIN entries
       /\ cron' = With(cron, lastEntry + 1, c)
       /\ lastEntry' = lastEntry + 1
       /\ entries' = With(entries, c, [entry |-> 0, ids |-> {id}])
       /\ UNCHANGED <<running, started, cancelled, traffic>>

Add(id) ==
    LET c == CrontabOf[id]
    IN /\ MayAdd(id)
       /\ \/ /\ c \notin DOMAIN entries
             /\ cron' = With(cron, lastEntry + 1, c)
             /\ lastEntry' = lastEntry + 1
             /\ entries' = With(entries, c, [entry |-> lastEntry + 1, ids |-> {id}])
          \/ /\ c \in DOMAIN entries
             /\ entries' = [entries EXCEPT ![c].ids = @ \union {id}]
             /\ UNCHANGED <<cron, lastEntry>>
       /\ UNCHANGED <<running, started, cancelled, traffic>>

\* Mutant: the function is never removed.
RemoveIdOnly(id) ==
    LET c == CrontabOf[id]
    IN /\ c \in DOMAIN entries
       /\ id \in entries[c].ids
       /\ entries' = [entries EXCEPT ![c].ids = @ \ {id}]
       /\ UNCHANGED <<cron, lastEntry, running, started, cancelled, traffic>>

\* The last id takes the function with it; the entry stays, without ids.
Remove(id) ==
    LET c == CrontabOf[id]
    IN /\ c \in DOMAIN entries
       /\ id \in entries[c].ids
       /\ entries' = [entries EXCEPT ![c].ids = @ \ {id}]
       /\ cron' = IF entries[c].ids = {id} THEN Without(cron, entries[c].entry) ELSE cron
       /\ UNCHANGED <<lastEntry, running, started, cancelled, traffic>>

\* cron.Start, and the goroutine that waits for the context.
Start ==
    /\ ~started
    /\ started' = TRUE
    /\ running' = TRUE
    /\ UNCHANGED <<table, cancelled, traffic>>

Stop ==
    /\ ~cancelled
    /\ cancelled' = TRUE
    /\ UNCHANGED <<table, running, started, traffic>>

StopCron ==
    /\ running /\ cancelled
    /\ running' = FALSE
    /\ UNCHANGED <<table, started, cancelled, traffic>>

\* The library runs a function: a goroutine of its own.
Fire(e) ==
    /\ running
    /\ fired[cron[e]] < MaxFires
    /\ fired' = [fired EXCEPT ![cron[e]] = @ + 1]
    /\ jobs' = [jobs EXCEPT ![cron[e]] = @ + 1]
    /\ UNCHANGED <<table, running, started, cancelled, ScheduleCh, received>>

\* Mutant: a function that finds the channel full gives up.
SendOrDrop(c) ==
    /\ jobs[c] > 0
    /\ ScheduleCh' = IF ScheduleCh = << >> THEN <<c>> ELSE ScheduleCh
    /\ jobs' = [jobs EXCEPT ![c] = @ - 1]
    /\ UNCHANGED <<table, running, started, cancelled, fired, received>>

Send(c) ==
    /\ jobs[c] > 0
    /\ ScheduleCh = << >>
    /\ ScheduleCh' = <<c>>
    /\ jobs' = [jobs EXCEPT ![c] = @ - 1]
    /\ UNCHANGED <<table, running, started, cancelled, fired, received>>

\* The events handler, at the other end of the channel.
Receive ==
    /\ ScheduleCh # << >>
    /\ received' = [received EXCEPT ![Head(ScheduleCh)] = @ + 1]
    /\ ScheduleCh' = Tail(ScheduleCh)
    /\ UNCHANGED <<table, running, started, cancelled, jobs, fired>>

Next ==
    \/ \E i \in Id : Add(i) \/ Remove(i)
    \/ Start \/ Stop \/ StopCron
    \/ \E e \in DOMAIN cron : Fire(e)
    \/ \E c \in Crontab : Send(c)
    \/ Receive

Spec == Init /\ [][Next]_vars

\* Goroutines go on; senders that wait for a channel are served in turn.
FairSpec ==
    /\ Spec
    /\ WF_vars(Receive)
    /\ \A c \in Crontab : SF_vars(Send(c))

-----------------------------------------------------------------------------
(* Properties.                                                             *)

\* Entries has known ids and an EntryID that the library gave away, so that
\* Remove names a function, and the channel holds at most one crontab.
TypeOK ==
    /\ DOMAIN entries \subseteq Crontab
    /\ \A c \in DOMAIN entries : entries[c].ids \subseteq Id /\ entries[c].entry \in 1..lastEntry
    /\ lastEntry \in Nat
    /\ DOMAIN cron \subseteq 1..lastEntry
    /\ \A e \in DOMAIN cron : cron[e] \in Crontab
    /\ jobs \in [Crontab -> 0..MaxFires]
    /\ Len(ScheduleCh) <= 1

Ids(c) == IF c \in DOMAIN entries THEN entries[c].ids ELSE {}
Functions(c) == {e \in DOMAIN cron : cron[e] = c}

\* However ids that share a crontab come and go, the crontab has one function
\* as long as an id is there ("Add create entry for crontab and id and start
\* scheduled function"), so that its bindings are run once per tick, and none
\* when all ids are deleted.
OneFunction ==
    \A c \in Crontab : Cardinality(Functions(c)) = IF Ids(c) = {} THEN 0 ELSE 1

\* Every fire of a crontab is received, also when the channel is full at the
\* moment and when the id is removed or the manager stopped meanwhile.
EveryFireReceived ==
    \A c \in Crontab : \A n \in 1..MaxFires : fired[c] >= n ~> received[c] >= n
==============================================================================
