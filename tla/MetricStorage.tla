---------------------------- MODULE MetricStorage ----------------------------
(***************************************************************************)
(* pkg/metric_storage: metrics that hooks write into their metrics file    *)
(* and that TaskHandleHookRun hands to SendBatch, together with the        *)
(* metrics of the operator about the run.  Workers of several queues call  *)
(* it at once.  Metrics without a group live in vectors of the Prometheus  *)
(* library, registered at first use; metrics with a group live in the      *)
(* collectors of GroupedVault and vanish with their group.                 *)
(*                                                                         *)
(* A value is a number of halves, so that the cut to uint64 in a grouped   *)
(* counter shows.  Labels are functions from label names to values.        *)
(* Buckets, help texts, the prefix of names and the label "binding" of the *)
(* operator's metrics are left out.  Of the calls that TaskHandleHookRun   *)
(* makes for these metrics four are kept, the one whose metric nobody has  *)
(* registered and the three that count the run; the others take the same   *)
(* path to registered metrics.  Hooks and operator share one storage, as   *)
(* they do unless a port of their own is given to the metrics of hooks.    *)
(***************************************************************************)
EXTENDS Naturals, Sequences, FiniteSets, FiniteSetsExt

CONSTANTS
    Worker,         \* the workers of the queues
    HooksOf,        \* the hooks a worker runs
    AllowFailure,   \* the hooks whose failures are allowed
    Output,         \* the metrics files a hook may write: sequences of operations
    MaxRuns,        \* bound: hook runs altogether
    Nil, Nobody     \* a pointer or name not given; nobody holds a lock

Hook == UNION {HooksOf[w] : w \in Worker}

ASSUME MetricStorageAssumption ==
    /\ DOMAIN HooksOf = Worker /\ DOMAIN Output = Hook
    /\ \A h \in Hook : \A file \in Output[h] : Len(file) \in Nat /\ DOMAIN file = 1..Len(file)
    /\ MaxRuns \in Nat
    /\ Nobody \notin Worker

VARIABLES
    vecs,           \* Counters, Gauges and Histograms by metric name
    collectors,     \* GroupedVault.collectors by metric name
    mtx,            \* who holds GroupedVault.mtx
    work,           \* where each worker is in TaskHandleHookRun and SendBatch
    call,           \* the call of CounterAdd, GaugeSet, HistogramObserve at hand
    runs,           \* history: hook runs so far
    told,           \* history: what was added to a counter or histogram in all
    finished,       \* history: applications of a group that have ended
    gone,           \* history: those a later application has expired
    last            \* history: the last application of each group to end

storage == <<vecs, collectors, mtx>>
history == <<runs, told, finished, gone, last>>
vars == <<vecs, collectors, mtx, work, call, runs, told, finished, gone, last>>

Put(f, x, y) == [k \in DOMAIN f \union {x} |-> IF k = x THEN y ELSE f[k]]
Empty == [k \in {} |-> 0]

-----------------------------------------------------------------------------
(* Operations in a metrics file.                                           *)

Groups(ops) == {ops[i].group : i \in DOMAIN ops} \ {Nil}

\* Operations still to be applied are given by their positions.
OfGroup(ops, g) == {i \in DOMAIN ops : ops[i].group = g}
First(i, is) == i \in is /\ \A j \in is : i <= j

\* The shortcut transforms of MetricOperationsFromReader.
Decode(op) ==
    [op EXCEPT !.action = IF op.set # Nil /\ op.add = Nil THEN "set"
                          ELSE IF op.add # Nil /\ op.set = Nil THEN "add" ELSE @,
               !.value = IF op.set # Nil /\ op.add = Nil THEN op.set
                         ELSE IF op.add # Nil /\ op.set = Nil THEN op.add ELSE @]
MetricOperationsFromFile(file) == [i \in DOMAIN file |-> Decode(file[i])]

\* What is added to a counter is a number of halves or missing.  Validation lets
\* a negative number through, which is left out: CounterAdd panics and recovers,
\* and a grouped counter casts it to uint64.
ASSUME OutputAssumption ==
    \A h \in Hook : \A file \in Output[h] : \A i \in DOMAIN file :
        LET op == Decode(file[i]) IN op.action = "add" => op.value \in Nat \union {Nil}

ValidateMetricOperation(op) ==
    /\ op.action \in {"set", "add"} \union (IF op.group = Nil THEN {} ELSE {"expire"})
    /\ op.name = Nil => op.action = "expire"
    /\ op.action # "expire" => op.value # Nil
    /\ op.set = Nil \/ op.add = Nil
ValidateOperations(ops) == \A i \in DOMAIN ops : ValidateMetricOperation(ops[i])

\* The last map overrides the first.
MergeLabels(labels, common) ==
    [n \in DOMAIN labels \union DOMAIN common |->
        IF n \in DOMAIN common THEN common[n] ELSE labels[n]]
LabelValues(labels, names) ==
    [n \in names |-> IF n \in DOMAIN labels THEN labels[n] ELSE Nil]
HookLabel(h) == [hook |-> h]

-----------------------------------------------------------------------------
(* Vectors: metrics without a group.                                       *)

\* The registry refuses a second collector with the same name.
Registered == (UNION {DOMAIN vecs[k] : k \in DOMAIN vecs}) \union DOMAIN collectors

NoCall == [step |-> "none", kind |-> Nil, name |-> Nil, value |-> Nil, labels |-> Empty]
Call(kind, name, value, labels) ==
    [step |-> "lookup", kind |-> kind, name |-> name, value |-> value, labels |-> labels]

\* The metrics of the operator are registered before any worker starts.
RunLabels(w, h) == [hook |-> h, queue |-> w]
OwnVec == [names |-> {"hook", "queue"}, children |-> Empty]
OwnMetrics == [
    counter |-> {"hook_run_success_total", "hook_run_errors_total",
                 "hook_run_allowed_errors_total"},
    gauge |-> {"hook_run_max_rss_bytes"},
    histogram |-> {"hook_run_seconds", "hook_run_user_cpu_seconds", "hook_run_sys_cpu_seconds"}]

Idle == [stage |-> "idle", hook |-> Nil, run |-> 0, ops |-> << >>, groups |-> {}, group |-> Nil,
         left |-> {}, todo |-> {}, send |-> {}, alone |-> TRUE, expires |-> {}]

Init ==
    /\ vecs = [k \in DOMAIN OwnMetrics |-> [n \in OwnMetrics[k] |-> OwnVec]]
    /\ collectors = Empty
    /\ mtx = Nobody
    /\ work = [w \in Worker |-> Idle]
    /\ call = [w \in Worker |-> NoCall]
    /\ runs = 0
    /\ told = Empty
    /\ finished = {} /\ gone = {}
    /\ last = Empty

\* What is written so far to one time series of a vector, and told so far.
Child(v, labels) == IF labels \in DOMAIN v.children THEN v.children[labels] ELSE 0
Told(c) == LET key == <<c.kind, c.name, c.labels>>
           IN IF key \in DOMAIN told THEN told[key] ELSE 0
Tell(c) == told' = Put(told, <<c.kind, c.name, c.labels>>, Told(c) + c.value)

\* Counter, Gauge and Histogram look for the vector under the read lock.
Lookup(w) ==
    /\ call[w].step = "lookup"
    /\ call' = [call EXCEPT ![w].step = IF call[w].name \in DOMAIN vecs[call[w].kind]
                                        THEN "write" ELSE "register"]
    /\ UNCHANGED <<storage, work, history>>

\* Mutant: no second look under the write lock.
RegisterUnchecked(w) ==
    LET c == call[w] IN
    /\ c.step = "register"
    /\ vecs' = [vecs EXCEPT ![c.kind] =
                    Put(@, c.name, [names |-> DOMAIN c.labels, children |-> Empty])]
    /\ call' = [call EXCEPT ![w].step = "write"]
    /\ UNCHANGED <<collectors, mtx, work, history>>

\* RegisterCounter, RegisterGauge and RegisterHistogram look again under the
\* lock.  A name the registry has already is a panic, recovered twice: the
\* value is lost.
Register(w) ==
    LET c == call[w] IN
    /\ c.step = "register"
    /\ \/ /\ c.name \in DOMAIN vecs[c.kind]
          /\ call' = [call EXCEPT ![w].step = "write"]
          /\ UNCHANGED <<vecs, told>>
       \/ /\ c.name \notin Registered
          /\ vecs' = [vecs EXCEPT ![c.kind] =
                          Put(@, c.name, [names |-> DOMAIN c.labels, children |-> Empty])]
          /\ call' = [call EXCEPT ![w].step = "write"]
          /\ UNCHANGED told
       \/ /\ c.name \in Registered \ DOMAIN vecs[c.kind]
          /\ call' = [call EXCEPT ![w] = NoCall]
          /\ Tell(c)
          /\ UNCHANGED vecs
    /\ UNCHANGED <<collectors, mtx, work, runs, finished, gone, last>>

\* With panics, recovered, when the label names are not those of the vector.
Write(w) ==
    LET c == call[w]
        v == vecs[c.kind][c.name]
        new == IF c.kind = "gauge" THEN c.value ELSE Child(v, c.labels) + c.value
    IN /\ c.step = "write"
       /\ vecs' = IF DOMAIN c.labels = v.names
                  THEN [vecs EXCEPT ![c.kind][c.name].children = Put(@, c.labels, new)]
                  ELSE vecs
       /\ Tell(c)
       /\ call' = [call EXCEPT ![w] = NoCall]
       /\ UNCHANGED <<collectors, mtx, work, runs, finished, gone, last>>

\* CounterAdd, GaugeSet, GaugeAdd and HistogramObserve.
VecCall(w) == Lookup(w) \/ Register(w) \/ Write(w)

-----------------------------------------------------------------------------
(* The vault: metrics with a group.                                        *)

At(w, stage) == work[w].stage = stage /\ call[w] = NoCall
Move(w, stage) == work' = [work EXCEPT ![w].stage = stage]
Applying(w, g) == work[w].stage \in {"expire", "ops", "store"} /\ work[w].group = g

\* ExpireGroupMetrics takes the vault's lock and keeps it for all collectors.
Expiring(r) == [r EXCEPT !.stage = "expire", !.left = DOMAIN collectors]

\* The first step of ApplyGroupOperations for a group of the batch, in the
\* order of a Go map.
ApplyGroup(w) ==
    /\ At(w, "groups")
    /\ \E g \in work[w].groups :
        LET busy == {v \in Worker : Applying(v, g)}
        IN /\ mtx = Nobody
           /\ mtx' = w
           /\ work' = [v \in Worker |->
                IF v = w
                THEN Expiring([work[w] EXCEPT !.groups = @ \ {g}, !.group = g,
                                              !.todo = OfGroup(work[w].ops, g),
                                              !.alone = busy = {},
                                              !.expires = {a \in finished : a.group = g}])
                ELSE IF v \in busy THEN [work[v] EXCEPT !.alone = FALSE] ELSE work[v]]
    /\ UNCHANGED <<vecs, collectors, call, history>>

\* Mutant: only the series of the hook itself are expired.
WithoutGroupOfHook(series, g, h) ==
    [k \in {key \in DOMAIN series : series[key].group # g \/ series[key].labels.hook # h}
        |-> series[k]]

\* Mutant: all series of the hook are expired.
WithoutHook(series, g, h) ==
    [k \in {key \in DOMAIN series : series[key].labels.hook # h} |-> series[k]]

\* What a collector keeps when hook h expires group g.
WithoutGroup(series, g, h) ==
    [k \in {key \in DOMAIN series : series[key].group # g} |-> series[k]]

\* Each collector expires the group under a lock of its own.
ExpireGroupMetrics(w) ==
    /\ At(w, "expire")
    /\ \E n \in work[w].left :
        /\ collectors' = [collectors EXCEPT ![n].series =
                              WithoutGroup(@, work[w].group, work[w].hook)]
        /\ work' = [work EXCEPT ![w].left = @ \ {n}]
    /\ UNCHANGED <<vecs, mtx, call, history>>

\* Mutant: the lock of the vault is not given back.
ExpiredLocked(w) ==
    /\ At(w, "expire")
    /\ work[w].left = {}
    /\ Move(w, "ops")
    /\ gone' = gone \union work[w].expires
    /\ UNCHANGED <<vecs, collectors, mtx, call, runs, told, finished, last>>

Expired(w) ==
    /\ At(w, "expire")
    /\ work[w].left = {}
    /\ mtx' = Nobody
    /\ Move(w, "ops")
    /\ gone' = gone \union work[w].expires
    /\ UNCHANGED <<vecs, collectors, call, runs, told, finished, last>>

\* An explicit "expire" among the operations.
ExpireOp(w) ==
    /\ At(w, "ops")
    /\ mtx = Nobody
    /\ mtx' = w
    /\ \E i \in work[w].todo :
        /\ First(i, work[w].todo)
        /\ work[w].ops[i].action = "expire"
        /\ work' = [work EXCEPT ![w] = Expiring([work[w] EXCEPT !.todo = @ \ {i}])]
    /\ UNCHANGED <<vecs, collectors, call, history>>

\* GetOrCreateCounterCollector and GetOrCreateGaugeCollector, under the lock:
\* a name registered outside the vault or with another type is an error, and
\* the operation is dropped.
GetOrCreateCollector(w) ==
    /\ At(w, "ops")
    /\ mtx = Nobody
    /\ \E i \in work[w].todo :
       LET op == work[w].ops[i]
           names == DOMAIN MergeLabels(op.labels, HookLabel(work[w].hook))
           drop == work' = [work EXCEPT ![w].todo = @ \ {i}]
       IN /\ First(i, work[w].todo)
          /\ op.action # "expire"
          /\ \/ /\ op.name \in DOMAIN collectors
                /\ IF collectors[op.name].type = op.action THEN Move(w, "store") ELSE drop
                /\ UNCHANGED collectors
             \/ /\ op.name \notin Registered
                /\ collectors' = Put(collectors, op.name,
                        [type |-> op.action, names |-> names, series |-> Empty])
                /\ Move(w, "store")
             \/ /\ op.name \in Registered \ DOMAIN collectors
                /\ drop
                /\ UNCHANGED collectors
    /\ UNCHANGED <<vecs, mtx, call, history>>

\* Mutant: the key has all the labels of the operation.
HashAllLabels(labels, names) == labels

\* The key of a series: the values of the collector's label names, without
\* the group.  Hashes are taken to differ.
HashLabelValues(labels, names) == LabelValues(labels, names)

\* A grouped counter holds an uint64.
Whole(value) == 2 * (value \div 2)

\* Add and Set of a collector.  A series that is there keeps its group; who
\* contributed to the value is history.
NewSeries(values, group) == [value |-> 0, labels |-> values, group |-> group, by |-> {}]
AddTo(s, value, me) == [s EXCEPT !.value = @ + Whole(value), !.by = @ \union {me}]
SetTo(s, value, me) == [s EXCEPT !.value = value, !.by = {me}]

\* Under the lock of the collector only.
StoreOp(w, op) ==
    LET col == collectors[op.name]
        labels == MergeLabels(op.labels, HookLabel(work[w].hook))
        key == HashLabelValues(labels, col.names)
        me == [run |-> work[w].run, group |-> work[w].group]
        old == IF key \in DOMAIN col.series THEN col.series[key]
               ELSE NewSeries(LabelValues(labels, col.names), work[w].group)
        new == IF op.action = "add" THEN AddTo(old, op.value, me) ELSE SetTo(old, op.value, me)
    IN collectors' = [collectors EXCEPT ![op.name].series = Put(@, key, new)]

Store(w) ==
    /\ At(w, "store")
    /\ \E i \in work[w].todo :
        /\ First(i, work[w].todo)
        /\ StoreOp(w, work[w].ops[i])
        /\ work' = [work EXCEPT ![w].stage = "ops", ![w].todo = @ \ {i}]
    /\ UNCHANGED <<vecs, mtx, call, history>>

GroupApplied(w) ==
    /\ At(w, "ops")
    /\ work[w].todo = {}
    /\ Move(w, "groups")
    /\ finished' = finished \union {[run |-> work[w].run, group |-> work[w].group]}
    /\ last' = Put(last, work[w].group,
                   [hook |-> work[w].hook, ops |-> work[w].ops, alone |-> work[w].alone])
    /\ UNCHANGED <<storage, call, runs, told, gone>>

\* What a scrape is given by the collector of a metric.
Collect(n) == {collectors[n].series[k] : k \in DOMAIN collectors[n].series}

-----------------------------------------------------------------------------
(* A hook run.                                                             *)

\* TaskHandleHookRun after the run of the hook: its resource usage, then
\* SendBatch, which applies nothing when an operation is not valid.  A hook
\* that fails and a file that cannot be decoded end the same way.
RunHook(w) ==
    /\ At(w, "idle")
    /\ runs < MaxRuns
    /\ runs' = runs + 1
    /\ \E h \in HooksOf[w] : \E file \in Output[h] :
        LET ops == MetricOperationsFromFile(file)
            valid == ValidateOperations(ops)
        IN /\ work' = [work EXCEPT ![w] =
                [stage |-> IF valid THEN "groups" ELSE "failed", hook |-> h, run |-> runs,
                 ops |-> ops, groups |-> Groups(ops), group |-> Nil, left |-> {},
                 todo |-> {}, send |-> OfGroup(ops, Nil), alone |-> TRUE, expires |-> {}]]
           /\ call' = [call EXCEPT ![w] =
                Call("histogram", "hook_run_sys_seconds", 1, RunLabels(w, h))]
    /\ UNCHANGED <<storage, told, finished, gone, last>>

\* SendBatchV0, after all groups: only an operation written with a shortcut
\* has Add or Set.
SendBatchV0(w) ==
    /\ At(w, "groups")
    /\ work[w].groups = {}
    /\ \E i \in work[w].send :
        LET op == work[w].ops[i]
            labels == MergeLabels(op.labels, HookLabel(work[w].hook))
        IN /\ First(i, work[w].send)
           /\ \/ /\ op.add # Nil
                 /\ call' = [call EXCEPT ![w] = Call("counter", op.name, op.add, labels)]
                 /\ work' = [work EXCEPT ![w].send = @ \ {i}]
              \/ /\ op.add = Nil /\ op.set # Nil
                 /\ call' = [call EXCEPT ![w] = Call("gauge", op.name, op.set, labels)]
                 /\ work' = [work EXCEPT ![w].send = @ \ {i}]
              \/ /\ op.add = Nil /\ op.set = Nil
                 /\ Move(w, "failed")
                 /\ UNCHANGED call
    /\ UNCHANGED <<storage, history>>

\* The run is counted three times, one of them with 1, the others with 0, which
\* makes their time series; then the task is done or will be repeated.
Counted(w, name, hit) ==
    call' = [call EXCEPT ![w] = Call("counter", name, IF hit THEN 2 ELSE 0,
                                     RunLabels(w, work[w].hook))]
Allowed(w) == work[w].hook \in AllowFailure

ReportAllowedErrors(w) ==
    LET ok == At(w, "groups") /\ work[w].groups = {} /\ work[w].send = {}
    IN /\ ok \/ At(w, "failed")
       /\ Counted(w, "hook_run_allowed_errors_total", ~ok /\ Allowed(w))
       /\ Move(w, IF ok THEN "succeeded" ELSE "erred")
       /\ UNCHANGED <<storage, history>>

ReportErrors(w) ==
    /\ At(w, "succeeded") \/ At(w, "erred")
    /\ Counted(w, "hook_run_errors_total", work[w].stage = "erred" /\ ~Allowed(w))
    /\ Move(w, IF work[w].stage = "erred" THEN "no success" ELSE "success")
    /\ UNCHANGED <<storage, history>>

ReportSuccess(w) ==
    /\ At(w, "success") \/ At(w, "no success")
    /\ Counted(w, "hook_run_success_total", work[w].stage = "success")
    /\ work' = [work EXCEPT ![w] = Idle]
    /\ UNCHANGED <<storage, history>>

Report(w) == ReportAllowedErrors(w) \/ ReportErrors(w) \/ ReportSuccess(w)

Next == \E w \in Worker :
    \/ RunHook(w) \/ SendBatchV0(w) \/ Report(w)
    \/ VecCall(w)
    \/ ApplyGroup(w) \/ ExpireGroupMetrics(w) \/ Expired(w) \/ ExpireOp(w)
    \/ GetOrCreateCollector(w) \/ Store(w) \/ GroupApplied(w)

Spec == Init /\ [][Next]_vars

-----------------------------------------------------------------------------
(* Properties.                                                             *)

\* Every vector has label names and values for them, every collector a type,
\* and the vault's lock is held by the worker that expires a group.
TypeOK ==
    /\ DOMAIN vecs = {"counter", "gauge", "histogram"}
    /\ \A k \in DOMAIN vecs : \A n \in DOMAIN vecs[k] :
        \A l \in DOMAIN vecs[k][n].children : DOMAIN l = vecs[k][n].names
    /\ \A n \in DOMAIN collectors : collectors[n].type \in {"add", "set"}
    /\ \A w \in Worker : work[w].stage = "expire" <=> mtx = w
    /\ runs \in 0..MaxRuns

\* However workers race to register a metric, and however often a batch fails
\* half-way and is sent again, a counter or histogram holds the sum of all
\* that CounterAdd and HistogramObserve were given for its labels.  (A name
\* that was registered as something else first never becomes one.)
AddsCounted ==
    \A k \in {"counter", "histogram"} : \A n \in DOMAIN vecs[k] : \A key \in DOMAIN told :
        (key[1] = k /\ key[2] = n /\ DOMAIN key[3] = vecs[k][n].names)
            => Child(vecs[k][n], key[3]) = told[key]

\* What a batch wrote for a group is gone once a batch that came after it has
\* expired the group: nothing of it is left in any series, be it a series of
\* another hook or one that two workers write at once.
NoStaleSeries ==
    \A n \in DOMAIN collectors : \A s \in Collect(n) : s.by \cap gone = {}

\* What it takes, as the key of a series has no group: the metrics files of a
\* hook use a name with one type in one group.
GroupsApart ==
    \A h \in Hook : \A f1, f2 \in {MetricOperationsFromFile(file) : file \in Output[h]} :
        ValidateOperations(f1) /\ ValidateOperations(f2) =>
            \A i \in DOMAIN f1, j \in DOMAIN f2 :
                (/\ f1[i].name = f2[j].name /\ f1[i].action = f2[j].action
                 /\ f1[i].action # "expire" /\ f1[i].group # Nil /\ f2[j].group # Nil)
                    => f1[i].group = f2[j].group

\* The sum of the values at some positions, each cut to a whole number.
SumHalves(ops, is) == MapThenSumSet(LAMBDA i : Whole(ops[i].value), is)

\* Reference: the series of a metric that a hook's operations on one group
\* ask for, from the last "expire" among them on.
Asked(a, g, n) ==
    LET col == collectors[n]
        ours == OfGroup(a.ops, g)
        begin == Max({0} \union {i \in ours : a.ops[i].action = "expire"})
        values(i) == LabelValues(MergeLabels(a.ops[i].labels, HookLabel(a.hook)), col.names)
        mine == {i \in ours : i > begin /\ a.ops[i].name = n
                                       /\ a.ops[i].action = col.type}
        value(is) == IF col.type = "add" THEN SumHalves(a.ops, is)
                     ELSE a.ops[Max(is)].value
    IN {[labels |-> values(i), value |-> value({j \in mine : values(j) = values(i)})] : i \in mine}

\* ApplyGroupOperations "set metrics for group to a new state defined by ops":
\* when no other application of the group was under way at the same time, the
\* series of the group are those the last batch asks for and no others, while
\* other groups, also of the same metric, come and go.  So a counter of a group
\* starts again with every batch, as METRICS.md says in its text ("expires previous
\* metrics with the same group and applies new metric values"); its example shows
\* a counter that goes on.
GroupIsLastBatch ==
    \A g \in DOMAIN last : (last[g].alone /\ \A w \in Worker : ~Applying(w, g)) =>
        \A n \in DOMAIN collectors :
            {[labels |-> s.labels, value |-> s.value] : s \in {t \in Collect(n) : t.group = g}}
                = Asked(last[g], g, n)

\* A scrape gathers everything: no metric name has two owners and no two
\* series of a collector have the same labels, either of which would make the
\* library refuse the whole scrape.
ScrapeSucceeds ==
    /\ \A n \in Registered :
        Cardinality({k \in DOMAIN vecs : n \in DOMAIN vecs[k]})
            + (IF n \in DOMAIN collectors THEN 1 ELSE 0) = 1
    /\ \A n \in DOMAIN collectors : \A j, k \in DOMAIN collectors[n].series :
        collectors[n].series[j].labels = collectors[n].series[k].labels => j = k
==============================================================================
