------------------------- MODULE MetricStorageProofs -------------------------
(***************************************************************************)
(* Proofs about MetricStorage, for any workers, hooks and metrics files.   *)
(***************************************************************************)
EXTENDS MetricStorage, FiniteSetTheorems, InductionLemmas

Kinds == {"counter", "gauge", "histogram"}
Stages == {"idle", "groups", "expire", "ops", "store", "failed",
           "succeeded", "erred", "success", "no success"}
ReportStages == {"succeeded", "erred", "success", "no success"}

\* The decoded files of a hook, and what may occur in them.
FilesOf(h) == {MetricOperationsFromFile(file) : file \in Output[h]}
Files == (UNION {FilesOf(h) : h \in Hook}) \union {<< >>}
Ops == UNION {{ops[i] : i \in DOMAIN ops} : ops \in Files}
Position == UNION {DOMAIN ops : ops \in Files}
GroupSet == UNION {Groups(ops) : ops \in Files}
NameSet == {op.name : op \in Ops}
Application == [run : Nat, group : GroupSet]

OwnNames == {"hook_run_success_total", "hook_run_errors_total", "hook_run_allowed_errors_total",
             "hook_run_sys_seconds"}
ValueSet == {op.add : op \in Ops} \union {op.set : op \in Ops} \union {Nil, 0, 1, 2}
LabelSet == {MergeLabels(op.labels, HookLabel(h)) : op \in Ops, h \in Hook}
            \union {RunLabels(w, h) : w \in Worker, h \in Hook} \union {Empty}

Work == [stage : Stages, hook : Hook \union {Nil}, run : Nat, ops : Files,
         groups : SUBSET GroupSet, group : GroupSet \union {Nil}, left : SUBSET NameSet,
         todo : SUBSET Position, send : SUBSET Position, alone : BOOLEAN,
         expires : SUBSET Application]
Calls == [step : {"none", "lookup", "register", "write"}, kind : Kinds \union {Nil},
          name : NameSet \union OwnNames \union {Nil}, value : ValueSet, labels : LabelSet]

\* A vector has label names, and the labels of a time series are for these names.
VecInv ==
    /\ DOMAIN vecs = Kinds
    /\ \A k \in Kinds : \A n \in DOMAIN vecs[k] :
        /\ vecs[k][n] = [names |-> vecs[k][n].names, children |-> vecs[k][n].children]
        /\ \A l \in DOMAIN vecs[k][n].children : DOMAIN l = vecs[k][n].names

ColInv ==
    /\ DOMAIN collectors \subseteq NameSet
    /\ \A n \in DOMAIN collectors :
        /\ collectors[n] = [type |-> collectors[n].type, names |-> collectors[n].names,
                            series |-> collectors[n].series]
        /\ collectors[n].type \in {"add", "set"}

\* A call is about a kind of vector, and writes only to a vector that is there.
CallInv ==
    /\ call \in [Worker -> Calls]
    /\ \A w \in Worker :
        /\ call[w].step # "none" => call[w].kind \in Kinds
        /\ call[w].step = "write" => call[w].name \in DOMAIN vecs[call[w].kind]

\* The operations at work are valid and of the group at work, collectors still
\* to expire are there, and Store has the collector it was given, which still
\* has its type.
WorkerInv(r) ==
    /\ r.stage # "idle" => r.hook \in Hook /\ r.ops \in FilesOf(r.hook) /\ r.run < runs
    /\ r.send \subseteq DOMAIN r.ops
    /\ r.stage \in {"groups", "expire", "ops", "store"} =>
          ValidateOperations(r.ops) /\ r.groups \subseteq Groups(r.ops)
    /\ r.stage \in {"expire", "ops", "store"} =>
          r.group \in Groups(r.ops) /\ r.todo \subseteq OfGroup(r.ops, r.group)
    /\ r.stage = "expire" => r.left \subseteq DOMAIN collectors
    /\ r.stage = "store" => \A i \in r.todo : First(i, r.todo) =>
          /\ r.ops[i].action # "expire"
          /\ r.ops[i].name \in DOMAIN collectors
          /\ collectors[r.ops[i].name].type = r.ops[i].action

WorkInv ==
    /\ work \in [Worker -> Work]
    /\ \A w \in Worker : WorkerInv(work[w])
    /\ runs \in 0..MaxRuns
    /\ finished \subseteq Application

LockInv == \A w \in Worker : work[w].stage = "expire" <=> mtx = w

TypeInv == VecInv /\ ColInv /\ CallInv /\ WorkInv /\ LockInv

-----------------------------------------------------------------------------
(* Records and functions.                                                  *)

\* What an assignment to the series of one collector leaves behind.
LEMMA SeriesUpdate ==
  ASSUME NEW cs, NEW n \in DOMAIN cs, NEW S, NEW ds,
         cs[n] = [type |-> cs[n].type, names |-> cs[n].names, series |-> cs[n].series],
         ds = [cs EXCEPT ![n].series = S]
  PROVE  /\ DOMAIN ds = DOMAIN cs
         /\ ds[n] = [type |-> cs[n].type, names |-> cs[n].names, series |-> S]
         /\ \A m \in DOMAIN cs : m # n => ds[m] = cs[m]
<1> DEFINE r == [cs[n] EXCEPT !.series = S]
<1>1. ds = [cs EXCEPT ![n] = r]
  OBVIOUS
<1>2. ASSUME NEW a, NEW b, NEW c, cs[n] = [type |-> a, names |-> b, series |-> c]
      PROVE  r = [type |-> a, names |-> b, series |-> S]
  BY <1>2
<1>3. r = [type |-> cs[n].type, names |-> cs[n].names, series |-> S]
  BY <1>2
<1> HIDE DEF r
<1> QED
  BY <1>1, <1>3

\* What an assignment to the children of one vector leaves behind.
LEMMA ChildrenUpdate ==
  ASSUME NEW vs, NEW k \in DOMAIN vs, NEW n \in DOMAIN vs[k], NEW C, NEW us,
         vs[k][n] = [names |-> vs[k][n].names, children |-> vs[k][n].children],
         us = [vs EXCEPT ![k][n].children = C]
  PROVE  /\ DOMAIN us = DOMAIN vs
         /\ \A j \in DOMAIN vs : DOMAIN us[j] = DOMAIN vs[j]
         /\ us[k][n] = [names |-> vs[k][n].names, children |-> C]
         /\ \A j \in DOMAIN vs : \A m \in DOMAIN vs[j] : j # k \/ m # n => us[j][m] = vs[j][m]
<1> DEFINE r == [vs[k][n] EXCEPT !.children = C]
           f == [vs[k] EXCEPT ![n] = r]
<1>1. us = [vs EXCEPT ![k] = f]
  OBVIOUS
<1>2. ASSUME NEW a, NEW b, vs[k][n] = [names |-> a, children |-> b]
      PROVE  r = [names |-> a, children |-> C]
  BY <1>2
<1>3. r = [names |-> vs[k][n].names, children |-> C]
  BY <1>2
<1> HIDE DEF r
<1>4. DOMAIN f = DOMAIN vs[k] /\ f[n] = r /\ \A m \in DOMAIN vs[k] : m # n => f[m] = vs[k][m]
  OBVIOUS
<1> HIDE DEF f
<1> QED
  BY <1>1, <1>3, <1>4

-----------------------------------------------------------------------------

LEMMA TypeInit == Init => TypeInv
<1> SUFFICES ASSUME Init PROVE TypeInv
  OBVIOUS
<1>1. VecInv
  BY DEF Init, VecInv, Kinds, OwnMetrics, OwnVec, Empty
<1>2. ColInv
  BY DEF Init, ColInv, Empty
<1>3. CallInv
  BY DEF Init, CallInv, NoCall, Calls, ValueSet, LabelSet
<1>4. WorkInv
  <2>1. Idle \in Work
    BY DEF Idle, Work, Stages, Files
  <2>2. WorkerInv(Idle)
    <3>1. Idle.stage = "idle" /\ Idle.send = {}
      BY DEF Idle
    <3> QED
      BY <3>1 DEF WorkerInv
  <2> QED
    BY <2>1, <2>2, MetricStorageAssumption DEF Init, WorkInv, MetricStorageAssumption
<1>5. LockInv
  BY MetricStorageAssumption DEF Init, LockInv, Idle, MetricStorageAssumption
<1> QED
  BY <1>1, <1>2, <1>3, <1>4, <1>5 DEF TypeInv

-----------------------------------------------------------------------------
(* Calls for vectors.                                                      *)

\* What a call keeps when its step changes.
LEMMA CallStep ==
  ASSUME CallInv, NEW w \in Worker, NEW x \in {"none", "lookup", "register", "write"},
         call' = [call EXCEPT ![w].step = x]
  PROVE  /\ call' \in [Worker -> Calls]
         /\ call'[w].step = x /\ call'[w].kind = call[w].kind /\ call'[w].name = call[w].name
         /\ call'[w].labels = call[w].labels
         /\ \A v \in Worker : v # w => call'[v] = call[v]
  BY DEF CallInv, Calls

\* Calls stay what they are when vectors only grow and one call moves on.
LEMMA CallKept ==
  ASSUME CallInv, NEW w \in Worker, call' \in [Worker -> Calls],
         \A v \in Worker : v # w => call'[v] = call[v],
         call'[w].step # "none" => call'[w].kind \in Kinds,
         call'[w].step = "write" => call'[w].name \in DOMAIN vecs'[call'[w].kind],
         \A k \in Kinds : DOMAIN vecs[k] \subseteq DOMAIN vecs'[k]
  PROVE  CallInv'
<1> SUFFICES ASSUME NEW v \in Worker
             PROVE  /\ call'[v].step # "none" => call'[v].kind \in Kinds
                    /\ call'[v].step = "write" => call'[v].name \in DOMAIN vecs'[call'[v].kind]
  BY DEF CallInv
<1>1. CASE v = w
  BY <1>1
<1>2. CASE v # w
  BY <1>2 DEF CallInv
<1> QED
  BY <1>1, <1>2

LEMMA NoCallType == NoCall \in Calls /\ NoCall.step = "none"
  BY DEF NoCall, Calls, ValueSet, LabelSet

\* A vector that is registered is a new one.
LEMMA RegisterVec ==
  ASSUME VecInv, NEW k \in Kinds, NEW n, n \notin DOMAIN vecs[k], NEW L,
         vecs' = [vecs EXCEPT ![k] = Put(@, n, [names |-> L, children |-> Empty])]
  PROVE  /\ VecInv'
         /\ \A j \in Kinds : j # k => vecs'[j] = vecs[j]
         /\ DOMAIN vecs'[k] = DOMAIN vecs[k] \union {n}
         /\ vecs'[k][n] = [names |-> L, children |-> Empty]
         /\ \A m \in DOMAIN vecs[k] : vecs'[k][m] = vecs[k][m]
<1> DEFINE r == [names |-> L, children |-> Empty]
<1>1. DOMAIN vecs' = Kinds /\ vecs'[k] = Put(vecs[k], n, r)
  BY DEF VecInv
<1>2. \A j \in Kinds : j # k => vecs'[j] = vecs[j]
  BY DEF VecInv
<1>3. /\ DOMAIN vecs'[k] = DOMAIN vecs[k] \union {n}
      /\ vecs'[k][n] = r
      /\ \A m \in DOMAIN vecs[k] : vecs'[k][m] = vecs[k][m]
  BY <1>1 DEF Put
<1>4. VecInv'
  <2> SUFFICES ASSUME NEW j \in Kinds, NEW m \in DOMAIN vecs'[j]
               PROVE  /\ vecs'[j][m] = [names |-> vecs'[j][m].names, children |-> vecs'[j][m].children]
                      /\ \A l \in DOMAIN vecs'[j][m].children : DOMAIN l = vecs'[j][m].names
    BY <1>1 DEF VecInv
  <2>1. CASE j = k /\ m = n
    <3>1. vecs'[j][m] = r /\ DOMAIN Empty = {}
      BY <1>3, <2>1 DEF Empty
    <3> QED
      BY <3>1
  <2>2. CASE ~(j = k /\ m = n)
    <3>1. vecs'[j][m] = vecs[j][m] /\ m \in DOMAIN vecs[j]
      BY <1>2, <1>3, <2>2
    <3> QED
      BY <3>1 DEF VecInv
  <2> QED
    BY <2>1, <2>2
<1> QED
  BY <1>2, <1>3, <1>4

\* A write changes one time series of one vector.
Writes(k, n, l, x) == vecs' = [vecs EXCEPT ![k][n].children = Put(@, l, x)]

LEMMA WriteVec ==
  ASSUME VecInv, NEW k \in Kinds, NEW n \in DOMAIN vecs[k], NEW l, NEW x,
         DOMAIN l = vecs[k][n].names, Writes(k, n, l, x)
  PROVE  /\ VecInv'
         /\ \A j \in Kinds : DOMAIN vecs'[j] = DOMAIN vecs[j]
         /\ vecs'[k][n].names = vecs[k][n].names
         /\ vecs'[k][n].children = Put(vecs[k][n].children, l, x)
         /\ \A j \in Kinds : \A m \in DOMAIN vecs[j] :
               j # k \/ m # n => vecs'[j][m] = vecs[j][m]
<1> DEFINE C == Put(vecs[k][n].children, l, x)
<1>1. vecs' = [vecs EXCEPT ![k][n].children = C]
  BY DEF Writes
<1>2. /\ DOMAIN C = DOMAIN vecs[k][n].children \union {l}
      /\ k \in DOMAIN vecs
      /\ vecs[k][n] = [names |-> vecs[k][n].names, children |-> vecs[k][n].children]
  BY DEF VecInv, Put
<1> HIDE DEF C
<1>3. /\ DOMAIN vecs' = DOMAIN vecs
      /\ \A j \in DOMAIN vecs : DOMAIN vecs'[j] = DOMAIN vecs[j]
      /\ vecs'[k][n] = [names |-> vecs[k][n].names, children |-> C]
      /\ \A j \in DOMAIN vecs : \A m \in DOMAIN vecs[j] :
            j # k \/ m # n => vecs'[j][m] = vecs[j][m]
  BY <1>1, <1>2, ChildrenUpdate
<1>4. VecInv'
  <2> SUFFICES ASSUME NEW j \in Kinds, NEW m \in DOMAIN vecs'[j]
               PROVE  /\ vecs'[j][m] = [names |-> vecs'[j][m].names, children |-> vecs'[j][m].children]
                      /\ \A a \in DOMAIN vecs'[j][m].children : DOMAIN a = vecs'[j][m].names
    BY <1>3 DEF VecInv
  <2>1. CASE j = k /\ m = n
    BY <1>2, <1>3, <2>1 DEF VecInv
  <2>2. CASE ~(j = k /\ m = n)
    <3>1. vecs'[j][m] = vecs[j][m] /\ m \in DOMAIN vecs[j]
      BY <1>3, <2>2 DEF VecInv
    <3> QED
      BY <3>1 DEF VecInv
  <2> QED
    BY <2>1, <2>2
<1> QED
  BY <1>3, <1>4 DEF VecInv, C

LEMMA RegisteredFacts ==
  \A n : n \in Registered <=> (\E k \in DOMAIN vecs : n \in DOMAIN vecs[k]) \/ n \in DOMAIN collectors
  BY DEF Registered

LEMMA TypeVecCall ==
  ASSUME TypeInv, NEW w \in Worker, VecCall(w)
  PROVE  TypeInv'
<1> DEFINE c == call[w]
<1> USE DEF TypeInv
<1>1. UNCHANGED <<collectors, mtx, work, runs, finished>>
  BY DEF VecCall, Lookup, Register, Write, storage, history
<1>2. ColInv' /\ WorkInv' /\ LockInv'
  BY <1>1 DEF ColInv, WorkInv, WorkerInv, LockInv
<1>3. c \in Calls /\ (c.step # "none" => c.kind \in Kinds)
  BY DEF CallInv
<1>4. CASE Lookup(w)
  <2>1. UNCHANGED vecs /\ c.step = "lookup"
    BY <1>4 DEF Lookup, storage
  <2>2. PICK x \in {"write", "register"} :
           /\ call' = [call EXCEPT ![w].step = x]
           /\ x = "write" => c.name \in DOMAIN vecs[c.kind]
    BY <1>4 DEF Lookup
  <2>3. CallInv'
    BY <1>3, <2>1, <2>2, CallStep, CallKept
  <2> QED
    BY <1>2, <2>1, <2>3 DEF VecInv
<1>5. CASE Register(w) /\ UNCHANGED vecs
  <2>1. c.step = "register"
    BY <1>5 DEF Register
  <2>2. \/ call' = [call EXCEPT ![w].step = "write"] /\ c.name \in DOMAIN vecs[c.kind]
        \/ call' = [call EXCEPT ![w] = NoCall]
        \/ /\ c.name \notin Registered
           /\ vecs' = [vecs EXCEPT ![c.kind] =
                          Put(@, c.name, [names |-> DOMAIN c.labels, children |-> Empty])]
    BY <1>5 DEF Register
  <2>3. CASE call' = [call EXCEPT ![w].step = "write"] /\ c.name \in DOMAIN vecs[c.kind]
    <3>1. CallInv'
      BY <1>3, <1>5, <2>1, <2>3, CallStep, CallKept
    <3> QED
      BY <1>2, <1>5, <3>1 DEF VecInv
  <2>4. CASE call' = [call EXCEPT ![w] = NoCall]
    <3>1. /\ call' \in [Worker -> Calls] /\ call'[w].step = "none"
          /\ \A v \in Worker : v # w => call'[v] = call[v]
      BY <2>4, NoCallType DEF CallInv
    <3> QED
      BY <1>2, <1>5, <3>1, CallKept DEF VecInv
  <2>5. CASE /\ c.name \notin Registered
             /\ vecs' = [vecs EXCEPT ![c.kind] =
                            Put(@, c.name, [names |-> DOMAIN c.labels, children |-> Empty])]
    <3>1. c.name \notin DOMAIN vecs[c.kind] /\ c.kind \in Kinds
      BY <1>3, <2>1, <2>5, RegisteredFacts DEF VecInv
    <3>2. DOMAIN vecs'[c.kind] = DOMAIN vecs[c.kind] \union {c.name}
      BY <2>5, <3>1, RegisterVec
    <3> QED
      BY <1>5, <3>1, <3>2
  <2> QED
    BY <2>2, <2>3, <2>4, <2>5
<1>6. CASE Register(w) /\ vecs' # vecs
  <2>1. /\ c.step = "register" /\ c.kind \in Kinds
        /\ c.name \notin Registered
        /\ vecs' = [vecs EXCEPT ![c.kind] =
                          Put(@, c.name, [names |-> DOMAIN c.labels, children |-> Empty])]
        /\ call' = [call EXCEPT ![w].step = "write"]
    BY <1>3, <1>6 DEF Register
  <2>2. c.name \notin DOMAIN vecs[c.kind]
    BY <2>1, RegisteredFacts DEF VecInv
  <2>3. /\ VecInv'
        /\ \A j \in Kinds : j # c.kind => vecs'[j] = vecs[j]
        /\ DOMAIN vecs'[c.kind] = DOMAIN vecs[c.kind] \union {c.name}
    BY <2>1, <2>2, RegisterVec
  <2>4. CallInv'
    BY <1>3, <2>1, <2>3, CallStep, CallKept
  <2> QED
    BY <1>2, <2>3, <2>4
<1>7. CASE Write(w)
  <2> DEFINE v == vecs[c.kind][c.name]
             new == IF c.kind = "gauge" THEN c.value ELSE Child(v, c.labels) + c.value
  <2>1. /\ c.step = "write" /\ c.kind \in Kinds /\ c.name \in DOMAIN vecs[c.kind]
        /\ call' = [call EXCEPT ![w] = NoCall]
        /\ vecs' = IF DOMAIN c.labels = v.names
                   THEN [vecs EXCEPT ![c.kind][c.name].children = Put(@, c.labels, new)]
                   ELSE vecs
    BY <1>3, <1>7 DEF Write, CallInv
  <2> HIDE DEF new
  <2>2. VecInv' /\ \A j \in Kinds : DOMAIN vecs'[j] = DOMAIN vecs[j]
    <3>1. CASE DOMAIN c.labels = v.names
      <4>1. Writes(c.kind, c.name, c.labels, new)
        BY <2>1, <3>1 DEF Writes
      <4> QED
        BY <2>1, <3>1, <4>1, WriteVec
    <3>2. CASE DOMAIN c.labels # v.names
      BY <2>1, <3>2 DEF VecInv
    <3> QED
      BY <3>1, <3>2
  <2>3. /\ call' \in [Worker -> Calls] /\ call'[w].step = "none"
        /\ \A u \in Worker : u # w => call'[u] = call[u]
    BY <2>1, NoCallType DEF CallInv
  <2>4. CallInv'
    BY <2>2, <2>3, CallKept
  <2> QED
    BY <1>2, <2>2, <2>4
<1> QED
  BY <1>4, <1>5, <1>6, <1>7 DEF VecCall

-----------------------------------------------------------------------------
(* Work on groups.                                                         *)

LEMMA FileFacts ==
  /\ \A h \in Hook : FilesOf(h) \subseteq Files
  /\ \A ops \in Files : /\ DOMAIN ops \subseteq Position /\ Groups(ops) \subseteq GroupSet
                        /\ \A i \in DOMAIN ops : ops[i] \in Ops /\ ops[i].name \in NameSet
  /\ Position \subseteq Int
<1>1. \A h \in Hook : FilesOf(h) \subseteq Files
  BY DEF Files
<1>2. \A ops \in Files : DOMAIN ops \subseteq Position /\ Groups(ops) \subseteq GroupSet
  BY DEF Position, GroupSet
<1>3. \A ops \in Files : \A i \in DOMAIN ops : ops[i] \in Ops /\ ops[i].name \in NameSet
  BY DEF Ops, NameSet
<1>4. ASSUME NEW h \in Hook, NEW ops \in FilesOf(h) PROVE DOMAIN ops \subseteq Int
  <2>1. PICK file \in Output[h] : ops = MetricOperationsFromFile(file)
    BY DEF FilesOf
  <2>2. DOMAIN ops = DOMAIN file /\ DOMAIN file = 1..Len(file)
    BY <2>1, MetricStorageAssumption DEF MetricOperationsFromFile, MetricStorageAssumption
  <2> QED
    BY <2>2
<1>5. \A ops \in Files : DOMAIN ops \subseteq Int
  BY <1>4 DEF Files
<1> QED
  BY <1>1, <1>2, <1>3, <1>5 DEF Position

LEMMA FirstUnique ==
  ASSUME NEW is \in SUBSET Position, NEW i \in is, NEW j \in is, First(i, is), First(j, is)
  PROVE  i = j
<1>1. i \in Int /\ j \in Int /\ i <= j /\ j <= i
  BY FileFacts DEF First
<1> QED
  BY <1>1

\* Being alone concerns nothing but the history.
LEMMA AloneOnly ==
  ASSUME NEW r \in Work, NEW a, a = [r EXCEPT !.alone = FALSE]
  PROVE  /\ a \in Work
         /\ a.stage = r.stage /\ a.hook = r.hook /\ a.run = r.run /\ a.ops = r.ops
         /\ a.groups = r.groups /\ a.group = r.group /\ a.left = r.left
         /\ a.todo = r.todo /\ a.send = r.send /\ a.expires = r.expires
  BY DEF Work

\* No collector is removed or changes its type.
CollectorsStay ==
    \A n \in DOMAIN collectors :
        n \in DOMAIN collectors' /\ collectors'[n].type = collectors[n].type

\* The work of the others is what it was while one worker goes on.
LEMMA WorkKept ==
  ASSUME WorkInv, NEW w \in Worker, DOMAIN work' = Worker, work' = [v \in Worker |-> work'[v]],
         work'[w] \in Work, WorkerInv(work[w])',
         \A v \in Worker : v # w => work'[v] = work[v] \/ work'[v] = [work[v] EXCEPT !.alone = FALSE],
         runs' \in 0..MaxRuns, runs <= runs', finished' \subseteq Application,
         CollectorsStay
  PROVE  WorkInv'
<1>1. ASSUME NEW v \in Worker, v # w
      PROVE  work'[v] \in Work /\ WorkerInv(work[v])'
  <2>1. work[v] \in Work /\ WorkerInv(work[v]) /\ runs \in Int /\ runs' \in Int /\ work[v].run \in Int
    BY DEF WorkInv, Work
  <2>2. PICK r \in Work : r = work[v]
    BY <2>1
  <2>3. PICK a : a = work'[v]
    OBVIOUS
  <2>4. /\ a \in Work
        /\ a.stage = r.stage /\ a.hook = r.hook /\ a.run = r.run /\ a.ops = r.ops
        /\ a.groups = r.groups /\ a.group = r.group /\ a.left = r.left
        /\ a.todo = r.todo /\ a.send = r.send
    BY <1>1, <2>2, <2>3, AloneOnly
  <2>5. WorkerInv(a)'
    BY <2>1, <2>2, <2>4 DEF WorkerInv, CollectorsStay
  <2> QED
    BY <2>3, <2>4, <2>5 DEF WorkerInv
<1>2. \A v \in Worker : work'[v] \in Work /\ WorkerInv(work[v])'
  BY <1>1
<1> QED
  BY <1>2 DEF WorkInv

\* What stays of a worker's record when it goes on with its batch.
Same(r, s) == s.hook = r.hook /\ s.run = r.run /\ s.ops = r.ops

OthersKept(w) ==
    /\ work' = [v \in Worker |-> work'[v]]
    /\ \A v \in Worker : v # w => work'[v] = work[v]

LEMMA ApplyGroupFacts ==
  ASSUME TypeInv, NEW w \in Worker, ApplyGroup(w)
  PROVE  \E g \in work[w].groups :
            /\ work'[w] \in Work /\ Same(work[w], work'[w])
            /\ work'[w].stage = "expire" /\ work'[w].group = g
            /\ work'[w].groups = work[w].groups \ {g}
            /\ work'[w].left = DOMAIN collectors
            /\ work'[w].todo = OfGroup(work[w].ops, g)
            /\ work'[w].send = work[w].send
            /\ work'[w].expires = {a \in finished : a.group = g}
            /\ work' = [v \in Worker |-> work'[v]]
            /\ \A v \in Worker : v # w =>
                  work'[v] = work[v] \/ work'[v] = [work[v] EXCEPT !.alone = FALSE]
<1> DEFINE busy(g) == {v \in Worker : Applying(v, g)}
           rec(g) == Expiring([work[w] EXCEPT !.groups = @ \ {g}, !.group = g,
                                              !.todo = OfGroup(work[w].ops, g),
                                              !.alone = busy(g) = {},
                                              !.expires = {a \in finished : a.group = g}])
<1>1. PICK g \in work[w].groups :
        work' = [v \in Worker |->
                IF v = w THEN rec(g)
                ELSE IF v \in busy(g) THEN [work[v] EXCEPT !.alone = FALSE] ELSE work[v]]
  BY DEF ApplyGroup
<1>2. work[w] \in Work
  BY DEF TypeInv, WorkInv
<1>3. PICK t : t = OfGroup(work[w].ops, g)
  OBVIOUS
<1>4. t \in SUBSET Position
  <2>1. work[w].ops \in Files
    BY <1>2 DEF Work
  <2> QED
    BY <1>3, <2>1, FileFacts DEF OfGroup
<1>5. PICK e : e = {a \in finished : a.group = g}
  OBVIOUS
<1>6. e \in SUBSET Application
  BY <1>5 DEF TypeInv, WorkInv
<1>7. PICK b \in BOOLEAN : b = (busy(g) = {})
  OBVIOUS
<1>8. PICK c : c = DOMAIN collectors
  OBVIOUS
<1>9. c \in SUBSET NameSet
  BY <1>8 DEF TypeInv, ColInv
<1>10. PICK r \in Work : r = work[w]
  BY <1>2
<1>11. work'[w] = [[r EXCEPT !.groups = @ \ {g}, !.group = g, !.todo = t, !.alone = b,
                             !.expires = e] EXCEPT !.stage = "expire", !.left = c]
  BY <1>1, <1>3, <1>5, <1>7, <1>8, <1>10 DEF Expiring
<1>12. g \in GroupSet
  BY <1>2 DEF Work
<1> DEFINE m == [r EXCEPT !.groups = @ \ {g}, !.group = g, !.todo = t, !.alone = b,
                          !.expires = e]
<1>14. /\ m \in Work /\ Same(r, m) /\ m.group = g /\ m.groups = r.groups \ {g}
       /\ m.todo = t /\ m.send = r.send /\ m.expires = e
  BY <1>4, <1>6, <1>12 DEF Work, Same
<1>15. work'[w] = [m EXCEPT !.stage = "expire", !.left = c]
  BY <1>11
<1> HIDE DEF m
<1>13. /\ work'[w] \in Work
       /\ work'[w].hook = r.hook /\ work'[w].run = r.run /\ work'[w].ops = r.ops
       /\ work'[w].stage = "expire" /\ work'[w].group = g
       /\ work'[w].groups = r.groups \ {g}
       /\ work'[w].left = c /\ work'[w].todo = t /\ work'[w].send = r.send
       /\ work'[w].expires = e
  BY <1>9, <1>14, <1>15 DEF Work, Stages, Same
<1> QED
  BY <1>1, <1>3, <1>5, <1>8, <1>10, <1>13 DEF Same

LEMMA ExpireGroupFacts ==
  ASSUME TypeInv, NEW w \in Worker, ExpireGroupMetrics(w)
  PROVE  \E n \in work[w].left :
            /\ OthersKept(w)
            /\ work'[w] \in Work /\ Same(work[w], work'[w])
            /\ work'[w].stage = "expire" /\ work[w].stage = "expire"
            /\ work'[w].group = work[w].group /\ work'[w].groups = work[w].groups
            /\ work'[w].left = work[w].left \ {n}
            /\ work'[w].todo = work[w].todo /\ work'[w].send = work[w].send
            /\ work'[w].expires = work[w].expires
            /\ collectors' = [collectors EXCEPT ![n].series =
                                 WithoutGroup(@, work[w].group, work[w].hook)]
<1>1. PICK n \in work[w].left :
        /\ work' = [work EXCEPT ![w].left = @ \ {n}]
        /\ collectors' = [collectors EXCEPT ![n].series =
                                 WithoutGroup(@, work[w].group, work[w].hook)]
  BY DEF ExpireGroupMetrics
<1>2. work \in [Worker -> Work] /\ work[w].stage = "expire"
  BY DEF TypeInv, WorkInv, ExpireGroupMetrics, At
<1>3. /\ work'[w] = [work[w] EXCEPT !.left = @ \ {n}] /\ OthersKept(w)
  BY <1>1, <1>2 DEF OthersKept
<1>4. /\ work'[w] \in Work /\ Same(work[w], work'[w])
      /\ work'[w].stage = "expire"
      /\ work'[w].group = work[w].group /\ work'[w].groups = work[w].groups
      /\ work'[w].left = work[w].left \ {n}
      /\ work'[w].todo = work[w].todo /\ work'[w].send = work[w].send
      /\ work'[w].expires = work[w].expires
  BY <1>2, <1>3 DEF Work, Same
<1> QED
  BY <1>1, <1>2, <1>3, <1>4

\* A step that moves on to another stage.
LEMMA MoveFacts ==
  ASSUME TypeInv, NEW w \in Worker, NEW x \in Stages, Move(w, x)
  PROVE  /\ OthersKept(w)
         /\ work'[w] \in Work /\ Same(work[w], work'[w])
         /\ work'[w].stage = x
         /\ work'[w].group = work[w].group /\ work'[w].groups = work[w].groups
         /\ work'[w].left = work[w].left
         /\ work'[w].todo = work[w].todo /\ work'[w].send = work[w].send
         /\ work'[w].expires = work[w].expires
<1>1. work \in [Worker -> Work]
  BY DEF TypeInv, WorkInv
<1>2. work'[w] = [work[w] EXCEPT !.stage = x] /\ OthersKept(w)
  BY <1>1 DEF OthersKept, Move
<1> QED
  BY <1>1, <1>2 DEF Work, Same

\* A step that is done with one operation.
LEMMA TodoFacts ==
  ASSUME TypeInv, NEW w \in Worker, NEW i,
         \/ work' = [work EXCEPT ![w].todo = @ \ {i}] /\ work[w].stage = "ops"
         \/ work' = [work EXCEPT ![w].stage = "ops", ![w].todo = @ \ {i}]
  PROVE  /\ OthersKept(w)
         /\ work'[w] \in Work /\ Same(work[w], work'[w])
         /\ work'[w].stage = "ops"
         /\ work'[w].group = work[w].group /\ work'[w].groups = work[w].groups
         /\ work'[w].left = work[w].left
         /\ work'[w].todo = work[w].todo \ {i} /\ work'[w].send = work[w].send
         /\ work'[w].expires = work[w].expires
<1>1. work \in [Worker -> Work]
  BY DEF TypeInv, WorkInv
<1>2. CASE work' = [work EXCEPT ![w].todo = @ \ {i}] /\ work[w].stage = "ops"
  <2>1. work'[w] = [work[w] EXCEPT !.todo = @ \ {i}] /\ OthersKept(w)
    BY <1>1, <1>2 DEF OthersKept
  <2> QED
    BY <1>1, <1>2, <2>1 DEF Work, Same
<1>3. CASE work' = [work EXCEPT ![w].stage = "ops", ![w].todo = @ \ {i}]
  <2> DEFINE f == [work EXCEPT ![w].stage = "ops"]
  <2>0. "ops" \in Stages
    BY DEF Stages
  <2>1. f \in [Worker -> Work] /\ f[w] = [work[w] EXCEPT !.stage = "ops"]
    BY <1>1, <2>0 DEF Work
  <2>2. /\ Same(work[w], f[w]) /\ f[w].stage = "ops" /\ f[w].group = work[w].group
        /\ f[w].groups = work[w].groups /\ f[w].left = work[w].left /\ f[w].todo = work[w].todo
        /\ f[w].send = work[w].send /\ f[w].expires = work[w].expires
    BY <1>1, <2>1 DEF Work, Same
  <2>3. \A v \in Worker : v # w => f[v] = work[v]
    BY <1>1
  <2>4. work' = [f EXCEPT ![w].todo = @ \ {i}]
    BY <1>3
  <2> HIDE DEF f
  <2>5. work'[w] = [f[w] EXCEPT !.todo = @ \ {i}] /\ OthersKept(w)
    BY <2>1, <2>3, <2>4 DEF OthersKept
  <2>6. PICK p \in Work : p = f[w]
    BY <2>1
  <2>7. /\ work'[w] \in Work /\ Same(p, work'[w])
        /\ work'[w].stage = p.stage /\ work'[w].group = p.group /\ work'[w].groups = p.groups
        /\ work'[w].left = p.left /\ work'[w].todo = p.todo \ {i} /\ work'[w].send = p.send
        /\ work'[w].expires = p.expires
    BY <2>5, <2>6 DEF Work, Same
  <2> QED
    BY <2>2, <2>5, <2>6, <2>7 DEF Same
<1> QED
  BY <1>2, <1>3

LEMMA ExpireOpFacts ==
  ASSUME TypeInv, NEW w \in Worker, ExpireOp(w)
  PROVE  \E i \in work[w].todo :
            /\ First(i, work[w].todo) /\ work[w].ops[i].action = "expire"
            /\ OthersKept(w)
            /\ work'[w] \in Work /\ Same(work[w], work'[w])
            /\ work'[w].stage = "expire" /\ work[w].stage = "ops"
            /\ work'[w].group = work[w].group /\ work'[w].groups = work[w].groups
            /\ work'[w].left = DOMAIN collectors
            /\ work'[w].todo = work[w].todo \ {i} /\ work'[w].send = work[w].send
            /\ work'[w].expires = work[w].expires
<1>1. PICK i \in work[w].todo :
         /\ First(i, work[w].todo) /\ work[w].ops[i].action = "expire"
         /\ work' = [work EXCEPT ![w] = Expiring([work[w] EXCEPT !.todo = @ \ {i}])]
  BY DEF ExpireOp
<1>2. work \in [Worker -> Work] /\ work[w].stage = "ops"
  BY DEF TypeInv, WorkInv, ExpireOp, At
<1>3. PICK r \in Work : r = work[w]
  BY <1>2
<1>4. PICK c : c = DOMAIN collectors
  OBVIOUS
<1>5. c \in SUBSET NameSet
  BY <1>4 DEF TypeInv, ColInv
<1> DEFINE x == Expiring([work[w] EXCEPT !.todo = @ \ {i}])
<1>10. x = [[r EXCEPT !.todo = @ \ {i}] EXCEPT !.stage = "expire", !.left = c]
  BY <1>3, <1>4 DEF Expiring
<1>11. work' = [work EXCEPT ![w] = x]
  BY <1>1
<1> HIDE DEF x
<1>6. OthersKept(w) /\ work'[w] = x
  BY <1>2, <1>11 DEF OthersKept
<1> DEFINE m == [r EXCEPT !.todo = @ \ {i}]
<1>8. /\ m \in Work /\ Same(r, m) /\ m.group = r.group /\ m.groups = r.groups
      /\ m.todo = r.todo \ {i} /\ m.send = r.send /\ m.expires = r.expires
  BY DEF Work, Same
<1>9. work'[w] = [m EXCEPT !.stage = "expire", !.left = c]
  BY <1>6, <1>10
<1> HIDE DEF m
<1>7. /\ work'[w] \in Work
      /\ work'[w].hook = r.hook /\ work'[w].run = r.run /\ work'[w].ops = r.ops
      /\ work'[w].stage = "expire" /\ work'[w].group = r.group /\ work'[w].groups = r.groups
      /\ work'[w].left = c
      /\ work'[w].todo = r.todo \ {i} /\ work'[w].send = r.send
      /\ work'[w].expires = r.expires
  BY <1>5, <1>8, <1>9 DEF Work, Stages, Same
<1> QED
  BY <1>1, <1>2, <1>3, <1>4, <1>6, <1>7 DEF Same

\* The application that a worker is at.
Me(w) == [run |-> work[w].run, group |-> work[w].group]

\* The operation at hand is the first one left, and changes one series of its collector.
Stores(w, i, key, new) ==
    LET op == work[w].ops[i]
        col == collectors[op.name]
        labels == MergeLabels(op.labels, HookLabel(work[w].hook))
        old == IF key \in DOMAIN col.series THEN col.series[key]
               ELSE NewSeries(LabelValues(labels, col.names), work[w].group)
    IN /\ First(i, work[w].todo) /\ i \in DOMAIN work[w].ops
       /\ work' = [work EXCEPT ![w].stage = "ops", ![w].todo = @ \ {i}]
       /\ op.name \in DOMAIN collectors /\ op.name \in NameSet
       /\ op.action # "expire" /\ op.action = col.type /\ op.group = work[w].group
       /\ key = LabelValues(labels, col.names)
       /\ new = IF op.action = "add" THEN AddTo(old, op.value, Me(w)) ELSE SetTo(old, op.value, Me(w))
       /\ DOMAIN collectors' = DOMAIN collectors
       /\ collectors'[op.name] = [type |-> col.type, names |-> col.names,
                                  series |-> Put(col.series, key, new)]
       /\ \A n \in DOMAIN collectors : n # op.name => collectors'[n] = collectors[n]

LEMMA StoreFacts ==
  ASSUME TypeInv, NEW w \in Worker, Store(w)
  PROVE  \E i \in work[w].todo : \E key, new : Stores(w, i, key, new)
<1>1. PICK i \in work[w].todo :
         /\ First(i, work[w].todo)
         /\ StoreOp(w, work[w].ops[i])
         /\ work' = [work EXCEPT ![w].stage = "ops", ![w].todo = @ \ {i}]
  BY DEF Store
<1>2. /\ work[w].stage = "store" /\ WorkerInv(work[w]) /\ work[w] \in Work
  BY DEF Store, At, TypeInv, WorkInv
<1> DEFINE op == work[w].ops[i]
           col == collectors[op.name]
           labels == MergeLabels(op.labels, HookLabel(work[w].hook))
           key == LabelValues(labels, col.names)
           old == IF key \in DOMAIN col.series THEN col.series[key]
                  ELSE NewSeries(LabelValues(labels, col.names), work[w].group)
           new == IF op.action = "add" THEN AddTo(old, op.value, Me(w)) ELSE SetTo(old, op.value, Me(w))
<1>3. /\ i \in DOMAIN work[w].ops /\ work[w].ops \in Files /\ op.group = work[w].group
      /\ op.name \in DOMAIN collectors /\ op.action # "expire" /\ op.action = col.type
  BY <1>1, <1>2 DEF WorkerInv, OfGroup, Work
<1>4. op.name \in NameSet
  BY <1>3, FileFacts
<1>5. collectors' = [collectors EXCEPT ![op.name].series = Put(@, key, new)]
  BY <1>1 DEF StoreOp, HashLabelValues, Me
<1>6. PICK S : S = Put(col.series, key, new)
  OBVIOUS
<1>7. collectors' = [collectors EXCEPT ![op.name].series = S]
  BY <1>5, <1>6
<1>8. col = [type |-> col.type, names |-> col.names, series |-> col.series]
  BY <1>3 DEF TypeInv, ColInv
<1>9. /\ DOMAIN collectors' = DOMAIN collectors
      /\ collectors'[op.name] = [type |-> col.type, names |-> col.names, series |-> S]
      /\ \A n \in DOMAIN collectors : n # op.name => collectors'[n] = collectors[n]
  BY <1>3, <1>7, <1>8, SeriesUpdate
<1>10. Stores(w, i, key, new)
  BY <1>1, <1>3, <1>4, <1>6, <1>9 DEF Stores
<1> QED
  BY <1>10

\* A worker goes on with the groups of its batch.
LEMMA GoOn ==
  ASSUME NEW r \in Work, NEW s \in Work, WorkerInv(r), Same(r, s), runs' = runs,
         r.stage \in {"groups", "expire", "ops", "store"},
         s.stage \in {"groups", "expire", "ops", "store"},
         s.groups \subseteq r.groups, s.send \subseteq r.send,
         s.stage # "groups" => s.group \in Groups(r.ops) /\ s.todo \subseteq OfGroup(r.ops, s.group),
         s.stage = "expire" => s.left \subseteq DOMAIN collectors',
         s.stage = "store" => \A i \in s.todo : First(i, s.todo) =>
            /\ r.ops[i].action # "expire"
            /\ r.ops[i].name \in DOMAIN collectors'
            /\ collectors'[r.ops[i].name].type = r.ops[i].action
  PROVE  WorkerInv(s)'
  BY DEF WorkerInv, Same

\* The lock of the vault changes hands.
LEMMA LockKept ==
  ASSUME LockInv, NEW w \in Worker, Nobody \notin Worker,
         \A v \in Worker : v # w => work'[v].stage = work[v].stage,
         \/ mtx = Nobody /\ mtx' = w /\ work'[w].stage = "expire"
         \/ mtx' = mtx /\ (work'[w].stage = "expire" <=> work[w].stage = "expire")
         \/ mtx = w /\ mtx' = Nobody /\ work'[w].stage # "expire"
  PROVE  LockInv'
  BY DEF LockInv

LEMMA TypeApplyGroup ==
  ASSUME TypeInv, NEW w \in Worker, ApplyGroup(w)
  PROVE  TypeInv'
<1>1. /\ UNCHANGED <<vecs, collectors, call, runs, finished>>
      /\ work[w].stage = "groups" /\ mtx = Nobody /\ mtx' = w
  BY DEF ApplyGroup, At, history
<1>2. PICK g \in work[w].groups :
            /\ work'[w] \in Work /\ Same(work[w], work'[w])
            /\ work'[w].stage = "expire" /\ work'[w].group = g
            /\ work'[w].groups = work[w].groups \ {g}
            /\ work'[w].left = DOMAIN collectors
            /\ work'[w].todo = OfGroup(work[w].ops, g)
            /\ work'[w].send = work[w].send
            /\ work'[w].expires = {a \in finished : a.group = g}
            /\ work' = [v \in Worker |-> work'[v]]
            /\ \A v \in Worker : v # w =>
                  work'[v] = work[v] \/ work'[v] = [work[v] EXCEPT !.alone = FALSE]
  BY ApplyGroupFacts
<1>3. PICK r \in Work : r = work[w] /\ WorkerInv(r)
  BY DEF TypeInv, WorkInv
<1>4. PICK s \in Work : s = work'[w]
  BY <1>2
<1>5. g \in Groups(r.ops)
  BY <1>1, <1>2, <1>3 DEF WorkerInv
<1>6. WorkerInv(s)'
  BY <1>1, <1>2, <1>3, <1>4, <1>5, GoOn
<1>7. WorkerInv(work[w])'
  BY <1>4, <1>6 DEF WorkerInv
<1>8. runs' \in 0..MaxRuns /\ runs <= runs' /\ finished' \subseteq Application
  BY <1>1, MetricStorageAssumption DEF TypeInv, WorkInv, MetricStorageAssumption
<1>9. WorkInv'
  <2>1. CollectorsStay /\ DOMAIN work' = Worker
    BY <1>1, <1>2 DEF CollectorsStay
  <2> QED
    BY <1>2, <1>7, <1>8, <2>1, WorkKept DEF TypeInv
<1>10. ASSUME NEW v \in Worker, v # w PROVE work'[v].stage = work[v].stage
  <2>1. PICK q \in Work : q = work[v]
    BY DEF TypeInv, WorkInv
  <2> QED
    BY <1>2, <1>10, <2>1, AloneOnly
<1>11. LockInv'
  <2>1. Nobody \notin Worker
    BY MetricStorageAssumption DEF MetricStorageAssumption
  <2> QED
    BY <1>1, <1>2, <1>10, <2>1, LockKept DEF TypeInv
<1>12. VecInv' /\ ColInv' /\ CallInv'
  BY <1>1 DEF TypeInv, VecInv, ColInv, CallInv
<1> QED
  BY <1>9, <1>11, <1>12 DEF TypeInv

\* A step of one worker on its groups.
LEMMA TypeStep ==
  ASSUME TypeInv, NEW w \in Worker, OthersKept(w), work'[w] \in Work, WorkerInv(work[w])',
         UNCHANGED <<vecs, call, runs>>, finished' \subseteq Application,
         ColInv', CollectorsStay,
         \/ mtx = Nobody /\ mtx' = w /\ work'[w].stage = "expire"
         \/ mtx' = mtx /\ (work'[w].stage = "expire" <=> work[w].stage = "expire")
         \/ mtx = w /\ mtx' = Nobody /\ work'[w].stage # "expire"
  PROVE  TypeInv'
<1>1. runs' \in 0..MaxRuns /\ runs <= runs' /\ Nobody \notin Worker
  BY MetricStorageAssumption DEF TypeInv, WorkInv, MetricStorageAssumption
<1>2. DOMAIN work' = Worker
  BY DEF OthersKept
<1>3. WorkInv'
  BY <1>1, <1>2, WorkKept DEF TypeInv, OthersKept
<1>4. \A v \in Worker : v # w => work'[v].stage = work[v].stage
  BY DEF OthersKept
<1>5. LockInv'
  BY <1>1, <1>4, LockKept DEF TypeInv
<1>6. VecInv' /\ CallInv'
  BY DEF TypeInv, VecInv, CallInv
<1> QED
  BY <1>3, <1>5, <1>6 DEF TypeInv

\* A collector that expires a group keeps its type and its names.
Expires(n, g, h) == collectors' = [collectors EXCEPT ![n].series = WithoutGroup(@, g, h)]

LEMMA ExpireCollector ==
  ASSUME TypeInv, NEW n \in DOMAIN collectors, NEW g, NEW h, Expires(n, g, h)
  PROVE  /\ ColInv' /\ CollectorsStay /\ DOMAIN collectors' = DOMAIN collectors
         /\ collectors'[n].names = collectors[n].names
         /\ collectors'[n].series = WithoutGroup(collectors[n].series, g, h)
         /\ \A m \in DOMAIN collectors : m # n => collectors'[m] = collectors[m]
<1>1. PICK S : S = WithoutGroup(collectors[n].series, g, h)
  OBVIOUS
<1>2. collectors' = [collectors EXCEPT ![n].series = S]
  BY <1>1 DEF Expires
<1>3. collectors[n] = [type |-> collectors[n].type, names |-> collectors[n].names,
                       series |-> collectors[n].series]
  BY DEF TypeInv, ColInv
<1>4. /\ DOMAIN collectors' = DOMAIN collectors
      /\ collectors'[n] = [type |-> collectors[n].type, names |-> collectors[n].names, series |-> S]
      /\ \A m \in DOMAIN collectors : m # n => collectors'[m] = collectors[m]
  BY <1>2, <1>3, SeriesUpdate
<1>5. ColInv' /\ CollectorsStay
  BY <1>4 DEF TypeInv, ColInv, CollectorsStay
<1> QED
  BY <1>1, <1>4, <1>5

LEMMA TypeExpireGroupMetrics ==
  ASSUME TypeInv, NEW w \in Worker, ExpireGroupMetrics(w)
  PROVE  TypeInv'
<1>1. UNCHANGED <<vecs, call, runs, finished, mtx>>
  BY DEF ExpireGroupMetrics, history
<1>2. PICK n \in work[w].left :
            /\ OthersKept(w)
            /\ work'[w] \in Work /\ Same(work[w], work'[w])
            /\ work'[w].stage = "expire" /\ work[w].stage = "expire"
            /\ work'[w].group = work[w].group /\ work'[w].groups = work[w].groups
            /\ work'[w].left = work[w].left \ {n}
            /\ work'[w].todo = work[w].todo /\ work'[w].send = work[w].send
            /\ work'[w].expires = work[w].expires
            /\ collectors' = [collectors EXCEPT ![n].series =
                                 WithoutGroup(@, work[w].group, work[w].hook)]
  BY ExpireGroupFacts
<1>3. PICK r \in Work : r = work[w] /\ WorkerInv(r)
  BY DEF TypeInv, WorkInv
<1>4. PICK s \in Work : s = work'[w]
  BY <1>2
<1>5. r.group \in Groups(r.ops) /\ r.todo \subseteq OfGroup(r.ops, r.group)
  BY <1>2, <1>3 DEF WorkerInv
<1>10. n \in DOMAIN collectors /\ Expires(n, r.group, r.hook)
  BY <1>2, <1>3 DEF WorkerInv, Expires
<1>8. ColInv' /\ CollectorsStay /\ s.left \subseteq DOMAIN collectors'
  BY <1>2, <1>3, <1>4, <1>10, ExpireCollector DEF WorkerInv
<1>6. WorkerInv(s)'
  BY <1>1, <1>2, <1>3, <1>4, <1>5, <1>8, GoOn
<1>7. WorkerInv(work[w])'
  BY <1>4, <1>6 DEF WorkerInv
<1>9. finished' \subseteq Application
  BY <1>1 DEF TypeInv, WorkInv
<1> QED
  BY <1>1, <1>2, <1>7, <1>8, <1>9, TypeStep

LEMMA TypeExpired ==
  ASSUME TypeInv, NEW w \in Worker, Expired(w)
  PROVE  TypeInv'
<1>1. /\ UNCHANGED <<vecs, collectors, call, runs, finished>> /\ mtx' = Nobody
      /\ work[w].stage = "expire" /\ Move(w, "ops") /\ "ops" \in Stages
  BY DEF Expired, At, Stages
<1>2. /\ OthersKept(w) /\ work'[w] \in Work /\ Same(work[w], work'[w])
      /\ work'[w].stage = "ops"
      /\ work'[w].group = work[w].group /\ work'[w].groups = work[w].groups
      /\ work'[w].todo = work[w].todo /\ work'[w].send = work[w].send
  BY <1>1, MoveFacts
<1>3. PICK r \in Work : r = work[w] /\ WorkerInv(r)
  BY DEF TypeInv, WorkInv
<1>4. PICK s \in Work : s = work'[w]
  BY <1>2
<1>5. r.group \in Groups(r.ops) /\ r.todo \subseteq OfGroup(r.ops, r.group)
  BY <1>1, <1>3 DEF WorkerInv
<1>6. WorkerInv(s)'
  BY <1>1, <1>2, <1>3, <1>4, <1>5, GoOn
<1>7. WorkerInv(work[w])'
  BY <1>4, <1>6 DEF WorkerInv
<1>8. ColInv' /\ CollectorsStay /\ finished' \subseteq Application /\ mtx = w
  BY <1>1 DEF TypeInv, WorkInv, ColInv, CollectorsStay, LockInv
<1> QED
  BY <1>1, <1>2, <1>7, <1>8, TypeStep

LEMMA TypeExpireOp ==
  ASSUME TypeInv, NEW w \in Worker, ExpireOp(w)
  PROVE  TypeInv'
<1>1. UNCHANGED <<vecs, collectors, call, runs, finished>> /\ mtx = Nobody /\ mtx' = w
  BY DEF ExpireOp, history
<1>2. PICK i \in work[w].todo :
            /\ OthersKept(w)
            /\ work'[w] \in Work /\ Same(work[w], work'[w])
            /\ work'[w].stage = "expire" /\ work[w].stage = "ops"
            /\ work'[w].group = work[w].group /\ work'[w].groups = work[w].groups
            /\ work'[w].left = DOMAIN collectors
            /\ work'[w].todo = work[w].todo \ {i} /\ work'[w].send = work[w].send
            /\ work'[w].expires = work[w].expires
  BY ExpireOpFacts
<1>3. PICK r \in Work : r = work[w] /\ WorkerInv(r)
  BY DEF TypeInv, WorkInv
<1>4. PICK s \in Work : s = work'[w]
  BY <1>2
<1>5. r.group \in Groups(r.ops) /\ r.todo \subseteq OfGroup(r.ops, r.group)
  BY <1>2, <1>3 DEF WorkerInv
<1>6. WorkerInv(s)'
  BY <1>1, <1>2, <1>3, <1>4, <1>5, GoOn
<1>7. WorkerInv(work[w])'
  BY <1>4, <1>6 DEF WorkerInv
<1>8. ColInv' /\ CollectorsStay /\ finished' \subseteq Application
  BY <1>1 DEF TypeInv, WorkInv, ColInv, CollectorsStay
<1> QED
  BY <1>1, <1>2, <1>7, <1>8, TypeStep

\* A collector that is created is a new one.
LEMMA CreateCollector ==
  ASSUME TypeInv, NEW n \in NameSet, n \notin DOMAIN collectors, NEW t \in {"add", "set"}, NEW L,
         collectors' = Put(collectors, n, [type |-> t, names |-> L, series |-> Empty])
  PROVE  /\ ColInv' /\ CollectorsStay
         /\ DOMAIN collectors' = DOMAIN collectors \union {n}
         /\ collectors'[n] = [type |-> t, names |-> L, series |-> Empty]
         /\ \A m \in DOMAIN collectors : collectors'[m] = collectors[m]
<1> DEFINE r == [type |-> t, names |-> L, series |-> Empty]
<1>1. /\ DOMAIN collectors' = DOMAIN collectors \union {n}
      /\ collectors'[n] = r
      /\ \A m \in DOMAIN collectors : collectors'[m] = collectors[m]
  BY DEF Put
<1>2. CollectorsStay
  BY <1>1 DEF CollectorsStay
<1>3. ASSUME NEW m \in DOMAIN collectors'
      PROVE  /\ collectors'[m] = [type |-> collectors'[m].type, names |-> collectors'[m].names,
                                  series |-> collectors'[m].series]
             /\ collectors'[m].type \in {"add", "set"}
  <2>1. CASE m = n
    BY <1>1, <2>1
  <2>2. CASE m # n
    <3>1. m \in DOMAIN collectors /\ collectors'[m] = collectors[m]
      BY <1>1, <2>2
    <3> QED
      BY <3>1 DEF TypeInv, ColInv
  <2> QED
    BY <2>1, <2>2
<1>4. ColInv'
  BY <1>1, <1>3 DEF TypeInv, ColInv
<1> QED
  BY <1>1, <1>2, <1>4

\* The operation is dropped, or its collector is there with the right type.
LEMMA GetOrCreateFacts ==
  ASSUME TypeInv, NEW w \in Worker, GetOrCreateCollector(w)
  PROVE  \E i \in work[w].todo :
           LET op == work[w].ops[i]
               names == DOMAIN MergeLabels(op.labels, HookLabel(work[w].hook))
           IN /\ First(i, work[w].todo) /\ work[w].stage = "ops" /\ mtx = Nobody
              /\ i \in DOMAIN work[w].ops /\ op.name \in NameSet /\ op.group = work[w].group
              /\ op.action \in {"add", "set"}
              /\ \/ /\ collectors' = collectors /\ op.name \in DOMAIN collectors
                    /\ collectors[op.name].type = op.action /\ Move(w, "store")
                 \/ /\ collectors' = collectors /\ op.name \in Registered
                    /\ op.name \in DOMAIN collectors => collectors[op.name].type # op.action
                    /\ work' = [work EXCEPT ![w].todo = @ \ {i}]
                 \/ /\ op.name \notin Registered
                    /\ collectors' = Put(collectors, op.name,
                            [type |-> op.action, names |-> names, series |-> Empty])
                    /\ Move(w, "store")
<1> DEFINE op(i) == work[w].ops[i]
           names(i) == DOMAIN MergeLabels(op(i).labels, HookLabel(work[w].hook))
<1>1. PICK i \in work[w].todo :
         /\ First(i, work[w].todo)
         /\ op(i).action # "expire"
         /\ \/ /\ op(i).name \in DOMAIN collectors
               /\ IF collectors[op(i).name].type = op(i).action THEN Move(w, "store")
                  ELSE work' = [work EXCEPT ![w].todo = @ \ {i}]
               /\ UNCHANGED collectors
            \/ /\ op(i).name \notin Registered
               /\ collectors' = Put(collectors, op(i).name,
                        [type |-> op(i).action, names |-> names(i), series |-> Empty])
               /\ Move(w, "store")
            \/ /\ op(i).name \in Registered \ DOMAIN collectors
               /\ work' = [work EXCEPT ![w].todo = @ \ {i}]
               /\ UNCHANGED collectors
  BY DEF GetOrCreateCollector
<1>2. work[w].stage = "ops" /\ mtx = Nobody /\ WorkerInv(work[w]) /\ work[w] \in Work
  BY DEF GetOrCreateCollector, At, TypeInv, WorkInv
<1>3. i \in DOMAIN work[w].ops /\ work[w].ops \in Files /\ op(i).group = work[w].group
  BY <1>2 DEF WorkerInv, OfGroup, Work
<1>4. op(i).name \in NameSet
  BY <1>3, FileFacts
<1>5. op(i).action \in {"add", "set"}
  <2>1. ValidateMetricOperation(op(i))
    BY <1>2, <1>3 DEF WorkerInv, ValidateOperations
  <2> QED
    BY <1>1, <2>1 DEF ValidateMetricOperation
<1>6. op(i).name \in DOMAIN collectors => op(i).name \in Registered
  BY RegisteredFacts
<1> QED
  BY <1>1, <1>2, <1>3, <1>4, <1>5, <1>6

LEMMA TypeGetOrCreateCollector ==
  ASSUME TypeInv, NEW w \in Worker, GetOrCreateCollector(w)
  PROVE  TypeInv'
<1> DEFINE op(i) == work[w].ops[i]
           names(i) == DOMAIN MergeLabels(op(i).labels, HookLabel(work[w].hook))
<1>1. UNCHANGED <<vecs, call, runs, finished, mtx>>
  BY DEF GetOrCreateCollector, history
<1>2. PICK i \in work[w].todo :
              /\ First(i, work[w].todo) /\ work[w].stage = "ops"
              /\ op(i).name \in NameSet /\ op(i).action \in {"add", "set"}
              /\ \/ /\ collectors' = collectors /\ op(i).name \in DOMAIN collectors
                    /\ collectors[op(i).name].type = op(i).action /\ Move(w, "store")
                 \/ /\ collectors' = collectors
                    /\ work' = [work EXCEPT ![w].todo = @ \ {i}]
                 \/ /\ op(i).name \notin Registered
                    /\ collectors' = Put(collectors, op(i).name,
                            [type |-> op(i).action, names |-> names(i), series |-> Empty])
                    /\ Move(w, "store")
  BY GetOrCreateFacts
<1>3. PICK r \in Work : r = work[w] /\ WorkerInv(r)
  BY DEF TypeInv, WorkInv
<1>4. /\ r.group \in Groups(r.ops) /\ r.todo \subseteq OfGroup(r.ops, r.group)
      /\ r.todo \in SUBSET Position
  BY <1>2, <1>3 DEF WorkerInv, Work
<1>5. finished' \subseteq Application /\ "store" \in Stages
  BY <1>1 DEF TypeInv, WorkInv, Stages
<1>6. CASE collectors' = collectors /\ work' = [work EXCEPT ![w].todo = @ \ {i}]
  <2>1. /\ OthersKept(w) /\ work'[w] \in Work /\ Same(work[w], work'[w])
        /\ work'[w].stage = "ops"
        /\ work'[w].group = work[w].group /\ work'[w].groups = work[w].groups
        /\ work'[w].todo = work[w].todo \ {i} /\ work'[w].send = work[w].send
    BY <1>2, <1>6, TodoFacts
  <2>2. PICK s \in Work : s = work'[w]
    BY <2>1
  <2>3. WorkerInv(s)'
    BY <1>1, <1>2, <1>3, <1>4, <2>1, <2>2, GoOn
  <2>4. WorkerInv(work[w])' /\ ColInv' /\ CollectorsStay
    BY <1>6, <2>2, <2>3 DEF WorkerInv, TypeInv, ColInv, CollectorsStay
  <2> QED
    BY <1>1, <1>2, <1>5, <2>1, <2>4, TypeStep
<1>7. CASE ~(collectors' = collectors /\ work' = [work EXCEPT ![w].todo = @ \ {i}])
  <2>1. /\ Move(w, "store") /\ ColInv' /\ CollectorsStay
        /\ op(i).name \in DOMAIN collectors' /\ collectors'[op(i).name].type = op(i).action
    <3>1. CASE /\ collectors' = collectors /\ op(i).name \in DOMAIN collectors
               /\ collectors[op(i).name].type = op(i).action /\ Move(w, "store")
      BY <3>1 DEF TypeInv, ColInv, CollectorsStay
    <3>2. CASE /\ op(i).name \notin Registered
               /\ collectors' = Put(collectors, op(i).name,
                            [type |-> op(i).action, names |-> names(i), series |-> Empty])
               /\ Move(w, "store")
      <4>1. op(i).name \notin DOMAIN collectors
        BY <3>2, RegisteredFacts
      <4>2. PICK n \in NameSet, t \in {"add", "set"}, L \in {names(i)} : n = op(i).name /\ t = op(i).action /\ L = names(i)
        BY <1>2
      <4>3. /\ ColInv' /\ CollectorsStay
            /\ DOMAIN collectors' = DOMAIN collectors \union {n}
            /\ collectors'[n] = [type |-> t, names |-> L, series |-> Empty]
        <5>1. /\ n \notin DOMAIN collectors
              /\ collectors' = Put(collectors, n, [type |-> t, names |-> L, series |-> Empty])
          BY <3>2, <4>1, <4>2
        <5> QED
          BY <5>1, CreateCollector
      <4> QED
        BY <3>2, <4>2, <4>3
    <3> QED
      BY <1>2, <1>7, <3>1, <3>2
  <2>2. /\ OthersKept(w) /\ work'[w] \in Work /\ Same(work[w], work'[w])
        /\ work'[w].stage = "store"
        /\ work'[w].group = work[w].group /\ work'[w].groups = work[w].groups
        /\ work'[w].todo = work[w].todo /\ work'[w].send = work[w].send
    BY <1>5, <2>1, MoveFacts
  <2>3. PICK s \in Work : s = work'[w]
    BY <2>2
  <2>4. \A j \in s.todo : First(j, s.todo) => j = i
    BY <1>2, <1>3, <1>4, <2>2, <2>3, FirstUnique
  <2>5. WorkerInv(s)'
    BY <1>1, <1>2, <1>3, <1>4, <2>1, <2>2, <2>3, <2>4, GoOn
  <2>6. WorkerInv(work[w])'
    BY <2>3, <2>5 DEF WorkerInv
  <2> QED
    BY <1>1, <1>2, <1>5, <2>1, <2>2, <2>6, TypeStep
<1> QED
  BY <1>6, <1>7

LEMMA TypeStore ==
  ASSUME TypeInv, NEW w \in Worker, Store(w)
  PROVE  TypeInv'
<1> DEFINE op(i) == work[w].ops[i]
           col(i) == collectors[op(i).name]
<1>1. UNCHANGED <<vecs, call, runs, finished, mtx>> /\ work[w].stage = "store"
  BY DEF Store, At, history
<1>11. PICK i, key, new : i \in work[w].todo /\ Stores(w, i, key, new)
  BY StoreFacts
<1>12. PICK S : S = Put(col(i).series, key, new)
  OBVIOUS
<1>2. /\ work' = [work EXCEPT ![w].stage = "ops", ![w].todo = @ \ {i}]
      /\ op(i).name \in DOMAIN collectors
      /\ DOMAIN collectors' = DOMAIN collectors
      /\ collectors'[op(i).name] = [type |-> col(i).type, names |-> col(i).names, series |-> S]
      /\ \A n \in DOMAIN collectors : n # op(i).name => collectors'[n] = collectors[n]
  BY <1>11, <1>12 DEF Stores
<1>3. /\ OthersKept(w) /\ work'[w] \in Work /\ Same(work[w], work'[w])
      /\ work'[w].stage = "ops"
      /\ work'[w].group = work[w].group /\ work'[w].groups = work[w].groups
      /\ work'[w].todo = work[w].todo \ {i} /\ work'[w].send = work[w].send
  BY <1>2, TodoFacts
<1>4. PICK r \in Work : r = work[w] /\ WorkerInv(r)
  BY DEF TypeInv, WorkInv
<1>5. PICK s \in Work : s = work'[w]
  BY <1>3
<1>6. r.group \in Groups(r.ops) /\ r.todo \subseteq OfGroup(r.ops, r.group)
  BY <1>1, <1>4 DEF WorkerInv
<1>7. WorkerInv(s)'
  BY <1>1, <1>3, <1>4, <1>5, <1>6, GoOn
<1>8. WorkerInv(work[w])'
  BY <1>5, <1>7 DEF WorkerInv
<1>9. ColInv' /\ CollectorsStay
  BY <1>2 DEF TypeInv, ColInv, CollectorsStay
<1>10. finished' \subseteq Application
  BY <1>1 DEF TypeInv, WorkInv
<1> QED
  BY <1>1, <1>3, <1>8, <1>9, <1>10, TypeStep

LEMMA TypeGroupApplied ==
  ASSUME TypeInv, NEW w \in Worker, GroupApplied(w)
  PROVE  TypeInv'
<1>1. /\ UNCHANGED <<vecs, collectors, call, runs, mtx>> /\ work[w].stage = "ops"
      /\ Move(w, "groups") /\ "groups" \in Stages
      /\ finished' = finished \union {[run |-> work[w].run, group |-> work[w].group]}
  BY DEF GroupApplied, At, storage, Stages
<1>2. /\ OthersKept(w) /\ work'[w] \in Work /\ Same(work[w], work'[w])
      /\ work'[w].stage = "groups"
      /\ work'[w].group = work[w].group /\ work'[w].groups = work[w].groups
      /\ work'[w].todo = work[w].todo /\ work'[w].send = work[w].send
  BY <1>1, MoveFacts
<1>3. PICK r \in Work : r = work[w] /\ WorkerInv(r)
  BY DEF TypeInv, WorkInv
<1>4. PICK s \in Work : s = work'[w]
  BY <1>2
<1>6. WorkerInv(s)'
  BY <1>1, <1>2, <1>3, <1>4, GoOn
<1>7. WorkerInv(work[w])'
  BY <1>4, <1>6 DEF WorkerInv
<1>8. r.group \in GroupSet /\ r.run \in Nat
  <2>1. r.group \in Groups(r.ops) /\ r.ops \in Files
    BY <1>1, <1>3 DEF WorkerInv, Work
  <2> QED
    BY <2>1, FileFacts DEF Work
<1>9. ColInv' /\ CollectorsStay /\ finished' \subseteq Application
  BY <1>1, <1>3, <1>8 DEF TypeInv, WorkInv, ColInv, CollectorsStay, Application
<1> QED
  BY <1>1, <1>2, <1>7, <1>9, TypeStep

-----------------------------------------------------------------------------
(* Hook runs.                                                              *)

LEMMA RunHookFacts ==
  ASSUME TypeInv, NEW w \in Worker, RunHook(w)
  PROVE  /\ work[w].stage = "idle" /\ call[w] = NoCall /\ runs' = runs + 1 /\ runs < MaxRuns
         /\ OthersKept(w) /\ work'[w] \in Work
         /\ \E h \in Hook : \E ops \in FilesOf(h) :
              /\ work'[w].stage = IF ValidateOperations(ops) THEN "groups" ELSE "failed"
              /\ work'[w].hook = h /\ work'[w].run = runs /\ work'[w].ops = ops
              /\ work'[w].groups = Groups(ops) /\ work'[w].send = OfGroup(ops, Nil)
              /\ call' = [call EXCEPT ![w] =
                            Call("histogram", "hook_run_sys_seconds", 1, RunLabels(w, h))]
<1>1. /\ work[w].stage = "idle" /\ call[w] = NoCall /\ runs' = runs + 1 /\ runs < MaxRuns
      /\ work \in [Worker -> Work] /\ runs \in Nat
  BY MetricStorageAssumption DEF RunHook, At, TypeInv, WorkInv, MetricStorageAssumption
<1> DEFINE rec(h, ops) ==
             [stage |-> IF ValidateOperations(ops) THEN "groups" ELSE "failed", hook |-> h,
              run |-> runs, ops |-> ops, groups |-> Groups(ops), group |-> Nil, left |-> {},
              todo |-> {}, send |-> OfGroup(ops, Nil), alone |-> TRUE, expires |-> {}]
<1>13. PICK h \in HooksOf[w] : \E file \in Output[h] :
        /\ work' = [work EXCEPT ![w] = rec(h, MetricOperationsFromFile(file))]
        /\ call' = [call EXCEPT ![w] =
                      Call("histogram", "hook_run_sys_seconds", 1, RunLabels(w, h))]
  BY DEF RunHook
<1>2. PICK file \in Output[h] :
        /\ work' = [work EXCEPT ![w] = rec(h, MetricOperationsFromFile(file))]
        /\ call' = [call EXCEPT ![w] =
                      Call("histogram", "hook_run_sys_seconds", 1, RunLabels(w, h))]
  BY <1>13
<1>3. PICK ops : ops = MetricOperationsFromFile(file)
  OBVIOUS
<1>4. h \in Hook /\ ops \in FilesOf(h)
  BY <1>3 DEF Hook, FilesOf
<1>5. /\ ops \in Files /\ Groups(ops) \subseteq GroupSet /\ OfGroup(ops, Nil) \subseteq Position
  BY <1>4, FileFacts DEF OfGroup
<1>6. PICK x \in Stages : x = IF ValidateOperations(ops) THEN "groups" ELSE "failed"
  BY DEF Stages
<1>7. PICK G \in SUBSET GroupSet, I \in SUBSET Position : G = Groups(ops) /\ I = OfGroup(ops, Nil)
  BY <1>5
<1>8. PICK s : s = [stage |-> x, hook |-> h, run |-> runs, ops |-> ops, groups |-> G, group |-> Nil,
                    left |-> {}, todo |-> {}, send |-> I, alone |-> TRUE, expires |-> {}]
  OBVIOUS
<1>9. work' = [work EXCEPT ![w] = s]
  BY <1>2, <1>3, <1>6, <1>7, <1>8
<1>10. /\ s \in Work /\ s.stage = x /\ s.hook = h /\ s.run = runs /\ s.ops = ops /\ s.groups = G
       /\ s.send = I
  BY <1>1, <1>4, <1>5, <1>8 DEF Work
<1>11. OthersKept(w) /\ work'[w] = s
  BY <1>1, <1>9 DEF OthersKept
<1>12. /\ work'[w].stage = IF ValidateOperations(ops) THEN "groups" ELSE "failed"
       /\ work'[w].hook = h /\ work'[w].run = runs /\ work'[w].ops = ops
       /\ work'[w].groups = Groups(ops) /\ work'[w].send = OfGroup(ops, Nil)
  BY <1>6, <1>7, <1>10, <1>11
<1> QED
  BY <1>1, <1>2, <1>4, <1>10, <1>11, <1>12

\* A call that begins.
LEMMA NewCall ==
  ASSUME TypeInv, NEW w \in Worker, NEW k \in Kinds, NEW n \in NameSet \union OwnNames,
         NEW x \in ValueSet, NEW l \in LabelSet, UNCHANGED vecs,
         call' = [call EXCEPT ![w] = Call(k, n, x, l)]
  PROVE  CallInv'
<1>4. Call(k, n, x, l) \in Calls
  BY DEF Call, Calls
<1>5. Call(k, n, x, l).step = "lookup" /\ Call(k, n, x, l).kind = k
  BY DEF Call
<1>1. PICK c \in Calls : c = Call(k, n, x, l) /\ c.step = "lookup" /\ c.kind = k
  BY <1>4, <1>5
<1>2. call' = [call EXCEPT ![w] = c] /\ call \in [Worker -> Calls]
  BY <1>1 DEF TypeInv, CallInv
<1>3. call' \in [Worker -> Calls] /\ call'[w] = c /\ \A v \in Worker : v # w => call'[v] = call[v]
  BY <1>2
<1> QED
  BY <1>1, <1>3, CallKept DEF TypeInv

LEMMA TypeRunHook ==
  ASSUME TypeInv, NEW w \in Worker, RunHook(w)
  PROVE  TypeInv'
<1>1. UNCHANGED <<vecs, collectors, mtx, finished>>
  BY DEF RunHook, storage
<1>2. PICK h, ops :
        /\ h \in Hook /\ ops \in FilesOf(h)
        /\ work'[w].stage = IF ValidateOperations(ops) THEN "groups" ELSE "failed"
        /\ work'[w].hook = h /\ work'[w].run = runs /\ work'[w].ops = ops
        /\ work'[w].groups = Groups(ops) /\ work'[w].send = OfGroup(ops, Nil)
        /\ call' = [call EXCEPT ![w] = Call("histogram", "hook_run_sys_seconds", 1, RunLabels(w, h))]
  BY RunHookFacts
<1>3. /\ work[w].stage = "idle" /\ runs' = runs + 1 /\ runs < MaxRuns
      /\ OthersKept(w) /\ work'[w] \in Work /\ runs \in Nat /\ MaxRuns \in Nat
  BY RunHookFacts, MetricStorageAssumption DEF MetricStorageAssumption, TypeInv, WorkInv
<1>4. PICK s \in Work : s = work'[w]
  BY <1>3
<1>5. WorkerInv(s)'
  <2>1. /\ s.hook = h /\ s.ops = ops /\ ops \in FilesOf(h) /\ s.run < runs' /\ s.send \subseteq DOMAIN s.ops
        /\ s.groups = Groups(s.ops)
    BY <1>2, <1>3, <1>4 DEF OfGroup
  <2>2. s.stage = "failed" \/ (s.stage = "groups" /\ ValidateOperations(s.ops))
    BY <1>2, <1>4
  <2> QED
    BY <1>2, <2>1, <2>2 DEF WorkerInv
<1>6. WorkerInv(work[w])'
  BY <1>4, <1>5 DEF WorkerInv
<1>7. /\ runs' \in 0..MaxRuns /\ runs <= runs' /\ finished' \subseteq Application
      /\ CollectorsStay /\ DOMAIN work' = Worker
  BY <1>1, <1>3 DEF TypeInv, WorkInv, CollectorsStay, OthersKept
<1>8. WorkInv'
  BY <1>3, <1>6, <1>7, WorkKept DEF TypeInv, OthersKept
<1>9. LockInv'
  <2>1. Nobody \notin Worker /\ work'[w].stage # "expire"
    BY <1>2, MetricStorageAssumption DEF MetricStorageAssumption
  <2> QED
    BY <1>1, <1>3, <2>1, LockKept DEF TypeInv, OthersKept
<1>10. CallInv'
  <2>1. "histogram" \in Kinds /\ "hook_run_sys_seconds" \in OwnNames /\ 1 \in ValueSet
    BY DEF Kinds, OwnNames, ValueSet
  <2>2. RunLabels(w, h) \in LabelSet
    BY <1>2 DEF LabelSet
  <2> QED
    BY <1>1, <1>2, <2>1, <2>2, NewCall
<1>11. VecInv' /\ ColInv'
  BY <1>1 DEF TypeInv, VecInv, ColInv
<1> QED
  BY <1>8, <1>9, <1>10, <1>11 DEF TypeInv

LEMMA TypeSendBatchV0 ==
  ASSUME TypeInv, NEW w \in Worker, SendBatchV0(w)
  PROVE  TypeInv'
<1> DEFINE op(i) == work[w].ops[i]
           labels(i) == MergeLabels(op(i).labels, HookLabel(work[w].hook))
<1>1. UNCHANGED <<vecs, collectors, mtx, runs, finished>> /\ work[w].stage = "groups"
  BY DEF SendBatchV0, At, storage, history
<1>2. PICK i \in work[w].send :
        \/ /\ \/ call' = [call EXCEPT ![w] = Call("counter", op(i).name, op(i).add, labels(i))]
              \/ call' = [call EXCEPT ![w] = Call("gauge", op(i).name, op(i).set, labels(i))]
           /\ work' = [work EXCEPT ![w].send = @ \ {i}]
        \/ Move(w, "failed") /\ UNCHANGED call
  BY DEF SendBatchV0
<1>3. PICK r \in Work : r = work[w] /\ WorkerInv(r)
  BY DEF TypeInv, WorkInv
<1>4. /\ work \in [Worker -> Work] /\ finished' \subseteq Application
      /\ "failed" \in Stages /\ ColInv' /\ CollectorsStay
      /\ runs' \in 0..MaxRuns /\ runs <= runs' /\ Nobody \notin Worker
  BY <1>1, MetricStorageAssumption
     DEF TypeInv, WorkInv, Stages, ColInv, CollectorsStay, MetricStorageAssumption
<1>5. CASE Move(w, "failed") /\ UNCHANGED call
  <2>1. /\ OthersKept(w) /\ work'[w] \in Work /\ Same(work[w], work'[w])
        /\ work'[w].stage = "failed" /\ work'[w].send = work[w].send
    BY <1>4, <1>5, MoveFacts
  <2>2. PICK s \in Work : s = work'[w]
    BY <2>1
  <2>3. WorkerInv(s)'
    BY <1>1, <1>3, <2>1, <2>2 DEF WorkerInv, Same
  <2>4. WorkerInv(work[w])'
    BY <2>2, <2>3 DEF WorkerInv
  <2> QED
    BY <1>1, <1>4, <1>5, <2>1, <2>4, TypeStep
<1>6. CASE /\ \/ call' = [call EXCEPT ![w] = Call("counter", op(i).name, op(i).add, labels(i))]
              \/ call' = [call EXCEPT ![w] = Call("gauge", op(i).name, op(i).set, labels(i))]
           /\ work' = [work EXCEPT ![w].send = @ \ {i}]
  <2>1. work'[w] = [work[w] EXCEPT !.send = @ \ {i}] /\ OthersKept(w)
    BY <1>4, <1>6 DEF OthersKept
  <2>2. /\ work'[w] \in Work /\ Same(r, work'[w]) /\ work'[w].stage = r.stage
        /\ work'[w].send = r.send \ {i} /\ work'[w].groups = r.groups
    BY <1>3, <2>1 DEF Work, Same
  <2>3. PICK s \in Work : s = work'[w]
    BY <2>2
  <2>4. WorkerInv(s)'
    BY <1>1, <1>3, <2>2, <2>3, GoOn
  <2>5. WorkerInv(work[w])' /\ DOMAIN work' = Worker
    BY <2>1, <2>3, <2>4 DEF WorkerInv, OthersKept
  <2>6. WorkInv'
    BY <1>4, <2>1, <2>2, <2>5, WorkKept DEF TypeInv, OthersKept
  <2>7. LockInv'
    BY <1>1, <1>3, <1>4, <2>1, <2>2, LockKept DEF TypeInv, OthersKept
  <2>8. CallInv'
    <3>1. r.ops \in Files /\ i \in DOMAIN r.ops /\ r.hook \in Hook
      BY <1>1, <1>3 DEF WorkerInv, Work
    <3>2. op(i) \in Ops /\ op(i).name \in NameSet
      BY <1>3, <3>1, FileFacts
    <3>3. op(i).add \in ValueSet /\ op(i).set \in ValueSet /\ "counter" \in Kinds /\ "gauge" \in Kinds
      BY <3>2 DEF ValueSet, Kinds
    <3>4. labels(i) \in LabelSet
      BY <1>3, <3>1, <3>2 DEF LabelSet
    <3>5. PICK n \in NameSet, x \in ValueSet, y \in ValueSet, l \in LabelSet :
              n = op(i).name /\ x = op(i).add /\ y = op(i).set /\ l = labels(i)
      BY <3>2, <3>3, <3>4
    <3>6. \/ call' = [call EXCEPT ![w] = Call("counter", n, x, l)]
          \/ call' = [call EXCEPT ![w] = Call("gauge", n, y, l)]
      BY <1>6, <3>5
    <3> QED
      BY <1>1, <3>3, <3>6, NewCall
  <2>9. VecInv'
    BY <1>1 DEF TypeInv, VecInv
  <2> QED
    BY <1>4, <2>6, <2>7, <2>8, <2>9 DEF TypeInv
<1> QED
  BY <1>2, <1>5, <1>6

\* A step of Report: a call for one of the operator's counters, on the way to the
\* next one or back to the queue.
LEMMA ReportFacts ==
  ASSUME NEW w \in Worker, Report(w)
  PROVE  /\ UNCHANGED <<vecs, collectors, mtx, runs, told, finished, gone, last>>
         /\ work[w].stage \in {"groups", "failed"} \union ReportStages
         /\ \E n \in OwnNames, x \in {0, 2} :
               call' = [call EXCEPT ![w] = Call("counter", n, x, RunLabels(w, work[w].hook))]
         /\ work' = [work EXCEPT ![w] = Idle] \/ \E t \in ReportStages : Move(w, t)
<1>1. CASE ReportAllowedErrors(w)
  BY <1>1 DEF ReportAllowedErrors, Counted, OwnNames, ReportStages, At, storage, history
<1>2. CASE ReportErrors(w)
  BY <1>2 DEF ReportErrors, Counted, OwnNames, ReportStages, At, storage, history
<1>3. CASE ReportSuccess(w)
  BY <1>3 DEF ReportSuccess, Counted, OwnNames, ReportStages, At, storage, history
<1> QED
  BY <1>1, <1>2, <1>3 DEF Report

LEMMA TypeReport ==
  ASSUME TypeInv, NEW w \in Worker, Report(w)
  PROVE  TypeInv'
<1>1. UNCHANGED <<vecs, collectors, mtx, runs, finished>>
  BY ReportFacts
<1>2. work[w].stage \in {"groups", "failed"} \union ReportStages
  BY ReportFacts
<1>3. PICK n \in OwnNames, x \in {0, 2} :
          call' = [call EXCEPT ![w] = Call("counter", n, x, RunLabels(w, work[w].hook))]
  BY ReportFacts
<1>4. /\ work \in [Worker -> Work] /\ finished' \subseteq Application
      /\ ColInv' /\ CollectorsStay /\ VecInv'
      /\ runs' \in 0..MaxRuns /\ runs <= runs' /\ Nobody \notin Worker
  BY <1>1, MetricStorageAssumption
     DEF TypeInv, WorkInv, ColInv, VecInv, CollectorsStay, MetricStorageAssumption
<1>5. Idle \in Work /\ Idle.stage = "idle" /\ Idle.send = {}
  BY DEF Idle, Work, Stages, Files
<1>6. /\ OthersKept(w) /\ DOMAIN work' = Worker
      /\ work'[w] \in Work /\ work'[w].stage # "expire" /\ WorkerInv(work[w])'
  <2>1. CASE work' = [work EXCEPT ![w] = Idle]
    <3>1. OthersKept(w) /\ work'[w] = Idle /\ DOMAIN work' = Worker
      BY <1>4, <2>1 DEF OthersKept
    <3>2. PICK s \in Work : s = Idle
      BY <1>5
    <3>3. WorkerInv(s)'
      BY <1>5, <3>2 DEF WorkerInv
    <3>4. WorkerInv(work[w])'
      BY <3>1, <3>2, <3>3 DEF WorkerInv
    <3> QED
      BY <1>5, <3>1, <3>4
  <2>2. ASSUME NEW t \in ReportStages, Move(w, t)
        PROVE  /\ OthersKept(w) /\ DOMAIN work' = Worker
               /\ work'[w] \in Work /\ work'[w].stage # "expire" /\ WorkerInv(work[w])'
    <3>1. t \in Stages /\ t \notin {"idle", "groups", "expire", "ops", "store"}
      BY DEF Stages, ReportStages
    <3>2. /\ OthersKept(w) /\ work'[w] \in Work /\ Same(work[w], work'[w])
          /\ work'[w].stage = t /\ work'[w].send = work[w].send
      BY <2>2, <3>1, MoveFacts
    <3>3. PICK r \in Work : r = work[w] /\ WorkerInv(r) /\ r.stage # "idle"
      BY <1>2 DEF TypeInv, WorkInv, ReportStages
    <3>4. PICK s \in Work : s = work'[w]
      BY <3>2
    <3>5. WorkerInv(s)'
      BY <1>1, <3>1, <3>2, <3>3, <3>4 DEF WorkerInv, Same
    <3>6. WorkerInv(work[w])'
      BY <3>4, <3>5 DEF WorkerInv
    <3> QED
      BY <3>1, <3>2, <3>6 DEF OthersKept
  <2> QED
    BY <2>1, <2>2, ReportFacts
<1>7. WorkInv'
  BY <1>4, <1>6, WorkKept DEF TypeInv, OthersKept
<1>8. LockInv'
  BY <1>1, <1>2, <1>4, <1>6, LockKept DEF TypeInv, OthersKept, ReportStages
<1>9. CallInv'
  <2>1. "counter" \in Kinds /\ x \in ValueSet
    BY DEF Kinds, ValueSet
  <2>2. RunLabels(w, work[w].hook) \in LabelSet
    <3>1. work[w].hook \in Hook
      BY <1>2 DEF TypeInv, WorkInv, WorkerInv, ReportStages
    <3> QED
      BY <3>1 DEF LabelSet
  <2> QED
    BY <1>1, <1>3, <2>1, <2>2, NewCall
<1> QED
  BY <1>4, <1>7, <1>8, <1>9 DEF TypeInv

-----------------------------------------------------------------------------

LEMMA TypeNext == TypeInv /\ [Next]_vars => TypeInv'
<1> SUFFICES ASSUME TypeInv, [Next]_vars PROVE TypeInv'
  OBVIOUS
<1>1. CASE UNCHANGED vars
  BY <1>1 DEF vars, TypeInv, VecInv, ColInv, CallInv, WorkInv, WorkerInv, LockInv
<1>2. CASE Next
  <2>1. PICK w \in Worker :
          \/ RunHook(w) \/ SendBatchV0(w) \/ Report(w)
          \/ VecCall(w)
          \/ ApplyGroup(w) \/ ExpireGroupMetrics(w) \/ Expired(w) \/ ExpireOp(w)
          \/ GetOrCreateCollector(w) \/ Store(w) \/ GroupApplied(w)
    BY <1>2 DEF Next
  <2> QED
    BY <2>1, TypeRunHook, TypeSendBatchV0, TypeReport, TypeVecCall, TypeApplyGroup,
       TypeExpireGroupMetrics, TypeExpired, TypeExpireOp, TypeGetOrCreateCollector, TypeStore,
       TypeGroupApplied
<1> QED
  BY <1>1, <1>2

\* For any workers, hooks and metrics files: vectors hold values only for their
\* own label names, a collector has a type, and the lock of the vault is with
\* the worker that expires a group, whatever Register, Write,
\* GetOrCreateCollector and Store of several workers do in between.
THEOREM TypeCorrect == Spec => []TypeOK
<1>1. TypeInv => TypeOK
  BY DEF TypeInv, VecInv, ColInv, WorkInv, LockInv, TypeOK, Kinds
<1> QED
  BY <1>1, TypeInit, TypeNext, PTL DEF Spec

-----------------------------------------------------------------------------
(* The owners of names.                                                    *)

Series(s) == s = [value |-> s.value, labels |-> s.labels, group |-> s.group, by |-> s.by]

\* A name has one owner, and a series is kept under its own labels.
OwnerInv ==
    /\ \A j, k \in Kinds : \A n \in DOMAIN vecs[j] : n \in DOMAIN vecs[k] => j = k
    /\ \A k \in Kinds : \A n \in DOMAIN vecs[k] : n \notin DOMAIN collectors
    /\ \A n \in DOMAIN collectors : \A key \in DOMAIN collectors[n].series :
        Series(collectors[n].series[key]) /\ collectors[n].series[key].labels = key

\* What Add and Set make of a series.
LEMMA SeriesShape ==
  ASSUME NEW s, NEW x, NEW me, Series(s)
  PROVE  /\ Series(AddTo(s, x, me)) /\ AddTo(s, x, me).labels = s.labels
         /\ AddTo(s, x, me).group = s.group /\ AddTo(s, x, me).by = s.by \union {me}
         /\ Series(SetTo(s, x, me)) /\ SetTo(s, x, me).labels = s.labels
         /\ SetTo(s, x, me).group = s.group /\ SetTo(s, x, me).by = {me}
<1>1. ASSUME NEW a, NEW l, NEW g, NEW b, NEW y, NEW c,
             s = [value |-> a, labels |-> l, group |-> g, by |-> b]
      PROVE  [s EXCEPT !.value = y, !.by = c] = [value |-> y, labels |-> l, group |-> g, by |-> c]
  <2> DEFINE m == [s EXCEPT !.value = y]
  <2>1. m = [value |-> y, labels |-> l, group |-> g, by |-> b]
    BY <1>1
  <2>2. [s EXCEPT !.value = y, !.by = c] = [m EXCEPT !.by = c]
    OBVIOUS
  <2> HIDE DEF m
  <2>3. [m EXCEPT !.by = c] = [value |-> y, labels |-> l, group |-> g, by |-> c]
    BY <2>1
  <2> QED
    BY <2>2, <2>3
<1> DEFINE X(y, c) == [s EXCEPT !.value = y, !.by = c]
<1>2. ASSUME NEW y, NEW c
      PROVE  /\ Series(X(y, c)) /\ X(y, c).labels = s.labels
             /\ X(y, c).group = s.group /\ X(y, c).by = c
  <2>4. PICK t : t = X(y, c)
    OBVIOUS
  <2>1. PICK a, l, g, b : a = s.value /\ l = s.labels /\ g = s.group /\ b = s.by
    OBVIOUS
  <2>2. s = [value |-> a, labels |-> l, group |-> g, by |-> b]
    BY <2>1 DEF Series
  <2>3. t = [value |-> y, labels |-> l, group |-> g, by |-> c]
    BY <1>1, <2>2, <2>4
  <2>5. Series(t) /\ t.labels = l /\ t.group = g /\ t.by = c
    BY <2>3 DEF Series
  <2> QED
    BY <2>1, <2>4, <2>5
<1>3. PICK y, c : y = s.value + Whole(x) /\ c = s.by \union {me}
  OBVIOUS
<1>4. AddTo(s, x, me) = X(y, c)
  BY <1>3 DEF AddTo
<1>5. SetTo(s, x, me) = X(x, {me})
  BY DEF SetTo
<1> HIDE DEF X
<1> QED
  BY <1>2, <1>3, <1>4, <1>5

\* The series that is written keeps its group when it is there, and gets that
\* of the application when it is new.
LEMMA StoredSeries ==
  ASSUME TypeInv, OwnerInv, NEW w \in Worker, NEW i \in work[w].todo, NEW key, NEW new,
         Stores(w, i, key, new)
  PROVE  /\ Series(new) /\ new.labels = key
         /\ key \in DOMAIN collectors[work[w].ops[i].name].series =>
               /\ new.group = collectors[work[w].ops[i].name].series[key].group
               /\ new.by \subseteq collectors[work[w].ops[i].name].series[key].by \union {Me(w)}
         /\ key \notin DOMAIN collectors[work[w].ops[i].name].series =>
               new.group = work[w].group /\ new.by \subseteq {Me(w)}
<1> DEFINE op == work[w].ops[i]
           col == collectors[op.name]
           labels == MergeLabels(op.labels, HookLabel(work[w].hook))
<1>1. PICK me : me = Me(w)
  OBVIOUS
<1>2. PICK old : old = IF key \in DOMAIN col.series THEN col.series[key]
                       ELSE NewSeries(LabelValues(labels, col.names), work[w].group)
  OBVIOUS
<1>3. /\ op.name \in DOMAIN collectors /\ key = LabelValues(labels, col.names)
      /\ new = IF op.action = "add" THEN AddTo(old, op.value, me) ELSE SetTo(old, op.value, me)
  BY <1>1, <1>2 DEF Stores
<1>4. /\ Series(old) /\ old.labels = key
      /\ key \in DOMAIN col.series => old = col.series[key]
      /\ key \notin DOMAIN col.series => old.group = work[w].group /\ old.by = {}
  <2>1. CASE key \in DOMAIN col.series
    BY <1>2, <1>3, <2>1 DEF OwnerInv
  <2>2. CASE key \notin DOMAIN col.series
    <3>1. PICK g : g = work[w].group
      OBVIOUS
    <3>2. old = [value |-> 0, labels |-> key, group |-> g, by |-> {}]
      BY <1>2, <1>3, <2>2, <3>1 DEF NewSeries
    <3>3. Series(old) /\ old.labels = key /\ old.group = g /\ old.by = {}
      BY <3>2 DEF Series
    <3> QED
      BY <2>2, <3>1, <3>3
  <2> QED
    BY <2>1, <2>2
<1>5. PICK x : x = op.value
  OBVIOUS
<1>6. new = AddTo(old, x, me) \/ new = SetTo(old, x, me)
  BY <1>3, <1>5
<1>7. /\ Series(new) /\ new.labels = key /\ new.group = old.group
      /\ new.by = old.by \union {me} \/ new.by = {me}
  BY <1>4, <1>6, SeriesShape
<1>8. new.by \subseteq old.by \union {me}
  BY <1>7
<1> QED
  BY <1>1, <1>4, <1>7, <1>8

\* What becomes of the other series of a collector.
LEMMA SeriesWithout ==
  ASSUME NEW f, NEW g, NEW h, NEW F, F = WithoutGroup(f, g, h)
  PROVE  /\ \A k \in DOMAIN F : k \in DOMAIN f /\ F[k] = f[k] /\ f[k].group # g
         /\ \A k \in DOMAIN f : f[k].group # g => k \in DOMAIN F
  BY DEF WithoutGroup

\* The steps that leave the collectors alone.
Elsewhere(w) ==
    \/ RunHook(w) \/ SendBatchV0(w) \/ Report(w)
    \/ ApplyGroup(w) \/ Expired(w) \/ ExpireOp(w) \/ GroupApplied(w)

LEMMA ElsewhereFacts ==
  ASSUME NEW w \in Worker, Elsewhere(w)
  PROVE  UNCHANGED <<vecs, collectors, told>>
  BY ReportFacts DEF Elsewhere, RunHook, SendBatchV0, ApplyGroup, Expired, ExpireOp, GroupApplied,
                     storage, history

\* What ExpireGroupMetrics does to the collectors.
LEMMA ExpireGroupCollectors ==
  ASSUME TypeInv, NEW w \in Worker, ExpireGroupMetrics(w)
  PROVE  \E n \in DOMAIN collectors :
            /\ n \in work[w].left /\ work'[w].left = work[w].left \ {n}
            /\ CollectorsStay /\ DOMAIN collectors' = DOMAIN collectors
            /\ collectors'[n].names = collectors[n].names
            /\ collectors'[n].series = WithoutGroup(collectors[n].series, work[w].group, work[w].hook)
            /\ \A m \in DOMAIN collectors : m # n => collectors'[m] = collectors[m]
<1>1. PICK n \in work[w].left :
            /\ work[w].stage = "expire" /\ work'[w].left = work[w].left \ {n}
            /\ collectors' = [collectors EXCEPT ![n].series =
                                 WithoutGroup(@, work[w].group, work[w].hook)]
  BY ExpireGroupFacts
<1>2. n \in DOMAIN collectors
  BY <1>1 DEF TypeInv, WorkInv, WorkerInv
<1>3. PICK g, h : g = work[w].group /\ h = work[w].hook
  OBVIOUS
<1>4. Expires(n, g, h)
  BY <1>1, <1>3 DEF Expires
<1>5. /\ CollectorsStay /\ DOMAIN collectors' = DOMAIN collectors
      /\ collectors'[n].names = collectors[n].names
      /\ collectors'[n].series = WithoutGroup(collectors[n].series, g, h)
      /\ \A m \in DOMAIN collectors : m # n => collectors'[m] = collectors[m]
  BY <1>2, <1>4, ExpireCollector
<1> QED
  BY <1>1, <1>2, <1>3, <1>5

\* GetOrCreateCollector leaves the collectors alone or creates one for a name
\* that is not registered.
LEMMA GetOrCreateCollectors ==
  ASSUME TypeInv, NEW w \in Worker, GetOrCreateCollector(w)
  PROVE  \/ collectors' = collectors
         \/ \E n \in NameSet, i \in work[w].todo :
               /\ n \notin Registered
               /\ CollectorsStay
               /\ DOMAIN collectors' = DOMAIN collectors \union {n}
               /\ collectors'[n].names = DOMAIN MergeLabels(work[w].ops[i].labels, HookLabel(work[w].hook))
               /\ collectors'[n].series = Empty
               /\ \A m \in DOMAIN collectors : collectors'[m] = collectors[m]
<1> DEFINE op(i) == work[w].ops[i]
           names(i) == DOMAIN MergeLabels(op(i).labels, HookLabel(work[w].hook))
<1>1. PICK i \in work[w].todo :
              /\ op(i).name \in NameSet /\ op(i).action \in {"add", "set"}
              /\ \/ collectors' = collectors
                 \/ /\ op(i).name \notin Registered
                    /\ collectors' = Put(collectors, op(i).name,
                            [type |-> op(i).action, names |-> names(i), series |-> Empty])
  BY GetOrCreateFacts
<1>2. CASE collectors' # collectors
  <2>1. PICK n \in NameSet, t \in {"add", "set"}, L \in {names(i)} : n = op(i).name /\ t = op(i).action /\ L = names(i)
    BY <1>1
  <2>2. /\ n \notin Registered
        /\ collectors' = Put(collectors, n, [type |-> t, names |-> L, series |-> Empty])
    BY <1>1, <1>2, <2>1
  <2>3. n \notin DOMAIN collectors
    BY <2>2, RegisteredFacts
  <2>4. /\ CollectorsStay
        /\ DOMAIN collectors' = DOMAIN collectors \union {n}
        /\ collectors'[n] = [type |-> t, names |-> L, series |-> Empty]
        /\ \A m \in DOMAIN collectors : collectors'[m] = collectors[m]
    BY <2>2, <2>3, CreateCollector
  <2>5. collectors'[n].names = L /\ collectors'[n].series = Empty
    BY <2>4
  <2> QED
    BY <2>1, <2>2, <2>4, <2>5
<1> QED
  BY <1>2

\* What Store does to the collectors.
Stored(w, i, key, new) ==
    LET n == work[w].ops[i].name
        series == collectors[n].series
    IN /\ i \in DOMAIN work[w].ops /\ n \in DOMAIN collectors
       /\ work[w].ops[i].group = work[w].group
       /\ work[w].ops[i].action # "expire"
       /\ work[w].ops[i].action = collectors[n].type
       /\ key = LabelValues(MergeLabels(work[w].ops[i].labels, HookLabel(work[w].hook)),
                            collectors[n].names)
       /\ Series(new) /\ new.labels = key
       /\ key \in DOMAIN series => /\ new.group = series[key].group
                                   /\ new.by \subseteq series[key].by \union {Me(w)}
       /\ key \notin DOMAIN series => new.group = work[w].group /\ new.by \subseteq {Me(w)}
       /\ CollectorsStay /\ DOMAIN collectors' = DOMAIN collectors
       /\ collectors'[n].names = collectors[n].names
       /\ DOMAIN collectors'[n].series = DOMAIN series \union {key}
       /\ collectors'[n].series[key] = new
       /\ \A k \in DOMAIN series : k # key => collectors'[n].series[k] = series[k]
       /\ \A m \in DOMAIN collectors : m # n => collectors'[m] = collectors[m]

LEMMA StoreCollectors ==
  ASSUME TypeInv, OwnerInv, NEW w \in Worker, Store(w)
  PROVE  \E i \in work[w].todo : \E key, new : Stored(w, i, key, new)
<1>1. PICK i, key, new : i \in work[w].todo /\ Stores(w, i, key, new)
  BY StoreFacts
<1> DEFINE n == work[w].ops[i].name
           series == collectors[n].series
<1>2. PICK S : S = Put(series, key, new)
  OBVIOUS
<1>3. /\ i \in DOMAIN work[w].ops /\ n \in DOMAIN collectors
      /\ work[w].ops[i].group = work[w].group
      /\ work[w].ops[i].action # "expire"
      /\ work[w].ops[i].action = collectors[n].type
      /\ key = LabelValues(MergeLabels(work[w].ops[i].labels, HookLabel(work[w].hook)),
                           collectors[n].names)
      /\ DOMAIN collectors' = DOMAIN collectors
      /\ collectors'[n] = [type |-> collectors[n].type, names |-> collectors[n].names, series |-> S]
      /\ \A m \in DOMAIN collectors : m # n => collectors'[m] = collectors[m]
  BY <1>1, <1>2 DEF Stores
<1>4. /\ Series(new) /\ new.labels = key
      /\ key \in DOMAIN series => new.group = series[key].group
                                  /\ new.by \subseteq series[key].by \union {Me(w)}
      /\ key \notin DOMAIN series => new.group = work[w].group /\ new.by \subseteq {Me(w)}
  BY <1>1, StoredSeries
<1>5. /\ DOMAIN S = DOMAIN series \union {key} /\ S[key] = new
      /\ \A k \in DOMAIN series : k # key => S[k] = series[k]
  BY <1>2 DEF Put
<1>6. /\ collectors'[n].type = collectors[n].type /\ collectors'[n].names = collectors[n].names
      /\ collectors'[n].series = S
  BY <1>3
<1>7. CollectorsStay
  BY <1>3, <1>6 DEF CollectorsStay
<1>8. i \in work[w].todo /\ Stored(w, i, key, new)
  BY <1>1, <1>3, <1>4, <1>5, <1>6, <1>7 DEF Stored
<1> QED
  BY <1>8

\* A call adds a vector, writes to one, or leaves them alone.
Refused(c) ==
    /\ Tell(c) /\ c.kind \in Kinds /\ c.name \in Registered \ DOMAIN vecs[c.kind]
    /\ UNCHANGED vecs
NewVec(c) ==
    /\ c.kind \in Kinds /\ c.name \notin Registered /\ UNCHANGED told
    /\ \A j \in Kinds : j # c.kind => vecs'[j] = vecs[j]
    /\ DOMAIN vecs'[c.kind] = DOMAIN vecs[c.kind] \union {c.name}
    /\ vecs'[c.kind][c.name] = [names |-> DOMAIN c.labels, children |-> Empty]
    /\ \A m \in DOMAIN vecs[c.kind] : vecs'[c.kind][m] = vecs[c.kind][m]
Mismatch(c) ==
    /\ Tell(c) /\ c.kind \in Kinds /\ c.name \in DOMAIN vecs[c.kind]
    /\ DOMAIN c.labels # vecs[c.kind][c.name].names /\ UNCHANGED vecs
Written(c, new) ==
    /\ Tell(c) /\ c.kind \in Kinds /\ c.name \in DOMAIN vecs[c.kind]
    /\ new = IF c.kind = "gauge" THEN c.value ELSE Child(vecs[c.kind][c.name], c.labels) + c.value
    /\ \A j \in Kinds : DOMAIN vecs'[j] = DOMAIN vecs[j]
    /\ vecs'[c.kind][c.name].names = vecs[c.kind][c.name].names
    /\ vecs'[c.kind][c.name].children = Put(vecs[c.kind][c.name].children, c.labels, new)
    /\ \A j \in Kinds : \A m \in DOMAIN vecs[j] :
          j # c.kind \/ m # c.name => vecs'[j][m] = vecs[j][m]

LEMMA VecCallFacts ==
  ASSUME TypeInv, NEW w \in Worker, VecCall(w)
  PROVE  /\ UNCHANGED collectors
         /\ \/ UNCHANGED <<vecs, told>>
            \/ Refused(call[w]) \/ NewVec(call[w]) \/ Mismatch(call[w])
            \/ \E new : Written(call[w], new)
<1> DEFINE c == call[w]
<1>1. UNCHANGED collectors
  BY DEF VecCall, Lookup, Register, Write, storage
<1>2. VecInv /\ (c.step # "none" => c.kind \in Kinds)
      /\ (c.step = "write" => c.name \in DOMAIN vecs[c.kind])
  BY DEF TypeInv, CallInv
<1>3. CASE Lookup(w)
  BY <1>1, <1>3 DEF Lookup, storage, history
<1>4. CASE Register(w)
  <2>1. c.kind \in Kinds
    BY <1>2, <1>4 DEF Register
  <2>2. \/ UNCHANGED <<vecs, told>>
        \/ /\ c.name \notin Registered /\ UNCHANGED told
           /\ vecs' = [vecs EXCEPT ![c.kind] =
                          Put(@, c.name, [names |-> DOMAIN c.labels, children |-> Empty])]
        \/ c.name \in Registered \ DOMAIN vecs[c.kind] /\ Tell(c) /\ UNCHANGED vecs
    BY <1>4 DEF Register
  <2>3. CASE /\ c.name \notin Registered /\ UNCHANGED told
             /\ vecs' = [vecs EXCEPT ![c.kind] =
                          Put(@, c.name, [names |-> DOMAIN c.labels, children |-> Empty])]
    <3>1. c.name \notin DOMAIN vecs[c.kind]
      BY <1>2, <2>1, <2>3, RegisteredFacts DEF VecInv
    <3>2. /\ \A j \in Kinds : j # c.kind => vecs'[j] = vecs[j]
          /\ DOMAIN vecs'[c.kind] = DOMAIN vecs[c.kind] \union {c.name}
          /\ vecs'[c.kind][c.name] = [names |-> DOMAIN c.labels, children |-> Empty]
          /\ \A m \in DOMAIN vecs[c.kind] : vecs'[c.kind][m] = vecs[c.kind][m]
      BY <1>2, <2>1, <2>3, <3>1, RegisterVec
    <3> QED
      BY <1>1, <2>1, <2>3, <3>2 DEF NewVec
  <2> QED
    BY <1>1, <2>1, <2>2, <2>3 DEF Refused
<1>5. CASE Write(w)
  <2>1. PICK new : new = IF c.kind = "gauge" THEN c.value
                         ELSE Child(vecs[c.kind][c.name], c.labels) + c.value
    OBVIOUS
  <2>2. /\ Tell(c) /\ c.kind \in Kinds /\ c.name \in DOMAIN vecs[c.kind]
        /\ vecs' = IF DOMAIN c.labels = vecs[c.kind][c.name].names
                   THEN [vecs EXCEPT ![c.kind][c.name].children = Put(@, c.labels, new)]
                   ELSE vecs
    BY <1>2, <1>5, <2>1 DEF Write
  <2>3. CASE DOMAIN c.labels = vecs[c.kind][c.name].names
    <3>1. /\ \A j \in Kinds : DOMAIN vecs'[j] = DOMAIN vecs[j]
          /\ vecs'[c.kind][c.name].names = vecs[c.kind][c.name].names
          /\ vecs'[c.kind][c.name].children = Put(vecs[c.kind][c.name].children, c.labels, new)
          /\ \A j \in Kinds : \A m \in DOMAIN vecs[j] :
               j # c.kind \/ m # c.name => vecs'[j][m] = vecs[j][m]
      <4>1. PICK k \in Kinds, n \in {c.name}, l \in {c.labels} : k = c.kind /\ n = c.name /\ l = c.labels
        BY <2>2
      <4>2. n \in DOMAIN vecs[k] /\ DOMAIN l = vecs[k][n].names
        BY <2>2, <2>3, <4>1
      <4>3. Writes(k, n, l, new)
        BY <2>2, <2>3, <4>1 DEF Writes
      <4>4. /\ \A j \in Kinds : DOMAIN vecs'[j] = DOMAIN vecs[j]
            /\ vecs'[k][n].names = vecs[k][n].names
            /\ vecs'[k][n].children = Put(vecs[k][n].children, l, new)
            /\ \A j \in Kinds : \A m \in DOMAIN vecs[j] :
                 j # k \/ m # n => vecs'[j][m] = vecs[j][m]
        BY <1>2, <4>2, <4>3, WriteVec
      <4> QED
        BY <4>1, <4>4
    <3>2. Written(call[w], new)
      BY <2>1, <2>2, <3>1 DEF Written
    <3> QED
      BY <1>1, <3>2
  <2>4. CASE DOMAIN c.labels # vecs[c.kind][c.name].names
    BY <1>1, <2>2, <2>4 DEF Mismatch
  <2> QED
    BY <2>3, <2>4
<1> QED
  BY <1>3, <1>4, <1>5 DEF VecCall

\* What ExpireGroupMetrics of w does to collector n.
Cleaned(w, n) ==
    /\ n \in DOMAIN collectors /\ n \in work[w].left
    /\ CollectorsStay /\ DOMAIN collectors' = DOMAIN collectors
    /\ collectors'[n].names = collectors[n].names
    /\ \A k \in DOMAIN collectors'[n].series :
          /\ k \in DOMAIN collectors[n].series
          /\ collectors'[n].series[k] = collectors[n].series[k]
          /\ collectors[n].series[k].group # work[w].group
    /\ \A m \in DOMAIN collectors : m # n => collectors'[m] = collectors[m]

LEMMA CleanedFacts ==
  ASSUME TypeInv, NEW w \in Worker, ExpireGroupMetrics(w)
  PROVE  \E n : Cleaned(w, n) /\ work'[w].left = work[w].left \ {n}
<1>1. PICK n \in DOMAIN collectors :
            /\ n \in work[w].left /\ work'[w].left = work[w].left \ {n}
            /\ CollectorsStay /\ DOMAIN collectors' = DOMAIN collectors
            /\ collectors'[n].names = collectors[n].names
            /\ collectors'[n].series = WithoutGroup(collectors[n].series, work[w].group, work[w].hook)
            /\ \A m \in DOMAIN collectors : m # n => collectors'[m] = collectors[m]
  BY ExpireGroupCollectors
<1>2. PICK f, g, h, F : f = collectors[n].series /\ g = work[w].group /\ h = work[w].hook
                        /\ F = collectors'[n].series
  OBVIOUS
<1>3. F = WithoutGroup(f, g, h)
  BY <1>1, <1>2
<1>4. \A k \in DOMAIN F : k \in DOMAIN f /\ F[k] = f[k] /\ f[k].group # g
  BY <1>3 DEF WithoutGroup
<1>5. Cleaned(w, n)
  BY <1>1, <1>2, <1>4 DEF Cleaned
<1> QED
  BY <1>1, <1>5

LEMMA OwnerInit == Init => OwnerInv
<1> SUFFICES ASSUME Init PROVE OwnerInv
  OBVIOUS
<1>1. DOMAIN collectors = {}
  BY DEF Init, Empty
<1>2. \A k \in Kinds : DOMAIN vecs[k] = OwnMetrics[k]
  BY DEF Init, Kinds, OwnMetrics
<1>3. \A j, k \in Kinds : \A n \in OwnMetrics[j] : n \in OwnMetrics[k] => j = k
  BY DEF Kinds, OwnMetrics
<1> QED
  BY <1>1, <1>2, <1>3 DEF OwnerInv

LEMMA OwnerNext == TypeInv /\ OwnerInv /\ [Next]_vars => OwnerInv'
<1> SUFFICES ASSUME TypeInv, OwnerInv, [Next]_vars PROVE OwnerInv'
  OBVIOUS
<1>1. CASE UNCHANGED <<vecs, collectors>>
  BY <1>1 DEF OwnerInv
<1>2. ASSUME NEW w \in Worker, VecCall(w) PROVE OwnerInv'
  <2> DEFINE c == call[w]
  <2>1. UNCHANGED collectors /\ DOMAIN vecs = Kinds
    BY <1>2, VecCallFacts DEF TypeInv, VecInv
  <2>2. CASE \A j \in Kinds : DOMAIN vecs'[j] = DOMAIN vecs[j]
    BY <2>1, <2>2 DEF OwnerInv
  <2>3. CASE NewVec(c)
    <3>1. \A j \in Kinds : c.name \notin DOMAIN vecs[j]
      BY <2>1, <2>3, RegisteredFacts DEF NewVec
    <3>2. c.name \notin DOMAIN collectors
      BY <2>3, RegisteredFacts DEF NewVec
    <3>3. /\ DOMAIN vecs'[c.kind] = DOMAIN vecs[c.kind] \union {c.name}
          /\ \A j \in Kinds : j # c.kind => DOMAIN vecs'[j] = DOMAIN vecs[j]
      BY <2>3 DEF NewVec
    <3> QED
      BY <2>1, <3>1, <3>2, <3>3 DEF OwnerInv
  <2> QED
    BY <1>2, <2>2, <2>3, VecCallFacts DEF Refused, Mismatch, Written
<1>3. ASSUME NEW w \in Worker, ExpireGroupMetrics(w) PROVE OwnerInv'
  <2>1. PICK n : Cleaned(w, n)
    BY <1>3, CleanedFacts
  <2>2. UNCHANGED vecs
    BY <1>3 DEF ExpireGroupMetrics
  <2> QED
    BY <2>1, <2>2 DEF Cleaned, OwnerInv
<1>4. ASSUME NEW w \in Worker, GetOrCreateCollector(w) PROVE OwnerInv'
  <2>1. UNCHANGED vecs /\ DOMAIN vecs = Kinds
    BY <1>4 DEF GetOrCreateCollector, TypeInv, VecInv
  <2>2. ASSUME collectors' # collectors PROVE OwnerInv'
    <3>1. PICK n : /\ n \notin Registered
                   /\ DOMAIN collectors' = DOMAIN collectors \union {n}
                   /\ collectors'[n].series = Empty
                   /\ \A m \in DOMAIN collectors : collectors'[m] = collectors[m]
      BY <1>4, <2>2, GetOrCreateCollectors
    <3>2. \A j \in Kinds : n \notin DOMAIN vecs[j]
      BY <2>1, <3>1, RegisteredFacts
    <3>3. DOMAIN Empty = {}
      BY DEF Empty
    <3> QED
      BY <2>1, <3>1, <3>2, <3>3 DEF OwnerInv
  <2> QED
    BY <1>1, <2>1, <2>2
<1>5. ASSUME NEW w \in Worker, Store(w) PROVE OwnerInv'
  <2>1. PICK i, key, new : i \in work[w].todo /\ Stored(w, i, key, new)
    BY <1>5, StoreCollectors
  <2>2. UNCHANGED vecs
    BY <1>5 DEF Store
  <2>3. PICK n : n = work[w].ops[i].name
    OBVIOUS
  <2>4. /\ n \in DOMAIN collectors /\ DOMAIN collectors' = DOMAIN collectors
        /\ Series(new) /\ new.labels = key
        /\ DOMAIN collectors'[n].series = DOMAIN collectors[n].series \union {key}
        /\ collectors'[n].series[key] = new
        /\ \A k \in DOMAIN collectors[n].series :
              k # key => collectors'[n].series[k] = collectors[n].series[k]
        /\ \A m \in DOMAIN collectors : m # n => collectors'[m] = collectors[m]
    BY <2>1, <2>3 DEF Stored
  <2> QED
    BY <2>2, <2>4 DEF OwnerInv
<1>6. ASSUME NEW w \in Worker, Elsewhere(w) PROVE OwnerInv'
  BY <1>1, <1>6, ElsewhereFacts
<1> QED
  BY <1>1, <1>2, <1>3, <1>4, <1>5, <1>6 DEF Next, Elsewhere, vars

\* However workers race for a name, and whatever batches and groups come and
\* go: each metric name has one owner, and no two series of a collector have
\* the same labels, so the registry never refuses a scrape.
THEOREM ScrapesSucceed == Spec => []ScrapeSucceeds
<1>1. ASSUME TypeInv, OwnerInv PROVE ScrapeSucceeds
  <2>1. ASSUME NEW n \in Registered
        PROVE  Cardinality({k \in DOMAIN vecs : n \in DOMAIN vecs[k]})
                  + (IF n \in DOMAIN collectors THEN 1 ELSE 0) = 1
    <3>1. CASE n \in DOMAIN collectors
      <4>1. {k \in DOMAIN vecs : n \in DOMAIN vecs[k]} = {}
        BY <1>1, <3>1 DEF OwnerInv, TypeInv, VecInv
      <4>2. Cardinality({k \in DOMAIN vecs : n \in DOMAIN vecs[k]}) = 0
        BY <4>1, FS_EmptySet
      <4> QED
        BY <3>1, <4>2
    <3>2. CASE n \notin DOMAIN collectors
      <4>1. PICK j \in DOMAIN vecs : n \in DOMAIN vecs[j]
        BY <2>1, <3>2, RegisteredFacts
      <4>2. {k \in DOMAIN vecs : n \in DOMAIN vecs[k]} = {j}
        BY <1>1, <4>1 DEF OwnerInv, TypeInv, VecInv
      <4>3. Cardinality({k \in DOMAIN vecs : n \in DOMAIN vecs[k]}) = 1
        BY <4>2, FS_Singleton
      <4> QED
        BY <3>2, <4>3
    <3> QED
      BY <3>1, <3>2
  <2>2. ASSUME NEW n \in DOMAIN collectors, NEW j \in DOMAIN collectors[n].series,
               NEW k \in DOMAIN collectors[n].series,
               collectors[n].series[j].labels = collectors[n].series[k].labels
        PROVE  j = k
    BY <1>1, <2>2 DEF OwnerInv
  <2> QED
    BY <2>1, <2>2 DEF ScrapeSucceeds
<1> QED
  BY <1>1, TypeInit, TypeNext, OwnerInit, OwnerNext, PTL DEF Spec

-----------------------------------------------------------------------------
(* Nothing added is lost.                                                  *)

ToldIn(t, k, n, l) == IF <<k, n, l>> \in DOMAIN t THEN t[<<k, n, l>>] ELSE 0

\* What was told is about names that are registered, and of a counter or
\* histogram it is what its time series hold, those not written yet included.
ToldInv ==
    /\ \A key \in DOMAIN told : key = <<key[1], key[2], key[3]>> /\ key[2] \in Registered
    /\ \A k \in {"counter", "histogram"} : \A n \in DOMAIN vecs[k] : \A l :
        DOMAIN l = vecs[k][n].names => Child(vecs[k][n], l) = ToldIn(told, k, n, l)

LEMMA ToldInit == Init => ToldInv
<1> SUFFICES ASSUME Init PROVE ToldInv
  OBVIOUS
<1>1. DOMAIN told = {}
  BY DEF Init, Empty
<1>2. ASSUME NEW k \in {"counter", "histogram"}, NEW n \in DOMAIN vecs[k], NEW l
      PROVE  Child(vecs[k][n], l) = 0
  <2>1. vecs[k][n] = OwnVec
    BY DEF Init, OwnMetrics
  <2>2. DOMAIN OwnVec.children = {}
    BY DEF OwnVec, Empty
  <2> QED
    BY <2>1, <2>2 DEF Child
<1> QED
  BY <1>1, <1>2 DEF ToldInv, ToldIn

\* Names stay registered, so what was told before a vector is registered is
\* never about it.
LEMMA StayRegistered ==
  ASSUME DOMAIN vecs = Kinds, DOMAIN vecs' = Kinds,
         \A n \in DOMAIN collectors : n \in DOMAIN collectors',
         \A k \in Kinds : DOMAIN vecs[k] \subseteq DOMAIN vecs'[k]
  PROVE  \A n \in Registered : n \in Registered'
  BY DEF Registered

LEMMA TellFacts ==
  ASSUME NEW c, Tell(c)
  PROVE  DOMAIN told' = DOMAIN told \union {<<c.kind, c.name, c.labels>>}
  BY DEF Tell, Put

LEMMA TellAdds ==
  ASSUME NEW c, Tell(c)
  PROVE  ToldIn(told', c.kind, c.name, c.labels) = ToldIn(told, c.kind, c.name, c.labels) + c.value
<1>1. PICK key : key = <<c.kind, c.name, c.labels>>
  OBVIOUS
<1>2. PICK x : x = Told(c) + c.value
  OBVIOUS
<1>3. told' = Put(told, key, x)
  BY <1>1, <1>2 DEF Tell
<1>4. key \in DOMAIN told' /\ told'[key] = x
  BY <1>3 DEF Put
<1>5. Told(c) = ToldIn(told, c.kind, c.name, c.labels)
  BY DEF Told, ToldIn
<1> QED
  BY <1>1, <1>2, <1>4, <1>5 DEF ToldIn

LEMMA TellOthers ==
  ASSUME NEW c, Tell(c), NEW k, NEW n, NEW l, k # c.kind \/ n # c.name \/ l # c.labels
  PROVE  ToldIn(told', k, n, l) = ToldIn(told, k, n, l)
<1>1. PICK key, new : key = <<k, n, l>> /\ new = <<c.kind, c.name, c.labels>>
  OBVIOUS
<1>2. PICK x : x = Told(c) + c.value
  OBVIOUS
<1>3. told' = Put(told, new, x) /\ key # new
  BY <1>1, <1>2 DEF Tell
<1>4. (key \in DOMAIN told' <=> key \in DOMAIN told) /\ (key \in DOMAIN told => told'[key] = told[key])
  BY <1>3 DEF Put
<1> QED
  BY <1>1, <1>4 DEF ToldIn

LEMMA ToldVecCall ==
  ASSUME TypeInv, TypeInv', ToldInv, NEW w \in Worker, VecCall(w)
  PROVE  ToldInv'
<1>1. PICK c : c = call[w]
  OBVIOUS
<1>2. /\ UNCHANGED collectors
      /\ \/ UNCHANGED <<vecs, told>>
         \/ Refused(c) \/ NewVec(c) \/ Mismatch(c) \/ \E new : Written(c, new)
  BY <1>1, VecCallFacts
<1>3. DOMAIN vecs = Kinds /\ DOMAIN vecs' = Kinds /\ {"counter", "histogram"} \subseteq Kinds
  BY DEF TypeInv, VecInv, Kinds
<1>4. \A n \in Registered : n \in Registered'
  <2>1. \A k \in Kinds : DOMAIN vecs[k] \subseteq DOMAIN vecs'[k]
    BY <1>2 DEF Refused, NewVec, Mismatch, Written
  <2> QED
    BY <1>2, <1>3, <2>1, StayRegistered
<1>5. CASE UNCHANGED <<vecs, told>>
  BY <1>4, <1>5 DEF ToldInv, ToldIn
<1>6. ASSUME Tell(c), c.name \in Registered
      PROVE  \A key \in DOMAIN told' : key = <<key[1], key[2], key[3]>> /\ key[2] \in Registered'
  <2>1. DOMAIN told' = DOMAIN told \union {<<c.kind, c.name, c.labels>>}
    BY <1>6, TellFacts
  <2>2. SUFFICES ASSUME NEW key \in DOMAIN told'
                 PROVE  key = <<key[1], key[2], key[3]>> /\ key[2] \in Registered'
    OBVIOUS
  <2>3. CASE key \in DOMAIN told
    BY <1>4, <2>3 DEF ToldInv
  <2>4. CASE key = <<c.kind, c.name, c.labels>>
    BY <1>4, <1>6, <2>4
  <2> QED
    BY <2>1, <2>2, <2>3, <2>4
<1>7. CASE Refused(c)
  <2>1. Tell(c) /\ UNCHANGED vecs /\ c.name \in Registered \ DOMAIN vecs[c.kind]
    BY <1>7 DEF Refused
  <2>2. ASSUME NEW k \in {"counter", "histogram"}, NEW n \in DOMAIN vecs[k], NEW l,
               DOMAIN l = vecs[k][n].names
        PROVE  Child(vecs'[k][n], l) = ToldIn(told', k, n, l)
    <3>1. k # c.kind \/ n # c.name \/ l # c.labels
      BY <2>1
    <3>2. ToldIn(told', k, n, l) = ToldIn(told, k, n, l)
      BY <2>1, <3>1, TellOthers
    <3> QED
      BY <2>1, <2>2, <3>2 DEF ToldInv
  <2> QED
    BY <1>6, <2>1, <2>2 DEF ToldInv
<1>8. CASE NewVec(c)
  <2>1. /\ UNCHANGED told /\ c.kind \in Kinds /\ c.name \notin Registered
        /\ \A j \in Kinds : j # c.kind => vecs'[j] = vecs[j]
        /\ DOMAIN vecs'[c.kind] = DOMAIN vecs[c.kind] \union {c.name}
        /\ vecs'[c.kind][c.name] = [names |-> DOMAIN c.labels, children |-> Empty]
        /\ \A m \in DOMAIN vecs[c.kind] : vecs'[c.kind][m] = vecs[c.kind][m]
    BY <1>8 DEF NewVec
  <2>2. ASSUME NEW k \in {"counter", "histogram"}, NEW n \in DOMAIN vecs'[k], NEW l,
               DOMAIN l = vecs'[k][n].names
        PROVE  Child(vecs'[k][n], l) = ToldIn(told', k, n, l)
    <3>1. ToldIn(told', k, n, l) = ToldIn(told, k, n, l)
      BY <2>1 DEF ToldIn
    <3>2. CASE k = c.kind /\ n = c.name
      <4>1. PICK v : v = vecs'[k][n]
        OBVIOUS
      <4>2. DOMAIN v.children = {}
        BY <2>1, <3>2, <4>1 DEF Empty
      <4>3. Child(v, l) = 0
        BY <4>2 DEF Child
      <4>4. <<k, n, l>> \notin DOMAIN told
        BY <2>1, <3>2 DEF ToldInv
      <4> QED
        BY <3>1, <4>1, <4>3, <4>4 DEF ToldIn
    <3>3. CASE ~(k = c.kind /\ n = c.name)
      <4>1. n \in DOMAIN vecs[k] /\ vecs'[k][n] = vecs[k][n]
        BY <1>3, <2>1, <2>2, <3>3
      <4> QED
        BY <2>2, <3>1, <4>1 DEF ToldInv
    <3> QED
      BY <3>2, <3>3
  <2> QED
    BY <1>4, <2>1, <2>2 DEF ToldInv
<1>9. CASE Mismatch(c)
  <2>1. /\ Tell(c) /\ UNCHANGED vecs /\ c.kind \in Kinds /\ c.name \in DOMAIN vecs[c.kind]
        /\ DOMAIN c.labels # vecs[c.kind][c.name].names
    BY <1>9 DEF Mismatch
  <2>2. c.name \in Registered
    BY <1>3, <2>1, RegisteredFacts
  <2>3. ASSUME NEW k \in {"counter", "histogram"}, NEW n \in DOMAIN vecs[k], NEW l,
               DOMAIN l = vecs[k][n].names
        PROVE  Child(vecs'[k][n], l) = ToldIn(told', k, n, l)
    <3>1. k # c.kind \/ n # c.name \/ l # c.labels
      BY <2>1, <2>3
    <3>2. ToldIn(told', k, n, l) = ToldIn(told, k, n, l)
      BY <2>1, <3>1, TellOthers
    <3> QED
      BY <2>1, <2>3, <3>2 DEF ToldInv
  <2> QED
    BY <1>6, <2>1, <2>2, <2>3 DEF ToldInv
<1>10. ASSUME NEW new, Written(c, new) PROVE ToldInv'
  <2>1. /\ Tell(c) /\ c.kind \in Kinds /\ c.name \in DOMAIN vecs[c.kind]
        /\ \A j \in Kinds : DOMAIN vecs'[j] = DOMAIN vecs[j]
        /\ vecs'[c.kind][c.name].names = vecs[c.kind][c.name].names
        /\ vecs'[c.kind][c.name].children = Put(vecs[c.kind][c.name].children, c.labels, new)
        /\ \A j \in Kinds : \A m \in DOMAIN vecs[j] :
              j # c.kind \/ m # c.name => vecs'[j][m] = vecs[j][m]
    BY <1>10 DEF Written
  <2>2. c.name \in Registered
    BY <1>3, <2>1, RegisteredFacts
  <2>3. ASSUME NEW k \in {"counter", "histogram"}, NEW n \in DOMAIN vecs'[k], NEW l,
               DOMAIN l = vecs'[k][n].names
        PROVE  Child(vecs'[k][n], l) = ToldIn(told', k, n, l)
    <3>1. n \in DOMAIN vecs[k] /\ DOMAIN l = vecs[k][n].names
      BY <1>3, <2>1, <2>3
    <3>2. Child(vecs[k][n], l) = ToldIn(told, k, n, l)
      BY <3>1 DEF ToldInv
    <3>3. CASE k = c.kind /\ n = c.name
      <4>1. PICK f, F : f = vecs[k][n].children /\ F = vecs'[k][n].children
        OBVIOUS
      <4>2. F = Put(f, c.labels, new)
        BY <2>1, <3>3, <4>1
      <4>3. CASE l = c.labels
        <5>1. l \in DOMAIN F /\ F[l] = new
          BY <4>2, <4>3 DEF Put
        <5>2. Child(vecs'[k][n], l) = new
          BY <4>1, <5>1 DEF Child
        <5>3. new = Child(vecs[k][n], l) + c.value
          BY <1>10, <3>3, <4>3 DEF Written
        <5>4. ToldIn(told', c.kind, c.name, c.labels) = ToldIn(told, c.kind, c.name, c.labels) + c.value
          BY <2>1, TellAdds
        <5>5. ToldIn(told', k, n, l) = ToldIn(told, k, n, l) + c.value
          BY <3>3, <4>3, <5>4
        <5> QED
          BY <3>2, <5>2, <5>3, <5>5
      <4>4. CASE l # c.labels
        <5>1. (l \in DOMAIN F <=> l \in DOMAIN f) /\ (l \in DOMAIN f => F[l] = f[l])
          BY <4>2, <4>4 DEF Put
        <5>2. Child(vecs'[k][n], l) = Child(vecs[k][n], l)
          BY <4>1, <5>1 DEF Child
        <5>3. ToldIn(told', k, n, l) = ToldIn(told, k, n, l)
          BY <2>1, <4>4, TellOthers
        <5> QED
          BY <3>2, <5>2, <5>3
      <4> QED
        BY <4>3, <4>4
    <3>4. CASE ~(k = c.kind /\ n = c.name)
      <4>1. vecs'[k][n] = vecs[k][n]
        BY <1>3, <2>1, <3>1, <3>4
      <4>2. ToldIn(told', k, n, l) = ToldIn(told, k, n, l)
        <5>1. k # c.kind \/ n # c.name \/ l # c.labels
          BY <3>4
        <5> QED
          BY <2>1, <5>1, TellOthers
      <4> QED
        BY <3>2, <4>1, <4>2
    <3> QED
      BY <3>3, <3>4
  <2> QED
    BY <1>6, <2>1, <2>2, <2>3 DEF ToldInv
<1> QED
  BY <1>2, <1>5, <1>7, <1>8, <1>9, <1>10

\* Only calls touch vectors, and no step of the vault takes a name away.
LEMMA VaultStep ==
  ASSUME TypeInv, OwnerInv, NEW w \in Worker,
         Elsewhere(w) \/ ExpireGroupMetrics(w) \/ GetOrCreateCollector(w) \/ Store(w)
  PROVE  UNCHANGED <<vecs, told>> /\ CollectorsStay
<1>1. CASE Elsewhere(w)
  BY <1>1, ElsewhereFacts DEF CollectorsStay
<1>2. CASE ExpireGroupMetrics(w)
  BY <1>2, CleanedFacts DEF ExpireGroupMetrics, history, Cleaned
<1>3. CASE GetOrCreateCollector(w)
  BY <1>3, GetOrCreateCollectors DEF GetOrCreateCollector, history, CollectorsStay
<1>4. CASE Store(w)
  BY <1>4, StoreCollectors DEF Store, history, Stored
<1> QED
  BY <1>1, <1>2, <1>3, <1>4

LEMMA ToldNext == TypeInv /\ TypeInv' /\ OwnerInv /\ ToldInv /\ [Next]_vars => ToldInv'
<1> SUFFICES ASSUME TypeInv, TypeInv', OwnerInv, ToldInv, [Next]_vars PROVE ToldInv'
  OBVIOUS
<1>1. ASSUME UNCHANGED <<vecs, told>>, CollectorsStay PROVE ToldInv'
  <2>1. DOMAIN vecs = Kinds /\ DOMAIN vecs' = Kinds
    BY DEF TypeInv, VecInv
  <2>2. \A n \in Registered : n \in Registered'
    BY <1>1, <2>1, StayRegistered DEF CollectorsStay
  <2> QED
    BY <1>1, <2>2 DEF ToldInv, ToldIn
<1>2. CASE UNCHANGED vars
  BY <1>1, <1>2 DEF vars, CollectorsStay
<1>3. ASSUME NEW w \in Worker, VecCall(w) PROVE ToldInv'
  BY <1>3, ToldVecCall
<1>4. ASSUME NEW w \in Worker,
             Elsewhere(w) \/ ExpireGroupMetrics(w) \/ GetOrCreateCollector(w) \/ Store(w)
      PROVE  ToldInv'
  BY <1>1, <1>4, VaultStep
<1> QED
  BY <1>2, <1>3, <1>4 DEF Next, Elsewhere

\* However many workers race to register a vector and however often a batch is
\* sent again, a counter or histogram holds the sum of everything CounterAdd
\* and HistogramObserve were given for its labels.
THEOREM EveryAddCounted == Spec => []AddsCounted
<1>1. ToldInv => AddsCounted
  <2> SUFFICES ASSUME ToldInv,
                      NEW k \in {"counter", "histogram"}, NEW n \in DOMAIN vecs[k],
                      NEW key \in DOMAIN told,
                      key[1] = k, key[2] = n, DOMAIN key[3] = vecs[k][n].names
               PROVE  Child(vecs[k][n], key[3]) = told[key]
    BY DEF AddsCounted
  <2>1. PICK l : l = key[3]
    OBVIOUS
  <2>2. key = <<k, n, l>>
    BY <2>1 DEF ToldInv
  <2>3. Child(vecs[k][n], l) = ToldIn(told, k, n, l)
    BY <2>1 DEF ToldInv
  <2> QED
    BY <2>1, <2>2, <2>3 DEF ToldIn
<1> QED
  BY <1>1, TypeInit, TypeNext, OwnerInit, OwnerNext, ToldInit, ToldNext, PTL DEF Spec

-----------------------------------------------------------------------------
(* What a group wrote goes when the group is expired.                      *)

Busy == {"groups", "expire", "ops", "store"}
Active == {"expire", "ops", "store"}

\* Hook h may write a metric of a name and type in group g.
Uses(h, n, t, g) ==
    \E ops \in FilesOf(h) : \E i \in DOMAIN ops :
        /\ ValidateOperations(ops)
        /\ ops[i].name = n /\ ops[i].action = t /\ t # "expire" /\ ops[i].group = g /\ g # Nil

\* A series belongs to the hook in its labels, and all that has been written to
\* it was of its group.
ByInv ==
    \A n \in DOMAIN collectors :
        /\ "hook" \in collectors[n].names
        /\ \A key \in DOMAIN collectors[n].series :
            /\ key["hook"] \in Hook
            /\ Uses(key["hook"], n, collectors[n].type, collectors[n].series[key].group)
            /\ \A m \in collectors[n].series[key].by : m.group = collectors[n].series[key].group

\* An application under way has not ended, and what it expires has.
Fresh(r, done) ==
    /\ r.stage \in Busy => \A g \in r.groups : [run |-> r.run, group |-> g] \notin done
    /\ r.stage \in Active =>
          /\ [run |-> r.run, group |-> r.group] \notin done /\ r.group \notin r.groups
          /\ r.expires \subseteq done /\ \A a \in r.expires : a.group = r.group

FreshInv ==
    /\ \A a \in finished : a.run < runs
    /\ \A v, w \in Worker : v # w /\ work[v].stage # "idle" /\ work[w].stage # "idle"
                            => work[v].run # work[w].run
    /\ \A w \in Worker : Fresh(work[w], finished)

\* While a worker expires its group, the collectors it is done with hold
\* nothing of what it expires.
Clean(series, as) == \A key \in DOMAIN series : series[key].by \cap as = {}
StaleInv ==
    /\ gone \subseteq finished
    /\ \A n \in DOMAIN collectors : Clean(collectors[n].series, gone)
    /\ \A w \in Worker : work[w].stage = "expire" =>
          \A n \in DOMAIN collectors \ work[w].left : Clean(collectors[n].series, work[w].expires)

Alike(r, s) ==
    /\ s.stage = r.stage /\ s.run = r.run /\ s.groups = r.groups /\ s.group = r.group
    /\ s.left = r.left /\ s.expires = r.expires
OthersAlike(w) == \A v \in Worker : v # w => Alike(work[v], work'[v])

LEMMA KeptAlike ==
  ASSUME NEW w \in Worker, OthersKept(w) PROVE OthersAlike(w)
  BY DEF OthersKept, OthersAlike, Alike

LEMMA ApplyAlike ==
  ASSUME TypeInv, NEW w \in Worker, ApplyGroup(w) PROVE OthersAlike(w)
<1>1. \A v \in Worker : v # w => work'[v] = work[v] \/ work'[v] = [work[v] EXCEPT !.alone = FALSE]
  BY ApplyGroupFacts
<1>2. SUFFICES ASSUME NEW v \in Worker, v # w PROVE Alike(work[v], work'[v])
  BY DEF OthersAlike
<1>3. PICK r \in Work : r = work[v]
  BY DEF TypeInv, WorkInv
<1>4. PICK a : a = work'[v]
  OBVIOUS
<1>5. Alike(r, a)
  BY <1>1, <1>2, <1>3, <1>4, AloneOnly DEF Alike
<1> QED
  BY <1>3, <1>4, <1>5

\* One worker goes on with its batch, and no application ends.
LEMMA FreshKept ==
  ASSUME FreshInv, NEW w \in Worker, OthersAlike(w), finished' = finished, runs' = runs,
         work'[w].run = work[w].run, work[w].stage # "idle", Fresh(work'[w], finished)
  PROVE  FreshInv'
<1>1. ASSUME NEW v \in Worker PROVE Fresh(work'[v], finished')
  <2>1. CASE v # w
    <3>1. PICK r, s : r = work[v] /\ s = work'[v]
      OBVIOUS
    <3>2. Fresh(r, finished) /\ Alike(r, s)
      BY <2>1, <3>1 DEF FreshInv, OthersAlike
    <3> QED
      BY <3>1, <3>2 DEF Fresh, Alike
  <2> QED
    BY <2>1
<1>2. ASSUME NEW u \in Worker, NEW v \in Worker, u # v,
             work'[u].stage # "idle", work'[v].stage # "idle"
      PROVE  work'[u].run # work'[v].run
  <2>1. ASSUME NEW x \in Worker, work'[x].stage # "idle"
        PROVE  work[x].stage # "idle" /\ work'[x].run = work[x].run
    BY <2>1 DEF OthersAlike, Alike
  <2> QED
    BY <1>2, <2>1 DEF FreshInv
<1> QED
  BY <1>1, <1>2 DEF FreshInv

LEMMA GroupsInit == Init => ByInv /\ FreshInv /\ StaleInv
<1> SUFFICES ASSUME Init PROVE ByInv /\ FreshInv /\ StaleInv
  OBVIOUS
<1>1. DOMAIN collectors = {} /\ finished = {} /\ gone = {}
  BY DEF Init, Empty
<1>2. \A w \in Worker : work[w].stage = "idle"
  BY DEF Init, Idle
<1> QED
  BY <1>1, <1>2 DEF ByInv, FreshInv, StaleInv, Fresh, Busy, Active

LEMMA FreshNext == TypeInv /\ FreshInv /\ [Next]_vars => FreshInv'
<1> SUFFICES ASSUME TypeInv, FreshInv, [Next]_vars PROVE FreshInv'
  OBVIOUS
<1>1. CASE UNCHANGED <<work, runs, finished>>
  BY <1>1 DEF FreshInv
<1>2. ASSUME NEW w \in Worker, VecCall(w) PROVE FreshInv'
  BY <1>1, <1>2 DEF VecCall, Lookup, Register, Write, history
<1>3. ASSUME NEW w \in Worker, RunHook(w) PROVE FreshInv'
  <2>1. /\ runs' = runs + 1 /\ runs \in Nat /\ finished' = finished /\ finished \subseteq Application
        /\ OthersKept(w) /\ work'[w].stage \in {"groups", "failed"} /\ work'[w].run = runs
    <3>1. PICK h, ops : /\ work'[w].stage = IF ValidateOperations(ops) THEN "groups" ELSE "failed"
                        /\ work'[w].hook = h /\ work'[w].run = runs
      BY <1>3, RunHookFacts
    <3>2. runs' = runs + 1 /\ OthersKept(w)
      BY <1>3, RunHookFacts
    <3>3. runs \in Nat /\ finished' = finished /\ finished \subseteq Application
      BY <1>3, MetricStorageAssumption DEF RunHook, TypeInv, WorkInv, MetricStorageAssumption
    <3> QED
      BY <3>1, <3>2, <3>3
  <2>2. ASSUME NEW v \in Worker PROVE Fresh(work'[v], finished')
    <3>1. CASE v # w
      BY <2>1, <3>1 DEF OthersKept, FreshInv
    <3>2. CASE v = w
      <4>1. PICK r : r = work'[w]
        OBVIOUS
      <4>2. \A g : [run |-> r.run, group |-> g] \notin finished
        <5>1. ASSUME NEW g, NEW a \in finished, a = [run |-> r.run, group |-> g] PROVE FALSE
          <6>1. a.run < runs /\ a.run = runs
            BY <2>1, <4>1, <5>1 DEF FreshInv
          <6> QED
            BY <2>1, <6>1
        <5> QED
          BY <5>1
      <4>3. r.stage \notin Active
        BY <2>1, <4>1 DEF Active
      <4> QED
        BY <2>1, <3>2, <4>1, <4>2, <4>3 DEF Fresh
    <3> QED
      BY <3>1, <3>2
  <2>3. \A v \in Worker : v # w /\ work'[v].stage # "idle" => work'[v].run < runs /\ work'[v].run \in Nat
    BY <2>1 DEF OthersKept, TypeInv, WorkInv, WorkerInv, Work
  <2>4. ASSUME NEW u \in Worker, NEW v \in Worker, u # v,
             work'[u].stage # "idle", work'[v].stage # "idle"
        PROVE  work'[u].run # work'[v].run
    <3>1. CASE u # w /\ v # w
      BY <2>1, <2>4, <3>1 DEF OthersKept, FreshInv
    <3>2. CASE u = w \/ v = w
      BY <2>1, <2>3, <2>4, <3>2
    <3> QED
      BY <3>1, <3>2
  <2>5. \A a \in finished' : a.run < runs'
    BY <2>1 DEF FreshInv, Application
  <2> QED
    BY <2>2, <2>4, <2>5 DEF FreshInv
<1>4. ASSUME NEW w \in Worker, SendBatchV0(w) PROVE FreshInv'
  <2>1. UNCHANGED <<runs, finished>> /\ work \in [Worker -> Work] /\ work[w].stage = "groups"
    BY <1>4 DEF SendBatchV0, At, history, TypeInv, WorkInv
  <2>2. \/ Move(w, "failed")
        \/ \E i : work' = [work EXCEPT ![w].send = @ \ {i}]
    BY <1>4 DEF SendBatchV0
  <2>3. CASE Move(w, "failed")
    <3>1. OthersKept(w) /\ work'[w].run = work[w].run /\ work'[w].stage = "failed"
      BY <2>3, MoveFacts DEF Stages, Same
    <3>2. Fresh(work'[w], finished)
      BY <3>1 DEF Fresh, Busy, Active
    <3> QED
      BY <2>1, <3>1, <3>2, KeptAlike, FreshKept
  <2>4. ASSUME NEW i, work' = [work EXCEPT ![w].send = @ \ {i}] PROVE FreshInv'
    <3>1. work'[w] = [work[w] EXCEPT !.send = @ \ {i}] /\ OthersKept(w)
      BY <2>1, <2>4 DEF OthersKept
    <3>2. PICK r \in Work : r = work[w]
      BY <2>1
    <3>3. PICK s : s = work'[w]
      OBVIOUS
    <3>4. Alike(r, s)
      BY <3>1, <3>2, <3>3 DEF Work, Alike
    <3>5. Fresh(s, finished)
      BY <3>2, <3>4 DEF Fresh, Alike, FreshInv
    <3> QED
      BY <2>1, <3>1, <3>2, <3>3, <3>4, <3>5, KeptAlike, FreshKept DEF Alike
  <2> QED
    BY <2>2, <2>3, <2>4
<1>5. ASSUME NEW w \in Worker, Report(w) PROVE FreshInv'
  <2>1. UNCHANGED <<runs, finished>> /\ work \in [Worker -> Work] /\ work[w].stage # "idle"
    BY <1>5, ReportFacts DEF TypeInv, WorkInv, ReportStages
  <2>2. CASE work' = [work EXCEPT ![w] = Idle]
    <3>1. OthersKept(w) /\ work'[w] = Idle /\ Idle.stage = "idle"
      BY <2>1, <2>2 DEF OthersKept, Idle
    <3>2. ASSUME NEW v \in Worker PROVE Fresh(work'[v], finished')
      <4>1. CASE v # w
        BY <2>1, <3>1, <4>1 DEF OthersKept, FreshInv
      <4>2. CASE v = w
        BY <3>1, <4>2 DEF Fresh, Busy, Active
      <4> QED
        BY <4>1, <4>2
    <3> QED
      BY <2>1, <3>1, <3>2 DEF FreshInv, OthersKept
  <2>3. ASSUME NEW t \in ReportStages, Move(w, t) PROVE FreshInv'
    <3>1. t \in Stages /\ t \notin Busy /\ t # "idle"
      BY DEF Stages, ReportStages, Busy
    <3>2. OthersKept(w) /\ work'[w].run = work[w].run /\ work'[w].stage = t
      BY <2>3, <3>1, MoveFacts DEF Same
    <3>3. Fresh(work'[w], finished)
      BY <3>1, <3>2 DEF Fresh, Busy, Active
    <3> QED
      BY <2>1, <3>2, <3>3, KeptAlike, FreshKept
  <2> QED
    BY <1>5, <2>2, <2>3, ReportFacts
<1>6. ASSUME NEW w \in Worker, ApplyGroup(w) PROVE FreshInv'
  <2>1. UNCHANGED <<runs, finished>> /\ work[w].stage = "groups"
    BY <1>6 DEF ApplyGroup, At, history
  <2>2. PICK g \in work[w].groups :
            /\ Same(work[w], work'[w])
            /\ work'[w].stage = "expire" /\ work'[w].group = g
            /\ work'[w].groups = work[w].groups \ {g}
            /\ work'[w].expires = {a \in finished : a.group = g}
    BY <1>6, ApplyGroupFacts
  <2>3. OthersAlike(w)
    BY <1>6, ApplyAlike
  <2>4. PICK r, s : r = work[w] /\ s = work'[w]
    OBVIOUS
  <2>5. Fresh(r, finished) /\ r.stage \in Busy
    BY <2>1, <2>4 DEF FreshInv, Busy
  <2>6. Fresh(s, finished)
    BY <2>2, <2>4, <2>5 DEF Fresh, Same
  <2> QED
    BY <2>1, <2>2, <2>3, <2>4, <2>6, FreshKept DEF Same
<1>7. ASSUME NEW w \in Worker, NEW r, NEW s, r = work[w], s = work'[w], UNCHANGED <<runs, finished>>,
             OthersKept(w), r.stage \in Active, s.stage \in Active, s.run = r.run,
             s.group = r.group, s.groups = r.groups, s.expires = r.expires
      PROVE  FreshInv'
  <2>1. Fresh(r, finished) /\ r.stage # "idle" /\ r.stage \in Busy
    BY <1>7 DEF FreshInv, Active, Busy
  <2>2. Fresh(s, finished)
    BY <1>7, <2>1 DEF Fresh
  <2> QED
    BY <1>7, <2>1, <2>2, KeptAlike, FreshKept
<1>8. ASSUME NEW w \in Worker, ExpireGroupMetrics(w) PROVE FreshInv'
  <2>1. /\ OthersKept(w) /\ Same(work[w], work'[w])
        /\ work'[w].stage = "expire" /\ work[w].stage = "expire"
        /\ work'[w].group = work[w].group /\ work'[w].groups = work[w].groups
        /\ work'[w].expires = work[w].expires
    BY <1>8, ExpireGroupFacts
  <2>2. UNCHANGED <<runs, finished>>
    BY <1>8 DEF ExpireGroupMetrics, history
  <2> QED
    BY <1>7, <2>1, <2>2 DEF Same, Active
<1>9. ASSUME NEW w \in Worker, Expired(w) PROVE FreshInv'
  <2>1. Move(w, "ops") /\ work[w].stage = "expire" /\ UNCHANGED <<runs, finished>>
    BY <1>9 DEF Expired, At
  <2>2. /\ OthersKept(w) /\ Same(work[w], work'[w]) /\ work'[w].stage = "ops"
        /\ work'[w].group = work[w].group /\ work'[w].groups = work[w].groups
        /\ work'[w].expires = work[w].expires
    BY <2>1, MoveFacts DEF Stages
  <2> QED
    BY <1>7, <2>1, <2>2 DEF Same, Active
<1>10. ASSUME NEW w \in Worker, ExpireOp(w) PROVE FreshInv'
  <2>1. /\ OthersKept(w) /\ Same(work[w], work'[w])
        /\ work'[w].stage = "expire" /\ work[w].stage = "ops"
        /\ work'[w].group = work[w].group /\ work'[w].groups = work[w].groups
        /\ work'[w].expires = work[w].expires
    BY <1>10, ExpireOpFacts
  <2>2. UNCHANGED <<runs, finished>>
    BY <1>10 DEF ExpireOp, history
  <2> QED
    BY <1>7, <2>1, <2>2 DEF Same, Active
<1>11. ASSUME NEW w \in Worker, GetOrCreateCollector(w) PROVE FreshInv'
  <2>1. PICK i : /\ work[w].stage = "ops"
                 /\ Move(w, "store") \/ work' = [work EXCEPT ![w].todo = @ \ {i}]
    BY <1>11 DEF GetOrCreateCollector, At
  <2>2. UNCHANGED <<runs, finished>>
    BY <1>11 DEF GetOrCreateCollector, history
  <2>3. /\ OthersKept(w) /\ Same(work[w], work'[w]) /\ work'[w].stage \in {"ops", "store"}
        /\ work'[w].group = work[w].group /\ work'[w].groups = work[w].groups
        /\ work'[w].expires = work[w].expires
    <3>1. CASE Move(w, "store")
      BY <3>1, MoveFacts DEF Stages
    <3>2. CASE work' = [work EXCEPT ![w].todo = @ \ {i}]
      BY <2>1, <3>2, TodoFacts
    <3> QED
      BY <2>1, <3>1, <3>2
  <2> QED
    BY <1>7, <2>1, <2>2, <2>3 DEF Same, Active
<1>12. ASSUME NEW w \in Worker, Store(w) PROVE FreshInv'
  <2>1. PICK i : /\ work[w].stage = "store"
                 /\ work' = [work EXCEPT ![w].stage = "ops", ![w].todo = @ \ {i}]
    BY <1>12 DEF Store, At
  <2>2. UNCHANGED <<runs, finished>>
    BY <1>12 DEF Store, history
  <2>3. /\ OthersKept(w) /\ Same(work[w], work'[w]) /\ work'[w].stage = "ops"
        /\ work'[w].group = work[w].group /\ work'[w].groups = work[w].groups
        /\ work'[w].expires = work[w].expires
    BY <2>1, TodoFacts
  <2> QED
    BY <1>7, <2>1, <2>2, <2>3 DEF Same, Active
<1>13. ASSUME NEW w \in Worker, GroupApplied(w) PROVE FreshInv'
  <2>1. /\ Move(w, "groups") /\ work[w].stage = "ops" /\ runs' = runs
        /\ finished' = finished \union {Me(w)}
    BY <1>13 DEF GroupApplied, At, Me
  <2>2. /\ OthersKept(w) /\ Same(work[w], work'[w]) /\ work'[w].stage = "groups"
        /\ work'[w].group = work[w].group /\ work'[w].groups = work[w].groups
    BY <2>1, MoveFacts DEF Stages
  <2>3. work[w].run < runs /\ Me(w).run = work[w].run /\ Me(w).group = work[w].group
    BY <2>1 DEF TypeInv, WorkInv, WorkerInv, Me
  <2>4. ASSUME NEW v \in Worker, v # w, work[v].stage # "idle"
        PROVE  \A g : [run |-> work[v].run, group |-> g] # Me(w)
    <3>1. work[v].run # work[w].run
      BY <2>1, <2>4 DEF FreshInv
    <3> QED
      BY <2>3, <3>1
  <2>5. ASSUME NEW v \in Worker PROVE Fresh(work'[v], finished')
    <3>1. CASE v # w
      <4>1. PICK r : r = work[v]
        OBVIOUS
      <4>2. Fresh(r, finished) /\ work'[v] = r
        BY <2>2, <3>1, <4>1 DEF FreshInv, OthersKept
      <4>3. r.stage \in Busy \/ r.stage \in Active =>
              \A g : [run |-> r.run, group |-> g] \in finished' => [run |-> r.run, group |-> g] \in finished
        BY <2>1, <2>4, <3>1, <4>1 DEF Busy, Active
      <4>4. finished \subseteq finished'
        BY <2>1
      <4>5. Fresh(r, finished')
        BY <4>2, <4>3, <4>4 DEF Fresh
      <4> QED
        BY <4>2, <4>5
    <3>2. CASE v = w
      <4>1. PICK r, s : r = work[w] /\ s = work'[w]
        OBVIOUS
      <4>2. /\ Fresh(r, finished) /\ r.stage \in Busy /\ r.stage \in Active /\ s.stage \notin Active
            /\ s.run = r.run /\ s.groups = r.groups
        BY <2>1, <2>2, <4>1 DEF FreshInv, Busy, Active, Same
      <4>3. \A g \in r.groups : [run |-> r.run, group |-> g] \notin finished /\ g # r.group
        BY <4>2 DEF Fresh
      <4>4. \A g \in r.groups : [run |-> r.run, group |-> g].group # Me(w).group
        BY <2>3, <4>1, <4>3
      <4>5. \A g \in r.groups : [run |-> r.run, group |-> g] \notin finished'
        BY <2>1, <4>3, <4>4
      <4>6. Fresh(s, finished')
        BY <4>2, <4>5 DEF Fresh
      <4> QED
        BY <3>2, <4>1, <4>6
    <3> QED
      BY <3>1, <3>2
  <2>6. \A a \in finished' : a.run < runs'
    BY <2>1, <2>3 DEF FreshInv
  <2>7. \A u, v \in Worker : u # v /\ work'[u].stage # "idle" /\ work'[v].stage # "idle"
                              => work'[u].run # work'[v].run
    <3>1. \A x \in Worker : work'[x].run = work[x].run /\ (work'[x].stage # "idle" => work[x].stage # "idle")
      BY <2>1, <2>2 DEF OthersKept, Same
    <3> QED
      BY <3>1 DEF FreshInv
  <2> QED
    BY <2>5, <2>6, <2>7 DEF FreshInv
<1>14. CASE UNCHANGED vars
  BY <1>1, <1>14 DEF vars
<1> QED
  BY <1>2, <1>3, <1>4, <1>5, <1>6, <1>8, <1>9, <1>10, <1>11, <1>12, <1>13, <1>14 DEF Next

\* Labels always have the hook, and so has the key of a series.
LEMMA HookInLabels ==
  ASSUME NEW l, NEW h, NEW m, m = MergeLabels(l, HookLabel(h))
  PROVE  "hook" \in DOMAIN m /\ m["hook"] = h
<1>1. PICK c : c = HookLabel(h)
  OBVIOUS
<1>2. "hook" \in DOMAIN c /\ c["hook"] = h
  BY <1>1 DEF HookLabel
<1> QED
  BY <1>1, <1>2 DEF MergeLabels

LEMMA ByNext == GroupsApart /\ TypeInv /\ OwnerInv /\ ByInv /\ [Next]_vars => ByInv'
<1> SUFFICES ASSUME GroupsApart, TypeInv, OwnerInv, ByInv, [Next]_vars PROVE ByInv'
  OBVIOUS
<1>1. CASE UNCHANGED collectors
  BY <1>1 DEF ByInv
<1>2. ASSUME NEW w \in Worker, ExpireGroupMetrics(w) PROVE ByInv'
  <2>1. PICK n : Cleaned(w, n)
    BY <1>2, CleanedFacts
  <2> QED
    BY <2>1 DEF Cleaned, CollectorsStay, ByInv
<1>3. ASSUME NEW w \in Worker, GetOrCreateCollector(w), collectors' # collectors PROVE ByInv'
  <2>1. PICK n, i : 
               /\ CollectorsStay
               /\ DOMAIN collectors' = DOMAIN collectors \union {n}
               /\ collectors'[n].names = DOMAIN MergeLabels(work[w].ops[i].labels, HookLabel(work[w].hook))
               /\ collectors'[n].series = Empty
               /\ \A m \in DOMAIN collectors : collectors'[m] = collectors[m]
    BY <1>3, GetOrCreateCollectors
  <2>2. "hook" \in collectors'[n].names
    BY <2>1, HookInLabels
  <2>3. DOMAIN Empty = {}
    BY DEF Empty
  <2> QED
    BY <2>1, <2>2, <2>3 DEF ByInv
<1>4. ASSUME NEW w \in Worker, Store(w) PROVE ByInv'
  <2>1. PICK i, key, new : i \in work[w].todo /\ Stored(w, i, key, new)
    BY <1>4, StoreCollectors
  <2>2. PICK n, h, g, t : /\ n = work[w].ops[i].name /\ h = work[w].hook /\ g = work[w].group
                          /\ t = collectors[n].type
    OBVIOUS
  <2>3. /\ n \in DOMAIN collectors /\ DOMAIN collectors' = DOMAIN collectors
        /\ collectors'[n].names = collectors[n].names /\ collectors'[n].type = t
        /\ DOMAIN collectors'[n].series = DOMAIN collectors[n].series \union {key}
        /\ collectors'[n].series[key] = new
        /\ \A k \in DOMAIN collectors[n].series :
              k # key => collectors'[n].series[k] = collectors[n].series[k]
        /\ \A m \in DOMAIN collectors : m # n => collectors'[m] = collectors[m]
    BY <2>1, <2>2 DEF Stored, CollectorsStay
  <2>4. h \in Hook /\ key["hook"] = h
    <3>1. /\ work[w].stage = "store" /\ WorkerInv(work[w])
      BY <1>4 DEF Store, At, TypeInv, WorkInv
    <3>2. PICK l, m : l = work[w].ops[i].labels /\ m = MergeLabels(l, HookLabel(h))
      OBVIOUS
    <3>3. "hook" \in DOMAIN m /\ m["hook"] = h
      BY <3>2, HookInLabels
    <3>4. key = LabelValues(m, collectors[n].names)
      BY <2>1, <2>2, <3>2 DEF Stored
    <3>5. "hook" \in collectors[n].names
      BY <2>3 DEF ByInv
    <3>6. key["hook"] = m["hook"]
      BY <3>3, <3>4, <3>5 DEF LabelValues
    <3> QED
      BY <2>2, <3>1, <3>3, <3>6 DEF WorkerInv
  <2>5. Uses(h, n, t, g)
    <3>1. /\ work[w].stage = "store" /\ WorkerInv(work[w])
      BY <1>4 DEF Store, At, TypeInv, WorkInv
    <3>2. PICK ops : ops = work[w].ops
      OBVIOUS
    <3>3. ops \in FilesOf(h) /\ ValidateOperations(ops) /\ g \in Groups(ops)
      BY <2>2, <3>1, <3>2 DEF WorkerInv
    <3>4. g # Nil
      BY <3>3 DEF Groups
    <3>5. /\ i \in DOMAIN ops /\ ops[i].name = n /\ ops[i].action = t /\ t # "expire" /\ ops[i].group = g
      BY <2>1, <2>2, <3>2 DEF Stored
    <3> QED
      BY <3>3, <3>4, <3>5 DEF Uses
  <2>6. ASSUME NEW g2, Uses(h, n, t, g2) PROVE g2 = g
    <3>1. PICK f1 \in FilesOf(h) : \E i1 \in DOMAIN f1 :
            /\ ValidateOperations(f1)
            /\ f1[i1].name = n /\ f1[i1].action = t /\ t # "expire" /\ f1[i1].group = g /\ g # Nil
      BY <2>5 DEF Uses
    <3>2. PICK f2 \in FilesOf(h) : \E i2 \in DOMAIN f2 :
            /\ ValidateOperations(f2)
            /\ f2[i2].name = n /\ f2[i2].action = t /\ t # "expire" /\ f2[i2].group = g2 /\ g2 # Nil
      BY <2>6 DEF Uses
    <3> QED
      BY <2>4, <3>1, <3>2 DEF GroupsApart, FilesOf
  <2>7. /\ Uses(h, n, t, new.group)
        /\ \A m \in new.by : m.group = new.group
    <3>1. Me(w).group = g
      BY <2>2 DEF Me
    <3>2. CASE key \in DOMAIN collectors[n].series
      <4>1. PICK s : s = collectors[n].series[key]
        OBVIOUS
      <4>2. Uses(h, n, t, s.group) /\ \A m \in s.by : m.group = s.group
        BY <2>2, <2>3, <2>4, <3>2, <4>1 DEF ByInv
      <4>3. s.group = g
        BY <2>6, <4>2
      <4>4. new.group = s.group /\ new.by \subseteq s.by \union {Me(w)}
        BY <2>1, <2>2, <3>2, <4>1 DEF Stored
      <4> QED
        BY <3>1, <4>2, <4>3, <4>4
    <3>3. CASE key \notin DOMAIN collectors[n].series
      <4>1. new.group = g /\ new.by \subseteq {Me(w)}
        BY <2>1, <2>2, <3>3 DEF Stored
      <4> QED
        BY <2>5, <3>1, <4>1
    <3> QED
      BY <3>2, <3>3
  <2>8. ASSUME NEW k \in DOMAIN collectors'[n].series
        PROVE  /\ k["hook"] \in Hook
               /\ Uses(k["hook"], n, t, collectors'[n].series[k].group)
               /\ \A m \in collectors'[n].series[k].by : m.group = collectors'[n].series[k].group
    <3>1. CASE k = key
      BY <2>3, <2>4, <2>7, <3>1
    <3>2. CASE k # key
      <4>1. k \in DOMAIN collectors[n].series /\ collectors'[n].series[k] = collectors[n].series[k]
        BY <2>3, <2>8, <3>2
      <4>2. /\ k["hook"] \in Hook
            /\ Uses(k["hook"], n, t, collectors[n].series[k].group)
            /\ \A m \in collectors[n].series[k].by : m.group = collectors[n].series[k].group
        BY <2>2, <2>3, <4>1 DEF ByInv
      <4> QED
        BY <4>1, <4>2
    <3> QED
      BY <3>1, <3>2
  <2>9. SUFFICES ASSUME NEW m \in DOMAIN collectors'
        PROVE  /\ "hook" \in collectors'[m].names
               /\ \A k \in DOMAIN collectors'[m].series :
                    /\ k["hook"] \in Hook
                    /\ Uses(k["hook"], m, collectors'[m].type, collectors'[m].series[k].group)
                    /\ \A x \in collectors'[m].series[k].by : x.group = collectors'[m].series[k].group
    BY DEF ByInv, Uses
  <2>10. CASE m = n
    BY <2>3, <2>8, <2>10 DEF ByInv
  <2>11. CASE m # n
    BY <2>3, <2>11 DEF ByInv
  <2> QED
    BY <2>10, <2>11
<1>5. ASSUME NEW w \in Worker, VecCall(w) \/ Elsewhere(w) PROVE ByInv'
  BY <1>1, <1>5, VecCallFacts, ElsewhereFacts
<1> QED
  BY <1>1, <1>2, <1>3, <1>4, <1>5 DEF Next, Elsewhere, vars

\* A step under which no collector takes up anything that has ended.
LEMMA StaleKept ==
  ASSUME StaleInv, FreshInv, NEW w \in Worker, OthersAlike(w), gone' = gone, finished \subseteq finished',
         \A n \in DOMAIN collectors' : \A as :
            /\ as \subseteq finished
            /\ n \in DOMAIN collectors => Clean(collectors[n].series, as)
            => Clean(collectors'[n].series, as),
         work'[w].stage = "expire" =>
            \A n \in DOMAIN collectors' \ work'[w].left : Clean(collectors'[n].series, work'[w].expires)
  PROVE  StaleInv'
<1>1. gone' \subseteq finished'
  BY DEF StaleInv
<1>2. \A n \in DOMAIN collectors' : Clean(collectors'[n].series, gone')
  BY DEF StaleInv
<1>3. ASSUME NEW v \in Worker, work'[v].stage = "expire", NEW n \in DOMAIN collectors' \ work'[v].left
      PROVE  Clean(collectors'[n].series, work'[v].expires)
  <2>1. CASE v # w
    <3>1. PICK e : e = work[v].expires
      OBVIOUS
    <3>2. work[v].stage = "expire" /\ work'[v].left = work[v].left /\ work'[v].expires = e
      BY <1>3, <2>1, <3>1 DEF OthersAlike, Alike
    <3>3. e \subseteq finished
      BY <3>1, <3>2 DEF FreshInv, Fresh, Active
    <3>4. n \in DOMAIN collectors => Clean(collectors[n].series, e)
      BY <1>3, <3>1, <3>2 DEF StaleInv
    <3> QED
      BY <3>2, <3>3, <3>4
  <2> QED
    BY <1>3, <2>1
<1> QED
  BY <1>1, <1>2, <1>3 DEF StaleInv

LEMMA StaleNext == TypeInv /\ OwnerInv /\ ByInv /\ FreshInv /\ StaleInv /\ [Next]_vars => StaleInv'
<1> SUFFICES ASSUME TypeInv, OwnerInv, ByInv, FreshInv, StaleInv, [Next]_vars PROVE StaleInv'
  OBVIOUS
<1>1. CASE UNCHANGED <<collectors, work, finished, gone>>
  BY <1>1 DEF StaleInv
<1>2. ASSUME NEW w \in Worker, VecCall(w) PROVE StaleInv'
  BY <1>1, <1>2, VecCallFacts DEF VecCall, Lookup, Register, Write, history
<1>3. ASSUME NEW w \in Worker, OthersAlike(w), UNCHANGED <<collectors, gone>>, finished \subseteq finished',
             work'[w].stage # "expire" \/ work'[w].left = DOMAIN collectors
      PROVE  StaleInv'
  BY <1>3, StaleKept
<1>4. ASSUME NEW w \in Worker, RunHook(w) PROVE StaleInv'
  <2>1. UNCHANGED <<collectors, gone, finished>> /\ OthersKept(w)
    BY <1>4, RunHookFacts DEF RunHook, storage
  <2>2. PICK ops : work'[w].stage = IF ValidateOperations(ops) THEN "groups" ELSE "failed"
    BY <1>4, RunHookFacts
  <2> QED
    BY <1>3, <2>1, <2>2, KeptAlike
<1>5. ASSUME NEW w \in Worker, SendBatchV0(w) PROVE StaleInv'
  <2>1. /\ UNCHANGED <<collectors, gone, finished>> /\ work \in [Worker -> Work]
        /\ work[w].stage = "groups"
    BY <1>5 DEF SendBatchV0, At, storage, history, TypeInv, WorkInv
  <2>2. \/ Move(w, "failed")
        \/ \E i : work' = [work EXCEPT ![w].send = @ \ {i}]
    BY <1>5 DEF SendBatchV0
  <2>3. CASE Move(w, "failed")
    <3>1. OthersKept(w) /\ work'[w].stage = "failed"
      BY <2>3, MoveFacts DEF Stages
    <3> QED
      BY <1>3, <2>1, <3>1, KeptAlike
  <2>4. ASSUME NEW i, work' = [work EXCEPT ![w].send = @ \ {i}] PROVE StaleInv'
    <3>1. work'[w] = [work[w] EXCEPT !.send = @ \ {i}] /\ OthersKept(w)
      BY <2>1, <2>4 DEF OthersKept
    <3>2. PICK r \in Work : r = work[w]
      BY <2>1
    <3>3. PICK s : s = work'[w]
      OBVIOUS
    <3>4. s.stage = r.stage
      BY <3>1, <3>2, <3>3 DEF Work
    <3> QED
      BY <1>3, <2>1, <3>1, <3>2, <3>3, <3>4, KeptAlike
  <2> QED
    BY <2>2, <2>3, <2>4
<1>6. ASSUME NEW w \in Worker, Report(w) PROVE StaleInv'
  <2>1. /\ UNCHANGED <<collectors, gone, finished>> /\ work \in [Worker -> Work]
    BY <1>6, ReportFacts DEF TypeInv, WorkInv
  <2>2. OthersKept(w) /\ work'[w].stage \in {"idle"} \union ReportStages
    <3>1. CASE work' = [work EXCEPT ![w] = Idle]
      BY <2>1, <3>1 DEF OthersKept, Idle
    <3>2. ASSUME NEW t \in ReportStages, Move(w, t)
          PROVE  OthersKept(w) /\ work'[w].stage \in ReportStages
      BY <3>2, MoveFacts DEF Stages, ReportStages
    <3> QED
      BY <1>6, <3>1, <3>2, ReportFacts
  <2> QED
    BY <1>3, <2>1, <2>2, KeptAlike DEF ReportStages
<1>7. ASSUME NEW w \in Worker, ApplyGroup(w) PROVE StaleInv'
  <2>1. UNCHANGED <<collectors, gone, finished>>
    BY <1>7 DEF ApplyGroup, history
  <2>2. work'[w].left = DOMAIN collectors
    BY <1>7, ApplyGroupFacts
  <2> QED
    BY <1>3, <1>7, <2>1, <2>2, ApplyAlike
<1>8. ASSUME NEW w \in Worker, ExpireOp(w) PROVE StaleInv'
  <2>1. UNCHANGED <<collectors, gone, finished>>
    BY <1>8 DEF ExpireOp, history
  <2>2. work'[w].left = DOMAIN collectors /\ OthersKept(w)
    BY <1>8, ExpireOpFacts
  <2> QED
    BY <1>3, <2>1, <2>2, KeptAlike
<1>9. ASSUME NEW w \in Worker, GroupApplied(w) PROVE StaleInv'
  <2>1. UNCHANGED <<collectors, gone>> /\ finished \subseteq finished' /\ Move(w, "groups")
    BY <1>9 DEF GroupApplied, storage
  <2>2. OthersKept(w) /\ work'[w].stage = "groups"
    BY <2>1, MoveFacts DEF Stages
  <2> QED
    BY <1>3, <2>1, <2>2, KeptAlike
<1>10. ASSUME NEW w \in Worker, ExpireGroupMetrics(w) PROVE StaleInv'
  <2>1. PICK n : Cleaned(w, n) /\ work'[w].left = work[w].left \ {n}
    BY <1>10, CleanedFacts
  <2>2. UNCHANGED <<gone, finished>>
    BY <1>10 DEF ExpireGroupMetrics, history
  <2>3. /\ OthersKept(w) /\ work'[w].stage = "expire" /\ work[w].stage = "expire"
        /\ work'[w].expires = work[w].expires
    BY <1>10, ExpireGroupFacts
  <2>4. ASSUME NEW m \in DOMAIN collectors', NEW as,
               m \in DOMAIN collectors => Clean(collectors[m].series, as)
        PROVE  Clean(collectors'[m].series, as)
    <3>1. CASE m = n
      BY <2>1, <2>4, <3>1 DEF Cleaned, Clean
    <3>2. CASE m # n
      BY <2>1, <2>4, <3>2 DEF Cleaned
    <3> QED
      BY <3>1, <3>2
  <2>5. ASSUME NEW m \in DOMAIN collectors' \ work'[w].left
        PROVE  Clean(collectors'[m].series, work'[w].expires)
    <3>1. CASE m = n
      <4>1. \A a \in work[w].expires : a.group = work[w].group
        BY <2>3 DEF FreshInv, Fresh, Active
      <4>2. ASSUME NEW k \in DOMAIN collectors'[n].series
            PROVE  collectors'[n].series[k].by \cap work[w].expires = {}
        <5>1. PICK s : s = collectors[n].series[k]
          OBVIOUS
        <5>2. collectors'[n].series[k] = s /\ k \in DOMAIN collectors[n].series /\ s.group # work[w].group
          BY <2>1, <4>2, <5>1 DEF Cleaned
        <5>3. \A x \in s.by : x.group = s.group
          BY <2>1, <5>1, <5>2 DEF ByInv, Cleaned
        <5> QED
          BY <4>1, <5>2, <5>3
      <4> QED
        BY <2>3, <3>1, <4>2 DEF Clean
    <3>2. CASE m # n
      <4>1. m \in DOMAIN collectors \ work[w].left /\ collectors'[m] = collectors[m]
        BY <2>1, <2>5, <3>2 DEF Cleaned
      <4> QED
        BY <2>3, <4>1 DEF StaleInv
    <3> QED
      BY <3>1, <3>2
  <2> QED
    BY <2>2, <2>3, <2>4, <2>5, KeptAlike, StaleKept
<1>11. ASSUME NEW w \in Worker, Expired(w) PROVE StaleInv'
  <2>1. /\ Move(w, "ops") /\ work[w].stage = "expire" /\ work[w].left = {}
        /\ gone' = gone \union work[w].expires /\ UNCHANGED <<collectors, finished>>
    BY <1>11 DEF Expired, At
  <2>2. OthersKept(w) /\ work'[w].stage = "ops"
    BY <2>1, MoveFacts DEF Stages
  <2>3. work[w].expires \subseteq finished
    BY <2>1 DEF FreshInv, Fresh, Active
  <2>4. ASSUME NEW n \in DOMAIN collectors PROVE Clean(collectors[n].series, gone')
    <3>1. Clean(collectors[n].series, gone) /\ Clean(collectors[n].series, work[w].expires)
      BY <2>1 DEF StaleInv
    <3> QED
      BY <2>1, <3>1 DEF Clean
  <2>5. gone' \subseteq finished'
    BY <2>1, <2>3 DEF StaleInv
  <2>6. ASSUME NEW v \in Worker, work'[v].stage = "expire" PROVE work'[v] = work[v]
    BY <2>2, <2>6 DEF OthersKept
  <2> QED
    BY <2>1, <2>4, <2>5, <2>6 DEF StaleInv
<1>12. ASSUME NEW w \in Worker, GetOrCreateCollector(w) PROVE StaleInv'
  <2>1. PICK i : /\ work[w].stage = "ops"
                 /\ Move(w, "store") \/ work' = [work EXCEPT ![w].todo = @ \ {i}]
    BY <1>12 DEF GetOrCreateCollector, At
  <2>2. UNCHANGED <<gone, finished>>
    BY <1>12 DEF GetOrCreateCollector, history
  <2>3. OthersKept(w) /\ work'[w].stage \in {"ops", "store"}
    <3>1. CASE Move(w, "store")
      BY <3>1, MoveFacts DEF Stages
    <3>2. CASE work' = [work EXCEPT ![w].todo = @ \ {i}]
      BY <2>1, <3>2, TodoFacts
    <3> QED
      BY <2>1, <3>1, <3>2
  <2>4. ASSUME NEW m \in DOMAIN collectors', NEW as,
               m \in DOMAIN collectors => Clean(collectors[m].series, as)
        PROVE  Clean(collectors'[m].series, as)
    <3>1. CASE collectors' = collectors
      BY <2>4, <3>1
    <3>2. CASE collectors' # collectors
      <4>1. PICK n : /\ DOMAIN collectors' = DOMAIN collectors \union {n}
                     /\ collectors'[n].series = Empty
                     /\ \A k \in DOMAIN collectors : collectors'[k] = collectors[k]
        BY <1>12, <3>2, GetOrCreateCollectors
      <4>2. Clean(Empty, as)
        BY DEF Clean, Empty
      <4> QED
        BY <2>4, <4>1, <4>2
    <3> QED
      BY <3>1, <3>2
  <2> QED
    BY <2>2, <2>3, <2>4, KeptAlike, StaleKept
<1>13. ASSUME NEW w \in Worker, Store(w) PROVE StaleInv'
  <2>1. PICK i, key, new : i \in work[w].todo /\ Stored(w, i, key, new)
    BY <1>13, StoreCollectors
  <2>2. UNCHANGED <<gone, finished>> /\ work[w].stage = "store"
    BY <1>13 DEF Store, At, history
  <2>3. PICK j : work' = [work EXCEPT ![w].stage = "ops", ![w].todo = @ \ {j}]
    BY <1>13 DEF Store
  <2>4. OthersKept(w) /\ work'[w].stage = "ops"
    BY <2>3, TodoFacts
  <2>5. Me(w) \notin finished
    BY <2>2 DEF FreshInv, Fresh, Active, Me
  <2>6. PICK n : n = work[w].ops[i].name
    OBVIOUS
  <2>7. ASSUME NEW m \in DOMAIN collectors', NEW as, as \subseteq finished,
               m \in DOMAIN collectors => Clean(collectors[m].series, as)
        PROVE  Clean(collectors'[m].series, as)
    <3>1. CASE m = n
      <4>1. PICK f, F : f = collectors[n].series /\ F = collectors'[n].series
        OBVIOUS
      <4>2. /\ n \in DOMAIN collectors
            /\ key \in DOMAIN f => new.by \subseteq f[key].by \union {Me(w)}
            /\ key \notin DOMAIN f => new.by \subseteq {Me(w)}
            /\ DOMAIN F = DOMAIN f \union {key} /\ F[key] = new
            /\ \A k \in DOMAIN f : k # key => F[k] = f[k]
        BY <2>1, <2>6, <4>1 DEF Stored
      <4>3. Clean(f, as)
        BY <2>7, <3>1, <4>1, <4>2
      <4>4. new.by \cap as = {}
        <5>1. CASE key \in DOMAIN f
          <6>1. f[key].by \cap as = {}
            BY <4>3, <5>1 DEF Clean
          <6> QED
            BY <2>5, <2>7, <4>2, <5>1, <6>1
        <5>2. CASE key \notin DOMAIN f
          BY <2>5, <2>7, <4>2, <5>2
        <5> QED
          BY <5>1, <5>2
      <4>5. Clean(F, as)
        BY <4>2, <4>3, <4>4 DEF Clean
      <4> QED
        BY <3>1, <4>1, <4>5
    <3>2. CASE m # n
      <4>1. m \in DOMAIN collectors /\ collectors'[m] = collectors[m]
        BY <2>1, <2>6, <2>7, <3>2 DEF Stored
      <4> QED
        BY <2>7, <4>1
    <3> QED
      BY <3>1, <3>2
  <2> QED
    BY <2>2, <2>4, <2>7, KeptAlike, StaleKept
<1>14. CASE UNCHANGED vars
  BY <1>1, <1>14 DEF vars
<1> QED
  BY <1>2, <1>4, <1>5, <1>6, <1>7, <1>8, <1>9, <1>10, <1>11, <1>12, <1>13, <1>14 DEF Next

\* When the files of a hook keep their groups apart, the series that a group
\* has written go when a later batch expires the group: whatever workers write
\* to the collectors between the steps of ExpireGroupMetrics, and however often
\* the same group is applied by several of them, nothing of an application that
\* was expired is left or comes back.
THEOREM ExpiredIsGone == GroupsApart /\ Spec => []NoStaleSeries
<1>1. StaleInv => NoStaleSeries
  BY DEF StaleInv, NoStaleSeries, Clean, Collect
<1>2. ASSUME GroupsApart PROVE Spec => []NoStaleSeries
  <2>1. TypeInv /\ OwnerInv /\ ByInv /\ [Next]_vars => ByInv'
    BY <1>2, ByNext
  <2> QED
    BY <1>1, <2>1, TypeInit, TypeNext, OwnerInit, OwnerNext, GroupsInit, FreshNext, StaleNext, PTL
       DEF Spec
<1> QED
  BY <1>2

-----------------------------------------------------------------------------
(* A group shows its last batch.  The series of a group are compared with  *)
(* the operations that have been applied so far, at the positions done.    *)

\* Operations that no later "expire" has undone, and those for one metric.
Live(ops, done) ==
    {i \in done : /\ ops[i].action # "expire"
                  /\ \A j \in done : ops[j].action = "expire" => j < i}
Mine(ops, done, n, type) == {i \in Live(ops, done) : ops[i].name = n /\ ops[i].action = type}

\* The series that an operation of hook h writes to.
KeyOf(h, ops, i, names) == LabelValues(MergeLabels(ops[i].labels, HookLabel(h)), names)
Writers(h, ops, is, names, key) == {i \in is : KeyOf(h, ops, i, names) = key}

\* The sum of the values for a counter, the last one for a gauge.
HasValue(ops, type, is, x) ==
    /\ type = "add" => x = SumHalves(ops, is)
    /\ type # "add" => \E m \in is : x = ops[m].value /\ \A j \in is : j <= m

SeriesOf(col, g) == {key \in DOMAIN col.series : col.series[key].group = g}

\* A collector has what the operations at some positions ask for.
Matches(h, ops, g, done, n, col) ==
    LET mine == Mine(ops, done, n, col.type)
    IN /\ \A i \in mine : KeyOf(h, ops, i, col.names) \in SeriesOf(col, g)
       /\ \A key \in SeriesOf(col, g) :
            /\ \E i \in mine : KeyOf(h, ops, i, col.names) = key
            /\ HasValue(ops, col.type, Writers(h, ops, mine, col.names, key), col.series[key].value)
Shows(cs, h, ops, g, done) == \A n \in DOMAIN cs : Matches(h, ops, g, done, n, cs[n])

\* The names of operations that were applied or dropped are taken for ever.
Named(reg, ops, done) == \A i \in done : ops[i].action # "expire" => ops[i].name \in reg

\* How far an application is that nobody else disturbs.
Done(r) == OfGroup(r.ops, r.group) \ r.todo
Progress(cs, reg, r) ==
    /\ \A i \in Done(r), j \in r.todo : i < j
    /\ Named(reg, r.ops, Done(r))
    /\ r.stage = "expire" => /\ Live(r.ops, Done(r)) = {}
                             /\ \A n \in DOMAIN cs \ r.left : SeriesOf(cs[n], r.group) = {}
    /\ r.stage # "expire" => Shows(cs, r.hook, r.ops, r.group, Done(r))

AloneInv ==
    \A v, w \in Worker :
        v # w /\ work[v].stage \in Active /\ work[w].stage \in Active /\ work[v].group = work[w].group
            => ~work[w].alone

ProgressInv ==
    \A w \in Worker : work[w].stage \in Active /\ work[w].alone
                        => Progress(collectors, Registered, work[w])

\* The last batch of a group while no other is applied.
LastOK(cs, reg, g, a) ==
    /\ Named(reg, a.ops, OfGroup(a.ops, g))
    /\ Shows(cs, a.hook, a.ops, g, OfGroup(a.ops, g))
LastInv ==
    \A g \in DOMAIN last :
        /\ last[g].hook \in Hook /\ last[g].ops \in FilesOf(last[g].hook)
        /\ ValidateOperations(last[g].ops) /\ g # Nil
        /\ last[g].alone /\ (\A w \in Worker : ~Applying(w, g))
              => LastOK(collectors, Registered, g, last[g])

BatchInv == AloneInv /\ ProgressInv /\ LastInv

-----------------------------------------------------------------------------
(* Sums.                                                                   *)

\* The recursive function under SumHalves.
Choice(s) == CHOOSE x \in s : TRUE
SumPart(ops, S, g) ==
    g = [s \in SUBSET S |-> IF s = {} THEN 0
                            ELSE Whole(ops[Choice(s)].value) + g[s \ {Choice(s)}]]

LEMMA SumUnfolds ==
  ASSUME NEW ops, NEW S
  PROVE  SumHalves(ops, S) = (CHOOSE g : SumPart(ops, S, g))[S]
  BY Zenon DEF SumHalves, MapThenSumSet, MapThenFoldSet, SumPart, Choice

\* What holds of the empty set, and of a set if it holds of all sets with one
\* element less, holds of all subsets of a finite set.
LEMMA SetInduction ==
  ASSUME NEW S, IsFiniteSet(S), NEW P, {} \in P,
         \A s \in SUBSET S : s # {} /\ (\A x \in s : s \ {x} \in P) => s \in P
  PROVE  SUBSET S \subseteq P
<1> DEFINE N == {n \in Nat : \A s \in SUBSET S : Cardinality(s) = n => s \in P}
<1>1. \A s \in SUBSET S : IsFiniteSet(s) /\ Cardinality(s) \in Nat
  BY FS_Subset, FS_CardinalityType
<1>2. 0 \in N
  <2>1. \A s \in SUBSET S : Cardinality(s) = 0 => s = {}
    BY <1>1, FS_EmptySet
  <2> QED
    BY <2>1
<1>3. ASSUME NEW n \in Nat, n \in N PROVE n + 1 \in N
  <2>1. SUFFICES ASSUME NEW s \in SUBSET S, Cardinality(s) = n + 1 PROVE s \in P
    <3>1. n + 1 \in Nat
      OBVIOUS
    <3> QED
      BY <3>1
  <2>2. s # {}
    BY <2>1, FS_EmptySet
  <2>3. ASSUME NEW x \in s PROVE s \ {x} \in P
    <3>1. IsFiniteSet(s)
      BY <1>1
    <3>2. Cardinality(s \ {x}) = Cardinality(s) - 1
      BY <3>1, FS_RemoveElement
    <3>3. Cardinality(s \ {x}) = n
      BY <1>3, <2>1, <3>2
    <3> QED
      BY <1>3, <3>3
  <2> QED
    BY <2>2, <2>3
<1> HIDE DEF N
<1>4. Nat \subseteq N
  BY <1>2, <1>3, NumberInduction
<1>5. \A s \in SUBSET S : Cardinality(s) \in N
  BY <1>1, <1>4
<1> QED
  BY <1>5 DEF N

LEMMA ChoiceIn == ASSUME NEW s, s # {} PROVE Choice(s) \in s
  BY DEF Choice

\* The function is there, ...
Level(S, n) == {s \in SUBSET S : Cardinality(s) <= n}
SumUpTo(ops, S, n, g) ==
    g = [s \in Level(S, n) |-> IF s = {} THEN 0
                               ELSE Whole(ops[Choice(s)].value) + g[s \ {Choice(s)}]]

LEMMA SumLevels ==
  ASSUME NEW ops, NEW S, IsFiniteSet(S)
  PROVE  \A n \in Nat : \E g : SumUpTo(ops, S, n, g)
<1> DEFINE N == {n \in Nat : \E g : SumUpTo(ops, S, n, g)}
           body(g, s) == IF s = {} THEN 0 ELSE Whole(ops[Choice(s)].value) + g[s \ {Choice(s)}]
<1>1. \A s \in SUBSET S : IsFiniteSet(s) /\ Cardinality(s) \in Nat
  BY FS_Subset, FS_CardinalityType
<1>2. 0 \in N
  <2>1. \A s \in Level(S, 0) : s = {}
    <3>1. SUFFICES ASSUME NEW s \in Level(S, 0) PROVE s = {}
      OBVIOUS
    <3>2. s \in SUBSET S /\ Cardinality(s) <= 0
      BY DEF Level
    <3>3. Cardinality(s) = 0 /\ IsFiniteSet(s)
      BY <1>1, <3>2
    <3> QED
      BY <3>3, FS_EmptySet
  <2>2. PICK g : g = [s \in Level(S, 0) |-> 0]
    OBVIOUS
  <2>3. SumUpTo(ops, S, 0, g)
    BY <2>1, <2>2 DEF SumUpTo
  <2> QED
    BY <2>3
<1>3. ASSUME NEW n \in Nat, n \in N PROVE n + 1 \in N
  <2>1. PICK g : SumUpTo(ops, S, n, g)
    BY <1>3
  <2>2. PICK k : k = [s \in Level(S, n + 1) |-> body(g, s)]
    OBVIOUS
  <2>3. ASSUME NEW s \in Level(S, n) PROVE s \in Level(S, n + 1) /\ k[s] = g[s]
    <3>1. s \in SUBSET S /\ Cardinality(s) <= n
      BY DEF Level
    <3>2. Cardinality(s) <= n + 1
      BY <1>1, <3>1
    <3>3. s \in Level(S, n + 1)
      BY <3>1, <3>2 DEF Level
    <3>4. k[s] = body(g, s)
      BY <2>2, <3>3
    <3>5. g[s] = body(g, s)
      BY <2>1 DEF SumUpTo
    <3> QED
      BY <3>3, <3>4, <3>5
  <2>4. ASSUME NEW s \in Level(S, n + 1), s # {} PROVE s \ {Choice(s)} \in Level(S, n)
    <3>1. s \in SUBSET S /\ Cardinality(s) <= n + 1 /\ IsFiniteSet(s)
      BY <1>1 DEF Level
    <3>2. Choice(s) \in s
      BY <2>4, ChoiceIn
    <3>3. Cardinality(s \ {Choice(s)}) = Cardinality(s) - 1
      BY <3>1, <3>2, FS_RemoveElement
    <3>4. Cardinality(s \ {Choice(s)}) <= n
      BY <1>1, <3>1, <3>3
    <3> QED
      BY <3>1, <3>4 DEF Level
  <2>5. ASSUME NEW s \in Level(S, n + 1) PROVE body(g, s) = body(k, s)
    BY <2>3, <2>4
  <2>6. k = [s \in Level(S, n + 1) |-> body(k, s)]
    BY <2>2, <2>5
  <2>7. SumUpTo(ops, S, n + 1, k)
    BY <2>6 DEF SumUpTo
  <2> QED
    BY <1>3, <2>7
<1> HIDE DEF N
<1>4. Nat \subseteq N
  BY <1>2, <1>3, NumberInduction
<1> QED
  BY <1>4 DEF N

LEMMA SumExists ==
  ASSUME NEW ops, NEW S, IsFiniteSet(S)
  PROVE  \E g : SumPart(ops, S, g)
<1>1. Cardinality(S) \in Nat
  BY FS_CardinalityType
<1>2. PICK g : SumUpTo(ops, S, Cardinality(S), g)
  BY <1>1, SumLevels
<1>3. \A s \in SUBSET S : Cardinality(s) <= Cardinality(S)
  BY FS_Subset
<1>4. Level(S, Cardinality(S)) = SUBSET S
  BY <1>3 DEF Level
<1>5. SumPart(ops, S, g)
  BY <1>2, <1>4 DEF SumPart, SumUpTo
<1> QED
  BY <1>5

\* ... its values are numbers, ...
LEMMA SumNumbers ==
  ASSUME NEW ops, NEW S, IsFiniteSet(S), NEW g, SumPart(ops, S, g),
         \A i \in S : Whole(ops[i].value) \in Int
  PROVE  \A s \in SUBSET S : g[s] \in Int
<1> DEFINE W(i) == Whole(ops[i].value)
           P == {s \in SUBSET S : g[s] \in Int}
<1>1. /\ g[{}] = 0
      /\ \A s \in SUBSET S : s # {} => g[s] = W(Choice(s)) + g[s \ {Choice(s)}]
  BY DEF SumPart
<1>2. {} \in P
  BY <1>1
<1>3. ASSUME NEW s \in SUBSET S, s # {}, \A x \in s : s \ {x} \in P
      PROVE  s \in P
  <2>1. PICK c \in s : c = Choice(s)
    BY <1>3, ChoiceIn
  <2>2. g[s] = W(c) + g[s \ {c}] /\ W(c) \in Int
    BY <1>1, <1>3, <2>1
  <2>3. PICK a, b \in Int : a = W(c) /\ b = g[s \ {c}]
    BY <1>3, <2>2
  <2>4. g[s] \in Int
    BY <2>2, <2>3
  <2> QED
    BY <2>4
<1> HIDE DEF P
<1>4. SUBSET S \subseteq P
  BY <1>2, <1>3, SetInduction
<1> QED
  BY <1>4 DEF P

\* ... whichever element is taken first, ...
LEMMA SumAny ==
  ASSUME NEW ops, NEW S, IsFiniteSet(S), NEW g, SumPart(ops, S, g),
         \A i \in S : Whole(ops[i].value) \in Int
  PROVE  \A s \in SUBSET S : \A x \in s : g[s] = Whole(ops[x].value) + g[s \ {x}]
<1> DEFINE W(i) == Whole(ops[i].value)
           P == {s \in SUBSET S : \A x \in s : g[s] = W(x) + g[s \ {x}]}
<1>1. \A s \in SUBSET S : s # {} => g[s] = W(Choice(s)) + g[s \ {Choice(s)}]
  BY DEF SumPart
<1>2. {} \in P
  OBVIOUS
<1>3. ASSUME NEW s \in SUBSET S, s # {}, \A x \in s : s \ {x} \in P
      PROVE  s \in P
  <2>1. PICK c \in s : c = Choice(s)
    BY <1>3, ChoiceIn
  <2>2. g[s] = W(c) + g[s \ {c}]
    BY <1>1, <1>3, <2>1
  <2>3. \A x \in s : \A y \in s \ {x} : g[s \ {x}] = W(y) + g[(s \ {x}) \ {y}]
    BY <1>3
  <2>4. ASSUME NEW x \in s PROVE g[s] = W(x) + g[s \ {x}]
    <3>1. CASE x = c
      BY <2>2, <3>1
    <3>2. CASE x # c
      <4>1. g[s \ {c}] = W(x) + g[(s \ {c}) \ {x}]
        BY <2>3, <3>2
      <4>2. g[s \ {x}] = W(c) + g[(s \ {x}) \ {c}]
        BY <2>3, <3>2
      <4>3. (s \ {x}) \ {c} = (s \ {c}) \ {x} /\ (s \ {c}) \ {x} \in SUBSET S
        OBVIOUS
      <4>4. g[(s \ {c}) \ {x}] \in Int
        BY <4>3, SumNumbers
      <4>5. PICK a, b, u \in Int : a = W(x) /\ b = W(c) /\ u = g[(s \ {c}) \ {x}]
        BY <4>4
      <4>6. g[s \ {c}] = a + u /\ g[s \ {x}] = b + u /\ g[s] = b + g[s \ {c}]
        BY <2>2, <4>1, <4>2, <4>3, <4>5
      <4>7. g[s] = a + g[s \ {x}]
        BY <4>5, <4>6
      <4> QED
        BY <4>5, <4>7
    <3> QED
      BY <3>1, <3>2
  <2> QED
    BY <2>4
<1> HIDE DEF P
<1>4. SUBSET S \subseteq P
  BY <1>2, <1>3, SetInduction
<1> QED
  BY <1>4 DEF P

\* ... and those for a smaller set agree with it.
LEMMA SumAgrees ==
  ASSUME NEW ops, NEW S, IsFiniteSet(S), NEW T \in SUBSET S, NEW g, SumPart(ops, S, g),
         NEW f, SumPart(ops, T, f)
  PROVE  f[T] = g[T]
<1> DEFINE P == {s \in SUBSET T : f[s] = g[s]}
           W(i) == Whole(ops[i].value)
<1>1. /\ g[{}] = 0 /\ f[{}] = 0
      /\ \A s \in SUBSET S : s # {} => g[s] = W(Choice(s)) + g[s \ {Choice(s)}]
      /\ \A s \in SUBSET T : s # {} => f[s] = W(Choice(s)) + f[s \ {Choice(s)}]
  BY DEF SumPart
<1>2. {} \in P
  BY <1>1
<1>3. ASSUME NEW s \in SUBSET T, s # {}, \A x \in s : s \ {x} \in P
      PROVE  s \in P
  <2>1. Choice(s) \in s
    BY <1>3, ChoiceIn
  <2>2. f[s \ {Choice(s)}] = g[s \ {Choice(s)}]
    BY <1>3, <2>1
  <2> QED
    BY <1>1, <1>3, <2>2
<1> HIDE DEF P
<1>4. IsFiniteSet(T)
  BY FS_Subset
<1>5. SUBSET T \subseteq P
  BY <1>2, <1>3, <1>4, SetInduction
<1> QED
  BY <1>5 DEF P

\* A sum grows by the value at a new position.
LEMMA SumAdd ==
  ASSUME NEW ops, NEW S, IsFiniteSet(S), NEW x, x \notin S, NEW T, T = S \union {x},
         \A i \in T : Whole(ops[i].value) \in Int
  PROVE  SumHalves(ops, T) = SumHalves(ops, S) + Whole(ops[x].value)
<1>1. IsFiniteSet(T) /\ S \in SUBSET T /\ T \ {x} = S /\ x \in T
  BY FS_AddElement
<1>2. PICK g : g = CHOOSE k : SumPart(ops, T, k)
  OBVIOUS
<1>3. SumPart(ops, T, g)
  BY <1>1, <1>2, SumExists
<1>4. PICK f : f = CHOOSE k : SumPart(ops, S, k)
  OBVIOUS
<1>5. SumPart(ops, S, f)
  BY <1>4, SumExists
<1>6. SumHalves(ops, T) = g[T] /\ SumHalves(ops, S) = f[S]
  BY <1>2, <1>4, SumUnfolds
<1>7. f[S] = g[S]
  BY <1>1, <1>3, <1>5, SumAgrees
<1>8. g[T] = Whole(ops[x].value) + g[S]
  BY <1>1, <1>3, SumAny
<1>9. g[S] \in Int
  BY <1>1, <1>3, SumNumbers
<1>10. PICK a, b \in Int : a = Whole(ops[x].value) /\ b = g[S]
  BY <1>1, <1>9
<1>11. a + b = b + a
  BY <1>10
<1> QED
  BY <1>6, <1>7, <1>8, <1>10, <1>11

LEMMA SumEmpty ==
  ASSUME NEW ops PROVE SumHalves(ops, {}) = 0
<1>1. PICK g : g = CHOOSE k : SumPart(ops, {}, k)
  OBVIOUS
<1>2. SumPart(ops, {}, g)
  BY <1>1, SumExists, FS_EmptySet
<1>3. g[{}] = 0
  BY <1>2 DEF SumPart
<1> QED
  BY <1>1, <1>3, SumUnfolds

-----------------------------------------------------------------------------
(* Operations and collectors.                                              *)

GoodOps(ops) ==
    /\ IsFiniteSet(DOMAIN ops) /\ DOMAIN ops \subseteq Nat /\ 0 \notin DOMAIN ops
    /\ \A i \in DOMAIN ops : ops[i].action = "add" => Whole(ops[i].value) \in Int

LEMMA FileIsGood ==
  ASSUME NEW h \in Hook, NEW ops \in FilesOf(h), ValidateOperations(ops)
  PROVE  GoodOps(ops)
<1>1. PICK file \in Output[h] : ops = MetricOperationsFromFile(file)
  BY DEF FilesOf
<1>2. PICK n \in Nat : n = Len(file) /\ DOMAIN file = 1..n
  BY MetricStorageAssumption DEF MetricStorageAssumption
<1>3. DOMAIN ops = 1..n
  BY <1>1, <1>2 DEF MetricOperationsFromFile
<1>4. IsFiniteSet(1..n)
  BY FS_Interval
<1>5. ASSUME NEW i \in DOMAIN ops, ops[i].action = "add" PROVE Whole(ops[i].value) \in Int
  <2>4. i \in DOMAIN file /\ ops[i] = Decode(file[i])
    BY <1>1, <1>2, <1>3 DEF MetricOperationsFromFile
  <2>1. ops[i].value \in Nat \union {Nil}
    BY <1>5, <2>4, OutputAssumption DEF OutputAssumption
  <2>2. ops[i].value # Nil
    BY <1>5 DEF ValidateOperations, ValidateMetricOperation
  <2>3. PICK x \in Nat : x = ops[i].value
    BY <2>1, <2>2
  <2>5. Whole(x) \in Int
    BY DEF Whole
  <2> QED
    BY <2>3, <2>5
<1>6. 1..n \subseteq Nat /\ 0 \notin 1..n
  OBVIOUS
<1> QED
  BY <1>3, <1>4, <1>5, <1>6 DEF GoodOps

\* One more operation is done.
LEMMA LiveExpire ==
  ASSUME NEW ops, NEW D, D \subseteq Nat, NEW i \in Nat, \A j \in D : j < i,
         ops[i].action = "expire", NEW E, E = D \union {i}
  PROVE  Live(ops, E) = {}
<1>1. ASSUME NEW j \in Live(ops, E) PROVE FALSE
  <2>1. j \in E /\ ops[j].action # "expire" /\ i < j
    BY DEF Live
  <2> QED
    BY <2>1
<1> QED
  BY <1>1

\* The series of a group in a collector stay.
SameGroup(c, d, g) ==
    /\ d.type = c.type /\ d.names = c.names
    /\ SeriesOf(d, g) = SeriesOf(c, g)
    /\ \A key \in SeriesOf(c, g) : d.series[key].value = c.series[key].value

LEMMA MatchesKept ==
  ASSUME NEW h, NEW ops, NEW g, NEW D, NEW n, NEW c, NEW d,
         Matches(h, ops, g, D, n, c), SameGroup(c, d, g)
  PROVE  Matches(h, ops, g, D, n, d)
<1>1. PICK mine : mine = Mine(ops, D, n, c.type)
  OBVIOUS
<1>2. /\ \A i \in mine : KeyOf(h, ops, i, c.names) \in SeriesOf(c, g)
      /\ \A key \in SeriesOf(c, g) :
            /\ \E i \in mine : KeyOf(h, ops, i, c.names) = key
            /\ HasValue(ops, c.type, Writers(h, ops, mine, c.names, key), c.series[key].value)
  BY <1>1 DEF Matches
<1>3. mine = Mine(ops, D, n, d.type)
  BY <1>1 DEF SameGroup
<1>4. /\ \A i \in mine : KeyOf(h, ops, i, d.names) \in SeriesOf(d, g)
      /\ \A key \in SeriesOf(d, g) :
            /\ \E i \in mine : KeyOf(h, ops, i, d.names) = key
            /\ HasValue(ops, d.type, Writers(h, ops, mine, d.names, key), d.series[key].value)
  BY <1>2 DEF SameGroup
<1> QED
  BY <1>3, <1>4 DEF Matches

LEMMA MatchesNothing ==
  ASSUME NEW h, NEW ops, NEW g, NEW D, NEW n, NEW c,
         Mine(ops, D, n, c.type) = {}, SeriesOf(c, g) = {}
  PROVE  Matches(h, ops, g, D, n, c)
  BY DEF Matches

\* Collectors as far as group g is concerned: a new one has a new name.
Untouched(cs, ds, reg, g) ==
    /\ \A n \in DOMAIN cs : n \in DOMAIN ds /\ SameGroup(cs[n], ds[n], g)
    /\ \A n \in DOMAIN ds \ DOMAIN cs : n \notin reg /\ SeriesOf(ds[n], g) = {}

LEMMA ShowsKept ==
  ASSUME NEW cs, NEW ds, NEW reg, NEW g, Untouched(cs, ds, reg, g), NEW h, NEW ops, NEW D,
         Named(reg, ops, D), Shows(cs, h, ops, g, D)
  PROVE  Shows(ds, h, ops, g, D)
<1> SUFFICES ASSUME NEW n \in DOMAIN ds PROVE Matches(h, ops, g, D, n, ds[n])
  BY DEF Shows
<1>1. CASE n \in DOMAIN cs
  <2>1. Matches(h, ops, g, D, n, cs[n]) /\ SameGroup(cs[n], ds[n], g)
    BY <1>1 DEF Shows, Untouched
  <2> QED
    BY <2>1, MatchesKept
<1>2. CASE n \notin DOMAIN cs
  <2>1. n \notin reg /\ SeriesOf(ds[n], g) = {}
    BY <1>2 DEF Untouched
  <2>2. PICK t : t = ds[n].type
    OBVIOUS
  <2>3. Mine(ops, D, n, t) = {}
    BY <2>1 DEF Mine, Live, Named
  <2> QED
    BY <2>1, <2>2, <2>3, MatchesNothing
<1> QED
  BY <1>1, <1>2

LEMMA ProgressKept ==
  ASSUME NEW cs, NEW ds, NEW reg, NEW reg2, reg \subseteq reg2, NEW r,
         Untouched(cs, ds, reg, r.group), Progress(cs, reg, r)
  PROVE  Progress(ds, reg2, r)
<1>1. PICK g, D : g = r.group /\ D = Done(r)
  OBVIOUS
<1>2. Untouched(cs, ds, reg, g) /\ Named(reg, r.ops, D)
  BY <1>1 DEF Progress
<1>3. Named(reg2, r.ops, D)
  BY <1>2 DEF Named
<1>4. ASSUME r.stage = "expire", NEW n \in DOMAIN ds \ r.left PROVE SeriesOf(ds[n], g) = {}
  <2>1. CASE n \in DOMAIN cs
    BY <1>1, <1>2, <1>4, <2>1 DEF Progress, Untouched, SameGroup
  <2>2. CASE n \notin DOMAIN cs
    BY <1>2, <2>2 DEF Untouched
  <2> QED
    BY <2>1, <2>2
<1>5. ASSUME r.stage # "expire" PROVE Shows(ds, r.hook, r.ops, g, D)
  <2>1. Shows(cs, r.hook, r.ops, g, D)
    BY <1>1, <1>5 DEF Progress
  <2> QED
    BY <1>2, <2>1, ShowsKept
<1>6. /\ \A i \in D, j \in r.todo : i < j
      /\ r.stage = "expire" => Live(r.ops, D) = {}
  BY <1>1 DEF Progress
<1> QED
  BY <1>1, <1>3, <1>4, <1>5, <1>6 DEF Progress

LEMMA LastKept ==
  ASSUME NEW cs, NEW ds, NEW reg, NEW reg2, reg \subseteq reg2, NEW g, NEW a,
         Untouched(cs, ds, reg, g), LastOK(cs, reg, g, a)
  PROVE  LastOK(ds, reg2, g, a)
<1>1. PICK D : D = OfGroup(a.ops, g)
  OBVIOUS
<1>2. Named(reg, a.ops, D) /\ Shows(cs, a.hook, a.ops, g, D)
  BY <1>1 DEF LastOK
<1>3. Named(reg2, a.ops, D)
  BY <1>2 DEF Named
<1>4. Shows(ds, a.hook, a.ops, g, D)
  BY <1>2, ShowsKept
<1> QED
  BY <1>1, <1>3, <1>4 DEF LastOK

\* The operation at position i comes after all that are done.
NextOp(ops, D, i) ==
    /\ GoodOps(ops) /\ D \subseteq DOMAIN ops /\ i \in DOMAIN ops /\ \A j \in D : j < i

LEMMA NextLive ==
  ASSUME NEW ops, NEW D, NEW i, NextOp(ops, D, i), ops[i].action # "expire", NEW E, E = D \union {i},
         NEW n, NEW t
  PROVE  /\ i \in Nat /\ i \notin D
         /\ ops[i].name = n /\ ops[i].action = t => Mine(ops, E, n, t) = Mine(ops, D, n, t) \union {i}
         /\ ~(ops[i].name = n /\ ops[i].action = t) => Mine(ops, E, n, t) = Mine(ops, D, n, t)
<1>1. D \subseteq Nat /\ i \in Nat /\ \A j \in D : j < i
  BY DEF NextOp, GoodOps
<1>2. Live(ops, E) = Live(ops, D) \union {i}
  <2>1. Live(ops, E) \subseteq Live(ops, D) \union {i}
    BY DEF Live
  <2>2. Live(ops, D) \subseteq Live(ops, E)
    BY DEF Live
  <2>3. i \in Live(ops, E)
    BY <1>1 DEF Live
  <2> QED
    BY <2>1, <2>2, <2>3
<1>3. i \notin D
  BY <1>1
<1>4. ASSUME ops[i].name = n, ops[i].action = t
      PROVE  Mine(ops, E, n, t) = Mine(ops, D, n, t) \union {i}
  <2>1. Mine(ops, E, n, t) \subseteq Mine(ops, D, n, t) \union {i}
    BY <1>2, Zenon DEF Mine
  <2>2. Mine(ops, D, n, t) \subseteq Mine(ops, E, n, t)
    BY <1>2, Zenon DEF Mine
  <2>3. i \in Mine(ops, E, n, t)
    BY <1>2, <1>4, Zenon DEF Mine
  <2> QED
    BY <2>1, <2>2, <2>3
<1>5. ASSUME ~(ops[i].name = n /\ ops[i].action = t)
      PROVE  Mine(ops, E, n, t) = Mine(ops, D, n, t)
  <2>1. Mine(ops, E, n, t) \subseteq Mine(ops, D, n, t)
    BY <1>2, <1>5, Zenon DEF Mine
  <2>2. Mine(ops, D, n, t) \subseteq Mine(ops, E, n, t)
    BY <1>2, Zenon DEF Mine
  <2> QED
    BY <2>1, <2>2
<1> QED
  BY <1>1, <1>3, <1>4, <1>5

\* An operation on another metric, or one with the wrong type, is no business
\* of a collector.
LEMMA MatchesSkip ==
  ASSUME NEW ops, NEW D, NEW i, NextOp(ops, D, i), ops[i].action # "expire", NEW E, E = D \union {i},
         NEW h, NEW g, NEW n, NEW c, Matches(h, ops, g, D, n, c),
         ~(ops[i].name = n /\ ops[i].action = c.type)
  PROVE  Matches(h, ops, g, E, n, c)
<1>1. PICK t : t = c.type
  OBVIOUS
<1>2. Mine(ops, E, n, t) = Mine(ops, D, n, t)
  BY <1>1, NextLive
<1> QED
  BY <1>1, <1>2 DEF Matches

\* What Add and Set do to the series of a group.
Grown(c, d, g, key, op) ==
    /\ d.type = c.type /\ d.names = c.names
    /\ SeriesOf(d, g) = SeriesOf(c, g) \union {key}
    /\ \A k \in SeriesOf(c, g) : k # key => d.series[k].value = c.series[k].value
    /\ c.type = "add" => d.series[key].value =
          (IF key \in SeriesOf(c, g) THEN c.series[key].value ELSE 0) + Whole(op.value)
    /\ c.type # "add" => d.series[key].value = op.value

LEMMA MatchesAdd ==
  ASSUME NEW ops, NEW D, NEW i, NextOp(ops, D, i), ops[i].action # "expire", NEW E, E = D \union {i},
         NEW h, NEW g, NEW n, NEW c, NEW d, Matches(h, ops, g, D, n, c),
         ops[i].name = n, ops[i].action = c.type,
         NEW key, key = KeyOf(h, ops, i, c.names), Grown(c, d, g, key, ops[i])
  PROVE  Matches(h, ops, g, E, n, d)
<1>1. PICK t, N : t = c.type /\ N = c.names
  OBVIOUS
<1>2. PICK M : M = Mine(ops, D, n, t)
  OBVIOUS
<1>3. /\ Mine(ops, E, n, t) = M \union {i} /\ i \notin M /\ i \in Nat
  <2>1. M \subseteq D
    BY <1>2 DEF Mine, Live
  <2> QED
    BY <1>1, <1>2, <2>1, NextLive
<1>4. M \subseteq DOMAIN ops /\ \A j \in M : j < i /\ j \in Nat /\ ops[j].action = t
  BY <1>2 DEF NextOp, Mine, Live, GoodOps
<1>5. PICK C : C = SeriesOf(c, g)
  OBVIOUS
<1>6. /\ \A j \in M : KeyOf(h, ops, j, N) \in C
      /\ \A k \in C : /\ \E j \in M : KeyOf(h, ops, j, N) = k
                      /\ HasValue(ops, t, Writers(h, ops, M, N, k), c.series[k].value)
  BY <1>1, <1>2, <1>5 DEF Matches
<1>7. /\ d.type = t /\ d.names = N /\ SeriesOf(d, g) = C \union {key} /\ key = KeyOf(h, ops, i, N)
  BY <1>1, <1>5 DEF Grown
<1>8. PICK Mi : Mi = M \union {i}
  OBVIOUS
<1>9. \A j \in Mi : KeyOf(h, ops, j, N) \in C \union {key}
  BY <1>6, <1>7, <1>8
<1>10. ASSUME NEW k \in C \union {key} PROVE \E j \in Mi : KeyOf(h, ops, j, N) = k
  BY <1>6, <1>7, <1>8
<1>11. PICK W : W = Writers(h, ops, M, N, key)
  OBVIOUS
<1>12. Writers(h, ops, Mi, N, key) = W \union {i} /\ W \subseteq M
  BY <1>7, <1>8, <1>11 DEF Writers
<1>13. HasValue(ops, t, W \union {i}, d.series[key].value)
  <2>1. CASE t = "add"
    <3>1. IsFiniteSet(W) /\ i \notin W
      <4>1. W \subseteq DOMAIN ops /\ IsFiniteSet(DOMAIN ops)
        BY <1>4, <1>12 DEF NextOp, GoodOps
      <4> QED
        BY <1>3, <1>12, <4>1, FS_Subset
    <3>2. \A j \in W \union {i} : Whole(ops[j].value) \in Int
      BY <1>1, <1>4, <1>12, <2>1 DEF NextOp, GoodOps
    <3>3. PICK V : V = W \union {i}
      OBVIOUS
    <3>4. SumHalves(ops, V) = SumHalves(ops, W) + Whole(ops[i].value)
      BY <3>1, <3>2, <3>3, SumAdd
    <3>5. d.series[key].value = (IF key \in C THEN c.series[key].value ELSE 0) + Whole(ops[i].value)
      BY <1>1, <1>5, <2>1 DEF Grown
    <3>6. CASE key \in C
      BY <1>6, <1>11, <2>1, <3>3, <3>4, <3>5, <3>6 DEF HasValue
    <3>7. CASE key \notin C
      <4>1. W = {}
        BY <1>6, <1>11, <3>7 DEF Writers
      <4>2. SumHalves(ops, W) = 0
        BY <4>1, SumEmpty
      <4> QED
        BY <2>1, <3>3, <3>4, <3>5, <3>7, <4>2 DEF HasValue
    <3> QED
      BY <3>6, <3>7
  <2>2. CASE t # "add"
    <3>1. d.series[key].value = ops[i].value
      BY <1>1, <2>2 DEF Grown
    <3>2. \A j \in W \union {i} : j <= i
      BY <1>3, <1>4, <1>12
    <3> QED
      BY <2>2, <3>1, <3>2 DEF HasValue
  <2> QED
    BY <2>1, <2>2
<1>14. ASSUME NEW k \in C, k # key
       PROVE  HasValue(ops, t, Writers(h, ops, Mi, N, k), d.series[k].value)
  <2>1. Writers(h, ops, Mi, N, k) = Writers(h, ops, M, N, k)
    BY <1>7, <1>8, <1>14 DEF Writers
  <2>2. d.series[k].value = c.series[k].value
    BY <1>5, <1>14 DEF Grown
  <2> QED
    BY <1>6, <2>1, <2>2
<1>15. ASSUME NEW k \in C \union {key}
       PROVE  HasValue(ops, t, Writers(h, ops, Mi, N, k), d.series[k].value)
  BY <1>12, <1>13, <1>14
<1> QED
  BY <1>3, <1>7, <1>8, <1>9, <1>10, <1>15 DEF Matches

-----------------------------------------------------------------------------
(* Steps, as far as a group is concerned.                                  *)

LEMMA SameItself == ASSUME NEW c, NEW g PROVE SameGroup(c, c, g)
  BY DEF SameGroup

\* What Add and Set make of the value.
LEMMA StoredValue ==
  ASSUME NEW s, NEW x, NEW me, Series(s)
  PROVE  /\ AddTo(s, x, me).value = s.value + Whole(x) /\ me \in AddTo(s, x, me).by
         /\ SetTo(s, x, me).value = x /\ me \in SetTo(s, x, me).by
<1>1. ASSUME NEW a, NEW b, NEW c, NEW d, s = [value |-> a, labels |-> b, group |-> c, by |-> d]
      PROVE  /\ AddTo(s, x, me).value = s.value + Whole(x) /\ me \in AddTo(s, x, me).by
             /\ SetTo(s, x, me).value = x /\ me \in SetTo(s, x, me).by
  BY <1>1 DEF AddTo, SetTo
<1> QED
  BY <1>1 DEF Series

\* The series of the operation's group grow, and no others.
StoreGrows(w, i, key) ==
    LET op == work[w].ops[i]
        n == op.name
    IN /\ First(i, work[w].todo) /\ i \in DOMAIN work[w].ops /\ n \in DOMAIN collectors
       /\ op.action # "expire" /\ op.action = collectors[n].type
       /\ work' = [work EXCEPT ![w].stage = "ops", ![w].todo = @ \ {i}]
       /\ key = KeyOf(work[w].hook, work[w].ops, i, collectors[n].names)
       /\ DOMAIN collectors' = DOMAIN collectors
       /\ \A m \in DOMAIN collectors : m # n => collectors'[m] = collectors[m]
       /\ Grown(collectors[n], collectors'[n], work[w].group, key, op)
       /\ \A g : g # work[w].group => SameGroup(collectors[n], collectors'[n], g)

LEMMA StoreGrowsGroup ==
  ASSUME TypeInv, OwnerInv, ByInv', NEW w \in Worker, Store(w)
  PROVE  \E i \in work[w].todo : \E key : StoreGrows(w, i, key)
<1>1. PICK i, key, new : i \in work[w].todo /\ Stores(w, i, key, new)
  BY StoreFacts
<1>2. PICK op : op = work[w].ops[i]
  OBVIOUS
<1>3. PICK n : n = op.name
  OBVIOUS
<1>4. PICK c, d : c = collectors[n] /\ d = collectors'[n]
  OBVIOUS
<1>5. PICK G : G = work[w].group
  OBVIOUS
<1>6. PICK f, F : f = c.series /\ F = Put(f, key, new)
  OBVIOUS
<1>7. /\ First(i, work[w].todo) /\ i \in DOMAIN work[w].ops /\ n \in DOMAIN collectors
      /\ op.action # "expire" /\ op.action = c.type
      /\ work' = [work EXCEPT ![w].stage = "ops", ![w].todo = @ \ {i}]
      /\ key = KeyOf(work[w].hook, work[w].ops, i, c.names)
      /\ DOMAIN collectors' = DOMAIN collectors
      /\ \A m \in DOMAIN collectors : m # n => collectors'[m] = collectors[m]
      /\ d = [type |-> c.type, names |-> c.names, series |-> F]
  BY <1>1, <1>2, <1>3, <1>4, <1>6 DEF Stores, KeyOf
<1>8. DOMAIN F = DOMAIN f \union {key} /\ F[key] = new /\ \A k \in DOMAIN f : k # key => F[k] = f[k]
  BY <1>6 DEF Put
<1>9. d.type = c.type /\ d.names = c.names /\ d.series = F
  BY <1>7
<1>10. PICK old : old = IF key \in DOMAIN f THEN f[key]
                        ELSE NewSeries(LabelValues(MergeLabels(op.labels, HookLabel(work[w].hook)),
                                                   c.names), G)
  OBVIOUS
<1>11. new = IF op.action = "add" THEN AddTo(old, op.value, Me(w)) ELSE SetTo(old, op.value, Me(w))
  BY <1>1, <1>2, <1>3, <1>4, <1>5, <1>6, <1>10 DEF Stores
<1>12. Series(old) /\ (key \notin DOMAIN f => old.value = 0)
  <2>1. CASE key \in DOMAIN f
    BY <1>4, <1>6, <1>7, <1>10, <2>1 DEF OwnerInv
  <2>2. CASE key \notin DOMAIN f
    BY <1>10, <2>2 DEF NewSeries, Series
  <2> QED
    BY <2>1, <2>2
<1>13. /\ Me(w) \in new.by
       /\ op.action = "add" => new.value = old.value + Whole(op.value)
       /\ op.action # "add" => new.value = op.value
  BY <1>11, <1>12, StoredValue
<1>14. new.group = G
  <2>1. n \in DOMAIN collectors' /\ collectors'[n].series = F /\ key \in DOMAIN F /\ F[key] = new
    BY <1>4, <1>7, <1>8, <1>9
  <2>3. \A k \in DOMAIN collectors'[n].series :
           \A m \in collectors'[n].series[k].by : m.group = collectors'[n].series[k].group
    BY <2>1, Zenon DEF ByInv
  <2>4. \A m \in new.by : m.group = new.group
    BY <2>1, <2>3
  <2>2. Me(w).group = G
    BY <1>5 DEF Me
  <2> QED
    BY <1>13, <2>2, <2>4
<1>15. key \in DOMAIN f => f[key].group = G
  <2>1. key \in DOMAIN f => new.group = old.group /\ old = f[key]
    BY <1>10, <1>11, <1>12, SeriesShape
  <2> QED
    BY <1>14, <2>1
<1>16. SeriesOf(d, G) = SeriesOf(c, G) \union {key}
  <2>1. SeriesOf(d, G) \subseteq SeriesOf(c, G) \union {key}
    BY <1>6, <1>8, <1>9 DEF SeriesOf
  <2>2. SeriesOf(c, G) \subseteq SeriesOf(d, G)
    BY <1>6, <1>8, <1>9, <1>14 DEF SeriesOf
  <2>3. key \in SeriesOf(d, G)
    BY <1>8, <1>9, <1>14 DEF SeriesOf
  <2> QED
    BY <2>1, <2>2, <2>3
<1>17. Grown(c, d, G, key, op)
  <2>1. \A k \in SeriesOf(c, G) : k # key => d.series[k].value = c.series[k].value
    BY <1>6, <1>8, <1>9 DEF SeriesOf
  <2>2. key \in SeriesOf(c, G) <=> key \in DOMAIN f
    BY <1>6, <1>15 DEF SeriesOf
  <2>3. key \in DOMAIN f => old.value = c.series[key].value
    BY <1>6, <1>10
  <2>4. c.type = "add" => d.series[key].value =
          (IF key \in SeriesOf(c, G) THEN c.series[key].value ELSE 0) + Whole(op.value)
    BY <1>7, <1>8, <1>9, <1>12, <1>13, <2>2, <2>3
  <2>5. c.type # "add" => d.series[key].value = op.value
    BY <1>7, <1>8, <1>9, <1>13
  <2> QED
    BY <1>9, <1>16, <2>1, <2>4, <2>5 DEF Grown
<1>18. ASSUME NEW g, g # G PROVE SameGroup(c, d, g)
  <2>1. SeriesOf(d, g) \subseteq SeriesOf(c, g)
    BY <1>6, <1>8, <1>9, <1>14, <1>18 DEF SeriesOf
  <2>2. SeriesOf(c, g) \subseteq SeriesOf(d, g)
    BY <1>6, <1>8, <1>9, <1>15, <1>18 DEF SeriesOf
  <2>3. \A k \in SeriesOf(c, g) : d.series[k].value = c.series[k].value
    BY <1>6, <1>8, <1>9, <1>15, <1>18 DEF SeriesOf
  <2>4. SeriesOf(d, g) = SeriesOf(c, g)
    BY <2>1, <2>2
  <2> QED
    BY <1>9, <2>3, <2>4 DEF SameGroup
<1>19. StoreGrows(w, i, key)
  BY <1>2, <1>3, <1>4, <1>5, <1>7, <1>17, <1>18 DEF StoreGrows
<1> QED
  BY <1>1, <1>19

LEMMA UntouchedSame == ASSUME NEW cs, NEW reg, NEW g PROVE Untouched(cs, cs, reg, g)
  BY SameItself DEF Untouched

\* A step of a worker concerns the series of the group it is at, if any.
LEMMA UntouchedStep ==
  ASSUME TypeInv, OwnerInv, ByInv', NEW w \in Worker,
         VecCall(w) \/ Elsewhere(w) \/ ExpireGroupMetrics(w) \/ GetOrCreateCollector(w) \/ Store(w),
         NEW g, work[w].stage \in Active => g # work[w].group
  PROVE  Untouched(collectors, collectors', Registered, g)
<1>1. CASE collectors' = collectors
  BY <1>1, UntouchedSame
<1>2. CASE VecCall(w) \/ Elsewhere(w)
  BY <1>1, <1>2, VecCallFacts, ElsewhereFacts
<1>3. CASE ExpireGroupMetrics(w)
  <2>1. PICK n \in DOMAIN collectors :
            /\ CollectorsStay /\ DOMAIN collectors' = DOMAIN collectors
            /\ collectors'[n].names = collectors[n].names
            /\ collectors'[n].series = WithoutGroup(collectors[n].series, work[w].group, work[w].hook)
            /\ \A m \in DOMAIN collectors : m # n => collectors'[m] = collectors[m]
    BY <1>3, ExpireGroupCollectors
  <2>2. g # work[w].group
    BY <1>3 DEF ExpireGroupMetrics, At, Active
  <2>3. PICK c, d : c = collectors[n] /\ d = collectors'[n]
    OBVIOUS
  <2>4. PICK f, F : f = c.series /\ F = d.series
    OBVIOUS
  <2>5. /\ \A k \in DOMAIN F : k \in DOMAIN f /\ F[k] = f[k] /\ f[k].group # work[w].group
        /\ \A k \in DOMAIN f : f[k].group # work[w].group => k \in DOMAIN F
    <3>1. PICK G, h : G = work[w].group /\ h = work[w].hook
      OBVIOUS
    <3>2. F = WithoutGroup(f, G, h)
      BY <2>1, <2>3, <2>4, <3>1
    <3> QED
      BY <3>1, <3>2, SeriesWithout
  <2>6. SeriesOf(d, g) = SeriesOf(c, g) /\ \A k \in SeriesOf(c, g) : d.series[k].value = c.series[k].value
    <3>1. SeriesOf(d, g) \subseteq SeriesOf(c, g)
      BY <2>4, <2>5 DEF SeriesOf
    <3>2. SeriesOf(c, g) \subseteq SeriesOf(d, g)
      BY <2>2, <2>4, <2>5 DEF SeriesOf
    <3>3. \A k \in SeriesOf(c, g) : k \in SeriesOf(d, g)
      BY <3>2
    <3>4. \A k \in SeriesOf(c, g) : d.series[k].value = c.series[k].value
      BY <2>4, <2>5, <3>3 DEF SeriesOf
    <3> QED
      BY <3>1, <3>2, <3>4
  <2>7. SameGroup(c, d, g)
    BY <2>1, <2>3, <2>6 DEF SameGroup, CollectorsStay
  <2>8. \A m \in DOMAIN collectors : SameGroup(collectors[m], collectors'[m], g)
    BY <2>1, <2>3, <2>7, SameItself
  <2> QED
    BY <2>1, <2>8 DEF Untouched
<1>4. CASE GetOrCreateCollector(w) /\ collectors' # collectors
  <2>1. PICK n : /\ n \notin Registered
                 /\ DOMAIN collectors' = DOMAIN collectors \union {n}
                 /\ collectors'[n].series = Empty
                 /\ \A m \in DOMAIN collectors : collectors'[m] = collectors[m]
    BY <1>4, GetOrCreateCollectors
  <2>2. SeriesOf(collectors'[n], g) = {}
    BY <2>1 DEF SeriesOf, Empty
  <2>3. \A m \in DOMAIN collectors : SameGroup(collectors[m], collectors'[m], g)
    BY <2>1, SameItself
  <2> QED
    BY <2>1, <2>2, <2>3 DEF Untouched
<1>5. CASE Store(w)
  <2>1. PICK i, key : StoreGrows(w, i, key)
    BY <1>5, StoreGrowsGroup
  <2>2. g # work[w].group
    BY <1>5 DEF Store, At, Active
  <2>3. PICK n : n = work[w].ops[i].name
    OBVIOUS
  <2>4. /\ DOMAIN collectors' = DOMAIN collectors
        /\ \A m \in DOMAIN collectors : m # n => collectors'[m] = collectors[m]
        /\ SameGroup(collectors[n], collectors'[n], g)
    BY <2>1, <2>2, <2>3 DEF StoreGrows
  <2>5. \A m \in DOMAIN collectors : SameGroup(collectors[m], collectors'[m], g)
    BY <2>4, SameItself
  <2> QED
    BY <2>4, <2>5 DEF Untouched
<1> QED
  BY <1>1, <1>2, <1>3, <1>4, <1>5

\* A name is registered for ever.
LEMMA RegisteredGrows ==
  ASSUME TypeInv, TypeInv', OwnerInv, NEW w \in Worker,
         VecCall(w) \/ Elsewhere(w) \/ ExpireGroupMetrics(w) \/ GetOrCreateCollector(w) \/ Store(w)
  PROVE  Registered \subseteq Registered'
<1>1. DOMAIN vecs = Kinds /\ DOMAIN vecs' = Kinds
  BY DEF TypeInv, VecInv
<1>2. CASE VecCall(w)
  <2>1. collectors' = collectors
    BY <1>2, VecCallFacts
  <2>3. PICK c : c = call[w]
    OBVIOUS
  <2>4. UNCHANGED vecs \/ Refused(c) \/ NewVec(c) \/ Mismatch(c) \/ \E new : Written(c, new)
    BY <1>2, <2>3, VecCallFacts
  <2>2. \A k \in Kinds : DOMAIN vecs[k] \subseteq DOMAIN vecs'[k]
    BY <2>4 DEF Refused, NewVec, Mismatch, Written
  <2> QED
    BY <1>1, <2>1, <2>2, StayRegistered
<1>3. CASE ~VecCall(w)
  BY <1>1, <1>3, VaultStep, StayRegistered DEF CollectorsStay
<1> QED
  BY <1>2, <1>3

Step(w) ==
    VecCall(w) \/ Elsewhere(w) \/ ExpireGroupMetrics(w) \/ GetOrCreateCollector(w) \/ Store(w)

\* The others do nothing, but may be told that they are not alone.
OthersOnly(w) ==
    \A v \in Worker : v # w => \/ work'[v] = work[v]
                               \/ Alike(work[v], work'[v]) /\ ~work'[v].alone

LEMMA KeptOnly == ASSUME NEW w \in Worker, OthersKept(w) PROVE OthersOnly(w)
  BY DEF OthersKept, OthersOnly

LEMMA AloneSame ==
  ASSUME AloneInv, NEW w \in Worker, OthersOnly(w),
         work'[w].stage \in Active =>
            work[w].stage \in Active /\ work'[w].group = work[w].group /\ work'[w].alone = work[w].alone
  PROVE  AloneInv'
<1>1. ASSUME NEW v \in Worker, work'[v].stage \in Active
      PROVE  /\ work[v].stage \in Active /\ work'[v].group = work[v].group
             /\ work'[v].alone => work[v].alone
  <2>1. CASE v = w
    BY <1>1, <2>1
  <2>2. CASE v # w
    BY <1>1, <2>2 DEF OthersOnly, Alike
  <2> QED
    BY <2>1, <2>2
<1> SUFFICES ASSUME NEW u \in Worker, NEW v \in Worker, u # v,
                    work'[u].stage \in Active, work'[v].stage \in Active, work'[u].group = work'[v].group,
                    work'[v].alone
             PROVE  FALSE
  BY DEF AloneInv
<1>2. /\ work[u].stage \in Active /\ work'[u].group = work[u].group
      /\ work[v].stage \in Active /\ work'[v].group = work[v].group /\ work[v].alone
  BY <1>1
<1> QED
  BY <1>2 DEF AloneInv

\* The applications of the others go on from where they are.
LEMMA ProgressSame ==
  ASSUME TypeInv, TypeInv', OwnerInv, ByInv', AloneInv, ProgressInv, NEW w \in Worker, Step(w),
         OthersOnly(w), NEW s, s = work'[w],
         s.stage \in Active /\ s.alone => Progress(collectors', Registered', s)
  PROVE  ProgressInv'
<1> SUFFICES ASSUME NEW v \in Worker, work'[v].stage \in Active, work'[v].alone
             PROVE  Progress(collectors', Registered', work'[v])
  BY DEF ProgressInv
<1>1. CASE v = w
  BY <1>1
<1>2. CASE v # w
  <2>1. work'[v] = work[v]
    BY <1>2 DEF OthersOnly
  <2>2. PICK r : r = work[v]
    OBVIOUS
  <2>3. PICK g : g = r.group
    OBVIOUS
  <2>4. Progress(collectors, Registered, r)
    BY <2>1, <2>2 DEF ProgressInv
  <2>5. work[w].stage \in Active => g # work[w].group
    BY <1>2, <2>1, <2>2, <2>3 DEF AloneInv
  <2>6. Untouched(collectors, collectors', Registered, g)
    BY <2>5, UntouchedStep DEF Step
  <2>7. Registered \subseteq Registered'
    BY RegisteredGrows DEF Step
  <2>8. PICK cs, ds, reg, reg2 : /\ cs = collectors /\ ds = collectors'
                                 /\ reg = Registered /\ reg2 = Registered'
    OBVIOUS
  <2>9. Untouched(cs, ds, reg, r.group) /\ reg \subseteq reg2 /\ Progress(cs, reg, r)
    BY <2>3, <2>4, <2>6, <2>7, <2>8
  <2>10. Progress(ds, reg2, r)
    BY <2>9, ProgressKept
  <2> QED
    BY <2>1, <2>2, <2>8, <2>10
<1> QED
  BY <1>1, <1>2

\* The group of a last batch that nobody applies stays as it is.
LEMMA GroupStays ==
  ASSUME TypeInv, TypeInv', OwnerInv, ByInv', NEW w \in Worker, Step(w), NEW g, NEW a,
         ~Applying(w, g), LastOK(collectors, Registered, g, a)
  PROVE  LastOK(collectors', Registered', g, a)
<1>1. work[w].stage \in Active => g # work[w].group
  BY DEF Applying, Active
<1>2. Untouched(collectors, collectors', Registered, g)
  BY <1>1, UntouchedStep DEF Step
<1>3. Registered \subseteq Registered'
  BY RegisteredGrows DEF Step
<1>4. PICK cs, ds, reg, reg2 : /\ cs = collectors /\ ds = collectors'
                               /\ reg = Registered /\ reg2 = Registered'
  OBVIOUS
<1>5. Untouched(cs, ds, reg, g) /\ reg \subseteq reg2 /\ LastOK(cs, reg, g, a)
  BY <1>2, <1>3, <1>4
<1>6. LastOK(ds, reg2, g, a)
  BY <1>5, LastKept
<1> QED
  BY <1>4, <1>6

LEMMA LastSame ==
  ASSUME TypeInv, TypeInv', OwnerInv, ByInv', LastInv, NEW w \in Worker, Step(w), OthersOnly(w),
         last' = last,
         work[w].stage \in Active => work'[w].stage \in Active /\ work'[w].group = work[w].group
  PROVE  LastInv'
<1>1. ASSUME NEW v \in Worker, NEW g, Applying(v, g)
      PROVE  work'[v].stage \in Active /\ work'[v].group = g
  <2>1. work[v].stage \in Active /\ work[v].group = g
    BY <1>1 DEF Applying, Active
  <2>2. CASE v = w
    BY <2>1, <2>2
  <2>3. CASE v # w
    BY <2>1, <2>3 DEF OthersOnly, Alike
  <2> QED
    BY <2>2, <2>3
<1> SUFFICES ASSUME NEW g \in DOMAIN last', last'[g].alone, \A v \in Worker : ~Applying(v, g)'
             PROVE  LastOK(collectors', Registered', g, last'[g])
  BY DEF LastInv, FilesOf, Hook, ValidateOperations, ValidateMetricOperation
<1>2. \A v \in Worker : ~Applying(v, g)
  BY <1>1 DEF Applying, Active
<1>3. PICK a : a = last[g]
  OBVIOUS
<1>4. LastOK(collectors, Registered, g, a)
  BY <1>2, <1>3 DEF LastInv
<1>5. LastOK(collectors', Registered', g, a)
  BY <1>2, <1>4, GroupStays
<1> QED
  BY <1>3, <1>5

\* Nobody but an application that begins changes what is known about it.
LEMMA AloneKept ==
  ASSUME TypeInv, NEW w \in Worker,
         \/ ExpireGroupMetrics(w) \/ Expired(w) \/ ExpireOp(w) \/ GetOrCreateCollector(w)
         \/ Store(w) \/ GroupApplied(w)
  PROVE  work'[w].alone = work[w].alone
<1>1. work \in [Worker -> Work]
  BY DEF TypeInv, WorkInv
<1>2. PICK r \in Work : r = work[w]
  BY <1>1
<1>3. ASSUME NEW x \in Stages, Move(w, x) PROVE work'[w].alone = r.alone
  <2>1. work'[w] = [r EXCEPT !.stage = x]
    BY <1>1, <1>2, <1>3 DEF Move
  <2> QED
    BY <2>1 DEF Work
<1>4. ASSUME NEW i, work' = [work EXCEPT ![w].todo = @ \ {i}] PROVE work'[w].alone = r.alone
  <2>1. work'[w] = [r EXCEPT !.todo = @ \ {i}]
    BY <1>1, <1>2, <1>4
  <2> QED
    BY <2>1 DEF Work
<1>5. CASE ExpireGroupMetrics(w)
  <2>1. PICK n : work' = [work EXCEPT ![w].left = @ \ {n}]
    BY <1>5 DEF ExpireGroupMetrics
  <2>2. work'[w] = [r EXCEPT !.left = @ \ {n}]
    BY <1>1, <1>2, <2>1
  <2> QED
    BY <1>2, <2>2 DEF Work
<1>6. CASE Expired(w) \/ GroupApplied(w)
  BY <1>2, <1>3, <1>6 DEF Expired, GroupApplied, Stages
<1>7. CASE ExpireOp(w)
  <2>1. PICK i : work' = [work EXCEPT ![w] = Expiring([work[w] EXCEPT !.todo = @ \ {i}])]
    BY <1>7 DEF ExpireOp
  <2>2. PICK m : m = [r EXCEPT !.todo = @ \ {i}]
    OBVIOUS
  <2>3. m \in Work /\ m.alone = r.alone
    BY <2>2 DEF Work
  <2>4. work'[w] = Expiring(m)
    BY <1>1, <1>2, <2>1, <2>2
  <2>5. PICK c : c = DOMAIN collectors
    OBVIOUS
  <2>6. work'[w] = [m EXCEPT !.stage = "expire", !.left = c]
    BY <2>4, <2>5 DEF Expiring
  <2>7. work'[w].alone = m.alone
    BY <2>3, <2>6 DEF Work
  <2> QED
    BY <1>2, <2>3, <2>7
<1>8. CASE GetOrCreateCollector(w)
  <2>1. PICK i : Move(w, "store") \/ work' = [work EXCEPT ![w].todo = @ \ {i}]
    BY <1>8 DEF GetOrCreateCollector
  <2> QED
    BY <1>2, <1>3, <1>4, <2>1 DEF Stages
<1>9. CASE Store(w)
  <2>1. PICK i : work' = [work EXCEPT ![w].stage = "ops", ![w].todo = @ \ {i}]
    BY <1>9 DEF Store
  <2>2. work'[w] = [[r EXCEPT !.stage = "ops"] EXCEPT !.todo = @ \ {i}]
    BY <1>1, <1>2, <2>1
  <2>3. PICK m : m = [r EXCEPT !.stage = "ops"]
    OBVIOUS
  <2>4. m \in Work /\ m.alone = r.alone
    BY <2>3 DEF Work, Stages
  <2>5. work'[w] = [m EXCEPT !.todo = @ \ {i}]
    BY <2>2, <2>3
  <2>6. work'[w].alone = m.alone
    BY <2>4, <2>5 DEF Work
  <2> QED
    BY <1>2, <2>4, <2>6
<1> QED
  BY <1>5, <1>6, <1>7, <1>8, <1>9

\* A step of a worker that is at no group.
LEMMA BatchElsewhere ==
  ASSUME TypeInv, TypeInv', OwnerInv, ByInv', BatchInv, NEW w \in Worker, Step(w), OthersKept(w),
         last' = last, work[w].stage \notin Active, work'[w].stage \notin Active
  PROVE  BatchInv'
<1>1. OthersOnly(w)
  BY KeptOnly
<1>2. AloneInv'
  BY <1>1, AloneSame DEF BatchInv
<1>3. ProgressInv'
  BY <1>1, ProgressSame DEF BatchInv
<1>4. LastInv'
  BY <1>1, LastSame DEF BatchInv
<1> QED
  BY <1>2, <1>3, <1>4 DEF BatchInv

LEMMA BatchQuiet ==
  ASSUME TypeInv, TypeInv', OwnerInv, ByInv', BatchInv, NEW w \in Worker,
         RunHook(w) \/ SendBatchV0(w) \/ Report(w)
  PROVE  BatchInv'
<1>1. Step(w) /\ last' = last
  BY ReportFacts DEF Step, Elsewhere, RunHook, SendBatchV0, history
<1>2. work \in [Worker -> Work]
  BY DEF TypeInv, WorkInv
<1>3. work[w].stage \notin Active
  BY ReportFacts DEF RunHook, SendBatchV0, At, Active, ReportStages
<1>4. CASE RunHook(w)
  <2>1. PICK ops : work'[w].stage = IF ValidateOperations(ops) THEN "groups" ELSE "failed"
    BY <1>4, RunHookFacts
  <2>2. OthersKept(w) /\ work'[w].stage \notin Active
    BY <1>4, <2>1, RunHookFacts DEF Active
  <2> QED
    BY <1>1, <1>3, <2>2, BatchElsewhere
<1>5. CASE SendBatchV0(w)
  <2>1. \/ Move(w, "failed")
        \/ \E i : work' = [work EXCEPT ![w].send = @ \ {i}]
    BY <1>5 DEF SendBatchV0
  <2>2. CASE Move(w, "failed")
    <3>1. OthersKept(w) /\ work'[w].stage \notin Active
      BY <2>2, MoveFacts DEF Stages, Active
    <3> QED
      BY <1>1, <1>3, <3>1, BatchElsewhere
  <2>3. ASSUME NEW i, work' = [work EXCEPT ![w].send = @ \ {i}] PROVE BatchInv'
    <3>1. work'[w] = [work[w] EXCEPT !.send = @ \ {i}] /\ OthersKept(w)
      BY <1>2, <2>3 DEF OthersKept
    <3>2. PICK r \in Work : r = work[w]
      BY <1>2
    <3>3. work'[w].stage = r.stage
      BY <3>1, <3>2 DEF Work
    <3> QED
      BY <1>1, <1>3, <3>1, <3>2, <3>3, BatchElsewhere
  <2> QED
    BY <2>1, <2>2, <2>3
<1>6. CASE Report(w)
  <2>1. OthersKept(w) /\ work'[w].stage \notin Active
    <3>1. CASE work' = [work EXCEPT ![w] = Idle]
      BY <1>2, <3>1 DEF OthersKept, Idle, Active
    <3>2. ASSUME NEW t \in ReportStages, Move(w, t)
          PROVE  OthersKept(w) /\ work'[w].stage \notin Active
      BY <3>2, MoveFacts DEF Stages, ReportStages, Active
    <3> QED
      BY <1>6, <3>1, <3>2, ReportFacts
  <2> QED
    BY <1>1, <1>3, <2>1, BatchElsewhere
<1> QED
  BY <1>4, <1>5, <1>6

\* A step of an application under way, once its own progress is known.
LEMMA BatchStep ==
  ASSUME TypeInv, TypeInv', OwnerInv, ByInv', BatchInv, NEW w \in Worker, Step(w), OthersKept(w),
         last' = last, NEW r, r = work[w], NEW s, s = work'[w],
         r.stage \in Active, s.stage \in Active, s.group = r.group, s.alone = r.alone,
         s.alone => Progress(collectors', Registered', s)
  PROVE  BatchInv'
<1>1. OthersOnly(w)
  BY KeptOnly
<1>2. AloneInv'
  BY <1>1, AloneSame DEF BatchInv
<1>3. ProgressInv'
  BY <1>1, ProgressSame DEF BatchInv
<1>4. LastInv'
  BY <1>1, LastSame DEF BatchInv
<1> QED
  BY <1>2, <1>3, <1>4 DEF BatchInv

\* What is known about an application that is alone.
LEMMA OwnFacts ==
  ASSUME TypeInv, BatchInv, NEW w \in Worker, NEW r, r = work[w], r.stage \in Active, r.alone
  PROVE  /\ GoodOps(r.ops) /\ r.todo \subseteq OfGroup(r.ops, r.group)
         /\ Progress(collectors, Registered, r)
<1>1. WorkerInv(r)
  BY DEF TypeInv, WorkInv
<1>2. r.hook \in Hook /\ r.ops \in FilesOf(r.hook) /\ ValidateOperations(r.ops)
  BY <1>1 DEF WorkerInv, Active
<1>3. PICK h \in Hook : \E ops \in FilesOf(h) : ops = r.ops /\ ValidateOperations(ops)
  BY <1>2
<1>4. GoodOps(r.ops)
  BY <1>3, FileIsGood
<1>5. r.todo \subseteq OfGroup(r.ops, r.group)
  BY <1>1 DEF WorkerInv, Active
<1>6. Progress(collectors, Registered, r)
  BY DEF BatchInv, ProgressInv
<1> QED
  BY <1>4, <1>5, <1>6

\* The operation at hand is the next one, and then it is done.
LEMMA NextDone ==
  ASSUME NEW r, NEW s, NEW i, GoodOps(r.ops), r.todo \subseteq OfGroup(r.ops, r.group),
         First(i, r.todo), \A j \in Done(r), k \in r.todo : j < k,
         s.ops = r.ops, s.group = r.group, s.todo = r.todo \ {i}
  PROVE  /\ NextOp(r.ops, Done(r), i)
         /\ Done(s) = Done(r) \union {i}
         /\ \A j \in Done(s), k \in s.todo : j < k
<1>1. /\ OfGroup(r.ops, r.group) \subseteq DOMAIN r.ops /\ DOMAIN r.ops \subseteq Nat
      /\ i \in r.todo /\ \A k \in r.todo : i <= k
  BY DEF OfGroup, GoodOps, First
<1>2. NextOp(r.ops, Done(r), i)
  BY <1>1 DEF NextOp, Done
<1>3. Done(s) = Done(r) \union {i}
  BY <1>1 DEF Done
<1>4. ASSUME NEW j \in Done(s), NEW k \in s.todo PROVE j < k
  <2>1. k \in r.todo /\ k # i /\ i \in Nat /\ k \in Nat
    BY <1>1
  <2>2. CASE j = i
    BY <1>1, <2>1, <2>2
  <2>3. CASE j \in Done(r)
    BY <2>1, <2>3
  <2> QED
    BY <1>3, <2>2, <2>3
<1> QED
  BY <1>2, <1>3, <1>4

LEMMA BatchVecCall ==
  ASSUME TypeInv, TypeInv', OwnerInv, ByInv', BatchInv, NEW w \in Worker, VecCall(w)
  PROVE  BatchInv'
<1>1. Step(w) /\ last' = last /\ work' = work /\ collectors' = collectors
  BY DEF Step, VecCall, Lookup, Register, Write, storage, history
<1>2. work \in [Worker -> Work]
  BY DEF TypeInv, WorkInv
<1>3. OthersKept(w)
  BY <1>1, <1>2 DEF OthersKept
<1>4. CASE work[w].stage \in Active
  <2>1. PICK r : r = work[w]
    OBVIOUS
  <2>2. ASSUME r.alone PROVE Progress(collectors', Registered', r)
    <3>1. Progress(collectors, Registered, r)
      BY <1>4, <2>1, <2>2, OwnFacts
    <3>2. Registered \subseteq Registered'
      BY RegisteredGrows
    <3>3. PICK cs, reg, reg2 : cs = collectors /\ reg = Registered /\ reg2 = Registered'
      OBVIOUS
    <3>4. reg \subseteq reg2 /\ Progress(cs, reg, r)
      BY <3>1, <3>2, <3>3
    <3>5. Untouched(cs, cs, reg, r.group)
      BY UntouchedSame
    <3>6. Progress(cs, reg2, r)
      BY <3>4, <3>5, ProgressKept
    <3> QED
      BY <1>1, <3>3, <3>6
  <2>3. r = work'[w]
    BY <1>1, <2>1
  <2> QED
    BY <1>1, <1>3, <1>4, <2>1, <2>2, <2>3, BatchStep
<1>5. CASE work[w].stage \notin Active
  BY <1>1, <1>3, <1>5, BatchElsewhere
<1> QED
  BY <1>4, <1>5

\* An application that begins is alone when nobody else applies the group, and
\* those who do are not alone any more.
Busies(g) == {v \in Worker : Applying(v, g)}
LEMMA ApplyGroupAlone ==
  ASSUME TypeInv, NEW w \in Worker, ApplyGroup(w)
  PROVE  \E g : /\ work'[w].group = g /\ work'[w].alone = (Busies(g) = {})
                /\ \A v \in Busies(g) : v # w => ~work'[v].alone
<1>1. work \in [Worker -> Work]
  BY DEF TypeInv, WorkInv
<1>2. PICK g \in work[w].groups :
         work' = [v \in Worker |->
                IF v = w
                THEN Expiring([work[w] EXCEPT !.groups = @ \ {g}, !.group = g,
                                              !.todo = OfGroup(work[w].ops, g),
                                              !.alone = Busies(g) = {},
                                              !.expires = {a \in finished : a.group = g}])
                ELSE IF v \in Busies(g) THEN [work[v] EXCEPT !.alone = FALSE] ELSE work[v]]
  BY DEF ApplyGroup, Busies
<1>3. PICK r \in Work : r = work[w]
  BY <1>1
<1>4. PICK b \in BOOLEAN : b = (Busies(g) = {})
  OBVIOUS
<1>5. PICK t, e, d : t = OfGroup(work[w].ops, g) /\ e = {a \in finished : a.group = g}
                     /\ d = DOMAIN collectors
  OBVIOUS
<1>6. work'[w] = Expiring([r EXCEPT !.groups = @ \ {g}, !.group = g, !.todo = t, !.alone = b,
                                    !.expires = e])
  BY <1>2, <1>3, <1>4, <1>5
<1>7. PICK m : m = [r EXCEPT !.groups = @ \ {g}, !.group = g, !.todo = t, !.alone = b, !.expires = e]
  OBVIOUS
<1>8. work'[w] = [m EXCEPT !.stage = "expire", !.left = d]
  BY <1>5, <1>6, <1>7 DEF Expiring
<1>9. DOMAIN r = {"stage", "hook", "run", "ops", "groups", "group", "left", "todo", "send", "alone",
                  "expires"}
  BY <1>3 DEF Work
<1>10. DOMAIN m = DOMAIN r /\ m.alone = b /\ m.group = g
  BY <1>7, <1>9
<1>11. work'[w].alone = b /\ work'[w].group = g
  BY <1>8, <1>9, <1>10
<1>12. ASSUME NEW v \in Busies(g), v # w PROVE ~work'[v].alone
  <2>1. v \in Worker
    BY <1>12 DEF Busies
  <2>2. work'[v] = [work[v] EXCEPT !.alone = FALSE]
    BY <1>2, <1>12, <2>1
  <2>3. PICK q \in Work : q = work[v]
    BY <1>1, <2>1
  <2> QED
    BY <2>2, <2>3 DEF Work
<1> QED
  BY <1>4, <1>11, <1>12

LEMMA BatchApplyGroup ==
  ASSUME TypeInv, TypeInv', OwnerInv, ByInv', BatchInv, NEW w \in Worker, ApplyGroup(w)
  PROVE  BatchInv'
<1>1. Step(w) /\ last' = last /\ collectors' = collectors /\ work[w].stage \notin Active
  BY DEF Step, Elsewhere, ApplyGroup, At, Active, history
<1>2. PICK g : /\ work'[w].stage = "expire" /\ work'[w].group = g
               /\ work'[w].left = DOMAIN collectors
               /\ work'[w].todo = OfGroup(work[w].ops, g) /\ Same(work[w], work'[w])
               /\ \A v \in Worker : v # w =>
                     work'[v] = work[v] \/ work'[v] = [work[v] EXCEPT !.alone = FALSE]
  BY ApplyGroupFacts
<1>3. work'[w].alone = (Busies(g) = {}) /\ \A v \in Busies(g) : v # w => ~work'[v].alone
  BY <1>2, ApplyGroupAlone
<1>4. OthersAlike(w)
  BY ApplyAlike
<1>5. OthersOnly(w)
  <2> SUFFICES ASSUME NEW v \in Worker, v # w, work'[v] = [work[v] EXCEPT !.alone = FALSE]
               PROVE  Alike(work[v], work'[v]) /\ ~work'[v].alone
    BY <1>2 DEF OthersOnly
  <2>1. PICK q \in Work : q = work[v]
    BY DEF TypeInv, WorkInv
  <2>2. work'[v] = [q EXCEPT !.alone = FALSE]
    BY <2>1
  <2>3. ~work'[v].alone
    BY <2>2 DEF Work
  <2> QED
    BY <1>4, <2>3 DEF OthersAlike
<1>6. AloneInv'
  <2>1. ASSUME NEW v \in Worker, v # w, work'[v].stage \in Active
        PROVE  /\ work[v].stage \in Active /\ work'[v].group = work[v].group
               /\ work'[v].alone => work[v].alone
    BY <2>1, <1>5 DEF OthersOnly, Alike
  <2>2. ASSUME NEW v \in Worker, v # w, work'[v].stage \in Active, work'[v].group = g
        PROVE  ~work'[v].alone /\ ~work'[w].alone
    <3>1. v \in Busies(g)
      BY <2>1, <2>2 DEF Busies, Applying, Active
    <3> QED
      BY <1>3, <2>2, <3>1
  <2> SUFFICES ASSUME NEW u \in Worker, NEW v \in Worker, u # v,
                      work'[u].stage \in Active, work'[v].stage \in Active,
                      work'[u].group = work'[v].group, work'[v].alone
               PROVE  FALSE
    BY DEF AloneInv
  <2>3. CASE u = w
    BY <1>2, <2>2, <2>3
  <2>4. CASE v = w
    BY <1>2, <2>2, <2>4
  <2>5. CASE u # w /\ v # w
    <3>1. /\ work[u].stage \in Active /\ work'[u].group = work[u].group
          /\ work[v].stage \in Active /\ work'[v].group = work[v].group /\ work[v].alone
      BY <2>1, <2>5
    <3> QED
      BY <3>1 DEF BatchInv, AloneInv
  <2> QED
    BY <2>3, <2>4, <2>5
<1>7. PICK s : s = work'[w]
  OBVIOUS
<1>8. PICK cs : cs = collectors'
  OBVIOUS
<1>9. s.stage = "expire" /\ s.left = DOMAIN cs /\ s.todo = OfGroup(s.ops, s.group)
  BY <1>1, <1>2, <1>7, <1>8 DEF Same
<1>10. Done(s) = {}
  BY <1>9 DEF Done
<1>11. Live(s.ops, Done(s)) = {}
  BY <1>10 DEF Live
<1>12. Progress(cs, Registered', s)
  BY <1>9, <1>10, <1>11 DEF Progress, Named
<1>13. ProgressInv'
  BY <1>1, <1>5, <1>7, <1>8, <1>12, ProgressSame DEF BatchInv
<1>14. LastInv'
  BY <1>1, <1>5, LastSame DEF BatchInv
<1> QED
  BY <1>6, <1>13, <1>14 DEF BatchInv

LEMMA BatchExpireGroupMetrics ==
  ASSUME TypeInv, TypeInv', OwnerInv, ByInv', BatchInv, NEW w \in Worker, ExpireGroupMetrics(w)
  PROVE  BatchInv'
<1>1. Step(w) /\ last' = last
  BY DEF Step, ExpireGroupMetrics, history
<1>2. PICK r, s : r = work[w] /\ s = work'[w]
  OBVIOUS
<1>3. /\ OthersKept(w) /\ r.stage = "expire" /\ s.stage = "expire" /\ s.group = r.group
      /\ s.todo = r.todo /\ s.ops = r.ops
  BY <1>2, ExpireGroupFacts DEF Same
<1>4. s.alone = r.alone
  BY <1>2, AloneKept
<1>5. PICK n : Cleaned(w, n) /\ s.left = r.left \ {n}
  BY <1>2, CleanedFacts
<1>6. ASSUME r.alone PROVE Progress(collectors', Registered', s)
  <2>1. Progress(collectors, Registered, r)
    BY <1>2, <1>3, <1>6, OwnFacts DEF Active
  <2>2. Registered \subseteq Registered'
    BY RegisteredGrows
  <2>3. PICK cs, ds, reg, reg2 : cs = collectors /\ ds = collectors' /\ reg = Registered /\ reg2 = Registered'
    OBVIOUS
  <2>4. Done(s) = Done(r)
    BY <1>3 DEF Done
  <2>5. Named(reg2, s.ops, Done(s))
    BY <1>3, <2>1, <2>2, <2>3, <2>4 DEF Progress, Named
  <2>6. Live(s.ops, Done(s)) = {} /\ \A i \in Done(s), j \in s.todo : i < j
    BY <1>3, <2>1, <2>4 DEF Progress
  <2>7. ASSUME NEW m \in DOMAIN ds \ s.left PROVE SeriesOf(ds[m], s.group) = {}
    <3>1. CASE m = n
      <4>1. \A k \in DOMAIN ds[n].series : ds[n].series[k].group # s.group
        BY <1>2, <1>3, <1>5, <2>3 DEF Cleaned
      <4> QED
        BY <3>1, <4>1 DEF SeriesOf
    <3>2. CASE m # n
      <4>1. m \in DOMAIN cs /\ ds[m] = cs[m] /\ m \notin r.left
        BY <1>5, <2>3, <2>7, <3>2 DEF Cleaned
      <4> QED
        BY <1>3, <2>1, <2>3, <4>1 DEF Progress
    <3> QED
      BY <3>1, <3>2
  <2>8. Progress(ds, reg2, s)
    BY <1>3, <2>5, <2>6, <2>7 DEF Progress
  <2> QED
    BY <2>3, <2>8
<1> QED
  BY <1>1, <1>2, <1>3, <1>4, <1>6, BatchStep DEF Active

LEMMA BatchExpired ==
  ASSUME TypeInv, TypeInv', OwnerInv, ByInv', BatchInv, NEW w \in Worker, Expired(w)
  PROVE  BatchInv'
<1>1. Step(w) /\ last' = last /\ collectors' = collectors /\ Move(w, "ops")
  BY DEF Step, Elsewhere, Expired
<1>2. PICK r, s : r = work[w] /\ s = work'[w]
  OBVIOUS
<1>3. r.stage = "expire" /\ r.left = {}
  BY <1>2 DEF Expired, At
<1>4. /\ OthersKept(w) /\ s.stage = "ops" /\ s.group = r.group /\ s.todo = r.todo /\ s.ops = r.ops
  BY <1>1, <1>2, MoveFacts DEF Same, Stages
<1>5. s.alone = r.alone
  BY <1>2, AloneKept
<1>6. ASSUME r.alone PROVE Progress(collectors', Registered', s)
  <2>1. Progress(collectors, Registered, r)
    BY <1>2, <1>3, <1>6, OwnFacts DEF Active
  <2>2. Registered \subseteq Registered'
    BY RegisteredGrows DEF Elsewhere
  <2>3. PICK cs, reg, reg2 : cs = collectors /\ reg = Registered /\ reg2 = Registered'
    OBVIOUS
  <2>4. Done(s) = Done(r)
    BY <1>4 DEF Done
  <2>5. Named(reg2, s.ops, Done(s)) /\ \A i \in Done(s), j \in s.todo : i < j
    BY <1>4, <2>1, <2>2, <2>3, <2>4 DEF Progress, Named
  <2>6. Live(s.ops, Done(s)) = {}
    BY <1>3, <1>4, <2>1, <2>4 DEF Progress
  <2>7. ASSUME NEW n \in DOMAIN cs PROVE Matches(s.hook, s.ops, s.group, Done(s), n, cs[n])
    <3>1. SeriesOf(cs[n], s.group) = {}
      BY <1>3, <1>4, <2>1, <2>3 DEF Progress
    <3>2. Mine(s.ops, Done(s), n, cs[n].type) = {}
      BY <2>6 DEF Mine
    <3> QED
      BY <3>1, <3>2, MatchesNothing
  <2>8. Shows(cs, s.hook, s.ops, s.group, Done(s))
    BY <2>7 DEF Shows
  <2>9. Progress(cs, reg2, s)
    BY <1>4, <2>5, <2>8 DEF Progress
  <2> QED
    BY <1>1, <2>3, <2>9
<1> QED
  BY <1>1, <1>2, <1>3, <1>4, <1>5, <1>6, BatchStep DEF Active

LEMMA BatchExpireOp ==
  ASSUME TypeInv, TypeInv', OwnerInv, ByInv', BatchInv, NEW w \in Worker, ExpireOp(w)
  PROVE  BatchInv'
<1>1. Step(w) /\ last' = last /\ collectors' = collectors
  BY DEF Step, Elsewhere, ExpireOp, history
<1>2. PICK r, s : r = work[w] /\ s = work'[w]
  OBVIOUS
<1>3. PICK i \in r.todo :
         /\ First(i, r.todo) /\ r.ops[i].action = "expire"
         /\ OthersKept(w) /\ s.ops = r.ops /\ s.group = r.group
         /\ s.stage = "expire" /\ r.stage = "ops"
         /\ s.left = DOMAIN collectors /\ s.todo = r.todo \ {i}
  BY <1>2, ExpireOpFacts DEF Same
<1>4. s.alone = r.alone
  BY <1>2, AloneKept
<1>5. ASSUME r.alone PROVE Progress(collectors', Registered', s)
  <2>1. GoodOps(r.ops) /\ r.todo \subseteq OfGroup(r.ops, r.group) /\ Progress(collectors, Registered, r)
    BY <1>2, <1>3, <1>5, OwnFacts DEF Active
  <2>2. \A j \in Done(r), k \in r.todo : j < k
    BY <2>1 DEF Progress
  <2>3. /\ NextOp(r.ops, Done(r), i) /\ Done(s) = Done(r) \union {i}
        /\ \A j \in Done(s), k \in s.todo : j < k
    BY <1>3, <2>1, <2>2, NextDone
  <2>4. PICK D, E : D = Done(r) /\ E = Done(s)
    OBVIOUS
  <2>5. D \subseteq Nat /\ i \in Nat /\ (\A j \in D : j < i) /\ E = D \union {i}
    BY <2>3, <2>4 DEF NextOp, GoodOps
  <2>6. Live(r.ops, E) = {}
    BY <1>3, <2>5, LiveExpire
  <2>7. Registered \subseteq Registered'
    BY RegisteredGrows DEF Elsewhere
  <2>8. PICK cs, reg, reg2 : cs = collectors /\ reg = Registered /\ reg2 = Registered'
    OBVIOUS
  <2>9. Named(reg2, s.ops, E)
    BY <1>3, <2>1, <2>4, <2>5, <2>7, <2>8 DEF Progress, Named
  <2>10. Progress(cs, reg2, s)
    BY <1>3, <2>3, <2>4, <2>6, <2>8, <2>9 DEF Progress
  <2> QED
    BY <1>1, <2>8, <2>10
<1> QED
  BY <1>1, <1>2, <1>3, <1>4, <1>5, BatchStep DEF Active

LEMMA BatchGetOrCreateCollector ==
  ASSUME TypeInv, TypeInv', OwnerInv, ByInv', BatchInv, NEW w \in Worker, GetOrCreateCollector(w)
  PROVE  BatchInv'
<1>1. Step(w) /\ last' = last
  BY DEF Step, GetOrCreateCollector, history
<1>2. PICK r, s : r = work[w] /\ s = work'[w]
  OBVIOUS
<1>3. PICK i \in r.todo :
         /\ First(i, r.todo) /\ r.stage = "ops" /\ r.ops[i].name \in NameSet
         /\ r.ops[i].action \in {"add", "set"}
         /\ \/ collectors' = collectors /\ Move(w, "store")
            \/ /\ collectors' = collectors /\ r.ops[i].name \in Registered
               /\ r.ops[i].name \in DOMAIN collectors =>
                     collectors[r.ops[i].name].type # r.ops[i].action
               /\ work' = [work EXCEPT ![w].todo = @ \ {i}]
            \/ /\ r.ops[i].name \notin Registered
               /\ collectors' = Put(collectors, r.ops[i].name,
                            [type |-> r.ops[i].action,
                             names |-> DOMAIN MergeLabels(r.ops[i].labels, HookLabel(r.hook)),
                             series |-> Empty])
               /\ Move(w, "store")
  BY <1>2, GetOrCreateFacts
<1>4. s.alone = r.alone
  BY <1>2, AloneKept
<1>5. Registered \subseteq Registered'
  BY RegisteredGrows
<1>6. PICK cs, ds, reg, reg2 : cs = collectors /\ ds = collectors' /\ reg = Registered /\ reg2 = Registered'
  OBVIOUS
<1>7. ASSUME Move(w, "store"), Untouched(cs, ds, reg, r.group) PROVE BatchInv'
  <2>1. /\ OthersKept(w) /\ s.stage = "store" /\ s.group = r.group /\ s.todo = r.todo
        /\ s.ops = r.ops /\ s.hook = r.hook
    BY <1>2, <1>7, MoveFacts DEF Same, Stages
  <2>2. ASSUME r.alone PROVE Progress(ds, reg2, s)
    <3>1. Progress(cs, reg, r)
      BY <1>2, <1>3, <1>6, <2>2, OwnFacts DEF Active
    <3>2. Progress(ds, reg2, r)
      BY <1>5, <1>6, <1>7, <3>1, ProgressKept
    <3>3. Done(s) = Done(r)
      BY <2>1 DEF Done
    <3> QED
      BY <1>3, <2>1, <3>2, <3>3 DEF Progress
  <2> QED
    BY <1>1, <1>2, <1>3, <1>4, <1>6, <2>1, <2>2, BatchStep DEF Active
<1>8. CASE collectors' = collectors /\ Move(w, "store")
  <2>1. Untouched(cs, ds, reg, r.group)
    BY <1>6, <1>8, UntouchedSame
  <2> QED
    BY <1>7, <1>8, <2>1
<1>9. CASE /\ r.ops[i].name \notin Registered
           /\ collectors' = Put(collectors, r.ops[i].name,
                            [type |-> r.ops[i].action,
                             names |-> DOMAIN MergeLabels(r.ops[i].labels, HookLabel(r.hook)),
                             series |-> Empty])
           /\ Move(w, "store")
  <2>1. PICK n, c : /\ n = r.ops[i].name
                    /\ c = [type |-> r.ops[i].action,
                            names |-> DOMAIN MergeLabels(r.ops[i].labels, HookLabel(r.hook)),
                            series |-> Empty]
    OBVIOUS
  <2>2. n \notin reg /\ n \notin DOMAIN cs /\ ds = Put(cs, n, c)
    BY <1>6, <1>9, <2>1, RegisteredFacts
  <2>3. DOMAIN ds = DOMAIN cs \union {n} /\ ds[n] = c /\ \A m \in DOMAIN cs : ds[m] = cs[m]
    BY <2>2 DEF Put
  <2>4. SeriesOf(ds[n], r.group) = {}
    BY <2>1, <2>3 DEF SeriesOf, Empty
  <2>5. \A m \in DOMAIN cs : m \in DOMAIN ds /\ SameGroup(cs[m], ds[m], r.group)
    BY <2>3, SameItself
  <2>6. Untouched(cs, ds, reg, r.group)
    BY <2>2, <2>3, <2>4, <2>5 DEF Untouched
  <2> QED
    BY <1>7, <1>9, <2>6
<1>10. CASE /\ collectors' = collectors /\ r.ops[i].name \in Registered
            /\ r.ops[i].name \in DOMAIN collectors => collectors[r.ops[i].name].type # r.ops[i].action
            /\ work' = [work EXCEPT ![w].todo = @ \ {i}]
  <2>1. /\ OthersKept(w) /\ s.stage = "ops" /\ s.group = r.group /\ s.todo = r.todo \ {i}
        /\ s.ops = r.ops /\ s.hook = r.hook
    BY <1>2, <1>3, <1>10, TodoFacts DEF Same
  <2>2. ASSUME r.alone PROVE Progress(ds, reg2, s)
    <3>1. GoodOps(r.ops) /\ r.todo \subseteq OfGroup(r.ops, r.group) /\ Progress(cs, reg, r)
      BY <1>2, <1>3, <1>6, <2>2, OwnFacts DEF Active
    <3>2. \A j \in Done(r), k \in r.todo : j < k
      BY <3>1 DEF Progress
    <3>3. /\ NextOp(r.ops, Done(r), i) /\ Done(s) = Done(r) \union {i}
          /\ \A j \in Done(s), k \in s.todo : j < k
      BY <1>3, <2>1, <3>1, <3>2, NextDone
    <3>4. PICK D, E : D = Done(r) /\ E = Done(s)
      OBVIOUS
    <3>5. NextOp(r.ops, D, i) /\ E = D \union {i} /\ r.ops[i].action # "expire"
      BY <1>3, <3>3, <3>4
    <3>6. ASSUME NEW m \in DOMAIN cs PROVE Matches(r.hook, r.ops, r.group, E, m, cs[m])
      <4>1. Matches(r.hook, r.ops, r.group, D, m, cs[m])
        BY <1>3, <3>1, <3>4 DEF Progress, Shows
      <4>2. ~(r.ops[i].name = m /\ r.ops[i].action = cs[m].type)
        BY <1>6, <1>10
      <4> QED
        BY <3>5, <4>1, <4>2, MatchesSkip
    <3>7. Shows(ds, s.hook, s.ops, s.group, E)
      BY <1>6, <1>10, <2>1, <3>6 DEF Shows
    <3>8. Named(reg2, s.ops, E)
      BY <1>5, <1>6, <1>10, <2>1, <3>1, <3>4, <3>5 DEF Progress, Named
    <3> QED
      BY <2>1, <3>3, <3>4, <3>7, <3>8 DEF Progress
  <2> QED
    BY <1>1, <1>2, <1>3, <1>4, <1>6, <2>1, <2>2, BatchStep DEF Active
<1> QED
  BY <1>3, <1>8, <1>9, <1>10

LEMMA BatchStore ==
  ASSUME TypeInv, TypeInv', OwnerInv, ByInv', BatchInv, NEW w \in Worker, Store(w)
  PROVE  BatchInv'
<1>1. Step(w) /\ last' = last /\ work[w].stage = "store"
  BY DEF Step, Store, At, history
<1>2. PICK r, s : r = work[w] /\ s = work'[w]
  OBVIOUS
<1>11. PICK i \in r.todo : \E key : StoreGrows(w, i, key)
  BY <1>2, StoreGrowsGroup
<1>3. PICK key : StoreGrows(w, i, key)
  BY <1>11
<1>4. PICK cs, ds, reg, reg2, n : /\ cs = collectors /\ ds = collectors' /\ reg = Registered
                                  /\ reg2 = Registered' /\ n = r.ops[i].name
  OBVIOUS
<1>5. /\ First(i, r.todo) /\ n \in DOMAIN cs /\ r.ops[i].action # "expire"
      /\ r.ops[i].action = cs[n].type
      /\ key = KeyOf(r.hook, r.ops, i, cs[n].names)
      /\ DOMAIN ds = DOMAIN cs /\ \A m \in DOMAIN cs : m # n => ds[m] = cs[m]
      /\ Grown(cs[n], ds[n], r.group, key, r.ops[i])
  BY <1>2, <1>3, <1>4 DEF StoreGrows
<1>6. work' = [work EXCEPT ![w].stage = "ops", ![w].todo = @ \ {i}]
  BY <1>3 DEF StoreGrows
<1>7. /\ OthersKept(w) /\ s.stage = "ops" /\ s.group = r.group /\ s.todo = r.todo \ {i}
      /\ s.ops = r.ops /\ s.hook = r.hook
  BY <1>2, <1>6, TodoFacts DEF Same
<1>8. s.alone = r.alone
  BY <1>2, AloneKept
<1>9. reg \subseteq reg2
  BY <1>4, RegisteredGrows
<1>10. ASSUME r.alone PROVE Progress(ds, reg2, s)
  <2>1. GoodOps(r.ops) /\ r.todo \subseteq OfGroup(r.ops, r.group) /\ Progress(cs, reg, r)
    BY <1>1, <1>2, <1>4, <1>10, OwnFacts DEF Active
  <2>2. \A j \in Done(r), k \in r.todo : j < k
    BY <2>1 DEF Progress
  <2>3. /\ NextOp(r.ops, Done(r), i) /\ Done(s) = Done(r) \union {i}
        /\ \A j \in Done(s), k \in s.todo : j < k
    BY <1>5, <1>7, <2>1, <2>2, NextDone
  <2>4. PICK D, E : D = Done(r) /\ E = Done(s)
    OBVIOUS
  <2>5. NextOp(r.ops, D, i) /\ E = D \union {i}
    BY <2>3, <2>4
  <2>6. ASSUME NEW m \in DOMAIN cs PROVE Matches(r.hook, r.ops, r.group, E, m, ds[m])
    <3>1. Matches(r.hook, r.ops, r.group, D, m, cs[m])
      BY <1>1, <1>2, <2>1, <2>4 DEF Progress, Shows
    <3>2. CASE m = n
      <4>1. PICK c, d : c = cs[n] /\ d = ds[n]
        OBVIOUS
      <4>2. /\ Matches(r.hook, r.ops, r.group, D, n, c) /\ r.ops[i].action = c.type
            /\ key = KeyOf(r.hook, r.ops, i, c.names) /\ Grown(c, d, r.group, key, r.ops[i])
            /\ r.ops[i].name = n
        BY <1>4, <1>5, <3>1, <3>2, <4>1
      <4>3. Matches(r.hook, r.ops, r.group, E, n, d)
        BY <1>5, <2>5, <4>2, MatchesAdd
      <4> QED
        BY <3>2, <4>1, <4>3
    <3>3. CASE m # n
      <4>1. Matches(r.hook, r.ops, r.group, E, m, cs[m])
        BY <1>4, <1>5, <2>5, <3>1, <3>3, MatchesSkip
      <4> QED
        BY <1>5, <3>3, <4>1
    <3> QED
      BY <3>2, <3>3
  <2>7. Shows(ds, s.hook, s.ops, s.group, E)
    BY <1>5, <1>7, <2>6 DEF Shows
  <2>8. n \in reg
    BY <1>4, <1>5, RegisteredFacts
  <2>9. Named(reg2, s.ops, E)
    BY <1>4, <1>7, <1>9, <2>1, <2>4, <2>5, <2>8 DEF Progress, Named
  <2> QED
    BY <1>7, <2>3, <2>4, <2>7, <2>9 DEF Progress
<1> QED
  BY <1>1, <1>2, <1>4, <1>7, <1>8, <1>10, BatchStep DEF Active

LEMMA BatchGroupApplied ==
  ASSUME TypeInv, TypeInv', OwnerInv, ByInv', BatchInv, NEW w \in Worker, GroupApplied(w)
  PROVE  BatchInv'
<1>1. Step(w) /\ collectors' = collectors /\ Move(w, "groups")
  BY DEF Step, Elsewhere, GroupApplied, storage
<1>2. PICK r, s : r = work[w] /\ s = work'[w]
  OBVIOUS
<1>3. r.stage = "ops" /\ r.todo = {}
  BY <1>2 DEF GroupApplied, At
<1>4. OthersKept(w) /\ s.stage = "groups"
  BY <1>1, <1>2, MoveFacts DEF Stages
<1>5. OthersOnly(w)
  BY <1>4, KeptOnly
<1>6. s.stage \notin Active
  BY <1>4 DEF Active
<1>7. AloneInv'
  BY <1>2, <1>5, <1>6, AloneSame DEF BatchInv
<1>8. ProgressInv'
  BY <1>1, <1>2, <1>5, <1>6, ProgressSame DEF BatchInv
<1>9. PICK G, b : G = r.group /\ b = [hook |-> r.hook, ops |-> r.ops, alone |-> r.alone]
  OBVIOUS
<1>10. last' = Put(last, G, b)
  BY <1>2, <1>9 DEF GroupApplied
<1>11. DOMAIN last' = DOMAIN last \union {G} /\ last'[G] = b /\ \A g \in DOMAIN last : g # G => last'[g] = last[g]
  BY <1>10 DEF Put
<1>12. b.hook = r.hook /\ b.ops = r.ops /\ b.alone = r.alone
  BY <1>9
<1>13. /\ r.hook \in Hook /\ r.ops \in FilesOf(r.hook) /\ ValidateOperations(r.ops)
       /\ G \in Groups(r.ops)
  <2>1. WorkerInv(r)
    BY <1>2 DEF TypeInv, WorkInv
  <2> QED
    BY <1>3, <1>9, <2>1 DEF WorkerInv
<1>14. G # Nil
  BY <1>13 DEF Groups
<1>15. ASSUME NEW v \in Worker, NEW g, g # G, Applying(v, g) PROVE Applying(v, g)'
  <2>1. v # w
    BY <1>2, <1>3, <1>9, <1>15 DEF Applying
  <2>2. work'[v] = work[v]
    BY <1>4, <2>1 DEF OthersKept
  <2> QED
    BY <1>15, <2>2 DEF Applying
<1>16. ASSUME r.alone PROVE LastOK(collectors', Registered', G, b)
  <2>1. Progress(collectors, Registered, r)
    BY <1>2, <1>3, <1>16, OwnFacts DEF Active
  <2>2. Registered \subseteq Registered'
    BY RegisteredGrows DEF Elsewhere
  <2>3. PICK cs, reg, reg2 : cs = collectors /\ reg = Registered /\ reg2 = Registered'
    OBVIOUS
  <2>4. Done(r) = OfGroup(b.ops, G)
    BY <1>3, <1>9, <1>12 DEF Done
  <2>5. Shows(cs, b.hook, b.ops, G, OfGroup(b.ops, G))
    BY <1>3, <1>9, <1>12, <2>1, <2>3, <2>4 DEF Progress
  <2>6. Named(reg2, b.ops, OfGroup(b.ops, G))
    BY <1>12, <2>1, <2>2, <2>3, <2>4 DEF Progress, Named
  <2>7. LastOK(cs, reg2, G, b)
    BY <2>5, <2>6 DEF LastOK
  <2> QED
    BY <1>1, <2>3, <2>7
<1>17. ASSUME NEW g \in DOMAIN last'
       PROVE  /\ last'[g].hook \in Hook /\ last'[g].ops \in FilesOf(last'[g].hook)
              /\ ValidateOperations(last'[g].ops) /\ g # Nil
              /\ last'[g].alone /\ (\A v \in Worker : ~Applying(v, g)')
                    => LastOK(collectors', Registered', g, last'[g])
  <2>1. CASE g = G
    BY <1>11, <1>12, <1>13, <1>14, <1>16, <2>1
  <2>2. CASE g # G
    <3>1. PICK a : a = last[g] /\ a = last'[g] /\ g \in DOMAIN last
      BY <1>11, <1>17, <2>2
    <3>2. /\ a.hook \in Hook /\ a.ops \in FilesOf(a.hook) /\ ValidateOperations(a.ops) /\ g # Nil
          /\ a.alone /\ (\A v \in Worker : ~Applying(v, g)) => LastOK(collectors, Registered, g, a)
      BY <3>1 DEF BatchInv, LastInv
    <3>3. ASSUME a.alone, \A v \in Worker : ~Applying(v, g)'
          PROVE  LastOK(collectors', Registered', g, a)
      <4>1. \A v \in Worker : ~Applying(v, g)
        BY <1>15, <2>2, <3>3
      <4>2. LastOK(collectors, Registered, g, a)
        BY <3>2, <3>3, <4>1
      <4> QED
        BY <1>1, <4>1, <4>2, GroupStays
    <3> QED
      BY <3>1, <3>2, <3>3
  <2> QED
    BY <2>1, <2>2
<1>18. LastInv'
  BY <1>17 DEF LastInv, FilesOf, Hook, ValidateOperations, ValidateMetricOperation
<1> QED
  BY <1>7, <1>8, <1>18 DEF BatchInv

LEMMA BatchInit == Init => BatchInv
<1> SUFFICES ASSUME Init PROVE BatchInv
  OBVIOUS
<1>1. \A w \in Worker : work[w].stage \notin Active
  BY DEF Init, Idle, Active
<1>2. DOMAIN last = {}
  BY DEF Init, Empty
<1> QED
  BY <1>1, <1>2 DEF BatchInv, AloneInv, ProgressInv, LastInv

LEMMA BatchNext ==
  TypeInv /\ TypeInv' /\ OwnerInv /\ ByInv' /\ BatchInv /\ [Next]_vars => BatchInv'
<1> SUFFICES ASSUME TypeInv, TypeInv', OwnerInv, ByInv', BatchInv, [Next]_vars PROVE BatchInv'
  OBVIOUS
<1>1. ASSUME NEW w \in Worker, RunHook(w) \/ SendBatchV0(w) \/ Report(w) PROVE BatchInv'
  BY <1>1, BatchQuiet
<1>2. ASSUME NEW w \in Worker, VecCall(w) PROVE BatchInv'
  BY <1>2, BatchVecCall
<1>3. ASSUME NEW w \in Worker, ApplyGroup(w) PROVE BatchInv'
  BY <1>3, BatchApplyGroup
<1>4. ASSUME NEW w \in Worker, ExpireGroupMetrics(w) PROVE BatchInv'
  BY <1>4, BatchExpireGroupMetrics
<1>5. ASSUME NEW w \in Worker, Expired(w) PROVE BatchInv'
  BY <1>5, BatchExpired
<1>6. ASSUME NEW w \in Worker, ExpireOp(w) PROVE BatchInv'
  BY <1>6, BatchExpireOp
<1>7. ASSUME NEW w \in Worker, GetOrCreateCollector(w) PROVE BatchInv'
  BY <1>7, BatchGetOrCreateCollector
<1>8. ASSUME NEW w \in Worker, Store(w) PROVE BatchInv'
  BY <1>8, BatchStore
<1>9. ASSUME NEW w \in Worker, GroupApplied(w) PROVE BatchInv'
  BY <1>9, BatchGroupApplied
<1>10. CASE UNCHANGED vars
  <2>1. UNCHANGED <<work, collectors, vecs, last>>
    BY <1>10 DEF vars
  <2>2. AloneInv'
    BY <2>1 DEF BatchInv, AloneInv
  <2>3. Registered' = Registered
    BY <2>1 DEF Registered
  <2>4. ProgressInv'
    BY <2>1, <2>3 DEF BatchInv, ProgressInv
  <2>5. LastInv'
    BY <2>1, <2>3 DEF BatchInv, LastInv, Applying
  <2> QED
    BY <2>2, <2>4, <2>5 DEF BatchInv
<1> QED
  BY <1>1, <1>2, <1>3, <1>4, <1>5, <1>6, <1>7, <1>8, <1>9, <1>10 DEF Next

-----------------------------------------------------------------------------
(* The reference: what the operations ask for from the last "expire" on.   *)

LEMMA GreatestIs ==
  ASSUME NEW S, S \subseteq Nat, NEW m \in S, \A j \in S : j <= m
  PROVE  Max(S) = m
<1>1. m \in S /\ \A y \in S : m >= y
  OBVIOUS
<1>2. Max(S) \in S /\ \A y \in S : Max(S) >= y
  BY <1>1 DEF Max
<1>3. Max(S) >= m /\ m >= Max(S) /\ Max(S) \in Nat /\ m \in Nat
  BY <1>1, <1>2
<1> QED
  BY <1>3

\* The operations after the last "expire" are those no later one has undone.
LEMMA AfterLastExpire ==
  ASSUME NEW h \in Hook, NEW ops \in FilesOf(h), NEW D, D \subseteq DOMAIN ops,
         NEW begin, begin = Max({0} \union {i \in D : ops[i].action = "expire"})
  PROVE  \A i \in D : i > begin <=> \A j \in D : ops[j].action = "expire" => j < i
<1>1. PICK file \in Output[h] : ops = MetricOperationsFromFile(file)
  BY DEF FilesOf
<1>2. PICK n \in Nat : n = Len(file) /\ DOMAIN file = 1..n
  BY MetricStorageAssumption DEF MetricStorageAssumption
<1>3. DOMAIN ops = 1..n
  BY <1>1, <1>2 DEF MetricOperationsFromFile
<1>4. PICK T : T = {0} \union {i \in D : ops[i].action = "expire"}
  OBVIOUS
<1>5. T \subseteq Nat /\ T # {} /\ \A k \in T : k <= n
  BY <1>3, <1>4
<1>6. PICK m \in T : \A k \in T : k <= m
  BY <1>5, GreatestNumber
<1>7. begin = m
  BY <1>4, <1>5, <1>6, GreatestIs
<1> SUFFICES ASSUME NEW i \in D
             PROVE  i > m <=> \A j \in D : ops[j].action = "expire" => j < i
  BY <1>7
<1>8. i \in Nat /\ i > 0 /\ m \in Nat
  BY <1>3, <1>5
<1>9. ASSUME i > m PROVE \A j \in D : ops[j].action = "expire" => j < i
  <2> SUFFICES ASSUME NEW j \in D, ops[j].action = "expire" PROVE j < i
    OBVIOUS
  <2>1. j \in T /\ j \in Nat
    BY <1>3, <1>4
  <2>2. j <= m
    BY <1>6, <2>1
  <2> QED
    BY <1>8, <1>9, <2>1, <2>2
<1>10. ASSUME \A j \in D : ops[j].action = "expire" => j < i PROVE i > m
  <2>1. m = 0 \/ (m \in D /\ ops[m].action = "expire")
    BY <1>4, <1>6
  <2> QED
    BY <1>8, <1>10, <2>1
<1> QED
  BY <1>9, <1>10

\* Asked in terms of the operations that count.
ValueOf(ops, type, is) == IF type = "add" THEN SumHalves(ops, is) ELSE ops[Max(is)].value
LEMMA AskedIs ==
  ASSUME NEW a, NEW h \in Hook, NEW ops \in FilesOf(h), a.hook = h, a.ops = ops, NEW g, NEW n,
         NEW col, col = collectors[n], col.type # "expire",
         NEW mine, mine = Mine(ops, OfGroup(ops, g), n, col.type)
  PROVE  Asked(a, g, n) =
            {[labels |-> KeyOf(h, ops, i, col.names),
              value |-> ValueOf(ops, col.type,
                            Writers(h, ops, mine, col.names, KeyOf(h, ops, i, col.names)))] :
                i \in mine}
<1>1. PICK D, begin : /\ D = OfGroup(ops, g)
                      /\ begin = Max({0} \union {i \in D : ops[i].action = "expire"})
  OBVIOUS
<1>2. D \subseteq DOMAIN ops
  BY <1>1 DEF OfGroup
<1>3. \A i \in D : i > begin <=> \A j \in D : ops[j].action = "expire" => j < i
  BY <1>1, <1>2, AfterLastExpire
<1>4. mine = {i \in D : i > begin /\ ops[i].name = n /\ ops[i].action = col.type}
  BY <1>1, <1>3 DEF Mine, Live
<1>5. Asked(a, g, n) =
        {[labels |-> LabelValues(MergeLabels(ops[i].labels, HookLabel(h)), col.names),
          value |-> IF col.type = "add"
                    THEN SumHalves(ops, {j \in mine :
                            LabelValues(MergeLabels(ops[j].labels, HookLabel(h)), col.names)
                              = LabelValues(MergeLabels(ops[i].labels, HookLabel(h)), col.names)})
                    ELSE ops[Max({j \in mine :
                            LabelValues(MergeLabels(ops[j].labels, HookLabel(h)), col.names)
                              = LabelValues(MergeLabels(ops[i].labels, HookLabel(h)), col.names)})].value] :
            i \in mine}
  BY <1>1, <1>4 DEF Asked
<1> QED
  BY <1>5 DEF KeyOf, ValueOf, Writers

LEMMA HasItsValue ==
  ASSUME NEW ops, NEW type, NEW is, is \subseteq Nat, NEW x, HasValue(ops, type, is, x)
  PROVE  x = ValueOf(ops, type, is)
<1>1. CASE type = "add"
  BY <1>1 DEF HasValue, ValueOf
<1>2. CASE type # "add"
  <2>1. PICK m \in is : x = ops[m].value /\ \A j \in is : j <= m
    BY <1>2 DEF HasValue
  <2>2. Max(is) = m
    BY <2>1, GreatestIs
  <2> QED
    BY <1>2, <2>1, <2>2 DEF ValueOf
<1> QED
  BY <1>1, <1>2

LEMMA LastIsAsked ==
  ASSUME TypeInv, OwnerInv, NEW a, a.hook \in Hook, a.ops \in FilesOf(a.hook),
         ValidateOperations(a.ops), NEW g, LastOK(collectors, Registered, g, a),
         NEW n \in DOMAIN collectors
  PROVE  {[labels |-> s.labels, value |-> s.value] : s \in {t \in Collect(n) : t.group = g}}
            = Asked(a, g, n)
<1>1. PICK h, ops, D, col : h = a.hook /\ ops = a.ops /\ D = OfGroup(a.ops, g) /\ col = collectors[n]
  OBVIOUS
<1>2. PICK mine : mine = Mine(ops, D, n, col.type)
  OBVIOUS
<1>3. col.type # "expire"
  BY <1>1 DEF TypeInv, ColInv
<1>4. GoodOps(ops)
  BY <1>1, FileIsGood
<1>5. mine \subseteq Nat
  BY <1>1, <1>2, <1>4 DEF Mine, Live, OfGroup, GoodOps
<1>6. Matches(h, ops, g, D, n, col)
  BY <1>1 DEF LastOK, Shows
<1>7. /\ \A i \in mine : KeyOf(h, ops, i, col.names) \in SeriesOf(col, g)
      /\ \A key \in SeriesOf(col, g) :
            /\ \E i \in mine : KeyOf(h, ops, i, col.names) = key
            /\ HasValue(ops, col.type, Writers(h, ops, mine, col.names, key), col.series[key].value)
  BY <1>2, <1>6 DEF Matches
<1>8. ASSUME NEW key \in SeriesOf(col, g)
      PROVE  col.series[key].value = ValueOf(ops, col.type, Writers(h, ops, mine, col.names, key))
  <2>1. PICK is, x : is = Writers(h, ops, mine, col.names, key) /\ x = col.series[key].value
    OBVIOUS
  <2>2. is \subseteq Nat /\ HasValue(ops, col.type, is, x)
    BY <1>5, <1>7, <1>8, <2>1 DEF Writers
  <2>3. x = ValueOf(ops, col.type, is)
    BY <2>2, HasItsValue
  <2> QED
    BY <2>1, <2>3
<1>9. \A key \in DOMAIN col.series : col.series[key].labels = key
  BY <1>1 DEF OwnerInv
<1> DEFINE shown == {[labels |-> s.labels, value |-> s.value] : s \in {t \in Collect(n) : t.group = g}}
           value(key) == ValueOf(ops, col.type, Writers(h, ops, mine, col.names, key))
           asked == {[labels |-> KeyOf(h, ops, i, col.names), value |-> value(KeyOf(h, ops, i, col.names))] :
                        i \in mine}
<1>10. Asked(a, g, n) = asked
  <2>1. mine = Mine(ops, OfGroup(ops, g), n, col.type) /\ h \in Hook /\ ops \in FilesOf(h)
    BY <1>1, <1>2
  <2> QED
    BY <1>1, <1>3, <2>1, AskedIs
<1>11. {t \in Collect(n) : t.group = g} = {col.series[key] : key \in SeriesOf(col, g)}
  BY <1>1 DEF Collect, SeriesOf
<1>12. \A key \in SeriesOf(col, g) : col.series[key].value = value(key) /\ col.series[key].labels = key
  BY <1>8, <1>9 DEF SeriesOf
<1> HIDE DEF value
<1>13. shown = {[labels |-> key, value |-> value(key)] : key \in SeriesOf(col, g)}
  BY <1>11, <1>12
<1>14. shown \subseteq asked
  BY <1>7, <1>13
<1>15. asked \subseteq shown
  BY <1>7, <1>13
<1> QED
  BY <1>10, <1>14, <1>15

\* When the files of a hook keep their groups apart, a group that nobody else
\* applies at the same time shows what its last batch asks for and nothing else
\* as soon as ApplyGroupOperations has ended: counters hold the sum of the
\* batch's own adds, gauges its last value, metrics that an "expire" in the
\* middle of the batch has undone are gone, and no step of a worker that applies
\* another group, also to the same metric, or registers a metric changes it.
THEOREM GroupShowsLastBatch == GroupsApart /\ Spec => []GroupIsLastBatch
<1>1. TypeInv /\ OwnerInv /\ BatchInv => GroupIsLastBatch
  <2> SUFFICES ASSUME TypeInv, OwnerInv, BatchInv,
                      NEW g \in DOMAIN last, last[g].alone, \A w \in Worker : ~Applying(w, g),
                      NEW n \in DOMAIN collectors
               PROVE  {[labels |-> s.labels, value |-> s.value] : s \in {t \in Collect(n) : t.group = g}}
                         = Asked(last[g], g, n)
    BY DEF GroupIsLastBatch
  <2>1. /\ last[g].hook \in Hook /\ last[g].ops \in FilesOf(last[g].hook)
        /\ ValidateOperations(last[g].ops) /\ LastOK(collectors, Registered, g, last[g])
    BY DEF BatchInv, LastInv
  <2> QED
    BY <2>1, LastIsAsked
<1>2. ASSUME GroupsApart PROVE Spec => []GroupIsLastBatch
  <2>1. TypeInv /\ OwnerInv /\ ByInv /\ [Next]_vars => ByInv'
    BY <1>2, ByNext
  <2>2. Init => ByInv
    BY GroupsInit
  <2> QED
    BY <1>1, <2>1, <2>2, TypeInit, TypeNext, OwnerInit, OwnerNext, BatchInit, BatchNext, PTL DEF Spec
<1> QED
  BY <1>2
==============================================================================
