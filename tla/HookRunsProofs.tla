---------------------------- MODULE HookRunsProofs ----------------------------
(***************************************************************************)
(* Theorems about HookRuns, for any hooks, any configurations they print   *)
(* and any bounds.                                                         *)
(***************************************************************************)
EXTENDS HookRuns, InductionLemmas, FiniteSetTheorems

-----------------------------------------------------------------------------
(* What a configuration that was accepted is like, by what was printed.    *)

\* Wanted, of what a hook printed.
WantedOf(r, o) ==
    LET kube == Get(r, "kubernetes", << >>)
        group == {i \in DOMAIN kube : /\ Get(kube[i], "group", Unset) # Unset
                                      /\ Get(kube[i], "group", Unset) = Get(o, "group", Unset)}
    IN ToSet(Get(o, "includeSnapshotsFrom", << >>))
       \union {NameOr(kube[i], "kubernetes") : i \in group}

\* A binding includes snapshots that are there, and its queue is one.
BindingOK(c, b) ==
    /\ IsList(b.include)
    /\ ToSet(b.include) \subseteq SnapshotNames(c)
    /\ b.queue \in Queue

\* A binding is what was asked for.
Asked(r, o, kind, b) ==
    /\ b.name = NameOr(o, kind)
    /\ b.group = Get(o, "group", Unset)
    /\ b.queue = QueueOrMain(o)
    /\ ToSet(b.include) = WantedOf(r, o)

AskedKube(o, b) ==
    /\ b.sync = Get(o, "executeHookOnSynchronization", TRUE)
    /\ b.full = Get(o, "keepFullObjectsInMemory", TRUE)
    /\ b.events = ToSet(Get(o, "executeHookOnEvent",
                            Get(o, "watchEvent", <<"Added", "Modified", "Deleted">>)))

GoodConfig(r, c) ==
    /\ c.version \in {"v0", "v1"}
    /\ IsList(c.kubernetes) /\ Len(c.kubernetes) <= MaxBindings
    /\ IsList(c.schedule)
    /\ \A i \in DOMAIN c.kubernetes : BindingOK(c, c.kubernetes[i])
    /\ \A i \in DOMAIN c.schedule : BindingOK(c, c.schedule[i])
    /\ \A S \in SUBSET SnapshotNames(c) : Nil \notin [S -> [of : Nat, ver : Nat]]
    /\ c.version = "v1" =>
          /\ DOMAIN c.kubernetes = DOMAIN Get(r, "kubernetes", << >>)
          /\ \A i \in DOMAIN c.kubernetes : /\ Asked(r, r.kubernetes[i], "kubernetes", c.kubernetes[i])
                                            /\ AskedKube(r.kubernetes[i], c.kubernetes[i])
          /\ \A i \in DOMAIN c.schedule : Asked(r, r.schedule[i], "schedule", c.schedule[i])

-----------------------------------------------------------------------------
(* The inductive invariant.  Its parts are about a configuration c of all  *)
(* hooks, a set of monitors, and the tasks s of one queue q.               *)

\* Every binding of h has a monitor.
AllMade(c, mon, h) == \A i \in DOMAIN c[h].kubernetes : <<h, i>> \in mon

KubeRun(b, q, ctx) ==
    /\ ctx.binding = b.name /\ ctx.group = b.group /\ ctx.include = b.include
    /\ ctx.object # Nil <=> b.full
    /\ \/ ctx.type = "Event" /\ ctx.watch \in b.events /\ q = b.queue
       \/ ctx.type = "Synchronization" /\ b.sync

SchedRun(b, q, ctx) ==
    /\ ctx.binding = b.name /\ ctx.group = b.group /\ ctx.include = b.include
    /\ ctx.type = Unset /\ q = b.queue

\* A context made by ConvertKubeEventToBindingContext, ScheduleRun or the start.
RunOK(cf, q, ctx) ==
    /\ DOMAIN ctx = {"kind", "binding", "group", "include", "type", "watch", "object",
                     "snap", "from"}
    /\ cf.kubernetes = << >> => ctx.snap = NoSnapshots
    /\ \/ ctx.kind = "onStartup"
       \/ /\ ctx.kind = "kubernetes" /\ ctx.from \in DOMAIN cf.kubernetes
          /\ KubeRun(cf.kubernetes[ctx.from], q, ctx)
       \/ /\ ctx.kind = "schedule" /\ ctx.from \in DOMAIN cf.schedule
          /\ SchedRun(cf.schedule[ctx.from], q, ctx)

Enables(t, kind, h) == t.kind = kind /\ t.hook = h

TaskOK(c, q, t) ==
    /\ t.hook \in Hook
    /\ \/ t.kind = "HookRun" /\ RunOK(c[t.hook], q, t.ctx)
       \/ t.kind = "EnableKubernetes" /\ q = "main"
       \/ t.kind = "EnableSchedule" /\ q = "main" /\ c[t.hook].schedule # << >>

\* A hook is run for a binding only when all its monitors were made.
RunReady(c, mon, t) ==
    t.kind = "HookRun" /\ t.ctx.kind # "onStartup" => AllMade(c, mon, t.hook)

\* The bindings of kubernetes are enabled before those of schedule.
QueueOK(c, mon, q, s) ==
    /\ IsList(s)
    /\ \A k \in 1..Len(s) : TaskOK(c, q, s[k]) /\ RunReady(c, mon, s[k])
    /\ \A k \in 1..Len(s) : s[k].kind = "EnableSchedule" =>
          \/ AllMade(c, mon, s[k].hook)
          \/ \E j \in 1..(k - 1) : Enables(s[j], "EnableKubernetes", s[k].hook)

\* Snapshots with the name they are asked by, not older than since.
SnapOK(c, ca, since, h, snap) ==
    /\ snap \in [DOMAIN snap -> [of : Nat, ver : Nat]]
    /\ \A n \in DOMAIN snap :
          /\ snap[n].of \in DOMAIN c[h].kubernetes /\ <<h, snap[n].of>> \in Monitor
          /\ c[h].kubernetes[snap[n].of].name = n
          /\ since[<<h, snap[n].of>>] <= snap[n].ver
          /\ snap[n].ver <= ca[<<h, snap[n].of>>]

FirstOf(bs, name) == SelectInSeq(bs, LAMBDA b : b.name = name)

\* KubernetesSnapshotsFor, of a configuration.
SnapshotsOf(cf, kind, name) ==
    LET bs == IF kind = "onStartup" THEN << >> ELSE cf[kind]
        i == FirstOf(bs, name)
    IN IF i = 0 THEN << >> ELSE bs[i].include

SinceOK(ca, since) ==
    since \in [Monitor -> Nat] /\ \A m \in Monitor : since[m] <= ca[m]

AddOK(c, mon, t, w) ==
    /\ DOMAIN w = {"at", "i", "infos"}
    /\ t.kind = "EnableKubernetes"
    /\ w.i \in 1..(Len(c[t.hook].kubernetes) + 1)
    /\ \A j \in 1..(w.i - 1) : <<t.hook, j>> \in mon
    /\ IsList(w.infos)
    /\ \A k \in 1..Len(w.infos) : /\ w.infos[k].kind = "HookRun" /\ w.infos[k].hook = t.hook
                                  /\ TaskOK(c, "main", w.infos[k])

LinkOK(c, t, w) ==
    /\ DOMAIN w = {"at", "i"}
    /\ t.kind = "EnableSchedule"
    /\ w.i \in 1..Len(c[t.hook].schedule)

RefreshOK(c, ca, t, w) ==
    /\ DOMAIN w = {"at", "since", "todo", "snap"}
    /\ t.kind = "HookRun"
    /\ SinceOK(ca, w.since)
    /\ IsList(w.todo)
    /\ DOMAIN w.snap \union ToSet(w.todo) = ToSet(SnapshotsOf(c[t.hook], t.ctx.kind, t.ctx.binding))
    /\ SnapOK(c, ca, w.since, t.hook, w.snap)

\* The file was made from the context and snapshots that were read for it.
HookOK(c, ca, t, w) ==
    /\ t.kind = "HookRun" /\ w.file # Nil
    /\ SinceOK(ca, w.since)
    /\ \E S \in SUBSET SnapshotNames(c[t.hook]) :
          \E snap \in [S -> [of : DOMAIN c[t.hook].kubernetes, ver : 0..MaxChanges]] :
          /\ DOMAIN snap = ToSet(SnapshotsOf(c[t.hook], t.ctx.kind, t.ctx.binding))
          /\ SnapOK(c, ca, w.since, t.hook, snap)
          /\ w.file = ConvertBindingContext(c[t.hook].version, [t.ctx EXCEPT !.snap = snap])

WorkOK(c, mon, ca, s, w) ==
    \/ w = Idle
    \/ w.at = "panic"
    \/ /\ s # << >>
       /\ \/ w.at = "add" /\ AddOK(c, mon, s[1], w)
          \/ w.at = "link" /\ LinkOK(c, s[1], w)
          \/ w.at = "refresh" /\ RefreshOK(c, ca, s[1], w)
          \/ w.at = "hook" /\ HookOK(c, ca, s[1], w)

ConfigInv ==
    /\ stage \in {"loading", "failed", "up"}
    /\ \A h \in Hook : raw[h] \in Printed[h]
    /\ DOMAIN config \subseteq Hook
    /\ stage = "up" => DOMAIN config = Hook
    /\ \A h \in DOMAIN config : GoodConfig(raw[h], config[h])

\* Nothing happens before the hooks are loaded.
StartInv ==
    stage # "up" => /\ \A q \in Queue : queues[q] = << >> /\ work[q] = Idle
                    /\ monitors = {} /\ scheduleLinks = {}

LinkInv ==
    /\ started \subseteq links /\ links \subseteq monitors
    /\ \A m \in monitors : m \in Monitor /\ m[2] \in DOMAIN config[m[1]].kubernetes
    /\ \A m \in started : AllMade(config, monitors, m[1])
    /\ IsFiniteSet(scheduleLinks)
    /\ \A l \in scheduleLinks : /\ l = <<l[1], l[2]>> /\ l[1] \in Hook
                                /\ l[2] \in DOMAIN config[l[1]].schedule
                                /\ AllMade(config, monitors, l[1])

\* The monitor has cached what it has to report.
EventOK(c, st, ca, m, e) ==
    /\ m \in st
    /\ e.ver \in Nat /\ e.ver <= ca[m]
    /\ e.watch \in c[m[1]].kubernetes[m[2]].events

CacheInv ==
    /\ cache \in [Monitor -> 0..MaxChanges]
    /\ DOMAIN event = Monitor
    /\ \A m \in Monitor : \A e \in event[m] : EventOK(config, started, cache, m, e)

QueueInv ==
    /\ DOMAIN queues = Queue
    /\ \A q \in Queue : QueueOK(config, monitors, q, queues[q])

WorkInv ==
    /\ DOMAIN work = Queue
    /\ \A q \in Queue : WorkOK(config, monitors, cache, queues[q], work[q])

IInv == ConfigInv /\ StartInv /\ LinkInv /\ CacheInv /\ QueueInv /\ WorkInv

-----------------------------------------------------------------------------
(* Lists.                                                                  *)

LEMMA ListOf ==
    ASSUME NEW S, NEW s \in Seq(S)
    PROVE  IsList(s)
<1>1. Len(s) \in Nat /\ DOMAIN s = 1..Len(s) /\ s = [i \in 1..Len(s) |-> s[i]]
  OBVIOUS
<1>2. \A i \in 1..Len(s) : s[i] \in ToSet(s)
  BY <1>1 DEF ToSet
<1>3. s \in Seq(ToSet(s))
  BY <1>1, <1>2
<1> QED BY <1>3 DEF IsList

LEMMA ListFacts ==
    ASSUME NEW s, IsList(s)
    PROVE  /\ Len(s) \in Nat /\ DOMAIN s = 1..Len(s)
           /\ s = << >> <=> Len(s) = 0
           /\ \A i \in 1..Len(s) : s[i] \in ToSet(s)
<1>1. s \in Seq(ToSet(s))
  BY DEF IsList
<1>2. PICK S : S = ToSet(s)
  OBVIOUS
<1>3. s \in Seq(S)
  BY <1>1, <1>2
<1>4. Len(s) \in Nat /\ DOMAIN s = 1..Len(s) /\ (s = << >> <=> Len(s) = 0)
  BY <1>3
<1>5. \A i \in 1..Len(s) : s[i] \in S
  BY <1>3, <1>4
<1> QED BY <1>2, <1>4, <1>5

LEMMA ListEmpty == IsList(<< >>) /\ ToSet(<< >>) = {} /\ Len(<< >>) = 0
<1>1. << >> \in Seq({})
  OBVIOUS
<1>2. IsList(<< >>)
  BY <1>1, ListOf
<1> QED BY <1>2 DEF ToSet

LEMMA ListFun ==
    ASSUME NEW n \in Nat, NEW f, f = [i \in 1..n |-> f[i]]
    PROVE  IsList(f) /\ Len(f) = n
<1>1. PICK S : S = {f[i] : i \in 1..n}
  OBVIOUS
<1>2. f \in [1..n -> S]
  BY <1>1
<1>3. f \in Seq(S) /\ Len(f) = n
  BY <1>2
<1> QED BY <1>3, ListOf

LEMMA ListConcat ==
    ASSUME NEW s, NEW t, IsList(s), IsList(t)
    PROVE  /\ IsList(s \o t)
           /\ Len(s \o t) = Len(s) + Len(t)
           /\ \A i \in 1..Len(s) : (s \o t)[i] = s[i]
           /\ \A i \in 1..Len(t) : (s \o t)[Len(s) + i] = t[i]
           /\ \A i \in 1..(Len(s) + Len(t)) :
                 \/ i \in 1..Len(s)
                 \/ i - Len(s) \in 1..Len(t) /\ (s \o t)[i] = t[i - Len(s)]
           /\ ToSet(s \o t) = ToSet(s) \union ToSet(t)
<1>1. PICK S : s \in Seq(S)
  BY DEF IsList
<1>2. PICK T : t \in Seq(T)
  BY DEF IsList
<1>3. PICK U : U = S \union T
  OBVIOUS
<1>4. s \in Seq(U) /\ t \in Seq(U)
  BY <1>1, <1>2, <1>3
<1>5. PICK r : r = s \o t
  OBVIOUS
<1>6. r \in Seq(U) /\ Len(r) = Len(s) + Len(t) /\ Len(s) \in Nat /\ Len(t) \in Nat
  BY <1>4, <1>5
<1>7. /\ \A i \in 1..Len(s) : r[i] = s[i]
      /\ \A i \in 1..Len(t) : r[Len(s) + i] = t[i]
      /\ \A i \in 1..(Len(s) + Len(t)) :
            \/ i \in 1..Len(s)
            \/ i - Len(s) \in 1..Len(t) /\ r[i] = t[i - Len(s)]
  BY <1>4, <1>5, <1>6
<1>8. IsList(r)
  BY <1>6, ListOf
<1>9. DOMAIN r = 1..Len(r) /\ DOMAIN s = 1..Len(s) /\ DOMAIN t = 1..Len(t)
  BY <1>4, <1>6
<1>10. ToSet(r) = ToSet(s) \union ToSet(t)
  <2>1. ASSUME NEW i \in 1..Len(t) PROVE Len(s) + i \in 1..Len(r) /\ r[Len(s) + i] = t[i]
    BY <1>6, <1>7
  <2>2. ASSUME NEW i \in 1..Len(s) PROVE i \in 1..Len(r) /\ r[i] = s[i]
    BY <1>6, <1>7
  <2>3. ToSet(s) \subseteq ToSet(r)
    BY <2>2, <1>9 DEF ToSet
  <2>4. ToSet(t) \subseteq ToSet(r)
    BY <2>1, <1>9 DEF ToSet
  <2>5. ASSUME NEW i \in 1..Len(r) PROVE r[i] \in ToSet(s) \union ToSet(t)
    <3>1. CASE i \in 1..Len(s)
      BY <3>1, <1>7, <1>9 DEF ToSet
    <3>2. CASE i - Len(s) \in 1..Len(t) /\ r[i] = t[i - Len(s)]
      BY <3>2, <1>9 DEF ToSet
    <3> QED BY <3>1, <3>2, <1>6, <1>7
  <2>6. ToSet(r) \subseteq ToSet(s) \union ToSet(t)
    BY <2>5, <1>9 DEF ToSet
  <2> QED BY <2>3, <2>4, <2>6
<1> QED BY <1>5, <1>6, <1>7, <1>8, <1>10

LEMMA ListTail ==
    ASSUME NEW s, IsList(s), s # << >>
    PROVE  /\ IsList(Tail(s)) /\ Len(Tail(s)) = Len(s) - 1 /\ Len(s) >= 1
           /\ \A i \in 1..(Len(s) - 1) : Tail(s)[i] = s[i + 1]
           /\ Head(s) = s[1]
           /\ ToSet(s) = ToSet(Tail(s)) \union {Head(s)}
<1>1. PICK S : s \in Seq(S)
  BY DEF IsList
<1>2. PICK t : t = Tail(s)
  OBVIOUS
<1>3. /\ t \in Seq(S) /\ Len(s) \in Nat /\ Len(t) = Len(s) - 1 /\ Len(s) >= 1
      /\ \A i \in 1..(Len(s) - 1) : t[i] = s[i + 1]
      /\ Head(s) = s[1]
  BY <1>1, <1>2
<1>4. IsList(t)
  BY <1>3, ListOf
<1>5. DOMAIN t = 1..Len(t) /\ DOMAIN s = 1..Len(s)
  BY <1>1, <1>3
<1>6. ToSet(s) = ToSet(t) \union {s[1]}
  <2>1. ASSUME NEW i \in 1..Len(t) PROVE i + 1 \in 1..Len(s) /\ s[i + 1] = t[i]
    BY <1>3
  <2>2. ASSUME NEW i \in 1..Len(s), i # 1 PROVE i - 1 \in 1..Len(t) /\ t[i - 1] = s[i]
    BY <1>3, <2>2
  <2>3. 1 \in 1..Len(s)
    BY <1>3
  <2>4. ToSet(t) \subseteq ToSet(s)
    BY <1>5, <2>1 DEF ToSet
  <2>5. s[1] \in ToSet(s)
    BY <1>5, <2>3 DEF ToSet
  <2>6. ASSUME NEW i \in 1..Len(s) PROVE s[i] \in ToSet(t) \union {s[1]}
    <3>1. CASE i = 1
      BY <3>1
    <3>2. CASE i # 1
      BY <3>2, <2>2, <1>5 DEF ToSet
    <3> QED BY <3>1, <3>2
  <2>7. ToSet(s) \subseteq ToSet(t) \union {s[1]}
    BY <1>5, <2>6 DEF ToSet
  <2> QED BY <2>4, <2>5, <2>7
<1> QED BY <1>2, <1>3, <1>4, <1>6

LEMMA ListAppend ==
    ASSUME NEW s, NEW x, IsList(s)
    PROVE  /\ Append(s, x) = s \o <<x>>
           /\ IsList(<<x>>) /\ Len(<<x>>) = 1 /\ <<x>>[1] = x
<1>1. PICK S : s \in Seq(S)
  BY DEF IsList
<1>2. PICK U : U = S \union {x}
  OBVIOUS
<1>3. s \in Seq(U) /\ <<x>> \in Seq(U)
  BY <1>1, <1>2
<1>4. IsList(<<x>>)
  BY <1>3, ListOf
<1>5. Append(s, x) = s \o <<x>>
  BY <1>3, <1>2
<1> QED BY <1>4, <1>5

LEMMA ListReverse ==
    ASSUME NEW s, IsList(s)
    PROVE  /\ IsList(Reverse(s)) /\ Len(Reverse(s)) = Len(s)
           /\ \A i \in 1..Len(s) : \E j \in 1..Len(s) : Reverse(s)[i] = s[j]
<1>1. PICK n \in Nat : n = Len(s)
  BY ListFacts
<1>2. PICK r : r = Reverse(s)
  OBVIOUS
<1>3. r = [i \in 1..n |-> s[(n - i) + 1]]
  BY <1>1, <1>2 DEF Reverse
<1>4. IsList(r) /\ Len(r) = n
  BY <1>3, ListFun
<1>5. ASSUME NEW i \in 1..n PROVE \E j \in 1..n : r[i] = s[j]
  <2>1. (n - i) + 1 \in 1..n
    OBVIOUS
  <2> QED BY <2>1, <1>3
<1> QED BY <1>1, <1>2, <1>4, <1>5

LEMMA KeepList ==
    ASSUME NEW s, IsList(s), NEW I, NEW f, f = Keep(s, I)
    PROVE  /\ IsList(f)
           /\ \A k \in 1..Len(f) : \E i \in 1..Len(s) : i \in I /\ f[k] = s[i]
           /\ \A i \in 1..Len(s) : i \in I => \E k \in 1..Len(f) : f[k] = s[i]
<1>1. PICK A : s \in Seq(A)
  BY DEF IsList
<1>2. PICK g, row :
          /\ g \in Seq(A)
          /\ g = FlattenSeq([i \in DOMAIN s |-> IF i \in I THEN <<s[i]>> ELSE << >>])
          /\ Picks(s, I, g, row)
  BY <1>1, FlattenPicks, ZenonT(60)
<1>3. f = g
  BY <1>2 DEF Keep
<1>4. IsList(f)
  BY <1>2, <1>3, ListOf
<1>5. /\ \A k \in 1..Len(f) : row[k] \in 1..Len(s) /\ row[k] \in I /\ f[k] = s[row[k]]
      /\ \A i \in 1..Len(s) : i \in I => \E k \in 1..Len(f) : row[k] = i
  BY <1>2, <1>3 DEF Picks
<1>6. \A i \in 1..Len(s) : i \in I => \E k \in 1..Len(f) : f[k] = s[i]
  BY <1>5
<1> QED BY <1>4, <1>5, <1>6

LEMMA KeepSet ==
    ASSUME NEW s, IsList(s), NEW I
    PROVE  ToSet(Keep(s, I)) = {s[i] : i \in DOMAIN s \intersect I}
<1>1. PICK f : f = Keep(s, I)
  OBVIOUS
<1>2. /\ IsList(f)
      /\ \A k \in 1..Len(f) : \E i \in 1..Len(s) : i \in I /\ f[k] = s[i]
      /\ \A i \in 1..Len(s) : i \in I => \E k \in 1..Len(f) : f[k] = s[i]
  BY <1>1, KeepList
<1>3. DOMAIN f = 1..Len(f) /\ DOMAIN s = 1..Len(s)
  BY <1>2, ListFacts
<1>4. ToSet(f) = {s[i] : i \in DOMAIN s \intersect I}
  <2>1. ToSet(f) \subseteq {s[i] : i \in DOMAIN s \intersect I}
    BY <1>2, <1>3 DEF ToSet
  <2>2. ASSUME NEW i \in DOMAIN s, i \in I PROVE s[i] \in ToSet(f)
    <3>1. PICK k \in 1..Len(f) : f[k] = s[i]
      BY <1>2, <1>3, <2>2
    <3> QED BY <3>1, <1>3 DEF ToSet
  <2> QED BY <2>1, <2>2
<1> QED BY <1>1, <1>4

-----------------------------------------------------------------------------
(* Configurations.                                                         *)

Bindings == {"schedule", "kubernetes", "onKubernetesEvent"}

LEMMA ItemsOf ==
    ASSUME NEW o, Typed(o), WellTyped(o), NEW k \in Bindings, NEW items, items = Get(o, k, << >>)
    PROVE  /\ IsList(items)
           /\ k # "schedule" => Len(items) <= MaxBindings
           /\ \A i \in DOMAIN items : k \in DOMAIN o /\ items = o[k] /\ TypedBinding(o[k][i])
<1>1. CASE k \in DOMAIN o
  <2>1. items = o[k] /\ o[k] # Mistyped
    BY <1>1 DEF Get, WellTyped
  <2>2. /\ IsList(o[k])
        /\ k = "schedule" \/ Len(o[k]) <= MaxBindings
        /\ \A i \in DOMAIN o[k] : TypedBinding(o[k][i])
    BY <1>1, <2>1 DEF Typed, Bindings
  <2> QED BY <1>1, <2>1, <2>2
<1>2. CASE k \notin DOMAIN o
  <2>1. items = << >>
    BY <1>2 DEF Get
  <2>2. IsList(items) /\ Len(items) = 0
    BY <2>1, ListEmpty
  <2>3. DOMAIN items = {}
    BY <2>2, ListFacts
  <2>4. MaxBindings \in Nat
    BY HookRunsAssumption
  <2> QED BY <2>2, <2>3, <2>4
<1> QED BY <1>1, <1>2

\* What TypedBinding says of the fields.
LEMMA FieldsOf ==
    ASSUME NEW o, TypedBinding(o), WellTyped(o)
    PROVE  /\ IsList(Get(o, "includeSnapshotsFrom", << >>))
           /\ QueueOrMain(o) \in Queue
           /\ "watchEvent" \in DOMAIN o => o["watchEvent"] # Nil
           /\ "executeHookOnEvent" \in DOMAIN o => o["executeHookOnEvent"] # Nil
<1>1. \A k \in DOMAIN o : /\ o[k] # Nil
                          /\ k = "queue" => o[k] \in Queue \union {Unset}
                          /\ k = "includeSnapshotsFrom" => IsList(o[k])
  BY DEF TypedBinding, WellTyped
<1>2. IsList(Get(o, "includeSnapshotsFrom", << >>))
  BY <1>1, ListEmpty DEF Get
<1>3. "main" \in Queue
  BY HookRunsAssumption
<1>4. QueueOrMain(o) \in Queue
  <2>1. CASE "queue" \in DOMAIN o
    BY <1>1, <1>3, <2>1 DEF Get, QueueOrMain
  <2>2. CASE "queue" \notin DOMAIN o
    BY <1>3, <2>2 DEF Get, QueueOrMain
  <2> QED BY <2>1, <2>2
<1> QED BY <1>1, <1>2, <1>4

\* No list means every event, an empty list means none.
LEMMA EventsAsked ==
    ASSUME NEW o, TypedBinding(o), WellTyped(o)
    PROVE  WithEventTypes(Get(o, "executeHookOnEvent", Get(o, "watchEvent", Nil)))
              = ToSet(Get(o, "executeHookOnEvent",
                          Get(o, "watchEvent", <<"Added", "Modified", "Deleted">>)))
<1>1. CASE "executeHookOnEvent" \in DOMAIN o
  BY <1>1, FieldsOf DEF Get, WithEventTypes
<1>2. CASE "executeHookOnEvent" \notin DOMAIN o /\ "watchEvent" \in DOMAIN o
  BY <1>2, FieldsOf DEF Get, WithEventTypes
<1>3. CASE "executeHookOnEvent" \notin DOMAIN o /\ "watchEvent" \notin DOMAIN o
  <2>1. ToSet(<<"Added", "Modified", "Deleted">>) = {"Added", "Modified", "Deleted"}
    BY DEF ToSet
  <2> QED BY <1>3, <2>1 DEF Get, WithEventTypes
<1> QED BY <1>1, <1>2, <1>3

KubeFields == {"name", "group", "queue", "allowFailure", "include", "events", "sync", "wait",
               "full", "mode"}
SchedFields == {"name", "crontab", "group", "queue", "allowFailure", "include"}

\* What the conversion of a binding of v1 keeps of it.
Kept(o, kind, b) ==
    /\ b.name = NameOr(o, kind)
    /\ b.group = Get(o, "group", Unset)
    /\ b.queue = QueueOrMain(o) /\ b.queue \in Queue
    /\ b.include = Get(o, "includeSnapshotsFrom", << >>) /\ IsList(b.include)

LEMMA KubernetesV1 ==
    ASSUME NEW o, TypedBinding(o), WellTyped(o), NEW b, b = ConvertKubernetesV1(o)
    PROVE  DOMAIN b = KubeFields /\ Kept(o, "kubernetes", b) /\ AskedKube(o, b)
<1>1. PICK e : e = WithEventTypes(Get(o, "executeHookOnEvent", Get(o, "watchEvent", Nil)))
  OBVIOUS
<1>2. PICK w : w = (Get(o, "waitForSynchronization", TRUE) \/ Get(o, "queue", Unset) = Unset)
  OBVIOUS
<1>3. b = [name |-> NameOr(o, "kubernetes"),
           group |-> Get(o, "group", Unset),
           queue |-> QueueOrMain(o),
           allowFailure |-> AllowFailure(o),
           include |-> Get(o, "includeSnapshotsFrom", << >>),
           events |-> e,
           sync |-> Get(o, "executeHookOnSynchronization", TRUE),
           wait |-> w,
           full |-> Get(o, "keepFullObjectsInMemory", TRUE),
           mode |-> Unset]
  BY <1>1, <1>2, Zenon DEF ConvertKubernetesV1
<1>4. /\ DOMAIN b = KubeFields
      /\ b.name = NameOr(o, "kubernetes")
      /\ b.group = Get(o, "group", Unset)
      /\ b.queue = QueueOrMain(o)
      /\ b.include = Get(o, "includeSnapshotsFrom", << >>)
      /\ b.events = e
  BY <1>3 DEF KubeFields
<1>5. /\ b.sync = Get(o, "executeHookOnSynchronization", TRUE)
      /\ b.full = Get(o, "keepFullObjectsInMemory", TRUE)
  BY <1>3
<1>6. Kept(o, "kubernetes", b)
  BY <1>4, FieldsOf DEF Kept
<1>7. AskedKube(o, b)
  BY <1>1, <1>4, <1>5, EventsAsked DEF AskedKube
<1> QED BY <1>4, <1>6, <1>7

LEMMA ScheduleV1 ==
    ASSUME NEW o, TypedBinding(o), WellTyped(o), NEW b, b = ConvertScheduleV1(o)
    PROVE  DOMAIN b = SchedFields /\ Kept(o, "schedule", b)
<1>1. /\ DOMAIN b = SchedFields
      /\ b.name = NameOr(o, "schedule")
      /\ b.group = Get(o, "group", Unset)
      /\ b.queue = QueueOrMain(o)
      /\ b.include = Get(o, "includeSnapshotsFrom", << >>)
  BY DEF SchedFields, ConvertScheduleV1
<1> QED BY <1>1, FieldsOf DEF Kept

LEMMA Merged ==
    ASSUME NEW a, NEW b, IsList(a), IsList(b), NEW r, r = MergeArrays(a, b)
    PROVE  IsList(r) /\ ToSet(r) = ToSet(a) \union ToSet(b)
<1>1. PICK I : I = {i \in DOMAIN b : /\ b[i] \notin ToSet(a)
                                    /\ \A j \in 1..(i - 1) : b[j] # b[i]}
  OBVIOUS
<1>2. PICK k : k = Keep(b, I)
  OBVIOUS
<1>3. r = a \o k
  BY <1>1, <1>2, Zenon DEF MergeArrays
<1>4. IsList(k) /\ ToSet(k) = {b[i] : i \in DOMAIN b \intersect I}
  BY <1>2, KeepList, KeepSet
<1>5. IsList(r) /\ ToSet(r) = ToSet(a) \union ToSet(k)
  BY <1>3, <1>4, ListConcat
<1>6. DOMAIN b = 1..Len(b) /\ Len(b) \in Nat
  BY ListFacts
<1>7. ToSet(k) \subseteq ToSet(b)
  BY <1>4 DEF ToSet
<1>8. ASSUME NEW i \in DOMAIN b PROVE b[i] \in ToSet(a) \union ToSet(k)
  <2>1. PICK T : T = {j \in DOMAIN b : b[j] = b[i]}
    OBVIOUS
  <2>2. T \subseteq Nat /\ T # {}
    BY <2>1, <1>6
  <2>3. PICK m \in T : \A l \in T : m <= l
    BY <2>2, LeastNumber
  <2>4. m \in DOMAIN b /\ b[m] = b[i]
    BY <2>1, <2>3
  <2>5. ASSUME NEW j \in 1..(m - 1) PROVE b[j] # b[m]
    <3>1. j \in DOMAIN b /\ m \in Nat /\ j < m
      BY <1>6, <2>4
    <3> QED BY <3>1, <2>1, <2>3, <2>4
  <2>6. CASE b[m] \in ToSet(a)
    BY <2>4, <2>6
  <2>7. CASE b[m] \notin ToSet(a)
    <3>1. m \in I
      BY <1>1, <2>4, <2>5, <2>7
    <3> QED BY <3>1, <1>4, <2>4
  <2> QED BY <2>6, <2>7
<1>9. ToSet(b) \subseteq ToSet(a) \union ToSet(k)
  BY <1>8 DEF ToSet
<1> QED BY <1>5, <1>7, <1>9

LEMMA GroupNames ==
    ASSUME NEW kube, IsList(kube), NEW g, NEW r, r = GroupSnapshots(kube, g)
    PROVE  /\ IsList(r)
           /\ ToSet(r) = {kube[i].name : i \in {j \in DOMAIN kube : kube[j].group = g /\ g # Unset}}
<1>1. PICK I : I = {i \in DOMAIN kube : kube[i].group = g /\ g # Unset}
  OBVIOUS
<1>2. PICK k : k = Keep(kube, I)
  OBVIOUS
<1>3. r = [i \in DOMAIN k |-> k[i].name]
  BY <1>1, <1>2, Zenon DEF GroupSnapshots
<1>4. /\ IsList(k)
      /\ \A j \in 1..Len(k) : \E i \in 1..Len(kube) : i \in I /\ k[j] = kube[i]
      /\ \A i \in 1..Len(kube) : i \in I => \E j \in 1..Len(k) : k[j] = kube[i]
  <2>1. IsList(kube)
    OBVIOUS
  <2> QED BY <1>2, <2>1, KeepList, SMTT(60)
<1>5. DOMAIN k = 1..Len(k) /\ Len(k) \in Nat /\ DOMAIN kube = 1..Len(kube)
  BY <1>4, ListFacts
<1>6. PICK n \in Nat : n = Len(k) /\ DOMAIN k = 1..n
  BY <1>5
<1>7. IsList(r) /\ Len(r) = n
  <2>1. r = [i \in 1..n |-> k[i].name]
    BY <1>3, <1>6
  <2>2. r = [i \in 1..n |-> r[i]]
    BY <2>1
  <2> QED BY <2>2, ListFun
<1>8. DOMAIN r = 1..n /\ \A j \in 1..n : r[j] = k[j].name
  BY <1>3, <1>6
<1>9. ASSUME NEW j \in 1..n PROVE \E i \in I : r[j] = kube[i].name
  <2>1. PICK i \in 1..Len(kube) : i \in I /\ k[j] = kube[i]
    BY <1>4, <1>6
  <2> QED BY <2>1, <1>8
<1>10. ASSUME NEW i \in I PROVE \E j \in 1..n : r[j] = kube[i].name
  <2>1. i \in 1..Len(kube)
    BY <1>1, <1>5
  <2>2. PICK j \in 1..Len(k) : k[j] = kube[i]
    BY <1>4, <2>1
  <2> QED BY <2>2, <1>6, <1>8
<1>11. ToSet(r) = {kube[i].name : i \in I}
  <2>1. ToSet(r) = {r[j] : j \in 1..n}
    BY <1>8 DEF ToSet
  <2>2. ToSet(r) \subseteq {kube[i].name : i \in I}
    BY <2>1, <1>9
  <2>3. {kube[i].name : i \in I} \subseteq ToSet(r)
    BY <2>1, <1>10
  <2> QED BY <2>2, <2>3
<1> QED BY <1>1, <1>7, <1>11

\* The names of the bindings of a group.
InGroup(kube, g) == {kube[i].name : i \in {j \in DOMAIN kube : kube[j].group = g /\ g # Unset}}

\* A binding with the snapshots of its group besides its own.
Extended(kube, F, b, r) ==
    /\ \A f \in F \ {"include"} : r[f] = b[f]
    /\ IsList(r["include"])
    /\ ToSet(r["include"]) = ToSet(b["include"]) \union InGroup(kube, b["group"])

LEMMA WithGroups ==
    ASSUME NEW bs, IsList(bs), NEW kube, IsList(kube), NEW F, "include" \in F,
           \A i \in DOMAIN bs : DOMAIN bs[i] = F /\ IsList(bs[i].include),
           NEW r, r = WithGroupSnapshots(bs, kube)
    PROVE  /\ IsList(r) /\ DOMAIN r = DOMAIN bs /\ Len(r) = Len(bs)
           /\ \A i \in DOMAIN r : Extended(kube, F, bs[i], r[i])
<1>1. PICK n \in Nat : n = Len(bs) /\ DOMAIN bs = 1..n
  BY ListFacts
<1>2. r = [i \in 1..n |-> [bs[i] EXCEPT !.include =
                              MergeArrays(@, GroupSnapshots(kube, bs[i].group))]]
  BY <1>1, Zenon DEF WithGroupSnapshots
<1>3. IsList(r) /\ Len(r) = n /\ DOMAIN r = 1..n
  BY <1>2, ListFun
<1>4. ASSUME NEW i \in 1..n PROVE Extended(kube, F, bs[i], r[i])
  <2>1. PICK b : b = bs[i]
    OBVIOUS
  <2>2. PICK g : g = GroupSnapshots(kube, b.group)
    OBVIOUS
  <2>3. PICK m : m = MergeArrays(b.include, g)
    OBVIOUS
  <2>4. r[i] = [b EXCEPT !.include = m]
    BY <1>2, <2>1, <2>2, <2>3
  <2>5. DOMAIN b = F /\ IsList(b.include)
    BY <1>1, <2>1
  <2>6. (\A f \in F \ {"include"} : r[i][f] = b[f]) /\ r[i]["include"] = m
    BY <2>4, <2>5
  <2>7. IsList(g) /\ ToSet(g) = InGroup(kube, b.group)
    BY <2>2, GroupNames DEF InGroup
  <2>8. IsList(m) /\ ToSet(m) = ToSet(b.include) \union ToSet(g)
    BY <2>3, <2>5, <2>7, Merged
  <2> QED BY <2>1, <2>6, <2>7, <2>8 DEF Extended
<1> QED BY <1>1, <1>3, <1>4

LEMMA IncludesNamed ==
    ASSUME NEW names, NEW kube, CheckIncludeSnapshots(names, kube)
    PROVE  ToSet(names) \subseteq {kube[i].name : i \in DOMAIN kube}
<1>1. ASSUME NEW i \in DOMAIN names PROVE \E j \in DOMAIN kube : kube[j].name = names[i]
  <2>1. PICK S : S = {j \in DOMAIN kube : kube[j].name = names[i]}
    OBVIOUS
  <2>2. Cardinality(S) = 1
    BY <2>1 DEF CheckIncludeSnapshots
  <2>3. S # {}
    BY <2>2, FS_EmptySet
  <2> QED BY <2>1, <2>3
<1> QED BY <1>1 DEF ToSet

\* Converted, with the conversion left open.
LEMMA ConvertedKube ==
    ASSUME NEW o, Typed(o), SchemaV1(o), NEW kube,
           kube = Converted(o, "kubernetes", ConvertKubernetesV1)
    PROVE  /\ IsList(kube) /\ Len(kube) <= MaxBindings
           /\ DOMAIN kube = DOMAIN Get(o, "kubernetes", << >>)
           /\ \A i \in DOMAIN kube : /\ "kubernetes" \in DOMAIN o
                                     /\ Get(o, "kubernetes", << >>) = o["kubernetes"]
                                     /\ DOMAIN kube[i] = KubeFields
                                     /\ Kept(o["kubernetes"][i], "kubernetes", kube[i])
                                     /\ AskedKube(o["kubernetes"][i], kube[i])
<1>1. PICK items : items = Get(o, "kubernetes", << >>)
  OBVIOUS
<1>2. WellTyped(o) /\ Array(o, "kubernetes", KubernetesSchema)
  BY DEF SchemaV1, Object
<1>3. /\ IsList(items) /\ Len(items) <= MaxBindings
      /\ \A i \in DOMAIN items : /\ "kubernetes" \in DOMAIN o /\ items = o["kubernetes"]
                                 /\ TypedBinding(o["kubernetes"][i])
  BY <1>1, <1>2, ItemsOf DEF Bindings
<1>4. kube = [i \in DOMAIN items |-> ConvertKubernetesV1(items[i])]
  BY <1>1, Zenon DEF Converted
<1>5. PICK n \in Nat : n = Len(items) /\ DOMAIN items = 1..n
  BY <1>3, ListFacts
<1>6. IsList(kube) /\ Len(kube) = n /\ DOMAIN kube = DOMAIN items
  BY <1>4, <1>5, ListFun
<1>7. ASSUME NEW i \in DOMAIN items
      PROVE  /\ DOMAIN kube[i] = KubeFields
             /\ Kept(items[i], "kubernetes", kube[i])
             /\ AskedKube(items[i], kube[i])
  <2>1. TypedBinding(items[i])
    BY <1>3
  <2>2. WellTyped(items[i])
    BY <1>2, <1>3 DEF Array, KubernetesSchema, Object
  <2>3. kube[i] = ConvertKubernetesV1(items[i])
    BY <1>4
  <2> QED BY <2>1, <2>2, <2>3, KubernetesV1
<1> QED BY <1>1, <1>3, <1>5, <1>6, <1>7

LEMMA ConvertedSchedule ==
    ASSUME NEW o, Typed(o), SchemaV1(o), NEW sched,
           sched = Converted(o, "schedule", ConvertScheduleV1)
    PROVE  /\ IsList(sched)
           /\ \A i \in DOMAIN sched : /\ "schedule" \in DOMAIN o
                                      /\ Get(o, "schedule", << >>) = o["schedule"]
                                      /\ DOMAIN sched[i] = SchedFields
                                      /\ Kept(o["schedule"][i], "schedule", sched[i])
<1>1. PICK items : items = Get(o, "schedule", << >>)
  OBVIOUS
<1>2. WellTyped(o) /\ Array(o, "schedule", ScheduleSchema)
  BY DEF SchemaV1, Object
<1>3. /\ IsList(items)
      /\ \A i \in DOMAIN items : /\ "schedule" \in DOMAIN o /\ items = o["schedule"]
                                 /\ TypedBinding(o["schedule"][i])
  BY <1>1, <1>2, ItemsOf DEF Bindings
<1>4. sched = [i \in DOMAIN items |-> ConvertScheduleV1(items[i])]
  BY <1>1, Zenon DEF Converted
<1>5. PICK n \in Nat : n = Len(items) /\ DOMAIN items = 1..n
  BY <1>3, ListFacts
<1>6. IsList(sched) /\ Len(sched) = n /\ DOMAIN sched = DOMAIN items
  BY <1>4, <1>5, ListFun
<1>7. ASSUME NEW i \in DOMAIN items
      PROVE  DOMAIN sched[i] = SchedFields /\ Kept(items[i], "schedule", sched[i])
  <2>1. TypedBinding(items[i])
    BY <1>3
  <2>2. WellTyped(items[i])
    BY <1>2, <1>3 DEF Array, ScheduleSchema, Object
  <2>3. sched[i] = ConvertScheduleV1(items[i])
    BY <1>4
  <2> QED BY <2>1, <2>2, <2>3, ScheduleV1
<1> QED BY <1>1, <1>3, <1>5, <1>6, <1>7

\* The names a group stands for are the names its bindings were given.
LEMMA GroupWanted ==
    ASSUME NEW r, Typed(r), SchemaV1(r), NEW kube,
           kube = Converted(r, "kubernetes", ConvertKubernetesV1),
           NEW o, NEW kind, NEW b, Kept(o, kind, b)
    PROVE  ToSet(b["include"]) \union InGroup(kube, b["group"]) = WantedOf(r, o)
<1>1. /\ DOMAIN kube = DOMAIN Get(r, "kubernetes", << >>)
      /\ \A i \in DOMAIN kube : /\ Get(r, "kubernetes", << >>) = r["kubernetes"]
                                /\ Kept(r["kubernetes"][i], "kubernetes", kube[i])
  BY ConvertedKube
<1>2. PICK raws : raws = Get(r, "kubernetes", << >>)
  OBVIOUS
<1>3. /\ DOMAIN kube = DOMAIN raws
      /\ \A i \in DOMAIN raws : /\ kube[i].name = NameOr(raws[i], "kubernetes")
                                /\ kube[i].group = Get(raws[i], "group", Unset)
  BY <1>1, <1>2 DEF Kept
<1>4. PICK g : g = b.group
  OBVIOUS
<1>5. g = Get(o, "group", Unset) /\ b.include = Get(o, "includeSnapshotsFrom", << >>)
  BY <1>4 DEF Kept
<1>6. PICK I : I = {j \in DOMAIN kube : kube[j].group = g /\ g # Unset}
  OBVIOUS
<1>7. I = {i \in DOMAIN raws : /\ Get(raws[i], "group", Unset) # Unset
                               /\ Get(raws[i], "group", Unset) = g}
  BY <1>3, <1>6
<1>8. {kube[i].name : i \in I} = {NameOr(raws[i], "kubernetes") : i \in I}
  BY <1>3, <1>7
<1>9. WantedOf(r, o) = ToSet(b.include) \union {NameOr(raws[i], "kubernetes") : i \in I}
  BY <1>2, <1>5, <1>7, Zenon DEF WantedOf
<1>10. InGroup(kube, g) = {kube[i].name : i \in I}
  BY <1>6 DEF InGroup
<1> QED BY <1>4, <1>8, <1>9, <1>10

LEMMA GroupSubset ==
    ASSUME NEW kube, NEW g
    PROVE  InGroup(kube, g) \subseteq {kube[i].name : i \in DOMAIN kube}
<1> QED BY DEF InGroup

\* What a binding is after its group was added.
LEMMA ExtendedOK ==
    ASSUME NEW r, Typed(r), SchemaV1(r), NEW kube,
           kube = Converted(r, "kubernetes", ConvertKubernetesV1),
           NEW o, NEW kind, NEW b, Kept(o, kind, b), CheckIncludeSnapshots(b.include, kube),
           NEW F, {"name", "group", "queue", "include"} \subseteq F, NEW x, Extended(kube, F, b, x),
           NEW c, SnapshotNames(c) = {kube[i].name : i \in DOMAIN kube}
    PROVE  BindingOK(c, x) /\ Asked(r, o, kind, x)
<1>1. /\ x["name"] = b["name"] /\ x["group"] = b["group"] /\ x["queue"] = b["queue"]
      /\ IsList(x["include"])
      /\ ToSet(x["include"]) = ToSet(b["include"]) \union InGroup(kube, b["group"])
  BY DEF Extended
<1>2. /\ b.name = NameOr(o, kind)
      /\ b.group = Get(o, "group", Unset)
      /\ b.queue = QueueOrMain(o) /\ b.queue \in Queue
  BY DEF Kept
<1>3. ToSet(b["include"]) \union InGroup(kube, b["group"]) = WantedOf(r, o)
  BY GroupWanted
<1>4. ToSet(b["include"]) \subseteq SnapshotNames(c)
  BY IncludesNamed
<1>5. InGroup(kube, b["group"]) \subseteq SnapshotNames(c)
  BY GroupSubset
<1>6. BindingOK(c, x)
  BY <1>1, <1>2, <1>4, <1>5 DEF BindingOK
<1>7. Asked(r, o, kind, x)
  BY <1>1, <1>2, <1>3 DEF Asked
<1> QED BY <1>6, <1>7

LEMMA GoodV1 ==
    ASSUME NEW o, Typed(o), SchemaV1(o), CheckV1(o), NEW c, c = ConvertV1(o),
           \A S \in SUBSET SnapshotNames(c) : Nil \notin [S -> [of : Nat, ver : Nat]]
    PROVE  GoodConfig(o, c)
<1>1. PICK kube : kube = Converted(o, "kubernetes", ConvertKubernetesV1)
  OBVIOUS
<1>2. PICK sched : sched = Converted(o, "schedule", ConvertScheduleV1)
  OBVIOUS
<1>3. PICK k : k = WithGroupSnapshots(kube, kube)
  OBVIOUS
<1>4. PICK s : s = WithGroupSnapshots(sched, kube)
  OBVIOUS
<1>5. c.version = "v1" /\ c.schedule = s /\ c.kubernetes = k
  BY <1>1, <1>2, <1>3, <1>4 DEF ConvertV1
<1>6. /\ IsList(kube) /\ Len(kube) <= MaxBindings
      /\ DOMAIN kube = DOMAIN Get(o, "kubernetes", << >>)
      /\ \A i \in DOMAIN kube : /\ DOMAIN kube[i] = KubeFields
                                /\ Kept(o["kubernetes"][i], "kubernetes", kube[i])
                                /\ AskedKube(o["kubernetes"][i], kube[i])
  BY <1>1, ConvertedKube
<1>7. /\ IsList(sched)
      /\ \A i \in DOMAIN sched : /\ DOMAIN sched[i] = SchedFields
                                 /\ Kept(o["schedule"][i], "schedule", sched[i])
  BY <1>2, ConvertedSchedule
<1>8. /\ \A i \in DOMAIN kube : CheckIncludeSnapshots(kube[i].include, kube)
      /\ \A i \in DOMAIN sched : CheckIncludeSnapshots(sched[i].include, kube)
  BY <1>1, <1>2, Zenon DEF CheckV1
<1>9. PICK F : F = KubeFields
  OBVIOUS
<1>10. PICK G : G = SchedFields
  OBVIOUS
<1>11. /\ IsList(k) /\ DOMAIN k = DOMAIN kube /\ Len(k) = Len(kube)
       /\ \A i \in DOMAIN k : Extended(kube, F, kube[i], k[i])
  <2>1. "include" \in F /\ \A i \in DOMAIN kube : DOMAIN kube[i] = F /\ IsList(kube[i].include)
    BY <1>6, <1>9 DEF KubeFields, Kept
  <2> QED BY <1>3, <1>6, <2>1, WithGroups
<1>12. /\ IsList(s) /\ DOMAIN s = DOMAIN sched
       /\ \A i \in DOMAIN s : Extended(kube, G, sched[i], s[i])
  <2>1. "include" \in G /\ \A i \in DOMAIN sched : DOMAIN sched[i] = G /\ IsList(sched[i].include)
    BY <1>7, <1>10 DEF SchedFields, Kept
  <2> QED BY <1>4, <1>6, <1>7, <2>1, WithGroups
<1>13. SnapshotNames(c) = {kube[i].name : i \in DOMAIN kube}
  <2>1. \A i \in DOMAIN k : k[i]["name"] = kube[i]["name"]
    BY <1>9, <1>11 DEF Extended, KubeFields
  <2> QED BY <1>5, <1>11, <2>1 DEF SnapshotNames
<1>14. ASSUME NEW i \in DOMAIN k
       PROVE  /\ BindingOK(c, k[i])
              /\ Asked(o, o.kubernetes[i], "kubernetes", k[i])
              /\ AskedKube(o.kubernetes[i], k[i])
  <2>1. PICK b : b = kube[i]
    OBVIOUS
  <2>2. PICK p : p = o["kubernetes"][i]
    OBVIOUS
  <2>3. PICK x : x = k[i]
    OBVIOUS
  <2>4. Extended(kube, F, b, x) /\ Kept(p, "kubernetes", b) /\ CheckIncludeSnapshots(b.include, kube)
    BY <1>6, <1>8, <1>11, <2>1, <2>2, <2>3
  <2>5. {"name", "group", "queue", "include"} \subseteq F
    BY <1>9 DEF KubeFields
  <2>6. BindingOK(c, x) /\ Asked(o, p, "kubernetes", x)
    BY <1>1, <1>13, <2>4, <2>5, ExtendedOK
  <2>7. AskedKube(p, b)
    BY <1>6, <1>11, <2>1, <2>2
  <2>8. x["sync"] = b["sync"] /\ x["full"] = b["full"] /\ x["events"] = b["events"]
    BY <1>9, <2>4 DEF Extended, KubeFields
  <2>9. AskedKube(p, x)
    BY <2>7, <2>8 DEF AskedKube
  <2> QED BY <2>2, <2>3, <2>6, <2>9
<1>15. ASSUME NEW i \in DOMAIN s
       PROVE  BindingOK(c, s[i]) /\ Asked(o, o.schedule[i], "schedule", s[i])
  <2>1. PICK b : b = sched[i]
    OBVIOUS
  <2>2. PICK p : p = o["schedule"][i]
    OBVIOUS
  <2>3. PICK x : x = s[i]
    OBVIOUS
  <2>4. Extended(kube, G, b, x) /\ Kept(p, "schedule", b) /\ CheckIncludeSnapshots(b.include, kube)
    BY <1>7, <1>8, <1>12, <2>1, <2>2, <2>3
  <2>5. {"name", "group", "queue", "include"} \subseteq G
    BY <1>10 DEF SchedFields
  <2>6. BindingOK(c, x) /\ Asked(o, p, "schedule", x)
    BY <1>1, <1>13, <2>4, <2>5, ExtendedOK
  <2> QED BY <2>2, <2>3, <2>6
<1> QED BY <1>5, <1>6, <1>11, <1>12, <1>14, <1>15 DEF GoodConfig

LEMMA GoodV0 ==
    ASSUME NEW o, Typed(o), SchemaV0(o), NEW c, c = ConvertV0(o),
           \A S \in SUBSET SnapshotNames(c) : Nil \notin [S -> [of : Nat, ver : Nat]]
    PROVE  GoodConfig(o, c)
<1>1. PICK kube : kube = Converted(o, "onKubernetesEvent", ConvertKubernetesV0)
  OBVIOUS
<1>2. PICK sched : sched = Converted(o, "schedule", ConvertScheduleV0)
  OBVIOUS
<1>3. c.version = "v0" /\ c.schedule = sched /\ c.kubernetes = kube
  BY <1>1, <1>2 DEF ConvertV0
<1>4. WellTyped(o)
  BY DEF SchemaV0, Object
<1>5. PICK ks : ks = Get(o, "onKubernetesEvent", << >>)
  OBVIOUS
<1>6. PICK ss : ss = Get(o, "schedule", << >>)
  OBVIOUS
<1>7. IsList(ks) /\ Len(ks) <= MaxBindings /\ IsList(ss)
  BY <1>4, <1>5, <1>6, ItemsOf DEF Bindings
<1>8. kube = [i \in DOMAIN ks |-> ConvertKubernetesV0(ks[i])]
  BY <1>1, <1>5, Zenon DEF Converted
<1>9. sched = [i \in DOMAIN ss |-> ConvertScheduleV0(ss[i])]
  BY <1>2, <1>6, Zenon DEF Converted
<1>10. PICK n \in Nat : n = Len(ks) /\ DOMAIN ks = 1..n
  BY <1>7, ListFacts
<1>11. PICK m \in Nat : m = Len(ss) /\ DOMAIN ss = 1..m
  BY <1>7, ListFacts
<1>12. IsList(kube) /\ Len(kube) = n /\ DOMAIN kube = 1..n
  BY <1>8, <1>10, ListFun
<1>13. IsList(sched) /\ Len(sched) = m /\ DOMAIN sched = 1..m
  BY <1>9, <1>11, ListFun
<1>14. "main" \in Queue
  BY HookRunsAssumption
<1>15. ASSUME NEW i \in 1..n PROVE BindingOK(c, kube[i])
  <2>1. kube[i] = ConvertKubernetesV0(ks[i])
    BY <1>8, <1>10
  <2>2. kube[i].include = << >> /\ kube[i].queue = "main"
    BY <2>1 DEF ConvertKubernetesV0
  <2> QED BY <1>14, <2>2, ListEmpty DEF BindingOK
<1>16. ASSUME NEW i \in 1..m PROVE BindingOK(c, sched[i])
  <2>1. sched[i] = ConvertScheduleV0(ss[i])
    BY <1>9, <1>11
  <2>2. sched[i].include = << >> /\ sched[i].queue = "main"
    BY <2>1 DEF ConvertScheduleV0
  <2> QED BY <1>14, <2>2, ListEmpty DEF BindingOK
<1>17. Len(kube) <= MaxBindings
  BY <1>7, <1>10, <1>12
<1> QED BY <1>3, <1>12, <1>13, <1>15, <1>16, <1>17 DEF GoodConfig

LEMMA AcceptedGood ==
    ASSUME NEW h \in Hook, NEW o \in Printed[h], Accepted(o), NEW c, c = LoadAndValidate(o)
    PROVE  GoodConfig(o, c)
<1>1. Typed(o)
  BY PrintedAssumption
<1>2. \A S \in SUBSET SnapshotNames(c) : Nil \notin [S -> [of : Nat, ver : Nat]]
  BY PrintedAssumption
<1>3. CASE ConfigVersion(o) = "v0"
  <2>1. SchemaV0(o) /\ CheckV0(o)
    BY <1>3 DEF Accepted
  <2>2. c = ConvertV0(o)
    BY <1>3 DEF LoadAndValidate
  <2> QED BY <1>1, <1>2, <2>1, <2>2, GoodV0
<1>4. CASE ConfigVersion(o) # "v0"
  <2>1. ConfigVersion(o) = "v1" /\ SchemaV1(o) /\ CheckV1(o)
    BY <1>4 DEF Accepted
  <2>2. c = ConvertV1(o)
    BY <1>4 DEF LoadAndValidate
  <2> QED BY <1>1, <1>2, <2>1, <2>2, GoodV1
<1> QED BY <1>3, <1>4

-----------------------------------------------------------------------------
(* Queues and workers, as monitors are made, caches change and tasks come. *)

LEMMA MadeGrows ==
    ASSUME NEW c, NEW mon, NEW mon2, mon \subseteq mon2, NEW h, AllMade(c, mon, h)
    PROVE  AllMade(c, mon2, h)
<1> QED BY DEF AllMade

LEMMA QueueGrows ==
    ASSUME NEW c, NEW mon, NEW mon2, mon \subseteq mon2, NEW q, NEW s,
           QueueOK(c, mon, q, s)
    PROVE  QueueOK(c, mon2, q, s)
<1>1. ASSUME NEW k \in 1..Len(s), RunReady(c, mon, s[k]) PROVE RunReady(c, mon2, s[k])
  BY <1>1, MadeGrows DEF RunReady
<1>2. ASSUME NEW k \in 1..Len(s), AllMade(c, mon, s[k].hook) PROVE AllMade(c, mon2, s[k].hook)
  BY <1>2, MadeGrows
<1> QED BY <1>1, <1>2 DEF QueueOK

\* Tasks that run hooks, for bindings whose monitors were made.
RunsOK(c, mon, q, u) ==
    /\ IsList(u)
    /\ \A k \in 1..Len(u) : u[k].kind = "HookRun" /\ TaskOK(c, q, u[k]) /\ RunReady(c, mon, u[k])

LEMMA QueueAppend ==
    ASSUME NEW c, NEW mon, NEW q, NEW s, QueueOK(c, mon, q, s),
           NEW u, RunsOK(c, mon, q, u), NEW r, r = s \o u
    PROVE  QueueOK(c, mon, q, r)
<1>1. IsList(s) /\ IsList(u)
  BY DEF QueueOK, RunsOK
<1>2. Len(s) \in Nat /\ Len(u) \in Nat
  BY <1>1, ListFacts
<1>3. /\ IsList(r) /\ Len(r) = Len(s) + Len(u)
      /\ \A i \in 1..Len(s) : r[i] = s[i]
      /\ \A i \in 1..(Len(s) + Len(u)) :
            \/ i \in 1..Len(s)
            \/ i - Len(s) \in 1..Len(u) /\ r[i] = u[i - Len(s)]
  BY <1>1, ListConcat
<1>4. ASSUME NEW k \in 1..Len(r), k \notin 1..Len(s)
      PROVE  r[k].kind = "HookRun" /\ TaskOK(c, q, r[k]) /\ RunReady(c, mon, r[k])
  BY <1>3, <1>4 DEF RunsOK
<1>5. ASSUME NEW k \in 1..Len(r) PROVE TaskOK(c, q, r[k]) /\ RunReady(c, mon, r[k])
  <2>1. CASE k \in 1..Len(s)
    BY <1>3, <2>1 DEF QueueOK
  <2> QED BY <1>4, <2>1
<1>6. ASSUME NEW k \in 1..Len(r), r[k].kind = "EnableSchedule"
      PROVE  \/ AllMade(c, mon, r[k].hook)
             \/ \E j \in 1..(k - 1) : Enables(r[j], "EnableKubernetes", r[k].hook)
  <2>1. k \in 1..Len(s)
    BY <1>4, <1>6
  <2>2. r[k] = s[k]
    BY <1>3, <2>1
  <2>3. CASE AllMade(c, mon, s[k].hook)
    BY <2>2, <2>3
  <2>4. CASE \E j \in 1..(k - 1) : Enables(s[j], "EnableKubernetes", s[k].hook)
    <3>1. PICK j \in 1..(k - 1) : Enables(s[j], "EnableKubernetes", s[k].hook)
      BY <2>4
    <3>2. j \in 1..Len(s)
      BY <1>2, <2>1
    <3> QED BY <1>3, <2>2, <3>1, <3>2
  <2> QED BY <1>6, <2>1, <2>2, <2>3, <2>4 DEF QueueOK
<1> QED BY <1>3, <1>5, <1>6 DEF QueueOK

\* A worker takes its task and puts tasks in its place.
LEMMA QueueFinish ==
    ASSUME NEW c, NEW mon, NEW q, NEW s, QueueOK(c, mon, q, s), s # << >>,
           NEW u, RunsOK(c, mon, q, u),
           s[1].kind = "EnableKubernetes" => AllMade(c, mon, s[1].hook),
           NEW r, r = u \o Tail(s)
    PROVE  QueueOK(c, mon, q, r)
<1>1. IsList(s) /\ IsList(u)
  BY DEF QueueOK, RunsOK
<1>2. PICK t : t = Tail(s)
  OBVIOUS
<1>3. /\ IsList(t) /\ Len(t) = Len(s) - 1 /\ Len(s) >= 1
      /\ \A i \in 1..(Len(s) - 1) : t[i] = s[i + 1]
  BY <1>1, <1>2, ListTail
<1>4. Len(s) \in Nat /\ Len(u) \in Nat
  BY <1>1, ListFacts
<1>5. /\ IsList(r) /\ Len(r) = Len(u) + Len(t)
      /\ \A i \in 1..Len(u) : r[i] = u[i]
      /\ \A i \in 1..Len(t) : r[Len(u) + i] = t[i]
      /\ \A i \in 1..(Len(u) + Len(t)) :
            \/ i \in 1..Len(u)
            \/ i - Len(u) \in 1..Len(t) /\ r[i] = t[i - Len(u)]
  BY <1>1, <1>2, <1>3, ListConcat
<1>6. ASSUME NEW k \in 1..Len(s), k # 1
      PROVE  Len(u) + (k - 1) \in 1..Len(r) /\ r[Len(u) + (k - 1)] = s[k]
  <2>1. k - 1 \in 1..Len(t)
    BY <1>3, <1>4, <1>6
  <2>2. t[k - 1] = s[k]
    BY <1>3, <2>1
  <2> QED BY <1>4, <1>5, <2>1, <2>2
<1>7. ASSUME NEW k \in 1..Len(r), k \notin 1..Len(u)
      PROVE  \E i \in 1..Len(s) : i # 1 /\ k = Len(u) + (i - 1) /\ r[k] = s[i]
  <2>1. k - Len(u) \in 1..Len(t) /\ r[k] = t[k - Len(u)]
    BY <1>5, <1>7
  <2>2. PICK i \in 1..Len(s) : i = (k - Len(u)) + 1
    BY <1>3, <1>4, <2>1
  <2>3. i # 1 /\ k = Len(u) + (i - 1)
    BY <1>4, <2>1, <2>2
  <2>4. r[k] = s[i]
    BY <1>6, <2>2, <2>3
  <2> QED BY <2>3, <2>4
<1>8. ASSUME NEW k \in 1..Len(u)
      PROVE  r[k].kind = "HookRun" /\ TaskOK(c, q, r[k]) /\ RunReady(c, mon, r[k])
  BY <1>5 DEF RunsOK
<1>9. ASSUME NEW k \in 1..Len(r) PROVE TaskOK(c, q, r[k]) /\ RunReady(c, mon, r[k])
  BY <1>7, <1>8 DEF QueueOK
<1>10. ASSUME NEW k \in 1..Len(r), r[k].kind = "EnableSchedule"
       PROVE  \/ AllMade(c, mon, r[k].hook)
              \/ \E j \in 1..(k - 1) : Enables(r[j], "EnableKubernetes", r[k].hook)
  <2>1. PICK i \in 1..Len(s) : i # 1 /\ k = Len(u) + (i - 1) /\ r[k] = s[i]
    BY <1>7, <1>8, <1>10
  <2>2. CASE AllMade(c, mon, s[i].hook)
    BY <2>1, <2>2
  <2>3. CASE \E j \in 1..(i - 1) : Enables(s[j], "EnableKubernetes", s[i].hook)
    <3>1. PICK j \in 1..(i - 1) : Enables(s[j], "EnableKubernetes", s[i].hook)
      BY <2>3
    <3>2. j \in 1..Len(s)
      BY <1>4
    <3>3. CASE j = 1
      <4>1. AllMade(c, mon, s[i].hook)
        BY <3>1, <3>3 DEF Enables
      <4> QED BY <2>1, <4>1
    <3>4. CASE j # 1
      <4>1. r[Len(u) + (j - 1)] = s[j]
        BY <1>6, <3>2, <3>4
      <4>2. Len(u) + (j - 1) \in 1..(k - 1)
        BY <1>4, <2>1, <3>2, <3>4
      <4> QED BY <2>1, <3>1, <4>1, <4>2
    <3> QED BY <3>3, <3>4
  <2> QED BY <1>10, <2>1, <2>2, <2>3 DEF QueueOK
<1> QED BY <1>5, <1>9, <1>10 DEF QueueOK

\* A cache only ever gets newer.
Newer(ca, ca2) ==
    /\ ca \in [Monitor -> 0..MaxChanges] /\ ca2 \in [Monitor -> 0..MaxChanges]
    /\ \A m \in Monitor : ca[m] <= ca2[m]

LEMMA CacheNumbers ==
    ASSUME NEW ca \in [Monitor -> 0..MaxChanges]
    PROVE  \A m \in Monitor : ca[m] \in Nat /\ ca[m] <= MaxChanges
<1> QED BY HookRunsAssumption

LEMMA SinceNewer ==
    ASSUME NEW ca, NEW ca2, Newer(ca, ca2), NEW since, SinceOK(ca, since)
    PROVE  SinceOK(ca2, since)
<1>1. \A m \in Monitor : ca[m] \in Nat /\ ca2[m] \in Nat /\ ca[m] <= ca2[m]
  BY CacheNumbers DEF Newer
<1>2. ASSUME NEW m \in Monitor PROVE since[m] <= ca2[m]
  <2>1. since[m] \in Nat /\ since[m] <= ca[m]
    BY DEF SinceOK
  <2> QED BY <1>1, <2>1
<1> QED BY <1>2 DEF SinceOK

LEMMA SnapNewer ==
    ASSUME NEW c, NEW ca, NEW ca2, Newer(ca, ca2), NEW since, NEW h, NEW snap,
           SnapOK(c, ca, since, h, snap)
    PROVE  SnapOK(c, ca2, since, h, snap)
<1>1. \A m \in Monitor : ca[m] \in Nat /\ ca2[m] \in Nat /\ ca[m] <= ca2[m]
  BY CacheNumbers DEF Newer
<1>2. ASSUME NEW n \in DOMAIN snap PROVE snap[n].ver <= ca2[<<h, snap[n].of>>]
  <2>1. PICK m : m = <<h, snap[n].of>>
    OBVIOUS
  <2>2. m \in Monitor /\ snap[n].ver <= ca[m] /\ snap[n] \in [of : Nat, ver : Nat]
    BY <2>1 DEF SnapOK
  <2>3. snap[n].ver \in Nat
    BY <2>2
  <2> QED BY <1>1, <2>1, <2>2, <2>3
<1> QED BY <1>2 DEF SnapOK

\* What others do does not disturb a worker as long as its task stays.
LEMMA WorkGrows ==
    ASSUME NEW c, NEW mon, NEW mon2, mon \subseteq mon2, NEW ca, NEW ca2, Newer(ca, ca2),
           NEW s, NEW s2, s # << >> => s2 # << >> /\ s2[1] = s[1],
           NEW w, WorkOK(c, mon, ca, s, w)
    PROVE  WorkOK(c, mon2, ca2, s2, w)
<1>1. CASE w = Idle
  BY <1>1 DEF WorkOK
<1>2. CASE w.at = "panic"
  BY <1>2 DEF WorkOK
<1>3. CASE s # << >> /\ w.at = "add" /\ AddOK(c, mon, s[1], w)
  <2>1. AddOK(c, mon2, s2[1], w)
    BY <1>3 DEF AddOK
  <2> QED BY <1>3, <2>1 DEF WorkOK
<1>4. CASE s # << >> /\ w.at = "link" /\ LinkOK(c, s[1], w)
  BY <1>4 DEF WorkOK
<1>5. CASE s # << >> /\ w.at = "refresh" /\ RefreshOK(c, ca, s[1], w)
  <2>1. SinceOK(ca2, w.since)
    BY <1>5, SinceNewer DEF RefreshOK
  <2>2. SnapOK(c, ca2, w.since, s[1].hook, w.snap)
    BY <1>5, SnapNewer DEF RefreshOK
  <2>3. RefreshOK(c, ca2, s2[1], w)
    BY <1>5, <2>1, <2>2 DEF RefreshOK
  <2> QED BY <1>5, <2>3 DEF WorkOK
<1>6. CASE s # << >> /\ w.at = "hook" /\ HookOK(c, ca, s[1], w)
  <2>1. SinceOK(ca2, w.since)
    BY <1>6, SinceNewer DEF HookOK
  <2>2. PICK t : t = s[1]
    OBVIOUS
  <2>3. PICK S \in SUBSET SnapshotNames(c[t.hook]) :
           \E snap \in [S -> [of : DOMAIN c[t.hook].kubernetes, ver : 0..MaxChanges]] :
             /\ DOMAIN snap = ToSet(SnapshotsOf(c[t.hook], t.ctx.kind, t.ctx.binding))
             /\ SnapOK(c, ca, w.since, t.hook, snap)
             /\ w.file = ConvertBindingContext(c[t.hook].version, [t.ctx EXCEPT !.snap = snap])
    BY <1>6, <2>2 DEF HookOK
  <2>4. PICK snap \in [S -> [of : DOMAIN c[t.hook].kubernetes, ver : 0..MaxChanges]] :
             /\ DOMAIN snap = ToSet(SnapshotsOf(c[t.hook], t.ctx.kind, t.ctx.binding))
             /\ SnapOK(c, ca, w.since, t.hook, snap)
             /\ w.file = ConvertBindingContext(c[t.hook].version, [t.ctx EXCEPT !.snap = snap])
    BY <2>3
  <2>5. SnapOK(c, ca2, w.since, t.hook, snap)
    BY <2>4, SnapNewer
  <2>6. t.kind = "HookRun" /\ w.file # Nil
    BY <1>6, <2>2 DEF HookOK
  <2>7. HookOK(c, ca2, t, w)
    BY <2>1, <2>3, <2>4, <2>5, <2>6 DEF HookOK
  <2> QED BY <1>6, <2>2, <2>7 DEF WorkOK
<1> QED BY <1>1, <1>2, <1>3, <1>4, <1>5, <1>6 DEF WorkOK

LEMMA NewerRefl ==
    ASSUME NEW ca \in [Monitor -> 0..MaxChanges]
    PROVE  Newer(ca, ca)
<1>1. \A m \in Monitor : ca[m] <= ca[m]
  BY CacheNumbers
<1> QED BY <1>1 DEF Newer

-----------------------------------------------------------------------------
(* The invariant holds at the start and is kept by every step.             *)

LEMMA InitInv == Init => IInv
<1> SUFFICES ASSUME Init PROVE IInv
  OBVIOUS
<1> USE DEF Init
<1>1. ConfigInv
  BY DEF ConfigInv
<1>2. StartInv
  BY DEF StartInv
<1>3. LinkInv
  BY FS_EmptySet DEF LinkInv
<1>4. CacheInv
  <2>1. 0 \in 0..MaxChanges
    BY HookRunsAssumption
  <2> QED BY <2>1 DEF CacheInv
<1>5. QueueInv
  <2>1. \A q \in Queue : queues[q] = << >> /\ IsList(queues[q]) /\ Len(queues[q]) = 0
    BY ListEmpty
  <2> QED BY <2>1 DEF QueueInv, QueueOK
<1>6. WorkInv
  BY DEF WorkInv, WorkOK
<1> QED BY <1>1, <1>2, <1>3, <1>4, <1>5, <1>6 DEF IInv

\* Workers have something to do only once all hooks were loaded.
LEMMA Up ==
    ASSUME IInv, NEW q \in Queue, queues[q] # << >> \/ work[q] # Idle
    PROVE  /\ stage = "up" /\ DOMAIN config = Hook
           /\ \A h \in Hook : GoodConfig(raw[h], config[h])
<1>1. stage = "up"
  BY DEF IInv, StartInv
<1> QED BY <1>1 DEF IInv, ConfigInv

LEMMA BindingsUp ==
    ASSUME IInv, monitors # {} \/ scheduleLinks # {}
    PROVE  /\ stage = "up" /\ DOMAIN config = Hook
           /\ \A h \in Hook : GoodConfig(raw[h], config[h])
<1>1. stage = "up"
  BY DEF IInv, StartInv
<1> QED BY <1>1 DEF IInv, ConfigInv

\* The task a worker has begun.
LEMMA Current ==
    ASSUME IInv, NEW q \in Queue, work[q].at \in {"add", "link", "refresh", "hook"}
    PROVE  /\ queues[q] # << >> /\ IsList(queues[q]) /\ work[q] # Idle
           /\ Head(queues[q]) = queues[q][1]
           /\ TaskOK(config, q, queues[q][1]) /\ RunReady(config, monitors, queues[q][1])
           /\ queues[q][1].hook \in Hook
           /\ work[q].at = "add" => AddOK(config, monitors, queues[q][1], work[q])
           /\ work[q].at = "link" => LinkOK(config, queues[q][1], work[q])
           /\ work[q].at = "refresh" => RefreshOK(config, cache, queues[q][1], work[q])
           /\ work[q].at = "hook" => HookOK(config, cache, queues[q][1], work[q])
<1>1. WorkOK(config, monitors, cache, queues[q], work[q])
  BY DEF IInv, WorkInv
<1>2. work[q] # Idle
  BY DEF Idle
<1>3. /\ queues[q] # << >>
      /\ work[q].at = "add" => AddOK(config, monitors, queues[q][1], work[q])
      /\ work[q].at = "link" => LinkOK(config, queues[q][1], work[q])
      /\ work[q].at = "refresh" => RefreshOK(config, cache, queues[q][1], work[q])
      /\ work[q].at = "hook" => HookOK(config, cache, queues[q][1], work[q])
  BY <1>1, <1>2 DEF WorkOK
<1>4. QueueOK(config, monitors, q, queues[q])
  BY DEF IInv, QueueInv
<1>5. IsList(queues[q])
  BY <1>4 DEF QueueOK
<1>6. Head(queues[q]) = queues[q][1] /\ Len(queues[q]) >= 1 /\ Len(queues[q]) \in Nat
  BY <1>3, <1>5, ListTail, ListFacts
<1>7. TaskOK(config, q, queues[q][1]) /\ RunReady(config, monitors, queues[q][1])
  BY <1>4, <1>6 DEF QueueOK
<1>8. queues[q][1].hook \in Hook
  BY <1>7 DEF TaskOK
<1> QED BY <1>2, <1>3, <1>5, <1>6, <1>7, <1>8

\* A step in which a worker only changes what it is doing.
LEMMA WorkerStep ==
    ASSUME IInv, NEW q \in Queue, stage = "up", NEW w, work' = [work EXCEPT ![q] = w],
           WorkOK(config, monitors, cache, queues[q], w),
           UNCHANGED <<raw, stage, config, queues, bindings, cache, event>>
    PROVE  IInv'
<1>1. ConfigInv' /\ StartInv' /\ LinkInv' /\ CacheInv' /\ QueueInv'
  BY DEF IInv, ConfigInv, StartInv, LinkInv, CacheInv, QueueInv, bindings
<1>2. \A p \in Queue : WorkOK(config, monitors, cache, queues[p], work'[p])
  BY DEF IInv, WorkInv
<1>3. DOMAIN work' = Queue
  BY DEF IInv, WorkInv
<1>4. WorkInv'
  BY <1>2, <1>3 DEF WorkInv, bindings
<1> QED BY <1>1, <1>4 DEF IInv

\* SelectInSeq finds the first binding with a name.
LEMMA FirstNamed ==
    ASSUME NEW bs, IsList(bs), NEW name, NEW i, i = FirstOf(bs, name)
    PROVE  \/ i = 0 /\ \A j \in 1..Len(bs) : bs[j].name # name
           \/ i \in 1..Len(bs) /\ i # 0 /\ bs[i].name = name
<1>1. PICK I : I = {j \in 1..Len(bs) : bs[j].name = name}
  OBVIOUS
<1>2. i = IF I # {} THEN Min(I) ELSE 0
  BY <1>1, Zenon DEF FirstOf, SelectInSeq
<1>3. CASE I = {}
  BY <1>1, <1>2, <1>3
<1>4. CASE I # {}
  <2>1. I \subseteq Nat
    BY <1>1
  <2>2. \E m \in I : \A k \in I : m <= k
    BY <1>4, <2>1, LeastNumber
  <2>3. Min(I) \in I
    BY <2>2 DEF Min
  <2>4. i \in I
    BY <1>2, <1>4, <2>3
  <2>5. i \in 1..Len(bs) /\ bs[i].name = name
    BY <1>1, <2>4
  <2> QED BY <2>5
<1> QED BY <1>3, <1>4

LEMMA SnapshotsFound ==
    ASSUME NEW r, NEW cf, GoodConfig(r, cf), NEW q, NEW ctx, RunOK(cf, q, ctx),
           NEW s, s = SnapshotsOf(cf, ctx.kind, ctx.binding)
    PROVE  /\ IsList(s) /\ ToSet(s) \subseteq SnapshotNames(cf)
           /\ ctx.kind = "onStartup" => s = << >>
<1>1. PICK kind : kind = ctx.kind
  OBVIOUS
<1>2. PICK name : name = ctx.binding
  OBVIOUS
<1>3. PICK bs : bs = IF kind = "onStartup" THEN << >> ELSE cf[kind]
  OBVIOUS
<1>4. PICK i : i = FirstOf(bs, name)
  OBVIOUS
<1>5. s = IF i = 0 THEN << >> ELSE bs[i].include
  BY <1>1, <1>2, <1>3, <1>4 DEF SnapshotsOf
<1>6. kind \in {"onStartup", "kubernetes", "schedule"}
  BY <1>1 DEF RunOK
<1>7. IsList(bs) /\ \A j \in DOMAIN bs : BindingOK(cf, bs[j])
  <2>1. CASE kind = "onStartup"
    <3>1. IsList(bs) /\ Len(bs) = 0
      BY <1>3, <2>1, ListEmpty
    <3> QED BY <3>1, ListFacts
  <2>2. CASE kind = "kubernetes"
    BY <1>3, <2>2 DEF GoodConfig
  <2>3. CASE kind = "schedule"
    BY <1>3, <2>3 DEF GoodConfig
  <2> QED BY <1>6, <2>1, <2>2, <2>3
<1>8. \/ i = 0
      \/ i \in 1..Len(bs) /\ i # 0
  BY <1>4, <1>7, FirstNamed
<1>9. CASE i = 0
  BY <1>5, <1>9, ListEmpty
<1>10. CASE i \in 1..Len(bs) /\ i # 0
  <2>1. i \in DOMAIN bs
    BY <1>7, <1>10, ListFacts
  <2>2. s = bs[i].include
    BY <1>5, <1>10
  <2>3. kind # "onStartup"
    <3>1. SUFFICES ASSUME kind = "onStartup" PROVE FALSE
      OBVIOUS
    <3>2. Len(bs) = 0
      BY <1>3, <3>1, ListEmpty
    <3> QED BY <1>10, <3>2
  <2> QED BY <1>1, <1>7, <2>1, <2>2, <2>3 DEF BindingOK
<1> QED BY <1>8, <1>9, <1>10

LEMMA BeginStep ==
    ASSUME IInv, NEW q \in Queue, Begin(q)
    PROVE  IInv'
<1>1. work[q] = Idle /\ queues[q] # << >>
  BY DEF Begin
<1>2. stage = "up" /\ DOMAIN config = Hook /\ \A h \in Hook : GoodConfig(raw[h], config[h])
  BY <1>1, Up
<1>3. QueueOK(config, monitors, q, queues[q])
  BY DEF IInv, QueueInv
<1>4. IsList(queues[q])
  BY <1>3 DEF QueueOK
<1>5. PICK t : t = queues[q][1]
  OBVIOUS
<1>6. Head(queues[q]) = t /\ Len(queues[q]) >= 1 /\ Len(queues[q]) \in Nat
  BY <1>1, <1>4, <1>5, ListTail, ListFacts
<1>7. TaskOK(config, q, t)
  BY <1>3, <1>5, <1>6 DEF QueueOK
<1>8. t.hook \in Hook
  BY <1>7 DEF TaskOK
<1>9. PICK cf : cf = config[t.hook]
  OBVIOUS
<1>10. GoodConfig(raw[t.hook], cf)
  BY <1>2, <1>8, <1>9
<1>11. cache \in [Monitor -> 0..MaxChanges]
  BY DEF IInv, CacheInv
<1>12. UNCHANGED <<raw, stage, config, queues, bindings, cache, event>>
  BY DEF Begin, cluster
<1>13. CASE t.kind = "EnableKubernetes"
  <2>1. PICK w : w = [at |-> "add", i |-> 1, infos |-> << >>]
    OBVIOUS
  <2>2. work' = [work EXCEPT ![q] = w]
    BY <1>6, <1>13, <2>1 DEF Begin, Move
  <2>3. w.at = "add" /\ w.i = 1 /\ w.infos = << >> /\ DOMAIN w = {"at", "i", "infos"}
    BY <2>1
  <2>4. Len(cf.kubernetes) \in Nat
    BY <1>10, ListFacts DEF GoodConfig
  <2>5. AddOK(config, monitors, t, w)
    BY <1>9, <1>13, <2>3, <2>4, ListEmpty DEF AddOK
  <2>6. WorkOK(config, monitors, cache, queues[q], w)
    BY <1>1, <1>5, <2>3, <2>5 DEF WorkOK
  <2> QED BY <1>2, <1>12, <2>2, <2>6, WorkerStep
<1>14. CASE t.kind = "EnableSchedule"
  <2>1. PICK w : w = [at |-> "link", i |-> 1]
    OBVIOUS
  <2>2. work' = [work EXCEPT ![q] = w]
    BY <1>6, <1>14, <2>1 DEF Begin, Move
  <2>3. w.at = "link" /\ w.i = 1 /\ DOMAIN w = {"at", "i"}
    BY <2>1
  <2>4. Len(cf.schedule) \in Nat /\ Len(cf.schedule) # 0
    BY <1>7, <1>9, <1>10, <1>14, ListFacts DEF GoodConfig, TaskOK
  <2>5. LinkOK(config, t, w)
    BY <1>9, <1>14, <2>3, <2>4 DEF LinkOK
  <2>6. WorkOK(config, monitors, cache, queues[q], w)
    BY <1>1, <1>5, <2>3, <2>5 DEF WorkOK
  <2> QED BY <1>2, <1>12, <2>2, <2>6, WorkerStep
<1>15. CASE t.kind = "HookRun"
  <2>1. PICK w : w = Refresh(t.hook, t.ctx)
    OBVIOUS
  <2>2. work' = [work EXCEPT ![q] = w]
    BY <1>6, <1>15, <2>1 DEF Begin, Move
  <2>3. PICK todo : todo = SnapshotsOf(cf, t.ctx.kind, t.ctx.binding)
    OBVIOUS
  <2>4. todo = KubernetesSnapshotsFor(t.hook, t.ctx.kind, t.ctx.binding)
    BY <1>9, <2>3, Zenon DEF SnapshotsOf, KubernetesSnapshotsFor, FirstOf
  <2>5. RunOK(cf, q, t.ctx)
    BY <1>7, <1>9, <1>15 DEF TaskOK
  <2>6. PICK snap : snap = (IF cf.kubernetes = << >> THEN t.ctx.snap ELSE NoSnapshots)
    OBVIOUS
  <2>7. snap = NoSnapshots
    BY <2>5, <2>6 DEF RunOK
  <2>8. w.at = "refresh" /\ w.since = cache /\ w.todo = todo /\ w.snap = snap
        /\ DOMAIN w = {"at", "since", "todo", "snap"}
    BY <1>9, <2>1, <2>4, <2>6 DEF Refresh, Kube
  <2>9. DOMAIN snap = {} /\ snap \in [DOMAIN snap -> [of : Nat, ver : Nat]]
    BY <2>7 DEF NoSnapshots
  <2>10. IsList(todo)
    BY <1>10, <2>3, <2>5, SnapshotsFound
  <2>11. SinceOK(cache, cache)
    BY <1>11, CacheNumbers DEF SinceOK
  <2>12. SnapOK(config, cache, cache, t.hook, snap)
    BY <2>9 DEF SnapOK
  <2>13. RefreshOK(config, cache, t, w)
    BY <1>9, <1>15, <2>3, <2>8, <2>9, <2>10, <2>11, <2>12 DEF RefreshOK
  <2>14. WorkOK(config, monitors, cache, queues[q], w)
    BY <1>1, <1>5, <2>8, <2>13 DEF WorkOK
  <2> QED BY <1>2, <1>12, <2>2, <2>14, WorkerStep
<1> QED BY <1>7, <1>13, <1>14, <1>15 DEF TaskOK

LEMMA AddMonitorFailsStep ==
    ASSUME IInv, NEW q \in Queue, AddMonitorFails(q)
    PROVE  IInv'
<1>1. work[q].at = "add"
  BY DEF AddMonitorFails
<1>2. work[q] # Idle
  BY <1>1, Current
<1>3. stage = "up"
  BY <1>2, Up
<1>4. PICK w : w = Idle
  OBVIOUS
<1>5. work' = [work EXCEPT ![q] = w] /\ UNCHANGED <<raw, stage, config, queues, bindings, cache, event>>
  BY <1>4 DEF AddMonitorFails, Move, cluster
<1>6. WorkOK(config, monitors, cache, queues[q], w)
  BY <1>4 DEF WorkOK
<1> QED BY <1>3, <1>5, <1>6, WorkerStep

\* A snapshot is read from the last monitor of a binding with the name.
LEMMA SnapshotRead ==
    ASSUME NEW h \in Hook, NEW n, NEW j \in DOMAIN Kube(h), Kube(h)[j].name = n,
           AllMade(config, monitors, h), IsList(Kube(h)), Len(Kube(h)) <= MaxBindings,
           cache \in [Monitor -> 0..MaxChanges], NEW x, x = SnapshotFrom(h, n)
    PROVE  /\ x \in [of : Nat, ver : Nat]
           /\ x.of \in DOMAIN Kube(h) /\ Kube(h)[x.of].name = n
           /\ <<h, x.of>> \in Monitor /\ x.ver = cache[<<h, x.of>>]
<1>1. PICK hit : hit = {i \in DOMAIN Kube(h) : Kube(h)[i].name = n /\ <<h, i>> \in monitors}
  OBVIOUS
<1>2. PICK last : last = CHOOSE i \in hit : \A k \in hit : k <= i
  OBVIOUS
<1>3. j \in hit
  BY <1>1 DEF AllMade, Kube
<1>4. DOMAIN Kube(h) = 1..Len(Kube(h)) /\ Len(Kube(h)) \in Nat
  BY ListFacts
<1>5. hit \subseteq Nat /\ \A k \in hit : k <= Len(Kube(h))
  BY <1>1, <1>4
<1>6. \E i \in hit : \A k \in hit : k <= i
  BY <1>3, <1>4, <1>5, GreatestNumber
<1>7. last \in hit
  BY <1>2, <1>6
<1>8. x = IF hit = {} THEN [of |-> 0, ver |-> 0] ELSE [of |-> last, ver |-> cache[<<h, last>>]]
  BY <1>1, <1>2, Zenon DEF SnapshotFrom
<1>9. x = [of |-> last, ver |-> cache[<<h, last>>]]
  BY <1>3, <1>8
<1>10. last \in DOMAIN Kube(h) /\ Kube(h)[last].name = n /\ last \in Nat
  BY <1>1, <1>5, <1>7
<1>11. MaxBindings \in Nat /\ last \in 1..MaxBindings
  BY <1>4, <1>10, HookRunsAssumption
<1>12. <<h, last>> \in Monitor
  BY <1>11 DEF Monitor
<1>13. cache[<<h, last>>] \in Nat
  BY <1>12, CacheNumbers
<1> QED BY <1>9, <1>10, <1>12, <1>13

LEMMA ReadSnapshotStep ==
    ASSUME IInv, NEW q \in Queue, ReadSnapshot(q)
    PROVE  IInv'
<1>1. work[q].at = "refresh" /\ work[q].todo # << >>
  BY DEF ReadSnapshot
<1>2. PICK t : t = queues[q][1]
  OBVIOUS
<1>3. /\ queues[q] # << >> /\ work[q] # Idle /\ Head(queues[q]) = t
      /\ TaskOK(config, q, t) /\ RunReady(config, monitors, t) /\ t.hook \in Hook
      /\ RefreshOK(config, cache, t, work[q])
  BY <1>1, <1>2, Current
<1>4. stage = "up" /\ \A h \in Hook : GoodConfig(raw[h], config[h])
  BY <1>3, Up
<1>5. PICK h \in Hook : h = t.hook
  BY <1>3
<1>6. PICK w : w = work[q]
  OBVIOUS
<1>7. PICK n : n = Head(w.todo)
  OBVIOUS
<1>8. PICK todo : todo = Tail(w.todo)
  OBVIOUS
<1>9. PICK x : x = SnapshotFrom(h, n)
  OBVIOUS
<1>10. PICK s : s = [y \in DOMAIN w.snap \union {n} |-> IF y = n THEN x ELSE w.snap[y]]
  OBVIOUS
<1>11. PICK v : v = [w EXCEPT !.todo = todo, !.snap = s]
  OBVIOUS
<1>12. work' = [work EXCEPT ![q] = v]
  BY <1>3, <1>5, <1>6, <1>7, <1>8, <1>9, <1>10, <1>11 DEF ReadSnapshot, Move
<1>13. UNCHANGED <<raw, stage, config, queues, bindings, cache, event>>
  BY DEF ReadSnapshot, cluster
<1>14. /\ DOMAIN w = {"at", "since", "todo", "snap"}
       /\ t.kind = "HookRun"
       /\ SinceOK(cache, w.since)
       /\ IsList(w.todo)
       /\ DOMAIN w.snap \union ToSet(w.todo)
             = ToSet(SnapshotsOf(config[h], t.ctx.kind, t.ctx.binding))
       /\ SnapOK(config, cache, w.since, h, w.snap)
  BY <1>3, <1>5, <1>6 DEF RefreshOK
<1>15. IsList(todo) /\ ToSet(w.todo) = ToSet(todo) \union {n}
  BY <1>1, <1>6, <1>7, <1>8, <1>14, ListTail
<1>16. PICK all : all = SnapshotsOf(config[h], t.ctx.kind, t.ctx.binding)
  OBVIOUS
<1>17. RunOK(config[h], q, t.ctx)
  BY <1>3, <1>5, <1>14 DEF TaskOK
<1>18. ToSet(all) \subseteq SnapshotNames(config[h]) /\ (t.ctx.kind = "onStartup" => all = << >>)
  BY <1>4, <1>16, <1>17, SnapshotsFound
<1>19. n \in ToSet(all)
  BY <1>14, <1>15, <1>16
<1>20. t.ctx.kind # "onStartup"
  BY <1>18, <1>19, ListEmpty
<1>21. AllMade(config, monitors, h)
  BY <1>3, <1>5, <1>14, <1>20 DEF RunReady
<1>22. PICK j \in DOMAIN Kube(h) : Kube(h)[j].name = n
  BY <1>18, <1>19 DEF SnapshotNames, Kube
<1>23. IsList(Kube(h)) /\ Len(Kube(h)) <= MaxBindings
  BY <1>4 DEF GoodConfig, Kube
<1>24. cache \in [Monitor -> 0..MaxChanges]
  BY DEF IInv, CacheInv
<1>25. /\ x \in [of : Nat, ver : Nat]
       /\ x.of \in DOMAIN Kube(h) /\ Kube(h)[x.of].name = n
       /\ <<h, x.of>> \in Monitor /\ x.ver = cache[<<h, x.of>>]
  BY <1>9, <1>21, <1>22, <1>23, <1>24, SnapshotRead
<1>26. SnapOK(config, cache, w.since, h, s)
  <2>1. DOMAIN s = DOMAIN w.snap \union {n} /\ s[n] = x
    BY <1>10
  <2>2. \A y \in DOMAIN s : y # n => y \in DOMAIN w.snap /\ s[y] = w.snap[y]
    BY <1>10
  <2>3. w.snap \in [DOMAIN w.snap -> [of : Nat, ver : Nat]]
    BY <1>14 DEF SnapOK
  <2>4. \A y \in DOMAIN s : s[y] \in [of : Nat, ver : Nat]
    BY <1>25, <2>1, <2>2, <2>3
  <2>5. s \in [DOMAIN s -> [of : Nat, ver : Nat]]
    BY <1>10, <2>4
  <2>6. PICK m \in Monitor : m = <<h, x.of>>
    BY <1>25
  <2>7. w.since[m] <= x.ver /\ x.ver <= cache[m]
    <3>1. w.since[m] <= cache[m]
      BY <1>14 DEF SinceOK
    <3>2. cache[m] \in Nat /\ x.ver = cache[m]
      BY <1>24, <1>25, <2>6, CacheNumbers
    <3> QED BY <3>1, <3>2
  <2>8. ASSUME NEW y \in DOMAIN s
        PROVE  /\ s[y].of \in DOMAIN config[h].kubernetes /\ <<h, s[y].of>> \in Monitor
               /\ config[h].kubernetes[s[y].of].name = y
               /\ w.since[<<h, s[y].of>>] <= s[y].ver
               /\ s[y].ver <= cache[<<h, s[y].of>>]
    <3>1. CASE y = n
      BY <1>25, <2>1, <2>6, <2>7, <3>1 DEF Kube
    <3>2. CASE y # n
      BY <1>14, <2>2, <3>2 DEF SnapOK
    <3> QED BY <3>1, <3>2
  <2> QED BY <2>5, <2>8 DEF SnapOK
<1>27. /\ DOMAIN v = {"at", "since", "todo", "snap"}
       /\ v.at = "refresh" /\ v.since = w.since /\ v.todo = todo /\ v.snap = s
  BY <1>1, <1>6, <1>11, <1>14
<1>28. DOMAIN s \union ToSet(todo) = ToSet(all)
  BY <1>10, <1>14, <1>15, <1>16
<1>29. RefreshOK(config, cache, t, v)
  BY <1>5, <1>14, <1>15, <1>16, <1>26, <1>27, <1>28 DEF RefreshOK
<1>30. WorkOK(config, monitors, cache, queues[q], v)
  BY <1>2, <1>3, <1>27, <1>29 DEF WorkOK
<1> QED BY <1>4, <1>12, <1>13, <1>30, WorkerStep

LEMMA RunHookStep ==
    ASSUME IInv, NEW q \in Queue, RunHook(q)
    PROVE  IInv'
<1>1. work[q].at = "refresh" /\ work[q].todo = << >>
  BY DEF RunHook
<1>2. PICK t : t = queues[q][1]
  OBVIOUS
<1>3. /\ queues[q] # << >> /\ work[q] # Idle /\ Head(queues[q]) = t
      /\ TaskOK(config, q, t) /\ t.hook \in Hook
      /\ RefreshOK(config, cache, t, work[q])
  BY <1>1, <1>2, Current
<1>4. stage = "up" /\ \A h \in Hook : GoodConfig(raw[h], config[h])
  BY <1>3, Up
<1>5. PICK h \in Hook : h = t.hook
  BY <1>3
<1>6. PICK w : w = work[q]
  OBVIOUS
<1>7. PICK file : file = ConvertBindingContext(config[h].version, [t.ctx EXCEPT !.snap = w.snap])
  OBVIOUS
<1>8. PICK v : v = [at |-> IF file = Nil THEN "panic" ELSE "hook", file |-> file, since |-> w.since]
  OBVIOUS
<1>9. work' = [work EXCEPT ![q] = v]
  BY <1>3, <1>5, <1>6, <1>7, <1>8 DEF RunHook, Move
<1>10. UNCHANGED <<raw, stage, config, queues, bindings, cache, event>>
  BY DEF RunHook, cluster
<1>11. /\ t.kind = "HookRun" /\ SinceOK(cache, w.since)
       /\ DOMAIN w.snap = ToSet(SnapshotsOf(config[h], t.ctx.kind, t.ctx.binding))
       /\ SnapOK(config, cache, w.since, h, w.snap)
  BY <1>1, <1>3, <1>5, <1>6, ListEmpty DEF RefreshOK
<1>12. RunOK(config[h], q, t.ctx)
  BY <1>3, <1>5, <1>11 DEF TaskOK
<1>13. DOMAIN w.snap \subseteq SnapshotNames(config[h])
  BY <1>4, <1>11, <1>12, SnapshotsFound
<1>14. PICK S \in SUBSET SnapshotNames(config[h]) : S = DOMAIN w.snap
  BY <1>13
<1>15. w.snap \in [S -> [of : DOMAIN config[h].kubernetes, ver : 0..MaxChanges]]
  <2>1. w.snap \in [S -> [of : Nat, ver : Nat]]
    BY <1>11, <1>14 DEF SnapOK
  <2>2. ASSUME NEW n \in S
        PROVE  w.snap[n] \in [of : DOMAIN config[h].kubernetes, ver : 0..MaxChanges]
    <3>1. PICK x \in [of : Nat, ver : Nat] : x = w.snap[n]
      BY <2>1
    <3>2. PICK m \in Monitor : m = <<h, x.of>> /\ x.ver <= cache[m]
      BY <1>11, <1>14, <3>1 DEF SnapOK
    <3>3. cache[m] \in Nat /\ cache[m] <= MaxChanges
      BY CacheNumbers DEF IInv, CacheInv
    <3>4. x.ver \in 0..MaxChanges
      BY <3>1, <3>2, <3>3, HookRunsAssumption
    <3>5. x.of \in DOMAIN config[h].kubernetes
      BY <1>11, <1>14, <3>1 DEF SnapOK
    <3> QED BY <3>1, <3>4, <3>5
  <2> QED BY <2>1, <2>2
<1>16. /\ v.file = file /\ v.since = w.since
       /\ (v.at = "panic" /\ file = Nil) \/ (v.at = "hook" /\ file # Nil)
  BY <1>8
<1>17. file # Nil => HookOK(config, cache, t, v)
  BY <1>5, <1>7, <1>11, <1>14, <1>15, <1>16 DEF HookOK
<1>18. WorkOK(config, monitors, cache, queues[q], v)
  BY <1>2, <1>3, <1>16, <1>17 DEF WorkOK
<1> QED BY <1>4, <1>9, <1>10, <1>18, WorkerStep

\* Finish: the task goes, other tasks may take its place.
LEMMA FinishQueues ==
    ASSUME IInv, NEW q \in Queue, queues[q] # << >>, NEW u, RunsOK(config, monitors, q, u),
           queues[q][1].kind = "EnableKubernetes" => AllMade(config, monitors, queues[q][1].hook),
           Finish(q, u), UNCHANGED <<config, monitors, cache>>
    PROVE  QueueInv' /\ WorkInv'
<1>1. DOMAIN queues = Queue /\ DOMAIN work = Queue
  BY DEF IInv, QueueInv, WorkInv
<1>2. queues' = [queues EXCEPT ![q] = u \o Tail(@)] /\ work' = [work EXCEPT ![q] = Idle]
  BY DEF Finish, Move
<1>3. /\ DOMAIN queues' = Queue /\ DOMAIN work' = Queue
      /\ queues'[q] = u \o Tail(queues[q]) /\ work'[q] = Idle
      /\ \A p \in Queue : p # q => queues'[p] = queues[p] /\ work'[p] = work[p]
  BY <1>1, <1>2
<1>4. \A p \in Queue : QueueOK(config, monitors, p, queues[p])
  BY DEF IInv, QueueInv
<1>5. QueueOK(config, monitors, q, queues'[q])
  <2>1. PICK s : s = queues[q]
    OBVIOUS
  <2>2. PICK r : r = u \o Tail(s)
    OBVIOUS
  <2>3. QueueOK(config, monitors, q, s) /\ s # << >>
    BY <1>4, <2>1
  <2>4. s[1].kind = "EnableKubernetes" => AllMade(config, monitors, s[1].hook)
    BY <2>1
  <2>5. QueueOK(config, monitors, q, r)
    BY <2>2, <2>3, <2>4, QueueFinish
  <2> QED BY <1>3, <2>1, <2>2, <2>5
<1>7. QueueInv'
  BY <1>3, <1>4, <1>5 DEF QueueInv
<1>8. \A p \in Queue : WorkOK(config, monitors, cache, queues'[p], work'[p])
  <2>1. WorkOK(config, monitors, cache, queues'[q], work'[q])
    BY <1>3 DEF WorkOK
  <2> QED BY <1>3, <2>1 DEF IInv, WorkInv
<1>9. WorkInv'
  BY <1>3, <1>8 DEF WorkInv
<1> QED BY <1>7, <1>9

LEMMA NoRuns ==
    ASSUME NEW c, NEW mon, NEW q, NEW u, u = << >>
    PROVE  RunsOK(c, mon, q, u)
<1> QED BY ListEmpty DEF RunsOK

\* Finish after a hook has run.
LEMMA RunFinished ==
    ASSUME IInv, NEW q \in Queue, work[q].at = "hook", Finish(q, << >>),
           UNCHANGED <<raw, stage, config, bindings, cache, event>>
    PROVE  IInv'
<1>1. PICK u : u = << >>
  OBVIOUS
<1>2. RunsOK(config, monitors, q, u)
  BY <1>1, NoRuns
<1>3. /\ queues[q] # << >> /\ work[q] # Idle
      /\ HookOK(config, cache, queues[q][1], work[q])
  BY Current
<1>4. queues[q][1].kind # "EnableKubernetes"
  BY <1>3 DEF HookOK
<1>5. Finish(q, u)
  BY <1>1
<1>6. UNCHANGED <<config, monitors, cache>>
  BY DEF bindings
<1>7. QueueInv' /\ WorkInv'
  BY <1>2, <1>3, <1>4, <1>5, <1>6, FinishQueues
<1>8. stage = "up"
  BY <1>3, Up
<1>9. ConfigInv' /\ LinkInv' /\ CacheInv'
  BY DEF IInv, ConfigInv, LinkInv, CacheInv, bindings
<1>10. StartInv'
  BY <1>8 DEF StartInv
<1> QED BY <1>7, <1>9, <1>10 DEF IInv

LEMMA HookSucceedsStep ==
    ASSUME IInv, NEW q \in Queue, HookSucceeds(q)
    PROVE  IInv'
<1>1. /\ work[q].at = "hook" /\ Finish(q, << >>)
      /\ UNCHANGED <<raw, stage, config, bindings, cache, event>>
  BY DEF HookSucceeds, cluster
<1> QED BY <1>1, RunFinished

LEMMA HookFailsStep ==
    ASSUME IInv, NEW q \in Queue, HookFails(q)
    PROVE  IInv'
<1>1. work[q].at = "hook" /\ UNCHANGED <<raw, stage, config, bindings, cache, event>>
  BY DEF HookFails, cluster
<1>2. CASE Finish(q, << >>)
  BY <1>1, <1>2, RunFinished
<1>3. CASE Move(q, Idle) /\ UNCHANGED queues
  <2>1. work[q] # Idle
    BY <1>1, Current
  <2>2. stage = "up"
    BY <2>1, Up
  <2>3. PICK w : w = Idle
    OBVIOUS
  <2>4. work' = [work EXCEPT ![q] = w]
    BY <1>3, <2>3 DEF Move
  <2>5. WorkOK(config, monitors, cache, queues[q], w)
    BY <2>3 DEF WorkOK
  <2>6. UNCHANGED <<raw, stage, config, queues, bindings, cache, event>>
    BY <1>1, <1>3
  <2> QED BY <2>2, <2>4, <2>5, <2>6, WorkerStep
<1> QED BY <1>2, <1>3 DEF HookFails

LEMMA StartMonitorStep ==
    ASSUME IInv, NEW q \in Queue, StartMonitor(q)
    PROVE  IInv'
<1>1. work[q].at = "add"
  BY DEF StartMonitor
<1>2. PICK t : t = queues[q][1]
  OBVIOUS
<1>3. /\ work[q] # Idle /\ Head(queues[q]) = t /\ t.hook \in Hook
      /\ AddOK(config, monitors, t, work[q])
  BY <1>1, <1>2, Current
<1>4. \A h \in Hook : GoodConfig(raw[h], config[h])
  BY <1>3, Up
<1>5. PICK h \in Hook : h = t.hook
  BY <1>3
<1>6. PICK w : w = work[q]
  OBVIOUS
<1>7. PICK m \in ToStart(h) : started' = started \union {m}
  BY <1>3, <1>5 DEF StartMonitor
<1>8. /\ w.i > Len(config[h].kubernetes)
      /\ UNCHANGED <<raw, stage, config, queues, work, monitors, links, scheduleLinks, cache, event>>
  BY <1>3, <1>5, <1>6 DEF StartMonitor, Kube, cluster
<1>9. w.i \in 1..(Len(config[h].kubernetes) + 1) /\ \A j \in 1..(w.i - 1) : <<h, j>> \in monitors
  BY <1>3, <1>5, <1>6 DEF AddOK
<1>10. IsList(config[h].kubernetes)
  BY <1>4 DEF GoodConfig
<1>11. DOMAIN config[h].kubernetes = 1..Len(config[h].kubernetes) /\ Len(config[h].kubernetes) \in Nat
  BY <1>10, ListFacts
<1>12. w.i - 1 = Len(config[h].kubernetes)
  BY <1>8, <1>9, <1>11
<1>13. AllMade(config, monitors, h)
  BY <1>9, <1>11, <1>12 DEF AllMade
<1>14. LinkInv'
  <2>1. m \in links /\ m[1] = h
    BY <1>7 DEF ToStart
  <2>2. started' \subseteq links /\ \A n \in started' : AllMade(config, monitors, n[1])
    BY <1>7, <1>13, <2>1 DEF IInv, LinkInv
  <2> QED BY <1>8, <2>2 DEF IInv, LinkInv
<1>15. CacheInv'
  <2>1. \A n \in Monitor : \A e \in event[n] : EventOK(config, started', cache, n, e)
    BY <1>7 DEF IInv, CacheInv, EventOK
  <2> QED BY <1>8, <2>1 DEF IInv, CacheInv
<1>16. ConfigInv' /\ StartInv' /\ QueueInv' /\ WorkInv'
  BY <1>8 DEF IInv, ConfigInv, StartInv, QueueInv, WorkInv
<1> QED BY <1>14, <1>15, <1>16 DEF IInv

LEMMA KubernetesEnabledStep ==
    ASSUME IInv, NEW q \in Queue, KubernetesEnabled(q)
    PROVE  IInv'
<1>1. work[q].at = "add"
  BY DEF KubernetesEnabled
<1>2. PICK t : t = queues[q][1]
  OBVIOUS
<1>3. /\ queues[q] # << >> /\ work[q] # Idle /\ Head(queues[q]) = t
      /\ TaskOK(config, q, t) /\ t.hook \in Hook
      /\ AddOK(config, monitors, t, work[q])
  BY <1>1, <1>2, Current
<1>4. stage = "up" /\ \A h \in Hook : GoodConfig(raw[h], config[h])
  BY <1>3, Up
<1>5. PICK h \in Hook : h = t.hook
  BY <1>3
<1>6. PICK w : w = work[q]
  OBVIOUS
<1>7. /\ w.i > Len(config[h].kubernetes)
      /\ Finish(q, Reverse(w.infos))
      /\ UNCHANGED <<raw, stage, config, monitors, started, links, scheduleLinks, cache, event>>
  BY <1>3, <1>5, <1>6 DEF KubernetesEnabled, Kube, bindings, cluster
<1>8. /\ t.kind = "EnableKubernetes"
      /\ w.i \in 1..(Len(config[h].kubernetes) + 1)
      /\ \A j \in 1..(w.i - 1) : <<h, j>> \in monitors
      /\ IsList(w.infos)
      /\ \A k \in 1..Len(w.infos) : /\ w.infos[k].kind = "HookRun" /\ w.infos[k].hook = h
                                    /\ TaskOK(config, "main", w.infos[k])
  BY <1>3, <1>5, <1>6 DEF AddOK
<1>9. IsList(config[h].kubernetes)
  BY <1>4 DEF GoodConfig
<1>10. DOMAIN config[h].kubernetes = 1..Len(config[h].kubernetes) /\ Len(config[h].kubernetes) \in Nat
  BY <1>9, ListFacts
<1>11. w.i - 1 = Len(config[h].kubernetes)
  BY <1>7, <1>8, <1>10
<1>12. AllMade(config, monitors, h)
  BY <1>8, <1>10, <1>11 DEF AllMade
<1>13. q = "main"
  BY <1>3, <1>8 DEF TaskOK
<1>14. PICK u : u = Reverse(w.infos)
  OBVIOUS
<1>15. RunsOK(config, monitors, q, u)
  <2>1. /\ IsList(u) /\ Len(u) = Len(w.infos)
        /\ \A i \in 1..Len(w.infos) : \E j \in 1..Len(w.infos) : u[i] = w.infos[j]
    BY <1>8, <1>14, ListReverse
  <2>2. ASSUME NEW k \in 1..Len(u)
        PROVE  u[k].kind = "HookRun" /\ TaskOK(config, q, u[k]) /\ RunReady(config, monitors, u[k])
    <3>1. PICK j \in 1..Len(w.infos) : u[k] = w.infos[j]
      BY <2>1
    <3>2. u[k].kind = "HookRun" /\ u[k].hook = h /\ TaskOK(config, q, u[k])
      BY <1>8, <1>13, <3>1
    <3> QED BY <1>12, <3>2 DEF RunReady
  <2> QED BY <2>1, <2>2 DEF RunsOK
<1>16. queues[q][1].kind = "EnableKubernetes" => AllMade(config, monitors, queues[q][1].hook)
  BY <1>2, <1>5, <1>12
<1>17. Finish(q, u) /\ UNCHANGED <<config, monitors, cache>>
  BY <1>7, <1>14
<1>18. QueueInv' /\ WorkInv'
  BY <1>3, <1>15, <1>16, <1>17, FinishQueues
<1>19. ConfigInv' /\ LinkInv' /\ CacheInv'
  BY <1>7 DEF IInv, ConfigInv, LinkInv, CacheInv
<1>20. StartInv'
  BY <1>4, <1>7 DEF StartInv
<1> QED BY <1>18, <1>19, <1>20 DEF IInv

LEMMA EnableScheduleStep ==
    ASSUME IInv, NEW q \in Queue, EnableSchedule(q)
    PROVE  IInv'
<1>1. work[q].at = "link"
  BY DEF EnableSchedule
<1>2. PICK t : t = queues[q][1]
  OBVIOUS
<1>3. /\ queues[q] # << >> /\ work[q] # Idle /\ Head(queues[q]) = t /\ IsList(queues[q])
      /\ t.hook \in Hook
      /\ LinkOK(config, t, work[q])
  BY <1>1, <1>2, Current
<1>4. stage = "up" /\ \A h \in Hook : GoodConfig(raw[h], config[h])
  BY <1>3, Up
<1>5. PICK h \in Hook : h = t.hook
  BY <1>3
<1>6. PICK w : w = work[q]
  OBVIOUS
<1>7. /\ DOMAIN w = {"at", "i"} /\ t.kind = "EnableSchedule"
      /\ w.i \in 1..Len(config[h].schedule)
  BY <1>3, <1>5, <1>6 DEF LinkOK
<1>8. /\ scheduleLinks' = scheduleLinks \union {<<h, w.i>>}
      /\ UNCHANGED <<raw, stage, config, monitors, started, links, cache, event>>
      /\ \/ /\ w.i < Len(config[h].schedule)
            /\ Move(q, [w EXCEPT !.i = @ + 1])
            /\ UNCHANGED queues
         \/ Finish(q, << >>)
  BY <1>3, <1>5, <1>6 DEF EnableSchedule, cluster
<1>9. AllMade(config, monitors, h)
  <2>1. QueueOK(config, monitors, q, queues[q])
    BY DEF IInv, QueueInv
  <2>2. 1 \in 1..Len(queues[q])
    BY <1>3, ListTail, ListFacts
  <2>3. \/ AllMade(config, monitors, h)
        \/ \E j \in 1..(1 - 1) : Enables(queues[q][j], "EnableKubernetes", h)
    BY <1>2, <1>5, <1>7, <2>1, <2>2 DEF QueueOK
  <2> QED BY <2>3
<1>10. IsList(config[h].schedule)
  BY <1>4 DEF GoodConfig
<1>11. DOMAIN config[h].schedule = 1..Len(config[h].schedule) /\ Len(config[h].schedule) \in Nat
  BY <1>10, ListFacts
<1>12. LinkInv'
  <2>1. PICK l : l = <<h, w.i>>
    OBVIOUS
  <2>2. /\ l = <<l[1], l[2]>> /\ l[1] \in Hook
        /\ l[2] \in DOMAIN config[l[1]].schedule
        /\ AllMade(config, monitors, l[1])
    BY <1>7, <1>9, <1>11, <2>1
  <2>3. IsFiniteSet(scheduleLinks) /\ scheduleLinks' = scheduleLinks \union {l}
    BY <1>8, <2>1 DEF IInv, LinkInv
  <2>4. IsFiniteSet(scheduleLinks')
    BY <2>3, FS_AddElement
  <2>5. \A k \in scheduleLinks' : /\ k = <<k[1], k[2]>> /\ k[1] \in Hook
                                  /\ k[2] \in DOMAIN config[k[1]].schedule
                                  /\ AllMade(config, monitors, k[1])
    BY <2>2, <2>3 DEF IInv, LinkInv
  <2> QED BY <1>8, <2>4, <2>5 DEF IInv, LinkInv
<1>13. ConfigInv' /\ CacheInv'
  BY <1>8 DEF IInv, ConfigInv, CacheInv
<1>14. StartInv'
  BY <1>4, <1>8 DEF StartInv
<1>15. CASE w.i < Len(config[h].schedule) /\ Move(q, [w EXCEPT !.i = @ + 1]) /\ UNCHANGED queues
  <2>1. PICK v : v = [w EXCEPT !.i = @ + 1]
    OBVIOUS
  <2>2. DOMAIN v = {"at", "i"} /\ v.at = "link" /\ v.i = w.i + 1
    BY <1>1, <1>6, <1>7, <2>1
  <2>3. LinkOK(config, t, v)
    BY <1>5, <1>7, <1>11, <1>15, <2>2 DEF LinkOK
  <2>4. WorkOK(config, monitors, cache, queues[q], v)
    BY <1>2, <1>3, <2>2, <2>3 DEF WorkOK
  <2>5. work' = [work EXCEPT ![q] = v]
    BY <1>15, <2>1 DEF Move
  <2>6. DOMAIN work' = Queue /\ \A p \in Queue : WorkOK(config, monitors, cache, queues[p], work'[p])
    BY <2>4, <2>5 DEF IInv, WorkInv
  <2>7. WorkInv'
    BY <1>8, <1>15, <2>6 DEF WorkInv
  <2>8. QueueInv'
    BY <1>8, <1>15 DEF IInv, QueueInv
  <2> QED BY <1>12, <1>13, <1>14, <2>7, <2>8 DEF IInv
<1>16. CASE Finish(q, << >>)
  <2>1. PICK u : u = << >>
    OBVIOUS
  <2>2. RunsOK(config, monitors, q, u) /\ Finish(q, u)
    BY <1>16, <2>1, NoRuns
  <2>3. queues[q][1].kind # "EnableKubernetes"
    BY <1>2, <1>7
  <2>4. UNCHANGED <<config, monitors, cache>>
    BY <1>8
  <2>5. QueueInv' /\ WorkInv'
    BY <1>3, <2>2, <2>3, <2>4, FinishQueues
  <2> QED BY <1>12, <1>13, <1>14, <2>5 DEF IInv
<1> QED BY <1>8, <1>15, <1>16

ContextFields == {"kind", "binding", "group", "include", "type", "watch", "object", "snap", "from"}

\* ConvertKubeEventToBindingContext, field by field.
LEMMA KubeContext ==
    ASSUME NEW h, NEW i, NEW type, NEW watch, NEW ver \in Nat,
           NEW b, b = Kube(h)[i],
           NEW ctx, ctx = ConvertKubeEventToBindingContext(h, i, type, watch, ver)
    PROVE  /\ DOMAIN ctx = ContextFields /\ ctx.kind = "kubernetes"
           /\ ctx.binding = b.name /\ ctx.group = b.group /\ ctx.include = b.include
           /\ ctx.type = type /\ ctx.watch = watch /\ ctx.from = i
           /\ ctx.object # Nil <=> b.full
<1>1. PICK object : object = IF b.full THEN ver ELSE Nil
  OBVIOUS
<1>2. ctx = [[kind |-> "kubernetes", binding |-> b.name, group |-> b.group, include |-> b.include,
              type |-> Unset, watch |-> Unset, object |-> Nil, snap |-> NoSnapshots, from |-> 0]
             EXCEPT !.type = type, !.watch = watch, !.from = i, !.object = object]
  BY <1>1 DEF ConvertKubeEventToBindingContext, Context
<1>3. /\ DOMAIN ctx = ContextFields /\ ctx.kind = "kubernetes"
      /\ ctx.binding = b.name /\ ctx.group = b.group /\ ctx.include = b.include
      /\ ctx.type = type /\ ctx.watch = watch /\ ctx.from = i
      /\ ctx.object = object
  BY <1>2 DEF ContextFields
<1>4. object # Nil <=> b.full
  BY <1>1, PrintedAssumption
<1> QED BY <1>3, <1>4

\* A run for an event or a Synchronization is as it should be.
LEMMA KubeRunOK ==
    ASSUME NEW h \in Hook, NEW q, NEW i \in DOMAIN config[h].kubernetes, IsList(config[h].kubernetes),
           NEW b, b = config[h].kubernetes[i], NEW ctx,
           DOMAIN ctx = ContextFields, ctx.kind = "kubernetes", ctx.from = i, KubeRun(b, q, ctx),
           NEW allow, NEW t, t = HookRun(h, ctx, allow)
    PROVE  t.kind = "HookRun" /\ t.hook = h /\ TaskOK(config, q, t)
<1>1. t.kind = "HookRun" /\ t.hook = h /\ t.ctx = ctx
  BY DEF HookRun
<1>2. config[h].kubernetes # << >>
  BY ListFacts
<1>3. RunOK(config[h], q, ctx)
  BY <1>2 DEF RunOK, ContextFields
<1> QED BY <1>1, <1>3 DEF TaskOK

LEMMA AddMonitorStep ==
    ASSUME IInv, NEW q \in Queue, AddMonitor(q)
    PROVE  IInv'
<1>1. work[q].at = "add"
  BY DEF AddMonitor
<1>2. PICK t : t = queues[q][1]
  OBVIOUS
<1>3. /\ queues[q] # << >> /\ work[q] # Idle /\ Head(queues[q]) = t /\ IsList(queues[q])
      /\ TaskOK(config, q, t) /\ t.hook \in Hook
      /\ AddOK(config, monitors, t, work[q])
  BY <1>1, <1>2, Current
<1>4. stage = "up" /\ \A h \in Hook : GoodConfig(raw[h], config[h])
  BY <1>3, Up
<1>5. PICK h \in Hook : h = t.hook
  BY <1>3
<1>6. PICK w : w = work[q]
  OBVIOUS
<1>7. PICK i : i = w.i
  OBVIOUS
<1>8. PICK m : m = <<h, i>>
  OBVIOUS
<1>9. PICK b : b = config[h].kubernetes[i]
  OBVIOUS
<1>10. /\ i \in DOMAIN config[h].kubernetes
       /\ monitors' = monitors \union {m} /\ links' = links \union {m}
       /\ UNCHANGED <<raw, stage, config, queues, started, scheduleLinks, event>>
  BY <1>3, <1>5, <1>6, <1>7, <1>8, ZenonT(60) DEF AddMonitor, Kube
<1>11. PICK ver \in (IF m \in monitors THEN {cache[m], cache[m] + 1} ELSE {cache[m]})
                       \intersect (0..MaxChanges) :
          /\ cache' = [cache EXCEPT ![m] = ver]
          /\ work' = [work EXCEPT ![q] =
                [w EXCEPT !.i = @ + 1,
                          !.infos = IF b.mode = "v0" \/ ~b.sync THEN @
                                    ELSE Append(@, HookRun(h,
                                           ConvertKubeEventToBindingContext(h, i, "Synchronization",
                                                                            Unset, ver),
                                           b.allowFailure))]]
  <2>1. b = Kube(h)[i] /\ h = Head(queues[q]).hook /\ i = work[q].i
    BY <1>3, <1>5, <1>6, <1>7, <1>9 DEF Kube
  <2> QED BY <1>6, <1>8, <2>1, ZenonT(60) DEF AddMonitor, Move
<1>12. PICK ctx : ctx = ConvertKubeEventToBindingContext(h, i, "Synchronization", Unset, ver)
  OBVIOUS
<1>13. PICK run : run = HookRun(h, ctx, b.allowFailure)
  OBVIOUS
<1>14. PICK infos : infos = IF b.mode = "v0" \/ ~b.sync THEN w.infos ELSE Append(w.infos, run)
  OBVIOUS
<1>15. /\ DOMAIN w = {"at", "i", "infos"} /\ t.kind = "EnableKubernetes"
       /\ w.i \in 1..(Len(config[h].kubernetes) + 1)
       /\ \A j \in 1..(w.i - 1) : <<h, j>> \in monitors
       /\ IsList(w.infos)
       /\ \A k \in 1..Len(w.infos) : /\ w.infos[k].kind = "HookRun" /\ w.infos[k].hook = h
                                     /\ TaskOK(config, "main", w.infos[k])
  BY <1>3, <1>5, <1>6 DEF AddOK
<1>16. PICK v : v = [w EXCEPT !.i = i + 1, !.infos = infos]
  OBVIOUS
<1>17. work' = [work EXCEPT ![q] = v]
  BY <1>7, <1>11, <1>12, <1>13, <1>14, <1>15, <1>16
<1>18. DOMAIN v = {"at", "i", "infos"} /\ v.at = "add" /\ v.i = i + 1 /\ v.infos = infos
  BY <1>1, <1>6, <1>15, <1>16
<1>19. IsList(config[h].kubernetes) /\ Len(config[h].kubernetes) <= MaxBindings
  BY <1>4 DEF GoodConfig
<1>20. /\ DOMAIN config[h].kubernetes = 1..Len(config[h].kubernetes)
       /\ Len(config[h].kubernetes) \in Nat
  BY <1>19, ListFacts
<1>21. m \in Monitor
  BY <1>8, <1>10, <1>19, <1>20, HookRunsAssumption DEF Monitor
<1>22. cache \in [Monitor -> 0..MaxChanges] /\ \A n \in Monitor : cache[n] \in Nat
  BY CacheNumbers DEF IInv, CacheInv
<1>23. ver \in Nat /\ ver \in 0..MaxChanges /\ cache[m] <= ver
  BY <1>11, <1>21, <1>22
<1>24. Newer(cache, cache')
  <2>1. cache' \in [Monitor -> 0..MaxChanges]
    BY <1>11, <1>22, <1>23
  <2>2. \A n \in Monitor : cache[n] <= cache'[n]
    BY <1>11, <1>21, <1>22, <1>23
  <2> QED BY <1>22, <2>1, <2>2 DEF Newer
<1>25. monitors \subseteq monitors'
  BY <1>10
<1>28. ConfigInv'
  BY <1>10 DEF IInv, ConfigInv
<1>29. StartInv'
  BY <1>4, <1>10 DEF StartInv
<1>30. PICK mon2 : mon2 = monitors'
  OBVIOUS
<1>31. \A g : AllMade(config, monitors, g) => AllMade(config, mon2, g)
  BY <1>25, <1>30, MadeGrows
<1>32. LinkInv'
  <2>1. m[1] = h /\ m[2] = i
    BY <1>8
  <2>2. \A n \in mon2 : n \in Monitor /\ n[2] \in DOMAIN config[n[1]].kubernetes
    BY <1>10, <1>21, <1>30, <2>1 DEF IInv, LinkInv
  <2>3. started \subseteq links' /\ links' \subseteq mon2
    BY <1>10, <1>30 DEF IInv, LinkInv
  <2>4. \A n \in started : AllMade(config, mon2, n[1])
    BY <1>31 DEF IInv, LinkInv
  <2>5. IsFiniteSet(scheduleLinks) /\ \A l \in scheduleLinks :
                                /\ l = <<l[1], l[2]>> /\ l[1] \in Hook
                                /\ l[2] \in DOMAIN config[l[1]].schedule
                                /\ AllMade(config, mon2, l[1])
    BY <1>31 DEF IInv, LinkInv
  <2> QED BY <1>10, <1>30, <2>2, <2>3, <2>4, <2>5 DEF LinkInv
<1>33. CacheInv'
  <2>1. ASSUME NEW n \in Monitor, NEW e \in event[n] PROVE EventOK(config, started, cache', n, e)
    <3>1. EventOK(config, started, cache, n, e)
      BY DEF IInv, CacheInv
    <3>2. cache[n] \in Nat /\ cache'[n] \in Nat /\ cache[n] <= cache'[n]
      BY <1>24, CacheNumbers DEF Newer
    <3> QED BY <3>1, <3>2 DEF EventOK
  <2>2. cache' \in [Monitor -> 0..MaxChanges] /\ DOMAIN event = Monitor
    BY <1>24 DEF Newer, IInv, CacheInv
  <2> QED BY <1>10, <2>1, <2>2 DEF CacheInv
<1>34. QueueInv'
  <2>1. ASSUME NEW p \in Queue PROVE QueueOK(config, mon2, p, queues[p])
    <3>1. QueueOK(config, monitors, p, queues[p])
      BY DEF IInv, QueueInv
    <3> QED BY <1>25, <1>30, <3>1, QueueGrows
  <2>2. DOMAIN queues = Queue
    BY DEF IInv, QueueInv
  <2> QED BY <1>10, <1>30, <2>1, <2>2 DEF QueueInv
<1>35. IsList(infos) /\ \A k \in 1..Len(infos) : /\ infos[k].kind = "HookRun" /\ infos[k].hook = h
                                               /\ TaskOK(config, "main", infos[k])
  <2>1. CASE infos = w.infos
    BY <1>15, <2>1
  <2>2. CASE infos # w.infos
    <3>1. infos = Append(w.infos, run) /\ b.sync
      BY <1>14, <2>2, Zenon
    <3>2. /\ DOMAIN ctx = ContextFields /\ ctx.kind = "kubernetes"
          /\ ctx.binding = b.name /\ ctx.group = b.group /\ ctx.include = b.include
          /\ ctx.type = "Synchronization" /\ ctx.from = i
          /\ ctx.object # Nil <=> b.full
      <4>1. PICK type : type = "Synchronization"
        OBVIOUS
      <4>2. ctx = ConvertKubeEventToBindingContext(h, i, type, Unset, ver) /\ b = Kube(h)[i]
        BY <1>9, <1>12, <4>1 DEF Kube
      <4> QED BY <1>23, <4>1, <4>2, KubeContext
    <3>3. run.kind = "HookRun" /\ run.hook = h /\ TaskOK(config, "main", run)
      <4>1. PICK main : main = "main"
        OBVIOUS
      <4>2. KubeRun(b, main, ctx)
        BY <3>1, <3>2 DEF KubeRun
      <4>3. PICK allow : allow = b.allowFailure
        OBVIOUS
      <4>4. run = HookRun(h, ctx, allow)
        BY <1>13, <4>3
      <4>5. run.kind = "HookRun" /\ run.hook = h /\ TaskOK(config, main, run)
        BY <1>9, <1>10, <1>19, <3>2, <4>2, <4>4, KubeRunOK
      <4> QED BY <4>1, <4>5
    <3>4. PICK one : one = <<run>>
      OBVIOUS
    <3>5. IsList(one) /\ Len(one) = 1 /\ one[1] = run /\ infos = w.infos \o one
      BY <1>15, <3>1, <3>4, ListAppend
    <3>6. /\ IsList(infos) /\ Len(infos) = Len(w.infos) + Len(one)
          /\ \A k \in 1..Len(w.infos) : infos[k] = w.infos[k]
          /\ \A k \in 1..(Len(w.infos) + Len(one)) :
                \/ k \in 1..Len(w.infos)
                \/ k - Len(w.infos) \in 1..Len(one) /\ infos[k] = one[k - Len(w.infos)]
      <4>1. PICK a : a = w.infos
        OBVIOUS
      <4>2. IsList(a) /\ IsList(one) /\ infos = a \o one
        BY <1>15, <3>5, <4>1
      <4>3. /\ IsList(infos) /\ Len(infos) = Len(a) + Len(one)
            /\ \A k \in 1..Len(a) : infos[k] = a[k]
            /\ \A k \in 1..(Len(a) + Len(one)) :
                  \/ k \in 1..Len(a)
                  \/ k - Len(a) \in 1..Len(one) /\ infos[k] = one[k - Len(a)]
        BY <4>2, ListConcat
      <4> QED BY <4>1, <4>3
    <3>7. ASSUME NEW k \in 1..Len(infos)
          PROVE  infos[k].kind = "HookRun" /\ infos[k].hook = h /\ TaskOK(config, "main", infos[k])
      <4>1. CASE k \in 1..Len(w.infos)
        BY <1>15, <3>6, <4>1
      <4>2. CASE k - Len(w.infos) \in 1..Len(one) /\ infos[k] = one[k - Len(w.infos)]
        <5>1. k - Len(w.infos) = 1
          BY <3>5, <4>2
        <5> QED BY <3>3, <3>5, <4>2, <5>1
      <4> QED BY <3>6, <4>1, <4>2
    <3> QED BY <3>6, <3>7
  <2> QED BY <2>1, <2>2
<1>36. AddOK(config, mon2, t, v)
  <2>1. v.i \in 1..(Len(config[h].kubernetes) + 1)
    BY <1>10, <1>18, <1>20
  <2>2. \A j \in 1..(v.i - 1) : <<h, j>> \in mon2
    <3>1. i \in Nat
      BY <1>10, <1>20
    <3>2. \A j \in 1..(v.i - 1) : j \in 1..(i - 1) \/ j = i
      BY <1>18, <3>1
    <3> QED BY <1>7, <1>8, <1>10, <1>15, <1>30, <3>2
  <2> QED BY <1>5, <1>15, <1>18, <1>35, <2>1, <2>2 DEF AddOK
<1>37. WorkInv'
  <2>1. PICK ca2 : ca2 = cache'
    OBVIOUS
  <2>2. WorkOK(config, mon2, ca2, queues[q], v)
    BY <1>2, <1>3, <1>18, <1>36 DEF WorkOK
  <2>3. DOMAIN work = Queue /\ DOMAIN work' = Queue /\ work'[q] = v
        /\ \A p \in Queue : p # q => work'[p] = work[p]
    BY <1>17 DEF IInv, WorkInv
  <2>4. ASSUME NEW p \in Queue, p # q PROVE WorkOK(config, mon2, ca2, queues[p], work[p])
    <3>1. WorkOK(config, monitors, cache, queues[p], work[p])
      BY DEF IInv, WorkInv
    <3>2. PICK s2 : s2 = queues[p]
      OBVIOUS
    <3>3. WorkOK(config, mon2, ca2, s2, work[p])
      BY <1>24, <1>25, <1>30, <2>1, <3>1, <3>2, WorkGrows
    <3> QED BY <3>2, <3>3
  <2> QED BY <1>10, <1>30, <2>1, <2>2, <2>3, <2>4 DEF WorkInv
<1> QED BY <1>28, <1>29, <1>32, <1>33, <1>34, <1>37 DEF IInv

LEMMA ChangeStep ==
    ASSUME IInv, NEW m \in Monitor, NEW watch, Change(m, watch)
    PROVE  IInv'
<1>1. /\ m \in started /\ cache[m] < MaxChanges
      /\ cache' = [cache EXCEPT ![m] = @ + 1]
      /\ UNCHANGED <<raw, stage, config, queues, work, bindings>>
  BY DEF Change, CanChange
<1>2. PICK new : new = {e \in {[watch |-> watch, ver |-> cache[m] + 1]} :
                          watch \in config[m[1]].kubernetes[m[2]].events}
  OBVIOUS
<1>3. event' = [event EXCEPT ![m] = @ \union new]
  BY <1>2, Zenon DEF Change, Kube
<1>4. cache \in [Monitor -> 0..MaxChanges] /\ DOMAIN event = Monitor
  BY DEF IInv, CacheInv
<1>5. \A n \in Monitor : cache[n] \in Nat /\ cache[n] <= MaxChanges
  BY <1>4, CacheNumbers
<1>6. cache' \in [Monitor -> 0..MaxChanges] /\ \A n \in Monitor : cache[n] <= cache'[n]
  BY <1>1, <1>4, <1>5, HookRunsAssumption
<1>7. Newer(cache, cache')
  BY <1>4, <1>6 DEF Newer
<1>8. ConfigInv' /\ StartInv' /\ LinkInv' /\ QueueInv'
  BY <1>1 DEF IInv, ConfigInv, StartInv, LinkInv, QueueInv, bindings
<1>9. CacheInv'
  <2>1. cache'[m] = cache[m] + 1 /\ \A n \in Monitor : n # m => cache'[n] = cache[n]
    BY <1>1, <1>4
  <2>2. /\ DOMAIN event' = Monitor /\ event'[m] = event[m] \union new
        /\ \A n \in Monitor : n # m => event'[n] = event[n]
    BY <1>3, <1>4
  <2>3. \A e \in new : EventOK(config, started, cache', m, e)
    BY <1>1, <1>2, <1>5, <2>1 DEF EventOK
  <2>4. ASSUME NEW n \in Monitor, NEW e \in event'[n] PROVE EventOK(config, started, cache', n, e)
    <3>1. CASE n = m /\ e \in new
      BY <2>3, <3>1
    <3>2. CASE e \in event[n]
      <4>1. EventOK(config, started, cache, n, e)
        BY <3>2 DEF IInv, CacheInv
      <4>2. cache[n] \in Nat /\ cache'[n] \in Nat /\ cache[n] <= cache'[n]
        BY <1>5, <1>6, CacheNumbers
      <4> QED BY <4>1, <4>2 DEF EventOK
    <3> QED BY <2>2, <3>1, <3>2
  <2>5. started' = started /\ config' = config
    BY <1>1 DEF bindings
  <2> QED BY <1>6, <2>2, <2>4, <2>5 DEF CacheInv
<1>10. WorkInv'
  <2>1. PICK ca2 : ca2 = cache'
    OBVIOUS
  <2>2. ASSUME NEW p \in Queue PROVE WorkOK(config, monitors, ca2, queues[p], work[p])
    <3>1. WorkOK(config, monitors, cache, queues[p], work[p])
      BY DEF IInv, WorkInv
    <3>2. PICK s2 : s2 = queues[p]
      OBVIOUS
    <3>3. PICK mon2 : mon2 = monitors
      OBVIOUS
    <3>4. WorkOK(config, mon2, ca2, s2, work[p])
      BY <1>7, <2>1, <3>1, <3>2, <3>3, WorkGrows
    <3> QED BY <3>2, <3>3, <3>4
  <2>3. DOMAIN work = Queue
    BY DEF IInv, WorkInv
  <2>4. UNCHANGED <<config, monitors, queues, work>>
    BY <1>1 DEF bindings
  <2> QED BY <2>1, <2>2, <2>3, <2>4 DEF WorkInv
<1> QED BY <1>8, <1>9, <1>10 DEF IInv

\* Tasks that run hooks come to the ends of queues.
LEMMA AppendQueues ==
    ASSUME IInv, DOMAIN queues' = Queue, UNCHANGED <<config, monitors, started, cache, work>>,
           \A p \in Queue : \/ queues'[p] = queues[p]
                            \/ \E u : RunsOK(config, monitors, p, u) /\ queues'[p] = queues[p] \o u
    PROVE  QueueInv' /\ WorkInv'
<1>1. ASSUME NEW p \in Queue
      PROVE  /\ QueueOK(config, monitors, p, queues'[p])
             /\ queues[p] # << >> => queues'[p] # << >> /\ queues'[p][1] = queues[p][1]
  <2>1. QueueOK(config, monitors, p, queues[p])
    BY DEF IInv, QueueInv
  <2>2. CASE queues'[p] = queues[p]
    BY <2>1, <2>2
  <2>3. CASE \E u : RunsOK(config, monitors, p, u) /\ queues'[p] = queues[p] \o u
    <3>1. PICK u : RunsOK(config, monitors, p, u) /\ queues'[p] = queues[p] \o u
      BY <2>3
    <3>2. PICK s : s = queues[p]
      OBVIOUS
    <3>3. PICK r : r = s \o u
      OBVIOUS
    <3>4. QueueOK(config, monitors, p, r)
      BY <2>1, <3>1, <3>2, <3>3, QueueAppend
    <3>5. IsList(s) /\ IsList(u)
      BY <2>1, <3>1, <3>2 DEF QueueOK, RunsOK
    <3>6. /\ IsList(r) /\ Len(r) = Len(s) + Len(u)
          /\ \A i \in 1..Len(s) : r[i] = s[i]
      BY <3>3, <3>5, ListConcat
    <3>7. Len(s) \in Nat /\ Len(u) \in Nat /\ (s = << >> <=> Len(s) = 0) /\ (r = << >> <=> Len(r) = 0)
      BY <3>5, <3>6, ListFacts
    <3>8. s # << >> => r # << >> /\ r[1] = s[1]
      <4>1. SUFFICES ASSUME s # << >> PROVE r # << >> /\ r[1] = s[1]
        OBVIOUS
      <4>2. 1 \in 1..Len(s) /\ Len(r) # 0
        BY <3>6, <3>7, <4>1
      <4> QED BY <3>6, <3>7, <4>2
    <3> QED BY <3>1, <3>2, <3>3, <3>4, <3>8
  <2> QED BY <2>2, <2>3
<1>2. QueueInv'
  BY <1>1 DEF QueueInv
<1>3. Newer(cache, cache)
  BY NewerRefl DEF IInv, CacheInv
<1>4. ASSUME NEW p \in Queue PROVE WorkOK(config, monitors, cache, queues'[p], work[p])
  <2>1. WorkOK(config, monitors, cache, queues[p], work[p])
    BY DEF IInv, WorkInv
  <2>2. PICK s2 : s2 = queues'[p]
    OBVIOUS
  <2>3. queues[p] # << >> => s2 # << >> /\ s2[1] = queues[p][1]
    BY <1>1, <2>2
  <2>4. PICK mon2 : mon2 = monitors
    OBVIOUS
  <2>5. PICK ca2 : ca2 = cache
    OBVIOUS
  <2>6. WorkOK(config, mon2, ca2, s2, work[p])
    BY <1>3, <2>1, <2>3, <2>4, <2>5, WorkGrows
  <2> QED BY <2>2, <2>4, <2>5, <2>6
<1>5. WorkInv'
  BY <1>4 DEF IInv, WorkInv
<1> QED BY <1>2, <1>5

LEMMA HandleKubeEventStep ==
    ASSUME IInv, NEW m \in Monitor, NEW e \in event[m], HandleKubeEvent(m, e)
    PROVE  IInv'
<1>1. EventOK(config, started, cache, m, e)
  BY DEF IInv, CacheInv
<1>2. m \in started /\ e.ver \in Nat /\ e.watch \in config[m[1]].kubernetes[m[2]].events
  BY <1>1 DEF EventOK
<1>3. m \in monitors /\ m[2] \in DOMAIN config[m[1]].kubernetes /\ AllMade(config, monitors, m[1])
  BY <1>2 DEF IInv, LinkInv
<1>4. monitors # {}
  BY <1>3
<1>5. stage = "up" /\ \A h \in Hook : GoodConfig(raw[h], config[h])
  BY <1>4, BindingsUp
<1>6. PICK h \in Hook : h = m[1]
  BY DEF Monitor
<1>7. PICK i : i = m[2]
  OBVIOUS
<1>8. PICK b : b = config[h].kubernetes[i]
  OBVIOUS
<1>9. PICK ver : ver = e.ver
  OBVIOUS
<1>10. PICK watch : watch = e.watch
  OBVIOUS
<1>11. PICK type : type = "Event"
  OBVIOUS
<1>12. PICK c : c = ConvertKubeEventToBindingContext(h, i, type, watch, ver)
  OBVIOUS
<1>13. PICK snap : snap = SnapshotsFrom(h, b.include)
  OBVIOUS
<1>14. PICK ctx : ctx = [c EXCEPT !.snap = snap]
  OBVIOUS
<1>15. PICK allow : allow = b.allowFailure
  OBVIOUS
<1>16. PICK run : run = HookRun(h, ctx, allow)
  OBVIOUS
<1>17. PICK q : q = b.queue
  OBVIOUS
<1>18. queues' = [queues EXCEPT ![q] = Append(@, run)]
  <2>1. b = Kube(m[1])[m[2]]
    BY <1>6, <1>7, <1>8 DEF Kube
  <2> QED BY <1>6, <1>7, <1>9, <1>10, <1>11, <1>12, <1>13, <1>14, <1>15, <1>16, <1>17, <2>1
          DEF HandleKubeEvent
<1>19. /\ event' = [event EXCEPT ![m] = @ \ {e}]
       /\ UNCHANGED <<raw, stage, config, work, monitors, started, links, scheduleLinks, cache>>
  BY DEF HandleKubeEvent, bindings
<1>20. ver \in Nat
  BY <1>2, <1>9
<1>21. /\ DOMAIN c = ContextFields /\ c.kind = "kubernetes"
       /\ c.binding = b.name /\ c.group = b.group /\ c.include = b.include
       /\ c.type = type /\ c.watch = watch /\ c.from = i
       /\ c.object # Nil <=> b.full
  <2>1. b = Kube(h)[i]
    BY <1>8 DEF Kube
  <2> QED BY <1>12, <1>20, <2>1, KubeContext
<1>22. /\ DOMAIN ctx = ContextFields /\ ctx.kind = "kubernetes" /\ ctx.from = i
       /\ ctx.binding = b.name /\ ctx.group = b.group /\ ctx.include = b.include
       /\ ctx.type = "Event" /\ ctx.watch = watch
       /\ ctx.object = c.object
  BY <1>11, <1>14, <1>21 DEF ContextFields
<1>23. KubeRun(b, q, ctx)
  BY <1>2, <1>6, <1>7, <1>8, <1>10, <1>17, <1>21, <1>22 DEF KubeRun
<1>24. IsList(config[h].kubernetes) /\ i \in DOMAIN config[h].kubernetes
  BY <1>3, <1>5, <1>6, <1>7 DEF GoodConfig
<1>25. run.kind = "HookRun" /\ run.hook = h /\ TaskOK(config, q, run)
  BY <1>8, <1>16, <1>22, <1>23, <1>24, KubeRunOK
<1>26. RunReady(config, monitors, run)
  BY <1>3, <1>6, <1>25 DEF RunReady
<1>27. q \in Queue
  BY <1>5, <1>8, <1>17, <1>24 DEF GoodConfig, BindingOK
<1>28. PICK u : u = <<run>>
  OBVIOUS
<1>29. IsList(queues[q])
  BY <1>27 DEF IInv, QueueInv, QueueOK
<1>30. PICK s : s = queues[q]
  OBVIOUS
<1>31. IsList(u) /\ Len(u) = 1 /\ u[1] = run /\ Append(s, run) = s \o u
  BY <1>28, <1>29, <1>30, ListAppend
<1>32. RunsOK(config, monitors, q, u)
  BY <1>25, <1>26, <1>31 DEF RunsOK
<1>33. DOMAIN queues = Queue
  BY DEF IInv, QueueInv
<1>34. /\ DOMAIN queues' = Queue
       /\ queues'[q] = queues[q] \o u
       /\ \A p \in Queue : p # q => queues'[p] = queues[p]
  BY <1>18, <1>27, <1>30, <1>31, <1>33
<1>35. UNCHANGED <<config, monitors, started, cache, work>>
  BY <1>19
<1>36. \A p \in Queue : \/ queues'[p] = queues[p]
                        \/ \E v : RunsOK(config, monitors, p, v) /\ queues'[p] = queues[p] \o v
  BY <1>32, <1>34
<1>37. QueueInv' /\ WorkInv'
  BY <1>34, <1>35, <1>36, AppendQueues
<1>38. ConfigInv' /\ LinkInv'
  BY <1>19 DEF IInv, ConfigInv, LinkInv
<1>39. StartInv'
  BY <1>5, <1>19 DEF StartInv
<1>40. CacheInv'
  <2>1. /\ DOMAIN event' = Monitor
        /\ \A n \in Monitor : event'[n] \subseteq event[n]
    BY <1>19 DEF IInv, CacheInv
  <2> QED BY <1>19, <2>1 DEF IInv, CacheInv
<1> QED BY <1>37, <1>38, <1>39, <1>40 DEF IInv

\* The run a schedule link gives, and the queue it goes to.
LEMMA ScheduleRunOK ==
    ASSUME NEW h \in Hook, NEW i \in DOMAIN config[h].schedule, GoodConfig(raw[h], config[h]),
           AllMade(config, monitors, h), NEW x, x = ScheduleRun(h, i), NEW q, q = x.queue
    PROVE  /\ x.task.kind = "HookRun" /\ q \in Queue
           /\ TaskOK(config, q, x.task) /\ RunReady(config, monitors, x.task)
<1>1. PICK b : b = config[h].schedule[i]
  OBVIOUS
<1>2. PICK snap : snap = SnapshotsFrom(h, b.include)
  OBVIOUS
<1>3. PICK ctx : ctx = [[kind |-> "schedule", binding |-> b.name, group |-> b.group,
                         include |-> b.include, type |-> Unset, watch |-> Unset, object |-> Nil,
                         snap |-> NoSnapshots, from |-> 0] EXCEPT !.from = i, !.snap = snap]
  OBVIOUS
<1>4. x.task = HookRun(h, ctx, b.allowFailure) /\ x.queue = b.queue
  BY <1>1, <1>2, <1>3 DEF ScheduleRun, Context
<1>5. /\ DOMAIN ctx = ContextFields /\ ctx.kind = "schedule" /\ ctx.from = i
      /\ ctx.binding = b.name /\ ctx.group = b.group /\ ctx.include = b.include
      /\ ctx.type = Unset /\ ctx.snap = snap
  BY <1>3 DEF ContextFields
<1>6. BindingOK(config[h], b)
  BY <1>1 DEF GoodConfig
<1>7. config[h].kubernetes = << >> => snap = NoSnapshots
  <2>1. SUFFICES ASSUME config[h].kubernetes = << >> PROVE snap = NoSnapshots
    OBVIOUS
  <2>2. SnapshotNames(config[h]) = {}
    BY <2>1 DEF SnapshotNames
  <2>3. ToSet(b.include) = {}
    BY <1>6, <2>2 DEF BindingOK
  <2> QED BY <1>2, <2>3 DEF SnapshotsFrom, NoSnapshots
<1>8. SchedRun(b, q, ctx)
  BY <1>4, <1>5 DEF SchedRun
<1>9. RunOK(config[h], q, ctx)
  BY <1>1, <1>5, <1>7, <1>8 DEF RunOK, ContextFields
<1>10. x.task.kind = "HookRun" /\ x.task.hook = h /\ x.task.ctx = ctx
  BY <1>4 DEF HookRun
<1>11. TaskOK(config, q, x.task)
  BY <1>9, <1>10 DEF TaskOK
<1>12. RunReady(config, monitors, x.task)
  BY <1>10 DEF RunReady
<1>13. q \in Queue
  BY <1>4, <1>6 DEF BindingOK
<1> QED BY <1>10, <1>11, <1>12, <1>13

LEMMA HandleScheduleEventStep ==
    ASSUME IInv, NEW crontab, HandleScheduleEvent(crontab)
    PROVE  IInv'
<1>1. PICK hit : hit = {l \in scheduleLinks : config[l[1]].schedule[l[2]].crontab = crontab}
  BY Zenon
<1>2. hit # {}
  BY <1>1, Zenon DEF HandleScheduleEvent
<1>3. PICK s \in SetToSeqs(hit) :
         queues' = [q \in Queue |->
            queues[q] \o
            [i \in DOMAIN Keep([j \in DOMAIN s |-> ScheduleRun(s[j][1], s[j][2])],
                               {j \in DOMAIN [k \in DOMAIN s |-> ScheduleRun(s[k][1], s[k][2])] :
                                   [k \in DOMAIN s |-> ScheduleRun(s[k][1], s[k][2])][j].queue = q})
               |-> Keep([j \in DOMAIN s |-> ScheduleRun(s[j][1], s[j][2])],
                        {j \in DOMAIN [k \in DOMAIN s |-> ScheduleRun(s[k][1], s[k][2])] :
                            [k \in DOMAIN s |-> ScheduleRun(s[k][1], s[k][2])][j].queue = q})[i].task]]
  BY <1>1, ZenonT(60) DEF HandleScheduleEvent
<1>4. UNCHANGED <<raw, stage, config, work, monitors, started, links, scheduleLinks, cache, event>>
  BY Zenon DEF HandleScheduleEvent, bindings
<1>5. IInv /\ scheduleLinks # {}
  BY <1>1, <1>2, Zenon
<1>6. stage = "up" /\ \A h \in Hook : GoodConfig(raw[h], config[h])
  BY <1>5, BindingsUp, Zenon
<1>7. PICK runs : runs = [j \in DOMAIN s |-> ScheduleRun(s[j][1], s[j][2])]
  OBVIOUS
<1>8. IsFiniteSet(hit)
  <2>1. hit \subseteq scheduleLinks /\ IsFiniteSet(scheduleLinks)
    BY <1>1 DEF IInv, LinkInv
  <2> QED BY <2>1, FS_Subset
<1>9. PICK n \in Nat : n = Cardinality(hit)
  BY <1>8, FS_CardinalityType, Zenon
<1>10. s \in [1..n -> hit]
  BY <1>3, <1>9, Zenon DEF SetToSeqs
<1>11. IsList(runs) /\ Len(runs) = n /\ DOMAIN runs = 1..n
  <2>1. runs = [j \in 1..n |-> ScheduleRun(s[j][1], s[j][2])]
    BY <1>7, <1>10
  <2> QED BY <2>1, ListFun
<1>12. ASSUME NEW j \in 1..n, NEW q, q = runs[j].queue
       PROVE  /\ runs[j].task.kind = "HookRun"
              /\ TaskOK(config, q, runs[j].task) /\ RunReady(config, monitors, runs[j].task)
  <2>1. PICK l \in scheduleLinks : l = s[j]
    BY <1>1, <1>10
  <2>2. /\ l[1] \in Hook /\ l[2] \in DOMAIN config[l[1]].schedule
        /\ AllMade(config, monitors, l[1])
    BY DEF IInv, LinkInv
  <2>3. PICK h \in Hook : h = l[1]
    BY <2>2
  <2>4. PICK i \in DOMAIN config[h].schedule : i = l[2]
    BY <2>2, <2>3
  <2>5. PICK x : x = runs[j]
    OBVIOUS
  <2>6. x = ScheduleRun(h, i) /\ q = x.queue
    BY <1>7, <1>10, <1>12, <2>1, <2>3, <2>4, <2>5
  <2>7. GoodConfig(raw[h], config[h]) /\ AllMade(config, monitors, h)
    BY <1>6, <2>2, <2>3
  <2>8. x.task.kind = "HookRun" /\ TaskOK(config, q, x.task) /\ RunReady(config, monitors, x.task)
    BY <2>6, <2>7, ScheduleRunOK
  <2> QED BY <2>5, <2>8
<1>13. ASSUME NEW q \in Queue
       PROVE  \E u : RunsOK(config, monitors, q, u) /\ queues'[q] = queues[q] \o u
  <2>1. PICK I : I = {j \in DOMAIN runs : runs[j].queue = q}
    OBVIOUS
  <2>2. PICK f : f = Keep(runs, I)
    OBVIOUS
  <2>3. PICK u : u = [i \in DOMAIN f |-> f[i].task]
    OBVIOUS
  <2>4. queues'[q] = queues[q] \o u
    BY <1>3, <1>7, <2>1, <2>2, <2>3, Zenon
  <2>5. /\ IsList(f)
        /\ \A k \in 1..Len(f) : \E j \in 1..Len(runs) : j \in I /\ f[k] = runs[j]
    <3>1. IsList(runs)
      BY <1>11
    <3> QED BY <2>2, <3>1, KeepList, SMTT(60)
  <2>6. PICK d \in Nat : d = Len(f) /\ DOMAIN f = 1..d
    BY <2>5, ListFacts
  <2>7. IsList(u) /\ Len(u) = d /\ \A k \in 1..d : u[k] = f[k].task
    <3>1. u = [i \in 1..d |-> f[i].task]
      BY <2>3, <2>6
    <3>2. u = [i \in 1..d |-> u[i]] /\ \A k \in 1..d : u[k] = f[k].task
      BY <3>1
    <3>3. IsList(u) /\ Len(u) = d
      BY <3>2, ListFun
    <3> QED BY <3>2, <3>3
  <2>8. ASSUME NEW k \in 1..d
        PROVE  u[k].kind = "HookRun" /\ TaskOK(config, q, u[k]) /\ RunReady(config, monitors, u[k])
    <3>1. PICK j \in 1..Len(runs) : j \in I /\ f[k] = runs[j]
      BY <2>5, <2>6
    <3>2. j \in 1..n /\ q = runs[j].queue /\ u[k] = runs[j].task
      BY <1>11, <2>1, <2>7, <3>1
    <3> QED BY <1>12, <3>2
  <2>9. RunsOK(config, monitors, q, u)
    BY <2>7, <2>8, SMTT(30) DEF RunsOK
  <2> QED BY <2>4, <2>9
<1>14. DOMAIN queues' = Queue
  BY <1>3
<1>15. UNCHANGED <<config, monitors, started, cache, work>>
  BY <1>4
<1>16. QueueInv' /\ WorkInv'
  BY <1>13, <1>14, <1>15, AppendQueues
<1>17. ConfigInv' /\ LinkInv' /\ CacheInv'
  BY <1>4 DEF IInv, ConfigInv, LinkInv, CacheInv
<1>18. StartInv'
  BY <1>4, <1>6 DEF StartInv
<1> QED BY <1>16, <1>17, <1>18 DEF IInv

LEMMA EmptyQueueOK ==
    ASSUME NEW c, NEW mon, NEW q, NEW s, s = << >>
    PROVE  QueueOK(c, mon, q, s)
<1>1. IsList(s) /\ Len(s) = 0
  BY ListEmpty
<1> QED BY <1>1 DEF QueueOK

\* Before the hooks are loaded there is nothing to do.
LEMMA NotUp ==
    ASSUME IInv, stage # "up"
    PROVE  /\ \A q \in Queue : queues[q] = << >> /\ work[q] = Idle
           /\ monitors = {} /\ links = {} /\ started = {} /\ scheduleLinks = {}
           /\ \A m \in Monitor : event[m] = {}
<1>1. /\ \A q \in Queue : queues[q] = << >> /\ work[q] = Idle
      /\ monitors = {} /\ scheduleLinks = {}
  BY DEF IInv, StartInv
<1>2. links = {} /\ started = {}
  BY <1>1 DEF IInv, LinkInv
<1>3. \A m \in Monitor : event[m] = {}
  BY <1>2 DEF IInv, CacheInv, EventOK
<1> QED BY <1>1, <1>2, <1>3

LEMMA LoadHookStep ==
    ASSUME IInv, LoadHook
    PROVE  IInv'
<1>1. stage = "loading" /\ UNCHANGED <<raw, queues, work, monitors, started, links, scheduleLinks,
                                       cache, event>>
  BY DEF LoadHook, bindings, cluster
<1>2. /\ \A q \in Queue : queues[q] = << >> /\ work[q] = Idle
      /\ monitors = {} /\ links = {} /\ started = {} /\ scheduleLinks = {}
      /\ \A m \in Monitor : event[m] = {}
  BY <1>1, NotUp
<1>3. PICK h \in Hook \ DOMAIN config :
         \/ /\ Accepted(raw[h])
            /\ config' = [x \in DOMAIN config \union {h} |->
                             IF x = h THEN LoadAndValidate(raw[h]) ELSE config[x]]
            /\ UNCHANGED stage
         \/ /\ stage' = "failed"
            /\ UNCHANGED config
  BY DEF LoadHook
<1>4. ConfigInv'
  <2>1. CASE /\ Accepted(raw[h])
             /\ config' = [x \in DOMAIN config \union {h} |->
                             IF x = h THEN LoadAndValidate(raw[h]) ELSE config[x]]
             /\ UNCHANGED stage
    <3>1. PICK o \in Printed[h] : o = raw[h]
      BY DEF IInv, ConfigInv
    <3>2. PICK c : c = LoadAndValidate(o)
      OBVIOUS
    <3>3. GoodConfig(o, c)
      BY <2>1, <3>1, <3>2, AcceptedGood
    <3>4. /\ DOMAIN config' = DOMAIN config \union {h} /\ config'[h] = c
          /\ \A x \in DOMAIN config : config'[x] = config[x]
      BY <2>1, <3>1, <3>2
    <3>5. \A x \in DOMAIN config' : GoodConfig(raw[x], config'[x])
      BY <3>1, <3>3, <3>4 DEF IInv, ConfigInv
    <3>6. stage' # "up" /\ stage' \in {"loading", "failed", "up"}
      BY <1>1, <2>1
    <3> QED BY <1>1, <3>4, <3>5, <3>6 DEF IInv, ConfigInv
  <2>2. CASE stage' = "failed" /\ UNCHANGED config
    BY <1>1, <2>2 DEF IInv, ConfigInv
  <2> QED BY <1>3, <2>1, <2>2
<1>5. StartInv'
  BY <1>1, <1>2 DEF StartInv
<1>6. LinkInv'
  BY <1>1, <1>2, FS_EmptySet DEF LinkInv
<1>7. CacheInv'
  BY <1>1, <1>2 DEF IInv, CacheInv
<1>8. QueueInv'
  <2>1. PICK c2 : c2 = config'
    OBVIOUS
  <2>2. \A q \in Queue : QueueOK(c2, monitors, q, queues[q])
    BY <1>2, EmptyQueueOK
  <2> QED BY <1>1, <2>1, <2>2 DEF IInv, QueueInv
<1>9. WorkInv'
  <2>1. PICK c2 : c2 = config'
    OBVIOUS
  <2>2. \A q \in Queue : WorkOK(c2, monitors, cache, queues[q], work[q])
    BY <1>2 DEF WorkOK
  <2> QED BY <1>1, <2>1, <2>2 DEF IInv, WorkInv
<1> QED BY <1>4, <1>5, <1>6, <1>7, <1>8, <1>9 DEF IInv

Enabling == {"EnableKubernetes", "EnableSchedule"}
EnablingTasks == {EnableTask(k, h) : k \in Enabling, h \in Hook}

LEMMA EnableFields ==
    ASSUME NEW k, NEW h, NEW t, t = EnableTask(k, h)
    PROVE  t.kind = k /\ t.hook = h
<1> QED BY DEF EnableTask

\* The tasks of one hook: first EnableKubernetes, then EnableSchedule.
EnableOK(c, h, e) ==
    /\ \A j \in 1..Len(e) : e[j].hook = h /\ e[j].kind \in Enabling
    /\ \A j \in 1..Len(e) : e[j].kind = "EnableKubernetes" => j = 1
    /\ \A j \in 1..Len(e) : e[j].kind = "EnableSchedule" =>
          /\ c[h].schedule # << >>
          /\ c[h].kubernetes = << >> \/ (j # 1 /\ e[1].kind = "EnableKubernetes")

LEMMA EnableTasksOK ==
    ASSUME NEW h \in Hook, NEW e, e = EnableTasks(h)
    PROVE  e \in Seq(EnablingTasks) /\ EnableOK(config, h, e)
<1>1. PICK k : k = EnableTask("EnableKubernetes", h)
  OBVIOUS
<1>2. PICK s : s = EnableTask("EnableSchedule", h)
  OBVIOUS
<1>3. /\ k \in EnablingTasks /\ s \in EnablingTasks
      /\ k.kind = "EnableKubernetes" /\ k.hook = h /\ s.kind = "EnableSchedule" /\ s.hook = h
  BY <1>1, <1>2, EnableFields DEF EnablingTasks, Enabling
<1>4. PICK K \in BOOLEAN : K = (config[h].kubernetes # << >>)
  OBVIOUS
<1>5. PICK S \in BOOLEAN : S = (config[h].schedule # << >>)
  OBVIOUS
<1>6. e = (IF K THEN <<k>> ELSE << >>) \o (IF S THEN <<s>> ELSE << >>)
  BY <1>1, <1>2, <1>4, <1>5, Zenon DEF EnableTasks, HasBinding
<1>7. CASE K /\ S
  <2>0. PICK T : T = EnablingTasks
    OBVIOUS
  <2>1. e = <<k>> \o <<s>> /\ <<k>> \in Seq(T) /\ <<s>> \in Seq(T)
    BY <1>3, <1>6, <1>7, <2>0
  <2>2. e \in Seq(EnablingTasks) /\ Len(e) = 2 /\ e[1] = k /\ e[2] = s
    BY <2>0, <2>1
  <2>3. \A j \in 1..Len(e) : j = 1 \/ j = 2
    BY <2>2
  <2> QED BY <1>3, <1>5, <1>7, <2>2, <2>3 DEF EnableOK, Enabling
<1>8. CASE K /\ ~S
  <2>1. e = <<k>>
    BY <1>6, <1>8
  <2>2. e \in Seq(EnablingTasks) /\ Len(e) = 1 /\ e[1] = k
    BY <1>3, <2>1
  <2>3. \A j \in 1..Len(e) : j = 1
    BY <2>2
  <2> QED BY <1>3, <2>2, <2>3 DEF EnableOK, Enabling
<1>9. CASE ~K /\ S
  <2>1. e = <<s>>
    BY <1>6, <1>9
  <2>2. e \in Seq(EnablingTasks) /\ Len(e) = 1 /\ e[1] = s
    BY <1>3, <2>1
  <2>3. \A j \in 1..Len(e) : j = 1
    BY <2>2
  <2> QED BY <1>3, <1>4, <1>5, <1>9, <2>2, <2>3 DEF EnableOK, Enabling
<1>10. CASE ~K /\ ~S
  <2>1. e = << >>
    BY <1>6, <1>10
  <2>2. e \in Seq(EnablingTasks) /\ Len(e) = 0
    BY <2>1
  <2> QED BY <2>2 DEF EnableOK
<1> QED BY <1>7, <1>8, <1>9, <1>10

LEMMA QueuePrepend ==
    ASSUME NEW c, NEW mon, NEW q, NEW t, QueueOK(c, mon, q, t),
           NEW u, RunsOK(c, mon, q, u), NEW r, r = u \o t
    PROVE  QueueOK(c, mon, q, r)
<1>1. IsList(t) /\ IsList(u)
  BY DEF QueueOK, RunsOK
<1>2. Len(t) \in Nat /\ Len(u) \in Nat
  BY <1>1, ListFacts
<1>3. /\ IsList(r) /\ Len(r) = Len(u) + Len(t)
      /\ \A i \in 1..Len(u) : r[i] = u[i]
      /\ \A i \in 1..Len(t) : r[Len(u) + i] = t[i]
      /\ \A i \in 1..(Len(u) + Len(t)) :
            \/ i \in 1..Len(u)
            \/ i - Len(u) \in 1..Len(t) /\ r[i] = t[i - Len(u)]
  BY <1>1, ListConcat
<1>4. ASSUME NEW k \in 1..Len(u)
      PROVE  r[k].kind = "HookRun" /\ TaskOK(c, q, r[k]) /\ RunReady(c, mon, r[k])
  BY <1>3 DEF RunsOK
<1>5. ASSUME NEW k \in 1..Len(r), k \notin 1..Len(u)
      PROVE  \E i \in 1..Len(t) : k = Len(u) + i /\ r[k] = t[i]
  <2>1. PICK i \in 1..Len(t) : i = k - Len(u) /\ r[k] = t[i]
    BY <1>3, <1>5
  <2> QED BY <1>2, <2>1
<1>6. ASSUME NEW k \in 1..Len(r) PROVE TaskOK(c, q, r[k]) /\ RunReady(c, mon, r[k])
  BY <1>4, <1>5 DEF QueueOK
<1>7. ASSUME NEW k \in 1..Len(r), r[k].kind = "EnableSchedule"
      PROVE  \/ AllMade(c, mon, r[k].hook)
             \/ \E j \in 1..(k - 1) : Enables(r[j], "EnableKubernetes", r[k].hook)
  <2>1. PICK i \in 1..Len(t) : k = Len(u) + i /\ r[k] = t[i]
    BY <1>4, <1>5, <1>7
  <2>2. CASE AllMade(c, mon, t[i].hook)
    BY <2>1, <2>2
  <2>3. CASE \E j \in 1..(i - 1) : Enables(t[j], "EnableKubernetes", t[i].hook)
    <3>1. PICK j \in 1..(i - 1) : Enables(t[j], "EnableKubernetes", t[i].hook)
      BY <2>3
    <3>2. j \in 1..Len(t) /\ Len(u) + j \in 1..(k - 1)
      BY <1>2, <2>1
    <3>3. r[Len(u) + j] = t[j]
      BY <1>3, <3>2
    <3> QED BY <2>1, <3>1, <3>2, <3>3
  <2> QED BY <1>7, <2>1, <2>2, <2>3 DEF QueueOK
<1> QED BY <1>3, <1>6, <1>7 DEF QueueOK

LEMMA EnablingQueue ==
    ASSUME NEW mon, NEW L, L = [i \in DOMAIN HookNames |-> EnableTasks(HookNames[i])],
           NEW f, f = FlattenSeq(L), NEW q, q = "main"
    PROVE  QueueOK(config, mon, q, f)
<1>1. HookNames \in Seq(Hook) /\ IsInjective(HookNames)
  BY HookRunsAssumption
<1>2. PICK n \in Nat : n = Len(HookNames) /\ DOMAIN HookNames = 1..n
  BY <1>1
<1>3. \A i \in 1..n : HookNames[i] \in Hook
  BY <1>1, <1>2
<1>4. ASSUME NEW i \in 1..n
      PROVE  L[i] \in Seq(EnablingTasks) /\ EnableOK(config, HookNames[i], L[i])
  <2>1. PICK h \in Hook : h = HookNames[i]
    BY <1>3
  <2>2. PICK e : e = L[i]
    OBVIOUS
  <2>3. e = EnableTasks(h)
    BY <1>2, <2>1, <2>2
  <2>4. e \in Seq(EnablingTasks) /\ EnableOK(config, h, e)
    BY <2>3, EnableTasksOK
  <2> QED BY <2>1, <2>2, <2>4
<1>5. PICK A : A = EnablingTasks
  OBVIOUS
<1>6. L \in Seq(Seq(A)) /\ Len(L) = n
  <2>1. L \in [1..n -> Seq(A)]
    BY <1>2, <1>4, <1>5
  <2> QED BY <2>1
<1>7. f \in Seq(A) /\ \E row, col : Places(L, f, row, col)
  BY <1>6, FlattenPlaces
<1>8. PICK row, col : Places(L, f, row, col)
  BY <1>7
<1>9. IsList(f) /\ Len(f) \in Nat
  BY <1>7, ListOf
<1>10. ASSUME NEW k \in 1..Len(f)
       PROVE  /\ row[k] \in 1..n /\ col[k] \in 1..Len(L[row[k]]) /\ f[k] = L[row[k]][col[k]]
              /\ f[k].hook = HookNames[row[k]] /\ f[k].kind \in Enabling
              /\ EnableOK(config, HookNames[row[k]], L[row[k]])
  <2>1. row[k] \in 1..n /\ col[k] \in 1..Len(L[row[k]]) /\ f[k] = L[row[k]][col[k]]
    BY <1>6, <1>8 DEF Places
  <2>2. EnableOK(config, HookNames[row[k]], L[row[k]])
    BY <1>4, <2>1
  <2>3. f[k].hook = HookNames[row[k]] /\ f[k].kind \in Enabling
    BY <2>1, <2>2 DEF EnableOK
  <2> QED BY <2>1, <2>2, <2>3
<1>11. ASSUME NEW k \in 1..Len(f) PROVE TaskOK(config, q, f[k]) /\ RunReady(config, mon, f[k])
  <2>1. f[k].hook \in Hook
    BY <1>3, <1>10
  <2>2. f[k].kind = "EnableSchedule" => config[f[k].hook].schedule # << >>
    BY <1>10 DEF EnableOK
  <2>3. f[k].kind \in {"EnableKubernetes", "EnableSchedule"}
    BY <1>10 DEF Enabling
  <2> QED BY <2>1, <2>2, <2>3 DEF TaskOK, RunReady
<1>12. ASSUME NEW k \in 1..Len(f), f[k].kind = "EnableSchedule"
       PROVE  \/ AllMade(config, mon, f[k].hook)
              \/ \E j \in 1..(k - 1) : Enables(f[j], "EnableKubernetes", f[k].hook)
  <2>1. PICK h : h = f[k].hook
    OBVIOUS
  <2>2. PICK e : e = L[row[k]]
    OBVIOUS
  <2>3. /\ row[k] \in 1..n /\ h = HookNames[row[k]] /\ EnableOK(config, h, e)
        /\ col[k] \in 1..Len(e) /\ f[k] = e[col[k]]
    BY <1>10, <2>1, <2>2
  <2>4. \/ config[h].kubernetes = << >>
        \/ col[k] # 1 /\ e[1].kind = "EnableKubernetes"
    BY <1>12, <2>3 DEF EnableOK
  <2>5. CASE config[h].kubernetes = << >>
    <3>1. AllMade(config, mon, h)
      BY <2>5 DEF AllMade
    <3> QED BY <2>1, <3>1
  <2>6. CASE col[k] # 1 /\ e[1].kind = "EnableKubernetes"
    <3>1. e \in Seq(EnablingTasks)
      BY <1>4, <2>2, <2>3
    <3>2. 1 \in 1..Len(e)
      BY <2>3, <3>1
    <3>3. PICK j \in 1..Len(f) : row[j] = row[k] /\ col[j] = 1
      <4>1. PICK i \in 1..Len(L) : i = row[k] /\ e = L[i]
        BY <1>6, <2>2, <2>3
      <4>2. \A a \in 1..Len(L) : \A b \in 1..Len(L[a]) : \E c \in 1..Len(f) : row[c] = a /\ col[c] = b
        BY <1>8 DEF Places
      <4>3. \A b \in 1..Len(e) : \E c \in 1..Len(f) : row[c] = i /\ col[c] = b
        BY <4>1, <4>2
      <4> QED BY <3>2, <4>1, <4>3
    <3>4. f[j] = e[1] /\ f[j].hook = h
      BY <1>10, <2>2, <2>3, <3>3
    <3>5. \A a, b \in 1..Len(f) :
             a < b => row[a] < row[b] \/ (row[a] = row[b] /\ col[a] < col[b])
      BY <1>8 DEF Places
    <3>6. ~(k < j)
      <4>1. SUFFICES ASSUME k < j PROVE FALSE
        OBVIOUS
      <4>2. row[k] < row[j] \/ (row[k] = row[j] /\ col[k] < col[j])
        BY <3>5, <4>1
      <4>3. row[k] \in Nat /\ col[k] \in Nat /\ col[k] >= 1
        BY <2>3, <3>1
      <4> QED BY <3>3, <4>2, <4>3
    <3>7. j # k
      BY <2>6, <3>3
    <3>8. j \in 1..(k - 1)
      BY <1>9, <3>6, <3>7
    <3>9. Enables(f[j], "EnableKubernetes", h)
      BY <2>6, <3>4 DEF Enables
    <3> QED BY <2>1, <3>8, <3>9
  <2> QED BY <2>4, <2>5, <2>6
<1> QED BY <1>9, <1>11, <1>12 DEF QueueOK

LEMMA PrepopulateStep ==
    ASSUME IInv, PrepopulateMainQueue
    PROVE  IInv'
<1>1. /\ stage = "loading" /\ DOMAIN config = Hook /\ stage' = "up"
      /\ UNCHANGED <<raw, config, work, monitors, started, links, scheduleLinks, cache, event>>
  BY DEF PrepopulateMainQueue, bindings, cluster
<1>2. /\ \A q \in Queue : queues[q] = << >> /\ work[q] = Idle
      /\ monitors = {} /\ links = {} /\ started = {} /\ scheduleLinks = {}
  BY <1>1, NotUp
<1>3. PICK L : L = [i \in DOMAIN HookNames |-> EnableTasks(HookNames[i])]
  OBVIOUS
<1>4. PICK f : f = FlattenSeq(L)
  OBVIOUS
<1>5. PICK s \in UNION {SetToSeqs(hs) : hs \in SUBSET Hook} :
         queues' = [queues EXCEPT !["main"] =
                       [i \in DOMAIN s |-> HookRun(s[i], OnStartupContext, FALSE)] \o f]
  BY <1>3, <1>4, Zenon DEF PrepopulateMainQueue
<1>6. PICK hs \in SUBSET Hook : s \in SetToSeqs(hs)
  BY <1>5
<1>7. IsFiniteSet(Hook)
  <2>1. HookNames \in Seq(Hook)
    BY HookRunsAssumption
  <2>2. PICK n \in Nat : n = Len(HookNames) /\ DOMAIN HookNames = 1..n
    BY <2>1
  <2>3. IsFiniteSet(1..n)
    BY FS_Interval
  <2>4. PICK D : D = 1..n
    OBVIOUS
  <2>5. HookNames \in [D -> Hook] /\ IsFiniteSet(D) /\ Hook = {HookNames[i] : i \in D}
    BY <2>1, <2>2, <2>3, <2>4 DEF Hook, ToSet
  <2>6. HookNames \in Surjection(D, Hook)
    BY <2>5 DEF Surjection
  <2> QED BY <2>5, <2>6, FS_Surjection
<1>8. IsFiniteSet(hs)
  BY <1>6, <1>7, FS_Subset
<1>9. PICK n \in Nat : n = Cardinality(hs)
  BY <1>8, FS_CardinalityType
<1>10. s \in [1..n -> Hook]
  BY <1>6, <1>9 DEF SetToSeqs
<1>11. PICK u : u = [i \in DOMAIN s |-> HookRun(s[i], OnStartupContext, FALSE)]
  OBVIOUS
<1>12. PICK q : q = "main"
  OBVIOUS
<1>13. RunsOK(config, monitors, q, u)
  <2>1. u = [i \in 1..n |-> HookRun(s[i], OnStartupContext, FALSE)]
    BY <1>10, <1>11
  <2>2. u = [i \in 1..n |-> u[i]] /\ \A i \in 1..n : u[i] = HookRun(s[i], OnStartupContext, FALSE)
    BY <2>1
  <2>3. IsList(u) /\ Len(u) = n
    BY <2>2, ListFun
  <2>4. ASSUME NEW k \in 1..n
        PROVE  u[k].kind = "HookRun" /\ TaskOK(config, q, u[k]) /\ RunReady(config, monitors, u[k])
    <3>1. PICK ctx : ctx = OnStartupContext
      OBVIOUS
    <3>2. u[k].kind = "HookRun" /\ u[k].hook = s[k] /\ u[k].ctx = ctx /\ s[k] \in Hook
      BY <1>10, <2>2, <3>1 DEF HookRun
    <3>3. DOMAIN ctx = ContextFields /\ ctx.kind = "onStartup" /\ ctx.snap = NoSnapshots
      BY <3>1 DEF OnStartupContext, Context, ContextFields
    <3>4. RunOK(config[s[k]], q, ctx)
      BY <3>3 DEF RunOK, ContextFields
    <3> QED BY <3>2, <3>3, <3>4 DEF TaskOK, RunReady
  <2> QED BY <2>3, <2>4 DEF RunsOK
<1>14. QueueOK(config, monitors, q, f)
  BY <1>2, <1>3, <1>4, <1>12, EnablingQueue
<1>15. PICK r : r = u \o f
  OBVIOUS
<1>16. QueueOK(config, monitors, q, r)
  BY <1>13, <1>14, <1>15, QueuePrepend
<1>17. DOMAIN queues = Queue /\ q \in Queue
  BY <1>12, HookRunsAssumption DEF IInv, QueueInv
<1>18. /\ DOMAIN queues' = Queue /\ queues'[q] = r
       /\ \A p \in Queue : p # q => queues'[p] = << >>
  BY <1>2, <1>5, <1>11, <1>12, <1>15, <1>17
<1>19. ASSUME NEW p \in Queue PROVE QueueOK(config, monitors, p, queues'[p])
  <2>1. CASE p = q
    BY <1>16, <1>18, <2>1
  <2>2. CASE p # q
    <3>1. PICK x : x = queues'[p]
      OBVIOUS
    <3>2. QueueOK(config, monitors, p, x)
      BY <1>18, <2>2, <3>1, EmptyQueueOK
    <3> QED BY <3>1, <3>2
  <2> QED BY <2>1, <2>2
<1>20. QueueInv'
  BY <1>1, <1>18, <1>19 DEF QueueInv
<1>21. WorkInv'
  <2>1. \A p \in Queue : WorkOK(config, monitors, cache, queues'[p], work[p])
    BY <1>2 DEF WorkOK
  <2> QED BY <1>1, <2>1 DEF IInv, WorkInv
<1>22. ConfigInv'
  BY <1>1 DEF IInv, ConfigInv
<1>23. StartInv'
  BY <1>1 DEF StartInv
<1>24. LinkInv' /\ CacheInv'
  BY <1>1 DEF IInv, LinkInv, CacheInv
<1> QED BY <1>20, <1>21, <1>22, <1>23, <1>24 DEF IInv

LEMMA InvStep == IInv /\ [Next]_vars => IInv'
<1> SUFFICES ASSUME IInv, [Next]_vars PROVE IInv'
  OBVIOUS
<1>1. CASE LoadHook
  BY <1>1, LoadHookStep
<1>2. CASE PrepopulateMainQueue
  BY <1>2, PrepopulateStep
<1>3. ASSUME NEW q \in Queue, Begin(q) PROVE IInv'
  BY <1>3, BeginStep
<1>4. ASSUME NEW q \in Queue, AddMonitor(q) PROVE IInv'
  BY <1>4, AddMonitorStep
<1>5. ASSUME NEW q \in Queue, AddMonitorFails(q) PROVE IInv'
  BY <1>5, AddMonitorFailsStep
<1>6. ASSUME NEW q \in Queue, KubernetesEnabled(q) PROVE IInv'
  BY <1>6, KubernetesEnabledStep
<1>7. ASSUME NEW q \in Queue, EnableSchedule(q) PROVE IInv'
  BY <1>7, EnableScheduleStep
<1>8. ASSUME NEW q \in Queue, ReadSnapshot(q) PROVE IInv'
  BY <1>8, ReadSnapshotStep
<1>9. ASSUME NEW q \in Queue, RunHook(q) PROVE IInv'
  BY <1>9, RunHookStep
<1>10. ASSUME NEW q \in Queue, HookSucceeds(q) PROVE IInv'
  BY <1>10, HookSucceedsStep
<1>11. ASSUME NEW q \in Queue, HookFails(q) PROVE IInv'
  BY <1>11, HookFailsStep
<1>12. ASSUME NEW m \in Monitor, NEW watch, Change(m, watch) PROVE IInv'
  BY <1>12, ChangeStep
<1>13. ASSUME NEW m \in Monitor, NEW e \in event[m], HandleKubeEvent(m, e) PROVE IInv'
  BY <1>13, HandleKubeEventStep
<1>14. ASSUME NEW c, HandleScheduleEvent(c) PROVE IInv'
  BY <1>14, HandleScheduleEventStep
<1>15. ASSUME NEW q \in Queue, StartMonitor(q) PROVE IInv'
  BY <1>15, StartMonitorStep
<1>16. CASE UNCHANGED vars
  BY <1>16 DEF vars, IInv, ConfigInv, StartInv, LinkInv, CacheInv, QueueInv, WorkInv
<1> QED BY <1>1, <1>2, <1>3, <1>4, <1>5, <1>6, <1>7, <1>8, <1>9, <1>10, <1>11, <1>12, <1>13,
           <1>14, <1>15, <1>16 DEF Next

\* The inductive invariant of all that follows: configurations are the ones asked
\* for, the main queue enables kubernetes bindings before schedules, an event was cached
\* before it is reported, and what the workers hold belongs to the task at the head of their queue.
THEOREM RunsInvariant == Spec => []IInv
<1> QED BY InitInv, InvStep, PTL DEF Spec

-----------------------------------------------------------------------------
(* What the invariant says of the properties of HookRuns.                  *)

\* A run is about a hook that was loaded, a link stands for a monitor, and an event
\* on its way is one its binding wants, of a started monitor whose snapshots have
\* this change already, whatever else the monitor has seen since.
THEOREM RunsTypeCorrect == Spec => []TypeOK
<1>1. ASSUME IInv PROVE TypeOK
  <2>1. stage \in {"loading", "failed", "up"} /\ DOMAIN config \subseteq Hook
    BY <1>1 DEF IInv, ConfigInv
  <2>2. ASSUME NEW q \in Queue, NEW i \in DOMAIN queues[q] PROVE queues[q][i].hook \in DOMAIN config
    <3>1. QueueOK(config, monitors, q, queues[q])
      BY <1>1 DEF IInv, QueueInv
    <3>2. IsList(queues[q])
      BY <3>1 DEF QueueOK
    <3>3. i \in 1..Len(queues[q]) /\ queues[q] # << >>
      BY <3>2, ListFacts
    <3>4. TaskOK(config, q, queues[q][i])
      BY <3>1, <3>3 DEF QueueOK
    <3>5. DOMAIN config = Hook
      BY <1>1, <3>3, Up
    <3> QED BY <3>4, <3>5 DEF TaskOK
  <2>3. ASSUME NEW q \in Queue, work[q].at = "hook" PROVE Head(queues[q]).kind = "HookRun"
    <3>1. Head(queues[q]) = queues[q][1] /\ HookOK(config, cache, queues[q][1], work[q])
      BY <1>1, <2>3, Current
    <3> QED BY <3>1 DEF HookOK
  <2>4. started \subseteq links /\ links \subseteq monitors /\ monitors \subseteq Monitor
    BY <1>1 DEF IInv, LinkInv
  <2>5. /\ \A m \in Monitor : \A e \in event[m] :
              m \in started /\ e.ver <= cache[m] /\ e.watch \in Kube(m[1])[m[2]].events
        /\ cache \in [Monitor -> 0..MaxChanges]
    BY <1>1 DEF IInv, CacheInv, EventOK, Kube
  <2> QED BY <2>1, <2>2, <2>3, <2>4, <2>5 DEF TypeOK
<1> QED BY <1>1, RunsInvariant, PTL

\* The context and the snapshots the file of a running hook was made from.
FileFrom(h, q, ctx, since, snap, f) ==
    /\ h \in Hook /\ GoodConfig(raw[h], config[h])
    /\ RunOK(config[h], q, ctx)
    /\ DOMAIN snap = ToSet(SnapshotsOf(config[h], ctx.kind, ctx.binding))
    /\ snap # Nil
    /\ SnapOK(config, cache, since, h, snap)
    /\ f # Nil
    /\ f = ConvertBindingContext(config[h].version, [ctx EXCEPT !.snap = snap])

LEMMA RunningFile ==
    ASSUME IInv, NEW q \in Queue, Running(q), NEW t, t = Head(queues[q])
    PROVE  /\ t.kind = "HookRun"
           /\ \E snap : FileFrom(t.hook, q, t.ctx, work[q].since, snap, work[q].file)
<1>1. work[q].at = "hook"
  BY DEF Running
<1>2. /\ queues[q] # << >> /\ t = queues[q][1] /\ TaskOK(config, q, t) /\ t.hook \in Hook
      /\ HookOK(config, cache, t, work[q])
  BY <1>1, Current
<1>3. \A h \in Hook : GoodConfig(raw[h], config[h])
  BY <1>2, Up
<1>4. PICK h \in Hook : h = t.hook
  BY <1>2
<1>5. t.kind = "HookRun" /\ work[q].file # Nil
  BY <1>2 DEF HookOK
<1>6. RunOK(config[h], q, t.ctx)
  BY <1>2, <1>4, <1>5, Zenon DEF TaskOK
<1>7. PICK S \in SUBSET SnapshotNames(config[h]) :
         \E snap \in [S -> [of : DOMAIN config[h].kubernetes, ver : 0..MaxChanges]] :
           /\ DOMAIN snap = ToSet(SnapshotsOf(config[h], t.ctx.kind, t.ctx.binding))
           /\ SnapOK(config, cache, work[q].since, h, snap)
           /\ work[q].file = ConvertBindingContext(config[h].version, [t.ctx EXCEPT !.snap = snap])
  BY <1>2, <1>4 DEF HookOK
<1>8. PICK snap \in [S -> [of : DOMAIN config[h].kubernetes, ver : 0..MaxChanges]] :
           /\ DOMAIN snap = ToSet(SnapshotsOf(config[h], t.ctx.kind, t.ctx.binding))
           /\ SnapOK(config, cache, work[q].since, h, snap)
           /\ work[q].file = ConvertBindingContext(config[h].version, [t.ctx EXCEPT !.snap = snap])
  BY <1>7
<1>9. snap # Nil
  <2>1. snap \in [S -> [of : Nat, ver : Nat]]
    <3>1. DOMAIN snap = S
      BY <1>8
    <3>2. snap \in [DOMAIN snap -> [of : Nat, ver : Nat]]
      BY <1>8 DEF SnapOK
    <3> QED BY <3>1, <3>2
  <2>2. Nil \notin [S -> [of : Nat, ver : Nat]]
    BY <1>3 DEF GoodConfig
  <2> QED BY <2>1, <2>2
<1>10. FileFrom(t.hook, q, t.ctx, work[q].since, snap, work[q].file)
  BY <1>3, <1>4, <1>5, <1>6, <1>8, <1>9 DEF FileFrom
<1> QED BY <1>5, <1>10

\* The context with the snapshots that were read for it.
Refreshed(ctx, snap, c) == c = [ctx EXCEPT !.snap = snap]

\* MapV1, case by case.
LEMMA FileV1 ==
    ASSUME NEW cf, NEW q, NEW ctx, RunOK(cf, q, ctx), NEW snap,
           NEW c, Refreshed(ctx, snap, c), NEW f, f = MapV1(c)
    PROVE  /\ ctx.kind = "onStartup" => f.snapshots = Nil
           /\ ctx.kind # "onStartup" =>
                 /\ f.snapshots = IF ctx.include = << >> THEN Nil ELSE snap
                 /\ f.binding = IF ctx.group # Unset THEN ctx.group ELSE ctx.binding
           /\ ctx.kind # "onStartup" /\ ctx.group # Unset => f.type = "Group"
           /\ ctx.kind = "schedule" /\ ctx.group = Unset => f.type = "Schedule"
           /\ ctx.kind = "kubernetes" /\ ctx.group = Unset => f.object = ctx.object
<1>1. /\ c.kind = ctx.kind /\ c.binding = ctx.binding /\ c.group = ctx.group
      /\ c.include = ctx.include /\ c.object = ctx.object /\ c.snap = snap
  BY DEF RunOK, Refreshed
<1>2. c.kind \in {"onStartup", "kubernetes", "schedule"}
  BY <1>1 DEF RunOK
<1>3. PICK s : s = IF c.include = << >> THEN Nil ELSE c.snap
  OBVIOUS
<1>4. CASE c.kind = "onStartup"
  <2>1. f = File(c.binding, Nil, Nil, Nil, Nil)
    BY <1>4 DEF MapV1
  <2>2. f.snapshots = Nil
    BY <2>1 DEF File
  <2> QED BY <1>1, <1>4, <2>2
<1>5. CASE c.kind # "onStartup" /\ c.group # Unset
  <2>1. f = File(c.group, "Group", Nil, Nil, s)
    BY <1>3, <1>5 DEF MapV1
  <2>2. f.snapshots = s /\ f.binding = c.group /\ f.type = "Group"
    BY <2>1 DEF File
  <2> QED BY <1>1, <1>3, <1>5, <2>2
<1>6. CASE c.kind = "schedule" /\ c.group = Unset
  <2>1. f = File(c.binding, "Schedule", Nil, Nil, s)
    BY <1>3, <1>6 DEF MapV1
  <2>2. f.snapshots = s /\ f.binding = c.binding /\ f.type = "Schedule"
    BY <2>1 DEF File
  <2> QED BY <1>1, <1>3, <1>6, <2>2
<1>7. CASE c.kind = "kubernetes" /\ c.group = Unset
  <2>1. PICK watch : watch = IF c.watch = Unset THEN Nil ELSE c.watch
    OBVIOUS
  <2>2. f = File(c.binding, c.type, watch, c.object, s)
    BY <1>3, <1>7, <2>1 DEF MapV1
  <2>3. f.snapshots = s /\ f.binding = c.binding /\ f.object = c.object
    BY <2>2 DEF File
  <2> QED BY <1>1, <1>3, <1>7, <2>3
<1> QED BY <1>2, <1>4, <1>5, <1>6, <1>7

\* The file has the snapshots that were read, or none.
LEMMA FileSnapshots ==
    ASSUME NEW h, NEW q, NEW ctx, NEW since, NEW snap, NEW f, FileFrom(h, q, ctx, since, snap, f)
    PROVE  f.snapshots = Nil \/ f.snapshots = snap
<1>1. config[h].version \in {"v0", "v1"} /\ RunOK(config[h], q, ctx)
  BY DEF FileFrom, GoodConfig
<1>2. CASE config[h].version = "v0"
  <2>1. PICK c : c = [ctx EXCEPT !.snap = snap]
    OBVIOUS
  <2>2. f = MapV0(c) /\ f # Nil
    BY <1>2, <2>1 DEF FileFrom, ConvertBindingContext
  <2>3. PICK w : w = CHOOSE e \in DOMAIN EventV0 : EventV0[e] = c.watch
    OBVIOUS
  <2>4. f = File(c.binding, Nil, Nil, Nil, Nil) \/ f = File(c.binding, Nil, w, c.object, Nil)
    BY <2>2, <2>3 DEF MapV0
  <2>5. f.snapshots = Nil
    BY <2>4 DEF File
  <2> QED BY <2>5
<1>3. CASE config[h].version = "v1"
  <2>1. PICK c : Refreshed(ctx, snap, c)
    BY DEF Refreshed
  <2>2. f = MapV1(c)
    BY <1>3, <2>1 DEF FileFrom, ConvertBindingContext, Refreshed
  <2>3. /\ ctx.kind = "onStartup" => f.snapshots = Nil
        /\ ctx.kind # "onStartup" => f.snapshots = IF ctx.include = << >> THEN Nil ELSE snap
    BY <1>1, <2>1, <2>2, FileV1
  <2> QED BY <2>3
<1> QED BY <1>1, <1>2, <1>3

\* The snapshots a hook is given, also when a run is repeated, are not older than
\* the run: what monitors saw while its task waited is in them.
THEOREM RunsWithFreshSnapshots == Spec => []SnapshotsFresh
<1>1. ASSUME IInv PROVE SnapshotsFresh
  <2> SUFFICES ASSUME NEW q \in Queue, Running(q), work[q].file.snapshots # Nil,
                      NEW n \in DOMAIN work[q].file.snapshots,
                      work[q].file.snapshots[n].of # 0
               PROVE  LET s == work[q].file.snapshots[n]
                          m == <<Head(queues[q]).hook, s.of>>
                      IN work[q].since[m] <= s.ver /\ s.ver <= cache[m]
    BY DEF SnapshotsFresh
  <2>1. PICK t : t = Head(queues[q])
    OBVIOUS
  <2>2. PICK snap : FileFrom(t.hook, q, t.ctx, work[q].since, snap, work[q].file)
    BY <1>1, <2>1, RunningFile
  <2>3. work[q].file.snapshots = snap
    BY <2>2, FileSnapshots
  <2>4. SnapOK(config, cache, work[q].since, t.hook, snap)
    BY <2>2 DEF FileFrom
  <2>5. /\ work[q].since[<<t.hook, snap[n].of>>] <= snap[n].ver
        /\ snap[n].ver <= cache[<<t.hook, snap[n].of>>]
    BY <2>3, <2>4 DEF SnapOK
  <2> QED BY <2>1, <2>3, <2>5
<1> QED BY <1>1, RunsInvariant, PTL

\* What the file of a hook of version v1 was made from.
LEMMA FileOfV1 ==
    ASSUME NEW h, NEW q, NEW ctx, NEW since, NEW snap, NEW f, FileFrom(h, q, ctx, since, snap, f),
           config[h].version = "v1"
    PROVE  \E c : Refreshed(ctx, snap, c) /\ f = MapV1(c)
<1>1. PICK c : Refreshed(ctx, snap, c)
  BY DEF Refreshed
<1>2. f = MapV1(c)
  BY <1>1 DEF FileFrom, ConvertBindingContext, Refreshed
<1> QED BY <1>1, <1>2

\* The binding a run is for, and what was printed for it.
BindingRun(h, q, ctx, o, b) ==
    /\ ctx.kind \in {"kubernetes", "schedule"}
    /\ ctx.from \in DOMAIN config[h][ctx.kind] /\ b = config[h][ctx.kind][ctx.from]
    /\ Asked(raw[h], o, ctx.kind, b)
    /\ ctx.kind = "kubernetes" => KubeRun(b, q, ctx) /\ AskedKube(o, b)
    /\ ctx.kind = "schedule" => SchedRun(b, q, ctx)

LEMMA RunOfBinding ==
    ASSUME NEW h, NEW q, NEW ctx, NEW since, NEW snap, NEW f, FileFrom(h, q, ctx, since, snap, f),
           config[h].version = "v1", ctx.kind # "onStartup", NEW o, o = RawOf(h, ctx)
    PROVE  \E b : BindingRun(h, q, ctx, o, b)
<1>1. GoodConfig(raw[h], config[h]) /\ RunOK(config[h], q, ctx)
  BY DEF FileFrom
<1>2. CASE ctx.kind = "kubernetes"
  <2>1. ctx.from \in DOMAIN config[h].kubernetes /\ KubeRun(config[h].kubernetes[ctx.from], q, ctx)
    BY <1>1, <1>2 DEF RunOK
  <2>2. o = raw[h].kubernetes[ctx.from]
    BY <1>2 DEF RawOf
  <2>3. /\ Asked(raw[h], o, "kubernetes", config[h].kubernetes[ctx.from])
        /\ AskedKube(o, config[h].kubernetes[ctx.from])
    BY <1>1, <2>1, <2>2 DEF GoodConfig
  <2>4. BindingRun(h, q, ctx, o, config[h].kubernetes[ctx.from])
    BY <1>2, <2>1, <2>3 DEF BindingRun
  <2> QED BY <2>4
<1>3. CASE ctx.kind = "schedule"
  <2>1. ctx.from \in DOMAIN config[h].schedule /\ SchedRun(config[h].schedule[ctx.from], q, ctx)
    BY <1>1, <1>3 DEF RunOK
  <2>2. o = raw[h].schedule[ctx.from]
    BY <1>3 DEF RawOf
  <2>3. Asked(raw[h], o, "schedule", config[h].schedule[ctx.from])
    BY <1>1, <2>1, <2>2 DEF GoodConfig
  <2>4. BindingRun(h, q, ctx, o, config[h].schedule[ctx.from])
    BY <1>3, <2>1, <2>3 DEF BindingRun
  <2> QED BY <2>4
<1> QED BY <1>1, <1>2, <1>3 DEF RunOK

LEMMA NoType == Unset # "Event" /\ Unset # "Synchronization"
BY Zenon DEF Unset

\* A hook is run only for what its configuration asks for: Synchronization unless
\* it was refused, the events listed and no others, in its queue, under the name
\* of its group or binding, with full objects unless these are not kept.
THEOREM RunsOnlyAsAsked == Spec => []RunsAsAsked
<1>1. ASSUME IInv PROVE RunsAsAsked
  <2> SUFFICES ASSUME NEW q \in Queue, Running(q), NEW t, t = Head(queues[q]),
                      NEW f, f = work[q].file, NEW o, o = RawOf(t.hook, t.ctx),
                      NEW group, group = Get(o, "group", Unset), IsBindingRun(t)
               PROVE  /\ f.binding = IF group # Unset THEN group ELSE NameOr(o, t.ctx.kind)
                      /\ t.ctx.type # "Synchronization" => q = QueueOrMain(o)
                      /\ t.ctx.type = "Synchronization" =>
                            Get(o, "executeHookOnSynchronization", TRUE)
                      /\ t.ctx.type = "Event" =>
                            t.ctx.watch \in ToSet(Get(o, "executeHookOnEvent",
                                Get(o, "watchEvent", <<"Added", "Modified", "Deleted">>)))
                      /\ f.type \in {"Synchronization", "Event"} =>
                            (f.object # Nil <=> Get(o, "keepFullObjectsInMemory", TRUE))
    BY DEF RunsAsAsked
  <2>1. PICK h : h = t.hook
    OBVIOUS
  <2>2. PICK ctx : ctx = t.ctx
    OBVIOUS
  <2>3. PICK snap : FileFrom(h, q, ctx, work[q].since, snap, f)
    BY <1>1, <2>1, <2>2, RunningFile
  <2>4. config[h].version = "v1" /\ ctx.kind # "onStartup"
    BY <2>1, <2>2 DEF IsBindingRun
  <2>5. o = RawOf(h, ctx)
    BY <2>1, <2>2
  <2>6. PICK b : BindingRun(h, q, ctx, o, b)
    BY <2>3, <2>4, <2>5, RunOfBinding
  <2>7. PICK c : Refreshed(ctx, snap, c) /\ f = MapV1(c)
    BY <2>3, <2>4, FileOfV1
  <2>8. RunOK(config[h], q, ctx)
    BY <2>3 DEF FileFrom
  <2>9. /\ f.binding = IF ctx.group # Unset THEN ctx.group ELSE ctx.binding
        /\ ctx.group # Unset => f.type = "Group"
        /\ ctx.kind = "schedule" /\ ctx.group = Unset => f.type = "Schedule"
        /\ ctx.kind = "kubernetes" /\ ctx.group = Unset => f.object = ctx.object
    BY <2>4, <2>7, <2>8, FileV1
  <2>10. ctx.binding = b.name /\ ctx.group = b.group
    BY <2>6 DEF BindingRun, KubeRun, SchedRun
  <2>11. b.name = NameOr(o, ctx.kind) /\ b.group = group /\ b.queue = QueueOrMain(o)
    BY <2>6 DEF BindingRun, Asked
  <2>12. f.binding = IF group # Unset THEN group ELSE NameOr(o, ctx.kind)
    BY <2>9, <2>10, <2>11
  <2>13. ctx.type # "Synchronization" => q = QueueOrMain(o)
    BY <2>6, <2>11 DEF BindingRun, KubeRun, SchedRun
  <2>14. ctx.kind = "kubernetes" \/ (ctx.kind = "schedule" /\ ctx.type = Unset)
    BY <2>6 DEF BindingRun, SchedRun
  <2>15. ctx.type = "Synchronization" => Get(o, "executeHookOnSynchronization", TRUE)
    BY <2>6, <2>14, NoType DEF BindingRun, KubeRun, AskedKube
  <2>16. ctx.type = "Event" =>
            ctx.watch \in ToSet(Get(o, "executeHookOnEvent",
                Get(o, "watchEvent", <<"Added", "Modified", "Deleted">>)))
    BY <2>6, <2>14, NoType DEF BindingRun, KubeRun, AskedKube
  <2>17. ASSUME f.type \in {"Synchronization", "Event"}
         PROVE  f.object # Nil <=> Get(o, "keepFullObjectsInMemory", TRUE)
    <3>1. ctx.group = Unset /\ ctx.kind = "kubernetes"
      BY <2>9, <2>14, <2>17
    <3>2. f.object = ctx.object
      BY <2>9, <3>1
    <3>3. (ctx.object # Nil <=> b.full) /\ b.full = Get(o, "keepFullObjectsInMemory", TRUE)
      BY <2>6, <3>1 DEF BindingRun, KubeRun, AskedKube
    <3> QED BY <3>2, <3>3
  <2> QED BY <2>2, <2>12, <2>13, <2>15, <2>16, <2>17
<1> QED BY <1>1, RunsInvariant, PTL

\* The snapshots looked for by the name of a binding are its own if no other
\* binding has the name.
LEMMA OwnSnapshots ==
    ASSUME NEW h, NEW q, NEW ctx, NEW o, NEW b, BindingRun(h, q, ctx, o, b),
           GoodConfig(raw[h], config[h]), UniqueNames(h),
           NEW s, s = SnapshotsOf(config[h], ctx.kind, ctx.binding)
    PROVE  s = b.include
<1>1. PICK bs : bs = config[h][ctx.kind]
  OBVIOUS
<1>2. ctx.kind # "onStartup" /\ ctx.from \in DOMAIN bs /\ b = bs[ctx.from] /\ ctx.binding = b.name
  BY <1>1 DEF BindingRun, KubeRun, SchedRun
<1>3. IsList(bs) /\ \A i, j \in DOMAIN bs : bs[i].name = bs[j].name => i = j
  BY <1>1 DEF BindingRun, GoodConfig, UniqueNames, Kube
<1>4. DOMAIN bs = 1..Len(bs)
  BY <1>3, ListFacts
<1>5. PICK i : i = FirstOf(bs, ctx.binding)
  OBVIOUS
<1>6. i \in 1..Len(bs) /\ i # 0 /\ bs[i].name = ctx.binding
  BY <1>2, <1>3, <1>4, <1>5, FirstNamed
<1>7. i = ctx.from
  <2>1. ctx.from \in DOMAIN bs /\ i \in DOMAIN bs /\ bs[i].name = bs[ctx.from].name
    BY <1>2, <1>4, <1>6, Zenon
  <2> QED BY <1>3, <2>1, Zenon
<1>8. s = bs[i].include
  BY <1>1, <1>2, <1>5, <1>6 DEF SnapshotsOf
<1> QED BY <1>2, <1>7, <1>8

\* What a configuration calls a binding is what was printed.
LEMMA PrintedName ==
    ASSUME NEW h, GoodConfig(raw[h], config[h]), config[h].version = "v1",
           NEW i \in DOMAIN config[h].kubernetes
    PROVE  i # 0 /\ NameOr(RawKube(h)[i], "kubernetes") = config[h].kubernetes[i].name
<1>1. IsList(config[h].kubernetes) /\ DOMAIN config[h].kubernetes = DOMAIN RawKube(h)
  BY DEF GoodConfig, RawKube
<1>2. DOMAIN config[h].kubernetes = 1..Len(config[h].kubernetes)
  BY <1>1, ListFacts
<1>3. i # 0
  BY <1>2
<1>4. "kubernetes" \in DOMAIN raw[h]
  <2>1. RawKube(h) # << >>
    BY <1>1
  <2> QED BY <2>1 DEF RawKube, Get
<1>5. RawKube(h) = raw[h].kubernetes
  BY <1>4 DEF RawKube, Get
<1>6. config[h].kubernetes[i].name = NameOr(raw[h].kubernetes[i], "kubernetes")
  BY DEF GoodConfig, Asked
<1> QED BY <1>3, <1>5, <1>6

LEMMA WantedIsWantedOf ==
    ASSUME NEW h, NEW o
    PROVE  Wanted(h, o) = WantedOf(raw[h], o)
BY DEF Wanted, WantedOf, RawKube

LEMMA HasOwnSnapshots ==
    ASSUME NEW h, NEW q, NEW ctx, NEW since, NEW snap, NEW f, FileFrom(h, q, ctx, since, snap, f),
           config[h].version = "v1", ctx.kind # "onStartup", UniqueNames(h)
    PROVE  HasSnapshots(h, ctx, f)
<1>1. PICK o : o = RawOf(h, ctx)
  OBVIOUS
<1>2. PICK b : BindingRun(h, q, ctx, o, b)
  BY <1>1, RunOfBinding
<1>3. GoodConfig(raw[h], config[h]) /\ RunOK(config[h], q, ctx)
  BY DEF FileFrom
<1>4. PICK s : s = SnapshotsOf(config[h], ctx.kind, ctx.binding)
  OBVIOUS
<1>5. s = b.include
  BY <1>2, <1>3, <1>4, OwnSnapshots
<1>6. /\ DOMAIN snap = ToSet(b.include) /\ snap # Nil
      /\ SnapOK(config, cache, since, h, snap)
  BY <1>4, <1>5 DEF FileFrom
<1>7. ctx.include = b.include
  BY <1>2 DEF BindingRun, KubeRun, SchedRun
<1>8. PICK wanted : wanted = Wanted(h, o)
  OBVIOUS
<1>9. ToSet(b.include) = wanted
  BY <1>2, <1>8, WantedIsWantedOf DEF BindingRun, Asked
<1>10. b.include = << >> <=> wanted = {}
  <2>1. IsList(b.include)
    BY <1>2, <1>3 DEF BindingRun, GoodConfig, BindingOK
  <2>2. PICK x : x = b.include
    OBVIOUS
  <2>3. x = << >> <=> ToSet(x) = {}
    <3>1. Len(x) \in Nat /\ DOMAIN x = 1..Len(x) /\ (x = << >> <=> Len(x) = 0)
      BY <2>1, <2>2, ListFacts
    <3>2. CASE Len(x) = 0
      BY <3>1, <3>2 DEF ToSet
    <3>3. CASE Len(x) # 0
      <4>1. 1 \in DOMAIN x
        BY <3>1, <3>3
      <4> QED BY <3>1, <3>3, <4>1 DEF ToSet
    <3> QED BY <3>2, <3>3
  <2> QED BY <1>9, <2>2, <2>3
<1>11. PICK c : Refreshed(ctx, snap, c) /\ f = MapV1(c)
  BY FileOfV1
<1>12. f.snapshots = IF ctx.include = << >> THEN Nil ELSE snap
  BY <1>3, <1>11, FileV1
<1>13. f.snapshots = IF wanted = {} THEN Nil ELSE snap
  BY <1>7, <1>10, <1>12
<1>14. ASSUME NEW n \in DOMAIN snap
       PROVE  snap[n].of # 0 /\ NameOr(RawKube(h)[snap[n].of], "kubernetes") = n
  <2>1. PICK i : i = snap[n].of
    OBVIOUS
  <2>2. i \in DOMAIN config[h].kubernetes /\ config[h].kubernetes[i].name = n
    BY <1>6, <2>1 DEF SnapOK
  <2>3. i # 0 /\ NameOr(RawKube(h)[i], "kubernetes") = n
    BY <1>3, <2>2, PrintedName
  <2> QED BY <2>1, <2>3
<1> QED BY <1>1, <1>6, <1>8, <1>9, <1>13, <1>14 DEF HasSnapshots

\* A hook whose bindings have names of their own is given exactly the snapshots
\* its binding asks for, by itself or by its group, whichever event triggered it,
\* and none is empty because its monitor is not there yet.
THEOREM RunsWithSnapshotsAsked == Spec => []SnapshotsAsConfigured
<1>1. ASSUME IInv PROVE SnapshotsAsConfigured
  <2> SUFFICES ASSUME NEW q \in Queue, Running(q), NEW t, t = Head(queues[q]),
                      IsBindingRun(t), UniqueNames(t.hook)
               PROVE  HasSnapshots(t.hook, t.ctx, work[q].file)
    BY DEF SnapshotsAsConfigured
  <2>1. PICK snap : FileFrom(t.hook, q, t.ctx, work[q].since, snap, work[q].file)
    BY <1>1, RunningFile
  <2>2. config[t.hook].version = "v1" /\ t.ctx.kind # "onStartup"
    BY DEF IsBindingRun
  <2> QED BY <2>1, <2>2, HasOwnSnapshots
<1> QED BY <1>1, RunsInvariant, PTL
==============================================================================
